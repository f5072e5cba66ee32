------------------------------ MODULE Session ------------------------------
(***************************************************************************)
(* Writing a snapshot: gopbs.Backup, the BackupSession it drives and the   *)
(* server that stores what the session sends and commits it.  Several      *)
(* backups may write the same snapshot reference at the same time.         *)
(*                                                                         *)
(* An index upload is reduced to its first and last request (UploadIndex  *)
(* has the rest).  The content of a file is the pair of the backup that sent it    *)
(* and the file's name; a checksum is the content it was computed from.    *)
(* A request is in flight until the server acts on it, even when the       *)
(* client has stopped waiting for the answer.                              *)
(***************************************************************************)
EXTENDS Integers, Sequences, FiniteSets, Functions

CONSTANTS
  Backups,    \* concurrent calls of Backup
  Ref,        \* the snapshot reference each of them writes
  Option,     \* the options of each: its indexes, in parallel or not, blob, key
  MayFail     \* requests, streams and cancellation may fail a call

IndexNames == {"archive", "catalog", "meta", "payload"}
Steps == <<"blob", "key", "manifest", "finish">>
Names == IndexNames \union {"blob", "key", "manifest", "finish"}

ASSUME SessionConstants ==
  /\ MayFail \in BOOLEAN
  /\ \A b \in Backups : LET o == Option[b] IN
       /\ o.indexes \in Seq(IndexNames) /\ o.indexes # <<>> /\ IsInjective(o.indexes)
       /\ o.parallel \in BOOLEAN /\ o.blob \in BOOLEAN /\ o.key \in BOOLEAN

NoSum == <<>>
Content(b, n) == <<b, n>>
Put(f, k, v) == [x \in DOMAIN f \union {k} |-> IF x = k THEN v ELSE f[x]]

VARIABLES
  bpc,               \* the step a backup is at
  upload,            \* of an index: "off", the request it waits for, "ok" or "error"
  files, byWID,      \* BackupSession: manifest entries, and the entry of a writer id
  conn,              \* the session's connection is open
  net, answer, wid,  \* requests in flight, answers, and the writer id answered to create
  indexes,           \* the server's writers: owner, name and whether closed
  blobs,             \* blobs the server has for a session
  snapshots          \* committed snapshots

clientVars == <<bpc, upload, files, byWID, conn>>
serverVars == <<indexes, blobs, snapshots>>
vars == <<clientVars, net, answer, wid, serverVars>>

Init ==
  /\ bpc = [b \in Backups |-> "start"]
  /\ upload = [b \in Backups |-> [n \in IndexNames |-> "off"]]
  /\ files = [b \in Backups |-> <<>>]
  /\ byWID = [b \in Backups |-> <<>>]
  /\ conn = [b \in Backups |-> FALSE]
  /\ net = [b \in Backups |-> [n \in Names |-> "none"]]
  /\ answer = [b \in Backups |-> [n \in Names |-> "none"]]
  /\ wid = [b \in Backups |-> [n \in IndexNames |-> 0]]
  /\ indexes = <<>> /\ blobs = [b \in Backups |-> <<>>]
  /\ snapshots = {}

-----------------------------------------------------------------------------
(***************************************************************************)
(* The server.                                                             *)
(***************************************************************************)
Reply(b, n, a) ==
  /\ net' = [net EXCEPT ![b][n] = "none"]
  /\ answer' = [answer EXCEPT ![b][n] = a]

ServerCreate(b, n) ==
  /\ net[b][n] = "create"
  /\ indexes' = Append(indexes, [by |-> b, name |-> n, closed |-> FALSE])
  /\ wid' = [wid EXCEPT ![b][n] = Len(indexes) + 1]
  /\ Reply(b, n, "ok")
  /\ UNCHANGED <<blobs, snapshots>>

\* A closed index is complete: that is UploadIndex's ClosedComplete.
ServerClose(b, n) ==
  LET w == wid[b][n] IN
  /\ net[b][n] = "close"
  /\ IF indexes[w].closed
     THEN Reply(b, n, "refused") /\ UNCHANGED indexes
     ELSE Reply(b, n, "ok") /\ indexes' = [indexes EXCEPT ![w].closed = TRUE]
  /\ UNCHANGED <<wid, blobs, snapshots>>

\* The manifest's content is the list of entries it was built from.
BlobContent(b, n) == IF n = "manifest" THEN files[b] ELSE Content(b, n)

ServerBlob(b, n) ==
  /\ net[b][n] = "blob"
  /\ blobs' = [blobs EXCEPT ![b] = Put(@, n, BlobContent(b, n))]
  /\ Reply(b, n, "ok")
  /\ UNCHANGED <<wid, indexes, snapshots>>

Writers(b) == {w \in DOMAIN indexes : indexes[w].by = b}

\* commit refuses a snapshot with an open index and one that exists.
Committable(b) ==
  /\ \A w \in Writers(b) : indexes[w].closed
  /\ \A s \in snapshots : s.ref # Ref[b]

StoredFiles(b) ==
  [n \in DOMAIN blobs[b] \union {indexes[w].name : w \in Writers(b)} |->
     IF n \in DOMAIN blobs[b] THEN blobs[b][n] ELSE Content(b, n)]

ServerFinish(b) ==
  /\ net[b]["finish"] = "finish"
  /\ IF Committable(b)
     THEN /\ Reply(b, "finish", "ok")
          /\ snapshots' = snapshots \union {[ref |-> Ref[b], files |-> StoredFiles(b)]}
     ELSE Reply(b, "finish", "refused") /\ UNCHANGED snapshots
  /\ UNCHANGED <<wid, indexes, blobs>>

Server(b) ==
  /\ \/ \E n \in IndexNames : ServerCreate(b, n) \/ ServerClose(b, n)
     \/ \E n \in Names : ServerBlob(b, n)
     \/ ServerFinish(b)
  /\ UNCHANGED clientVars

-----------------------------------------------------------------------------
(***************************************************************************)
(* One index upload: uploadIndexStream as a client of the session.         *)
(***************************************************************************)
Request(b, n, op) ==
  /\ net' = [net EXCEPT ![b][n] = op]
  /\ answer' = [answer EXCEPT ![b][n] = "none"]

\* CreateDynamicIndex: the entry is placed when the answer has come.
PositionBefore(b) == 1                 \* a mutant: the position is taken before the request
PositionAfter(b) == Len(files[b]) + 2  \* a mutant: the length after the entry was added
Position(b) == Len(files[b]) + 1

Created(b, n) ==
  /\ upload[b][n] = "create" /\ answer[b][n] = "ok"
  /\ byWID' = [byWID EXCEPT ![b] = Put(@, wid[b][n], Position(b))]
  /\ files' = [files EXCEPT ![b] = Append(@, [name |-> n, csum |-> NoSum])]
  /\ upload' = [upload EXCEPT ![b][n] = "append"]
  /\ UNCHANGED <<bpc, conn, net, answer>>

\* All chunks are uploaded and appended; the stream has ended.
AppendedAll(b, n) ==
  /\ upload[b][n] = "append"
  /\ upload' = [upload EXCEPT ![b][n] = "close"]
  /\ Request(b, n, "close")
  /\ UNCHANGED <<bpc, files, byWID, conn>>

\* CloseDynamicIndex
Closed(b, n) ==
  /\ upload[b][n] = "close" /\ answer[b][n] = "ok"
  /\ files' = [files EXCEPT ![b][byWID[b][wid[b][n]]].csum = Content(b, n)]
  /\ upload' = [upload EXCEPT ![b][n] = "ok"]
  /\ UNCHANGED <<bpc, byWID, conn, net, answer>>

\* A refused request, a broken stream or connection, a cancellation; a request that was
\* sent may still reach the server.
UploadFails(b, n) ==
  /\ upload[b][n] \in {"create", "append", "close"}
  /\ MayFail \/ answer[b][n] = "refused"
  /\ upload' = [upload EXCEPT ![b][n] = "error"]
  /\ UNCHANGED <<bpc, files, byWID, conn, net, answer>>

-----------------------------------------------------------------------------
(***************************************************************************)
(* Backup.                                                                 *)
(***************************************************************************)
IndexList(b) == Option[b].indexes
Uploads(b) == Range(IndexList(b))

StartUploads(b, ns) ==
  /\ upload' = [upload EXCEPT ![b] = [n \in IndexNames |-> IF n \in ns THEN "create" ELSE @[n]]]
  /\ net' = [net EXCEPT ![b] = [n \in Names |-> IF n \in ns THEN "create" ELSE @[n]]]
  /\ answer' = [answer EXCEPT ![b] = [n \in Names |-> IF n \in ns THEN "none" ELSE @[n]]]

\* StartBackup, and the generation of the first stream or of both.
Start(b) ==
  /\ bpc[b] = "start"
  /\ \/ /\ bpc' = [bpc EXCEPT ![b] = "index"]
        /\ conn' = [conn EXCEPT ![b] = TRUE]
        /\ StartUploads(b, IF Option[b].parallel THEN Uploads(b) ELSE {Head(IndexList(b))})
     \/ /\ MayFail
        /\ bpc' = [bpc EXCEPT ![b] = "error"]
        /\ UNCHANGED <<conn, upload, net, answer>>
  /\ UNCHANGED <<files, byWID>>

\* The catalog follows the archive of a v1 backup.
NextIndex(b) ==
  /\ bpc[b] = "index" /\ ~Option[b].parallel
  /\ \E i \in 1 .. Len(IndexList(b)) - 1 :
       /\ upload[b][IndexList(b)[i]] = "ok" /\ upload[b][IndexList(b)[i+1]] = "off"
       /\ StartUploads(b, {IndexList(b)[i+1]})
  /\ UNCHANGED <<bpc, files, byWID, conn>>

\* The steps that follow the uploads, those not asked for left out.
Wanted(b, step) ==
  CASE step = "blob" -> Option[b].blob
    [] step = "key" -> Option[b].key
    [] OTHER -> TRUE
StepAfter(b, i) ==
  LET later == {j \in DOMAIN Steps : j > i /\ Wanted(b, Steps[j])} IN
  Steps[CHOOSE j \in later : \A k \in later : j <= k]

Enter(b, step) ==
  /\ bpc' = [bpc EXCEPT ![b] = step]
  /\ Request(b, step, IF step = "finish" THEN "finish" ELSE "blob")

UploadsDoneAny(b) == \E n \in Uploads(b) : upload[b][n] = "ok"   \* a mutant: one error is lost
UploadsDone(b) == \A n \in Uploads(b) : upload[b][n] = "ok"

IndexesDone(b) ==
  /\ bpc[b] = "index" /\ UploadsDone(b)
  /\ \A n \in Uploads(b) : upload[b][n] \in {"ok", "error"}
  /\ Enter(b, StepAfter(b, 0))
  /\ UNCHANGED <<upload, files, byWID, conn>>

\* putBlob: the entry is recorded once the server has the blob.
BlobStored(b) ==
  /\ \E i \in DOMAIN Steps :
       /\ Steps[i] = bpc[b] /\ bpc[b] # "finish" /\ answer[b][bpc[b]] = "ok"
       /\ files' = [files EXCEPT ![b] = Append(@, [name |-> bpc[b], csum |-> BlobContent(b, bpc[b])])]
       /\ Enter(b, StepAfter(b, i))
  /\ UNCHANGED <<upload, byWID, conn>>

\* Finish returns the error of closing the connection, after the commit.
AnyAnswer(b) == answer[b]["finish"] # "none"   \* a mutant: the status of the answer is not looked at
Committed(b) == answer[b]["finish"] = "ok"

FinishDone(b) ==
  /\ bpc[b] = "finish" /\ Committed(b)
  /\ \E result \in {"ok"} \union (IF MayFail THEN {"error"} ELSE {}) : bpc' = [bpc EXCEPT ![b] = result]
  /\ conn' = [conn EXCEPT ![b] = FALSE]
  /\ UNCHANGED <<upload, files, byWID, net, answer>>

\* Backup returns an error, that of an upload, of the generation of the next stream or of
\* Finish, and the deferred Abort closes the connection.
BackupFails(b) ==
  /\ \/ /\ bpc[b] = "index"
        /\ \E n \in Uploads(b) : upload[b][n] = "error" \/ (MayFail /\ upload[b][n] = "off")
        /\ \A n \in Uploads(b) : upload[b][n] \in {"off", "ok", "error"}
     \/ /\ bpc[b] \in Range(Steps)
        /\ MayFail \/ answer[b][bpc[b]] = "refused"
  /\ bpc' = [bpc EXCEPT ![b] = "error"]
  /\ conn' = [conn EXCEPT ![b] = FALSE]
  /\ UNCHANGED <<upload, files, byWID, net, answer>>

Client(b) ==
  /\ \/ Start(b) \/ NextIndex(b) \/ IndexesDone(b) \/ BlobStored(b) \/ FinishDone(b) \/ BackupFails(b)
     \/ \E n \in IndexNames : Created(b, n) \/ AppendedAll(b, n) \/ Closed(b, n) \/ UploadFails(b, n)
  /\ UNCHANGED <<wid, serverVars>>

Next == \E b \in Backups : Client(b) \/ Server(b)
Spec == Init /\ [][Next]_vars

-----------------------------------------------------------------------------
\* The variables have their types.
TypeOK ==
  /\ bpc \in [Backups -> {"start", "index", "ok", "error"} \union Range(Steps)]
  /\ upload \in [Backups -> [IndexNames -> {"off", "create", "append", "close", "ok", "error"}]]
  /\ conn \in [Backups -> BOOLEAN]
  /\ net \in [Backups -> [Names -> {"none", "create", "close", "blob", "finish"}]]
  /\ answer \in [Backups -> [Names -> {"none", "ok", "refused"}]]
  /\ \A b \in Backups :
       /\ \A n \in IndexNames : wid[b][n] \in 0 .. Len(indexes)
       /\ \A i \in DOMAIN files[b] : files[b][i].name \in Names
       /\ DOMAIN byWID[b] \subseteq Writers(b) /\ \A w \in DOMAIN byWID[b] : byWID[b][w] \in DOMAIN files[b]

\* What a manifest lists is what the snapshot holds: every file once, with the checksum of
\* the content the server stores under that name, and all of it from one backup.
Consistent(s) ==
  LET m == s.files["manifest"] IN
  /\ {m[i].name : i \in DOMAIN m} = DOMAIN s.files \ {"manifest"}
  /\ \A i, j \in DOMAIN m : m[i].name = m[j].name => i = j
  /\ \A i \in DOMAIN m : m[i].csum = s.files[m[i].name]

\* The files a backup was asked for.
Asked(b) == Uploads(b) \union {n \in {"blob", "key"} : Wanted(b, n)}

\* A snapshot that is committed, even by a Finish that reported an error, is a whole
\* backup: its manifest is consistent and it holds all that one call was asked to store.
Whole ==
  \A s \in snapshots :
    /\ "manifest" \in DOMAIN s.files /\ Consistent(s)
    /\ \E b \in Backups : /\ Ref[b] = s.ref
                           /\ Asked(b) \union {"manifest"} = DOMAIN s.files
                           /\ \A n \in Asked(b) : s.files[n] = Content(b, n)

\* A backup that returns success is the one that is stored: of two that write the same
\* reference at the same time only one can report success.
SuccessIsCommitted ==
  \A b \in Backups : bpc[b] = "ok" =>
    \E s \in snapshots : s.ref = Ref[b] /\ \A n \in Asked(b) : n \in DOMAIN s.files /\ s.files[n] = Content(b, n)
=============================================================================
