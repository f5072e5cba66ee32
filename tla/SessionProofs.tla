--------------------------- MODULE SessionProofs ---------------------------
(***************************************************************************)
(* Proofs about Session, for any number of backups, references and         *)
(* options: a committed snapshot is one whole backup, and a backup that    *)
(* returns success is committed.                                           *)
(***************************************************************************)
EXTENDS Session, SequenceLemmas

\* Checksums, manifest entries and the server's writers.
Plain == {NoSum} \union (Backups \X Names)
PlainEntry == [name : Names, csum : Plain]
Entry == [name : Names, csum : Plain \union Seq(PlainEntry)]
Writer == [by : Backups, name : IndexNames, closed : BOOLEAN]

Types ==
  /\ bpc \in [Backups -> {"start", "index", "ok", "error"} \union Range(Steps)]
  /\ upload \in [Backups -> [IndexNames -> {"off", "create", "append", "close", "ok", "error"}]]
  /\ conn \in [Backups -> BOOLEAN]
  /\ net \in [Backups -> [Names -> {"none", "create", "close", "blob", "finish"}]]
  /\ answer \in [Backups -> [Names -> {"none", "ok", "refused"}]]
  /\ files \in [Backups -> Seq(Entry)]
  /\ wid \in [Backups -> [IndexNames -> Nat]]
  /\ indexes \in Seq(Writer)
  /\ DOMAIN byWID = Backups /\ DOMAIN blobs = Backups

HasEntry(b, n) == \E i \in DOMAIN files[b] : files[b][i].name = n
\* The server's writer for index n of backup b.
Owned(b, n) == wid[b][n] \in DOMAIN indexes /\ indexes[wid[b][n]].by = b /\ indexes[wid[b][n]].name = n
Entered(b, n) == byWID[b][wid[b][n]]
Placed(b, n) ==
  /\ Owned(b, n) /\ wid[b][n] \in DOMAIN byWID[b]
  /\ Entered(b, n) \in DOMAIN files[b] /\ files[b][Entered(b, n)].name = n

\* No upload has two writers.
OneWriter == \A w \in DOMAIN indexes : wid[indexes[w].by][indexes[w].name] = w

\* Where an upload, its entry in the manifest and its writer on the server stand.
UploadOf(b, n) ==
  /\ n \notin Uploads(b) \/ bpc[b] = "start" => upload[b][n] = "off"
  /\ upload[b][n] = "off" => net[b][n] = "none" /\ ~Owned(b, n)
  /\ HasEntry(b, n) => upload[b][n] \in {"append", "close", "ok", "error"}
  /\ net[b][n] \in {"none", "create", "close"}
  /\ net[b][n] = "create" => ~Owned(b, n) /\ upload[b][n] \in {"create", "error"} /\ answer[b][n] = "none"
  /\ net[b][n] = "close" => Owned(b, n) /\ upload[b][n] \in {"close", "error"} /\ answer[b][n] = "none"
  /\ upload[b][n] = "create" /\ answer[b][n] = "ok" => Owned(b, n)
  /\ upload[b][n] \in {"append", "close", "ok"} => Placed(b, n)
  /\ upload[b][n] = "close" /\ answer[b][n] = "ok" => indexes[wid[b][n]].closed
  /\ upload[b][n] = "ok" => indexes[wid[b][n]].closed

\* The steps after the uploads.
Begun(b, s) == net[b][s] # "none" \/ answer[b][s] # "none" \/ s \in DOMAIN blobs[b] \/ HasEntry(b, s)
Stored(b, s) == s \in DOMAIN blobs[b] /\ HasEntry(b, s)
StepNames == {"blob", "key", "manifest", "finish"}
Before(s) ==
  {t \in {"blob", "key", "manifest"} : s = "finish" \/ (s = "manifest" /\ t # "manifest") \/ (s = "key" /\ t = "blob")}

StepOf(b, s) ==
  /\ Begun(b, s) => UploadsDone(b) /\ Wanted(b, s) /\ \A t \in Before(s) : Wanted(b, t) => Stored(b, t)
  /\ bpc[b] \in {"start", "index"} \union Before(s) => ~Begun(b, s)
  /\ bpc[b] = s => Begun(b, s) /\ ~HasEntry(b, s)
  /\ net[b][s] \in {"none", IF s = "finish" THEN "finish" ELSE "blob"}
  /\ net[b][s] # "none" => ~HasEntry(b, s) /\ answer[b][s] = "none"
  /\ HasEntry(b, s) \/ (s # "finish" /\ answer[b][s] = "ok") => s \in DOMAIN blobs[b]
  /\ s = "finish" => s \notin DOMAIN blobs[b]
  /\ s \in DOMAIN blobs[b] /\ s \in {"blob", "key"} => blobs[b][s] = Content(b, s)

\* The manifest entries of a backup.
EntriesOf(b) ==
  /\ \A i, j \in DOMAIN files[b] : files[b][i].name = files[b][j].name => i = j
  /\ \A i \in DOMAIN files[b] :
       LET e == files[b][i] IN
       /\ e.name # "manifest" => e.csum \in Plain
       /\ e.name \in {"blob", "key"} => e.csum = Content(b, e.name)
       /\ e.name \in IndexNames /\ upload[b][e.name] = "ok" => e.csum = Content(b, e.name)

Lists(b, m) ==
  /\ DOMAIN m \subseteq Nat
  /\ {m[i].name : i \in DOMAIN m} = Asked(b)
  /\ \A i, j \in DOMAIN m : m[i].name = m[j].name => i = j
  /\ \A i \in DOMAIN m : m[i].csum = Content(b, m[i].name)

BlobsOf(b) ==
  /\ DOMAIN blobs[b] \subseteq StepNames
  /\ "manifest" \in DOMAIN blobs[b] => Lists(b, blobs[b]["manifest"])

WritersOf(b) ==
  /\ DOMAIN byWID[b] \subseteq Writers(b) /\ \A w \in DOMAIN byWID[b] : byWID[b][w] \in DOMAIN files[b]
  /\ \A n \in IndexNames : wid[b][n] \in 0 .. Len(indexes)

InStore(b) ==
  \E s \in snapshots : s.ref = Ref[b] /\ \A n \in Asked(b) : n \in DOMAIN s.files /\ s.files[n] = Content(b, n)
OutcomeOf(b) == answer[b]["finish"] = "ok" \/ bpc[b] = "ok" => InStore(b)

BackupOf(b) ==
  /\ \A n \in IndexNames : UploadOf(b, n)
  /\ \A s \in StepNames : StepOf(b, s)
  /\ EntriesOf(b) /\ BlobsOf(b) /\ WritersOf(b) /\ OutcomeOf(b)

SessionInv == Types /\ OneWriter /\ (\A b \in Backups : BackupOf(b)) /\ Whole

-----------------------------------------------------------------------------
LEMMA Options ==
  ASSUME NEW b \in Backups
  PROVE  /\ IndexList(b) \in Seq(IndexNames) /\ IndexList(b) # <<>>
         /\ \A n \in Uploads(b) : n \in IndexNames
         /\ \A i \in 1 .. Len(IndexList(b)) : IndexList(b)[i] \in Uploads(b)
         /\ Head(IndexList(b)) \in Uploads(b)
<1>1. IndexList(b) \in Seq(IndexNames) /\ IndexList(b) # <<>>
  BY SessionConstants DEF IndexList
<1>2. DOMAIN IndexList(b) = 1 .. Len(IndexList(b))
  BY <1>1
<1>3. \A i \in 1 .. Len(IndexList(b)) : IndexList(b)[i] \in Uploads(b) /\ IndexList(b)[i] \in IndexNames
  BY <1>1, <1>2, ElementType DEF Uploads, Range
<1>4. \A n \in Uploads(b) : n \in IndexNames
  BY <1>2, <1>3 DEF Uploads, Range
<1>5. Head(IndexList(b)) \in Uploads(b)
  BY <1>1, <1>3, HeadAt
<1> QED
  BY <1>1, <1>3, <1>4, <1>5

LEMMA Naming ==
  /\ Names = IndexNames \union StepNames
  /\ \A n \in IndexNames : n \notin StepNames /\ n \in Names
  /\ \A s \in StepNames : s \notin IndexNames /\ s \in Names
  BY DEF Names, IndexNames, StepNames

LEMMA StepList ==
  /\ DOMAIN Steps = {1, 2, 3, 4} /\ Range(Steps) = StepNames
  /\ Steps[1] = "blob" /\ Steps[2] = "key" /\ Steps[3] = "manifest" /\ Steps[4] = "finish"
<1>1. DOMAIN Steps = {1, 2, 3, 4}
  BY DEF Steps
<1>2. Steps[1] = "blob" /\ Steps[2] = "key" /\ Steps[3] = "manifest" /\ Steps[4] = "finish"
  BY DEF Steps
<1> QED
  BY <1>1, <1>2 DEF Range, StepNames

\* The step after step i is the first wanted one.
LEMMA NextStep ==
  ASSUME NEW b \in Backups, NEW i \in 0 .. 3
  PROVE  LET s == StepAfter(b, i) IN
         /\ s \in StepNames /\ Wanted(b, s)
         /\ i > 0 => Steps[i] \in Before(s)
         /\ \A t \in Before(s) : Wanted(b, t) /\ i > 0 => t = Steps[i] \/ t \in Before(Steps[i])
         /\ i = 0 => \A t \in Before(s) : ~Wanted(b, t)
<1> DEFINE later == {j \in DOMAIN Steps : j > i /\ Wanted(b, Steps[j])}
           least == CHOOSE j \in later : \A k \in later : j <= k
<1>1. Wanted(b, "manifest") /\ Wanted(b, "finish")
  BY DEF Wanted
<1>2. \E j \in later : \A k \in later : j <= k
  <2>1. \A j \in later : j \in {1, 2, 3, 4} /\ j > i
    BY StepList
  <2>2. CASE i = 3
    <3>1. 4 \in later
      BY <1>1, <2>2, StepList
    <3> HIDE DEF later
    <3> QED
      BY <2>1, <2>2, <3>1
  <2>3. CASE i < 3
    <3>1. 3 \in later
      BY <1>1, <2>3, StepList
    <3> HIDE DEF later
    <3>2. CASE 1 \in later
      BY <2>1, <3>2
    <3>3. CASE 1 \notin later /\ 2 \in later
      BY <2>1, <3>3
    <3>4. CASE 1 \notin later /\ 2 \notin later
      BY <2>1, <3>1, <3>4
    <3> QED
      BY <3>2, <3>3, <3>4
  <2> QED
    BY <2>2, <2>3
<1>3. least \in later /\ \A k \in later : least <= k
  BY <1>2
<1>4. StepAfter(b, i) = Steps[least]
  BY DEF StepAfter
<1> HIDE DEF least
<1>5. least \in {1, 2, 3, 4} /\ least > i /\ Wanted(b, Steps[least])
  BY <1>3, StepList
<1>6. \A k \in {1, 2, 3, 4} : k > i /\ k < least => ~Wanted(b, Steps[k])
  BY <1>3, <1>5, StepList
<1>7. \A t \in {"blob", "key", "manifest"} : \E k \in {1, 2, 3} : t = Steps[k]
  BY StepList
<1>8. \A k, m \in {1, 2, 3, 4} : Steps[k] \in Before(Steps[m]) <=> k < m
  BY StepList DEF Before
<1>9. ASSUME NEW t \in Before(Steps[least]), Wanted(b, t)
      PROVE  i > 0 /\ (t = Steps[i] \/ t \in Before(Steps[i]))
  <2>1. PICK k \in {1, 2, 3} : t = Steps[k]
    BY <1>7 DEF Before
  <2>2. k < least
    BY <1>5, <1>8, <2>1
  <2>3. k <= i
    BY <1>5, <1>6, <1>9, <2>1, <2>2
  <2> QED
    BY <1>8, <2>1, <2>3
<1>10. Steps[least] \in StepNames
  BY <1>5, StepList DEF StepNames
<1>11. i > 0 => Steps[i] \in Before(Steps[least])
  BY <1>5, <1>8
<1> QED
  BY <1>4, <1>5, <1>9, <1>10, <1>11

LEMMA EntryAppend ==
  ASSUME NEW b \in Backups, files[b] \in Seq(Entry), NEW e \in Entry, files'[b] = Append(files[b], e)
  PROVE  /\ files'[b] \in Seq(Entry) /\ Len(files[b]) \in Nat
         /\ DOMAIN files[b] = 1 .. Len(files[b]) /\ DOMAIN files'[b] = 1 .. Len(files[b]) + 1
         /\ files'[b][Len(files[b]) + 1] = e
         /\ \A i \in DOMAIN files[b] : i \in DOMAIN files'[b] /\ files'[b][i] = files[b][i] /\ i # Len(files[b]) + 1
         /\ \A i \in DOMAIN files'[b] : i \in DOMAIN files[b] \/ i = Len(files[b]) + 1
         /\ \A n : HasEntry(b, n)' <=> HasEntry(b, n) \/ n = e.name
<1>1. files'[b] \in Seq(Entry) /\ Len(files[b]) \in Nat /\ Len(files'[b]) = Len(files[b]) + 1
  BY AppendType, LenType, AppendAt
<1>2. DOMAIN files[b] = 1 .. Len(files[b]) /\ DOMAIN files'[b] = 1 .. Len(files[b]) + 1
  BY <1>1
<1>3. files'[b][Len(files[b]) + 1] = e /\ \A i \in 1 .. Len(files[b]) : files'[b][i] = files[b][i]
  BY AppendAt
<1>4. \A i \in 1 .. Len(files[b]) : i \in 1 .. Len(files[b]) + 1 /\ i # Len(files[b]) + 1
  BY <1>1
<1>5. \A i \in 1 .. Len(files[b]) + 1 : i \in 1 .. Len(files[b]) \/ i = Len(files[b]) + 1
  BY <1>1
<1>6. Len(files[b]) + 1 \in 1 .. Len(files[b]) + 1
  BY <1>1
<1>7. \A n : HasEntry(b, n)' <=> HasEntry(b, n) \/ n = e.name
  BY <1>2, <1>3, <1>4, <1>5, <1>6 DEF HasEntry
<1> QED
  BY <1>1, <1>2, <1>3, <1>4, <1>5, <1>7

-----------------------------------------------------------------------------
\* A step of one backup, as the others see it.
SameBackup(c) ==
  /\ bpc'[c] = bpc[c] /\ upload'[c] = upload[c] /\ files'[c] = files[c] /\ byWID'[c] = byWID[c]
  /\ net'[c] = net[c] /\ answer'[c] = answer[c] /\ wid'[c] = wid[c] /\ blobs'[c] = blobs[c]
\* The writers of c stay as they are.
SameWriters(c) ==
  /\ \A w \in DOMAIN indexes : indexes[w].by = c => w \in DOMAIN indexes' /\ indexes'[w] = indexes[w]
  /\ \A w \in DOMAIN indexes' : indexes'[w].by = c => w \in DOMAIN indexes /\ indexes'[w] = indexes[w]
  /\ Len(indexes) \in Nat /\ Len(indexes') \in Nat /\ Len(indexes') >= Len(indexes)

LEMMA OwnedSame ==
  ASSUME NEW c \in Backups, NEW n \in IndexNames, SameWriters(c), wid'[c] = wid[c]
  PROVE  Owned(c, n)' <=> Owned(c, n)
  BY DEF SameWriters, Owned

LEMMA StoreKept ==
  ASSUME NEW c \in Backups, InStore(c), \A s \in snapshots : s \in snapshots'
  PROVE  InStore(c)'
  BY DEF InStore, Asked, Wanted, Uploads, IndexList

LEMMA FrameBackup ==
  ASSUME NEW c \in Backups, BackupOf(c), SameBackup(c), SameWriters(c), \A s \in snapshots : s \in snapshots'
  PROVE  BackupOf(c)'
<1> USE DEF SameBackup
<1>1. ASSUME NEW n \in IndexNames PROVE UploadOf(c, n)'
  <2>1. UploadOf(c, n) /\ (Owned(c, n)' <=> Owned(c, n)) /\ (HasEntry(c, n)' <=> HasEntry(c, n))
    BY OwnedSame DEF BackupOf, HasEntry
  <2>2. Placed(c, n) => Placed(c, n)'
    BY <2>1 DEF Placed, Entered
  <2>3. Owned(c, n) => indexes'[wid[c][n]] = indexes[wid[c][n]]
    BY DEF SameWriters, Owned
  <2> QED
    BY <2>1, <2>2, <2>3 DEF UploadOf, Placed, Uploads, IndexList
<1>2. ASSUME NEW s \in StepNames PROVE StepOf(c, s)'
  <2>1. StepOf(c, s) /\ \A t \in StepNames : HasEntry(c, t)' <=> HasEntry(c, t)
    BY DEF BackupOf, HasEntry
  <2> QED
    BY <2>1 DEF StepOf, Begun, Stored, Before, UploadsDone, Wanted, Uploads, IndexList, StepNames, Content
<1>3. EntriesOf(c)'
  BY DEF BackupOf, EntriesOf, Plain, Content
<1>4. BlobsOf(c)'
  BY SMTT(30) DEF BackupOf, BlobsOf, Lists, Asked, Wanted, Uploads, IndexList, Content
<1>5. WritersOf(c)'
  <2>1. WritersOf(c) /\ \A w \in Writers(c) : w \in Writers(c)'
    BY DEF BackupOf, Writers, SameWriters
  <2>2. \A w \in DOMAIN byWID[c] : w \in Writers(c)' /\ byWID[c][w] \in DOMAIN files[c]
    BY <2>1 DEF WritersOf
  <2>3. \A n \in IndexNames : wid[c][n] \in 0 .. Len(indexes')
    BY <2>1 DEF WritersOf, SameWriters
  <2> QED
    BY <2>2, <2>3 DEF WritersOf
<1>6. OutcomeOf(c)'
  BY StoreKept DEF BackupOf, OutcomeOf
<1> QED
  BY <1>1, <1>2, <1>3, <1>4, <1>5, <1>6 DEF BackupOf

-----------------------------------------------------------------------------
(***************************************************************************)
(* What a step of backup b leaves as it is.                                *)
(***************************************************************************)
LEMMA UploadKept ==
  ASSUME NEW b \in Backups, NEW n \in IndexNames, UploadOf(b, n),
         upload'[b][n] = upload[b][n], net'[b][n] = net[b][n], answer'[b][n] = answer[b][n], wid'[b][n] = wid[b][n],
         Owned(b, n)' <=> Owned(b, n), HasEntry(b, n)' <=> HasEntry(b, n), Placed(b, n) => Placed(b, n)',
         Owned(b, n) /\ indexes[wid[b][n]].closed => indexes'[wid[b][n]].closed,
         bpc'[b] = "start" => bpc[b] = "start"
  PROVE  UploadOf(b, n)'
  BY DEF UploadOf, Placed, Uploads, IndexList

LEMMA StepKept ==
  ASSUME NEW b \in Backups, NEW s \in StepNames, StepOf(b, s),
         net'[b][s] = net[b][s], answer'[b][s] = answer[b][s], blobs'[b] = blobs[b],
         \A t \in StepNames : HasEntry(b, t)' <=> HasEntry(b, t),
         UploadsDone(b) => UploadsDone(b)',
         \/ bpc'[b] = bpc[b]
         \/ bpc'[b] \in {"ok", "error"}
         \/ bpc[b] = "start" /\ bpc'[b] = "index"
  PROVE  StepOf(b, s)'
<1>1. Begun(b, s)' <=> Begun(b, s)
  BY DEF Begun
<1>2. Wanted(b, s)' <=> Wanted(b, s)
  BY DEF Wanted
<1>3. \A t \in Before(s) : t \in StepNames /\ (Wanted(b, t)' <=> Wanted(b, t)) /\ (Stored(b, t)' <=> Stored(b, t))
  BY DEF Before, Wanted, Stored, StepNames
<1>4. "ok" \notin StepNames /\ "error" \notin StepNames /\ "index" \notin StepNames
  BY DEF StepNames
<1>5. "ok" \notin Before(s) /\ "error" \notin Before(s)
  BY DEF Before
<1> QED
  BY <1>1, <1>2, <1>3, <1>4, <1>5 DEF StepOf, Before, Content

\* While an upload runs, no later step has begun.
LEMMA NotBegun ==
  ASSUME NEW b \in Backups, BackupOf(b), ~UploadsDone(b)
  PROVE  \A s \in StepNames : ~Begun(b, s)
  BY DEF BackupOf, StepOf

\* Nothing of backup c changes.
Others(b) == \A c \in Backups \ {b} : SameBackup(c)

LEMMA ClientFrame ==
  ASSUME SessionInv, NEW b \in Backups, UNCHANGED <<wid, serverVars>>, Others(b), Types', BackupOf(b)'
  PROVE  SessionInv'
<1> USE DEF serverVars
<1>1. ASSUME NEW c \in Backups \ {b} PROVE BackupOf(c)'
  <2>1. SameBackup(c) /\ BackupOf(c)
    BY DEF Others, SessionInv
  <2>2. SameWriters(c)
    <3>1. Len(indexes) \in Nat
      BY LenType DEF SessionInv, Types
    <3> QED
      BY <3>1 DEF SameWriters
  <2> QED
    BY <2>1, <2>2, FrameBackup
<1>2. \A c \in Backups : BackupOf(c)'
  BY <1>1
<1>3. OneWriter'
  BY DEF SessionInv, OneWriter
<1>4. Whole'
  BY DEF SessionInv, Whole, Consistent, Asked, Wanted, Uploads, IndexList, Content
<1> QED
  BY <1>2, <1>3, <1>4 DEF SessionInv

\* Parts that a client step leaves alone.
LEMMA WritersKept ==
  ASSUME NEW b \in Backups, WritersOf(b), UNCHANGED <<wid, serverVars>>, byWID'[b] = byWID[b],
         \A i \in DOMAIN files[b] : i \in DOMAIN files'[b]
  PROVE  WritersOf(b)'
  BY DEF WritersOf, Writers, serverVars

LEMMA BlobsKept ==
  ASSUME NEW b \in Backups, BlobsOf(b), blobs'[b] = blobs[b]
  PROVE  BlobsOf(b)'
  BY DEF BlobsOf, Lists, Asked, Wanted, Uploads, IndexList, Content

LEMMA OutcomeKept ==
  ASSUME NEW b \in Backups, OutcomeOf(b), \A s \in snapshots : s \in snapshots',
         answer'[b]["finish"] \in {answer[b]["finish"], "none"},
         bpc'[b] = "ok" => bpc[b] = "ok" \/ answer[b]["finish"] = "ok"
  PROVE  OutcomeOf(b)'
  BY StoreKept DEF OutcomeOf

LEMMA FailsKeeps ==
  ASSUME SessionInv, NEW b \in Backups, NEW n \in IndexNames, UploadFails(b, n), UNCHANGED <<wid, serverVars>>
  PROVE  SessionInv'
<1> USE DEF UploadFails, serverVars
<1>1. Types /\ BackupOf(b)
  BY DEF SessionInv
<1>2. /\ upload'[b][n] = "error"
      /\ \A m \in IndexNames \ {n} : upload'[b][m] = upload[b][m]
      /\ \A c \in Backups \ {b} : upload'[c] = upload[c]
      /\ upload' \in [Backups -> [IndexNames -> {"off", "create", "append", "close", "ok", "error"}]]
  BY <1>1 DEF Types
<1>3. Types'
  BY <1>1, <1>2 DEF Types, Entry, Plain, PlainEntry, Writer
<1>4. Others(b)
  BY <1>2 DEF Others, SameBackup
<1>5. \A m \in IndexNames : (Owned(b, m)' <=> Owned(b, m)) /\ (HasEntry(b, m)' <=> HasEntry(b, m)) /\ (Placed(b, m)' <=> Placed(b, m))
  BY DEF Owned, HasEntry, Placed, Entered
<1>6. ASSUME NEW m \in IndexNames PROVE UploadOf(b, m)'
  <2>1. UploadOf(b, m)
    BY <1>1 DEF BackupOf
  <2>2. CASE m = n
    BY <1>2, <1>5, <2>1, <2>2 DEF UploadOf, Uploads, IndexList
  <2>3. CASE m # n
    BY <1>2, <1>5, <2>1, <2>3, UploadKept
  <2> QED
    BY <2>2, <2>3
<1>7. ASSUME NEW s \in StepNames PROVE StepOf(b, s)'
  <2>1. StepOf(b, s) /\ \A t \in StepNames : HasEntry(b, t)' <=> HasEntry(b, t)
    BY <1>1 DEF BackupOf, HasEntry
  <2>2. n \in Uploads(b)
    BY <1>1 DEF BackupOf, UploadOf
  <2>3. ~UploadsDone(b)
    BY <2>2 DEF UploadsDone
  <2> QED
    BY <2>1, <2>3, StepKept
<1>8. EntriesOf(b)'
  BY <1>1, <1>2 DEF BackupOf, EntriesOf, Plain, Content
<1>9. BlobsOf(b)' /\ WritersOf(b)' /\ OutcomeOf(b)'
  BY <1>1, BlobsKept, WritersKept, OutcomeKept DEF BackupOf
<1>10. BackupOf(b)'
  BY <1>6, <1>7, <1>8, <1>9 DEF BackupOf
<1> QED
  BY <1>3, <1>4, <1>10, ClientFrame

LEMMA AppendedKeeps ==
  ASSUME SessionInv, NEW b \in Backups, NEW n \in IndexNames, AppendedAll(b, n), UNCHANGED <<wid, serverVars>>
  PROVE  SessionInv'
<1> USE DEF AppendedAll, Request, serverVars
<1>1. Types /\ BackupOf(b)
  BY DEF SessionInv
<1>2. /\ upload'[b][n] = "close" /\ net'[b][n] = "close" /\ answer'[b][n] = "none"
      /\ \A m \in IndexNames \ {n} : upload'[b][m] = upload[b][m]
      /\ \A m \in Names \ {n} : net'[b][m] = net[b][m] /\ answer'[b][m] = answer[b][m]
      /\ \A c \in Backups \ {b} : upload'[c] = upload[c] /\ net'[c] = net[c] /\ answer'[c] = answer[c]
  BY <1>1, Naming DEF Types
<1>3. Types'
  BY <1>1 DEF Types, Entry, Plain, PlainEntry, Writer
<1>4. Others(b)
  BY <1>2 DEF Others, SameBackup
<1>5. \A m \in IndexNames : (Owned(b, m)' <=> Owned(b, m)) /\ (HasEntry(b, m)' <=> HasEntry(b, m)) /\ (Placed(b, m)' <=> Placed(b, m))
  BY DEF Owned, HasEntry, Placed, Entered
<1>6. ASSUME NEW m \in IndexNames PROVE UploadOf(b, m)'
  <2>1. UploadOf(b, m)
    BY <1>1 DEF BackupOf
  <2>2. CASE m = n
    BY <1>2, <1>5, <2>1, <2>2 DEF UploadOf, Uploads, IndexList, Placed
  <2>3. CASE m # n
    BY <1>2, <1>5, <2>1, <2>3, UploadKept, Naming
  <2> QED
    BY <2>2, <2>3
<1>7. ASSUME NEW s \in StepNames PROVE StepOf(b, s)'
  <2>1. StepOf(b, s) /\ \A t \in StepNames : HasEntry(b, t)' <=> HasEntry(b, t)
    BY <1>1 DEF BackupOf, HasEntry
  <2>2. n \in Uploads(b)
    BY <1>1 DEF BackupOf, UploadOf
  <2>3. ~UploadsDone(b)
    BY <2>2 DEF UploadsDone
  <2>4. s \in Names \ {n}
    BY Naming
  <2> QED
    BY <1>2, <2>1, <2>3, <2>4, StepKept
<1>8. EntriesOf(b)'
  BY <1>1, <1>2 DEF BackupOf, EntriesOf, Plain, Content
<1>9. answer'[b]["finish"] = answer[b]["finish"]
  BY <1>2, Naming DEF StepNames
<1>10. BlobsOf(b)' /\ WritersOf(b)' /\ OutcomeOf(b)'
  BY <1>1, <1>9, BlobsKept, WritersKept, OutcomeKept DEF BackupOf
<1>11. BackupOf(b)'
  BY <1>6, <1>7, <1>8, <1>10 DEF BackupOf
<1> QED
  BY <1>3, <1>4, <1>11, ClientFrame

LEMMA EntryUpdate ==
  ASSUME NEW f \in Seq(Entry), NEW p \in DOMAIN f, NEW e \in Entry, NEW g,
         DOMAIN g = DOMAIN f, g = [i \in DOMAIN f |-> g[i]], g[p] = e, \A i \in DOMAIN f : i # p => g[i] = f[i]
  PROVE  g \in Seq(Entry)
<1>2. Len(f) \in Nat /\ DOMAIN f = 1 .. Len(f)
  BY LenType
<1>3. \A i \in DOMAIN f : g[i] \in Entry
  BY ElementType
<1>4. g \in [1 .. Len(f) -> Entry]
  BY <1>2, <1>3
<1> QED
  BY <1>2, <1>4

LEMMA ClosedKeeps ==
  ASSUME SessionInv, NEW b \in Backups, NEW n \in IndexNames, Closed(b, n), UNCHANGED <<wid, serverVars>>
  PROVE  SessionInv'
<1> USE DEF serverVars
<1>0. UNCHANGED <<bpc, byWID, conn, net, answer>>
  BY DEF Closed
<1>1. Types /\ BackupOf(b)
  BY DEF SessionInv
<1>2. /\ upload'[b][n] = "ok"
      /\ \A m \in IndexNames \ {n} : upload'[b][m] = upload[b][m]
      /\ \A c \in Backups \ {b} : upload'[c] = upload[c]
      /\ upload' \in [Backups -> [IndexNames -> {"off", "create", "append", "close", "ok", "error"}]]
  BY <1>1 DEF Types, Closed
<1>3. UploadOf(b, n) /\ Placed(b, n) /\ upload[b][n] = "close" /\ answer[b][n] = "ok"
  BY <1>1 DEF BackupOf, UploadOf, Closed
<1>4. PICK p : p = Entered(b, n)
  OBVIOUS
<1>5. p \in DOMAIN files[b] /\ files[b][p].name = n
  BY <1>3, <1>4 DEF Placed
<1>6. files[b] \in Seq(Entry) /\ files' = [files EXCEPT ![b] = [files[b] EXCEPT ![p].csum = Content(b, n)]]
  BY <1>1, <1>4 DEF Types, Entered, Closed
<1>7. files'[b] = [files[b] EXCEPT ![p] = [files[b][p] EXCEPT !.csum = Content(b, n)]] /\ \A c \in Backups \ {b} : files'[c] = files[c]
  BY <1>1, <1>6 DEF Types
<1>8. files[b][p] \in Entry
  BY <1>5, <1>6, ElementType
<1>9. PICK e : e = [files[b][p] EXCEPT !.csum = Content(b, n)]
  OBVIOUS
<1>10. e \in Entry /\ e.name = n /\ e.csum = Content(b, n) /\ e.csum \in Plain
  <2>1. Content(b, n) \in Plain
    BY Naming DEF Content, Plain
  <2> QED
    BY <1>5, <1>8, <1>9, <2>1 DEF Entry
<1>11. /\ DOMAIN files'[b] = DOMAIN files[b] /\ files'[b] \in Seq(Entry)
       /\ files'[b][p] = e /\ \A i \in DOMAIN files[b] : i # p => files'[b][i] = files[b][i]
       /\ \A i \in DOMAIN files[b] : files'[b][i].name = files[b][i].name
  <2>1. files'[b] = [files[b] EXCEPT ![p] = e]
    BY <1>7, <1>9
  <2>2. /\ DOMAIN files'[b] = DOMAIN files[b] /\ files'[b] = [i \in DOMAIN files[b] |-> files'[b][i]]
        /\ files'[b][p] = e /\ \A i \in DOMAIN files[b] : i # p => files'[b][i] = files[b][i]
    BY <1>5, <2>1
  <2>3. files[b] \in Seq(Entry) /\ p \in DOMAIN files[b] /\ e \in Entry
    BY <1>5, <1>6, <1>10
  <2>4. files'[b] \in Seq(Entry)
    BY <2>2, <2>3, EntryUpdate
  <2> QED
    BY <1>5, <1>10, <2>2, <2>4
<1>12. Types'
  <2>1. files' \in [Backups -> Seq(Entry)]
    BY <1>1, <1>6, <1>7, <1>11 DEF Types
  <2> QED
    BY <1>0, <1>1, <1>2, <2>1 DEF Types, Entry, Plain, PlainEntry, Writer
<1>13. Others(b)
  BY <1>0, <1>2, <1>7 DEF Others, SameBackup
<1>14. \A m : HasEntry(b, m)' <=> HasEntry(b, m)
  BY <1>11 DEF HasEntry
<1>15. \A m \in IndexNames : (Owned(b, m)' <=> Owned(b, m)) /\ (Placed(b, m)' <=> Placed(b, m))
  BY <1>0, <1>11 DEF Owned, Placed, Entered
<1>16. ASSUME NEW m \in IndexNames PROVE UploadOf(b, m)'
  <2>1. UploadOf(b, m)
    BY <1>1 DEF BackupOf
  <2>2. CASE m = n
    BY <1>0, <1>2, <1>3, <1>14, <1>15, <2>1, <2>2 DEF UploadOf, Uploads, IndexList
  <2>3. CASE m # n
    BY <1>0, <1>2, <1>14, <1>15, <2>1, <2>3, UploadKept
  <2> QED
    BY <2>2, <2>3
<1>17. ASSUME NEW s \in StepNames PROVE StepOf(b, s)'
  <2>1. StepOf(b, s)
    BY <1>1 DEF BackupOf
  <2>2. n \in Uploads(b)
    BY <1>3 DEF UploadOf
  <2>3. ~UploadsDone(b)
    BY <1>3, <2>2 DEF UploadsDone
  <2> QED
    BY <1>0, <1>14, <2>1, <2>3, StepKept
<1>18. EntriesOf(b)'
  <2>1. EntriesOf(b)
    BY <1>1 DEF BackupOf
  <2>2. \A i, j \in DOMAIN files'[b] : files'[b][i].name = files'[b][j].name => i = j
    BY <1>11, <2>1 DEF EntriesOf
  <2>3. ASSUME NEW i \in DOMAIN files'[b]
        PROVE  /\ files'[b][i].name # "manifest" => files'[b][i].csum \in Plain
               /\ files'[b][i].name \in {"blob", "key"} => files'[b][i].csum = Content(b, files'[b][i].name)
               /\ files'[b][i].name \in IndexNames /\ upload'[b][files'[b][i].name] = "ok" => files'[b][i].csum = Content(b, files'[b][i].name)
    <3>1. CASE i = p
      BY <1>10, <1>11, <3>1, Naming DEF StepNames
    <3>2. CASE i # p
      <4>1. files'[b][i] = files[b][i] /\ files[b][i].name # n
        BY <1>5, <1>11, <2>1, <3>2 DEF EntriesOf
      <4>2. PICK m : m = files[b][i].name
        OBVIOUS
      <4>3. i \in DOMAIN files[b] /\ (m \in IndexNames => upload'[b][m] = upload[b][m])
        BY <1>2, <1>11, <4>1, <4>2
      <4>4. /\ m # "manifest" => files[b][i].csum \in Plain
            /\ m \in {"blob", "key"} => files[b][i].csum = Content(b, m)
            /\ m \in IndexNames /\ upload[b][m] = "ok" => files[b][i].csum = Content(b, m)
        BY <2>1, <4>2, <4>3 DEF EntriesOf
      <4> QED
        BY <4>1, <4>2, <4>3, <4>4
    <3> QED
      BY <3>1, <3>2
  <2> QED
    BY <2>2, <2>3 DEF EntriesOf, Plain, Content
<1>19. BlobsOf(b)' /\ WritersOf(b)' /\ OutcomeOf(b)'
  BY <1>0, <1>1, <1>11, BlobsKept, WritersKept, OutcomeKept DEF BackupOf
<1>20. BackupOf(b)'
  BY <1>16, <1>17, <1>18, <1>19 DEF BackupOf
<1> QED
  BY <1>12, <1>13, <1>20, ClientFrame

LEMMA CreatedKeeps ==
  ASSUME SessionInv, NEW b \in Backups, NEW n \in IndexNames, Created(b, n), UNCHANGED <<wid, serverVars>>
  PROVE  SessionInv'
<1> USE DEF Created, serverVars
<1>1. Types /\ BackupOf(b)
  BY DEF SessionInv
<1>2. /\ upload'[b][n] = "append"
      /\ \A m \in IndexNames \ {n} : upload'[b][m] = upload[b][m]
      /\ \A c \in Backups \ {b} : upload'[c] = upload[c]
      /\ upload' \in [Backups -> [IndexNames -> {"off", "create", "append", "close", "ok", "error"}]]
  BY <1>1 DEF Types
<1>3. UploadOf(b, n) /\ Owned(b, n) /\ n \in Uploads(b) /\ ~HasEntry(b, n)
  BY <1>1 DEF BackupOf, UploadOf
<1>4. PICK e : e = [name |-> n, csum |-> NoSum]
  OBVIOUS
<1>5. e \in Entry /\ e.name = n /\ e.csum \in Plain
  BY <1>4, Naming DEF Entry, Plain
<1>6. files[b] \in Seq(Entry) /\ files'[b] = Append(files[b], e) /\ \A c \in Backups \ {b} : files'[c] = files[c]
  BY <1>1, <1>4 DEF Types
<1>7. PICK l : l = Len(files[b])
  OBVIOUS
<1>8. /\ files'[b] \in Seq(Entry) /\ l \in Nat
      /\ DOMAIN files[b] = 1 .. l /\ DOMAIN files'[b] = 1 .. l + 1
      /\ files'[b][l + 1] = e
      /\ \A i \in DOMAIN files[b] : i \in DOMAIN files'[b] /\ files'[b][i] = files[b][i] /\ i # l + 1
      /\ \A i \in DOMAIN files'[b] : i \in DOMAIN files[b] \/ i = l + 1
      /\ \A m : HasEntry(b, m)' <=> HasEntry(b, m) \/ m = n
  BY <1>5, <1>6, <1>7, EntryAppend
<1>9. l + 1 \in DOMAIN files'[b]
  BY <1>8
<1>10. PICK w : w = wid[b][n]
  OBVIOUS
<1>11. /\ DOMAIN byWID'[b] = DOMAIN byWID[b] \union {w} /\ byWID'[b][w] = l + 1
       /\ \A x \in DOMAIN byWID[b] : x # w => byWID'[b][x] = byWID[b][x]
       /\ \A c \in Backups \ {b} : byWID'[c] = byWID[c]
       /\ DOMAIN byWID' = Backups
  BY <1>1, <1>7, <1>10 DEF Types, Put, Position
<1>12. Types'
  <2>1. files' \in [Backups -> Seq(Entry)]
    BY <1>1, <1>6, <1>8 DEF Types
  <2> QED
    BY <1>1, <1>2, <1>11, <2>1 DEF Types, Entry, Plain, PlainEntry, Writer
<1>13. Others(b)
  BY <1>2, <1>6, <1>11 DEF Others, SameBackup
<1>14. \A m \in IndexNames : Owned(b, m)' <=> Owned(b, m)
  BY DEF Owned
<1>15. ASSUME NEW m \in IndexNames PROVE UploadOf(b, m)'
  <2>1. UploadOf(b, m)
    BY <1>1 DEF BackupOf
  <2>2. CASE m = n
    <3>1. Placed(b, n)'
      BY <1>3, <1>5, <1>8, <1>9, <1>10, <1>11, <1>14 DEF Placed, Entered
    <3> QED
      BY <1>2, <1>3, <1>8, <1>14, <2>1, <2>2, <3>1 DEF UploadOf, Uploads, IndexList
  <2>3. CASE m # n
    <3>1. ASSUME Placed(b, m) PROVE Placed(b, m)'
      <4>1. wid[b][m] # w
        BY <1>3, <1>10, <2>3, <3>1 DEF Placed, Owned
      <4> QED
        BY <1>8, <1>11, <1>14, <3>1, <4>1 DEF Placed, Entered
    <3> QED
      BY <1>2, <1>8, <1>14, <2>1, <2>3, <3>1, UploadKept
  <2> QED
    BY <2>2, <2>3
<1>16. ASSUME NEW s \in StepNames PROVE StepOf(b, s)'
  <2>1. StepOf(b, s)
    BY <1>1 DEF BackupOf
  <2>2. ~UploadsDone(b)
    BY <1>3 DEF UploadsDone
  <2>3. \A t \in StepNames : HasEntry(b, t)' <=> HasEntry(b, t)
    BY <1>8, Naming
  <2> QED
    BY <2>1, <2>2, <2>3, StepKept
<1>17. EntriesOf(b)'
  <2>1. EntriesOf(b)
    BY <1>1 DEF BackupOf
  <2>2. \A i \in DOMAIN files[b] : files[b][i].name # n
    BY <1>3 DEF HasEntry
  <2>3. \A i, j \in DOMAIN files'[b] : files'[b][i].name = files'[b][j].name => i = j
    BY <1>5, <1>8, <2>1, <2>2 DEF EntriesOf
  <2>4. ASSUME NEW i \in DOMAIN files'[b]
        PROVE  /\ files'[b][i].name # "manifest" => files'[b][i].csum \in Plain
               /\ files'[b][i].name \in {"blob", "key"} => files'[b][i].csum = Content(b, files'[b][i].name)
               /\ files'[b][i].name \in IndexNames /\ upload'[b][files'[b][i].name] = "ok" => files'[b][i].csum = Content(b, files'[b][i].name)
    <3>1. CASE i = l + 1
      BY <1>2, <1>5, <1>8, <3>1, Naming DEF StepNames
    <3>2. CASE i \in DOMAIN files[b]
      BY <1>2, <1>8, <2>1, <2>2, <3>2 DEF EntriesOf
    <3> QED
      BY <1>8, <3>1, <3>2
  <2> QED
    BY <2>3, <2>4 DEF EntriesOf, Plain, Content
<1>18. WritersOf(b)'
  <2>1. WritersOf(b) /\ w \in Writers(b)
    BY <1>1, <1>3, <1>10 DEF BackupOf, Owned, Writers
  <2>2. \A x \in DOMAIN byWID'[b] : x \in Writers(b) /\ byWID'[b][x] \in DOMAIN files'[b]
    BY <1>8, <1>9, <1>11, <2>1 DEF WritersOf
  <2> QED
    BY <2>1, <2>2 DEF WritersOf, Writers
<1>19. BlobsOf(b)' /\ OutcomeOf(b)'
  BY <1>1, BlobsKept, OutcomeKept DEF BackupOf
<1>20. BackupOf(b)'
  BY <1>15, <1>16, <1>17, <1>18, <1>19 DEF BackupOf
<1> QED
  BY <1>12, <1>13, <1>20, ClientFrame

LEMMA StartedKeeps ==
  ASSUME SessionInv, NEW b \in Backups, NEW ns, \A n \in ns : n \in Uploads(b) /\ upload[b][n] = "off",
         StartUploads(b, ns), UNCHANGED <<wid, serverVars, files, byWID>>,
         bpc[b] \in {"start", "index"}, bpc'[b] = "index", \A c \in Backups \ {b} : bpc'[c] = bpc[c],
         DOMAIN bpc' = Backups, bpc' = [c \in Backups |-> bpc'[c]], conn' \in [Backups -> BOOLEAN]
  PROVE  SessionInv'
<1> USE DEF serverVars
<1>1. Types /\ BackupOf(b)
  BY DEF SessionInv
<1>2. /\ \A m \in IndexNames : upload'[b][m] = IF m \in ns THEN "create" ELSE upload[b][m]
      /\ \A m \in Names : net'[b][m] = IF m \in ns THEN "create" ELSE net[b][m]
      /\ \A m \in Names : answer'[b][m] = IF m \in ns THEN "none" ELSE answer[b][m]
      /\ \A c \in Backups \ {b} : upload'[c] = upload[c] /\ net'[c] = net[c] /\ answer'[c] = answer[c]
  BY <1>1 DEF Types, StartUploads
<1>3. \A n \in ns : n \in IndexNames /\ UploadOf(b, n)
  BY <1>1, Options DEF BackupOf
<1>4. Types'
  <2>1. upload' \in [Backups -> [IndexNames -> {"off", "create", "append", "close", "ok", "error"}]]
    BY <1>1 DEF Types, StartUploads
  <2>2. net' \in [Backups -> [Names -> {"none", "create", "close", "blob", "finish"}]]
    BY <1>1 DEF Types, StartUploads
  <2>3. answer' \in [Backups -> [Names -> {"none", "ok", "refused"}]]
    BY <1>1 DEF Types, StartUploads
  <2>4. bpc' \in [Backups -> {"start", "index", "ok", "error"} \union Range(Steps)]
    <3>1. \A c \in Backups : bpc'[c] \in {"start", "index", "ok", "error"} \union Range(Steps)
      BY <1>1 DEF Types
    <3> QED
      BY <3>1
  <2> QED
    BY <1>1, <2>1, <2>2, <2>3, <2>4 DEF Types, Entry, Plain, PlainEntry, Writer
<1>5. Others(b)
  BY <1>2 DEF Others, SameBackup
<1>6. \A m \in IndexNames : (Owned(b, m)' <=> Owned(b, m)) /\ (Placed(b, m)' <=> Placed(b, m))
  BY DEF Owned, Placed, Entered
<1>7. \A m : HasEntry(b, m)' <=> HasEntry(b, m)
  BY DEF HasEntry
<1>8. ASSUME NEW m \in IndexNames PROVE UploadOf(b, m)'
  <2>1. UploadOf(b, m) /\ m \in Names
    BY <1>1, Naming DEF BackupOf
  <2>2. CASE m \in ns
    BY <1>2, <1>6, <1>7, <2>1, <2>2 DEF UploadOf, Uploads, IndexList
  <2>3. CASE m \notin ns
    BY <1>2, <1>6, <1>7, <2>1, <2>3, UploadKept
  <2> QED
    BY <2>2, <2>3
<1>9. ASSUME NEW s \in StepNames PROVE StepOf(b, s)'
  <2>1. StepOf(b, s) /\ s \in Names /\ s \notin ns
    BY <1>1, <1>3, Naming DEF BackupOf
  <2>2. ASSUME UploadsDone(b) PROVE UploadsDone(b)'
    BY <1>2, <2>2, Options DEF UploadsDone, Uploads, IndexList
  <2> QED
    BY <1>2, <1>7, <2>1, <2>2, StepKept
<1>10. EntriesOf(b)'
  <2>1. EntriesOf(b) /\ \A i \in DOMAIN files[b] : files[b][i].name \in IndexNames =>
          (upload'[b][files[b][i].name] = "ok" => upload[b][files[b][i].name] = "ok")
    BY <1>1, <1>2 DEF BackupOf
  <2> QED
    BY <2>1 DEF EntriesOf, Plain, Content
<1>11. answer'[b]["finish"] = answer[b]["finish"]
  BY <1>2, <1>3, Naming DEF StepNames
<1>12. BlobsOf(b)' /\ WritersOf(b)' /\ OutcomeOf(b)'
  BY <1>1, <1>11, BlobsKept, WritersKept, OutcomeKept DEF BackupOf
<1>13. BackupOf(b)'
  BY <1>8, <1>9, <1>10, <1>12 DEF BackupOf
<1> QED
  BY <1>4, <1>5, <1>13, ClientFrame

\* A backup ends, with success only after its commit was answered.
LEMMA EndedKeeps ==
  ASSUME SessionInv, NEW b \in Backups, UNCHANGED <<wid, serverVars, upload, files, byWID, net, answer>>,
         conn' \in [Backups -> BOOLEAN],
         NEW result \in {"ok", "error"}, bpc' = [bpc EXCEPT ![b] = result], result = "ok" => answer[b]["finish"] = "ok"
  PROVE  SessionInv'
<1> USE DEF serverVars
<1>1. Types /\ BackupOf(b)
  BY DEF SessionInv
<1>2. bpc'[b] = result /\ \A c \in Backups \ {b} : bpc'[c] = bpc[c]
  BY <1>1 DEF Types
<1>3. Types'
  BY <1>1 DEF Types, Entry, Plain, PlainEntry, Writer
<1>4. Others(b)
  BY <1>2 DEF Others, SameBackup
<1>5. ASSUME NEW m \in IndexNames PROVE UploadOf(b, m)'
  <2>1. UploadOf(b, m) /\ (Owned(b, m)' <=> Owned(b, m)) /\ (Placed(b, m)' <=> Placed(b, m)) /\ (HasEntry(b, m)' <=> HasEntry(b, m))
    BY <1>1 DEF BackupOf, Owned, Placed, Entered, HasEntry
  <2> QED
    BY <1>2, <2>1, UploadKept
<1>6. ASSUME NEW s \in StepNames PROVE StepOf(b, s)'
  <2>1. StepOf(b, s) /\ (\A t \in StepNames : HasEntry(b, t)' <=> HasEntry(b, t)) /\ (UploadsDone(b)' <=> UploadsDone(b))
    BY <1>1 DEF BackupOf, HasEntry, UploadsDone, Uploads, IndexList
  <2> QED
    BY <1>2, <2>1, StepKept
<1>7. EntriesOf(b)'
  BY <1>1 DEF BackupOf, EntriesOf, Plain, Content
<1>8. BlobsOf(b)' /\ WritersOf(b)' /\ OutcomeOf(b)'
  BY <1>1, <1>2, BlobsKept, WritersKept, OutcomeKept DEF BackupOf
<1>9. BackupOf(b)'
  BY <1>5, <1>6, <1>7, <1>8 DEF BackupOf
<1> QED
  BY <1>3, <1>4, <1>9, ClientFrame

LEMMA StartKeeps ==
  ASSUME SessionInv, NEW b \in Backups, Start(b), UNCHANGED <<wid, serverVars>>
  PROVE  SessionInv'
<1>1. Types /\ BackupOf(b)
  BY DEF SessionInv
<1>2. CASE bpc' = [bpc EXCEPT ![b] = "index"]
  <2>1. PICK ns : ns = IF Option[b].parallel THEN Uploads(b) ELSE {Head(IndexList(b))}
    OBVIOUS
  <2>2. StartUploads(b, ns) /\ conn' = [conn EXCEPT ![b] = TRUE]
    <3>1. bpc'[b] = "index"
      BY <1>1, <1>2 DEF Types
    <3>2. bpc' # [bpc EXCEPT ![b] = "error"]
      BY <1>1, <3>1 DEF Types
    <3> QED
      BY <2>1, <3>2 DEF Start
  <2>3. \A n \in ns : n \in Uploads(b)
    BY <2>1, Options
  <2>4. \A n \in ns : upload[b][n] = "off"
    BY <1>1, <2>3, Options DEF Start, BackupOf, UploadOf
  <2>5. bpc[b] = "start" /\ UNCHANGED <<files, byWID>>
    BY DEF Start
  <2>6. bpc'[b] = "index" /\ (\A c \in Backups \ {b} : bpc'[c] = bpc[c]) /\ DOMAIN bpc' = Backups /\ bpc' = [c \in Backups |-> bpc'[c]]
    BY <1>1, <1>2 DEF Types
  <2>7. conn' \in [Backups -> BOOLEAN]
    BY <1>1, <2>2 DEF Types
  <2> QED
    BY <2>2, <2>3, <2>4, <2>5, <2>6, <2>7, StartedKeeps
<1>3. CASE bpc' = [bpc EXCEPT ![b] = "error"] /\ UNCHANGED <<conn, upload, net, answer>>
  BY <1>1, <1>3, EndedKeeps DEF Start, Types
<1> QED
  BY <1>2, <1>3 DEF Start

LEMMA NextIndexKeeps ==
  ASSUME SessionInv, NEW b \in Backups, NextIndex(b), UNCHANGED <<wid, serverVars>>
  PROVE  SessionInv'
<1>1. Types
  BY DEF SessionInv
<1>2. PICK i \in 1 .. Len(IndexList(b)) - 1 : upload[b][IndexList(b)[i+1]] = "off" /\ StartUploads(b, {IndexList(b)[i+1]})
  BY DEF NextIndex
<1>3. PICK n : n = IndexList(b)[i+1]
  OBVIOUS
<1>4. n \in Uploads(b)
  <2>1. Len(IndexList(b)) \in Nat
    BY Options, LenType
  <2>2. i + 1 \in 1 .. Len(IndexList(b))
    BY <2>1
  <2> QED
    BY <1>3, <2>2, Options
<1>5. PICK ns : ns = {n}
  OBVIOUS
<1>6. StartUploads(b, ns) /\ \A m \in ns : m \in Uploads(b) /\ upload[b][m] = "off"
  BY <1>2, <1>3, <1>4, <1>5
<1>7. bpc[b] = "index" /\ UNCHANGED <<bpc, files, byWID, conn>>
  BY DEF NextIndex
<1>8. bpc'[b] = "index" /\ (\A c \in Backups \ {b} : bpc'[c] = bpc[c]) /\ DOMAIN bpc' = Backups /\ bpc' = [c \in Backups |-> bpc'[c]]
      /\ conn' \in [Backups -> BOOLEAN]
  BY <1>1, <1>7 DEF Types
<1> QED
  BY <1>6, <1>7, <1>8, StartedKeeps

LEMMA FinishDoneKeeps ==
  ASSUME SessionInv, NEW b \in Backups, FinishDone(b), UNCHANGED <<wid, serverVars>>
  PROVE  SessionInv'
<1>1. conn' \in [Backups -> BOOLEAN]
  BY DEF SessionInv, Types, FinishDone
<1>2. PICK result \in {"ok", "error"} : bpc' = [bpc EXCEPT ![b] = result]
  BY DEF FinishDone
<1> QED
  BY <1>1, <1>2, EndedKeeps DEF FinishDone, Committed

LEMMA BackupFailsKeeps ==
  ASSUME SessionInv, NEW b \in Backups, BackupFails(b), UNCHANGED <<wid, serverVars>>
  PROVE  SessionInv'
<1>1. conn' \in [Backups -> BOOLEAN]
  BY DEF SessionInv, Types, BackupFails
<1> QED
  BY <1>1, EndedKeeps DEF BackupFails

LEMMA Order ==
  ASSUME NEW s \in StepNames, NEW t \in StepNames, NEW u \in StepNames
  PROVE  /\ s \notin Before(s) /\ (s \in Before(t) => t \notin Before(s))
         /\ s \in Before(t) /\ t \in Before(u) => s \in Before(u)
         /\ (s \in Before(t) => s # "finish") /\ s \notin {"start", "index", "ok", "error"}
  BY DEF Before, StepNames

\* A step is entered; the steps D have just been recorded.
LEMMA StepEntered ==
  ASSUME NEW b \in Backups, BackupOf(b), UploadsDone(b), NEW s0 \in StepNames, NEW D, Wanted(b, s0),
         net'[b][s0] = IF s0 = "finish" THEN "finish" ELSE "blob", answer'[b][s0] = "none",
         \A s \in StepNames \ {s0} : net'[b][s] = net[b][s] /\ answer'[b][s] = answer[b][s],
         blobs'[b] = blobs[b], upload'[b] = upload[b], bpc'[b] = s0,
         \A t \in StepNames : HasEntry(b, t)' <=> HasEntry(b, t) \/ t \in D,
         \A t \in D : t \in Before(s0) /\ t \in DOMAIN blobs[b] /\ net[b][t] = "none",
         \A t \in Before(s0) : Wanted(b, t) => Stored(b, t) \/ t \in D,
         \A s \in StepNames : s = s0 \/ s0 \in Before(s) => ~Begun(b, s)
  PROVE  \A s \in StepNames : StepOf(b, s)'
<1>1. SUFFICES ASSUME NEW s \in StepNames PROVE StepOf(b, s)'
  OBVIOUS
<1>2. StepOf(b, s)
  BY DEF BackupOf
<1>3. \A t : Wanted(b, t)' <=> Wanted(b, t)
  BY DEF Wanted
<1>4. UploadsDone(b)'
  BY DEF UploadsDone, Uploads, IndexList
<1>5. \A t \in StepNames : Stored(b, t) \/ t \in D => Stored(b, t)'
  BY DEF Stored
<1>6. \A t \in Before(s) : t \in StepNames
  BY DEF Before, StepNames
<1>7. \A t \in Before(s0) : t \in StepNames
  BY DEF Before, StepNames
<1>8. bpc'[b] \notin {"start", "index"} /\ s0 \notin Before(s0) /\ (s \in Before(s0) => s0 \notin Before(s) /\ s # s0 /\ s # "finish")
  BY Order
<1>9. CASE s = s0
  <2>1. ~Begun(b, s) /\ s \notin D
    BY <1>8, <1>9
  <2>2. ~HasEntry(b, s)' /\ s \notin DOMAIN blobs'[b] /\ net'[b][s] # "none"
    BY <1>9, <2>1 DEF Begun
  <2>3. \A t \in Before(s) : Wanted(b, t)' => Stored(b, t)'
    BY <1>3, <1>5, <1>7, <1>9
  <2>4. Begun(b, s)'
    BY <2>2 DEF Begun
  <2> QED
    BY <1>3, <1>4, <1>8, <1>9, <2>2, <2>3, <2>4 DEF StepOf, Before, Content
<1>10. CASE s \in D
  <2>1. s \in Before(s0) /\ s \in DOMAIN blobs[b] /\ s # s0 /\ Begun(b, s)
    BY <1>8, <1>10 DEF Begun
  <2>2. Wanted(b, s)' /\ \A t \in Before(s) : Wanted(b, t)' => Stored(b, t)'
    BY <1>2, <1>3, <1>5, <1>6, <2>1 DEF StepOf
  <2>3. net'[b][s] = "none" /\ s0 \notin Before(s) /\ s # "finish"
    BY <1>8, <1>10, <2>1
  <2> QED
    BY <1>2, <1>4, <1>8, <2>1, <2>2, <2>3 DEF StepOf, Before, Content
<1>11. CASE s # s0 /\ s \notin D
  <2>1. (Begun(b, s)' <=> Begun(b, s)) /\ (HasEntry(b, s)' <=> HasEntry(b, s)) /\ net'[b][s] = net[b][s] /\ answer'[b][s] = answer[b][s]
    BY <1>11 DEF Begun
  <2>2. Begun(b, s) => Wanted(b, s)' /\ \A t \in Before(s) : Wanted(b, t)' => Stored(b, t)'
    BY <1>2, <1>3, <1>5, <1>6 DEF StepOf
  <2>3. s0 \in Before(s) => ~Begun(b, s)
    OBVIOUS
  <2> QED
    BY <1>2, <1>4, <1>8, <1>11, <2>1, <2>2, <2>3 DEF StepOf, Before, Content
<1> QED
  BY <1>9, <1>10, <1>11

LEMMA EnterEffect ==
  ASSUME Types, NEW b \in Backups, NEW s0 \in StepNames, Enter(b, s0)
  PROVE  /\ bpc'[b] = s0 /\ net'[b][s0] = (IF s0 = "finish" THEN "finish" ELSE "blob") /\ answer'[b][s0] = "none"
         /\ \A m \in Names \ {s0} : net'[b][m] = net[b][m] /\ answer'[b][m] = answer[b][m]
         /\ \A c \in Backups \ {b} : bpc'[c] = bpc[c] /\ net'[c] = net[c] /\ answer'[c] = answer[c]
         /\ bpc' \in [Backups -> {"start", "index", "ok", "error"} \union Range(Steps)]
         /\ net' \in [Backups -> [Names -> {"none", "create", "close", "blob", "finish"}]]
         /\ answer' \in [Backups -> [Names -> {"none", "ok", "refused"}]]
         /\ answer'[b]["finish"] \in {answer[b]["finish"], "none"}
<1>1. s0 \in Names /\ s0 \in Range(Steps) /\ "finish" \in Names
  BY Naming, StepList DEF StepNames
<1>2. PICK op \in {"finish", "blob"} : op = IF s0 = "finish" THEN "finish" ELSE "blob"
  OBVIOUS
<1>3. net' = [net EXCEPT ![b][s0] = op] /\ answer' = [answer EXCEPT ![b][s0] = "none"] /\ bpc' = [bpc EXCEPT ![b] = s0]
  BY <1>2 DEF Enter, Request
<1>4. /\ net'[b][s0] = op /\ answer'[b][s0] = "none" /\ bpc'[b] = s0
      /\ \A m \in Names \ {s0} : net'[b][m] = net[b][m] /\ answer'[b][m] = answer[b][m]
      /\ \A c \in Backups \ {b} : bpc'[c] = bpc[c] /\ net'[c] = net[c] /\ answer'[c] = answer[c]
  BY <1>1, <1>3 DEF Types
<1>5. bpc' \in [Backups -> {"start", "index", "ok", "error"} \union Range(Steps)]
  BY <1>1, <1>3 DEF Types
<1>6. net' \in [Backups -> [Names -> {"none", "create", "close", "blob", "finish"}]]
  BY <1>1, <1>3 DEF Types
<1>7. answer' \in [Backups -> [Names -> {"none", "ok", "refused"}]]
  BY <1>1, <1>3 DEF Types
<1>8. answer'[b]["finish"] \in {answer[b]["finish"], "none"}
  BY <1>1, <1>4
<1> QED
  BY <1>2, <1>4, <1>5, <1>6, <1>7, <1>8

LEMMA IndexesDoneKeeps ==
  ASSUME SessionInv, NEW b \in Backups, IndexesDone(b), UNCHANGED <<wid, serverVars>>
  PROVE  SessionInv'
<1> USE DEF serverVars
<1>1. Types /\ BackupOf(b)
  BY DEF SessionInv
<1>2. PICK s0 : s0 = StepAfter(b, 0)
  OBVIOUS
<1>3. s0 \in StepNames /\ Wanted(b, s0) /\ \A t \in Before(s0) : ~Wanted(b, t)
  BY <1>2, NextStep
<1>4. Enter(b, s0) /\ bpc[b] = "index" /\ UploadsDone(b) /\ UNCHANGED <<upload, files, byWID, conn>>
  BY <1>2 DEF IndexesDone
<1>5. /\ bpc'[b] = s0 /\ net'[b][s0] = (IF s0 = "finish" THEN "finish" ELSE "blob") /\ answer'[b][s0] = "none"
      /\ \A m \in Names \ {s0} : net'[b][m] = net[b][m] /\ answer'[b][m] = answer[b][m]
      /\ \A c \in Backups \ {b} : bpc'[c] = bpc[c] /\ net'[c] = net[c] /\ answer'[c] = answer[c]
      /\ bpc' \in [Backups -> {"start", "index", "ok", "error"} \union Range(Steps)]
      /\ net' \in [Backups -> [Names -> {"none", "create", "close", "blob", "finish"}]]
      /\ answer' \in [Backups -> [Names -> {"none", "ok", "refused"}]]
      /\ answer'[b]["finish"] \in {answer[b]["finish"], "none"}
  BY <1>1, <1>3, <1>4, EnterEffect
<1>6. Types'
  BY <1>1, <1>4, <1>5 DEF Types, Entry, Plain, PlainEntry, Writer
<1>7. Others(b)
  BY <1>4, <1>5 DEF Others, SameBackup
<1>8. \A m \in IndexNames : (Owned(b, m)' <=> Owned(b, m)) /\ (Placed(b, m)' <=> Placed(b, m))
  BY <1>4 DEF Owned, Placed, Entered
<1>9. \A m : HasEntry(b, m)' <=> HasEntry(b, m)
  BY <1>4 DEF HasEntry
<1>10. ASSUME NEW m \in IndexNames PROVE UploadOf(b, m)'
  <2>1. UploadOf(b, m) /\ m \in Names \ {s0}
    BY <1>1, <1>3, Naming DEF BackupOf
  <2>2. bpc'[b] # "start"
    BY <1>3, <1>5, Order
  <2> QED
    BY <1>4, <1>5, <1>8, <1>9, <2>1, <2>2, UploadKept
<1>11. \A s \in StepNames : StepOf(b, s)'
  <2>1. \A s \in StepNames : ~Begun(b, s)
    BY <1>1, <1>4 DEF BackupOf, StepOf
  <2>2. \A s \in StepNames \ {s0} : net'[b][s] = net[b][s] /\ answer'[b][s] = answer[b][s]
    BY <1>5, Naming
  <2>3. PICK D : D = {}
    OBVIOUS
  <2>4. /\ \A t \in StepNames : HasEntry(b, t)' <=> HasEntry(b, t) \/ t \in D
        /\ \A t \in D : t \in Before(s0) /\ t \in DOMAIN blobs[b] /\ net[b][t] = "none"
        /\ \A t \in Before(s0) : Wanted(b, t) => Stored(b, t) \/ t \in D
        /\ \A s \in StepNames : s = s0 \/ s0 \in Before(s) => ~Begun(b, s)
    BY <1>3, <1>9, <2>1, <2>3
  <2>5. blobs'[b] = blobs[b] /\ upload'[b] = upload[b] /\ bpc'[b] = s0 /\ UploadsDone(b)
    BY <1>4, <1>5
  <2>6. net'[b][s0] = (IF s0 = "finish" THEN "finish" ELSE "blob") /\ answer'[b][s0] = "none"
    BY <1>5
  <2> QED
    BY <1>1, <1>3, <2>2, <2>4, <2>5, <2>6, StepEntered
<1>12. EntriesOf(b)'
  BY <1>1, <1>4 DEF BackupOf, EntriesOf, Plain, Content
<1>13. bpc'[b] # "ok"
  BY <1>3, <1>5, Order
<1>14. BlobsOf(b)' /\ WritersOf(b)' /\ OutcomeOf(b)'
  BY <1>1, <1>4, <1>5, <1>13, BlobsKept, WritersKept, OutcomeKept DEF BackupOf
<1>15. BackupOf(b)'
  BY <1>10, <1>11, <1>12, <1>14 DEF BackupOf
<1> QED
  BY <1>6, <1>7, <1>15, ClientFrame

LEMMA BlobStoredKeeps ==
  ASSUME SessionInv, NEW b \in Backups, BlobStored(b), UNCHANGED <<wid, serverVars>>
  PROVE  SessionInv'
<1> USE DEF serverVars
<1>1. Types /\ BackupOf(b)
  BY DEF SessionInv
<1>2. PICK i \in DOMAIN Steps :
        /\ Steps[i] = bpc[b] /\ bpc[b] # "finish" /\ answer[b][bpc[b]] = "ok"
        /\ files' = [files EXCEPT ![b] = Append(@, [name |-> bpc[b], csum |-> BlobContent(b, bpc[b])])]
        /\ Enter(b, StepAfter(b, i))
  BY DEF BlobStored
<1>3. PICK p : p = bpc[b]
  OBVIOUS
<1>4. p \in StepNames /\ p = Steps[i] /\ p # "finish" /\ i \in 1 .. 3 /\ answer[b][p] = "ok"
  BY <1>2, <1>3, StepList DEF StepNames
<1>5. PICK s0 : s0 = StepAfter(b, i)
  OBVIOUS
<1>6. s0 \in StepNames /\ Wanted(b, s0) /\ p \in Before(s0) /\ \A t \in Before(s0) : Wanted(b, t) => t = p \/ t \in Before(p)
  <2>1. i \in 0 .. 3 /\ i > 0
    BY <1>4
  <2> QED
    BY <1>4, <1>5, <2>1, NextStep
<1>7. Enter(b, s0) /\ UNCHANGED <<upload, byWID, conn>>
  BY <1>2, <1>5 DEF BlobStored
<1>8. /\ bpc'[b] = s0 /\ net'[b][s0] = (IF s0 = "finish" THEN "finish" ELSE "blob") /\ answer'[b][s0] = "none"
      /\ \A m \in Names \ {s0} : net'[b][m] = net[b][m] /\ answer'[b][m] = answer[b][m]
      /\ \A c \in Backups \ {b} : bpc'[c] = bpc[c] /\ net'[c] = net[c] /\ answer'[c] = answer[c]
      /\ bpc' \in [Backups -> {"start", "index", "ok", "error"} \union Range(Steps)]
      /\ net' \in [Backups -> [Names -> {"none", "create", "close", "blob", "finish"}]]
      /\ answer' \in [Backups -> [Names -> {"none", "ok", "refused"}]]
      /\ answer'[b]["finish"] \in {answer[b]["finish"], "none"}
  BY <1>1, <1>6, <1>7, EnterEffect
<1>9. StepOf(b, p) /\ Begun(b, p) /\ ~HasEntry(b, p) /\ p \in DOMAIN blobs[b] /\ net[b][p] = "none"
  BY <1>1, <1>3, <1>4 DEF BackupOf, StepOf
<1>10. UploadsDone(b) /\ \A t \in Before(p) : Wanted(b, t) => Stored(b, t)
  BY <1>9 DEF StepOf
<1>11. PICK e : e = [name |-> p, csum |-> BlobContent(b, p)]
  OBVIOUS
<1>12. e.name = p /\ e.csum = BlobContent(b, p) /\ (p # "manifest" => e.csum = Content(b, p) /\ e.csum \in Plain) /\ e \in Entry
  <2>1. e.name = p /\ e.csum = BlobContent(b, p)
    BY <1>11
  <2>2. CASE p # "manifest"
    <3>1. e.csum = Content(b, p) /\ e.csum \in Plain
      BY <1>4, <2>1, <2>2, Naming DEF BlobContent, Content, Plain
    <3>2. e \in Entry
      BY <1>4, <1>11, <2>1, <3>1, Naming DEF Entry
    <3> QED
      BY <2>1, <3>1, <3>2
  <2>3. CASE p = "manifest"
    <3>1. files[b] \in Seq(Entry) /\ EntriesOf(b)
      BY <1>1 DEF Types, BackupOf
    <3>2. \A j \in DOMAIN files[b] : files[b][j] \in PlainEntry
      <4>1. TAKE j \in DOMAIN files[b]
      <4>2. files[b][j] \in Entry /\ files[b][j].name # "manifest"
        BY <1>9, <2>3, <3>1, ElementType DEF HasEntry
      <4>3. files[b][j].csum \in Plain
        BY <3>1, <4>2 DEF EntriesOf
      <4> QED
        BY <4>2, <4>3 DEF Entry, PlainEntry
    <3>3. Len(files[b]) \in Nat /\ DOMAIN files[b] = 1 .. Len(files[b])
      BY <3>1, LenType
    <3>4. files[b] \in [1 .. Len(files[b]) -> PlainEntry]
      BY <3>1, <3>2, <3>3
    <3>5. files[b] \in Seq(PlainEntry)
      BY <3>3, <3>4
    <3>6. BlobContent(b, p) \in Seq(PlainEntry)
      BY <2>3, <3>5 DEF BlobContent
    <3>7. e \in Entry
      BY <1>4, <1>11, <3>6, Naming DEF Entry
    <3> QED
      BY <2>1, <2>3, <3>7
  <2> QED
    BY <2>2, <2>3
<1>13. files[b] \in Seq(Entry) /\ files'[b] = Append(files[b], e) /\ \A c \in Backups \ {b} : files'[c] = files[c]
  BY <1>1, <1>2, <1>3, <1>11 DEF Types
<1>14. PICK l : l = Len(files[b])
  OBVIOUS
<1>15. /\ files'[b] \in Seq(Entry) /\ l \in Nat
       /\ DOMAIN files[b] = 1 .. l /\ DOMAIN files'[b] = 1 .. l + 1
       /\ files'[b][l + 1] = e
       /\ \A k \in DOMAIN files[b] : k \in DOMAIN files'[b] /\ files'[b][k] = files[b][k] /\ k # l + 1
       /\ \A k \in DOMAIN files'[b] : k \in DOMAIN files[b] \/ k = l + 1
       /\ \A m : HasEntry(b, m)' <=> HasEntry(b, m) \/ m = p
  BY <1>12, <1>13, <1>14, EntryAppend
<1>16. Types'
  <2>1. files' \in [Backups -> Seq(Entry)]
    BY <1>1, <1>2, <1>13, <1>15 DEF Types
  <2> QED
    BY <1>1, <1>7, <1>8, <2>1 DEF Types, Entry, Plain, PlainEntry, Writer
<1>17. Others(b)
  BY <1>7, <1>8, <1>13 DEF Others, SameBackup
<1>18. ASSUME NEW m \in IndexNames PROVE UploadOf(b, m)'
  <2>1. UploadOf(b, m) /\ m \in Names \ {s0} /\ m # p
    BY <1>1, <1>4, <1>6, Naming DEF BackupOf
  <2>2. bpc'[b] # "start"
    BY <1>6, <1>8, Order
  <2>3. (Owned(b, m)' <=> Owned(b, m)) /\ (HasEntry(b, m)' <=> HasEntry(b, m))
    BY <1>7, <1>15, <2>1 DEF Owned
  <2>4. Placed(b, m) => Placed(b, m)'
    BY <1>7, <1>15, <2>3 DEF Placed, Entered
  <2> QED
    BY <1>7, <1>8, <2>1, <2>2, <2>3, <2>4, UploadKept
<1>19. \A s \in StepNames : StepOf(b, s)'
  <2>1. \A s \in StepNames : s = s0 \/ s0 \in Before(s) => ~Begun(b, s)
    <3>1. TAKE s \in StepNames
    <3>2. HAVE s = s0 \/ s0 \in Before(s)
    <3>3. p \in Before(s) /\ StepOf(b, s)
      BY <1>1, <1>4, <1>6, <3>2, Order DEF BackupOf
    <3> QED
      BY <1>3, <3>3 DEF StepOf
  <2>2. \A s \in StepNames \ {s0} : net'[b][s] = net[b][s] /\ answer'[b][s] = answer[b][s]
    BY <1>8, Naming
  <2>3. PICK D : D = {p}
    OBVIOUS
  <2>4. /\ \A t \in StepNames : HasEntry(b, t)' <=> HasEntry(b, t) \/ t \in D
        /\ \A t \in D : t \in Before(s0) /\ t \in DOMAIN blobs[b] /\ net[b][t] = "none"
        /\ \A t \in Before(s0) : Wanted(b, t) => Stored(b, t) \/ t \in D
    BY <1>6, <1>9, <1>10, <1>15, <2>3
  <2>5. blobs'[b] = blobs[b] /\ upload'[b] = upload[b] /\ bpc'[b] = s0
    BY <1>7, <1>8
  <2>6. net'[b][s0] = (IF s0 = "finish" THEN "finish" ELSE "blob") /\ answer'[b][s0] = "none"
    BY <1>8
  <2> QED
    BY <1>1, <1>6, <1>10, <2>1, <2>2, <2>4, <2>5, <2>6, StepEntered
<1>20. EntriesOf(b)'
  <2>1. EntriesOf(b)
    BY <1>1 DEF BackupOf
  <2>2. \A k \in DOMAIN files[b] : files[b][k].name # p
    BY <1>9 DEF HasEntry
  <2>3. \A k, j \in DOMAIN files'[b] : files'[b][k].name = files'[b][j].name => k = j
    BY <1>12, <1>15, <2>1, <2>2 DEF EntriesOf
  <2>4. ASSUME NEW k \in DOMAIN files'[b]
        PROVE  /\ files'[b][k].name # "manifest" => files'[b][k].csum \in Plain
               /\ files'[b][k].name \in {"blob", "key"} => files'[b][k].csum = Content(b, files'[b][k].name)
               /\ files'[b][k].name \in IndexNames /\ upload'[b][files'[b][k].name] = "ok" => files'[b][k].csum = Content(b, files'[b][k].name)
    <3>1. CASE k = l + 1
      BY <1>4, <1>12, <1>15, <3>1, Naming
    <3>2. CASE k \in DOMAIN files[b]
      BY <1>7, <1>15, <2>1, <3>2 DEF EntriesOf
    <3> QED
      BY <1>15, <3>1, <3>2
  <2> QED
    BY <2>3, <2>4 DEF EntriesOf, Plain, Content
<1>21. bpc'[b] # "ok"
  BY <1>6, <1>8, Order
<1>22. BlobsOf(b)' /\ OutcomeOf(b)'
  BY <1>1, <1>7, <1>8, <1>21, BlobsKept, OutcomeKept DEF BackupOf
<1>23. WritersOf(b)'
  BY <1>1, <1>7, <1>15, WritersKept DEF BackupOf
<1>24. BackupOf(b)'
  BY <1>18, <1>19, <1>20, <1>22, <1>23 DEF BackupOf
<1> QED
  BY <1>16, <1>17, <1>24, ClientFrame

-----------------------------------------------------------------------------
(***************************************************************************)
(* The server's steps.                                                     *)
(***************************************************************************)
LEMMA ReplyEffect ==
  ASSUME Types, NEW b \in Backups, NEW n \in Names, NEW a \in {"ok", "refused"}, Reply(b, n, a)
  PROVE  /\ net'[b][n] = "none" /\ answer'[b][n] = a
         /\ \A m \in Names \ {n} : net'[b][m] = net[b][m] /\ answer'[b][m] = answer[b][m]
         /\ \A c \in Backups \ {b} : net'[c] = net[c] /\ answer'[c] = answer[c]
         /\ net' \in [Backups -> [Names -> {"none", "create", "close", "blob", "finish"}]]
         /\ answer' \in [Backups -> [Names -> {"none", "ok", "refused"}]]
<1>1. net' = [net EXCEPT ![b][n] = "none"] /\ answer' = [answer EXCEPT ![b][n] = a]
  BY DEF Reply
<1>2. net' \in [Backups -> [Names -> {"none", "create", "close", "blob", "finish"}]]
  BY <1>1 DEF Types
<1>3. answer' \in [Backups -> [Names -> {"none", "ok", "refused"}]]
  BY <1>1 DEF Types
<1> QED
  BY <1>1, <1>2, <1>3 DEF Types

LEMMA ServerFrame ==
  ASSUME SessionInv, NEW b \in Backups, Others(b), \A c \in Backups \ {b} : SameWriters(c),
         \A s \in snapshots : s \in snapshots', Types', OneWriter', Whole', BackupOf(b)'
  PROVE  SessionInv'
<1>1. ASSUME NEW c \in Backups \ {b} PROVE BackupOf(c)'
  BY FrameBackup DEF Others, SessionInv
<1> QED
  BY <1>1 DEF SessionInv

LEMMA WholeKept ==
  ASSUME Whole, snapshots' = snapshots
  PROVE  Whole'
  BY DEF Whole, Consistent, Asked, Wanted, Uploads, IndexList, Content

\* Its entries depend on what the client has.
LEMMA EntriesKept ==
  ASSUME NEW b \in Backups, EntriesOf(b), UNCHANGED clientVars
  PROVE  EntriesOf(b)'
  BY DEF EntriesOf, Plain, Content, clientVars

LEMMA ServerCreateKeeps ==
  ASSUME SessionInv, NEW b \in Backups, NEW n \in IndexNames, ServerCreate(b, n), UNCHANGED clientVars
  PROVE  SessionInv'
<1> USE DEF clientVars
<1>1. Types /\ BackupOf(b) /\ OneWriter /\ Whole
  BY DEF SessionInv
<1>2. UNCHANGED <<blobs, snapshots>> /\ net[b][n] = "create"
  BY DEF ServerCreate
<1>3. /\ net'[b][n] = "none" /\ answer'[b][n] = "ok"
      /\ \A m \in Names \ {n} : net'[b][m] = net[b][m] /\ answer'[b][m] = answer[b][m]
      /\ \A c \in Backups \ {b} : net'[c] = net[c] /\ answer'[c] = answer[c]
      /\ net' \in [Backups -> [Names -> {"none", "create", "close", "blob", "finish"}]]
      /\ answer' \in [Backups -> [Names -> {"none", "ok", "refused"}]]
  BY <1>1, ReplyEffect, Naming DEF ServerCreate
<1>4. PICK l : l = Len(indexes)
  OBVIOUS
<1>5. PICK x : x = [by |-> b, name |-> n, closed |-> FALSE]
  OBVIOUS
<1>6. x \in Writer /\ x.by = b /\ x.name = n
  BY <1>5 DEF Writer
<1>7. indexes \in Seq(Writer) /\ indexes' = Append(indexes, x) /\ l \in Nat
  BY <1>1, <1>4, <1>5, LenType DEF Types, ServerCreate
<1>8. /\ indexes' \in Seq(Writer) /\ Len(indexes') = l + 1 /\ indexes'[l + 1] = x
      /\ DOMAIN indexes = 1 .. l /\ DOMAIN indexes' = 1 .. l + 1
      /\ \A w \in DOMAIN indexes : w \in DOMAIN indexes' /\ indexes'[w] = indexes[w] /\ w # l + 1
      /\ \A w \in DOMAIN indexes' : w \in DOMAIN indexes \/ w = l + 1
  <2>1. indexes' \in Seq(Writer) /\ Len(indexes') = l + 1 /\ indexes'[l + 1] = x /\ \A w \in 1 .. l : indexes'[w] = indexes[w]
    BY <1>4, <1>6, <1>7, AppendType, AppendAt
  <2>2. DOMAIN indexes = 1 .. l /\ DOMAIN indexes' = 1 .. l + 1
    BY <1>4, <1>7, <2>1
  <2>3. \A w \in 1 .. l : w \in 1 .. l + 1 /\ w # l + 1
    BY <1>7
  <2>4. \A w \in 1 .. l + 1 : w \in 1 .. l \/ w = l + 1
    BY <1>7
  <2> QED
    BY <2>1, <2>2, <2>3, <2>4
<1>9. l + 1 \in DOMAIN indexes'
  BY <1>7, <1>8
<1>10. /\ wid'[b][n] = l + 1 /\ \A m \in IndexNames \ {n} : wid'[b][m] = wid[b][m]
       /\ \A c \in Backups \ {b} : wid'[c] = wid[c]
       /\ wid' \in [Backups -> [IndexNames -> Nat]]
  <2>1. wid' = [wid EXCEPT ![b][n] = l + 1] /\ l + 1 \in Nat
    BY <1>4, <1>7 DEF ServerCreate
  <2> QED
    BY <1>1, <2>1 DEF Types
<1>11. Types'
  <2>1. DOMAIN blobs' = Backups /\ indexes' \in Seq(Writer)
    BY <1>1, <1>2, <1>8 DEF Types
  <2> QED
    BY <1>1, <1>2, <1>3, <1>10, <2>1 DEF Types, Entry, Plain, PlainEntry, Writer
<1>12. Others(b)
  BY <1>2, <1>3, <1>10 DEF Others, SameBackup
<1>13. \A c \in Backups \ {b} : SameWriters(c)
  BY <1>4, <1>6, <1>7, <1>8 DEF SameWriters
<1>14. UploadOf(b, n) /\ ~Owned(b, n)
  BY <1>1, <1>2 DEF BackupOf, UploadOf
<1>15. OneWriter'
  <2>1. ASSUME NEW w \in DOMAIN indexes' PROVE wid'[indexes'[w].by][indexes'[w].name] = w
    <3>1. CASE w = l + 1
      BY <1>6, <1>8, <1>10, <3>1
    <3>2. CASE w \in DOMAIN indexes
      <4>1. indexes'[w] = indexes[w] /\ wid[indexes[w].by][indexes[w].name] = w /\ indexes[w] \in Writer
        BY <1>1, <1>7, <1>8, <3>2, ElementType DEF OneWriter
      <4>2. indexes[w].by \in Backups /\ indexes[w].name \in IndexNames
        BY <4>1 DEF Writer
      <4>3. ~(indexes[w].by = b /\ indexes[w].name = n)
        BY <1>14, <3>2, <4>1 DEF Owned
      <4> QED
        BY <1>10, <4>1, <4>2, <4>3
    <3> QED
      BY <1>8, <3>1, <3>2
  <2> QED
    BY <2>1 DEF OneWriter
<1>16. Whole'
  BY <1>1, <1>2, WholeKept
<1>17. WritersOf(b)
  BY <1>1 DEF BackupOf
<1>18. \A m : HasEntry(b, m)' <=> HasEntry(b, m)
  BY DEF HasEntry
<1>19. ASSUME NEW m \in IndexNames PROVE UploadOf(b, m)'
  <2>1. UploadOf(b, m) /\ m \in Names
    BY <1>1, Naming DEF BackupOf
  <2>2. CASE m = n
    <3>1. Owned(b, n)'
      BY <1>6, <1>8, <1>9, <1>10 DEF Owned
    <3> QED
      BY <1>2, <1>3, <1>18, <2>1, <2>2, <3>1 DEF UploadOf, Uploads, IndexList
  <2>3. CASE m # n
    <3>1. wid'[b][m] = wid[b][m] /\ wid[b][m] # l + 1
      BY <1>4, <1>7, <1>10, <1>17, <2>3 DEF WritersOf
    <3>2. Owned(b, m)' <=> Owned(b, m)
      BY <1>8, <3>1 DEF Owned
    <3>3. Placed(b, m) => Placed(b, m)'
      BY <3>1, <3>2 DEF Placed, Entered
    <3>4. Owned(b, m) => indexes'[wid[b][m]] = indexes[wid[b][m]]
      BY <1>8 DEF Owned
    <3> QED
      BY <1>3, <1>18, <2>1, <2>3, <3>1, <3>2, <3>3, <3>4, UploadKept
  <2> QED
    BY <2>2, <2>3
<1>20. ASSUME NEW s \in StepNames PROVE StepOf(b, s)'
  <2>1. StepOf(b, s) /\ s \in Names \ {n} /\ (UploadsDone(b) => UploadsDone(b)')
    BY <1>1, Naming DEF BackupOf, UploadsDone, Uploads, IndexList
  <2> QED
    BY <1>2, <1>3, <1>18, <2>1, StepKept
<1>21. EntriesOf(b)' /\ BlobsOf(b)'
  BY <1>1, <1>2, EntriesKept, BlobsKept DEF BackupOf
<1>22. WritersOf(b)'
  <2>1. \A w \in Writers(b) : w \in Writers(b)'
    BY <1>8 DEF Writers
  <2>2. \A m \in IndexNames : wid'[b][m] \in 0 .. l + 1
    <3>1. TAKE m \in IndexNames
    <3>2. CASE m = n
      BY <1>7, <1>10, <3>2
    <3>3. CASE m # n
      BY <1>4, <1>7, <1>10, <1>17, <3>3 DEF WritersOf
    <3> QED
      BY <3>2, <3>3
  <2> QED
    BY <1>8, <1>17, <2>1, <2>2 DEF WritersOf
<1>23. OutcomeOf(b)'
  <2>1. answer'[b]["finish"] = answer[b]["finish"]
    BY <1>3, Naming DEF StepNames
  <2> QED
    BY <1>1, <1>2, <2>1, OutcomeKept DEF BackupOf
<1>24. BackupOf(b)'
  BY <1>19, <1>20, <1>21, <1>22, <1>23 DEF BackupOf
<1> QED
  BY <1>2, <1>11, <1>12, <1>13, <1>15, <1>16, <1>24, ServerFrame

LEMMA ServerCloseKeeps ==
  ASSUME SessionInv, NEW b \in Backups, NEW n \in IndexNames, ServerClose(b, n), UNCHANGED clientVars
  PROVE  SessionInv'
<1> USE DEF clientVars
<1>1. Types /\ BackupOf(b) /\ OneWriter /\ Whole
  BY DEF SessionInv
<1>2. UNCHANGED <<wid, blobs, snapshots>> /\ net[b][n] = "close"
  BY DEF ServerClose
<1>3. UploadOf(b, n) /\ Owned(b, n)
  BY <1>1, <1>2 DEF BackupOf, UploadOf
<1>4. PICK w : w = wid[b][n]
  OBVIOUS
<1>5. indexes \in Seq(Writer) /\ w \in DOMAIN indexes /\ indexes[w].by = b /\ indexes[w].name = n /\ indexes[w] \in Writer
  BY <1>1, <1>3, <1>4, ElementType DEF Types, Owned
<1>6. PICK a \in {"ok", "refused"} : /\ Reply(b, n, a)
        /\ \/ indexes[w].closed /\ indexes' = indexes /\ a = "refused"
           \/ indexes' = [indexes EXCEPT ![w].closed = TRUE] /\ a = "ok"
  BY <1>4 DEF ServerClose
<1>7. /\ net'[b][n] = "none" /\ answer'[b][n] = a
      /\ \A m \in Names \ {n} : net'[b][m] = net[b][m] /\ answer'[b][m] = answer[b][m]
      /\ \A c \in Backups \ {b} : net'[c] = net[c] /\ answer'[c] = answer[c]
      /\ net' \in [Backups -> [Names -> {"none", "create", "close", "blob", "finish"}]]
      /\ answer' \in [Backups -> [Names -> {"none", "ok", "refused"}]]
  BY <1>1, <1>6, ReplyEffect, Naming
<1>8. /\ DOMAIN indexes' = DOMAIN indexes /\ indexes'[w].by = b /\ indexes'[w].name = n /\ indexes'[w].closed
      /\ \A v \in DOMAIN indexes : v # w => indexes'[v] = indexes[v]
      /\ indexes' \in Seq(Writer) /\ Len(indexes') = Len(indexes) /\ Len(indexes) \in Nat
  <2>0. Len(indexes) \in Nat /\ DOMAIN indexes = 1 .. Len(indexes)
    BY <1>5, LenType
  <2>1. CASE indexes[w].closed /\ indexes' = indexes
    BY <1>5, <2>0, <2>1
  <2>2. CASE indexes' = [indexes EXCEPT ![w].closed = TRUE]
    <3>1. PICK x : x = [indexes[w] EXCEPT !.closed = TRUE]
      OBVIOUS
    <3>2. x \in Writer /\ x.by = b /\ x.name = n /\ x.closed = TRUE
      BY <1>5, <3>1 DEF Writer
    <3>3. indexes' = [indexes EXCEPT ![w] = x]
      BY <2>2, <3>1
    <3>4. DOMAIN indexes' = DOMAIN indexes /\ indexes'[w] = x /\ \A v \in DOMAIN indexes : v # w => indexes'[v] = indexes[v]
      BY <1>5, <3>3
    <3>5. \A v \in DOMAIN indexes : indexes'[v] \in Writer
      BY <1>5, <3>2, <3>4, ElementType
    <3>6. indexes' \in [1 .. Len(indexes) -> Writer]
      BY <2>0, <3>3, <3>4, <3>5
    <3>7. indexes' \in Seq(Writer) /\ Len(indexes') = Len(indexes)
      BY <2>0, <3>6
    <3> QED
      BY <2>0, <3>2, <3>4, <3>7
  <2> QED
    BY <1>6, <2>1, <2>2
<1>9. \A v \in DOMAIN indexes : /\ indexes'[v].by = indexes[v].by /\ indexes'[v].name = indexes[v].name
                                /\ indexes[v].closed => indexes'[v].closed
  BY <1>5, <1>8
<1>10. Types'
  BY <1>1, <1>2, <1>7, <1>8 DEF Types, Entry, Plain, PlainEntry, Writer
<1>11. Others(b)
  BY <1>2, <1>7 DEF Others, SameBackup
<1>12. \A c \in Backups \ {b} : SameWriters(c)
  BY <1>5, <1>8 DEF SameWriters
<1>13. OneWriter'
  BY <1>1, <1>2, <1>8, <1>9 DEF OneWriter
<1>14. Whole'
  BY <1>1, <1>2, WholeKept
<1>15. \A m : HasEntry(b, m)' <=> HasEntry(b, m)
  BY DEF HasEntry
<1>16. ASSUME NEW m \in IndexNames PROVE UploadOf(b, m)'
  <2>1. UploadOf(b, m) /\ m \in Names
    BY <1>1, Naming DEF BackupOf
  <2>2. (Owned(b, m)' <=> Owned(b, m)) /\ (Owned(b, m) /\ indexes[wid[b][m]].closed => indexes'[wid[b][m]].closed)
    BY <1>2, <1>8, <1>9 DEF Owned
  <2>3. Placed(b, m)' <=> Placed(b, m)
    BY <1>2, <2>2 DEF Placed, Entered
  <2>4. CASE m = n
    <3>1. upload[b][n] \in {"close", "error"}
      BY <1>2, <1>3 DEF UploadOf
    <3>2. indexes'[wid'[b][n]].closed
      BY <1>2, <1>4, <1>8
    <3> QED
      BY <1>3, <1>7, <1>15, <2>1, <2>2, <2>3, <2>4, <3>1, <3>2 DEF UploadOf, Uploads, IndexList
  <2>5. CASE m # n
    BY <1>2, <1>7, <1>15, <2>1, <2>2, <2>3, <2>5, UploadKept
  <2> QED
    BY <2>4, <2>5
<1>17. ASSUME NEW s \in StepNames PROVE StepOf(b, s)'
  <2>1. StepOf(b, s) /\ s \in Names \ {n} /\ (UploadsDone(b) => UploadsDone(b)')
    BY <1>1, Naming DEF BackupOf, UploadsDone, Uploads, IndexList
  <2> QED
    BY <1>2, <1>7, <1>15, <2>1, StepKept
<1>18. EntriesOf(b)' /\ BlobsOf(b)'
  BY <1>1, <1>2, EntriesKept, BlobsKept DEF BackupOf
<1>19. WritersOf(b)'
  <2>1. WritersOf(b) /\ \A v \in Writers(b) : v \in Writers(b)'
    BY <1>1, <1>8, <1>9 DEF BackupOf, Writers
  <2> QED
    BY <1>2, <1>8, <2>1 DEF WritersOf
<1>20. OutcomeOf(b)'
  <2>1. answer'[b]["finish"] = answer[b]["finish"]
    BY <1>7, Naming DEF StepNames
  <2> QED
    BY <1>1, <1>2, <2>1, OutcomeKept DEF BackupOf
<1>21. BackupOf(b)'
  BY <1>16, <1>17, <1>18, <1>19, <1>20 DEF BackupOf
<1> QED
  BY <1>2, <1>10, <1>11, <1>12, <1>13, <1>14, <1>21, ServerFrame

\* When the manifest is sent, the entries are the files asked for, with their checksums.
LEMMA ManifestLists ==
  ASSUME NEW b \in Backups, Types, BackupOf(b), Begun(b, "manifest"), ~HasEntry(b, "manifest")
  PROVE  Lists(b, files[b])
<1>1. "manifest" \in StepNames /\ "blob" \in StepNames /\ "key" \in StepNames /\ "finish" \in StepNames
  BY DEF StepNames
<1>2. UploadsDone(b) /\ \A t \in {"blob", "key"} : Wanted(b, t) => HasEntry(b, t)
  BY <1>1 DEF BackupOf, StepOf, Before, Stored
<1>3. files[b] \in Seq(Entry) /\ EntriesOf(b)
  BY DEF Types, BackupOf
<1>4. ASSUME NEW i \in DOMAIN files[b]
      PROVE  files[b][i].name \in Asked(b) /\ files[b][i].csum = Content(b, files[b][i].name)
  <2>1. PICK n : n = files[b][i].name
    OBVIOUS
  <2>2. n \in Names /\ HasEntry(b, n)
    <3>1. files[b][i] \in Entry
      BY <1>3, ElementType
    <3> QED
      BY <2>1, <3>1 DEF Entry, HasEntry
  <2>3. CASE n \in IndexNames
    <3>1. n \in Uploads(b)
      BY <2>2, <2>3 DEF BackupOf, UploadOf
    <3>2. upload[b][n] = "ok"
      BY <1>2, <3>1 DEF UploadsDone
    <3>3. files[b][i].csum = Content(b, n)
      BY <1>3, <2>1, <2>3, <3>2 DEF EntriesOf
    <3> QED
      BY <2>1, <3>1, <3>3 DEF Asked
  <2>4. CASE n \in {"blob", "key"}
    <3>1. Wanted(b, n)
      BY <1>1, <2>2, <2>4 DEF BackupOf, StepOf, Begun
    <3>2. files[b][i].csum = Content(b, n)
      BY <1>3, <2>1, <2>4 DEF EntriesOf
    <3> QED
      BY <2>1, <2>4, <3>1, <3>2 DEF Asked
  <2>5. CASE n = "finish"
    BY <1>1, <2>2, <2>5 DEF BackupOf, StepOf
  <2>6. CASE n = "manifest"
    BY <2>2, <2>6
  <2> QED
    BY <2>2, <2>3, <2>4, <2>5, <2>6, Naming DEF StepNames
<1>5. ASSUME NEW n \in Asked(b) PROVE \E i \in DOMAIN files[b] : files[b][i].name = n
  <2>1. CASE n \in Uploads(b)
    <3>1. upload[b][n] = "ok" /\ n \in IndexNames
      BY <1>2, <2>1, Options DEF UploadsDone
    <3>2. Placed(b, n)
      BY <3>1 DEF BackupOf, UploadOf
    <3> QED
      BY <3>2 DEF Placed
  <2>2. CASE n \in {"blob", "key"} /\ Wanted(b, n)
    BY <1>2, <2>2 DEF HasEntry
  <2> QED
    BY <2>1, <2>2 DEF Asked
<1>6. {files[b][i].name : i \in DOMAIN files[b]} = Asked(b)
  BY <1>4, <1>5
<1>7. \A i, j \in DOMAIN files[b] : files[b][i].name = files[b][j].name => i = j
  BY <1>3 DEF EntriesOf
<1>8. DOMAIN files[b] \subseteq Nat
  BY <1>3
<1> QED
  BY <1>4, <1>6, <1>7, <1>8 DEF Lists

LEMMA ServerBlobKeeps ==
  ASSUME SessionInv, NEW b \in Backups, NEW n \in Names, ServerBlob(b, n), UNCHANGED clientVars
  PROVE  SessionInv'
<1> USE DEF clientVars
<1>1. Types /\ BackupOf(b) /\ OneWriter /\ Whole
  BY DEF SessionInv
<1>2. UNCHANGED <<wid, indexes, snapshots>> /\ net[b][n] = "blob"
  BY DEF ServerBlob
<1>3. n \in StepNames /\ n # "finish" /\ StepOf(b, n) /\ ~HasEntry(b, n) /\ Begun(b, n)
  <2>1. n \notin IndexNames
    BY <1>1, <1>2 DEF BackupOf, UploadOf
  <2>2. n \in StepNames
    BY <2>1, Naming
  <2> QED
    BY <1>1, <1>2, <2>2 DEF BackupOf, StepOf, Begun
<1>4. /\ net'[b][n] = "none" /\ answer'[b][n] = "ok"
      /\ \A m \in Names \ {n} : net'[b][m] = net[b][m] /\ answer'[b][m] = answer[b][m]
      /\ \A c \in Backups \ {b} : net'[c] = net[c] /\ answer'[c] = answer[c]
      /\ net' \in [Backups -> [Names -> {"none", "create", "close", "blob", "finish"}]]
      /\ answer' \in [Backups -> [Names -> {"none", "ok", "refused"}]]
  BY <1>1, ReplyEffect DEF ServerBlob
<1>5. /\ DOMAIN blobs'[b] = DOMAIN blobs[b] \union {n} /\ blobs'[b][n] = BlobContent(b, n)
      /\ \A m \in DOMAIN blobs[b] : m # n => blobs'[b][m] = blobs[b][m]
      /\ \A c \in Backups \ {b} : blobs'[c] = blobs[c]
      /\ DOMAIN blobs' = Backups
  BY <1>1 DEF Types, ServerBlob, Put
<1>6. Types'
  BY <1>1, <1>2, <1>4, <1>5 DEF Types, Entry, Plain, PlainEntry, Writer
<1>7. Others(b)
  BY <1>2, <1>4, <1>5 DEF Others, SameBackup
<1>8. \A c \in Backups \ {b} : SameWriters(c)
  <2>1. Len(indexes) \in Nat
    BY <1>1, LenType DEF Types
  <2> QED
    BY <1>2, <2>1 DEF SameWriters
<1>9. OneWriter' /\ Whole'
  BY <1>1, <1>2, WholeKept DEF OneWriter
<1>10. \A m : HasEntry(b, m)' <=> HasEntry(b, m)
  BY DEF HasEntry
<1>11. ASSUME NEW m \in IndexNames PROVE UploadOf(b, m)'
  <2>1. UploadOf(b, m) /\ m \in Names \ {n}
    BY <1>1, <1>3, Naming DEF BackupOf
  <2>2. (Owned(b, m)' <=> Owned(b, m)) /\ (Placed(b, m)' <=> Placed(b, m))
    BY <1>2 DEF Owned, Placed, Entered
  <2> QED
    BY <1>2, <1>4, <1>10, <2>1, <2>2, UploadKept
<1>12. ASSUME NEW s \in StepNames PROVE StepOf(b, s)'
  <2>1. StepOf(b, s) /\ s \in Names /\ (UploadsDone(b)' <=> UploadsDone(b)) /\ (Wanted(b, s)' <=> Wanted(b, s))
    BY <1>1, Naming DEF BackupOf, UploadsDone, Uploads, IndexList, Wanted
  <2>2. \A t \in Before(s) : (Wanted(b, t)' <=> Wanted(b, t)) /\ (Stored(b, t) => Stored(b, t)')
    BY <1>5, <1>10 DEF Wanted, Stored
  <2>3. CASE s = n
    <3>1. Begun(b, s)' /\ Begun(b, s) /\ ~HasEntry(b, s)'
      BY <1>3, <1>4, <1>10, <2>3 DEF Begun
    <3>2. s \in DOMAIN blobs'[b] /\ s # "finish" /\ net'[b][s] = "none"
      BY <1>3, <1>4, <1>5, <2>3
    <3>3. s \in {"blob", "key"} => blobs'[b][s] = Content(b, s)
      BY <1>5, <2>3 DEF BlobContent
    <3> QED
      BY <2>1, <2>2, <3>1, <3>2, <3>3 DEF StepOf, Before, Content
  <2>4. CASE s # n
    <3>1. /\ net'[b][s] = net[b][s] /\ answer'[b][s] = answer[b][s] /\ (s \in DOMAIN blobs'[b] <=> s \in DOMAIN blobs[b])
          /\ s \in DOMAIN blobs[b] => blobs'[b][s] = blobs[b][s]
      BY <1>4, <1>5, <2>1, <2>4
    <3>2. Begun(b, s)' <=> Begun(b, s)
      BY <1>10, <3>1 DEF Begun
    <3> QED
      BY <1>10, <2>1, <2>2, <3>1, <3>2 DEF StepOf, Before, Content
  <2> QED
    BY <2>3, <2>4
<1>13. BlobsOf(b)'
  <2>1. BlobsOf(b) /\ DOMAIN blobs'[b] \subseteq StepNames
    BY <1>1, <1>3, <1>5 DEF BackupOf, BlobsOf
  <2>2. CASE n = "manifest"
    <3>1. Lists(b, files[b]) /\ blobs'[b]["manifest"] = files[b]
      BY <1>1, <1>3, <1>5, <2>2, ManifestLists DEF BlobContent
    <3> QED
      BY <2>1, <3>1 DEF BlobsOf, Lists, StepNames, Asked, Wanted, Uploads, IndexList, Content
  <2>3. CASE n # "manifest"
    <3>1. "manifest" \in DOMAIN blobs'[b] => "manifest" \in DOMAIN blobs[b] /\ blobs'[b]["manifest"] = blobs[b]["manifest"]
      BY <1>5, <2>3
    <3> QED
      BY <2>1, <3>1 DEF BlobsOf, Lists, StepNames, Asked, Wanted, Uploads, IndexList, Content
  <2> QED
    BY <2>2, <2>3
<1>14. EntriesOf(b)'
  BY <1>1, EntriesKept DEF BackupOf
<1>15. WritersOf(b)'
  BY <1>1, <1>2 DEF BackupOf, WritersOf, Writers
<1>16. OutcomeOf(b)'
  <2>1. answer'[b]["finish"] = answer[b]["finish"]
    BY <1>3, <1>4, Naming DEF StepNames
  <2> QED
    BY <1>1, <1>2, <2>1, OutcomeKept DEF BackupOf
<1>17. BackupOf(b)'
  BY <1>11, <1>12, <1>13, <1>14, <1>15, <1>16 DEF BackupOf
<1> QED
  BY <1>2, <1>6, <1>7, <1>8, <1>9, <1>17, ServerFrame

\* When the commit is asked for, the server has what the backup was asked to store.
LEMMA StoredWhole ==
  ASSUME NEW b \in Backups, Types, OneWriter, BackupOf(b), Begun(b, "finish")
  PROVE  /\ DOMAIN StoredFiles(b) = Asked(b) \union {"manifest"}
         /\ \A n \in Asked(b) : StoredFiles(b)[n] = Content(b, n)
         /\ Lists(b, StoredFiles(b)["manifest"])
<1> DEFINE written == {indexes[w].name : w \in Writers(b)}
<1>1. "manifest" \in StepNames /\ "blob" \in StepNames /\ "key" \in StepNames /\ "finish" \in StepNames
  BY DEF StepNames
<1>2. UploadsDone(b) /\ "manifest" \in DOMAIN blobs[b] /\ \A t \in {"blob", "key"} : Wanted(b, t) => t \in DOMAIN blobs[b]
  BY <1>1 DEF BackupOf, StepOf, Before, Stored, Wanted
<1>3. DOMAIN blobs[b] \subseteq StepNames /\ "finish" \notin DOMAIN blobs[b] /\ Lists(b, blobs[b]["manifest"])
  BY <1>1, <1>2 DEF BackupOf, StepOf, BlobsOf
<1>4. \A t \in {"blob", "key"} : t \in DOMAIN blobs[b] => Wanted(b, t) /\ blobs[b][t] = Content(b, t)
  BY <1>1 DEF BackupOf, StepOf, Begun
<1>5. ASSUME NEW w \in Writers(b) PROVE indexes[w].name \in Uploads(b)
  <2>1. PICK n : n = indexes[w].name
    OBVIOUS
  <2>2. w \in DOMAIN indexes /\ indexes[w].by = b /\ n \in IndexNames
    <3>1. w \in DOMAIN indexes /\ indexes[w].by = b
      BY DEF Writers
    <3>2. indexes[w] \in Writer
      BY <3>1, ElementType DEF Types
    <3> QED
      BY <2>1, <3>1, <3>2 DEF Writer
  <2>3. wid[b][n] = w
    BY <2>1, <2>2 DEF OneWriter
  <2>4. Owned(b, n)
    BY <2>1, <2>2, <2>3 DEF Owned
  <2> QED
    BY <2>1, <2>2, <2>4 DEF BackupOf, UploadOf
<1>6. ASSUME NEW n \in Uploads(b) PROVE \E w \in Writers(b) : indexes[w].name = n
  <2>1. n \in IndexNames /\ upload[b][n] = "ok"
    BY <1>2, Options DEF UploadsDone
  <2>2. Owned(b, n)
    BY <2>1 DEF BackupOf, UploadOf, Placed
  <2> QED
    BY <2>2 DEF Owned, Writers
<1>7. \A n \in written : n \in Uploads(b)
  BY <1>5
<1>8. \A n \in Uploads(b) : n \in written /\ n \in IndexNames
  BY <1>6, Options
<1>9. DOMAIN StoredFiles(b) = DOMAIN blobs[b] \union written
  BY DEF StoredFiles
<1>10. \A n \in DOMAIN StoredFiles(b) : StoredFiles(b)[n] = IF n \in DOMAIN blobs[b] THEN blobs[b][n] ELSE Content(b, n)
  BY DEF StoredFiles
<1> HIDE DEF written
<1>11. DOMAIN StoredFiles(b) = Asked(b) \union {"manifest"}
  <2>1. \A n \in DOMAIN blobs[b] : n = "manifest" \/ n \in Asked(b)
    BY <1>3, <1>4 DEF StepNames, Asked
  <2>2. \A n \in Asked(b) : n \in DOMAIN blobs[b] \/ n \in written
    BY <1>2, <1>8 DEF Asked
  <2>3. \A n \in written : n \in Asked(b)
    BY <1>7 DEF Asked
  <2> QED
    BY <1>2, <1>9, <2>1, <2>2, <2>3
<1>12. ASSUME NEW n \in Asked(b) PROVE StoredFiles(b)[n] = Content(b, n)
  <2>1. n \in DOMAIN StoredFiles(b)
    BY <1>11
  <2>2. CASE n \in Uploads(b)
    <3>1. n \notin DOMAIN blobs[b]
      BY <1>3, <1>8, <2>2, Naming
    <3> QED
      BY <1>10, <2>1, <3>1
  <2>3. CASE n \in {"blob", "key"} /\ Wanted(b, n)
    BY <1>2, <1>4, <1>10, <2>1, <2>3
  <2> QED
    BY <2>2, <2>3 DEF Asked
<1>13. StoredFiles(b)["manifest"] = blobs[b]["manifest"]
  BY <1>2, <1>10, <1>11
<1> QED
  BY <1>3, <1>11, <1>12, <1>13

LEMMA ServerFinishKeeps ==
  ASSUME SessionInv, NEW b \in Backups, ServerFinish(b), UNCHANGED clientVars
  PROVE  SessionInv'
<1> USE DEF clientVars
<1>1. Types /\ BackupOf(b) /\ OneWriter /\ Whole
  BY DEF SessionInv
<1>2. UNCHANGED <<wid, indexes, blobs>> /\ net[b]["finish"] = "finish"
  BY DEF ServerFinish
<1>3. "finish" \in StepNames /\ "finish" \in Names /\ Begun(b, "finish")
  BY <1>2, Naming DEF StepNames, Begun
<1>4. PICK a \in {"ok", "refused"} : /\ Reply(b, "finish", a)
        /\ \/ a = "ok" /\ snapshots' = snapshots \union {[ref |-> Ref[b], files |-> StoredFiles(b)]}
           \/ a = "refused" /\ snapshots' = snapshots
  BY DEF ServerFinish
<1>5. /\ net'[b]["finish"] = "none" /\ answer'[b]["finish"] = a
      /\ \A m \in Names \ {"finish"} : net'[b][m] = net[b][m] /\ answer'[b][m] = answer[b][m]
      /\ \A c \in Backups \ {b} : net'[c] = net[c] /\ answer'[c] = answer[c]
      /\ net' \in [Backups -> [Names -> {"none", "create", "close", "blob", "finish"}]]
      /\ answer' \in [Backups -> [Names -> {"none", "ok", "refused"}]]
  BY <1>1, <1>3, <1>4, ReplyEffect
<1>6. Types'
  BY <1>1, <1>2, <1>5 DEF Types, Entry, Plain, PlainEntry, Writer
<1>7. Others(b)
  BY <1>2, <1>5 DEF Others, SameBackup
<1>8. \A c \in Backups \ {b} : SameWriters(c)
  <2>1. Len(indexes) \in Nat
    BY <1>1, LenType DEF Types
  <2> QED
    BY <1>2, <2>1 DEF SameWriters
<1>9. OneWriter'
  BY <1>1, <1>2 DEF OneWriter
<1>10. /\ DOMAIN StoredFiles(b) = Asked(b) \union {"manifest"}
       /\ \A n \in Asked(b) : StoredFiles(b)[n] = Content(b, n)
       /\ Lists(b, StoredFiles(b)["manifest"])
  BY <1>1, <1>3, StoredWhole
<1>11. Whole'
  <2>1. CASE snapshots' = snapshots
    BY <1>1, <2>1, WholeKept
  <2>2. CASE snapshots' = snapshots \union {[ref |-> Ref[b], files |-> StoredFiles(b)]}
    <3>1. ASSUME NEW s \in snapshots'
          PROVE  /\ "manifest" \in DOMAIN s.files /\ Consistent(s)
                 /\ \E c \in Backups : /\ Ref[c] = s.ref /\ Asked(c) \union {"manifest"} = DOMAIN s.files
                                       /\ \A n \in Asked(c) : s.files[n] = Content(c, n)
      <4>1. CASE s \in snapshots
        BY <1>1, <4>1 DEF Whole
      <4>2. CASE s = [ref |-> Ref[b], files |-> StoredFiles(b)]
        <5>1. s.ref = Ref[b] /\ s.files = StoredFiles(b)
          BY <4>2
        <5>2. "manifest" \notin Asked(b)
          <6>1. "manifest" \notin Uploads(b)
            BY Options, Naming DEF StepNames
          <6> QED
            BY <6>1 DEF Asked
        <5>3. DOMAIN s.files \ {"manifest"} = Asked(b)
          BY <1>10, <5>1, <5>2
        <5>4. Consistent(s)
          <6>1. PICK m : m = StoredFiles(b)["manifest"]
            OBVIOUS
          <6>2. /\ {m[i].name : i \in DOMAIN m} = Asked(b)
                /\ \A i, j \in DOMAIN m : m[i].name = m[j].name => i = j
                /\ \A i \in DOMAIN m : m[i].csum = Content(b, m[i].name)
            BY <1>10, <6>1 DEF Lists
          <6>3. \A i \in DOMAIN m : m[i].csum = s.files[m[i].name]
            BY <1>10, <5>1, <6>2
          <6>4. s.files["manifest"] = m
            BY <5>1, <6>1
          <6> QED
            BY <5>3, <6>2, <6>3, <6>4 DEF Consistent
        <5> QED
          BY <1>10, <5>1, <5>4
      <4> QED
        BY <2>2, <4>1, <4>2
    <3> QED
      BY <3>1 DEF Whole, Consistent, Asked, Wanted, Uploads, IndexList, Content
  <2> QED
    BY <1>4, <2>1, <2>2
<1>12. \A m : HasEntry(b, m)' <=> HasEntry(b, m)
  BY DEF HasEntry
<1>13. ASSUME NEW m \in IndexNames PROVE UploadOf(b, m)'
  <2>1. UploadOf(b, m) /\ m \in Names \ {"finish"}
    BY <1>1, <1>3, Naming DEF BackupOf
  <2>2. (Owned(b, m)' <=> Owned(b, m)) /\ (Placed(b, m)' <=> Placed(b, m))
    BY <1>2 DEF Owned, Placed, Entered
  <2> QED
    BY <1>2, <1>5, <1>12, <2>1, <2>2, UploadKept
<1>14. ASSUME NEW s \in StepNames PROVE StepOf(b, s)'
  <2>1. StepOf(b, s) /\ s \in Names /\ (UploadsDone(b)' <=> UploadsDone(b)) /\ (Wanted(b, s)' <=> Wanted(b, s))
    BY <1>1, Naming DEF BackupOf, UploadsDone, Uploads, IndexList, Wanted
  <2>2. \A t \in Before(s) : (Wanted(b, t)' <=> Wanted(b, t)) /\ (Stored(b, t)' <=> Stored(b, t))
    BY <1>2, <1>12 DEF Wanted, Stored
  <2>3. CASE s = "finish"
    <3>1. Begun(b, s)' /\ Begun(b, s) /\ ~HasEntry(b, s)'
      BY <1>2, <1>3, <1>5, <1>12, <2>1, <2>3 DEF Begun, StepOf
    <3> QED
      BY <1>2, <1>5, <2>1, <2>2, <2>3, <3>1 DEF StepOf, Before, Content
  <2>4. CASE s # "finish"
    BY <1>2, <1>5, <1>12, <2>1, <2>4, StepKept
  <2> QED
    BY <2>3, <2>4
<1>15. EntriesOf(b)' /\ BlobsOf(b)'
  BY <1>1, <1>2, EntriesKept, BlobsKept DEF BackupOf
<1>16. WritersOf(b)'
  BY <1>1, <1>2 DEF BackupOf, WritersOf, Writers
<1>17. OutcomeOf(b)'
  <2>1. CASE a = "ok"
    <3>1. PICK s : s = [ref |-> Ref[b], files |-> StoredFiles(b)]
      OBVIOUS
    <3>2. s \in snapshots' /\ s.ref = Ref[b] /\ \A n \in Asked(b) : n \in DOMAIN s.files /\ s.files[n] = Content(b, n)
      BY <1>4, <1>10, <2>1, <3>1
    <3>3. InStore(b)'
      BY <3>2 DEF InStore, Asked, Wanted, Uploads, IndexList, Content
    <3> QED
      BY <3>3 DEF OutcomeOf
  <2>2. CASE a = "refused"
    <3>1. snapshots' = snapshots /\ (bpc'[b] = "ok" => InStore(b))
      BY <1>1, <1>4, <2>2 DEF BackupOf, OutcomeOf
    <3> QED
      BY <1>5, <2>2, <3>1, StoreKept DEF OutcomeOf
  <2> QED
    BY <2>1, <2>2
<1>18. BackupOf(b)'
  BY <1>13, <1>14, <1>15, <1>16, <1>17 DEF BackupOf
<1>19. \A s \in snapshots : s \in snapshots'
  BY <1>4
<1> QED
  BY <1>6, <1>7, <1>8, <1>9, <1>11, <1>18, <1>19, ServerFrame

-----------------------------------------------------------------------------
LEMMA SessionInit ==
  ASSUME Init
  PROVE  SessionInv
<1> USE DEF Init
<1>1. Types
  <2>1. <<>> \in Seq(Entry) /\ <<>> \in Seq(Writer)
    BY EmptyType
  <2>2. files \in [Backups -> Seq(Entry)] /\ indexes \in Seq(Writer)
    BY <2>1
  <2>3. wid \in [Backups -> [IndexNames -> Nat]] /\ DOMAIN byWID = Backups /\ DOMAIN blobs = Backups
    OBVIOUS
  <2>4. bpc \in [Backups -> {"start", "index", "ok", "error"} \union Range(Steps)] /\ conn \in [Backups -> BOOLEAN]
    OBVIOUS
  <2>5. upload \in [Backups -> [IndexNames -> {"off", "create", "append", "close", "ok", "error"}]]
    OBVIOUS
  <2>6. net \in [Backups -> [Names -> {"none", "create", "close", "blob", "finish"}]] /\ answer \in [Backups -> [Names -> {"none", "ok", "refused"}]]
    OBVIOUS
  <2> QED
    BY <2>2, <2>3, <2>4, <2>5, <2>6 DEF Types
<1>2. DOMAIN indexes = {} /\ Len(indexes) = 0
  <2>1. indexes = <<>>
    OBVIOUS
  <2> QED
    BY <2>1, EmptyLen
<1>3. ASSUME NEW b \in Backups PROVE BackupOf(b)
  <2>1. DOMAIN files[b] = {} /\ DOMAIN byWID[b] = {} /\ DOMAIN blobs[b] = {}
    <3>1. files[b] = <<>> /\ byWID[b] = <<>> /\ blobs[b] = <<>>
      OBVIOUS
    <3> QED
      BY <3>1, EmptyLen
  <2>2. \A m : ~HasEntry(b, m)
    BY <2>1 DEF HasEntry
  <2>3. ASSUME NEW n \in IndexNames PROVE UploadOf(b, n)
    <3>1. upload[b][n] = "off" /\ net[b][n] = "none" /\ ~Owned(b, n)
      BY <1>2, Naming DEF Owned
    <3> QED
      BY <2>2, <3>1 DEF UploadOf
  <2>4. ASSUME NEW s \in StepNames PROVE StepOf(b, s)
    <3>1. net[b][s] = "none" /\ answer[b][s] = "none" /\ bpc[b] = "start" /\ s # "start"
      BY Naming DEF StepNames
    <3>2. ~Begun(b, s)
      BY <2>1, <2>2, <3>1 DEF Begun
    <3> QED
      BY <2>1, <2>2, <3>1, <3>2 DEF StepOf
  <2>5. EntriesOf(b) /\ BlobsOf(b)
    BY <2>1 DEF EntriesOf, BlobsOf
  <2>6. WritersOf(b)
    BY <1>2, <2>1 DEF WritersOf
  <2>7. OutcomeOf(b)
    BY Naming DEF OutcomeOf, StepNames
  <2> QED
    BY <2>3, <2>4, <2>5, <2>6, <2>7 DEF BackupOf
<1>4. OneWriter /\ Whole
  BY <1>2 DEF OneWriter, Whole
<1> QED
  BY <1>1, <1>3, <1>4 DEF SessionInv

LEMMA SessionStep ==
  ASSUME SessionInv, [Next]_vars
  PROVE  SessionInv'
<1>1. CASE UNCHANGED vars
  <2>1. UNCHANGED clientVars /\ UNCHANGED serverVars /\ UNCHANGED <<net, answer, wid>>
    BY <1>1 DEF vars
  <2>2. Types /\ OneWriter /\ Whole
    BY DEF SessionInv
  <2>3. Types' /\ OneWriter'
    BY <2>1, <2>2 DEF Types, OneWriter, Entry, Plain, PlainEntry, Writer, clientVars, serverVars
  <2>4. Whole'
    BY <2>1, <2>2, WholeKept DEF serverVars
  <2>5. Len(indexes) \in Nat
    BY <2>2, LenType DEF Types
  <2>6. ASSUME NEW c \in Backups PROVE BackupOf(c)'
    <3>1. SameBackup(c) /\ SameWriters(c) /\ \A s \in snapshots : s \in snapshots'
      BY <2>1, <2>5 DEF SameBackup, SameWriters, clientVars, serverVars
    <3> QED
      BY <3>1, FrameBackup DEF SessionInv
  <2> QED
    BY <2>3, <2>4, <2>6 DEF SessionInv
<1>2. ASSUME NEW b \in Backups, Client(b) PROVE SessionInv'
  <2>1. UNCHANGED <<wid, serverVars>>
    BY <1>2 DEF Client
  <2>2. CASE \E n \in IndexNames : Created(b, n) \/ AppendedAll(b, n) \/ Closed(b, n) \/ UploadFails(b, n)
    BY <2>1, <2>2, CreatedKeeps, AppendedKeeps, ClosedKeeps, FailsKeeps
  <2>3. CASE Start(b) \/ NextIndex(b)
    BY <2>1, <2>3, StartKeeps, NextIndexKeeps
  <2>4. CASE IndexesDone(b) \/ BlobStored(b)
    BY <2>1, <2>4, IndexesDoneKeeps, BlobStoredKeeps
  <2>5. CASE FinishDone(b) \/ BackupFails(b)
    BY <2>1, <2>5, FinishDoneKeeps, BackupFailsKeeps
  <2> QED
    BY <1>2, <2>2, <2>3, <2>4, <2>5 DEF Client
<1>3. ASSUME NEW b \in Backups, Server(b) PROVE SessionInv'
  <2>1. UNCHANGED clientVars
    BY <1>3 DEF Server
  <2>2. CASE \E n \in IndexNames : ServerCreate(b, n) \/ ServerClose(b, n)
    BY <2>1, <2>2, ServerCreateKeeps, ServerCloseKeeps
  <2>3. CASE \E n \in Names : ServerBlob(b, n)
    BY <2>1, <2>3, ServerBlobKeeps
  <2>4. CASE ServerFinish(b)
    BY <2>1, <2>4, ServerFinishKeeps
  <2> QED
    BY <1>3, <2>2, <2>3, <2>4 DEF Server
<1> QED
  BY <1>1, <1>2, <1>3 DEF Next

LEMMA SessionInvariant == Spec => []SessionInv
<1>1. Init => SessionInv
  BY SessionInit
<1>2. SessionInv /\ [Next]_vars => SessionInv'
  BY SessionStep
<1> QED
  BY <1>1, <1>2, PTL DEF Spec

LEMMA SessionTyped ==
  ASSUME SessionInv
  PROVE  TypeOK
<1>1. ASSUME NEW b \in Backups
      PROVE  /\ \A n \in IndexNames : wid[b][n] \in 0 .. Len(indexes)
             /\ \A i \in DOMAIN files[b] : files[b][i].name \in Names
             /\ DOMAIN byWID[b] \subseteq Writers(b) /\ \A w \in DOMAIN byWID[b] : byWID[b][w] \in DOMAIN files[b]
  <2>1. WritersOf(b) /\ files[b] \in Seq(Entry)
    BY DEF SessionInv, BackupOf, Types
  <2>2. \A i \in DOMAIN files[b] : files[b][i] \in Entry
    BY <2>1, ElementType
  <2>3. \A i \in DOMAIN files[b] : files[b][i].name \in Names
    BY <2>2 DEF Entry
  <2> QED
    BY <2>1, <2>3 DEF WritersOf
<1> QED
  BY <1>1 DEF SessionInv, Types, TypeOK

LEMMA SessionSound ==
  ASSUME SessionInv
  PROVE  Whole /\ SuccessIsCommitted
  BY DEF SessionInv, BackupOf, OutcomeOf, InStore, SuccessIsCommitted

\* The session's state stays well formed: a writer id the client has recorded is a writer of
\* that backup on the server, and the place recorded for it is an entry of the manifest.
THEOREM SessionTypes == Spec => []TypeOK
<1>1. SessionInv => TypeOK
  BY SessionTyped
<1> QED
  BY <1>1, SessionInvariant, PTL

\* Every committed snapshot is one whole backup: its manifest lists each of its files once,
\* with the checksum of what is stored, and the files are all those one call of Backup was
\* asked for, however the calls and the server's answers interleave and whatever fails.
THEOREM SnapshotsWhole == Spec => []Whole
<1>1. SessionInv => Whole
  BY SessionSound
<1> QED
  BY <1>1, SessionInvariant, PTL

\* Backup returns success only when the server holds its snapshot.
THEOREM SuccessStored == Spec => []SuccessIsCommitted
<1>1. SessionInv => SuccessIsCommitted
  BY SessionSound
<1> QED
  BY <1>1, SessionInvariant, PTL
=============================================================================
