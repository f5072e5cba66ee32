-------------------------- MODULE RoundTripProofs --------------------------
(***************************************************************************)
(* Proofs about RoundTrip, for any backups, references, options, chunks,   *)
(* buffers and number of workers: what is stored verifies when it is read  *)
(* back, a stream is delivered from its beginning, in order and to its     *)
(* end, and the queue bounds what is downloaded ahead.                     *)
(***************************************************************************)
EXTENDS RoundTrip, SessionProofs, FiniteSetTheorems

Last == Len(Sizes)
\* The units of the first c chunks.
EndOf(c) == IF c = 0 THEN 0 ELSE R!StartOf[c] + Sizes[c]

ReaderTypes ==
  /\ rpc \in {"none", "session", "ready", "reading", "closing", "closed"}
  /\ ppc \in -1 .. Last + 1 /\ queue \in Seq(1 .. Last) /\ await \in 0 .. Last /\ consumed \in 0 .. Last
  /\ fetch \in [1 .. Last -> {"none", "flight", "ok", "failed"}]
  /\ got \in Seq(Nat) /\ cur \in Seq(Nat)
  /\ err \in {"none", "EOF", "failed"} /\ canceled \in BOOLEAN

\* There is a stream from OpenDynamicIndex on.
Opened == rpc \in {"none", "session"} => R!NoStream

\* The downloads of the first p chunks were started, in index order.  They are delivered, then
\* taken from the queue (t = 1, also when that one failed), then queued, without a gap.
Ordered(p, t) ==
  /\ \A k \in 1 .. Last : fetch[k] # "none" <=> k <= p
  /\ ppc \in 1 .. Last + 1 => p = ppc - 1
  /\ await # 0 => t = 1 /\ await = consumed + 1
  /\ t = 1 => await # 0 \/ err = "failed"
  /\ Len(queue) = p - consumed - t /\ Len(queue) <= Workers
  /\ \A j \in 1 .. Len(queue) : queue[j] = consumed + t + j
Pipeline == \E p \in 0 .. Last, t \in {0, 1} : Ordered(p, t)

\* What was returned and the chunk at hand are the first units of the stream, up to the end
\* of the chunk delivered last.
Stream ==
  /\ \A x \in 1 .. Len(got) : got[x] = x
  /\ \A x \in 1 .. Len(cur) : cur[x] = Len(got) + x
  /\ Len(got) + Len(cur) = EndOf(consumed)
  /\ await # 0 => cur = <<>>
  /\ err # "none" => cur = <<>> /\ await = 0
  /\ err = "EOF" => Len(got) = R!Total

\* The entries of a manifest are a list, of which the first one counts.
Listed == \A s \in snapshots : DOMAIN s.files["manifest"] \subseteq Nat

\* The snapshot being read is committed, and there is a verdict only in a session.
Reads ==
  /\ rpc # "none" => snap \in snapshots
  /\ rpc = "none" => verdict = "none"
  /\ Readable

ReaderInv == ReaderTypes /\ Opened /\ Pipeline /\ Stream
RoundTripInv == SessionInv /\ Listed /\ ReaderInv /\ Reads

-----------------------------------------------------------------------------
LEMMA ReaderConstantTypes ==
  /\ Sizes \in Seq(Nat) /\ Last \in Nat /\ DOMAIN Sizes = 1 .. Last /\ R!Chunks = 1 .. Last
  /\ \A k \in 1 .. Last : k \in Nat /\ k # 0 /\ Sizes[k] \in Nat
  /\ Workers \in Nat /\ Workers # 0 /\ \A n \in Buffers : n \in Nat /\ n # 0
<1>1. Sizes \in Seq(Nat \ {0}) /\ Workers \in Nat \ {0} /\ Buffers \subseteq Nat \ {0}
  BY ReaderConstants
<1>2. Last \in Nat /\ DOMAIN Sizes = 1 .. Last
  BY <1>1, LenType DEF Last
<1>3. \A k \in 1 .. Last : Sizes[k] \in Nat
  BY <1>1, ElementType DEF Last
<1>4. Sizes \in Seq(Nat)
  BY <1>1
<1> QED
  BY <1>1, <1>2, <1>3, <1>4 DEF R!Chunks

\* The offsets of the chunks are well defined: their recursive definition has a solution.
LEMMA SumsExist ==
  ASSUME NEW s \in Seq(Nat), NEW m \in 0 .. Len(s)
  PROVE  \E f \in [1 .. m -> Nat] : \A k \in 1 .. m : f[k] = IF k = 1 THEN 0 ELSE f[k-1] + s[k-1]
<1> DEFINE w == [k \in 1 .. m |-> s[k]]
<1>1. m \in Nat /\ \A k \in 1 .. m : k \in 1 .. Len(s)
  BY LenType
<1>2. w \in [1 .. m -> Nat]
  BY <1>1, ElementType
<1>3. PICK g : IsSums(g, m, w)
  <2> HIDE DEF w
  <2> QED
    BY <1>1, <1>2, PartialSums
<1> DEFINE f == [k \in 1 .. m |-> g[k-1]]
<1>4. \A k \in 1 .. m : k - 1 \in 0 .. m /\ g[k-1] \in Nat
  BY <1>1, <1>3 DEF IsSums
<1>5. f \in [1 .. m -> Nat]
  BY <1>4
<1>6. ASSUME NEW k \in 1 .. m PROVE f[k] = IF k = 1 THEN 0 ELSE f[k-1] + s[k-1]
  <2>1. CASE k = 1
    BY <1>3, <2>1 DEF IsSums
  <2>2. CASE k # 1
    <3>1. k - 1 \in 1 .. m /\ (k - 1) - 1 = k - 2
      BY <1>1, <2>2
    <3>2. g[k-1] = g[(k-1) - 1] + s[k-1]
      BY <1>3, <3>1 DEF IsSums
    <3> QED
      BY <2>2, <3>1, <3>2
  <2> QED
    BY <2>1, <2>2
<1> HIDE DEF f
<1> QED
  BY <1>5, <1>6

LEMMA Starts ==
  /\ \A k \in 1 .. Last : R!StartOf[k] \in Nat
  /\ \A k \in 1 .. Last : R!StartOf[k] = EndOf(k - 1)
<1> DEFINE f == R!StartOf
<1>1. \E g : g = [k \in R!Chunks |-> IF k = 1 THEN 0 ELSE g[k-1] + Sizes[k-1]]
  <2>1. PICK g \in [1 .. Last -> Nat] : \A k \in 1 .. Last : g[k] = IF k = 1 THEN 0 ELSE g[k-1] + Sizes[k-1]
    <3>1. Last \in 0 .. Len(Sizes) /\ Sizes \in Seq(Nat)
      BY ReaderConstantTypes DEF Last
    <3> QED
      BY <3>1, SumsExist
  <2>2. g = [k \in 1 .. Last |-> IF k = 1 THEN 0 ELSE g[k-1] + Sizes[k-1]]
    BY <2>1
  <2> QED
    BY <2>2, ReaderConstantTypes
<1>2. f = [k \in 1 .. Last |-> IF k = 1 THEN 0 ELSE f[k-1] + Sizes[k-1]]
  BY <1>1, ReaderConstantTypes DEF R!StartOf
<1> HIDE DEF f
<1> DEFINE T == {k \in 1 .. Last : f[k] \notin Nat}
<1>3. T = {}
  <2>1. SUFFICES ASSUME T # {} PROVE FALSE
    OBVIOUS
  <2>2. PICK k \in T : \A y \in T : k <= y
    BY <2>1, ReaderConstantTypes, Least
  <2>3. f[k] = IF k = 1 THEN 0 ELSE f[k-1] + Sizes[k-1]
    BY <1>2
  <2>4. k # 1
    BY <2>3
  <2>5. k - 1 \in 1 .. Last /\ k - 1 \notin T
    BY <2>2, <2>4, ReaderConstantTypes
  <2>6. f[k-1] \in Nat /\ Sizes[k-1] \in Nat
    BY <2>5, ReaderConstantTypes
  <2> QED
    BY <2>3, <2>4, <2>6
<1>4. \A k \in 1 .. Last : f[k] \in Nat
  BY <1>3
<1>5. ASSUME NEW k \in 1 .. Last PROVE f[k] = EndOf(k - 1)
  <2>1. f[k] = IF k = 1 THEN 0 ELSE f[k-1] + Sizes[k-1]
    BY <1>2
  <2>2. k = 1 <=> k - 1 = 0
    BY ReaderConstantTypes
  <2> QED
    BY <2>1, <2>2 DEF EndOf, f
<1> QED
  BY <1>4, <1>5 DEF f

-----------------------------------------------------------------------------
(***************************************************************************)
(* The sessions.                                                           *)
(***************************************************************************)
LEMMA SessionsEndKeeps ==
  ASSUME SessionInv, SessionsEnd
  PROVE  SessionInv'
<1>1. Types /\ Whole /\ \A b \in Backups : OutcomeOf(b)
  BY DEF SessionInv, BackupOf
<1>2. /\ indexes' = <<>> /\ blobs' = [b \in Backups |-> <<>>]
      /\ files' = [b \in Backups |-> <<>>] /\ byWID' = [b \in Backups |-> <<>>]
      /\ upload' = [b \in Backups |-> [n \in IndexNames |-> "off"]]
      /\ answer' = [b \in Backups |-> [n \in Names |-> "none"]]
      /\ wid' = [b \in Backups |-> [n \in IndexNames |-> 0]]
      /\ bpc' = bpc /\ conn' = conn /\ net' = net /\ snapshots' = snapshots
      /\ \A b \in Backups : bpc[b] \in {"ok", "error"} /\ \A n \in Names : net[b][n] = "none"
  BY DEF SessionsEnd, Settled
<1>3. Types'
  <2>1. files' \in [Backups -> Seq(Entry)]
    BY <1>2, EmptyType
  <2>2. indexes' \in Seq(Writer)
    BY <1>2, EmptyType
  <2>3. DOMAIN byWID' = Backups /\ DOMAIN blobs' = Backups /\ wid' \in [Backups -> [IndexNames -> Nat]]
    BY <1>2
  <2>4. /\ upload' \in [Backups -> [IndexNames -> {"off", "create", "append", "close", "ok", "error"}]]
        /\ answer' \in [Backups -> [Names -> {"none", "ok", "refused"}]]
    BY <1>2
  <2>5. /\ bpc' \in [Backups -> {"start", "index", "ok", "error"} \union Range(Steps)] /\ conn' \in [Backups -> BOOLEAN]
        /\ net' \in [Backups -> [Names -> {"none", "create", "close", "blob", "finish"}]]
    BY <1>1, <1>2 DEF Types
  <2> QED
    BY <2>1, <2>2, <2>3, <2>4, <2>5 DEF Types, Entry, Writer, Plain, PlainEntry
<1>4. DOMAIN indexes' = {} /\ Len(indexes') = 0
  BY <1>2, EmptyLen
<1>5. ASSUME NEW b \in Backups PROVE BackupOf(b)'
  <2>1. DOMAIN files'[b] = {} /\ DOMAIN byWID'[b] = {} /\ DOMAIN blobs'[b] = {}
    <3>1. files'[b] = <<>> /\ byWID'[b] = <<>> /\ blobs'[b] = <<>>
      BY <1>2
    <3> QED
      BY <3>1, EmptyLen
  <2>2. \A m : ~HasEntry(b, m)'
    BY <2>1 DEF HasEntry
  <2>3. ASSUME NEW n \in IndexNames PROVE UploadOf(b, n)'
    <3>1. upload'[b][n] = "off" /\ net'[b][n] = "none" /\ ~Owned(b, n)'
      BY <1>2, <1>4, Naming DEF Owned
    <3> QED
      BY <2>2, <3>1 DEF UploadOf
  <2>4. ASSUME NEW s \in StepNames PROVE StepOf(b, s)'
    <3>1. net'[b][s] = "none" /\ answer'[b][s] = "none" /\ bpc'[b] \in {"ok", "error"} /\ s \notin {"ok", "error"}
      BY <1>2, Naming DEF StepNames
    <3>2. ~Begun(b, s)'
      BY <2>1, <2>2, <3>1 DEF Begun
    <3> QED
      BY <2>1, <2>2, <3>1, <3>2 DEF StepOf
  <2>5. EntriesOf(b)' /\ BlobsOf(b)'
    BY <2>1 DEF EntriesOf, BlobsOf
  <2>6. WritersOf(b)'
    BY <1>2, <1>4, <2>1 DEF WritersOf
  <2>7. OutcomeOf(b)'
    <3>1. answer'[b]["finish"] = "none"
      BY <1>2, Naming DEF StepNames
    <3> QED
      BY <1>1, <1>2, <3>1, OutcomeKept
  <2> QED
    BY <2>3, <2>4, <2>5, <2>6, <2>7 DEF BackupOf
<1>6. OneWriter'
  BY <1>4 DEF OneWriter
<1>7. Whole'
  BY <1>1, <1>2, WholeKept
<1> QED
  BY <1>3, <1>5, <1>6, <1>7 DEF SessionInv

\* Committed snapshots stay.
LEMMA SnapshotsStay ==
  ASSUME [RTNext]_<<vars, readerVars>>
  PROVE  snapshots \subseteq snapshots'
<1>1. CASE UNCHANGED vars
  BY <1>1 DEF vars, serverVars
<1>2. CASE SessionsEnd
  BY <1>2 DEF SessionsEnd
<1>3. ASSUME NEW b \in Backups, Client(b) PROVE snapshots \subseteq snapshots'
  BY <1>3 DEF Client, serverVars
<1>4. ASSUME NEW b \in Backups, Server(b) PROVE snapshots \subseteq snapshots'
  BY <1>4 DEF Server, ServerCreate, ServerClose, ServerBlob, ServerFinish
<1> QED
  BY <1>1, <1>2, <1>3, <1>4 DEF RTNext, Write, ReadBack, Next

LEMMA ListedKept ==
  ASSUME SessionInv, Listed, [RTNext]_<<vars, readerVars>>
  PROVE  Listed'
<1>1. CASE snapshots' = snapshots
  BY <1>1 DEF Listed
<1>2. ASSUME NEW b \in Backups, ServerFinish(b) PROVE Listed'
  <2>1. Types /\ OneWriter /\ BackupOf(b)
    BY DEF SessionInv
  <2>2. Begun(b, "finish")
    BY <1>2 DEF ServerFinish, Begun
  <2>3. DOMAIN StoredFiles(b)["manifest"] \subseteq Nat
    BY <2>1, <2>2, StoredWhole DEF Lists
  <2>4. \A s \in snapshots' : s \in snapshots \/ s.files = StoredFiles(b)
    BY <1>2 DEF ServerFinish
  <2> QED
    BY <2>3, <2>4 DEF Listed
<1>3. ASSUME NEW b \in Backups, Server(b) PROVE Listed'
  BY <1>1, <1>2, <1>3 DEF Server, ServerCreate, ServerClose, ServerBlob
<1>4. ASSUME NEW b \in Backups, Client(b) PROVE Listed'
  BY <1>1, <1>4 DEF Client, serverVars
<1>5. CASE SessionsEnd
  BY <1>1, <1>5 DEF SessionsEnd
<1>6. CASE UNCHANGED vars
  BY <1>1, <1>6 DEF vars, serverVars
<1> QED
  BY <1>3, <1>4, <1>5, <1>6 DEF RTNext, Write, ReadBack, Next

LEMMA SessionRoundTrip ==
  ASSUME SessionInv, [RTNext]_<<vars, readerVars>>
  PROVE  SessionInv'
<1>1. CASE UNCHANGED vars
  BY <1>1, SessionStep
<1>2. CASE Next
  BY <1>2, SessionStep
<1>3. CASE SessionsEnd
  BY <1>3, SessionsEndKeeps
<1> QED
  BY <1>1, <1>2, <1>3 DEF RTNext, Write, ReadBack

-----------------------------------------------------------------------------
(***************************************************************************)
(* The verdicts.                                                           *)
(***************************************************************************)
\* In a whole snapshot every file but the manifest is listed, and what is listed is there.
LEMMA VerdictSound ==
  ASSUME Whole, Listed, snap \in snapshots, NEW n, n # "manifest"
  PROVE  /\ R!Verdict(n) \in {"not found", "verified"}
         /\ R!Verdict(n) = "not found" => n \notin DOMAIN snap.files
<1> DEFINE m == snap.files["manifest"]
           found == {i \in DOMAIN m : m[i].name = n}
<1>1. Consistent(snap)
  BY DEF Whole
<1>2. /\ {m[i].name : i \in DOMAIN m} = DOMAIN snap.files \ {"manifest"}
      /\ \A i, j \in DOMAIN m : m[i].name = m[j].name => i = j
      /\ \A i \in DOMAIN m : m[i].csum = snap.files[m[i].name]
  BY <1>1 DEF Consistent
<1>3. R!Found(n) = found /\ R!Manifest = m
  BY DEF R!Found, R!Manifest
<1>4. DOMAIN m \subseteq Nat
  BY DEF Listed
<1> HIDE DEF m
<1>5. CASE found = {}
  <2>1. n \notin {m[i].name : i \in DOMAIN m}
    BY <1>5
  <2>2. n \notin DOMAIN snap.files
    BY <1>2, <2>1
  <2> QED
    BY <1>3, <1>5, <2>2 DEF R!Verdict
<1>6. CASE found # {}
  <2>1. PICK i \in DOMAIN m : m[i].name = n
    BY <1>6
  <2>2. found = {i}
    BY <1>2, <2>1
  <2>3. n \in DOMAIN snap.files /\ m[i].csum = snap.files[n]
    BY <1>2, <2>1
  <2>4. R!EntryOf(n).csum = snap.files[n]
    <3>1. R!EntryOf(n) = m[R!Min(found)]
      BY <1>3 DEF R!EntryOf
    <3>2. \E x \in found : \A y \in found : x <= y
      <4>1. i \in Nat /\ i <= i
        BY <1>4
      <4> QED
        BY <2>2, <4>1
    <3>3. R!Min(found) \in found
      BY <3>2 DEF R!Min
    <3> QED
      BY <2>2, <2>3, <3>1, <3>3
  <2> QED
    BY <1>3, <1>6, <2>3, <2>4 DEF R!Verdict
<1> QED
  BY <1>5, <1>6

\* A step that leaves the session's verdict and snapshot alone.
LEMMA ReadsKept ==
  ASSUME Reads, snapshots \subseteq snapshots', UNCHANGED <<snap, name, verdict>>, rpc' = "none" <=> rpc = "none"
  PROVE  Reads'
  BY DEF Reads, Readable

LEMMA CallsKeepReads ==
  ASSUME SessionInv, Listed, Reads, UNCHANGED vars, R!Calls(IndexNames, {"blob", "key"}) \/ R!Goroutines
  PROVE  Reads'
<1>1. snapshots' = snapshots /\ Whole
  BY DEF SessionInv, vars, serverVars
<1>2. ASSUME NEW n, n # "manifest", rpc = "session", verdict' = R!Verdict(n), name' = n, snap' = snap, rpc' # "none"
      PROVE  Reads'
  <2>1. snap \in snapshots
    BY <1>2 DEF Reads
  <2>2. R!Verdict(n) \in {"not found", "verified"} /\ (R!Verdict(n) = "not found" => n \notin DOMAIN snap.files)
    BY <1>1, <1>2, <2>1, VerdictSound
  <2> QED
    BY <1>1, <1>2, <2>1, <2>2 DEF Reads, Readable
<1>3. ASSUME NEW n, rpc = "session", R!RequestFails(n) PROVE Reads'
  BY <1>1, <1>3 DEF Reads, Readable, R!RequestFails
<1>4. CASE R!StartReader
  BY <1>1, <1>4 DEF Reads, Readable, R!StartReader
<1>5. ASSUME NEW n \in {"blob", "key"}, R!DownloadBlob(n) PROVE Reads'
  BY <1>2, <1>3, <1>5 DEF R!DownloadBlob
<1>6. ASSUME NEW n \in IndexNames, R!OpenDynamicIndex(n) PROVE Reads'
  <2>1. n # "manifest"
    BY DEF IndexNames
  <2> QED
    BY <1>2, <1>3, <1>6, <2>1 DEF R!OpenDynamicIndex
<1>7. CASE R!Read \/ R!Close \/ R!Cancel
  BY <1>1, <1>7, ReadsKept DEF R!Read, R!Close, R!Cancel, R!sessVars
<1>8. CASE R!Caller
  BY <1>1, <1>8, ReadsKept
  DEF R!Caller, R!ReadTake, R!ReadResult, R!ReadEnd, R!ReadReturns, R!CloseReturns, R!sessVars
<1>9. CASE R!Producer
  BY <1>1, <1>9, ReadsKept DEF R!Producer, R!ProduceQueue, R!ProduceExit, R!sessVars
<1>10. ASSUME NEW k, R!FetchEnds(k) PROVE Reads'
  BY <1>1, <1>10, ReadsKept DEF R!FetchEnds, R!sessVars
<1> QED
  BY <1>4, <1>5, <1>6, <1>7, <1>8, <1>9, <1>10 DEF R!Calls, R!Goroutines

-----------------------------------------------------------------------------
(***************************************************************************)
(* The stream.                                                             *)
(***************************************************************************)
LEMMA PipelineKept ==
  ASSUME Pipeline, UNCHANGED <<ppc, queue, fetch, await, consumed, err>>
  PROVE  Pipeline'
<1>1. PICK p \in 0 .. Last, t \in {0, 1} : Ordered(p, t)
  BY DEF Pipeline
<1>2. Ordered(p, t)'
  BY <1>1 DEF Ordered, Last
<1> QED
  BY <1>1, <1>2 DEF Pipeline, Last

LEMMA StreamKept ==
  ASSUME Stream, UNCHANGED <<got, cur, consumed, await, err>>
  PROVE  Stream'
  BY DEF Stream, EndOf, R!StartOf, R!Total

\* Only the caller, or the context, moves.
LEMMA CallerKeeps ==
  ASSUME ReaderInv, UNCHANGED <<ppc, queue, fetch, await, cur, consumed, got, err>>, canceled' \in BOOLEAN,
         \/ rpc' = rpc /\ canceled' = canceled
         \/ rpc = "none" /\ rpc' = "session" /\ canceled' = canceled
         \/ rpc' \in {"ready", "reading", "closing", "closed"}
  PROVE  ReaderInv'
<1>1. ReaderTypes'
  BY DEF ReaderInv, ReaderTypes, Last
<1>2. Opened'
  BY DEF ReaderInv, Opened, R!NoStream, R!Chunks
<1> QED
  BY <1>1, <1>2, PipelineKept, StreamKept DEF ReaderInv

LEMMA OpenKeeps ==
  ASSUME ReaderInv, NEW n, R!OpenDynamicIndex(n)
  PROVE  ReaderInv'
<1>1. CASE UNCHANGED <<rpc, ppc, queue, fetch, await, cur, consumed, got, err, canceled>>
  BY <1>1, CallerKeeps DEF ReaderInv, ReaderTypes
<1>2. CASE rpc' = "ready" /\ ppc' = 1 /\ UNCHANGED <<queue, fetch, await, cur, consumed, got, err, canceled>>
  <2>1. R!NoStream /\ ReaderTypes /\ Stream
    BY DEF ReaderInv, Opened, R!OpenDynamicIndex
  <2>2. ReaderTypes'
    <3>1. 1 \in -1 .. Last + 1
      BY ReaderConstantTypes
    <3> QED
      BY <1>2, <2>1, <3>1 DEF ReaderTypes, Last
  <2>3. Opened' /\ Stream'
    BY <1>2, <2>1, StreamKept DEF Opened
  <2>4. Ordered(0, 0)'
    <3>1. fetch' = [k \in 1 .. Last |-> "none"] /\ await' = 0 /\ queue' = <<>> /\ consumed' = 0 /\ ppc' = 1
      BY <1>2, <2>1, ReaderConstantTypes DEF R!NoStream
    <3>2. Len(queue') = 0
      BY <3>1
    <3>3. \A k \in 1 .. Last : ~(k <= 0) /\ fetch'[k] = "none"
      BY <3>1
    <3> QED
      BY <3>1, <3>2, <3>3, ReaderConstantTypes DEF Ordered, Last
  <2>5. Pipeline'
    <3>1. 0 \in 0 .. Last
      BY ReaderConstantTypes
    <3> QED
      BY <2>4, <3>1 DEF Pipeline, Last
  <2> QED
    BY <2>2, <2>3, <2>5 DEF ReaderInv
<1> QED
  BY <1>1, <1>2 DEF R!OpenDynamicIndex, R!RequestFails, R!streamVars

\* Something is downloaded or read only from a stream that was opened.
LEMMA StreamOpen ==
  ASSUME Opened, ppc # 0 \/ await # 0 \/ (\E k \in 1 .. Last : fetch[k] # "none"), rpc' = rpc
  PROVE  Opened'
<1>1. R!NoStream => ppc = 0 /\ await = 0 /\ \A k \in 1 .. Last : fetch[k] = "none"
  BY ReaderConstantTypes DEF R!NoStream
<1> QED
  BY <1>1 DEF Opened

LEMMA ProduceQueueKeeps ==
  ASSUME ReaderInv, R!ProduceQueue
  PROVE  ReaderInv'
<1>1. ReaderTypes /\ Opened /\ Pipeline /\ Stream
  BY DEF ReaderInv
<1>2. /\ ppc \in 1 .. Last /\ Len(queue) < Workers
      /\ queue' = Append(queue, ppc) /\ fetch' = [fetch EXCEPT ![ppc] = "flight"] /\ ppc' = ppc + 1
      /\ UNCHANGED <<rpc, await, cur, consumed, got, err, canceled>>
  BY ReaderConstantTypes DEF R!ProduceQueue, R!QueueHasRoom
<1>3. PICK p \in 0 .. Last, t \in {0, 1} : Ordered(p, t)
  BY <1>1 DEF Pipeline
<1>4. ppc \in Nat /\ p = ppc - 1 /\ consumed \in Nat
  <2>1. ppc \in Nat /\ ppc \in 1 .. Last + 1
    BY <1>2, ReaderConstantTypes
  <2>2. consumed \in Nat
    BY <1>1 DEF ReaderTypes
  <2> QED
    BY <1>3, <2>1, <2>2 DEF Ordered
<1>5. /\ queue \in Seq(1 .. Last) /\ queue' \in Seq(1 .. Last) /\ Len(queue) \in Nat /\ Len(queue') = Len(queue) + 1
      /\ queue'[Len(queue) + 1] = ppc /\ \A j \in 1 .. Len(queue) : queue'[j] = queue[j]
  <2>1. queue \in Seq(1 .. Last)
    BY <1>1 DEF ReaderTypes
  <2> QED
    BY <1>2, <2>1, AppendType, AppendAt, LenType
<1>6. /\ fetch' \in [1 .. Last -> {"none", "flight", "ok", "failed"}]
      /\ fetch'[ppc] = "flight" /\ \A k \in 1 .. Last : k # ppc => fetch'[k] = fetch[k]
  BY <1>1, <1>2 DEF ReaderTypes
<1>7. ReaderTypes'
  <2>1. ppc' \in -1 .. Last + 1
    BY <1>2, <1>4, ReaderConstantTypes
  <2> QED
    BY <1>1, <1>2, <1>5, <1>6, <2>1 DEF ReaderTypes, Last
<1>8. Opened'
  BY <1>1, <1>2, <1>4, StreamOpen
<1>9. PICK q \in 0 .. Last : q = ppc
  BY <1>2, <1>4
<1>10. Ordered(q, t)'
  <2>1. \A k \in 1 .. Last : fetch'[k] # "none" <=> k <= ppc
    <3>1. ASSUME NEW k \in 1 .. Last PROVE fetch'[k] # "none" <=> k <= ppc
      <4>1. k \in Nat /\ (k <= p <=> k <= ppc /\ k # ppc)
        BY <1>4
      <4>2. fetch[k] # "none" <=> k <= p
        BY <1>3 DEF Ordered
      <4>3. CASE k = ppc
        BY <1>6, <4>1, <4>3
      <4>4. CASE k # ppc
        BY <1>6, <4>1, <4>2, <4>4
      <4> QED
        BY <4>3, <4>4
    <3> QED
      BY <3>1
  <2>2. ppc = ppc' - 1
    BY <1>2, <1>4
  <2>3. Len(queue) = p - consumed - t /\ \A j \in 1 .. Len(queue) : queue[j] = consumed + t + j
    BY <1>3 DEF Ordered
  <2>4. Len(queue') = ppc - consumed - t /\ Len(queue') <= Workers
    BY <1>2, <1>4, <1>5, <2>3, ReaderConstantTypes
  <2>5. ASSUME NEW j \in 1 .. Len(queue') PROVE queue'[j] = consumed + t + j
    <3>1. CASE j \in 1 .. Len(queue)
      BY <1>5, <2>3, <3>1
    <3>2. CASE j = Len(queue) + 1
      <4>1. ppc = consumed + t + (Len(queue) + 1)
        BY <1>4, <1>5, <2>3
      <4> QED
        BY <1>5, <3>2, <4>1
    <3> QED
      BY <1>5, <3>1, <3>2
  <2>6. (await # 0 => t = 1 /\ await = consumed + 1) /\ (t = 1 => await # 0 \/ err = "failed")
    BY <1>3 DEF Ordered
  <2> QED
    BY <1>2, <1>9, <2>1, <2>2, <2>4, <2>5, <2>6 DEF Ordered, Last
<1>11. Stream'
  BY <1>1, <1>2, StreamKept
<1> QED
  BY <1>7, <1>8, <1>10, <1>11 DEF ReaderInv, Pipeline, Last

LEMMA ProduceExitKeeps ==
  ASSUME ReaderInv, R!ProduceExit
  PROVE  ReaderInv'
<1>1. ReaderTypes /\ Opened /\ Pipeline /\ Stream
  BY DEF ReaderInv
<1>2. /\ ppc # 0 /\ ppc' = -1
      /\ UNCHANGED <<rpc, queue, fetch, await, cur, consumed, got, err, canceled>>
  BY ReaderConstantTypes DEF R!ProduceExit, R!MayExit, R!Exited, Last
<1>3. PICK p \in 0 .. Last, t \in {0, 1} : Ordered(p, t)
  BY <1>1 DEF Pipeline
<1>4. -1 \in -1 .. Last + 1 /\ -1 \notin 1 .. Last + 1
  BY ReaderConstantTypes
<1>5. ReaderTypes'
  BY <1>1, <1>2, <1>4 DEF ReaderTypes, Last
<1>6. Ordered(p, t)'
  BY <1>2, <1>3, <1>4 DEF Ordered, Last
<1>7. Opened' /\ Stream'
  BY <1>1, <1>2, StreamOpen, StreamKept
<1> QED
  BY <1>5, <1>6, <1>7 DEF ReaderInv, Pipeline, Last

LEMMA FetchEndsKeeps ==
  ASSUME ReaderInv, NEW n \in 1 .. Last, R!FetchEnds(n)
  PROVE  ReaderInv'
<1>1. ReaderTypes /\ Opened /\ Pipeline /\ Stream
  BY DEF ReaderInv
<1>2. PICK result \in {"ok", "failed"} : fetch' = [fetch EXCEPT ![n] = result]
  BY DEF R!FetchEnds
<1>3. fetch[n] = "flight" /\ UNCHANGED <<rpc, ppc, queue, await, cur, consumed, got, err, canceled>>
  BY DEF R!FetchEnds
<1>4. /\ fetch' \in [1 .. Last -> {"none", "flight", "ok", "failed"}]
      /\ \A k \in 1 .. Last : fetch'[k] # "none" <=> fetch[k] # "none"
  BY <1>1, <1>2, <1>3 DEF ReaderTypes
<1>5. PICK p \in 0 .. Last, t \in {0, 1} : Ordered(p, t)
  BY <1>1 DEF Pipeline
<1>6. ReaderTypes'
  BY <1>1, <1>3, <1>4 DEF ReaderTypes, Last
<1>7. Ordered(p, t)'
  BY <1>3, <1>4, <1>5 DEF Ordered, Last
<1>8. Opened' /\ Stream'
  BY <1>1, <1>3, StreamOpen, StreamKept
<1> QED
  BY <1>6, <1>7, <1>8 DEF ReaderInv, Pipeline, Last

LEMMA ReadTakeKeeps ==
  ASSUME ReaderInv, R!ReadTake
  PROVE  ReaderInv'
<1>1. ReaderTypes /\ Opened /\ Pipeline /\ Stream
  BY DEF ReaderInv
<1>2. /\ rpc = "reading" /\ cur = <<>> /\ err = "none" /\ await = 0 /\ queue # <<>>
      /\ await' = Head(queue) /\ queue' = Tail(queue)
      /\ UNCHANGED <<rpc, ppc, fetch, cur, consumed, got, err, canceled>>
  BY DEF R!ReadTake
<1>3. PICK p \in 0 .. Last, t \in {0, 1} : Ordered(p, t)
  BY <1>1 DEF Pipeline
<1>4. t = 0
  BY <1>2, <1>3 DEF Ordered
<1>5. /\ queue \in Seq(1 .. Last) /\ queue' \in Seq(1 .. Last) /\ await' \in 1 .. Last /\ Len(queue) \in Nat
      /\ Len(queue') = Len(queue) - 1 /\ 1 \in 1 .. Len(queue) /\ await' = queue[1]
      /\ \A j \in 1 .. Len(queue') : j + 1 \in 1 .. Len(queue) /\ queue'[j] = queue[j+1]
  <2>1. queue \in Seq(1 .. Last)
    BY <1>1 DEF ReaderTypes
  <2> QED
    BY <1>2, <2>1, HeadTailType, HeadAt, TailAt, LenType
<1>6. consumed \in Nat /\ p \in Nat /\ Last \in Nat
  BY <1>1, ReaderConstantTypes DEF ReaderTypes
<1>7. ReaderTypes'
  <2>1. await' \in 0 .. Last
    BY <1>5, <1>6
  <2> QED
    BY <1>1, <1>2, <1>5, <2>1 DEF ReaderTypes, Last
<1>8. Opened'
  BY <1>2 DEF Opened
<1>9. Ordered(p, 1)'
  <2>1. Len(queue) = p - consumed - 0 /\ Len(queue) <= Workers /\ \A j \in 1 .. Len(queue) : queue[j] = consumed + 0 + j
    BY <1>3, <1>4 DEF Ordered
  <2>2. await' = consumed + 1 /\ await' # 0
    BY <1>5, <1>6, <2>1
  <2>3. Len(queue') = p - consumed - 1 /\ Len(queue') <= Workers
    BY <1>5, <1>6, <2>1, ReaderConstantTypes
  <2>4. ASSUME NEW j \in 1 .. Len(queue') PROVE queue'[j] = consumed + 1 + j
    <3>1. j + 1 \in 1 .. Len(queue) /\ queue'[j] = queue[j+1] /\ j \in Nat
      BY <1>5
    <3>2. queue[j+1] = consumed + 0 + (j + 1)
      BY <2>1, <3>1
    <3> QED
      BY <1>6, <3>1, <3>2
  <2>5. (\A k \in 1 .. Last : fetch[k] # "none" <=> k <= p) /\ (ppc \in 1 .. Last + 1 => p = ppc - 1)
    BY <1>3 DEF Ordered
  <2> QED
    BY <1>2, <2>2, <2>3, <2>4, <2>5 DEF Ordered, Last
<1>10. Stream'
  BY <1>1, <1>2 DEF Stream, EndOf, R!StartOf, R!Total
<1> QED
  BY <1>7, <1>8, <1>9, <1>10 DEF ReaderInv, Pipeline, Last

\* The chunk at hand continues what was returned, or the caller gets the error.
LEMMA ReadResultKeeps ==
  ASSUME ReaderInv, R!ReadResult
  PROVE  ReaderInv'
<1>1. ReaderTypes /\ Opened /\ Pipeline /\ Stream
  BY DEF ReaderInv
<1>2. /\ rpc = "reading" /\ await # 0 /\ await' = 0
      /\ UNCHANGED <<rpc, ppc, queue, fetch, got>>
  BY DEF R!ReadResult
<1>3. PICK p \in 0 .. Last, t \in {0, 1} : Ordered(p, t)
  BY <1>1 DEF Pipeline
<1>4. t = 1 /\ await = consumed + 1 /\ await \in 1 .. Last /\ consumed \in Nat /\ p \in Nat /\ Last \in Nat
  BY <1>1, <1>2, <1>3, ReaderConstantTypes DEF Ordered, ReaderTypes
<1>5. cur = <<>> /\ err = "none" /\ Len(cur) = 0 /\ got \in Seq(Nat) /\ Len(got) \in Nat
  <2>1. cur = <<>> /\ err = "none" /\ got \in Seq(Nat)
    BY <1>1, <1>2 DEF Stream, ReaderTypes
  <2> QED
    BY <2>1, LenType, EmptyLen
<1>6. Opened'
  BY <1>2 DEF Opened
<1>7. CASE fetch[await] = "ok"
  <2>1. cur' = R!Units(await) /\ consumed' = consumed + 1 /\ UNCHANGED <<err, canceled>>
    BY <1>7 DEF R!ReadResult
  <2>2. PICK n \in 1 .. Last : n = await
    BY <1>4
  <2>3. PICK size \in Nat : size = Sizes[n]
    BY ReaderConstantTypes
  <2>4. PICK start \in Nat : start = R!StartOf[n]
    BY Starts
  <2>5. cur' = [x \in 1 .. size |-> start + x]
    BY <2>1, <2>2, <2>3, <2>4 DEF R!Units
  <2>6. cur' \in Seq(Nat) /\ Len(cur') = size
    <3>1. [x \in 1 .. size |-> start + x] \in [1 .. size -> Nat]
      OBVIOUS
    <3> QED
      BY <2>5, <3>1, SequenceOf
  <2>7. Len(got) = start
    <3>1. Len(got) + Len(cur) = EndOf(consumed)
      BY <1>1 DEF Stream
    <3>2. EndOf(consumed) = start
      <4>1. consumed = n - 1
        BY <1>4, <2>2
      <4> QED
        BY <2>4, <4>1, Starts
    <3> QED
      BY <1>5, <3>1, <3>2
  <2>8. EndOf(consumed') = start + size
    <3>1. consumed' = n /\ n # 0
      BY <1>4, <2>1, <2>2
    <3> QED
      BY <2>3, <2>4, <3>1 DEF EndOf
  <2>9. Stream'
    <3>1. \A x \in 1 .. Len(cur') : cur'[x] = Len(got') + x
      BY <1>2, <2>5, <2>6, <2>7
    <3>2. Len(got') + Len(cur') = EndOf(consumed')
      BY <1>2, <2>6, <2>7, <2>8
    <3>3. \A x \in 1 .. Len(got') : got'[x] = x
      BY <1>1, <1>2 DEF Stream
    <3>4. err' = "none" /\ await' = 0
      BY <1>2, <1>5, <2>1
    <3>5. EndOf(consumed)' = EndOf(consumed')
      BY DEF EndOf, R!StartOf
    <3> QED
      BY <3>1, <3>2, <3>3, <3>4, <3>5 DEF Stream
  <2>10. Ordered(p, 0)'
    <3>1. Len(queue) = p - consumed - 1 /\ Len(queue) <= Workers /\ \A j \in 1 .. Len(queue) : queue[j] = consumed + 1 + j
      BY <1>3, <1>4 DEF Ordered
    <3>2. Len(queue') = p - consumed' - 0 /\ Len(queue') <= Workers
      BY <1>2, <1>4, <2>1, <3>1
    <3>3. \A j \in 1 .. Len(queue') : queue'[j] = consumed' + 0 + j
      BY <1>2, <1>4, <2>1, <3>1
    <3>4. (\A k \in 1 .. Last : fetch[k] # "none" <=> k <= p) /\ (ppc \in 1 .. Last + 1 => p = ppc - 1)
      BY <1>3 DEF Ordered
    <3> QED
      BY <1>2, <3>2, <3>3, <3>4 DEF Ordered, Last
  <2>11. ReaderTypes'
    <3>1. consumed' \in 0 .. Last /\ await' \in 0 .. Last
      BY <1>2, <1>4, <2>1
    <3> QED
      BY <1>1, <1>2, <2>1, <2>6, <3>1 DEF ReaderTypes, Last
  <2> QED
    BY <1>6, <2>9, <2>10, <2>11 DEF ReaderInv, Pipeline, Last
<1>8. CASE fetch[await] # "ok"
  <2>1. err' = "failed" /\ canceled' = TRUE /\ UNCHANGED <<cur, consumed>>
    BY <1>8 DEF R!ReadResult
  <2>2. Stream'
    BY <1>1, <1>2, <1>5, <2>1 DEF Stream, EndOf, R!StartOf
  <2>3. Ordered(p, t)'
    BY <1>2, <1>3, <2>1 DEF Ordered, Last
  <2>4. ReaderTypes'
    <3>1. 0 \in 0 .. Last
      BY <1>4
    <3> QED
      BY <1>1, <1>2, <2>1, <3>1 DEF ReaderTypes, Last
  <2> QED
    BY <1>6, <2>2, <2>3, <2>4 DEF ReaderInv, Pipeline, Last
<1> QED
  BY <1>7, <1>8

LEMMA ReadEndKeeps ==
  ASSUME ReaderInv, R!ReadEnd
  PROVE  ReaderInv'
<1>1. ReaderTypes /\ Opened /\ Pipeline /\ Stream
  BY DEF ReaderInv
<1>2. /\ rpc = "reading" /\ cur = <<>> /\ err = "none" /\ await = 0
      /\ UNCHANGED <<rpc, ppc, queue, fetch, await, cur, consumed, got, canceled>>
      /\ err' \in {"EOF", "failed"} /\ (err' = "EOF" => Len(got) = R!Total)
  BY DEF R!ReadEnd, R!ReachedEnd
<1>3. PICK p \in 0 .. Last, t \in {0, 1} : Ordered(p, t)
  BY <1>1 DEF Pipeline
<1>4. ReaderTypes'
  BY <1>1, <1>2 DEF ReaderTypes, Last
<1>5. Opened'
  BY <1>2 DEF Opened
<1>6. Ordered(p, t)'
  BY <1>2, <1>3 DEF Ordered, Last
<1>7. Stream'
  BY <1>1, <1>2 DEF Stream, EndOf, R!StartOf, R!Total
<1> QED
  BY <1>4, <1>5, <1>6, <1>7 DEF ReaderInv, Pipeline, Last

\* Read returns some of the chunk at hand; together with the rest it is what it was.
LEMMA ReadReturnsKeeps ==
  ASSUME ReaderInv, R!ReadReturns
  PROVE  ReaderInv'
<1>1. ReaderTypes /\ Opened /\ Pipeline /\ Stream
  BY DEF ReaderInv
<1>2. rpc' = "ready" /\ UNCHANGED <<ppc, queue, fetch, await, consumed, err, canceled>>
  BY DEF R!ReadReturns
<1>3. CASE UNCHANGED <<got, cur>>
  BY <1>1, <1>2, <1>3, CallerKeeps DEF ReaderInv, ReaderTypes
<1>4. CASE cur # <<>> /\ \E n \in Buffers : LET k == R!Min({n, Len(cur)}) IN
             got' = got \o SubSeq(cur, 1, k) /\ cur' = SubSeq(cur, k + 1, Len(cur))
  <2>1. got \in Seq(Nat) /\ cur \in Seq(Nat) /\ Len(got) \in Nat /\ Len(cur) \in Nat
    BY <1>1, LenType DEF ReaderTypes
  <2>2. PICK k \in Nat : k <= Len(cur) /\ got' = got \o SubSeq(cur, 1, k) /\ cur' = SubSeq(cur, k + 1, Len(cur))
    <3>1. PICK n \in Buffers : /\ got' = got \o SubSeq(cur, 1, R!Min({n, Len(cur)}))
                               /\ cur' = SubSeq(cur, R!Min({n, Len(cur)}) + 1, Len(cur))
      BY <1>4
    <3>2. {n, Len(cur)} \subseteq Nat
      BY <2>1, ReaderConstantTypes
    <3>3. \E x \in {n, Len(cur)} : \A y \in {n, Len(cur)} : x <= y
      BY <3>2, Least
    <3>4. R!Min({n, Len(cur)}) \in {n, Len(cur)} /\ \A y \in {n, Len(cur)} : R!Min({n, Len(cur)}) <= y
      BY <3>3 DEF R!Min
    <3>5. R!Min({n, Len(cur)}) \in Nat /\ R!Min({n, Len(cur)}) <= Len(cur)
      BY <3>2, <3>4
    <3> QED
      BY <3>1, <3>5
  <2> DEFINE front == SubSeq(cur, 1, k)
  <2>3. front \in Seq(Nat) /\ Len(front) = k /\ \A x \in 1 .. k : front[x] = cur[x]
    <3>1. /\ front \in Seq(Nat) /\ Len(front) = k - 1 + 1
          /\ \A x \in 1 .. k - 1 + 1 : front[x] = cur[1 + x - 1]
      BY <2>1, <2>2, SubSeqAt
    <3>2. k - 1 + 1 = k /\ \A x \in 1 .. k : 1 + x - 1 = x
      OBVIOUS
    <3> HIDE DEF front
    <3> QED
      BY <3>1, <3>2
  <2>4. PICK r \in Nat : r = Len(cur) - k
    <3>1. k <= Len(cur) /\ Len(cur) \in Nat
      BY <2>1, <2>2
    <3> QED
      BY <3>1
  <2>5. cur' \in Seq(Nat) /\ Len(cur') = r /\ \A x \in 1 .. r : cur'[x] = cur[k + x]
    <3>1. /\ cur' \in Seq(Nat) /\ Len(cur') = Len(cur) - (k + 1) + 1
          /\ \A x \in 1 .. Len(cur) - (k + 1) + 1 : cur'[x] = cur[(k + 1) + x - 1]
      BY <2>1, <2>2, SubSeqAt, SMTT(30)
    <3>2. Len(cur) - (k + 1) + 1 = r /\ \A x \in 1 .. r : (k + 1) + x - 1 = k + x
      BY <2>1, <2>4
    <3> QED
      BY <3>1, <3>2
  <2>6. got' = got \o front
    BY <2>2
  <2> HIDE DEF front
  <2>7. /\ got' \in Seq(Nat) /\ Len(got') = Len(got) + k
        /\ \A x \in 1 .. Len(got) : got'[x] = got[x]
        /\ \A x \in 1 .. Len(got) + k : x > Len(got) => got'[x] = front[x - Len(got)]
    BY <2>1, <2>3, <2>6, ConcatAt
  <2>8. /\ \A x \in 1 .. Len(got) : got[x] = x
        /\ \A x \in 1 .. Len(cur) : cur[x] = Len(got) + x
        /\ Len(got) + Len(cur) = EndOf(consumed)
        /\ err = "none" /\ await = 0
    BY <1>1, <1>4 DEF Stream
  <2>9. ASSUME NEW x \in 1 .. Len(got') PROVE got'[x] = x
    <3>1. CASE x \in 1 .. Len(got)
      BY <2>7, <2>8, <3>1
    <3>2. CASE x \notin 1 .. Len(got)
      <4>1. PICK y \in 1 .. k : y = x - Len(got)
        <5>1. PICK g \in Nat : g = Len(got)
          BY <2>1
        <5>2. x \in 1 .. g + k /\ x \notin 1 .. g
          BY <2>7, <3>2, <5>1
        <5>3. x - g \in 1 .. k
          BY <5>2
        <5> QED
          BY <5>1, <5>3
      <4>2. x > Len(got) /\ x \in 1 .. Len(got) + k /\ y \in 1 .. Len(cur) /\ Len(got) + y = x
        BY <2>1, <2>2, <2>7, <4>1
      <4>3. got'[x] = front[y] /\ front[y] = cur[y] /\ cur[y] = Len(got) + y
        BY <2>3, <2>7, <2>8, <4>1, <4>2
      <4> QED
        BY <4>2, <4>3
    <3> QED
      BY <3>1, <3>2
  <2>10. ASSUME NEW x \in 1 .. Len(cur') PROVE cur'[x] = Len(got') + x
    <3>1. k + x \in 1 .. Len(cur) /\ x \in 1 .. r /\ x \in Nat
      BY <2>1, <2>2, <2>4, <2>5
    <3>2. cur'[x] = Len(got) + (k + x)
      BY <2>5, <2>8, <3>1
    <3> QED
      BY <2>1, <2>7, <3>1, <3>2
  <2>11. Len(got') + Len(cur') = Len(got) + Len(cur)
    <3>1. Len(got') + Len(cur') = (Len(got) + k) + (Len(cur) - k)
      BY <2>4, <2>5, <2>7
    <3>2. k \in Nat /\ Len(cur) \in Nat /\ Len(got) \in Nat
      BY <2>1
    <3> QED
      BY <3>1, <3>2
  <2>12. Stream'
    <3>1. EndOf(consumed)' = EndOf(consumed)
      BY <1>2 DEF EndOf, R!StartOf
    <3> QED
      BY <1>2, <2>8, <2>9, <2>10, <2>11, <3>1 DEF Stream
  <2>13. ReaderTypes'
    BY <1>1, <1>2, <2>5, <2>7 DEF ReaderTypes, Last
  <2>14. Opened' /\ Pipeline'
    BY <1>1, <1>2, PipelineKept DEF Opened
  <2> QED
    BY <2>12, <2>13, <2>14 DEF ReaderInv
<1> QED
  BY <1>3, <1>4 DEF R!ReadReturns

-----------------------------------------------------------------------------
(***************************************************************************)
(* The theorems.                                                           *)
(***************************************************************************)
LEMMA ReaderInit ==
  ASSUME R!Init
  PROVE  ReaderInv /\ Reads
<1>1. R!NoStream /\ rpc = "none" /\ verdict = "none"
  BY DEF R!Init
<1>2. /\ ppc = 0 /\ queue = <<>> /\ fetch = [k \in 1 .. Last |-> "none"] /\ await = 0
      /\ cur = <<>> /\ consumed = 0 /\ got = <<>> /\ err = "none" /\ canceled = FALSE
  BY <1>1, ReaderConstantTypes DEF R!NoStream
<1>3. Len(queue) = 0 /\ Len(got) = 0 /\ Len(cur) = 0 /\ 0 \in 0 .. Last /\ 0 \in -1 .. Last + 1
  BY <1>2, ReaderConstantTypes
<1>4. ReaderTypes
  <2>1. queue \in Seq(1 .. Last) /\ got \in Seq(Nat) /\ cur \in Seq(Nat)
    BY <1>2, EmptyType
  <2> QED
    BY <1>1, <1>2, <1>3, <2>1 DEF ReaderTypes
<1>5. Opened
  BY <1>1 DEF Opened
<1>6. Ordered(0, 0)
  <2>1. \A k \in 1 .. Last : fetch[k] = "none" /\ ~(k <= 0)
    BY <1>2
  <2>2. 0 \notin 1 .. Last + 1
    BY ReaderConstantTypes
  <2> QED
    BY <1>2, <1>3, <2>1, <2>2, ReaderConstantTypes DEF Ordered
<1>7. Stream
  BY <1>2, <1>3 DEF Stream, EndOf
<1>8. Reads
  BY <1>1 DEF Reads, Readable
<1> QED
  BY <1>3, <1>4, <1>5, <1>6, <1>7, <1>8 DEF ReaderInv, Pipeline

LEMMA ReaderStep ==
  ASSUME ReaderInv, R!Calls(IndexNames, {"blob", "key"}) \/ R!Goroutines
  PROVE  ReaderInv'
<1> USE DEF R!sessVars, R!streamVars
<1>1. canceled \in BOOLEAN
  BY DEF ReaderInv, ReaderTypes
<1>2. CASE R!StartReader
  BY <1>1, <1>2, CallerKeeps DEF R!StartReader
<1>3. CASE R!Read \/ R!Close \/ R!Cancel \/ R!CloseReturns
  BY <1>1, <1>3, CallerKeeps DEF R!Read, R!Close, R!Cancel, R!CloseReturns
<1>4. ASSUME NEW n \in {"blob", "key"}, R!DownloadBlob(n) PROVE ReaderInv'
  BY <1>1, <1>4, CallerKeeps DEF R!DownloadBlob, R!RequestFails
<1>5. ASSUME NEW n \in IndexNames, R!OpenDynamicIndex(n) PROVE ReaderInv'
  BY <1>5, OpenKeeps
<1>6. CASE R!Caller
  BY <1>3, <1>6, ReadTakeKeeps, ReadResultKeeps, ReadEndKeeps, ReadReturnsKeeps DEF R!Caller
<1>7. CASE R!Producer
  BY <1>7, ProduceQueueKeeps, ProduceExitKeeps DEF R!Producer
<1>8. ASSUME NEW k \in R!Chunks, R!FetchEnds(k) PROVE ReaderInv'
  BY <1>8, FetchEndsKeeps, ReaderConstantTypes
<1> QED
  BY <1>2, <1>3, <1>4, <1>5, <1>6, <1>7, <1>8 DEF R!Calls, R!Goroutines

LEMMA RoundTripStep ==
  ASSUME RoundTripInv, [RTNext]_<<vars, readerVars>>
  PROVE  RoundTripInv'
<1>1. SessionInv /\ Listed /\ ReaderInv /\ Reads
  BY DEF RoundTripInv
<1>2. SessionInv' /\ Listed'
  BY <1>1, SessionRoundTrip, ListedKept
<1>3. CASE UNCHANGED readerVars
  <2>1. UNCHANGED <<rpc, snap, name, verdict, ppc, queue, fetch, await, cur, consumed, got, err, canceled>>
    BY <1>3 DEF readerVars
  <2>2. ReaderInv'
    BY <1>1, <2>1, CallerKeeps DEF ReaderInv, ReaderTypes
  <2>3. Reads'
    BY <1>1, <2>1, SnapshotsStay, ReadsKept
  <2> QED
    BY <1>2, <2>2, <2>3 DEF RoundTripInv
<1>4. CASE ReadBack
  BY <1>1, <1>2, <1>4, ReaderStep, CallsKeepReads DEF ReadBack, RoundTripInv
<1> QED
  BY <1>3, <1>4 DEF RTNext, Write

LEMMA RoundTripInvariant == RTSpec => []RoundTripInv
<1>1. RTInit => RoundTripInv
  <2>1. SUFFICES ASSUME RTInit PROVE RoundTripInv
    OBVIOUS
  <2>2. SessionInv /\ ReaderInv /\ Reads
    BY <2>1, SessionInit, ReaderInit DEF RTInit
  <2>3. Listed
    BY <2>1 DEF RTInit, Init, Listed
  <2> QED
    BY <2>2, <2>3 DEF RoundTripInv
<1>2. RoundTripInv /\ [RTNext]_<<vars, readerVars>> => RoundTripInv'
  BY RoundTripStep
<1> QED
  BY <1>1, <1>2, PTL DEF RTSpec

\* The downloads that were started are the first p chunks, and all but those delivered and
\* the one that was taken are in the queue.
LEMMA PipelineBounded ==
  ASSUME ReaderInv
  PROVE  FetchBounded
<1>1. PICK p \in 0 .. Last, t \in {0, 1} : Ordered(p, t)
  BY DEF ReaderInv, Pipeline
<1>2. p \in Nat /\ consumed \in Nat /\ Workers \in Nat
  BY ReaderConstantTypes DEF ReaderInv, ReaderTypes
<1>3. {k \in R!Chunks : fetch[k] # "none"} = 1 .. p
  <2>1. \A k \in 1 .. Last : fetch[k] # "none" <=> k <= p
    BY <1>1 DEF Ordered
  <2>2. \A k \in 1 .. p : k \in 1 .. Last /\ k <= p
    BY ReaderConstantTypes
  <2>3. \A k \in 1 .. Last : k <= p => k \in 1 .. p
    BY <1>2
  <2> QED
    BY <2>1, <2>2, <2>3, ReaderConstantTypes
<1>4. Cardinality(1 .. p) = p
  <2>1. CASE p = 0
    BY <2>1, FS_Interval
  <2>2. CASE p # 0
    BY <1>2, <2>2, FS_Interval
  <2> QED
    BY <2>1, <2>2
<1>5. p - consumed <= Workers + 1
  <2>1. Len(queue) = p - consumed - t /\ Len(queue) <= Workers
    BY <1>1 DEF Ordered
  <2> QED
    BY <1>2, <2>1
<1>6. R!Cardinality({k \in R!Chunks : fetch[k] # "none"}) = p
  <2>1. R!Cardinality(1 .. p) = Cardinality(1 .. p)
    BY DEF Cardinality, R!Cardinality
  <2> QED
    BY <1>3, <1>4, <2>1
<1> QED
  BY <1>5, <1>6 DEF FetchBounded, R!FetchBounded

LEMMA StreamBegins ==
  ASSUME ReaderInv
  PROVE  StreamExact
<1>1. ReaderTypes /\ Stream
  BY DEF ReaderInv
<1>2. DOMAIN got = 1 .. Len(got)
  BY <1>1 DEF ReaderTypes
<1> QED
  BY <1>1, <1>2 DEF Stream, StreamExact, R!StreamExact

\* What holds of the sessions holds when they have ended too, and while a snapshot is read:
\* their state is well formed, a committed snapshot is one whole backup, and a backup that
\* returned success is stored.
THEOREM SessionsHold == RTSpec => [](TypeOK /\ Whole /\ SuccessIsCommitted)
<1>1. RoundTripInv => TypeOK /\ Whole /\ SuccessIsCommitted
  BY SessionTyped, SessionSound DEF RoundTripInv
<1> QED
  BY <1>1, RoundTripInvariant, PTL

\* Whatever was committed verifies: manifestFile, download and the comparison with the
\* manifest never find a file missing or different from what a backup recorded, and a file
\* they do not find was never stored, whichever of the racing backups was the one that won.
THEOREM SnapshotsReadable == RTSpec => []Readable
<1>1. RoundTripInv => Readable
  BY DEF RoundTripInv, Reads
<1> QED
  BY <1>1, RoundTripInvariant, PTL

\* What Read returns is the stream from its beginning, in order and without a gap, however
\* the downloads finish, fail or are canceled, and io.EOF comes only after all of it.
THEOREM StreamInOrder == RTSpec => []StreamExact
<1>1. RoundTripInv => StreamExact
  BY StreamBegins DEF RoundTripInv
<1> QED
  BY <1>1, RoundTripInvariant, PTL

\* For any number of workers, the producer never has more than that many chunks, and the one
\* Read waits for, downloaded ahead of what was delivered.
THEOREM DownloadsBounded == RTSpec => []FetchBounded
<1>1. RoundTripInv => FetchBounded
  BY PipelineBounded DEF RoundTripInv
<1> QED
  BY <1>1, RoundTripInvariant, PTL
=============================================================================
