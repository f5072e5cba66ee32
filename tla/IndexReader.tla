---------------------------- MODULE IndexReader ----------------------------
(***************************************************************************)
(* Reading a snapshot: a ReaderSession (src/pbs/reader.go) that verifies   *)
(* files against the manifest, and the stream OpenDynamicIndex returns,    *)
(* whose producer fetches chunks concurrently and whose Read delivers them *)
(* in order.                                                               *)
(*                                                                         *)
(* A snapshot is a reference and its files' contents; that of the manifest *)
(* is a sequence of entries.  Every index has chunks of Sizes units, and   *)
(* the units of a stream are numbered.  The caller reads and closes from   *)
(* one goroutine.                                                          *)
(***************************************************************************)
EXTENDS Integers, Sequences, FiniteSets, FiniteSetsExt

CONSTANTS
  Sizes,      \* units of each chunk of an index
  Workers,    \* Config.Workers, the capacity of the queue
  Buffers,    \* lengths of the buffers the caller reads into
  MayFail     \* requests may fail and the caller may cancel

Chunks == DOMAIN Sizes
StartOf[k \in Chunks] == IF k = 1 THEN 0 ELSE StartOf[k-1] + Sizes[k-1]
Units(k) == [x \in 1 .. Sizes[k] |-> StartOf[k] + x]
Total == IF Sizes = <<>> THEN 0 ELSE StartOf[Len(Sizes)] + Sizes[Len(Sizes)]

VARIABLES
  snapshots,         \* what the server has committed
  rpc, snap,         \* the caller, and the snapshot of its session
  name, verdict,     \* the file asked for last, and what came of it
  ppc, queue, fetch, \* producer, queued chunks, and what became of each download
  await, cur, consumed, got, err, canceled

sessVars == <<snap, name, verdict>>
streamVars == <<ppc, queue, fetch, await, cur, consumed, got, err, canceled>>
vars == <<rpc, sessVars, streamVars>>

NoSnapshot == "none"
NoStream ==
  /\ ppc = 0 /\ queue = <<>> /\ fetch = [k \in Chunks |-> "none"] /\ await = 0
  /\ cur = <<>> /\ consumed = 0 /\ got = <<>> /\ err = "none" /\ canceled = FALSE

Init ==
  /\ rpc = "none" /\ snap = NoSnapshot
  /\ name = "none" /\ verdict = "none"
  /\ NoStream

-----------------------------------------------------------------------------
(***************************************************************************)
(* The session.                                                            *)
(***************************************************************************)
\* The server refuses a reference it has no snapshot of.
StartReader ==
  /\ rpc = "none"
  /\ snap' \in snapshots
  /\ rpc' = "session"
  /\ UNCHANGED <<name, verdict, streamVars>>

Manifest == snap.files["manifest"]

\* The first entry of that name counts.
Found(n) == {i \in DOMAIN Manifest : Manifest[i].name = n}
EntryOf(n) == Manifest[Min(Found(n))]

\* manifestFile, download and the comparison with the manifest.
Verdict(n) ==
  IF Found(n) = {} THEN "not found"
  ELSE IF n \notin DOMAIN snap.files THEN "missing"
  ELSE IF EntryOf(n).csum # snap.files[n] THEN "mismatch" ELSE "verified"

\* A request fails, for the manifest, the file or the index.  A snapshot does not change, so
\* it makes no difference whether the manifest was cached by an earlier call.
RequestFails(n) ==
  /\ MayFail
  /\ verdict' = "failed" /\ name' = n
  /\ UNCHANGED <<rpc, snap, streamVars>>

DownloadBlob(n) ==
  /\ rpc = "session"
  /\ \/ RequestFails(n)
     \/ /\ verdict' = Verdict(n) /\ name' = n
        /\ UNCHANGED <<rpc, snap, streamVars>>

\* OpenDynamicIndex starts the producer when loadIndex has verified the index.
OpenDynamicIndex(n) ==
  /\ rpc = "session"
  /\ \/ RequestFails(n)
     \/ /\ verdict' = Verdict(n) /\ name' = n
        /\ rpc' = IF Verdict(n) = "verified" THEN "ready" ELSE rpc
        /\ ppc' = IF Verdict(n) = "verified" THEN 1 ELSE ppc
        /\ UNCHANGED <<snap, queue, fetch, await, cur, consumed, got, err, canceled>>

-----------------------------------------------------------------------------
(***************************************************************************)
(* The stream.  ppc is the entry the producer is at, Exited once it has    *)
(* closed the queue.                                                       *)
(***************************************************************************)
Exited == -1
Running == ppc \in Chunks \union {Len(Sizes) + 1}

QueueHasRoomForOneMore == Len(queue) <= Workers    \* a mutant
QueueHasRoom == Len(queue) < Workers

ProduceQueue ==
  /\ ppc \in Chunks /\ QueueHasRoom
  /\ queue' = Append(queue, ppc)
  /\ fetch' = [fetch EXCEPT ![ppc] = "flight"]
  /\ ppc' = ppc + 1
  /\ UNCHANGED <<rpc, sessVars, await, cur, consumed, got, err, canceled>>

\* The queue is full, or the random choice of the select falls on the context.
AlwaysQueues == ppc = Len(Sizes) + 1   \* a mutant: a full queue is waited for whatever happens
MayExit == ppc = Len(Sizes) + 1 \/ (ppc \in Chunks /\ canceled)

ProduceExit ==
  /\ MayExit
  /\ ppc' = Exited
  /\ UNCHANGED <<rpc, sessVars, queue, fetch, await, cur, consumed, got, err, canceled>>

\* fetchChunk; the result channel has room for the result.
FetchEnds(k) ==
  /\ fetch[k] = "flight"
  /\ \E result \in {"ok"} \union (IF MayFail \/ canceled THEN {"failed"} ELSE {}) :
       fetch' = [fetch EXCEPT ![k] = result]
  /\ UNCHANGED <<rpc, sessVars, ppc, queue, await, cur, consumed, got, err, canceled>>

Read ==
  /\ rpc = "ready" /\ rpc' = "reading"
  /\ UNCHANGED <<sessVars, streamVars>>

\* The next result, in index order.
ReadTake ==
  /\ rpc = "reading" /\ cur = <<>> /\ err = "none" /\ await = 0 /\ queue # <<>>
  /\ await' = Head(queue) /\ queue' = Tail(queue)
  /\ UNCHANGED <<rpc, sessVars, ppc, fetch, cur, consumed, got, err, canceled>>

ReadResult ==
  /\ rpc = "reading" /\ await # 0 /\ fetch[await] \in {"ok", "failed"}
  /\ IF fetch[await] = "ok"
     THEN cur' = Units(await) /\ consumed' = consumed + 1 /\ UNCHANGED <<err, canceled>>
     ELSE err' = "failed" /\ canceled' = TRUE /\ UNCHANGED <<cur, consumed>>
  /\ await' = 0
  /\ UNCHANGED <<rpc, sessVars, ppc, queue, fetch, got>>

\* The queue is closed and empty: the stream has ended, or was cut off.
EndsAnyway == TRUE                     \* a mutant: a closed queue is the end of the stream
ReachedEnd == consumed = Len(Sizes) /\ Len(got) = Total

ReadEnd ==
  /\ rpc = "reading" /\ cur = <<>> /\ err = "none" /\ await = 0 /\ queue = <<>> /\ ppc = Exited
  /\ err' = IF ReachedEnd THEN "EOF" ELSE "failed"
  /\ UNCHANGED <<rpc, sessVars, ppc, queue, fetch, await, cur, consumed, got, canceled>>

\* Read copies what the buffer takes, or returns the error, now and ever after.
ReadReturns ==
  /\ rpc = "reading" /\ rpc' = "ready"
  /\ \/ /\ cur # <<>>
        /\ \E n \in Buffers : LET k == Min({n, Len(cur)}) IN
             /\ got' = got \o SubSeq(cur, 1, k)
             /\ cur' = SubSeq(cur, k + 1, Len(cur))
     \/ cur = <<>> /\ err # "none" /\ UNCHANGED <<got, cur>>
  /\ UNCHANGED <<sessVars, ppc, queue, fetch, await, consumed, err, canceled>>

Close ==
  /\ rpc = "ready"
  /\ rpc' = "closing" /\ canceled' = TRUE
  /\ UNCHANGED <<sessVars, ppc, queue, fetch, await, cur, consumed, got, err>>

\* wg.Wait
CloseReturns ==
  /\ rpc = "closing" /\ ppc = Exited /\ \A k \in Chunks : fetch[k] # "flight"
  /\ rpc' = "closed"
  /\ UNCHANGED <<sessVars, streamVars>>

Cancel ==
  /\ MayFail /\ rpc \in {"ready", "reading"} /\ ~canceled
  /\ canceled' = TRUE
  /\ UNCHANGED <<rpc, sessVars, ppc, queue, fetch, await, cur, consumed, got, err>>

Caller == ReadTake \/ ReadResult \/ ReadEnd \/ ReadReturns \/ CloseReturns
Producer == ProduceQueue \/ ProduceExit

\* What the caller may do, and what goes on by itself.
Calls(indexNames, blobNames) ==
  StartReader \/ Read \/ Close \/ Cancel
  \/ (\E n \in indexNames : OpenDynamicIndex(n)) \/ \E n \in blobNames : DownloadBlob(n)
Goroutines == Caller \/ Producer \/ \E k \in Chunks : FetchEnds(k)

-----------------------------------------------------------------------------
\* What Read has returned is the beginning of the stream, and io.EOF comes after all of
\* it, never in place of an error or of a cancellation.
StreamExact ==
  /\ \A x \in DOMAIN got : got[x] = x
  /\ err = "EOF" => Len(got) = Total

\* The queue bounds memory: no more than Workers chunks and the one Read waits for are
\* downloaded or being downloaded without having been delivered.
FetchBounded == Cardinality({k \in Chunks : fetch[k] # "none"}) - consumed <= Workers + 1

\* Read and Close return, whatever fails and whenever the context is canceled.
CallsReturn == (rpc = "reading" ~> rpc # "reading") /\ (rpc = "closing" ~> rpc = "closed")
=============================================================================
