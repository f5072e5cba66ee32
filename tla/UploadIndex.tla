---------------------------- MODULE UploadIndex ----------------------------
(***************************************************************************)
(* Uploading streams into dynamic indexes (src/pbs/upload.go): the two     *)
(* concurrent uploadIndexStream calls of UploadPXARv2, the session-wide    *)
(* singleflight registry of known chunks, and the server endpoints they    *)
(* use (as src/pbs/pbstest answers them).                                  *)
(*                                                                         *)
(* Each upload has a producer that cuts its stream into chunks, Workers    *)
(* that hash, claim and upload them, and a collector that puts the results *)
(* back into stream order.  A chunk is its digest; equal digests are equal *)
(* content and so have equal sizes.  Only what a stream contains is left   *)
(* open: its reader yields any chunk, an end or an error.                  *)
(***************************************************************************)
EXTENDS Integers, Sequences, FiniteSets

CONSTANTS
  Workers,    \* worker goroutines of one upload (Config.Workers)
  Digests,    \* chunk digests
  SizeOf,     \* size of the chunk with a digest
  Framed,     \* uploads whose stream may inject chunks of the previous snapshot
  Previous,   \* digests in the previous snapshot's index of each upload
  Batch,      \* entries per append request (128)
  MaxChunks,  \* bound: chunks in each stream
  MayFail,    \* requests and the stream readers may fail
  MayCancel   \* the caller may cancel its context

Uploads == {"meta", "payload"}

ASSUME UploadConstants ==
  /\ IsFiniteSet(Workers) /\ Workers # {}
  /\ Digests # {}
  /\ SizeOf \in [Digests -> Nat \ {0}]
  /\ Framed \subseteq Uploads
  /\ Previous \in [Uploads -> SUBSET Digests]
  /\ Batch \in Nat \ {0}
  /\ MaxChunks \in [Uploads -> Nat]
  /\ MayFail \in BOOLEAN /\ MayCancel \in BOOLEAN

JobCap  == Cardinality(Workers)
DoneCap == 2 * Cardinality(Workers)
WorkerIds == Uploads \X Workers

\* An error is a cancellation or a fault of its own; "none" is a nil error.
Errors == {"none", "canceled", "fault"}

Jobs  == [seq : Nat, offset : Nat, digest : Digests, known : BOOLEAN]
Dones == [seq : Nat, offset : Nat, digest : Digests, err : Errors]
Entries == [offset : Nat, digest : Digests]
Sums == [end : Nat, digest : Digests]

VARIABLES
  canceled,   \* uctx is done: an upload failed, or the caller canceled
  userCanceled, \* the caller canceled
  \* the session's chunkSet and the server's view of it
  claims,     \* per digest: "free", "flight", or the error it completed with
  serverKnown, sent,
  \* one upload
  phase,      \* of the calling goroutine, which becomes the collector
  stopped,    \* gctx was canceled by the collector
  cut,        \* the chunks the stream has consisted of so far
  jobs, prodErr,
  dones, wpc, wjob, werr,
  pending, nextSeq, batch, csum, firstErr, ret,
  \* the server's dynamic index
  opened, closed, entries, closeSum, closeSize

ctxVars  == <<canceled, userCanceled>>
setVars  == <<claims, serverKnown, sent>>
prodVars == <<cut, jobs, prodErr>>
workVars == <<wpc, wjob, werr>>
collVars == <<pending, nextSeq, batch, csum, firstErr>>
indexVars == <<opened, closed, entries, closeSum, closeSize>>
vars == <<ctxVars, setVars, phase, stopped, prodVars, dones, workVars, collVars, ret, indexVars>>

NoJob  == [seq |-> 0, offset |-> 0, digest |-> CHOOSE d \in Digests : TRUE, known |-> FALSE]
DoneOf(j, e) == [seq |-> j.seq, offset |-> j.offset, digest |-> j.digest, err |-> e]

Init ==
  /\ canceled = FALSE /\ userCanceled = FALSE
  /\ claims = [d \in Digests |-> "free"] /\ serverKnown = {} /\ sent = {}
  /\ phase = [u \in Uploads |-> "previous"]
  /\ stopped = [u \in Uploads |-> FALSE]
  /\ cut = [u \in Uploads |-> <<>>]
  /\ jobs = [u \in Uploads |-> <<>>]
  /\ prodErr = [u \in Uploads |-> "running"]
  /\ dones = [u \in Uploads |-> <<>>]
  /\ wpc = [w \in WorkerIds |-> "idle"]
  /\ wjob = [w \in WorkerIds |-> NoJob]
  /\ werr = [w \in WorkerIds |-> "none"]
  /\ pending = [u \in Uploads |-> {}]
  /\ nextSeq = [u \in Uploads |-> 0]
  /\ batch = [u \in Uploads |-> <<>>]
  /\ csum = [u \in Uploads |-> <<>>]
  /\ firstErr = [u \in Uploads |-> "none"]
  /\ ret = [u \in Uploads |-> "none"]
  /\ opened = [u \in Uploads |-> FALSE] /\ closed = [u \in Uploads |-> FALSE]
  /\ entries = [u \in Uploads |-> <<>>]
  /\ closeSum = [u \in Uploads |-> <<>>] /\ closeSize = [u \in Uploads |-> 0]

-----------------------------------------------------------------------------
\* gctx of an upload is done.
Gone(u) == canceled \/ stopped[u]

\* How a request can fail: refused or cut off, or abandoned because its context is done.
\* Either way the server may have acted on it or not.
Failures(ctxDone) == (IF MayFail THEN {"fault"} ELSE {}) \union (IF ctxDone THEN {"canceled"} ELSE {})

\* uploadIndexStream returns e; UploadPXARv2 cancels the other upload on an error.
Return(u, e) ==
  /\ phase' = [phase EXCEPT ![u] = "returned"]
  /\ ret' = [ret EXCEPT ![u] = e]
  /\ canceled' = (canceled \/ e # "none")

\* DownloadPrevious: the server makes the chunks of the previous index known, then the
\* client seeds its set with them.  That there is none (Previous[u] = {}) is not an error.
\* The server's index is taken to be well-formed.
NotSeeded(u) == claims                 \* a mutant: the previous index is fetched but not used
Seeded(u) == [d \in Digests |-> IF d \in Previous[u] /\ claims[d] = "free" THEN "none" ELSE claims[d]]

DownloadPrevious(u) ==
  /\ phase[u] = "previous"
  /\ \/ /\ serverKnown' = serverKnown \union Previous[u]
        /\ claims' = Seeded(u)
        /\ phase' = [phase EXCEPT ![u] = "create"]
        /\ UNCHANGED <<canceled, ret>>
     \/ \E e \in Failures(canceled) :
          /\ serverKnown' \in {serverKnown, serverKnown \union Previous[u]}
          /\ Return(u, e)
          /\ UNCHANGED claims
  /\ UNCHANGED <<userCanceled, sent, stopped, prodVars, dones, workVars, collVars, indexVars>>

CreateIndex(u) ==
  /\ phase[u] = "create"
  /\ \/ /\ opened' = [opened EXCEPT ![u] = TRUE]
        /\ phase' = [phase EXCEPT ![u] = "collect"]
        /\ UNCHANGED <<canceled, ret>>
     \/ \E e \in Failures(canceled), acted \in BOOLEAN :
          /\ opened' = [opened EXCEPT ![u] = acted]
          /\ Return(u, e)
  /\ UNCHANGED <<userCanceled, setVars, stopped, prodVars, dones, workVars, collVars,
                 closed, entries, closeSum, closeSize>>

\* The pipeline runs from the creation of the index until the collector has seen its end.
Started(u) == phase[u] \in {"collect", "drain", "flush", "final", "close"}

-----------------------------------------------------------------------------
(***************************************************************************)
(* The producer: chunks in stream order, or the chunks a framed stream     *)
(* injects from the previous snapshot (known).  Closes jobs when it ends.  *)
(***************************************************************************)
EndOf(j) == j.offset + SizeOf[j.digest]
Entry(j) == [offset |-> j.offset, digest |-> j.digest]
SumOf(j) == [end |-> EndOf(j), digest |-> j.digest]
SeqFromMinusOne(u) == Len(cut[u]) - 1  \* a mutant
SeqOfNext(u) == Len(cut[u])
StreamSize(u) == IF cut[u] = <<>> THEN 0 ELSE EndOf(cut[u][Len(cut[u])])

\* A reader's error; that of a framed stream is overridden by the cancellation
\* of gctx, once the stream's header has been read.
ReadErrors(u) ==
  IF ~MayFail THEN {}
  ELSE IF ~(u \in Framed /\ Gone(u)) THEN {"fault"}
  ELSE {"canceled"} \union (IF cut[u] = <<>> THEN {"fault"} ELSE {})

Produce(u) ==
  /\ Started(u) /\ prodErr[u] = "running"
  /\ \/ /\ Len(cut[u]) < MaxChunks[u]
        /\ \/ /\ Len(jobs[u]) < JobCap
              /\ \E d \in Digests, k \in BOOLEAN :
                   LET j == [seq |-> SeqOfNext(u), offset |-> StreamSize(u), digest |-> d, known |-> k] IN
                   /\ k => u \in Framed
                   /\ cut' = [cut EXCEPT ![u] = Append(@, j)]
                   /\ jobs' = [jobs EXCEPT ![u] = Append(@, j)]
              /\ UNCHANGED prodErr
           \/ /\ Gone(u)
              /\ prodErr' = [prodErr EXCEPT ![u] = "canceled"]
              /\ UNCHANGED <<cut, jobs>>
     \/ /\ \E e \in {"none"} \union ReadErrors(u) : prodErr' = [prodErr EXCEPT ![u] = e]
        /\ UNCHANGED <<cut, jobs>>
  /\ UNCHANGED <<ctxVars, setVars, phase, stopped, dones, workVars, collVars, ret, indexVars>>

-----------------------------------------------------------------------------
(***************************************************************************)
(* Workers.  w is <<upload, worker>>.                                      *)
(***************************************************************************)
\* The producer closes jobs however it ends.
JobsClosedAtEOF(u) == prodErr[u] = "none"   \* a mutant: jobs stays open on an error
JobsClosed(u) == prodErr[u] # "running"

WorkerReceive(w) ==
  LET u == w[1] IN
  /\ Started(u) /\ wpc[w] = "idle"
  /\ \/ /\ jobs[u] # <<>>
        /\ wjob' = [wjob EXCEPT ![w] = Head(jobs[u])]
        /\ jobs' = [jobs EXCEPT ![u] = Tail(@)]
        /\ wpc' = [wpc EXCEPT ![w] = "claim"]
     \/ /\ jobs[u] = <<>> /\ JobsClosed(u)
        /\ wpc' = [wpc EXCEPT ![w] = "exit"]
        /\ UNCHANGED <<jobs, wjob>>
  /\ UNCHANGED <<ctxVars, setVars, phase, stopped, cut, prodErr, dones, werr, collVars, ret, indexVars>>

\* The worker's job is decided: err goes to the collector.
Decide(w, e) ==
  /\ werr' = [werr EXCEPT ![w] = e]
  /\ wpc' = [wpc EXCEPT ![w] = "send"]

\* chunkSet.claim: the first claimant of a digest uploads it, unless the chunk was
\* injected and should have been there; the others wait for the claim to complete.
Claim(w) ==
  LET d == wjob[w].digest IN
  /\ wpc[w] = "claim"
  /\ \/ /\ claims[d] = "free" /\ wjob[w].known
        /\ claims' = [claims EXCEPT ![d] = "fault"]
        /\ Decide(w, "fault")
        /\ UNCHANGED sent
     \/ /\ claims[d] = "free" /\ ~wjob[w].known
        /\ claims' = [claims EXCEPT ![d] = "flight"]
        /\ sent' = sent \union {d}
        /\ wpc' = [wpc EXCEPT ![w] = "upload"]
        /\ UNCHANGED werr
     \/ /\ claims[d] # "free"
        /\ wpc' = [wpc EXCEPT ![w] = "wait"]
        /\ UNCHANGED <<claims, sent, werr>>
  /\ UNCHANGED <<ctxVars, serverKnown, phase, stopped, prodVars, dones, wjob, collVars, ret, indexVars>>

\* chunkState.complete: those who wait see the uploader's error.
CompleteAnyway(e) == "none"            \* a mutant
Complete(e) == e

\* UploadDynamicChunk returns and completes the claim, for good or bad.
UploadReturns(w) ==
  LET d == wjob[w].digest IN
  /\ wpc[w] = "upload"
  /\ \/ /\ serverKnown' = serverKnown \union {d}
        /\ claims' = [claims EXCEPT ![d] = "none"]
        /\ Decide(w, "none")
     \/ \E e \in Failures(Gone(w[1])) :
          /\ serverKnown' \in {serverKnown, serverKnown \union {d}}
          /\ claims' = [claims EXCEPT ![d] = Complete(e)]
          /\ Decide(w, e)
  /\ UNCHANGED <<ctxVars, sent, phase, stopped, prodVars, dones, wjob, collVars, ret, indexVars>>

\* Waiting for another worker's claim, possibly one of the other upload.
WaitReturns(w) ==
  LET d == wjob[w].digest IN
  /\ wpc[w] = "wait"
  /\ \/ claims[d] \in Errors /\ Decide(w, claims[d])
     \/ Gone(w[1]) /\ Decide(w, "canceled")
  /\ UNCHANGED <<ctxVars, setVars, phase, stopped, prodVars, dones, wjob, collVars, ret, indexVars>>

SendDone(w) ==
  LET u == w[1] IN
  /\ wpc[w] = "send" /\ Len(dones[u]) < DoneCap
  /\ dones' = [dones EXCEPT ![u] = Append(@, DoneOf(wjob[w], werr[w]))]
  /\ wpc' = [wpc EXCEPT ![w] = "idle"]
  /\ wjob' = [wjob EXCEPT ![w] = NoJob]
  /\ werr' = [werr EXCEPT ![w] = "none"]
  /\ UNCHANGED <<ctxVars, setVars, phase, stopped, prodVars, collVars, ret, indexVars>>

Worker(w) == WorkerReceive(w) \/ Claim(w) \/ UploadReturns(w) \/ WaitReturns(w) \/ SendDone(w)

-----------------------------------------------------------------------------
(***************************************************************************)
(* The collector.  The server accepts an append only for an open index and *)
(* only with digests it knows.                                             *)
(***************************************************************************)
Acceptable(u) ==
  /\ opened[u] /\ ~closed[u]
  /\ \A i \in 1 .. Len(batch[u]) : batch[u][i].digest \in serverKnown

Appended(u) == [entries EXCEPT ![u] = @ \o batch[u]]

\* The errors an append can return, the server's refusal among them.
AppendErrors(u) == Failures(canceled) \union (IF Acceptable(u) THEN {} ELSE {"fault"})

\* Take one done; after the first error the rest is only drained.
Collect(u) ==
  LET d == Head(dones[u]) IN
  /\ phase[u] = "collect" /\ dones[u] # <<>>
  /\ dones' = [dones EXCEPT ![u] = Tail(@)]
  /\ \/ /\ firstErr[u] # "none"
        /\ UNCHANGED <<firstErr, stopped, pending, phase>>
     \/ /\ firstErr[u] = "none" /\ d.err # "none"
        /\ firstErr' = [firstErr EXCEPT ![u] = d.err]
        /\ stopped' = [stopped EXCEPT ![u] = TRUE]
        /\ UNCHANGED <<pending, phase>>
     \/ /\ firstErr[u] = "none" /\ d.err = "none"
        /\ pending' = [pending EXCEPT ![u] = @ \union {d}]
        /\ phase' = [phase EXCEPT ![u] = "drain"]
        /\ UNCHANGED <<firstErr, stopped>>
  /\ UNCHANGED <<ctxVars, setVars, prodVars, workVars, nextSeq, batch, csum, ret, indexVars>>

\* The next chunk in stream order joins the batch and the checksum.
IsAny(u, c) == c \in pending[u]        \* a mutant: append in order of completion
IsNext(u, c) == c.seq = nextSeq[u]

Drain(u) ==
  /\ phase[u] = "drain"
  /\ \/ \E c \in pending[u] :
          /\ IsNext(u, c)
          /\ pending' = [pending EXCEPT ![u] = @ \ {c}]
          /\ nextSeq' = [nextSeq EXCEPT ![u] = @ + 1]
          /\ csum' = [csum EXCEPT ![u] = Append(@, SumOf(c))]
          /\ batch' = [batch EXCEPT ![u] = Append(@, Entry(c))]
          /\ phase' = [phase EXCEPT ![u] = IF Len(batch[u]) + 1 = Batch THEN "flush" ELSE "drain"]
     \/ /\ \A c \in pending[u] : ~IsNext(u, c)
        /\ phase' = [phase EXCEPT ![u] = "collect"]
        /\ UNCHANGED <<pending, nextSeq, csum, batch>>
  /\ UNCHANGED <<ctxVars, setVars, stopped, prodVars, dones, workVars, firstErr, ret, indexVars>>

\* A full batch is appended while results keep coming in.
Flush(u) ==
  /\ phase[u] = "flush"
  /\ \/ /\ Acceptable(u)
        /\ entries' = Appended(u)
        /\ batch' = [batch EXCEPT ![u] = <<>>]
        /\ phase' = [phase EXCEPT ![u] = "drain"]
        /\ UNCHANGED <<firstErr, stopped>>
     \/ \E e \in AppendErrors(u) :
          /\ entries' \in {entries} \union (IF Acceptable(u) THEN {Appended(u)} ELSE {})
          /\ firstErr' = [firstErr EXCEPT ![u] = e]
          /\ stopped' = [stopped EXCEPT ![u] = TRUE]
          /\ phase' = [phase EXCEPT ![u] = "collect"]
          /\ UNCHANGED batch
  /\ UNCHANGED <<ctxVars, setVars, prodVars, dones, workVars, pending, nextSeq, csum, ret,
                 opened, closed, closeSum, closeSize>>

\* The error of a chunk, or else the producer's.
ChunkErr(u) == firstErr[u]             \* a mutant: a stream that broke off counts as ended
StreamErr(u) == IF firstErr[u] # "none" THEN firstErr[u] ELSE prodErr[u]

\* dones is closed and empty: every worker has exited.
CollectEnd(u) ==
  LET e == StreamErr(u) IN
  /\ phase[u] = "collect" /\ dones[u] = <<>>
  /\ \A i \in Workers : wpc[<<u, i>>] = "exit"
  /\ \/ e # "none" /\ Return(u, e)
     \/ e = "none" /\ pending[u] # {} /\ Return(u, "fault")
     \/ /\ e = "none" /\ pending[u] = {}
        /\ phase' = [phase EXCEPT ![u] = "final"]
        /\ UNCHANGED <<canceled, ret>>
  /\ UNCHANGED <<userCanceled, setVars, stopped, prodVars, dones, workVars, collVars, indexVars>>

FinalFlush(u) ==
  /\ phase[u] = "final"
  /\ \/ /\ batch[u] = <<>> \/ Acceptable(u)
        /\ entries' = Appended(u)
        /\ batch' = [batch EXCEPT ![u] = <<>>]
        /\ phase' = [phase EXCEPT ![u] = "close"]
        /\ UNCHANGED <<canceled, ret>>
     \/ /\ batch[u] # <<>>
        /\ \E e \in AppendErrors(u) : Return(u, e)
        /\ entries' \in {entries} \union (IF Acceptable(u) THEN {Appended(u)} ELSE {})
        /\ UNCHANGED batch
  /\ UNCHANGED <<userCanceled, setVars, stopped, prodVars, dones, workVars, pending, nextSeq, csum, firstErr,
                 opened, closed, closeSum, closeSize>>

\* CloseDynamicIndex with checksum, size and count; the server compares the count.
SumSize(u) == IF csum[u] = <<>> THEN 0 ELSE csum[u][Len(csum[u])].end
Closeable(u) == opened[u] /\ ~closed[u] /\ Len(entries[u]) = Len(csum[u])

Close(u) ==
  /\ Closeable(u)
  /\ closed' = [closed EXCEPT ![u] = TRUE]
  /\ closeSum' = [closeSum EXCEPT ![u] = csum[u]]
  /\ closeSize' = [closeSize EXCEPT ![u] = SumSize(u)]

CloseIndex(u) ==
  /\ phase[u] = "close"
  /\ \/ Close(u) /\ Return(u, "none")
     \/ \E e \in Failures(canceled) \union (IF Closeable(u) THEN {} ELSE {"fault"}) :
          /\ Return(u, e)
          /\ Close(u) \/ UNCHANGED <<closed, closeSum, closeSize>>
  /\ UNCHANGED <<userCanceled, setVars, stopped, prodVars, dones, workVars, collVars, opened, entries>>

Collector(u) ==
  DownloadPrevious(u) \/ CreateIndex(u) \/ Collect(u) \/ Drain(u) \/ Flush(u) \/ CollectEnd(u)
  \/ FinalFlush(u) \/ CloseIndex(u)

\* The caller cancels the context it gave to UploadPXARv2.
UserCancel ==
  /\ MayCancel /\ ~userCanceled /\ \E u \in Uploads : phase[u] # "returned"
  /\ canceled' = TRUE /\ userCanceled' = TRUE
  /\ UNCHANGED <<setVars, phase, stopped, prodVars, dones, workVars, collVars, ret, indexVars>>

\* UploadPXARv2 has returned.
Finished == \A u \in Uploads : phase[u] = "returned"
Terminated == Finished /\ UNCHANGED vars

Next ==
  \/ \E u \in Uploads : Produce(u) \/ Collector(u)
  \/ \E w \in WorkerIds : Worker(w)
  \/ UserCancel \/ Terminated

\* Every goroutine that can proceed does; every request is answered.
Fairness ==
  /\ \A u \in Uploads : WF_vars(Produce(u)) /\ WF_vars(Collector(u))
  /\ \A w \in WorkerIds : WF_vars(Worker(w))

Spec == Init /\ [][Next]_vars
FairSpec == Spec /\ Fairness

\* What UploadPXARv2 returns: not the cancellation that one stream's failure provoked in
\* the other.
MetaErrFirst == IF ret["meta"] = "none" THEN ret["payload"] ELSE ret["meta"]   \* a mutant
UploadErr ==
  IF ret["meta"] = "none" THEN ret["payload"]
  ELSE IF ret["payload"] # "none" /\ ret["meta"] = "canceled" /\ ret["payload"] # "canceled"
    THEN ret["payload"] ELSE ret["meta"]

-----------------------------------------------------------------------------
Phases == {"previous", "create", "collect", "drain", "flush", "final", "close", "returned"}

TypeCtx == canceled \in BOOLEAN /\ userCanceled \in BOOLEAN
TypeSet ==
  /\ claims \in [Digests -> Errors \union {"free", "flight"}]
  /\ serverKnown \subseteq Digests /\ sent \subseteq Digests
TypePhase ==
  /\ phase \in [Uploads -> Phases]
  /\ stopped \in [Uploads -> BOOLEAN]
  /\ firstErr \in [Uploads -> Errors] /\ ret \in [Uploads -> Errors]
TypeProd ==
  /\ cut \in [Uploads -> Seq(Jobs)]
  /\ jobs \in [Uploads -> Seq(Jobs)]
  /\ prodErr \in [Uploads -> Errors \union {"running"}]
TypeWork ==
  /\ wpc \in [WorkerIds -> {"idle", "claim", "upload", "wait", "send", "exit"}]
  /\ wjob \in [WorkerIds -> Jobs]
  /\ werr \in [WorkerIds -> Errors]
TypeDone == dones \in [Uploads -> Seq(Dones)] /\ pending \in [Uploads -> SUBSET Dones]
TypeBatch ==
  /\ nextSeq \in [Uploads -> Nat]
  /\ batch \in [Uploads -> Seq(Entries)] /\ csum \in [Uploads -> Seq(Sums)]
TypeIndex ==
  /\ opened \in [Uploads -> BOOLEAN] /\ closed \in [Uploads -> BOOLEAN]
  /\ entries \in [Uploads -> Seq(Entries)]
  /\ closeSum \in [Uploads -> Seq(Sums)] /\ closeSize \in [Uploads -> Nat]

\* The variables have their types; sequence numbers, offsets and sizes are natural numbers,
\* and an upload never returns the error of a producer that is still running.
TypeOK == TypeCtx /\ TypeSet /\ TypePhase /\ TypeProd /\ TypeWork
          /\ TypeDone /\ TypeBatch /\ TypeIndex

\* The server's index is at all times a prefix of the stream: its entries are the chunks
\* in stream order, each starting where the one before it ends, whatever order the
\* workers finished in and whichever append was cut off.
IndexFollowsStream ==
  \A u \in Uploads :
    LET e == entries[u] IN
    /\ Len(e) <= Len(cut[u])
    /\ \A i \in 1 .. Len(e) :
         /\ e[i] = Entry(cut[u][i])
         /\ e[i].offset = IF i = 1 THEN 0 ELSE e[i-1].offset + SizeOf[e[i-1].digest]

\* The collector never asks the server to append a chunk the server does not know, though
\* the chunk may have been claimed, and lost, by a worker of the other upload.
AppendsKnown ==
  \A u \in Uploads : \A i \in 1 .. Len(batch[u]) : batch[u][i].digest \in serverKnown

\* Only a stream that was read to its end is closed, with every chunk of it in the index
\* and the checksum and size of exactly those chunks.
ClosedComplete ==
  \A u \in Uploads : closed[u] =>
    /\ prodErr[u] = "none"
    /\ Len(entries[u]) = Len(cut[u])
    /\ closeSize[u] = StreamSize(u)
    /\ Len(closeSum[u]) = Len(cut[u])
    /\ \A i \in 1 .. Len(cut[u]) :
         closeSum[u][i] = SumOf(cut[u][i])

\* A chunk is uploaded at most once in the session, over both streams, and never when the
\* stream's own previous index holds it.
SentOnce ==
  [][\A w \in WorkerIds : wpc[w] = "claim" /\ wpc'[w] = "upload" =>
       wjob[w].digest \notin sent \union Previous[w[1]]]_vars

\* UploadPXARv2 succeeds only with both indexes closed, and reports a cancellation only if
\* the caller canceled: the stream that failed by itself is the one whose error is returned,
\* though its failure reaches the other through the context and through shared claims.
RootCause ==
  Finished =>
    /\ UploadErr = "none" => \A u \in Uploads : closed[u]
    /\ UploadErr = "canceled" => userCanceled

\* UploadPXARv2 returns, given readers that do not block: no worker waits forever for a
\* claim, for room in a queue, or for jobs that will not come.
Returns == <>Finished
=============================================================================
