---------------------------- MODULE AsyncSource ----------------------------
(***************************************************************************)
(* The asynchronous payload source of src/archive/async.go with the v1     *)
(* emitter that drains it (src/archive/emit.go, GenerateV1).               *)
(*                                                                         *)
(* A dispatcher opens payloads in plan order, Workers read them into       *)
(* buffers under a shared budget, and the emitter consumes them in the     *)
(* same order.  Content is counted in abstract units; a buffer holds at    *)
(* most ChunkSize of them.  The budget's mutex is explicit, because the    *)
(* goroutine that wakes sleepers on cancellation does not take it.         *)
(***************************************************************************)
EXTENDS Integers, Sequences, FiniteSets

CONSTANTS
  N,          \* payloads in the plan; their sequence numbers are 0 .. N-1
  Streams,    \* the sequence numbers that are streams (no file to open)
  Workers,    \* reader goroutines
  Window,     \* dispatch-window slots, also the capacity of both queues
  Budget,     \* buffer credits
  ChunkCap,   \* capacity of a payload's chunk channel
  ChunkSize,  \* units of content per buffer
  Sizes,      \* bound: the payload sizes considered
  MayFail,    \* opens, reads and writes may fail
  MayCancel   \* the caller may cancel its context

ASSUME AsyncConstants ==
  /\ N \in Nat /\ Sizes \subseteq Nat
  /\ Streams \subseteq 0 .. N-1
  /\ Window \in Nat \ {0} /\ Budget \in Nat \ {0}
  /\ ChunkCap \in Nat \ {0} /\ ChunkSize \in Nat \ {0}
  /\ MayFail \in BOOLEAN /\ MayCancel \in BOOLEAN
  /\ IsFiniteSet(Workers) /\ Workers # {}

Seqs  == 0 .. N-1

\* A buffer with n units of payload content starting at off, or n zeros.
Chunks == [off : Nat, n : 1 .. ChunkSize, pad : BOOLEAN]
NoChunk == [off |-> 0, n |-> 0, pad |-> FALSE]

VARIABLES
  canceled,   \* genCtx is done
  watching,   \* the budget's cancellation watcher has not broadcast yet
  \* dispatcher
  dpc, next, window, delivery, work,
  \* payloads
  size,       \* bound size, -1 before bind
  openErr,    \* bind failed
  fd,         \* "none", "open" or "closed"
  chunks,     \* buffered content
  closed,     \* the chunk channel is closed
  err,        \* p.err is set
  warned,     \* p.warns holds a size-changed warning
  \* budget
  avail, head,
  \* workers
  wpc, cur, remaining, padding, hold, outcome,
  \* emitter
  epc, epos, ehold, written, padded, reported, result

ctxVars  == <<canceled, watching>>
dispVars == <<dpc, next>>
payVars  == <<size, openErr>>
workVars == <<cur, remaining, padding, hold, outcome>>
emitVars == <<epc, epos, ehold, written, padded, reported, result>>
vars == <<ctxVars, dispVars, window, delivery, work, payVars, fd, chunks, closed,
          err, warned, avail, head, wpc, workVars, emitVars>>

-----------------------------------------------------------------------------
Init ==
  /\ canceled = FALSE /\ watching = TRUE
  /\ dpc = "slot" /\ next = 0 /\ window = 0
  /\ delivery = <<>> /\ work = <<>>
  /\ size = [p \in Seqs |-> -1]
  /\ openErr = [p \in Seqs |-> FALSE]
  /\ fd = [p \in Seqs |-> "none"]
  /\ chunks = [p \in Seqs |-> <<>>]
  /\ closed = [p \in Seqs |-> FALSE]
  /\ err = [p \in Seqs |-> FALSE]
  /\ warned = [p \in Seqs |-> FALSE]
  /\ avail = Budget /\ head = -1
  /\ wpc = [w \in Workers |-> "idle"]
  /\ cur = [w \in Workers |-> -1]
  /\ remaining = [w \in Workers |-> 0]
  /\ padding = [w \in Workers |-> FALSE]
  /\ hold = [w \in Workers |-> NoChunk]
  /\ outcome = [w \in Workers |-> "nil"]
  /\ epc = "open" /\ epos = 0 /\ ehold = NoChunk
  /\ written = 0 /\ padded = 0 /\ reported = {} /\ result = "running"

-----------------------------------------------------------------------------
(***************************************************************************)
(* The budget.  A goroutine inside acquire keeps the mutex from its test   *)
(* of the done channel until cond.Wait has put it on the wait list (state  *)
(* "wait"); release and setHead need the mutex and then broadcast.         *)
(***************************************************************************)
Unlocked == \A w \in Workers : wpc[w] # "wait"

Broadcast(pc) == [w \in Workers |-> IF pc[w] = "sleep" THEN "acquire" ELSE pc[w]]

\* release(), which putBack calls for every buffer; pc is wpc after the rest of the step.
Release(pc) ==
  /\ Unlocked
  /\ avail' = avail + 1
  /\ wpc' = Broadcast(pc)

\* The goroutine newChunkBudget starts: it broadcasts without the mutex.
WakeOnCancel ==
  /\ canceled /\ watching
  /\ watching' = FALSE
  /\ wpc' = Broadcast(wpc)
  /\ UNCHANGED <<canceled, dispVars, window, delivery, work, payVars, fd, chunks, closed,
                 err, warned, avail, head, workVars, emitVars>>

MustWaitIgnoringHead(w) == avail < 1   \* a mutant: no head-of-line priority
MustWait(w) == avail < 1 /\ cur[w] # head

-----------------------------------------------------------------------------
(***************************************************************************)
(* The dispatcher.  In a select with the context, Go picks any ready case. *)
(***************************************************************************)
\* A return with a payload in hand (not yet passed to a worker) closes its file.
LeaveInHandOpen == fd                  \* a mutant: the return forgets the open file
CloseInHand ==
  IF dpc # "slot" /\ fd[next] = "open" THEN [fd EXCEPT ![next] = "closed"] ELSE fd

\* Return: the deferred close(work) and wg.Done.
DispatchExit ==
  /\ dpc' = "exit"
  /\ fd' = CloseInHand
  /\ UNCHANGED <<next, window, delivery, work, payVars, closed>>

SlotFreeOffByOne == window <= Window   \* a mutant
SlotFree == window < Window

\* Take a window slot and bind: open and fstat a file, or take a stream's declared size.
DispatchBind ==
  /\ dpc = "slot" /\ next < N
  /\ \/ /\ SlotFree
        /\ window' = window + 1
        /\ dpc' = "deliver"
        /\ \/ /\ \E s \in Sizes : size' = [size EXCEPT ![next] = s]
              /\ fd' = IF next \in Streams THEN fd ELSE [fd EXCEPT ![next] = "open"]
              /\ UNCHANGED openErr
           \/ /\ MayFail /\ next \notin Streams
              /\ openErr' = [openErr EXCEPT ![next] = TRUE]
              /\ size' = [size EXCEPT ![next] = 0]
              /\ UNCHANGED fd
        /\ UNCHANGED <<next, delivery, work, closed>>
     \/ canceled /\ DispatchExit

DeliverUnlessFailed == IF openErr[next] THEN delivery ELSE Append(delivery, next)  \* a mutant
Deliver == Append(delivery, next)

DispatchDeliver ==
  /\ dpc = "deliver"
  /\ \/ /\ Len(delivery) < Window
        /\ delivery' = Deliver
        /\ IF openErr[next]
             THEN /\ closed' = [closed EXCEPT ![next] = TRUE]
                  /\ dpc' = "slot" /\ next' = next + 1
             ELSE /\ dpc' = "work" /\ UNCHANGED <<closed, next>>
        /\ UNCHANGED <<window, work, payVars, fd>>
     \/ canceled /\ DispatchExit

DispatchWork ==
  /\ dpc = "work"
  /\ \/ /\ Len(work) < Window
        /\ work' = Append(work, next)
        /\ dpc' = "slot" /\ next' = next + 1
        /\ UNCHANGED <<window, delivery, payVars, fd, closed>>
     \/ canceled /\ DispatchExit

DispatchDone == dpc = "slot" /\ next = N /\ DispatchExit

Dispatch ==
  /\ DispatchBind \/ DispatchDeliver \/ DispatchWork \/ DispatchDone
  /\ UNCHANGED <<ctxVars, chunks, err, warned, avail, head, wpc, workVars, emitVars>>

-----------------------------------------------------------------------------
(***************************************************************************)
(* Workers.                                                                *)
(***************************************************************************)
\* range work: the next payload, or exit once the channel is closed and empty.
WorkerReceive(w) ==
  /\ wpc[w] = "idle"
  /\ \/ /\ work # <<>>
        /\ cur' = [cur EXCEPT ![w] = Head(work)]
        /\ work' = Tail(work)
        /\ remaining' = [remaining EXCEPT ![w] = size[Head(work)]]
        /\ padding' = [padding EXCEPT ![w] = FALSE]
        /\ wpc' = [wpc EXCEPT ![w] = IF size[Head(work)] > 0 THEN "acquire" ELSE "stat"]
     \/ /\ work = <<>> /\ dpc = "exit"
        /\ wpc' = [wpc EXCEPT ![w] = "exit"]
        /\ UNCHANGED <<work, cur, remaining, padding>>
  /\ UNCHANGED <<ctxVars, dispVars, window, delivery, payVars, fd, chunks, closed, err, warned,
                 avail, head, hold, outcome, emitVars>>

\* The deferred f.Close and close(chunks) at every return of read; the worker is idle again.
ReadReturns(w, failed) ==
  /\ cur' = [cur EXCEPT ![w] = -1]
  /\ remaining' = [remaining EXCEPT ![w] = 0]
  /\ padding' = [padding EXCEPT ![w] = FALSE]
  /\ fd' = [fd EXCEPT ![cur[w]] = IF @ = "open" THEN "closed" ELSE @]
  /\ closed' = [closed EXCEPT ![cur[w]] = TRUE]
  /\ err' = [err EXCEPT ![cur[w]] = failed]

\* acquire: fail when the context is done, go to sleep, or take a credit.
Acquire(w) ==
  /\ wpc[w] = "acquire" /\ Unlocked
  /\ \/ /\ canceled
        /\ ReadReturns(w, TRUE)
        /\ wpc' = [wpc EXCEPT ![w] = "idle"]
        /\ UNCHANGED avail
     \/ /\ ~canceled /\ MustWait(w)
        /\ wpc' = [wpc EXCEPT ![w] = "wait"]
        /\ UNCHANGED <<avail, fd, closed, err, cur, remaining, padding>>
     \/ /\ ~canceled /\ ~MustWait(w)
        /\ avail' = avail - 1
        /\ wpc' = [wpc EXCEPT ![w] = "read"]
        /\ UNCHANGED <<fd, closed, err, cur, remaining, padding>>
  /\ UNCHANGED <<ctxVars, dispVars, window, delivery, work, payVars, chunks, warned, head,
                 hold, outcome, emitVars>>

\* cond.Wait: join the wait list and unlock.
Sleep(w) ==
  /\ wpc[w] = "wait"
  /\ wpc' = [wpc EXCEPT ![w] = "sleep"]
  /\ UNCHANGED <<ctxVars, dispVars, window, delivery, work, payVars, fd, chunks, closed, err,
                 warned, avail, head, workVars, emitVars>>

Min2(a, b) == IF a < b THEN a ELSE b
Offset(w)  == size[cur[w]] - remaining[w]

\* Fill the buffer: read the source, or zeros once it has ended.
Read(w) ==
  /\ wpc[w] = "read"
  /\ IF padding[w]
       THEN /\ hold' = [hold EXCEPT ![w] =
                 [off |-> Offset(w), n |-> Min2(ChunkSize, remaining[w]), pad |-> TRUE]]
            /\ outcome' = [outcome EXCEPT ![w] = "nil"]
       ELSE \E n \in 0 .. Min2(ChunkSize, remaining[w]), e \in {"nil", "EOF", "fail"} :
              /\ e = "nil" => n > 0
              /\ e = "fail" => MayFail
              /\ hold' = [hold EXCEPT ![w] =
                   IF n = 0 THEN NoChunk ELSE [off |-> Offset(w), n |-> n, pad |-> FALSE]]
              /\ outcome' = [outcome EXCEPT ![w] = e]
  /\ wpc' = [wpc EXCEPT ![w] = "send"]
  /\ UNCHANGED <<ctxVars, dispVars, window, delivery, work, payVars, fd, chunks, closed, err,
                 warned, avail, head, cur, remaining, padding, emitVars>>

\* What follows a buffer, with left units still to come: a read error ends the
\* payload, a source that ended early is padded (and reported), a full one is checked.
AfterBuffer(w, left) ==
  LET short == outcome[w] = "EOF" /\ left > 0 IN
  /\ warned' = [warned EXCEPT ![cur[w]] = @ \/ short]
  /\ \/ /\ outcome[w] = "fail"
        /\ ReadReturns(w, TRUE)
     \/ /\ outcome[w] # "fail"
        /\ remaining' = [remaining EXCEPT ![w] = left]
        /\ padding' = [padding EXCEPT ![w] = @ \/ short]
        /\ UNCHANGED <<fd, closed, err, cur>>

PcWithoutPadding(w, left) ==           \* a mutant: a source that ends early is not padded
  [wpc EXCEPT ![w] = IF outcome[w] = "fail" THEN "idle"
                     ELSE IF left = 0 \/ outcome[w] = "EOF" THEN "stat" ELSE "acquire"]
PcAfterBuffer(w, left) ==
  [wpc EXCEPT ![w] = IF outcome[w] = "fail" THEN "idle" ELSE IF left = 0 THEN "stat" ELSE "acquire"]

\* A send that gives up puts its buffer back.
KeepBuffer(w) == wpc' = [wpc EXCEPT ![w] = "idle"] /\ UNCHANGED avail   \* a mutant
PutBackUnsent(w) == Release([wpc EXCEPT ![w] = "idle"])

\* send: into the chunk channel, or give up when the context is done.  An empty buffer
\* is put back without a send.
Send(w) ==
  LET p == cur[w]
      left == remaining[w] - hold[w].n IN
  /\ wpc[w] = "send"
  /\ hold' = [hold EXCEPT ![w] = NoChunk]
  /\ outcome' = [outcome EXCEPT ![w] = "nil"]
  /\ \/ /\ hold[w].n > 0 /\ Len(chunks[p]) < ChunkCap
        /\ chunks' = [chunks EXCEPT ![p] = Append(@, hold[w])]
        /\ AfterBuffer(w, left)
        /\ wpc' = PcAfterBuffer(w, left)
        /\ UNCHANGED avail
     \/ /\ hold[w].n > 0 /\ canceled
        /\ PutBackUnsent(w)
        /\ ReadReturns(w, TRUE)
        /\ UNCHANGED <<chunks, warned>>
     \/ /\ hold[w].n = 0
        /\ Release(PcAfterBuffer(w, left))
        /\ AfterBuffer(w, left)
        /\ UNCHANGED chunks
  /\ UNCHANGED <<ctxVars, dispVars, window, delivery, work, payVars, head, emitVars>>

\* All size units were sent: the torn-content check of a file (its warning does not
\* concern the size), or the probe for a byte past a stream's declared size.
FinalCheck(w) ==
  LET p == cur[w] IN
  /\ wpc[w] = "stat"
  /\ \E overlong \in BOOLEAN :
       /\ overlong => p \in Streams /\ ~padding[w]
       /\ warned' = [warned EXCEPT ![p] = @ \/ overlong]
  /\ ReadReturns(w, FALSE)
  /\ wpc' = [wpc EXCEPT ![w] = "idle"]
  /\ UNCHANGED <<ctxVars, dispVars, window, delivery, work, payVars, chunks, avail, head,
                 hold, outcome, emitVars>>

Worker(w) ==
  WorkerReceive(w) \/ Acquire(w) \/ Sleep(w) \/ Read(w) \/ Send(w) \/ FinalCheck(w)

-----------------------------------------------------------------------------
(***************************************************************************)
(* The emitter: one node per payload, in plan order.  Every write goes     *)
(* through countWriter, which refuses once the context is done, into a     *)
(* pipe whose reader may have been closed.                                 *)
(***************************************************************************)
WriteFails == canceled \/ MayFail
WriteWorks == ~canceled

\* node() returns an error; a payload in hand has been closed.
EmitFails ==
  /\ epc' = "cancel" /\ result' = "error"
  /\ written' = 0 /\ padded' = 0
  /\ UNCHANGED <<epos, reported>>

\* open: pop the delivery queue in plan order and take over as head of line.
\* The records of the nodes before it may already fail to be written.
EmitOpen ==
  /\ epc = "open" /\ epos < N
  /\ \/ /\ delivery # <<>>
        /\ delivery' = Tail(delivery)
        /\ LET p == Head(delivery) IN
           IF p # epos \/ openErr[p]
             THEN /\ EmitFails
                  /\ window' = IF p = epos THEN window - 1 ELSE window
                  /\ UNCHANGED <<head, wpc>>
             ELSE /\ Unlocked
                  /\ head' = p
                  /\ wpc' = Broadcast(wpc)
                  /\ epc' = "header"
                  /\ UNCHANGED <<window, epos, written, padded, reported, result>>
     \/ /\ WriteFails
        /\ EmitFails
        /\ UNCHANGED <<delivery, window, head, wpc>>
  /\ UNCHANGED <<ctxVars, dispVars, work, payVars, fd, chunks, closed, err, warned, avail,
                 workVars, ehold>>

\* The node's metadata and payload header.
EmitHeader ==
  /\ epc = "header"
  /\ \/ /\ WriteWorks
        /\ epc' = "copy"
        /\ UNCHANGED <<window, epos, written, padded, reported, result>>
     \/ WriteFails /\ EmitFails /\ window' = window - 1
  /\ UNCHANGED <<ctxVars, dispVars, delivery, work, payVars, fd, chunks, closed, err, warned, avail, head, wpc, workVars, ehold>>

\* Copy receives a buffer.
EmitReceive ==
  /\ epc = "copy" /\ chunks[epos] # <<>>
  /\ ehold' = Head(chunks[epos])
  /\ chunks' = [chunks EXCEPT ![epos] = Tail(@)]
  /\ epc' = "write"
  /\ UNCHANGED <<ctxVars, dispVars, window, delivery, work, payVars, fd, closed, err, warned, avail, head, wpc, workVars, epos, written, padded, reported, result>>

\* Copy writes it, puts it back either way, and returns on a write error.
EmitWrite ==
  /\ epc = "write"
  /\ Release(wpc)
  /\ ehold' = NoChunk
  /\ \/ /\ WriteWorks
        /\ written' = written + ehold.n
        /\ padded' = IF ehold.pad THEN padded + ehold.n ELSE padded
        /\ epc' = "copy"
        /\ UNCHANGED <<window, epos, reported, result>>
     \/ WriteFails /\ EmitFails /\ window' = window - 1
  /\ UNCHANGED <<ctxVars, dispVars, delivery, work, payVars, fd, chunks, closed, err, warned, head, workVars>>

\* The channel is drained and closed: Copy returns p.err; warnings are passed on and
\* the payload is closed.
EmitClose ==
  /\ epc = "copy" /\ chunks[epos] = <<>> /\ closed[epos]
  /\ window' = window - 1
  /\ IF err[epos]
       THEN EmitFails
       ELSE /\ epc' = "open" /\ epos' = epos + 1
            /\ written' = 0 /\ padded' = 0
            /\ reported' = IF warned[epos] THEN reported \union {epos} ELSE reported
            /\ UNCHANGED result
  /\ UNCHANGED <<ctxVars, dispVars, delivery, work, payVars, fd, chunks, closed, err, warned, avail, head, wpc, workVars, ehold>>

\* The root's goodbye table ends the stream.
EmitEnd ==
  /\ epc = "open" /\ epos = N
  /\ \/ /\ WriteWorks
        /\ epc' = "cancel" /\ result' = "ok"
        /\ UNCHANGED <<written, padded, epos, reported>>
     \/ WriteFails /\ EmitFails
  /\ UNCHANGED <<ctxVars, dispVars, window, delivery, work, payVars, fd, chunks, closed, err, warned,
                 avail, head, wpc, workVars, ehold>>

\* GenerateV1 after run: cancel, wait for the source's goroutines, close the pipe.
CancelSource ==
  /\ epc = "cancel"
  /\ canceled' = TRUE
  /\ epc' = "wait"
  /\ UNCHANGED <<watching, dispVars, window, delivery, work, payVars, fd, chunks, closed, err,
                 warned, avail, head, wpc, workVars, epos, ehold, written, padded, reported, result>>

ClosePipe ==
  /\ epc = "wait"
  /\ dpc = "exit" /\ \A w \in Workers : wpc[w] = "exit"
  /\ epc' = "closed"
  /\ UNCHANGED <<ctxVars, dispVars, window, delivery, work, payVars, fd, chunks, closed, err,
                 warned, avail, head, wpc, workVars, epos, ehold, written, padded, reported, result>>

Emitter == EmitOpen \/ EmitHeader \/ EmitReceive \/ EmitWrite \/ EmitClose \/ EmitEnd
           \/ CancelSource \/ ClosePipe

\* The caller cancels the context it gave to GenerateV1.
UserCancel ==
  /\ MayCancel /\ ~canceled
  /\ canceled' = TRUE
  /\ UNCHANGED <<watching, dispVars, window, delivery, work, payVars, fd, chunks, closed, err,
                 warned, avail, head, wpc, workVars, emitVars>>

Next == Dispatch \/ (\E w \in Workers : Worker(w)) \/ Emitter \/ WakeOnCancel \/ UserCancel

\* Go runs every goroutine that can proceed; nothing makes a caller cancel.
Fairness ==
  /\ WF_vars(Dispatch) /\ WF_vars(Emitter) /\ WF_vars(WakeOnCancel)
  /\ \A w \in Workers : WF_vars(Worker(w))

Spec == Init /\ [][Next]_vars
FairSpec == Spec /\ Fairness

-----------------------------------------------------------------------------
TypeDisp ==
  /\ canceled \in BOOLEAN /\ watching \in BOOLEAN
  /\ dpc \in {"slot", "deliver", "work", "exit"} /\ next \in 0 .. N
  /\ window \in 0 .. Window
  /\ delivery \in Seq(Seqs) /\ work \in Seq(Seqs)
TypePay ==
  /\ size \in [Seqs -> Sizes \union {-1, 0}]
  /\ openErr \in [Seqs -> BOOLEAN]
  /\ fd \in [Seqs -> {"none", "open", "closed"}]
TypeChunks ==
  /\ chunks \in [Seqs -> Seq(Chunks)] /\ closed \in [Seqs -> BOOLEAN]
  /\ err \in [Seqs -> BOOLEAN] /\ warned \in [Seqs -> BOOLEAN]
  /\ avail \in Int /\ head \in Seqs \union {-1}
TypeWork ==
  /\ wpc \in [Workers -> {"idle", "acquire", "wait", "sleep", "read", "send", "stat", "exit"}]
  /\ cur \in [Workers -> Seqs \union {-1}]
  /\ remaining \in [Workers -> Nat]
  /\ padding \in [Workers -> BOOLEAN]
  /\ hold \in [Workers -> Chunks \union {NoChunk}]
  /\ outcome \in [Workers -> {"nil", "EOF", "fail"}]
TypeEmit ==
  /\ epc \in {"open", "header", "copy", "write", "cancel", "wait", "closed"}
  /\ epos \in 0 .. N
  /\ ehold \in Chunks \union {NoChunk}
  /\ written \in Nat /\ padded \in Nat
  /\ reported \subseteq Seqs
  /\ result \in {"running", "ok", "error"}

\* The variables have their types; no more window slots are taken than there are, and no
\* worker is left with a negative rest to read.
TypeOK == TypeDisp /\ TypePay /\ TypeChunks /\ TypeWork /\ TypeEmit

\* Credits in use for the payloads of S: buffers in the workers' hands, in the chunk
\* channels and in the emitter's hands.
Holders(S) == {w \in Workers : cur[w] \in S /\ wpc[w] \in {"read", "send"}}
Buffered(S) == UNION {{p} \X (1 .. Len(chunks[p])) : p \in S}
HeldByAll(S) ==
  Cardinality(Holders(S)) + Cardinality(Buffered(S)) + (IF epc = "write" /\ epos \in S THEN 1 ELSE 0)

\* The budget loses and invents no credit, whether a worker or the emitter puts a buffer
\* back, after a failure or a cancellation as well; and head-of-line priority overdraws it
\* only on behalf of the head: prefetched payloads never hold more than the whole budget.
BudgetKept ==
  /\ avail = Budget - HeldByAll(Seqs)
  /\ HeldByAll(Seqs \ {head}) <= Budget

\* The "payload order mismatch" error is unreachable: the payload at the front of the
\* delivery queue is the one the emitter opens next.
DeliveredInOrder == epc = "open" /\ delivery # <<>> => Head(delivery) = epos

\* The dispatch window bounds the descriptors open at once (one more while a failed
\* emitter, having given up its slot, has yet to cancel) and, while the emitter runs,
\* leaves room in both queues, so that only a slot can make the dispatcher wait.
OpenFds == Cardinality({p \in Seqs : fd[p] = "open"})
WindowHolds ==
  /\ OpenFds <= Window + (IF result = "error" THEN 1 ELSE 0)
  /\ result = "running" =>
       /\ dpc = "deliver" => Len(delivery) < Window
       /\ dpc = "work" => Len(work) < Window

\* Whatever failed or was canceled, no descriptor is open once the pipe is closed.
NoFdLeak == epc = "closed" => OpenFds = 0

\* Generation ends: the emitter returns, every goroutine of the source exits and the pipe
\* is closed, so that a reader of the archive sees the end or the error.
Ends == <>(epc = "closed")

\* The archive is completed and its pipe closed, unless the emitter meets a failure or the
\* caller cancels first, however far the readers of later payloads have exhausted the
\* budget.
EndsComplete ==
  <>(\/ epc = "closed" /\ result = "ok"
     \/ result = "error"
     \/ canceled /\ result = "running")

\* The abstract payload stream the emitter's output is mapped to: a payload's size is
\* bound for the reader once its header is written.
Promise == INSTANCE PayloadStream WITH
  bound <- IF epc \in {"copy", "write"} THEN size[epos] ELSE -1

\* The emitter's output is a payload stream: plan order, exactly the size announced in the
\* header, padding only after real content and always reported, complete if without error.
RefinesPayloadStream == Promise!Spec
=============================================================================
