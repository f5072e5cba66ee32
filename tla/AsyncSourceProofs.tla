-------------------------- MODULE AsyncSourceProofs --------------------------
(***************************************************************************)
(* Proofs about AsyncSource, for any plan, any number of workers and any   *)
(* window, budget and buffer size: its types, the order of delivery, the   *)
(* dispatch window, the descriptors, the budget, and that what the emitter *)
(* writes is a payload stream in the sense of PayloadStream.               *)
(***************************************************************************)
EXTENDS AsyncSource, SequenceLemmas, FiniteSetTheorems

\* The emitter has neither failed nor finished.
Running == epc \in {"open", "header", "copy", "write"}
\* The payload it takes from the delivery queue next.
First == IF epc = "open" THEN epos ELSE epos + 1
\* The payloads the dispatcher has bound and not dropped are those below.
Bound == IF dpc \in {"deliver", "work"} THEN next + 1 ELSE next

\* How the control states of dispatcher, workers and emitter hang together.
Phases ==
  /\ result = "running" <=> Running
  /\ epc \in {"header", "copy", "write"} => epos < N
  /\ dpc \in {"deliver", "work"} => next < N
  /\ \A w \in Workers : cur[w] = -1 <=> wpc[w] \in {"idle", "exit"}
\* A payload has its size before anyone gets to see it.
BoundSize ==
  /\ \A p \in Seqs : p < Bound => size[p] # -1
  /\ \A i \in 1 .. Len(delivery) : size[delivery[i]] # -1
  /\ epc \in {"header", "copy", "write"} => size[epos] # -1
  /\ \A i \in 1 .. Len(work) : work[i] < next
\* A worker asks for a buffer only when something is left to read, and never reads more.
ReadingOf(w) ==
  /\ cur[w] # -1 => cur[w] < next /\ remaining[w] <= size[cur[w]]
  /\ wpc[w] \in {"acquire", "wait", "sleep", "read", "send"} => remaining[w] > 0
  /\ wpc[w] = "send" => hold[w].n <= remaining[w]
  /\ wpc[w] = "stat" => remaining[w] = 0
Reading == \A w \in Workers : ReadingOf(w)

TypeInv == TypeOK /\ Phases /\ BoundSize /\ Reading

\* The delivery queue holds the payloads from the emitter's position to the dispatcher's.
Order ==
  Running =>
    /\ \A i \in 1 .. Len(delivery) : delivery[i] = First + i - 1
    /\ dpc \in {"slot", "deliver"} => First + Len(delivery) = next
    /\ dpc = "work" => First + Len(delivery) = next + 1
\* A slot is taken for every payload between the two, whatever became of it.
Slots ==
  /\ Running /\ dpc # "exit" => window = Bound - epos
  /\ Running => window >= Len(delivery) + (IF epc = "open" THEN 0 ELSE 1)
  /\ window + (IF result = "error" THEN 1 ELSE 0) >= Bound - epos

SlotInv == Order /\ Slots

-----------------------------------------------------------------------------
\* What each goroutine leaves alone.
LEMMA DispatchFrame ==
  ASSUME Dispatch
  PROVE  UNCHANGED <<canceled, watching, chunks, err, warned, avail, head, wpc, cur, remaining, padding,
                     hold, outcome, epc, epos, ehold, written, padded, reported, result>>
  BY DEF Dispatch, ctxVars, workVars, emitVars

LEMMA WorkerFrame ==
  ASSUME NEW w \in Workers, Worker(w)
  PROVE  UNCHANGED <<canceled, watching, dpc, next, window, delivery, size, openErr, head,
                     epc, epos, ehold, written, padded, reported, result>>
  BY DEF Worker, WorkerReceive, Acquire, Sleep, Read, Send, FinalCheck, ctxVars, dispVars, payVars, emitVars

LEMMA EmitterFrame ==
  ASSUME Emitter
  PROVE  UNCHANGED <<watching, dpc, next, work, size, openErr, fd, closed, err, warned,
                     cur, remaining, padding, hold, outcome>>
  BY DEF Emitter, EmitOpen, EmitHeader, EmitReceive, EmitWrite, EmitClose, EmitEnd, CancelSource, ClosePipe,
         ctxVars, dispVars, payVars, workVars

LEMMA CancelFrame ==
  ASSUME WakeOnCancel \/ UserCancel
  PROVE  UNCHANGED <<dpc, next, window, delivery, work, size, openErr, fd, chunks, closed, err, warned,
                     avail, head, cur, remaining, padding, hold, outcome,
                     epc, epos, ehold, written, padded, reported, result>>
  BY DEF WakeOnCancel, UserCancel, dispVars, payVars, workVars, emitVars

\* A broadcast only wakes those who sleep.
Woken(x) == wpc'[x] = wpc[x] \/ (wpc[x] = "sleep" /\ wpc'[x] = "acquire")
WorkerPcs == {"idle", "acquire", "wait", "sleep", "read", "send", "stat", "exit"}

LEMMA EmitterWakes ==
  ASSUME TypeWork, Emitter \/ WakeOnCancel \/ UserCancel \/ Dispatch
  PROVE  wpc' \in [Workers -> WorkerPcs] /\ \A x \in Workers : Woken(x)
<1>1. CASE wpc' = wpc
  BY <1>1 DEF TypeWork, Woken, WorkerPcs
<1>2. CASE wpc' = Broadcast(wpc)
  BY <1>2 DEF TypeWork, Woken, WorkerPcs, Broadcast
<1>3. wpc' = wpc \/ wpc' = Broadcast(wpc)
  BY DEF Emitter, EmitOpen, EmitHeader, EmitReceive, EmitWrite, EmitClose, EmitEnd, CancelSource, ClosePipe,
         WakeOnCancel, UserCancel, Dispatch, Release
<1> QED
  BY <1>1, <1>2, <1>3

LEMMA Constants ==
  /\ N \in Nat /\ Window \in Nat /\ Budget \in Nat /\ ChunkCap \in Nat /\ ChunkSize \in Nat
  /\ Window > 0 /\ Budget > 0 /\ ChunkCap > 0 /\ ChunkSize > 0
  /\ \A s \in Sizes : s \in Nat
  BY AsyncConstants

LEMMA ChunkFields ==
  ASSUME NEW c \in Chunks \union {NoChunk}
  PROVE  /\ c.off \in Nat /\ c.n \in Nat /\ c.pad \in BOOLEAN
         /\ c.n > 0 => c \in Chunks
         /\ c \in Chunks => c.n > 0
<1>1. CASE c \in Chunks
  BY <1>1, Constants DEF Chunks
<1>2. CASE c = NoChunk
  <2>1. c.n = 0 /\ c.off = 0
    BY <1>2 DEF NoChunk
  <2>3. c.pad \in BOOLEAN
    BY <1>2 DEF NoChunk
  <2>2. ASSUME c \in Chunks PROVE FALSE
    <3>1. c.n \in 1 .. ChunkSize
      BY <2>2 DEF Chunks
    <3> QED
      BY <2>1, <3>1, Constants
  <2> QED
    BY <2>1, <2>2, <2>3
<1> QED
  BY <1>1, <1>2

LEMMA SizeType ==
  ASSUME TypePay, NEW p \in Seqs
  PROVE  size[p] \in Int /\ (size[p] # -1 => size[p] \in Nat)
<1>1. size[p] \in Sizes \union {-1, 0}
  BY DEF TypePay
<1> QED
  BY <1>1, Constants

-----------------------------------------------------------------------------
\* A step of one worker, as the others see it.
Same(x) ==
  /\ cur'[x] = cur[x] /\ remaining'[x] = remaining[x] /\ padding'[x] = padding[x]
  /\ hold'[x] = hold[x] /\ outcome'[x] = outcome[x] /\ Woken(x)
Others(w) == \A x \in Workers : x # w => Same(x)

\* read returns: the payload is closed and the worker idle again.
Returns(w, failed) ==
  /\ cur'[w] = -1 /\ remaining'[w] = 0 /\ padding'[w] = FALSE /\ wpc'[w] = "idle"
  /\ fd' = [fd EXCEPT ![cur[w]] = IF @ = "open" THEN "closed" ELSE @]
  /\ closed' = [closed EXCEPT ![cur[w]] = TRUE]
  /\ err' = [err EXCEPT ![cur[w]] = failed]
\* read goes on with the payload.
Continues(w) == cur'[w] = cur[w] /\ UNCHANGED <<fd, closed, err>>

TypeSame == TypeWork' /\ TypePay' /\ TypeChunks'

LEMMA BusyType ==
  ASSUME TypeInv, NEW w \in Workers, wpc[w] \notin {"idle", "exit"}
  PROVE  /\ cur[w] \in Seqs /\ cur[w] # -1 /\ cur[w] < next
         /\ size[cur[w]] \in Nat /\ remaining[w] \in Nat /\ remaining[w] <= size[cur[w]]
         /\ hold[w] \in Chunks \union {NoChunk}
<1> USE DEF TypeInv, TypeOK
<1>1. cur[w] \in Seqs /\ cur[w] # -1
  BY DEF TypeWork, Phases
<1>2. cur[w] < next /\ remaining[w] <= size[cur[w]]
  BY <1>1 DEF Reading, ReadingOf
<1>3. next <= Bound /\ cur[w] \in Int /\ next \in Int
  BY <1>1, Constants DEF Bound, TypeDisp, Seqs
<1>4. cur[w] < Bound
  BY <1>2, <1>3 DEF Bound
<1>5. size[cur[w]] # -1
  BY <1>1, <1>4 DEF BoundSize
<1> QED
  BY <1>1, <1>2, <1>5, SizeType DEF TypeWork

LEMMA ReadReturnsEffect ==
  ASSUME TypeInv, NEW w \in Workers, NEW failed \in BOOLEAN, cur[w] \in Seqs,
         ReadReturns(w, failed), UNCHANGED <<size, openErr>>
  PROVE  /\ TypePay'
         /\ closed' \in [Seqs -> BOOLEAN] /\ err' \in [Seqs -> BOOLEAN]
         /\ cur' \in [Workers -> Seqs \union {-1}] /\ remaining' \in [Workers -> Nat] /\ padding' \in [Workers -> BOOLEAN]
         /\ cur'[w] = -1 /\ remaining'[w] = 0 /\ padding'[w] = FALSE
         /\ fd' = [fd EXCEPT ![cur[w]] = IF @ = "open" THEN "closed" ELSE @]
         /\ closed' = [closed EXCEPT ![cur[w]] = TRUE]
         /\ err' = [err EXCEPT ![cur[w]] = failed]
         /\ \A x \in Workers : x # w => cur'[x] = cur[x] /\ remaining'[x] = remaining[x] /\ padding'[x] = padding[x]
  BY DEF TypeInv, TypeOK, TypeWork, TypePay, TypeChunks, ReadReturns

LEMMA ReceiveEffect ==
  ASSUME TypeInv, NEW w \in Workers, WorkerReceive(w)
  PROVE  /\ TypeSame /\ Others(w) /\ UNCHANGED <<fd, chunks, closed, err, warned, avail, hold, outcome>>
         /\ work' \in Seq(Seqs)
         /\ \/ /\ work # <<>> /\ work' = Tail(work) /\ cur[w] = -1 /\ cur'[w] = Head(work) /\ Head(work) \in Seqs
               /\ remaining'[w] = size[Head(work)] /\ padding'[w] = FALSE
               /\ wpc'[w] = IF size[Head(work)] > 0 THEN "acquire" ELSE "stat"
            \/ /\ work = <<>> /\ dpc = "exit" /\ wpc'[w] = "exit"
               /\ UNCHANGED <<work, cur, remaining, padding>>
<1> USE DEF TypeInv, TypeOK
<1>1. UNCHANGED <<size, openErr, fd, chunks, closed, err, warned, avail, head, hold, outcome>>
  BY DEF WorkerReceive, payVars
<1>2. TypePay' /\ TypeChunks'
  BY <1>1 DEF TypePay, TypeChunks
<1>3. CASE work # <<>>
  <2>1. Head(work) \in Seqs /\ work' = Tail(work) /\ work' \in Seq(Seqs)
    <3>1. work \in Seq(Seqs)
      BY DEF TypeDisp
    <3>2. work' = Tail(work)
      BY <1>3 DEF WorkerReceive
    <3> QED
      BY <1>3, <3>1, <3>2, HeadTailType
  <2>2. size[Head(work)] \in Nat
    <3>1. Head(work) < next
      BY <1>3, HeadAt DEF BoundSize, TypeDisp
    <3>2. Head(work) < Bound
      BY <2>1, <3>1, Constants DEF Bound, TypeDisp, Seqs
    <3> QED
      BY <2>1, <3>2, SizeType DEF BoundSize
  <2>3. /\ cur' = [cur EXCEPT ![w] = Head(work)] /\ remaining' = [remaining EXCEPT ![w] = size[Head(work)]]
        /\ padding' = [padding EXCEPT ![w] = FALSE]
        /\ wpc' = [wpc EXCEPT ![w] = IF size[Head(work)] > 0 THEN "acquire" ELSE "stat"]
        /\ wpc[w] = "idle"
    BY <1>3 DEF WorkerReceive
  <2>4. TypeWork'
    BY <1>1, <2>1, <2>2, <2>3 DEF TypeWork
  <2>5. Others(w)
    BY <1>1, <2>3 DEF TypeWork, Others, Same, Woken
  <2>6. cur[w] = -1 /\ cur'[w] = Head(work) /\ remaining'[w] = size[Head(work)] /\ padding'[w] = FALSE
    BY <2>3 DEF TypeWork, Phases
  <2>7. wpc'[w] = IF size[Head(work)] > 0 THEN "acquire" ELSE "stat"
    BY <2>3 DEF TypeWork
  <2> QED
    BY <1>1, <1>2, <1>3, <2>1, <2>4, <2>5, <2>6, <2>7 DEF TypeSame
<1>4. CASE work = <<>>
  <2>1. /\ dpc = "exit" /\ wpc' = [wpc EXCEPT ![w] = "exit"]
        /\ UNCHANGED <<work, cur, remaining, padding>>
    BY <1>4 DEF WorkerReceive
  <2>2. TypeWork' /\ Others(w) /\ wpc'[w] = "exit"
    BY <1>1, <2>1 DEF TypeWork, Others, Same, Woken
  <2> QED
    BY <1>1, <1>2, <1>4, <2>1, <2>2 DEF TypeSame, TypeDisp
<1> QED
  BY <1>3, <1>4

LEMMA AcquireEffect ==
  ASSUME TypeInv, NEW w \in Workers, Acquire(w)
  PROVE  /\ TypeSame /\ Others(w) /\ UNCHANGED <<work, chunks, warned, hold, outcome>>
         /\ wpc[w] = "acquire" /\ cur[w] \in Seqs
         /\ \/ Returns(w, TRUE) /\ UNCHANGED avail
            \/ Continues(w) /\ UNCHANGED <<remaining, padding, avail>> /\ wpc'[w] = "wait"
            \/ /\ Continues(w) /\ UNCHANGED <<remaining, padding>> /\ wpc'[w] = "read"
               /\ avail' = avail - 1 /\ (avail >= 1 \/ cur[w] = head)
<1> USE DEF TypeInv, TypeOK
<1>1. UNCHANGED <<work, size, openErr, chunks, warned, head, hold, outcome>> /\ wpc[w] = "acquire"
  BY DEF Acquire, payVars
<1>2. cur[w] \in Seqs
  BY <1>1, BusyType
<1>3. CASE canceled
  <2>1. ReadReturns(w, TRUE) /\ wpc' = [wpc EXCEPT ![w] = "idle"] /\ UNCHANGED avail
    BY <1>3 DEF Acquire
  <2>2. TypeSame
    BY <1>1, <1>2, <2>1, ReadReturnsEffect DEF TypeSame, TypeWork, TypeChunks
  <2>3. wpc'[w] = "idle" /\ \A x \in Workers : x # w => wpc'[x] = wpc[x]
    BY <2>1 DEF TypeWork
  <2>4. Returns(w, TRUE)
    BY <1>1, <1>2, <2>1, <2>3, ReadReturnsEffect DEF Returns
  <2>5. \A x \in Workers : x # w => cur'[x] = cur[x] /\ remaining'[x] = remaining[x] /\ padding'[x] = padding[x]
    BY <1>1, <1>2, <2>1, ReadReturnsEffect
  <2>6. Others(w)
    BY <1>1, <2>3, <2>5 DEF Others, Same, Woken
  <2> QED
    BY <1>1, <1>2, <2>1, <2>2, <2>4, <2>6
<1>4. CASE ~canceled /\ MustWait(w)
  <2>1. wpc' = [wpc EXCEPT ![w] = "wait"] /\ UNCHANGED <<avail, fd, closed, err, cur, remaining, padding>>
    BY <1>4 DEF Acquire
  <2> QED
    BY <1>1, <1>2, <2>1 DEF TypeSame, TypeWork, TypePay, TypeChunks, Continues, Others, Same, Woken
<1>5. CASE ~canceled /\ ~MustWait(w)
  <2>1. wpc' = [wpc EXCEPT ![w] = "read"] /\ avail' = avail - 1 /\ UNCHANGED <<fd, closed, err, cur, remaining, padding>>
    BY <1>5 DEF Acquire
  <2>2. avail >= 1 \/ cur[w] = head
    BY <1>5 DEF MustWait, TypeChunks
  <2>3. TypeChunks'
    BY <1>1, <2>1 DEF TypeChunks
  <2> QED
    BY <1>1, <1>2, <2>1, <2>2, <2>3 DEF TypeSame, TypeWork, TypePay, Continues, Others, Same, Woken
<1> QED
  BY <1>3, <1>4, <1>5 DEF TypeDisp

LEMMA SleepEffect ==
  ASSUME TypeInv, NEW w \in Workers, Sleep(w)
  PROVE  /\ TypeSame /\ Others(w) /\ UNCHANGED <<work, fd, chunks, closed, err, warned, avail, cur, remaining, padding, hold, outcome>>
         /\ wpc[w] = "wait" /\ wpc'[w] = "sleep"
  BY DEF TypeInv, TypeOK, TypeSame, TypeWork, TypePay, TypeChunks, Others, Same, Woken, Sleep, workVars, payVars

LEMMA ReadEffect ==
  ASSUME TypeInv, NEW w \in Workers, Read(w)
  PROVE  /\ TypeSame /\ Others(w) /\ UNCHANGED <<work, fd, chunks, closed, err, warned, avail, cur, remaining, padding>>
         /\ wpc[w] = "read" /\ wpc'[w] = "send"
         /\ hold'[w].n <= remaining[w]
         /\ hold'[w].n > 0 => hold'[w].off = Offset(w)
         /\ padding[w] => hold'[w].pad /\ hold'[w].n > 0 /\ outcome'[w] = "nil"
         /\ ~padding[w] => ~hold'[w].pad
         /\ outcome'[w] = "nil" => hold'[w].n > 0
<1> USE DEF TypeInv, TypeOK
<1>1. UNCHANGED <<work, size, openErr, fd, chunks, closed, err, warned, avail, head, cur, remaining, padding>>
  BY DEF Read, payVars
<1>2. wpc[w] = "read" /\ wpc' = [wpc EXCEPT ![w] = "send"]
  BY DEF Read
<1>3. cur[w] \in Seqs /\ Offset(w) \in Nat /\ remaining[w] \in Nat /\ remaining[w] > 0
  <2>1. cur[w] \in Seqs /\ size[cur[w]] \in Nat /\ remaining[w] \in Nat /\ remaining[w] <= size[cur[w]]
    BY <1>2, BusyType
  <2> QED
    BY <1>2, <2>1 DEF Reading, ReadingOf, Offset
<1>4. Min2(ChunkSize, remaining[w]) \in 1 .. ChunkSize /\ Min2(ChunkSize, remaining[w]) <= remaining[w]
  BY <1>3, Constants DEF Min2
<1>5. PICK c \in Chunks \union {NoChunk}, e \in {"nil", "EOF", "fail"} :
        /\ hold' = [hold EXCEPT ![w] = c] /\ outcome' = [outcome EXCEPT ![w] = e]
        /\ c.n <= remaining[w] /\ (c.n > 0 => c.off = Offset(w))
        /\ padding[w] => c.pad /\ c.n > 0 /\ e = "nil"
        /\ ~padding[w] => ~c.pad
        /\ e = "nil" => c.n > 0
  <2>1. CASE padding[w]
    <3> DEFINE c == [off |-> Offset(w), n |-> Min2(ChunkSize, remaining[w]), pad |-> TRUE]
    <3>1. hold' = [hold EXCEPT ![w] = c] /\ outcome' = [outcome EXCEPT ![w] = "nil"]
      BY <2>1 DEF Read
    <3>2. c \in Chunks
      BY <1>3, <1>4 DEF Chunks
    <3>3. c.n = Min2(ChunkSize, remaining[w]) /\ c.off = Offset(w) /\ c.pad
      OBVIOUS
    <3> HIDE DEF c
    <3>4. c.n <= remaining[w] /\ c.n > 0
      BY <1>3, <1>4, <3>3, Constants
    <3> QED
      BY <2>1, <3>1, <3>2, <3>3, <3>4, Zenon
  <2>2. CASE ~padding[w]
    <3>1. PICK n \in 0 .. Min2(ChunkSize, remaining[w]), e \in {"nil", "EOF", "fail"} :
            /\ e = "nil" => n > 0
            /\ hold' = [hold EXCEPT ![w] = IF n = 0 THEN NoChunk ELSE [off |-> Offset(w), n |-> n, pad |-> FALSE]]
            /\ outcome' = [outcome EXCEPT ![w] = e]
      BY <2>2 DEF Read
    <3> DEFINE c == IF n = 0 THEN NoChunk ELSE [off |-> Offset(w), n |-> n, pad |-> FALSE]
    <3>2. c.n = n /\ ~c.pad /\ (n > 0 => c.off = Offset(w))
      BY DEF NoChunk
    <3>3. c \in Chunks \union {NoChunk}
      <4>1. n # 0 => n \in 1 .. ChunkSize
        BY <1>4, Constants
      <4>2. n # 0 => [off |-> Offset(w), n |-> n, pad |-> FALSE] \in Chunks
        BY <1>3, <4>1 DEF Chunks
      <4> QED
        BY <4>2
    <3>4. n <= remaining[w]
      BY <1>3, <1>4, Constants
    <3>5. hold' = [hold EXCEPT ![w] = c]
      BY <3>1
    <3> HIDE DEF c
    <3> QED
      BY <2>2, <3>1, <3>2, <3>3, <3>4, <3>5
  <2> QED
    BY <2>1, <2>2 DEF TypeWork
<1>6. hold'[w] = c /\ outcome'[w] = e /\ wpc'[w] = "send"
  BY <1>2, <1>5 DEF TypeWork
<1>7. TypeSame /\ Others(w)
  BY <1>1, <1>2, <1>5 DEF TypeSame, TypeWork, TypePay, TypeChunks, Others, Same, Woken
<1> QED
  BY <1>1, <1>2, <1>5, <1>6, <1>7

\* The source of w's payload ended with left units missing.
Short(w, left) == outcome[w] = "EOF" /\ left > 0

\* What remains to be done after a buffer of n units.
GoesOn(w, left) ==
  /\ Continues(w) /\ remaining'[w] = left
  /\ padding'[w] = (padding[w] \/ Short(w, left))
  /\ wpc'[w] = IF left = 0 THEN "stat" ELSE "acquire"

\* The worker's other variables after a buffer.
AfterTypes(w) ==
  /\ TypePay'
  /\ closed' \in [Seqs -> BOOLEAN] /\ err' \in [Seqs -> BOOLEAN] /\ warned' \in [Seqs -> BOOLEAN]
  /\ cur' \in [Workers -> Seqs \union {-1}] /\ remaining' \in [Workers -> Nat] /\ padding' \in [Workers -> BOOLEAN]
  /\ \A x \in Workers : x # w => cur'[x] = cur[x] /\ remaining'[x] = remaining[x] /\ padding'[x] = padding[x]

LEMMA AfterBufferEffect ==
  ASSUME TypeInv, NEW w \in Workers, NEW left \in Nat, cur[w] \in Seqs, AfterBuffer(w, left),
         UNCHANGED <<size, openErr>>, wpc'[w] = PcAfterBuffer(w, left)[w]
  PROVE  /\ AfterTypes(w)
         /\ warned' = [warned EXCEPT ![cur[w]] = @ \/ Short(w, left)]
         /\ (Returns(w, TRUE) /\ outcome[w] = "fail") \/ (GoesOn(w, left) /\ outcome[w] # "fail")
<1> USE DEF TypeInv, TypeOK
<1>1. warned' = [warned EXCEPT ![cur[w]] = @ \/ Short(w, left)]
  BY DEF AfterBuffer, Short
<1>2. warned' \in [Seqs -> BOOLEAN]
  BY <1>1 DEF TypeChunks
<1>3. wpc'[w] = IF outcome[w] = "fail" THEN "idle" ELSE IF left = 0 THEN "stat" ELSE "acquire"
  BY DEF PcAfterBuffer, TypeWork
<1>4. CASE outcome[w] = "fail"
  <2>1. ReadReturns(w, TRUE)
    BY <1>4 DEF AfterBuffer
  <2>2. AfterTypes(w)
    BY <1>2, <2>1, ReadReturnsEffect DEF AfterTypes
  <2>3. Returns(w, TRUE)
    BY <1>3, <1>4, <2>1, ReadReturnsEffect DEF Returns
  <2> QED
    BY <1>1, <1>4, <2>2, <2>3
<1>5. CASE outcome[w] # "fail"
  <2>1. /\ remaining' = [remaining EXCEPT ![w] = left]
        /\ padding' = [padding EXCEPT ![w] = @ \/ Short(w, left)]
        /\ UNCHANGED <<fd, closed, err, cur>>
    BY <1>5 DEF AfterBuffer, Short
  <2>2. AfterTypes(w)
    BY <1>2, <2>1 DEF AfterTypes, TypePay, TypeChunks, TypeWork
  <2>3. padding'[w] = (padding[w] \/ Short(w, left)) /\ remaining'[w] = left
    BY <2>1 DEF TypeWork
  <2> QED
    BY <1>1, <1>3, <1>5, <2>1, <2>2, <2>3 DEF GoesOn, Continues
<1> QED
  BY <1>4, <1>5

LEMMA SendEffect ==
  ASSUME TypeInv, NEW w \in Workers, Send(w)
  PROVE  LET left == remaining[w] - hold[w].n IN
         /\ TypeSame /\ Others(w) /\ work' = work
         /\ wpc[w] = "send" /\ cur[w] \in Seqs /\ left \in Nat
         /\ hold'[w] = NoChunk
         /\ \/ /\ hold[w] \in Chunks
               /\ chunks' = [chunks EXCEPT ![cur[w]] = Append(@, hold[w])] /\ avail' = avail
            \/ /\ hold[w].n > 0 /\ Returns(w, TRUE) /\ warned' = warned
               /\ chunks' = chunks /\ avail' = avail + 1
            \/ hold[w].n = 0 /\ chunks' = chunks /\ avail' = avail + 1
         /\ Returns(w, TRUE) \/ GoesOn(w, left)
         /\ \/ warned' = warned /\ Returns(w, TRUE)
            \/ warned' = [warned EXCEPT ![cur[w]] = @ \/ Short(w, left)]
<1> DEFINE left == remaining[w] - hold[w].n
<1> USE DEF TypeInv, TypeOK
<1>1. /\ UNCHANGED <<work, size, openErr, head>> /\ wpc[w] = "send"
      /\ hold' = [hold EXCEPT ![w] = NoChunk] /\ outcome' = [outcome EXCEPT ![w] = "nil"]
  BY DEF Send, payVars
<1>2. cur[w] \in Seqs /\ remaining[w] \in Nat /\ hold[w] \in Chunks \union {NoChunk}
  BY <1>1, BusyType
<1>3. hold[w].n \in Nat /\ (hold[w].n > 0 => hold[w] \in Chunks)
  BY <1>2, ChunkFields
<1>4. left \in Nat
  BY <1>1, <1>2, <1>3 DEF Reading, ReadingOf
<1>5. hold' \in [Workers -> Chunks \union {NoChunk}] /\ outcome' \in [Workers -> {"nil", "EOF", "fail"}]
      /\ hold'[w] = NoChunk /\ \A x \in Workers : x # w => hold'[x] = hold[x] /\ outcome'[x] = outcome[x]
  BY <1>1 DEF TypeWork
<1> HIDE DEF left
<1>6. ASSUME NEW pc \in [Workers -> WorkerPcs], wpc' = Broadcast(pc) \/ wpc' = pc,
             \A x \in Workers : x # w => pc[x] = wpc[x], pc[w] # "sleep"
      PROVE  wpc' \in [Workers -> WorkerPcs] /\ wpc'[w] = pc[w] /\ \A x \in Workers : x # w => Woken(x)
  BY <1>6 DEF Broadcast, Woken, WorkerPcs
<1>7. ASSUME wpc' \in [Workers -> WorkerPcs], \A x \in Workers : x # w => Woken(x), AfterTypes(w)
      PROVE  TypeWork' /\ TypePay' /\ Others(w)
  BY <1>5, <1>7 DEF AfterTypes, TypeWork, Others, Same, WorkerPcs
<1>8. /\ PcAfterBuffer(w, left) \in [Workers -> WorkerPcs] /\ PcAfterBuffer(w, left)[w] # "sleep"
      /\ \A x \in Workers : x # w => PcAfterBuffer(w, left)[x] = wpc[x]
  BY DEF PcAfterBuffer, TypeWork, WorkerPcs
<1>9. CASE hold[w].n > 0 /\ Len(chunks[cur[w]]) < ChunkCap
           /\ chunks' = [chunks EXCEPT ![cur[w]] = Append(@, hold[w])]
           /\ AfterBuffer(w, left) /\ wpc' = PcAfterBuffer(w, left) /\ UNCHANGED avail
  <2>1. wpc' \in [Workers -> WorkerPcs] /\ wpc'[w] = PcAfterBuffer(w, left)[w] /\ \A x \in Workers : x # w => Woken(x)
    BY <1>6, <1>8, <1>9
  <2>2. /\ AfterTypes(w)
        /\ warned' = [warned EXCEPT ![cur[w]] = @ \/ Short(w, left)]
        /\ Returns(w, TRUE) \/ GoesOn(w, left)
    BY <1>1, <1>2, <1>4, <1>9, <2>1, AfterBufferEffect
  <2>3. TypeChunks'
    <3>1. chunks' \in [Seqs -> Seq(Chunks)]
      BY <1>2, <1>3, <1>9, AppendType DEF TypeChunks
    <3> QED
      BY <1>1, <1>9, <2>2, <3>1 DEF TypeChunks, AfterTypes
  <2> QED
    BY <1>1, <1>2, <1>3, <1>4, <1>5, <1>7, <1>9, <2>1, <2>2, <2>3 DEF TypeSame, left
<1>10. CASE hold[w].n > 0 /\ PutBackUnsent(w) /\ ReadReturns(w, TRUE) /\ UNCHANGED <<chunks, warned>>
  <2>1. avail' = avail + 1 /\ wpc' = Broadcast([wpc EXCEPT ![w] = "idle"])
    BY <1>10 DEF PutBackUnsent, Release
  <2>2. wpc' \in [Workers -> WorkerPcs] /\ wpc'[w] = "idle" /\ \A x \in Workers : x # w => Woken(x)
    <3>1. /\ [wpc EXCEPT ![w] = "idle"] \in [Workers -> WorkerPcs] /\ [wpc EXCEPT ![w] = "idle"][w] = "idle"
          /\ \A x \in Workers : x # w => [wpc EXCEPT ![w] = "idle"][x] = wpc[x]
      BY DEF TypeWork, WorkerPcs
    <3> QED
      BY <1>6, <2>1, <3>1
  <2>3. AfterTypes(w)
    BY <1>1, <1>2, <1>10, ReadReturnsEffect DEF AfterTypes, TypeChunks
  <2>4. Returns(w, TRUE)
    BY <1>1, <1>2, <1>10, <2>2, ReadReturnsEffect DEF Returns
  <2>5. TypeChunks'
    BY <1>1, <1>10, <2>1, <2>3 DEF TypeChunks, AfterTypes
  <2> QED
    BY <1>1, <1>2, <1>3, <1>4, <1>5, <1>7, <1>10, <2>1, <2>2, <2>3, <2>4, <2>5 DEF TypeSame, left
<1>11. CASE hold[w].n = 0 /\ Release(PcAfterBuffer(w, left)) /\ AfterBuffer(w, left) /\ UNCHANGED chunks
  <2>1. avail' = avail + 1 /\ wpc' = Broadcast(PcAfterBuffer(w, left))
    BY <1>11 DEF Release
  <2>2. wpc' \in [Workers -> WorkerPcs] /\ wpc'[w] = PcAfterBuffer(w, left)[w] /\ \A x \in Workers : x # w => Woken(x)
    BY <1>6, <1>8, <2>1
  <2>3. /\ AfterTypes(w)
        /\ warned' = [warned EXCEPT ![cur[w]] = @ \/ Short(w, left)]
        /\ Returns(w, TRUE) \/ GoesOn(w, left)
    BY <1>1, <1>2, <1>4, <1>11, <2>2, AfterBufferEffect
  <2>4. TypeChunks'
    BY <1>1, <1>11, <2>1, <2>3 DEF TypeChunks, AfterTypes
  <2> QED
    BY <1>1, <1>2, <1>3, <1>4, <1>5, <1>7, <1>11, <2>1, <2>2, <2>3, <2>4 DEF TypeSame, left
<1> QED
  BY <1>9, <1>10, <1>11 DEF Send, left

LEMMA FinalCheckEffect ==
  ASSUME TypeInv, NEW w \in Workers, FinalCheck(w)
  PROVE  /\ TypeSame /\ Others(w) /\ UNCHANGED <<work, chunks, avail, hold, outcome>>
         /\ wpc[w] = "stat" /\ cur[w] \in Seqs
         /\ Returns(w, FALSE)
         /\ \A p \in Seqs : warned[p] => warned'[p]
<1> USE DEF TypeInv, TypeOK
<1>1. /\ UNCHANGED <<work, size, openErr, chunks, avail, head, hold, outcome>> /\ wpc[w] = "stat"
      /\ ReadReturns(w, FALSE) /\ wpc' = [wpc EXCEPT ![w] = "idle"]
  BY DEF FinalCheck, payVars
<1>2. cur[w] \in Seqs
  BY <1>1, BusyType
<1>3. warned' \in [Seqs -> BOOLEAN] /\ \A p \in Seqs : warned[p] => warned'[p]
  BY <1>2 DEF FinalCheck, TypeChunks
<1>4. TypeSame
  BY <1>1, <1>2, <1>3, ReadReturnsEffect DEF TypeSame, TypeWork, TypeChunks
<1>5. wpc'[w] = "idle" /\ \A x \in Workers : x # w => wpc'[x] = wpc[x]
  BY <1>1 DEF TypeWork
<1>6. Returns(w, FALSE)
  BY <1>1, <1>2, <1>5, ReadReturnsEffect DEF Returns
<1>7. \A x \in Workers : x # w => cur'[x] = cur[x] /\ remaining'[x] = remaining[x] /\ padding'[x] = padding[x]
  BY <1>1, <1>2, ReadReturnsEffect
<1>8. Others(w)
  BY <1>1, <1>5, <1>7 DEF Others, Same, Woken
<1> QED
  BY <1>1, <1>2, <1>3, <1>4, <1>6, <1>8

-----------------------------------------------------------------------------
(***************************************************************************)
(* Types.  One lemma per goroutine; the window's bounds need the order of  *)
(* delivery, because the emitter gives slots back.                         *)
(***************************************************************************)
LEMMA TypeInit == Init => TypeInv
<1> SUFFICES ASSUME Init PROVE TypeInv
  OBVIOUS
<1>1. TypeDisp /\ TypeEmit
  <2>1. next \in 0 .. N /\ window \in 0 .. Window /\ epos \in 0 .. N /\ written \in Nat /\ padded \in Nat
    BY Constants DEF Init
  <2>2. /\ canceled \in BOOLEAN /\ watching \in BOOLEAN /\ ehold \in Chunks \union {NoChunk} /\ reported \subseteq Seqs
        /\ dpc \in {"slot", "deliver", "work", "exit"}
        /\ epc \in {"open", "header", "copy", "write", "cancel", "wait", "closed"}
        /\ result \in {"running", "ok", "error"}
    BY DEF Init
  <2>3. delivery \in Seq(Seqs) /\ work \in Seq(Seqs)
    BY EmptyType DEF Init
  <2> QED
    BY <2>1, <2>2, <2>3 DEF TypeDisp, TypeEmit
<1>2. TypePay
  BY DEF Init, TypePay
<1>3. TypeChunks
  BY Constants, EmptyType DEF Init, TypeChunks
<1>4. TypeWork
  BY DEF Init, TypeWork
<1>5. Phases /\ Reading
  BY DEF Init, Phases, Running, Reading, ReadingOf
<1>6. BoundSize
  BY Constants DEF Init, BoundSize, Bound, Seqs
<1> QED
  BY <1>1, <1>2, <1>3, <1>4, <1>5, <1>6 DEF TypeInv, TypeOK

LEMMA WorkerKeepsType ==
  ASSUME TypeInv, NEW w \in Workers, Worker(w), TypeSame, Others(w), work' \in Seq(Seqs),
         \A i \in 1 .. Len(work') : work'[i] < next,
         cur'[w] = -1 <=> wpc'[w] \in {"idle", "exit"},
         ReadingOf(w)'
  PROVE  TypeInv'
<1> USE DEF TypeInv, TypeOK
<1>1. UNCHANGED <<canceled, watching, dpc, next, window, delivery, size, openErr,
                  epc, epos, ehold, written, padded, reported, result>>
  BY WorkerFrame
<1>2. TypeDisp' /\ TypeEmit'
  BY <1>1 DEF TypeDisp, TypeEmit
<1>3. Phases'
  BY <1>1 DEF Phases, Running, Others, Same, Woken
<1>4. BoundSize'
  BY <1>1 DEF BoundSize, Bound
<1>5. \A x \in Workers : x # w => ReadingOf(x)'
  BY <1>1 DEF Reading, ReadingOf, Others, Same, Woken
<1> QED
  BY <1>2, <1>3, <1>4, <1>5 DEF TypeSame, Reading

LEMMA WorkerType ==
  ASSUME TypeInv, NEW w \in Workers, Worker(w)
  PROVE  TypeInv'
<1> USE DEF TypeInv, TypeOK
<1>1. UNCHANGED <<next, size>>
  BY WorkerFrame
<1>2. work \in Seq(Seqs) /\ \A i \in 1 .. Len(work) : work[i] < next
  BY DEF TypeDisp, BoundSize
<1>3. CASE WorkerReceive(w)
  <2>1. CASE /\ work # <<>> /\ work' = Tail(work) /\ cur[w] = -1 /\ cur'[w] = Head(work) /\ Head(work) \in Seqs
             /\ remaining'[w] = size[Head(work)]
             /\ wpc'[w] = IF size[Head(work)] > 0 THEN "acquire" ELSE "stat"
    <3>1. Head(work) < next /\ Head(work) \in Int /\ Head(work) # -1
      BY <1>2, <2>1, HeadAt, Constants DEF Seqs
    <3>2. size[Head(work)] \in Nat
      BY <2>1, <3>1, SizeType, Constants DEF BoundSize, Bound, TypeDisp
    <3>3. \A i \in 1 .. Len(work') : work'[i] < next
      BY <1>2, <2>1, TailAt
    <3>4. ReadingOf(w)'
      BY <1>1, <2>1, <3>1, <3>2 DEF ReadingOf
    <3>5. cur'[w] # -1 /\ wpc'[w] \notin {"idle", "exit"}
      BY <2>1, <3>1
    <3> QED
      BY <1>3, <3>3, <3>4, <3>5, ReceiveEffect, WorkerKeepsType
  <2>2. CASE wpc'[w] = "exit" /\ UNCHANGED <<work, cur, remaining>>
    <3>1. cur[w] = -1
      BY <1>3 DEF WorkerReceive, Phases
    <3>2. ReadingOf(w)'
      BY <2>2, <3>1 DEF ReadingOf
    <3> QED
      BY <1>2, <1>3, <2>2, <3>1, <3>2, ReceiveEffect, WorkerKeepsType
  <2> QED
    BY <1>3, <2>1, <2>2, ReceiveEffect
<1>4. ASSUME Returns(w, TRUE) \/ Returns(w, FALSE) PROVE ReadingOf(w)' /\ (cur'[w] = -1 <=> wpc'[w] \in {"idle", "exit"})
  BY <1>4 DEF Returns, ReadingOf
<1>5. CASE Acquire(w)
  <2>1. wpc[w] = "acquire" /\ cur[w] # -1 /\ ReadingOf(w) /\ work' = work
    BY <1>5, BusyType, AcquireEffect DEF Reading
  <2>2. CASE Continues(w) /\ remaining' = remaining /\ wpc'[w] \in {"wait", "read"}
    <3>1. ReadingOf(w)' /\ cur'[w] # -1
      BY <1>1, <2>1, <2>2 DEF ReadingOf, Continues
    <3> QED
      BY <1>2, <1>5, <2>1, <2>2, <3>1, AcquireEffect, WorkerKeepsType
  <2>3. CASE Returns(w, TRUE)
    BY <1>2, <1>4, <1>5, <2>1, <2>3, AcquireEffect, WorkerKeepsType
  <2> QED
    BY <1>5, <2>2, <2>3, AcquireEffect
<1>6. CASE Sleep(w)
  <2>1. wpc[w] = "wait" /\ wpc'[w] = "sleep" /\ UNCHANGED <<work, cur, remaining>> /\ cur[w] # -1
    BY <1>6, SleepEffect, BusyType
  <2>2. ReadingOf(w)'
    BY <1>1, <2>1 DEF Reading, ReadingOf
  <2> QED
    BY <1>2, <1>6, <2>1, <2>2, SleepEffect, WorkerKeepsType
<1>7. CASE Read(w)
  <2>1. wpc[w] = "read" /\ wpc'[w] = "send" /\ UNCHANGED <<work, cur, remaining>> /\ cur[w] # -1 /\ hold'[w].n <= remaining[w]
    BY <1>7, ReadEffect, BusyType
  <2>2. ReadingOf(w)'
    BY <1>1, <2>1 DEF Reading, ReadingOf
  <2> QED
    BY <1>2, <1>7, <2>1, <2>2, ReadEffect, WorkerKeepsType
<1>8. CASE Send(w)
  <2> DEFINE left == remaining[w] - hold[w].n
  <2>1. wpc[w] = "send" /\ work' = work /\ TypeSame /\ Others(w) /\ left \in Nat /\ (Returns(w, TRUE) \/ GoesOn(w, left))
    BY <1>8, SendEffect
  <2>2. CASE GoesOn(w, left)
    <3>1. cur[w] # -1 /\ remaining[w] \in Nat /\ remaining[w] <= size[cur[w]] /\ hold[w].n \in Nat
          /\ cur[w] < next /\ size[cur[w]] \in Nat
      BY <2>1, BusyType, ChunkFields
    <3>2. left <= size[cur[w]]
      BY <3>1
    <3> HIDE DEF left
    <3>3. ReadingOf(w)' /\ cur'[w] # -1 /\ wpc'[w] \notin {"idle", "exit"}
      BY <1>1, <2>1, <2>2, <3>1, <3>2 DEF GoesOn, Continues, ReadingOf
    <3> QED
      BY <1>2, <1>8, <2>1, <3>3, WorkerKeepsType
  <2>3. CASE Returns(w, TRUE)
    BY <1>2, <1>4, <1>8, <2>1, <2>3, WorkerKeepsType
  <2> QED
    BY <2>1, <2>2, <2>3
<1>9. CASE FinalCheck(w)
  BY <1>2, <1>4, <1>9, FinalCheckEffect, WorkerKeepsType
<1> QED
  BY <1>3, <1>5, <1>6, <1>7, <1>8, <1>9 DEF Worker

\* The dispatcher's steps that change something: bind, deliver, hand over, return.
Binds ==
  /\ dpc = "slot" /\ next < N /\ window < Window /\ window' = window + 1 /\ dpc' = "deliver"
  /\ UNCHANGED <<next, delivery, work, closed>>
  /\ \/ /\ \E s \in Sizes : size' = [size EXCEPT ![next] = s]
        /\ fd' = fd \/ fd' = [fd EXCEPT ![next] = "open"]
        /\ UNCHANGED openErr
     \/ /\ openErr' = [openErr EXCEPT ![next] = TRUE]
        /\ size' = [size EXCEPT ![next] = 0]
        /\ UNCHANGED fd
Delivers ==
  /\ dpc = "deliver" /\ delivery' = Append(delivery, next)
  /\ \/ openErr[next] /\ closed' = [closed EXCEPT ![next] = TRUE] /\ dpc' = "slot" /\ next' = next + 1
     \/ ~openErr[next] /\ dpc' = "work" /\ UNCHANGED <<closed, next>>
  /\ UNCHANGED <<window, work, size, openErr, fd>>
HandsOver ==
  /\ dpc = "work" /\ work' = Append(work, next) /\ dpc' = "slot" /\ next' = next + 1
  /\ UNCHANGED <<window, delivery, size, openErr, fd, closed>>
Leaves ==
  /\ dpc' = "exit" /\ dpc # "exit"
  /\ fd' = IF dpc # "slot" /\ fd[next] = "open" THEN [fd EXCEPT ![next] = "closed"] ELSE fd
  /\ UNCHANGED <<next, window, delivery, work, size, openErr, closed>>

LEMMA DispatchCases ==
  ASSUME TypeInv, Dispatch
  PROVE  Binds \/ Delivers \/ HandsOver \/ Leaves
<1>1. CASE DispatchBind
  BY <1>1 DEF DispatchBind, Binds, Leaves, DispatchExit, CloseInHand, SlotFree, payVars
<1>2. CASE DispatchDeliver
  BY <1>2 DEF DispatchDeliver, Deliver, Delivers, Leaves, DispatchExit, CloseInHand, payVars
<1>3. CASE DispatchWork
  BY <1>3 DEF DispatchWork, HandsOver, Leaves, DispatchExit, CloseInHand, payVars
<1>4. CASE DispatchDone
  BY <1>4 DEF DispatchDone, Leaves, DispatchExit, CloseInHand, payVars
<1> QED
  BY <1>1, <1>2, <1>3, <1>4 DEF Dispatch

LEMMA DispatchType ==
  ASSUME TypeInv, Dispatch
  PROVE  TypeInv'
<1> USE DEF TypeInv, TypeOK
<1>1. /\ UNCHANGED <<canceled, watching, chunks, err, warned, avail, head, wpc, cur, remaining, padding,
                     hold, outcome, epc, epos, ehold, written, padded, reported, result>>
  BY DispatchFrame
<1>2. TypeWork' /\ TypeEmit'
  BY <1>1 DEF TypeWork, TypeEmit
<1>3. ASSUME TypePay', next' \in Int, next' >= next,
             \A p \in Seqs : size'[p] = size[p] \/ size'[p] \in Nat
      PROVE  Reading'
  <2> SUFFICES ASSUME NEW w \in Workers PROVE ReadingOf(w)'
    BY DEF Reading
  <2>1. CASE cur[w] = -1
    BY <1>1, <2>1 DEF Reading, ReadingOf
  <2>2. CASE cur[w] # -1 /\ size'[cur[w]] = size[cur[w]]
    <3>1. cur[w] < next /\ cur[w] \in Int /\ next \in Int
      BY <2>2, BusyType, Constants DEF Phases, TypeDisp, Seqs
    <3>2. cur[w] < next'
      BY <1>3, <3>1
    <3> QED
      BY <1>1, <2>2, <3>2 DEF Reading, ReadingOf
  <2> QED
    <3>1. CASE cur[w] # -1 /\ size'[cur[w]] # size[cur[w]]
      <4>1. cur[w] \in Seqs /\ cur[w] < next
        BY <3>1, BusyType DEF Phases
      <4>2. dpc = "slot" /\ size' = [size EXCEPT ![next] = size'[next]]
        BY <3>1, DispatchCases DEF Binds, Delivers, HandsOver, Leaves, TypePay
      <4>3. cur[w] # next
        BY <4>1, Constants DEF Seqs, TypeDisp
      <4> QED
        BY <3>1, <4>1, <4>2, <4>3 DEF TypePay
    <3> QED
      BY <2>1, <2>2, <3>1
<1>4. CASE Binds
  <2>1. next \in Seqs /\ next \in Int
    BY <1>4, Constants DEF Binds, TypeDisp, Seqs
  <2>2. PICK s \in Nat : s \in Sizes \union {0} /\ size' = [size EXCEPT ![next] = s]
    BY <1>4, Constants DEF Binds
  <2>3. TypePay'
    BY <1>4, <2>1, <2>2 DEF Binds, TypePay
  <2>4. TypeDisp' /\ TypeChunks'
    BY <1>1, <1>4, Constants DEF Binds, TypeDisp, TypeChunks
  <2>5. \A p \in Seqs : size'[p] = size[p] \/ size'[p] \in Nat
    BY <2>2 DEF TypePay
  <2>6. \A p \in Seqs : size[p] # -1 => size'[p] # -1
    BY <2>2 DEF TypePay
  <2>7. size'[next] # -1
    BY <2>1, <2>2 DEF TypePay
  <2>8. Phases'
    BY <1>1, <1>4 DEF Binds, Phases, Running
  <2>9. BoundSize'
    <3>1. \A p \in Seqs : p < Bound' => size'[p] # -1
      BY <1>4, <2>1, <2>6, <2>7, Constants DEF Binds, Bound, BoundSize, Seqs
    <3>2. \A i \in 1 .. Len(delivery) : delivery[i] \in Seqs
      BY DEF TypeDisp
    <3>3. epc \in {"header", "copy", "write"} => epos \in Seqs
      BY Constants DEF Phases, TypeEmit, Seqs
    <3> QED
      BY <1>1, <1>4, <2>6, <3>1, <3>2, <3>3 DEF Binds, BoundSize
  <2> QED
    BY <1>2, <1>3, <1>4, <2>1, <2>3, <2>4, <2>5, <2>8, <2>9 DEF Binds
<1>5. CASE Delivers \/ HandsOver
  <2>1. next \in Seqs /\ next \in Int /\ next' \in {next, next + 1} /\ next < N
    BY <1>5, Constants DEF Delivers, HandsOver, TypeDisp, Seqs, Phases
  <2>2. delivery' \in Seq(Seqs) /\ work' \in Seq(Seqs)
    BY <1>5, <2>1, AppendType DEF Delivers, HandsOver, TypeDisp
  <2>3. TypeDisp'
    BY <1>1, <1>5, <2>1, <2>2, Constants DEF Delivers, HandsOver, TypeDisp
  <2>4. TypePay' /\ TypeChunks' /\ size' = size
    BY <1>1, <1>5, <2>1 DEF Delivers, HandsOver, TypePay, TypeChunks
  <2>5. Phases'
    BY <1>1, <1>5, <2>1 DEF Delivers, HandsOver, Phases, Running
  <2>6. Bound' = next + 1 /\ Bound = next + 1
    BY <1>5, <2>1 DEF Delivers, HandsOver, Bound
  <2>7. size[next] # -1
    BY <2>1, <2>6 DEF BoundSize
  <2>8. \A i \in 1 .. Len(delivery') : size[delivery'[i]] # -1
    <3>1. delivery \in Seq(Seqs) /\ \A i \in 1 .. Len(delivery) : size[delivery[i]] # -1
      BY DEF TypeDisp, BoundSize
    <3>2. delivery' = delivery \/ delivery' = Append(delivery, next)
      BY <1>5 DEF Delivers, HandsOver
    <3> QED
      BY <2>1, <2>7, <3>1, <3>2, AppendAt
  <2>9. \A i \in 1 .. Len(work') : work'[i] < next'
    <3>1. \A i \in 1 .. Len(work) : work[i] \in Int
      BY Constants, ElementType DEF TypeDisp, Seqs
    <3>2. CASE work' = work
      BY <2>1, <3>1, <3>2 DEF BoundSize
    <3>3. CASE work' = Append(work, next) /\ next' = next + 1
      BY <2>1, <3>1, <3>3, AppendAt DEF BoundSize, TypeDisp
    <3> QED
      BY <1>5, <3>2, <3>3 DEF Delivers, HandsOver
  <2>10. BoundSize'
    BY <1>1, <2>4, <2>6, <2>8, <2>9 DEF BoundSize
  <2> QED
    BY <1>2, <1>3, <2>1, <2>3, <2>4, <2>5, <2>10
<1>6. CASE Leaves
  <2>1. TypeDisp' /\ TypeChunks'
    BY <1>1, <1>6 DEF Leaves, TypeDisp, TypeChunks
  <2>2. TypePay'
    BY <1>6 DEF Leaves, TypePay
  <2>3. Phases'
    BY <1>1, <1>6 DEF Leaves, Phases, Running
  <2>4. next \in Int /\ Bound' = next /\ (Bound = next \/ Bound = next + 1)
    BY <1>6, Constants DEF Leaves, Bound, TypeDisp
  <2>5. BoundSize'
    BY <1>1, <1>6, <2>4, Constants DEF Leaves, BoundSize, Seqs
  <2> QED
    BY <1>2, <1>3, <1>6, <2>1, <2>2, <2>3, <2>4, <2>5 DEF Leaves
<1> QED
  BY <1>4, <1>5, <1>6, DispatchCases

\* The emitter fails and gives its slot back, unless it had none.
Fails == EmitFails /\ (window' = window \/ (window' = window - 1 /\ (epc # "open" \/ delivery # <<>>)))

LEMMA EmitterType ==
  ASSUME TypeInv, SlotInv, Emitter
  PROVE  TypeInv'
<1> USE DEF TypeInv, TypeOK
<1>1. UNCHANGED <<watching, dpc, next, work, size, openErr, fd, closed, err, warned, cur, remaining, padding, hold, outcome>>
  BY EmitterFrame
<1>2. wpc' \in [Workers -> WorkerPcs] /\ \A x \in Workers : Woken(x)
  BY EmitterWakes
<1>3. TypeWork' /\ TypePay'
  BY <1>1, <1>2 DEF TypeWork, TypePay, WorkerPcs
<1>4. Reading'
  BY <1>1, <1>2 DEF Reading, ReadingOf, Woken
<1>5. \A w \in Workers : cur'[w] = -1 <=> wpc'[w] \in {"idle", "exit"}
  BY <1>1, <1>2 DEF Phases, Woken
<1>6. ASSUME delivery' = delivery \/ (delivery # <<>> /\ delivery' = Tail(delivery))
      PROVE  /\ delivery' \in Seq(Seqs)
             /\ \A i \in 1 .. Len(delivery') : size'[delivery'[i]] # -1
  <2>1. delivery \in Seq(Seqs) /\ \A i \in 1 .. Len(delivery) : size[delivery[i]] # -1
    BY DEF TypeDisp, BoundSize
  <2>2. CASE delivery' = delivery
    BY <1>1, <2>1, <2>2
  <2>3. CASE delivery # <<>> /\ delivery' = Tail(delivery)
    <3>1. \A i \in 1 .. Len(delivery') : i+1 \in 1 .. Len(delivery) /\ delivery'[i] = delivery[i+1]
      BY <2>1, <2>3, TailAt
    <3> QED
      BY <1>1, <2>1, <2>3, <3>1, HeadTailType
  <2> QED
    BY <1>6, <2>2, <2>3
<1>7. ASSUME TypeDisp', TypeChunks', TypeEmit', result' = "running" <=> Running',
             delivery' = delivery \/ (delivery # <<>> /\ delivery' = Tail(delivery)),
             epc' \in {"header", "copy", "write"} => epos' < N /\ size[epos'] # -1
      PROVE  TypeInv'
  <2>1. Phases'
    BY <1>1, <1>5, <1>7 DEF Phases
  <2>2. BoundSize'
    BY <1>1, <1>6, <1>7 DEF BoundSize, Bound
  <2> QED
    BY <1>3, <1>4, <1>7, <2>1, <2>2
<1>8. window \in Int /\ Len(delivery) \in Nat /\ epos \in Int
      /\ (Running => window >= Len(delivery) + (IF epc = "open" THEN 0 ELSE 1))
  BY Constants, LenType DEF SlotInv, Slots, TypeDisp, TypeEmit
<1>9. ASSUME Running, epc # "open" \/ delivery # <<>> PROVE window - 1 \in 0 .. Window
  BY <1>8, <1>9, EmptyLen, Constants DEF TypeDisp
<1>10. ASSUME Running, Fails, chunks' = chunks, head' = head, avail' \in Int, canceled' = canceled,
              delivery' = delivery \/ (delivery # <<>> /\ delivery' = Tail(delivery)),
              ehold' \in Chunks \union {NoChunk}
       PROVE  TypeInv'
  <2>1. TypeDisp'
    BY <1>1, <1>6, <1>9, <1>10 DEF TypeDisp, Fails
  <2>2. TypeChunks'
    BY <1>1, <1>10 DEF TypeChunks
  <2>3. TypeEmit' /\ result' = "error" /\ epc' = "cancel"
    BY <1>10 DEF TypeEmit, Fails, EmitFails
  <2> QED
    BY <1>7, <1>10, <2>1, <2>2, <2>3 DEF Running
<1>11. CASE EmitOpen
  <2>1. UNCHANGED <<canceled, chunks, avail, ehold>> /\ epc = "open" /\ epos < N
    BY <1>11 DEF EmitOpen, ctxVars
  <2>2. CASE Fails /\ head' = head /\ (delivery' = delivery \/ (delivery # <<>> /\ delivery' = Tail(delivery)))
    BY <1>10, <2>1, <2>2 DEF Running, TypeChunks, TypeEmit
  <2>3. CASE /\ delivery # <<>> /\ delivery' = Tail(delivery) /\ Head(delivery) = epos /\ head' = epos
             /\ epc' = "header" /\ UNCHANGED <<window, epos, written, padded, reported, result>>
    <3>1. epos \in Seqs
      BY <2>1, <1>8, Constants DEF TypeEmit, Seqs
    <3>2. TypeDisp'
      BY <1>1, <1>6, <2>1, <2>3 DEF TypeDisp
    <3>3. TypeChunks'
      BY <1>1, <2>1, <2>3, <3>1 DEF TypeChunks
    <3>4. TypeEmit' /\ result' = "running" /\ Running'
      BY <2>1, <2>3 DEF TypeEmit, Phases, Running
    <3>5. size[epos] # -1
      BY <2>3, HeadAt DEF TypeDisp, BoundSize
    <3> QED
      BY <1>7, <2>1, <2>3, <3>2, <3>3, <3>4, <3>5
  <2>4. delivery = <<>> \/ delivery # <<>>
    OBVIOUS
  <2> QED
    BY <1>11, <2>1, <2>2, <2>3 DEF EmitOpen, Fails
<1>12. CASE EmitHeader
  <2>1. UNCHANGED <<canceled, delivery, chunks, avail, head, ehold>> /\ epc = "header"
    BY <1>12 DEF EmitHeader, ctxVars
  <2>2. CASE Fails
    BY <1>10, <2>1, <2>2 DEF Running, TypeChunks, TypeEmit
  <2>3. CASE epc' = "copy" /\ UNCHANGED <<window, epos, written, padded, reported, result>>
    <3>1. TypeDisp' /\ TypeChunks' /\ TypeEmit'
      BY <1>1, <2>1, <2>3 DEF TypeDisp, TypeChunks, TypeEmit
    <3> QED
      BY <1>7, <2>1, <2>3, <3>1 DEF Running, Phases, BoundSize
  <2> QED
    BY <1>12, <2>1, <2>2, <2>3 DEF EmitHeader, Fails
<1>13. CASE EmitReceive
  <2>1. /\ UNCHANGED <<canceled, window, delivery, avail, head, epos, written, padded, reported, result>> /\ epc = "copy"
        /\ chunks[epos] # <<>> /\ ehold' = Head(chunks[epos]) /\ chunks' = [chunks EXCEPT ![epos] = Tail(@)] /\ epc' = "write"
    BY <1>13 DEF EmitReceive, ctxVars
  <2>2. epos \in Seqs /\ epos < N
    BY <2>1, Constants DEF Phases, TypeEmit, Seqs
  <2>3. chunks[epos] \in Seq(Chunks)
    BY <2>2 DEF TypeChunks
  <2>4. Head(chunks[epos]) \in Chunks /\ Tail(chunks[epos]) \in Seq(Chunks)
    BY <2>1, <2>3, HeadTailType
  <2>5. TypeDisp' /\ TypeChunks' /\ TypeEmit'
    BY <1>1, <2>1, <2>4 DEF TypeDisp, TypeChunks, TypeEmit
  <2> QED
    BY <1>7, <2>1, <2>2, <2>5 DEF Running, Phases, BoundSize
<1>14. CASE EmitWrite
  <2>1. UNCHANGED <<canceled, delivery, chunks, head>> /\ epc = "write" /\ ehold' = NoChunk /\ avail' = avail + 1
    BY <1>14 DEF EmitWrite, ctxVars, Release
  <2>2. avail' \in Int
    BY <2>1 DEF TypeChunks
  <2>3. CASE Fails
    BY <1>10, <2>1, <2>2, <2>3 DEF Running
  <2>4. CASE /\ written' = written + ehold.n /\ padded' = (IF ehold.pad THEN padded + ehold.n ELSE padded)
             /\ epc' = "copy" /\ UNCHANGED <<window, epos, reported, result>>
    <3>1. ehold.n \in Nat
      BY ChunkFields DEF TypeEmit
    <3>2. written' \in Nat /\ padded' \in Nat
      BY <2>4, <3>1 DEF TypeEmit
    <3>3. TypeDisp' /\ TypeChunks' /\ TypeEmit'
      BY <1>1, <2>1, <2>2, <2>4, <3>2 DEF TypeDisp, TypeChunks, TypeEmit
    <3> QED
      BY <1>7, <2>1, <2>4, <3>3 DEF Running, Phases, BoundSize
  <2> QED
    BY <1>14, <2>1, <2>3, <2>4 DEF EmitWrite, Fails
<1>15. CASE EmitClose
  <2>1. UNCHANGED <<canceled, delivery, chunks, avail, head, ehold>> /\ epc = "copy" /\ window' = window - 1
    BY <1>15 DEF EmitClose, ctxVars
  <2>2. CASE Fails
    BY <1>10, <2>1, <2>2 DEF Running, TypeChunks, TypeEmit
  <2>3. CASE /\ epc' = "open" /\ epos' = epos + 1 /\ written' = 0 /\ padded' = 0 /\ result' = result
             /\ reported' = IF warned[epos] THEN reported \union {epos} ELSE reported
    <3>1. epos \in Seqs /\ epos' \in 0 .. N
      BY <2>1, <2>3, Constants DEF TypeEmit, Phases, Seqs
    <3>2. TypeEmit'
      BY <2>1, <2>3, <3>1 DEF TypeEmit
    <3>3. TypeDisp' /\ TypeChunks'
      BY <1>1, <1>9, <2>1 DEF TypeDisp, TypeChunks, Running
    <3> QED
      BY <1>7, <2>1, <2>3, <3>2, <3>3 DEF Running, Phases
  <2> QED
    BY <1>15, <2>1, <2>2, <2>3 DEF EmitClose, Fails
<1>16. CASE EmitEnd
  <2>1. UNCHANGED <<canceled, window, delivery, chunks, avail, head, ehold>> /\ epc = "open"
    BY <1>16 DEF EmitEnd, ctxVars
  <2>2. CASE Fails
    BY <1>10, <2>1, <2>2 DEF Running, TypeChunks, TypeEmit
  <2>3. CASE epc' = "cancel" /\ result' = "ok" /\ UNCHANGED <<written, padded, epos, reported>>
    <3>1. TypeDisp' /\ TypeChunks' /\ TypeEmit'
      BY <1>1, <2>1, <2>3 DEF TypeDisp, TypeChunks, TypeEmit
    <3> QED
      BY <1>7, <2>1, <2>3, <3>1 DEF Running
  <2> QED
    BY <1>16, <2>1, <2>2, <2>3 DEF EmitEnd, Fails
<1>17. CASE CancelSource \/ ClosePipe
  <2>1. /\ UNCHANGED <<window, delivery, chunks, avail, head, epos, ehold, written, padded, reported, result>>
        /\ canceled' \in {canceled, TRUE} /\ epc \in {"cancel", "wait"} /\ epc' \in {"wait", "closed"}
    BY <1>17 DEF CancelSource, ClosePipe, ctxVars
  <2>2. TypeDisp' /\ TypeChunks' /\ TypeEmit'
    BY <1>1, <2>1 DEF TypeDisp, TypeChunks, TypeEmit
  <2> QED
    BY <1>7, <2>1, <2>2 DEF Running, Phases
<1> QED
  BY <1>11, <1>12, <1>13, <1>14, <1>15, <1>16, <1>17 DEF Emitter

-----------------------------------------------------------------------------
(***************************************************************************)
(* The order of delivery and the slots of the window.                      *)
(***************************************************************************)
LEMMA SlotInit == Init => SlotInv
<1> SUFFICES ASSUME Init PROVE SlotInv
  OBVIOUS
<1>1. Len(delivery) = 0 /\ window = 0 /\ epos = 0 /\ next = 0 /\ epc = "open" /\ dpc = "slot" /\ result = "running"
  BY DEF Init
<1> QED
  BY <1>1 DEF SlotInv, Order, Slots, First, Bound, Running

LEMMA DispatchSlots ==
  ASSUME TypeInv, SlotInv, Dispatch
  PROVE  SlotInv'
<1> USE DEF TypeInv, TypeOK, SlotInv
<1>1. UNCHANGED <<epc, epos, result>>
  BY DispatchFrame
<1>2. /\ next \in Int /\ epos \in Int /\ window \in Int /\ delivery \in Seq(Seqs) /\ Len(delivery) \in Nat
  BY Constants, LenType DEF TypeDisp, TypeEmit
<1>3. First' = First /\ First \in Int /\ Running' = Running
  BY <1>1, <1>2 DEF First, Running
<1>4. CASE Binds
  <2>1. Order'
    BY <1>3, <1>4 DEF Binds, Order
  <2>2. Slots'
    BY <1>1, <1>2, <1>3, <1>4 DEF Binds, Slots, Bound
  <2> QED
    BY <2>1, <2>2
<1>5. CASE Delivers
  <2>1. next \in Seqs
    BY <1>2, <1>5, Constants DEF Delivers, Phases, TypeDisp, Seqs
  <2>2. /\ Len(delivery') = Len(delivery) + 1 /\ delivery'[Len(delivery) + 1] = next
        /\ \A i \in 1 .. Len(delivery) : delivery'[i] = delivery[i]
    BY <1>2, <1>5, <2>1, AppendAt DEF Delivers
  <2>3. Running => First + Len(delivery) = next
    BY <1>5 DEF Delivers, Order
  <2>4. Running => \A i \in 1 .. Len(delivery') : delivery'[i] = First + i - 1
    BY <1>2, <1>3, <2>2, <2>3 DEF Order
  <2>5. Order'
    BY <1>2, <1>3, <1>5, <2>2, <2>3, <2>4 DEF Delivers, Order
  <2>6. Running => window = next + 1 - epos
    BY <1>2, <1>5 DEF Delivers, Slots, Bound
  <2>7. Slots'
    BY <1>1, <1>2, <1>3, <1>5, <2>2, <2>3, <2>6 DEF Delivers, Slots, Bound, First
  <2> QED
    BY <2>5, <2>7
<1>6. CASE HandsOver
  <2>1. Order'
    BY <1>2, <1>3, <1>6 DEF HandsOver, Order
  <2>2. Slots'
    BY <1>1, <1>2, <1>3, <1>6 DEF HandsOver, Slots, Bound
  <2> QED
    BY <2>1, <2>2
<1>7. CASE Leaves
  <2>1. Order'
    BY <1>3, <1>7 DEF Leaves, Order
  <2>2. Slots'
    BY <1>1, <1>2, <1>3, <1>7 DEF Leaves, Slots, Bound
  <2> QED
    BY <2>1, <2>2
<1> QED
  BY <1>4, <1>5, <1>6, <1>7, DispatchCases

LEMMA EmitterSlots ==
  ASSUME TypeInv, SlotInv, Emitter
  PROVE  SlotInv'
<1> USE DEF TypeInv, TypeOK, SlotInv
<1>1. UNCHANGED <<dpc, next>>
  BY EmitterFrame
<1>2. /\ next \in Int /\ epos \in Int /\ window \in Int /\ delivery \in Seq(Seqs) /\ Len(delivery) \in Nat
  BY Constants, LenType DEF TypeDisp, TypeEmit
<1>3. ASSUME Running, Fails PROVE SlotInv'
  <2>1. ~Running' /\ result' = "error" /\ epos' = epos /\ result = "running"
    BY <1>3 DEF Fails, EmitFails, Running, Phases
  <2> QED
    BY <1>1, <1>2, <1>3, <2>1 DEF Order, Slots, Bound, Fails
<1>4. ASSUME UNCHANGED <<window, delivery, epos, result>>, epc \in {"header", "copy", "write"}, epc' \in {"header", "copy", "write"}
      PROVE  SlotInv'
  BY <1>1, <1>4 DEF Order, Slots, Bound, First, Running
<1>5. CASE EmitOpen
  <2>1. epc = "open" /\ Running
    BY <1>5 DEF EmitOpen, Running
  <2>2. CASE Fails
    BY <1>3, <2>1, <2>2
  <2>3. CASE delivery # <<>> /\ delivery' = Tail(delivery) /\ epc' = "header" /\ UNCHANGED <<window, epos, result>>
    <3>1. /\ Len(delivery') = Len(delivery) - 1
          /\ \A i \in 1 .. Len(delivery') : i+1 \in 1 .. Len(delivery) /\ delivery'[i] = delivery[i+1]
      BY <1>2, <2>3, TailAt
    <3>2. First = epos /\ First' = epos + 1 /\ Running'
      BY <2>1, <2>3 DEF First, Running
    <3>3. \A i \in 1 .. Len(delivery') : delivery'[i] = First' + i - 1
      BY <1>2, <2>1, <3>1, <3>2 DEF Order
    <3>4. Order'
      BY <1>1, <1>2, <2>1, <3>1, <3>2, <3>3 DEF Order
    <3>5. Slots'
      BY <1>1, <1>2, <2>1, <2>3, <3>1, <3>2 DEF Slots, Bound
    <3> QED
      BY <3>4, <3>5
  <2> QED
    BY <1>5, <2>1, <2>2, <2>3 DEF EmitOpen, Fails
<1>6. CASE EmitHeader
  <2>1. Fails \/ (epc' = "copy" /\ UNCHANGED <<window, delivery, epos, result>>)
    BY <1>6 DEF EmitHeader, Fails
  <2> QED
    BY <1>3, <1>4, <1>6, <2>1 DEF EmitHeader, Running
<1>7. CASE EmitReceive
  BY <1>4, <1>7 DEF EmitReceive
<1>8. CASE EmitWrite
  <2>1. Fails \/ (epc' = "copy" /\ UNCHANGED <<window, delivery, epos, result>>)
    BY <1>8 DEF EmitWrite, Fails
  <2> QED
    BY <1>3, <1>4, <1>8, <2>1 DEF EmitWrite, Running
<1>9. CASE EmitClose
  <2>1. epc = "copy" /\ Running /\ window' = window - 1 /\ delivery' = delivery
    BY <1>9 DEF EmitClose, Running
  <2>2. CASE Fails
    BY <1>3, <2>1, <2>2
  <2>3. CASE epc' = "open" /\ epos' = epos + 1 /\ result' = result
    <3>1. First' = First /\ Running'
      BY <2>1, <2>3 DEF First, Running
    <3>2. Order'
      BY <1>1, <2>1, <3>1 DEF Order
    <3>3. Slots'
      BY <1>1, <1>2, <2>1, <2>3, <3>1 DEF Slots, Bound
    <3> QED
      BY <3>2, <3>3
  <2> QED
    BY <1>9, <2>1, <2>2, <2>3 DEF EmitClose, Fails
<1>10. CASE EmitEnd
  <2>1. epc = "open" /\ Running /\ UNCHANGED <<window, delivery>>
    BY <1>10 DEF EmitEnd, Running
  <2>2. CASE Fails
    BY <1>3, <2>1, <2>2
  <2>3. CASE epc' = "cancel" /\ result' = "ok" /\ epos' = epos
    BY <1>1, <1>2, <2>1, <2>3 DEF Order, Slots, Bound, Running, Phases
  <2> QED
    BY <1>10, <2>1, <2>2, <2>3 DEF EmitEnd, Fails
<1>11. CASE CancelSource \/ ClosePipe
  <2>1. UNCHANGED <<window, delivery, epos, result>> /\ epc' \in {"wait", "closed"}
    BY <1>11 DEF CancelSource, ClosePipe
  <2> QED
    BY <1>1, <2>1 DEF Order, Slots, Bound, Running
<1> QED
  BY <1>5, <1>6, <1>7, <1>8, <1>9, <1>10, <1>11 DEF Emitter

LEMMA SlotStep == TypeInv /\ SlotInv /\ [Next]_vars => TypeInv' /\ SlotInv'
<1> SUFFICES ASSUME TypeInv, SlotInv, [Next]_vars PROVE TypeInv' /\ SlotInv'
  OBVIOUS
<1>1. CASE Dispatch
  BY <1>1, DispatchType, DispatchSlots
<1>2. ASSUME NEW w \in Workers, Worker(w) PROVE TypeInv' /\ SlotInv'
  <2>1. SlotInv'
    BY <1>2, WorkerFrame DEF SlotInv, Order, Slots, First, Bound, Running
  <2> QED
    BY <1>2, <2>1, WorkerType
<1>3. CASE Emitter
  BY <1>3, EmitterType, EmitterSlots
<1>4. CASE WakeOnCancel \/ UserCancel
  <2>1. UNCHANGED <<dpc, next, window, delivery, work, size, openErr, fd, chunks, closed, err, warned,
                     avail, head, cur, remaining, padding, hold, outcome,
                     epc, epos, ehold, written, padded, reported, result>>
    BY <1>4, CancelFrame
  <2>2. canceled' \in BOOLEAN /\ watching' \in BOOLEAN
    BY <1>4 DEF WakeOnCancel, UserCancel, TypeInv, TypeOK, TypeDisp
  <2>3. wpc' \in [Workers -> WorkerPcs] /\ \A x \in Workers : Woken(x)
    BY <1>4, EmitterWakes DEF TypeInv, TypeOK
  <2>4. TypeOK'
    BY <2>1, <2>2, <2>3 DEF TypeInv, TypeOK, TypeDisp, TypePay, TypeChunks, TypeWork, TypeEmit, WorkerPcs
  <2>5. Phases' /\ Reading'
    BY <2>1, <2>3 DEF TypeInv, Phases, Running, Reading, ReadingOf, Woken
  <2>6. BoundSize' /\ SlotInv'
    BY <2>1 DEF TypeInv, BoundSize, Bound, SlotInv, Order, Slots, First, Running
  <2> QED
    BY <2>4, <2>5, <2>6 DEF TypeInv
<1>5. CASE UNCHANGED vars
  <2>1. UNCHANGED <<canceled, watching, dpc, next, window, delivery, work, size, openErr, fd, chunks, closed, err, warned,
                     avail, head, wpc, cur, remaining, padding, hold, outcome,
                     epc, epos, ehold, written, padded, reported, result>>
    BY <1>5 DEF vars, ctxVars, dispVars, payVars, workVars, emitVars
  <2>2. TypeOK'
    BY <2>1 DEF TypeInv, TypeOK, TypeDisp, TypePay, TypeChunks, TypeWork, TypeEmit
  <2>3. Phases' /\ Reading' /\ BoundSize' /\ SlotInv'
    BY <2>1 DEF TypeInv, Phases, Reading, ReadingOf, BoundSize, Bound, SlotInv, Order, Slots, First, Running
  <2> QED
    BY <2>2, <2>3 DEF TypeInv
<1> QED
  BY <1>1, <1>2, <1>3, <1>4, <1>5 DEF Next

LEMMA SlotInvariant == Spec => [](TypeInv /\ SlotInv)
  BY TypeInit, SlotInit, SlotStep, PTL DEF Spec

\* The variables have their types: no more window slots are taken than there are, and none
\* is given back that was not taken, though dispatcher and emitter count without a lock.
THEOREM TypeCorrect == Spec => []TypeOK
<1>1. TypeInv /\ SlotInv => TypeOK
  BY DEF TypeInv
<1> QED
  BY <1>1, SlotInvariant, PTL

\* The emitter finds the payloads in the delivery queue in plan order, whatever order the
\* workers read them in: "payload order mismatch" is unreachable.
THEOREM DeliveryOrder == Spec => []DeliveredInOrder
<1>1. TypeInv /\ SlotInv => DeliveredInOrder
  <2> SUFFICES ASSUME TypeInv, SlotInv, epc = "open", delivery # <<>> PROVE Head(delivery) = epos
    BY DEF DeliveredInOrder
  <2>1. 1 \in 1 .. Len(delivery) /\ Head(delivery) = delivery[1] /\ epos \in Int
    BY HeadAt, Constants DEF TypeInv, TypeOK, TypeDisp, TypeEmit
  <2>2. delivery[1] = epos + 1 - 1
    BY <2>1 DEF SlotInv, Order, Running, First
  <2> QED
    BY <2>1, <2>2
<1> QED
  BY <1>1, SlotInvariant, PTL

-----------------------------------------------------------------------------
(***************************************************************************)
(* Who owns a payload.  Between its binding and the close of its channel   *)
(* it is in the dispatcher's hand, in the work queue or with one worker.   *)
(***************************************************************************)
InHand(p) == p = next /\ dpc \in {"deliver", "work"}
InWork(p) == \E i \in 1 .. Len(work) : work[i] = p
InRead(p) == \E w \in Workers : cur[w] = p

Fresh ==
  \A p \in Seqs :
    /\ p >= next => ~closed[p] /\ chunks[p] = <<>>
    /\ p > next \/ (p = next /\ dpc = "slot") => ~openErr[p] /\ fd[p] = "none"
    /\ openErr[p] => fd[p] = "none"
WorkOwn ==
  \A i \in 1 .. Len(work) :
    /\ ~closed[work[i]] /\ chunks[work[i]] = <<>> /\ ~InRead(work[i])
    /\ work[i] + Len(work) - i < next
    /\ \A j \in 1 .. Len(work) : work[i] = work[j] => i = j
ReadOwn == \A v, w \in Workers : cur[w] # -1 => ~closed[cur[w]] /\ (cur[v] = cur[w] => v = w)
FdOwned == \A p \in Seqs : fd[p] = "open" => InHand(p) \/ InWork(p) \/ InRead(p)
ExitLast ==
  /\ \A w \in Workers : wpc[w] = "exit" => dpc = "exit" /\ work = <<>>
  /\ epc = "closed" => dpc = "exit" /\ \A w \in Workers : wpc[w] = "exit"
EmittedDone == \A p \in Seqs : p < epos => closed[p] /\ chunks[p] = <<>>

OwnInv == Fresh /\ WorkOwn /\ ReadOwn /\ FdOwned /\ ExitLast /\ EmittedDone

\* A worker's step on the payload it reads.
Steps(w) ==
  /\ work' = work /\ cur[w] \in Seqs /\ wpc'[w] # "exit"
  /\ \A p \in Seqs : p # cur[w] => closed'[p] = closed[p] /\ chunks'[p] = chunks[p] /\ fd'[p] = fd[p]
  /\ \/ cur'[w] = cur[w] /\ closed' = closed /\ fd' = fd
     \/ cur'[w] = -1 /\ fd'[cur[w]] # "open"

LEMMA WorkerSteps ==
  ASSUME TypeInv, NEW w \in Workers, Worker(w), ~WorkerReceive(w)
  PROVE  Steps(w) /\ Others(w)
<1> USE DEF TypeInv, TypeOK
<1>1. ASSUME Returns(w, TRUE) \/ Returns(w, FALSE), cur[w] \in Seqs
      PROVE  /\ cur'[w] = -1 /\ fd'[cur[w]] # "open" /\ wpc'[w] # "exit"
             /\ \A p \in Seqs : p # cur[w] => closed'[p] = closed[p] /\ fd'[p] = fd[p]
  BY <1>1 DEF Returns, TypePay, TypeChunks
<1>2. CASE Acquire(w)
  BY <1>1, <1>2, AcquireEffect DEF Steps, Continues
<1>3. CASE Sleep(w)
  BY <1>3, SleepEffect, BusyType DEF Steps
<1>4. CASE Read(w)
  BY <1>4, ReadEffect, BusyType DEF Steps
<1>5. CASE Send(w)
  <2>1. /\ work' = work /\ cur[w] \in Seqs /\ Others(w)
        /\ chunks' = chunks \/ chunks' = [chunks EXCEPT ![cur[w]] = Append(@, hold[w])]
        /\ Returns(w, TRUE) \/ GoesOn(w, remaining[w] - hold[w].n)
    BY <1>5, SendEffect
  <2>2. \A p \in Seqs : p # cur[w] => chunks'[p] = chunks[p]
    BY <2>1 DEF TypeChunks
  <2> QED
    BY <1>1, <2>1, <2>2 DEF Steps, GoesOn, Continues
<1>6. CASE FinalCheck(w)
  BY <1>1, <1>6, FinalCheckEffect DEF Steps
<1> QED
  BY <1>2, <1>3, <1>4, <1>5, <1>6 DEF Worker

LEMMA OwnInit == Init => OwnInv
<1> SUFFICES ASSUME Init PROVE OwnInv
  OBVIOUS
<1>1. Fresh /\ ReadOwn /\ FdOwned /\ ExitLast
  BY DEF Init, Fresh, ReadOwn, FdOwned, ExitLast
<1>2. Len(work) = 0 /\ epos = 0
  BY DEF Init
<1>3. WorkOwn /\ EmittedDone
  BY <1>2, Constants DEF WorkOwn, EmittedDone, Seqs
<1> QED
  BY <1>1, <1>3 DEF OwnInv

LEMMA WorkerOwn ==
  ASSUME TypeInv, OwnInv, NEW w \in Workers, Worker(w)
  PROVE  OwnInv'
<1> USE DEF TypeInv, TypeOK, OwnInv
<1>1. UNCHANGED <<dpc, next, openErr, epc, epos>>
  BY WorkerFrame
<1>2. next \in Int /\ epos \in Int /\ work \in Seq(Seqs) /\ (\A q \in Seqs : q \in Int) /\ -1 \notin Seqs
  BY Constants DEF TypeDisp, TypeEmit, Seqs
<1>3. \A x \in Workers : cur[x] \in Seqs \union {-1}
  BY DEF TypeWork
<1>4. CASE WorkerReceive(w)
  <2>1. Others(w) /\ UNCHANGED <<fd, chunks, closed>>
    BY <1>4, ReceiveEffect
  <2>2. Fresh' /\ EmittedDone'
    BY <1>1, <2>1 DEF Fresh, EmittedDone
  <2>3. wpc[w] = "idle" /\ epc # "closed"
    BY <1>4 DEF WorkerReceive, ExitLast
  <2>4. CASE work # <<>> /\ work' = Tail(work) /\ cur[w] = -1 /\ cur'[w] = Head(work) /\ wpc'[w] # "exit"
    <3>1. 1 \in 1 .. Len(work) /\ Head(work) = work[1] /\ work[1] \in Seqs
      BY <1>2, <2>4, HeadAt, ElementType
    <3>2. /\ Len(work') = Len(work) - 1 /\ Len(work) \in Nat
          /\ \A i \in 1 .. Len(work') : i+1 \in 1 .. Len(work) /\ work'[i] = work[i+1] /\ work[i+1] \in Seqs
      BY <1>2, <2>4, TailAt, LenType, ElementType
    <3>3. WorkOwn'
      <4> SUFFICES ASSUME NEW i \in 1 .. Len(work')
                   PROVE  /\ ~closed'[work'[i]] /\ chunks'[work'[i]] = <<>>
                          /\ \A x \in Workers : cur'[x] # work'[i]
                          /\ work'[i] + Len(work') - i < next'
                          /\ \A j \in 1 .. Len(work') : work'[i] = work'[j] => i = j
        BY DEF WorkOwn, InRead
      <4>1. i+1 \in 1 .. Len(work) /\ work'[i] = work[i+1] /\ work[i+1] \in Seqs
        BY <3>2
      <4>2. /\ ~closed[work[i+1]] /\ chunks[work[i+1]] = <<>> /\ ~InRead(work[i+1])
            /\ work[i+1] + Len(work) - (i+1) < next
            /\ \A j \in 1 .. Len(work) : work[i+1] = work[j] => i+1 = j
        BY <4>1 DEF WorkOwn
      <4>3. work[i+1] # work[1]
        BY <3>1, <4>1, <4>2
      <4>4. \A x \in Workers : cur'[x] # work'[i]
        BY <2>1, <2>4, <3>1, <4>1, <4>2, <4>3 DEF InRead, Others, Same
      <4>5. work'[i] + Len(work') - i < next'
        BY <1>1, <1>2, <3>2, <4>1, <4>2
      <4>6. ASSUME NEW j \in 1 .. Len(work'), work'[i] = work'[j] PROVE i = j
        <5>1. j+1 \in 1 .. Len(work) /\ work'[j] = work[j+1] /\ i \in Int /\ j \in Int
          BY <3>2
        <5>2. i+1 = j+1
          BY <4>1, <4>2, <4>6, <5>1
        <5> QED
          BY <5>1, <5>2
      <4> QED
        BY <2>1, <4>1, <4>2, <4>4, <4>5, <4>6
    <3>4. ReadOwn'
      <4>1. ~closed[work[1]] /\ \A x \in Workers : cur[x] # work[1]
        BY <3>1 DEF WorkOwn, InRead
      <4> QED
        BY <2>1, <2>4, <3>1, <4>1 DEF ReadOwn, Others, Same
    <3>5. FdOwned'
      <4> SUFFICES ASSUME NEW p \in Seqs, fd[p] = "open" PROVE InHand(p)' \/ InWork(p)' \/ InRead(p)'
        BY <2>1 DEF FdOwned
      <4>1. CASE InHand(p)
        BY <1>1, <4>1 DEF InHand
      <4>2. CASE InRead(p)
        BY <1>2, <2>1, <2>4, <4>2 DEF InRead, Others, Same
      <4>3. CASE InWork(p)
        <5>1. PICK i \in 1 .. Len(work) : work[i] = p
          BY <4>3 DEF InWork
        <5>2. CASE i = 1
          BY <2>4, <3>1, <5>1, <5>2 DEF InRead
        <5>3. CASE i # 1
          <6>1. i-1 \in 1 .. Len(work') /\ work'[i-1] = work[(i-1)+1]
            BY <3>2, <5>3
          <6> QED
            BY <5>1, <6>1 DEF InWork
        <5> QED
          BY <5>2, <5>3
      <4> QED
        BY <4>1, <4>2, <4>3 DEF FdOwned
    <3>6. ExitLast'
      BY <1>1, <2>1, <2>3, <2>4 DEF ExitLast, Others, Same, Woken
    <3> QED
      BY <2>2, <3>3, <3>4, <3>5, <3>6
  <2>5. CASE work = <<>> /\ dpc = "exit" /\ UNCHANGED <<work, cur>>
    <3>1. WorkOwn' /\ ReadOwn' /\ FdOwned'
      BY <1>1, <2>1, <2>5 DEF WorkOwn, ReadOwn, FdOwned, InHand, InWork, InRead
    <3>2. ExitLast'
      BY <1>1, <2>3, <2>5 DEF ExitLast
    <3> QED
      BY <2>2, <3>1, <3>2
  <2>6. work # <<>> => wpc'[w] # "exit"
    BY <1>4, ReceiveEffect
  <2> QED
    BY <1>4, <2>4, <2>5, <2>6, ReceiveEffect
<1>5. CASE ~WorkerReceive(w)
  <2>1. Steps(w) /\ Others(w)
    BY <1>5, WorkerSteps
  <2>2. work' = work /\ cur[w] \in Seqs /\ cur[w] # -1 /\ cur[w] < next /\ ~closed[cur[w]] /\ wpc'[w] # "exit"
    BY <1>2, <2>1 DEF Steps, Reading, ReadingOf, ReadOwn
  <2>3. \A p \in Seqs : p # cur[w] => closed'[p] = closed[p] /\ chunks'[p] = chunks[p] /\ fd'[p] = fd[p]
    BY <2>1 DEF Steps
  <2>4. Fresh'
    <3>1. \A p \in Seqs : p >= next => p # cur[w]
      BY <1>2, <2>2
    <3>2. openErr[cur[w]] => fd'[cur[w]] = "none"
      <4>1. TypePay'
        BY WorkerType
      <4>2. fd'[cur[w]] = fd[cur[w]] \/ (fd'[cur[w]] = "closed" /\ fd[cur[w]] = "open")
        BY <1>5, <2>1, <2>2, AcquireEffect, SleepEffect, ReadEffect, SendEffect, FinalCheckEffect
           DEF Worker, Returns, Continues, GoesOn, TypePay
      <4> QED
        BY <2>2, <4>2 DEF Fresh
    <3>3. ASSUME NEW p \in Seqs, p # cur[w]
          PROVE  /\ p >= next' => ~closed'[p] /\ chunks'[p] = <<>>
                 /\ p > next' \/ (p = next' /\ dpc' = "slot") => ~openErr'[p] /\ fd'[p] = "none"
                 /\ openErr'[p] => fd'[p] = "none"
      BY <1>1, <2>3, <3>3 DEF Fresh
    <3>4. /\ ~(cur[w] >= next') /\ ~(cur[w] > next') /\ cur[w] # next'
          /\ openErr'[cur[w]] => fd'[cur[w]] = "none"
      BY <1>1, <1>2, <2>2, <3>2
    <3> QED
      BY <3>3, <3>4 DEF Fresh
  <2>5. \A x \in Workers : cur'[x] = cur[x] \/ (x = w /\ cur'[x] = -1)
    BY <2>1 DEF Steps, Others, Same
  <2>6. WorkOwn'
    <3>1. \A i \in 1 .. Len(work) : work[i] \in Seqs /\ work[i] # cur[w]
      BY <1>2, ElementType DEF WorkOwn, InRead
    <3>2. \A p \in Seqs : InRead(p)' => InRead(p)
      BY <1>2, <2>5 DEF InRead
    <3> QED
      BY <1>1, <2>2, <2>3, <3>1, <3>2 DEF WorkOwn
  <2>7. ReadOwn'
    <3>1. CASE cur'[w] = cur[w] /\ closed' = closed
      BY <2>5, <3>1 DEF ReadOwn
    <3>2. CASE cur'[w] = -1
      <4>1. \A x \in Workers : x # w /\ cur[x] # -1 => cur[x] \in Seqs /\ cur[x] # cur[w]
        BY <1>3, <2>2 DEF ReadOwn
      <4> QED
        BY <2>3, <2>5, <3>2, <4>1 DEF ReadOwn
    <3> QED
      BY <2>1, <3>1, <3>2 DEF Steps
  <2>8. FdOwned'
    <3> SUFFICES ASSUME NEW p \in Seqs, fd'[p] = "open" PROVE InHand(p)' \/ InWork(p)' \/ InRead(p)'
      BY DEF FdOwned
    <3>1. CASE p = cur[w]
      <4>1. cur'[w] = p
        BY <2>1, <3>1 DEF Steps
      <4> QED
        BY <4>1 DEF InRead
    <3>2. CASE p # cur[w]
      <4>1. fd[p] = "open"
        BY <2>3, <3>2
      <4>2. InHand(p) => InHand(p)'
        BY <1>1 DEF InHand
      <4>3. InWork(p) => InWork(p)'
        BY <2>2 DEF InWork
      <4>4. InRead(p) => InRead(p)'
        BY <2>5, <3>2 DEF InRead
      <4> QED
        BY <4>1, <4>2, <4>3, <4>4 DEF FdOwned
    <3> QED
      BY <3>1, <3>2
  <2>9. ExitLast'
    <3>1. wpc[w] # "exit"
      BY <2>2 DEF Phases
    <3> QED
      BY <1>1, <2>1, <2>2, <3>1 DEF ExitLast, Others, Same, Woken
  <2>10. EmittedDone'
    <3>1. \A p \in Seqs : p < epos => p # cur[w]
      BY <2>2 DEF EmittedDone
    <3> QED
      BY <1>1, <2>3, <3>1 DEF EmittedDone
  <2> QED
    BY <2>4, <2>6, <2>7, <2>8, <2>9, <2>10
<1> QED
  BY <1>4, <1>5

LEMMA DispatchOwn ==
  ASSUME TypeInv, OwnInv, Dispatch
  PROVE  OwnInv'
<1> USE DEF TypeInv, TypeOK, OwnInv
<1>1. UNCHANGED <<chunks, wpc, cur, epc, epos>>
  BY DispatchFrame
<1>2. next \in Int /\ epos \in Int /\ work \in Seq(Seqs) /\ Len(work) \in Nat /\ (\A q \in Seqs : q \in Int) /\ -1 \notin Seqs
  BY Constants, LenType DEF TypeDisp, TypeEmit, Seqs
<1>3. \A x \in Workers : cur[x] # -1 => cur[x] \in Seqs /\ cur[x] < next
  BY DEF TypeWork, Reading, ReadingOf
<1>4. \A i \in 1 .. Len(work) : work[i] \in Seqs /\ work[i] < next
  BY <1>2, ElementType DEF BoundSize
<1>5. \A x \in Workers : dpc # "exit" => wpc[x] # "exit"
  BY DEF ExitLast
<1>6. dpc # "exit" => epc # "closed"
  BY DEF ExitLast
<1>7. CASE Binds
  <2>1. next \in Seqs /\ dpc = "slot" /\ dpc' = "deliver" /\ UNCHANGED <<next, work, closed>>
    BY <1>2, <1>7, Constants DEF Binds, TypeDisp, Seqs
  <2>2. \A p \in Seqs : p # next => openErr'[p] = openErr[p] /\ fd'[p] = fd[p]
    BY <1>7 DEF Binds, TypePay
  <2>3. openErr'[next] => fd'[next] = "none"
    <3>1. ~openErr[next]
      BY <2>1 DEF Fresh
    <3>4. fd[next] = "none"
      BY <2>1 DEF Fresh
    <3> QED
      BY <1>7, <2>1, <3>1, <3>4 DEF Binds, TypePay
  <2>4. Fresh'
    BY <1>1, <1>2, <2>1, <2>2, <2>3 DEF Fresh
  <2>5. WorkOwn' /\ ReadOwn' /\ EmittedDone'
    BY <1>1, <2>1 DEF WorkOwn, ReadOwn, EmittedDone, InRead
  <2>6. FdOwned'
    BY <1>1, <2>1, <2>2 DEF FdOwned, InHand, InWork, InRead
  <2>7. ExitLast'
    BY <1>1, <1>5, <1>6, <2>1 DEF ExitLast
  <2> QED
    BY <2>4, <2>5, <2>6, <2>7
<1>8. CASE Delivers
  <2>1. next \in Seqs /\ dpc = "deliver" /\ UNCHANGED <<work, openErr, fd>>
    BY <1>2, <1>8, Constants DEF Delivers, Phases, TypeDisp, Seqs
  <2>2. \A p \in Seqs : p # next => closed'[p] = closed[p]
    BY <1>8 DEF Delivers, TypeChunks
  <2>3. \A p \in Seqs : closed[p] => closed'[p]
    BY <1>8 DEF Delivers, TypeChunks
  <2>4. \/ openErr[next] /\ dpc' = "slot" /\ next' = next + 1
        \/ dpc' = "work" /\ next' = next /\ closed' = closed
    BY <1>8 DEF Delivers
  <2>5. Fresh'
    <3> SUFFICES ASSUME NEW p \in Seqs
                 PROVE  /\ p >= next' => ~closed'[p] /\ chunks'[p] = <<>>
                        /\ p > next' \/ (p = next' /\ dpc' = "slot") => ~openErr'[p] /\ fd'[p] = "none"
                        /\ openErr'[p] => fd'[p] = "none"
      BY DEF Fresh
    <3>1. CASE next' = next + 1
      BY <1>1, <1>2, <2>1, <2>2, <3>1 DEF Fresh
    <3>2. CASE dpc' = "work" /\ next' = next /\ closed' = closed
      BY <1>1, <2>1, <3>2 DEF Fresh
    <3> QED
      BY <2>4, <3>1, <3>2
  <2>6. WorkOwn'
    <3>1. \A i \in 1 .. Len(work) : work[i] + Len(work) - i < next'
      BY <1>2, <1>4, <2>4 DEF WorkOwn
    <3>2. \A i \in 1 .. Len(work) : ~closed'[work[i]]
      <4>1. \A i \in 1 .. Len(work) : work[i] \in Seqs /\ work[i] # next
        BY <1>2, <1>4
      <4> QED
        BY <2>2, <4>1 DEF WorkOwn
    <3> QED
      BY <1>1, <2>1, <3>1, <3>2 DEF WorkOwn, InRead
  <2>7. ReadOwn'
    BY <1>1, <1>2, <1>3, <2>2 DEF ReadOwn
  <2>8. EmittedDone'
    BY <1>1, <2>3 DEF EmittedDone
  <2>9. FdOwned'
    <3>1. CASE openErr[next]
      <4>1. fd[next] # "open"
        BY <2>1, <3>1 DEF Fresh
      <4> QED
        BY <1>1, <2>1, <4>1 DEF FdOwned, InHand, InWork, InRead
    <3>2. CASE dpc' = "work" /\ next' = next
      BY <1>1, <2>1, <3>2 DEF FdOwned, InHand, InWork, InRead
    <3> QED
      BY <2>4, <3>1, <3>2
  <2>10. ExitLast'
    BY <1>1, <1>5, <1>6, <2>1 DEF ExitLast
  <2> QED
    BY <2>5, <2>6, <2>7, <2>8, <2>9, <2>10
<1>9. CASE HandsOver
  <2>1. next \in Seqs /\ dpc = "work" /\ dpc' = "slot" /\ next' = next + 1 /\ work' = Append(work, next)
        /\ UNCHANGED <<openErr, fd, closed>>
    BY <1>2, <1>9, Constants DEF HandsOver, Phases, TypeDisp, Seqs
  <2>2. Fresh'
    BY <1>1, <1>2, <2>1 DEF Fresh
  <2>3. /\ Len(work') = Len(work) + 1 /\ work'[Len(work) + 1] = next
        /\ \A i \in 1 .. Len(work) : work'[i] = work[i]
    BY <1>2, <2>1, AppendAt
  <2>4. WorkOwn'
    <3> SUFFICES ASSUME NEW i \in 1 .. Len(work')
                 PROVE  /\ ~closed'[work'[i]] /\ chunks'[work'[i]] = <<>>
                        /\ \A x \in Workers : cur'[x] # work'[i]
                        /\ work'[i] + Len(work') - i < next'
                        /\ \A j \in 1 .. Len(work') : work'[i] = work'[j] => i = j
      BY DEF WorkOwn, InRead
    <3>1. \A j \in 1 .. Len(work') : j \in 1 .. Len(work) \/ j = Len(work) + 1
      BY <1>2, <2>3
    <3>2. CASE i = Len(work) + 1
      <4>1. ~closed[next] /\ chunks[next] = <<>> /\ \A x \in Workers : cur[x] # next
        BY <1>2, <1>3, <2>1 DEF Fresh
      <4>2. \A j \in 1 .. Len(work') : work'[j] = next => j = i
        BY <1>2, <1>4, <2>3, <3>1, <3>2
      <4> QED
        BY <1>1, <1>2, <2>1, <2>3, <3>2, <4>1, <4>2
    <3>3. CASE i \in 1 .. Len(work)
      <4>1. /\ ~closed[work[i]] /\ chunks[work[i]] = <<>> /\ (\A x \in Workers : cur[x] # work[i])
            /\ work[i] + Len(work) - i < next
            /\ \A j \in 1 .. Len(work) : work[i] = work[j] => i = j
        BY <3>3 DEF WorkOwn, InRead
      <4>2. \A j \in 1 .. Len(work') : work[i] = work'[j] => i = j
        <5> SUFFICES ASSUME NEW j \in 1 .. Len(work'), work[i] = work'[j] PROVE i = j
          OBVIOUS
        <5>1. CASE j \in 1 .. Len(work)
          <6>1. work'[j] = work[j]
            BY <2>3, <5>1
          <6> QED
            BY <4>1, <5>1, <6>1
        <5>2. CASE j = Len(work) + 1
          <6>1. work'[j] = next
            BY <2>3, <5>2
          <6>2. work[i] \in Int /\ work[i] < next
            BY <1>2, <1>4, <3>3, <4>1
          <6> QED
            BY <1>2, <6>1, <6>2
        <5> QED
          BY <3>1, <5>1, <5>2
      <4>3. work[i] + (Len(work) + 1) - i < next + 1
        <5>1. work[i] \in Int /\ Len(work) \in Int /\ i \in Int /\ next \in Int
          BY <1>2, <1>4, <3>3
        <5> QED
          BY <4>1, <5>1
      <4> QED
        BY <1>1, <2>1, <2>3, <3>3, <4>1, <4>2, <4>3
    <3> QED
      BY <3>1, <3>2, <3>3
  <2>5. ReadOwn' /\ EmittedDone'
    BY <1>1, <2>1 DEF ReadOwn, EmittedDone
  <2>6. FdOwned'
    <3>2. \A p \in Seqs : InWork(p) => InWork(p)'
      BY <1>2, <2>3 DEF InWork
    <3>3. \A p \in Seqs : fd[p] = "open" => p = next \/ InWork(p) \/ InRead(p)
      BY DEF FdOwned, InHand
    <3>4. \A p \in Seqs : InRead(p) => InRead(p)'
      BY <1>1 DEF InRead
    <3>5. \A p \in Seqs : p = next => InWork(p)'
      BY <1>2, <2>1, <2>3 DEF InWork
    <3> QED
      BY <2>1, <3>2, <3>3, <3>4, <3>5 DEF FdOwned
  <2>7. ExitLast'
    BY <1>1, <1>5, <1>6, <2>1 DEF ExitLast
  <2> QED
    BY <2>2, <2>4, <2>5, <2>6, <2>7
<1>10. CASE Leaves
  <2>1. dpc' = "exit" /\ dpc # "exit" /\ UNCHANGED <<next, work, openErr, closed>>
    BY <1>10 DEF Leaves
  <2>2. \A p \in Seqs : fd'[p] = fd[p] \/ (fd[p] = "open" /\ fd'[p] = "closed")
    BY <1>10 DEF Leaves, TypePay
  <2>3. \A p \in Seqs : fd'[p] = "open" => ~InHand(p)
    BY <1>10 DEF Leaves, TypePay, InHand
  <2>4. Fresh'
    BY <1>1, <2>1, <2>2 DEF Fresh
  <2>5. WorkOwn' /\ ReadOwn' /\ EmittedDone'
    BY <1>1, <2>1 DEF WorkOwn, ReadOwn, EmittedDone, InRead
  <2>6. FdOwned'
    BY <1>1, <2>1, <2>2, <2>3 DEF FdOwned, InWork, InRead
  <2>7. ExitLast'
    BY <1>1, <1>5, <1>6, <2>1 DEF ExitLast
  <2> QED
    BY <2>4, <2>5, <2>6, <2>7
<1> QED
  BY <1>7, <1>8, <1>9, <1>10, DispatchCases

LEMMA EmitterOwn ==
  ASSUME TypeInv, OwnInv, Emitter
  PROVE  OwnInv'
<1> USE DEF TypeInv, TypeOK, OwnInv
<1>1. UNCHANGED <<dpc, next, work, openErr, fd, closed, cur>>
  BY EmitterFrame
<1>2. \A x \in Workers : Woken(x)
  BY EmitterWakes
<1>3. epos \in Int /\ next \in Int /\ (\A q \in Seqs : q \in Int)
  BY Constants DEF TypeEmit, TypeDisp, Seqs
<1>4. \A p \in Seqs : chunks'[p] = chunks[p] \/ (p = epos /\ chunks[p] # <<>>)
  BY DEF Emitter, EmitOpen, EmitHeader, EmitReceive, EmitWrite, EmitClose, EmitEnd, CancelSource, ClosePipe, TypeChunks
<1>5. epos' = epos \/ (epos' = epos + 1 /\ chunks[epos] = <<>> /\ closed[epos] /\ chunks' = chunks)
  BY DEF Emitter, EmitOpen, EmitHeader, EmitReceive, EmitWrite, EmitClose, EmitEnd, CancelSource, ClosePipe, EmitFails
<1>6. epc' = "closed" => dpc = "exit" /\ wpc' = wpc /\ \A w \in Workers : wpc[w] = "exit"
  BY DEF Emitter, EmitOpen, EmitHeader, EmitReceive, EmitWrite, EmitClose, EmitEnd, CancelSource, ClosePipe, EmitFails
<1>7. \A p \in Seqs : chunks[p] = <<>> => chunks'[p] = <<>>
  BY <1>4
<1>8. Fresh'
  BY <1>1, <1>7 DEF Fresh
<1>9. WorkOwn'
  <2>1. \A i \in 1 .. Len(work) : work[i] \in Seqs
    BY ElementType DEF TypeDisp
  <2> QED
    BY <1>1, <1>7, <2>1 DEF WorkOwn, InRead
<1>10. ReadOwn' /\ FdOwned'
  BY <1>1 DEF ReadOwn, FdOwned, InHand, InWork, InRead
<1>11. ExitLast'
  BY <1>1, <1>2, <1>6 DEF ExitLast, Woken
<1>12. EmittedDone'
  BY <1>1, <1>3, <1>5, <1>7 DEF EmittedDone
<1> QED
  BY <1>8, <1>9, <1>10, <1>11, <1>12

LEMMA OwnStep == TypeInv /\ OwnInv /\ [Next]_vars => OwnInv'
<1> SUFFICES ASSUME TypeInv, OwnInv, [Next]_vars PROVE OwnInv'
  OBVIOUS
<1>1. ASSUME UNCHANGED <<dpc, next, work, openErr, fd, chunks, closed, cur, epc, epos>>, \A x \in Workers : Woken(x)
      PROVE  OwnInv'
  <2>1. ExitLast'
    BY <1>1 DEF OwnInv, ExitLast, Woken
  <2> QED
    BY <1>1, <2>1 DEF OwnInv, Fresh, WorkOwn, ReadOwn, FdOwned, EmittedDone, InHand, InWork, InRead
<1>2. CASE WakeOnCancel \/ UserCancel
  BY <1>1, <1>2, CancelFrame, EmitterWakes DEF TypeInv, TypeOK
<1>3. CASE UNCHANGED vars
  BY <1>1, <1>3 DEF vars, dispVars, payVars, workVars, emitVars, Woken
<1> QED
  BY <1>2, <1>3, DispatchOwn, WorkerOwn, EmitterOwn DEF Next

LEMMA OwnInvariant == Spec => [](TypeInv /\ SlotInv /\ OwnInv)
  BY TypeInit, SlotInit, SlotStep, OwnInit, OwnStep, PTL DEF Spec

LEMMA OpenRange ==
  ASSUME TypeInv, OwnInv, NEW p \in Seqs, fd[p] = "open"
  PROVE  epos <= p /\ p < Bound /\ ~closed[p]
<1> USE DEF TypeInv, TypeOK, OwnInv
<1>1. next \in Int /\ epos \in Int /\ p \in Int /\ (\A q \in Seqs : q \in Int)
  BY Constants DEF TypeDisp, TypeEmit, Seqs
<1>2. ~closed[p] /\ (p < next \/ InHand(p))
  <2>1. CASE InHand(p)
    BY <1>1, <2>1 DEF InHand, Fresh
  <2>2. CASE InWork(p)
    BY <2>2 DEF InWork, WorkOwn, BoundSize
  <2>3. CASE InRead(p)
    BY <1>1, <2>3, Constants DEF InRead, ReadOwn, Reading, ReadingOf, Seqs
  <2> QED
    BY <2>1, <2>2, <2>3 DEF FdOwned
<1>3. epos <= p
  BY <1>1, <1>2 DEF EmittedDone
<1>4. p < Bound
  BY <1>1, <1>2 DEF Bound, InHand
<1> QED
  BY <1>2, <1>3, <1>4

\* The window bounds the open descriptors, one more being possible only between the
\* emitter's failure and its cancellation; and while the emitter runs, neither queue is
\* ever full when the dispatcher comes to it.
THEOREM WindowBounds == Spec => []WindowHolds
<1>1. TypeInv /\ SlotInv /\ OwnInv => WindowHolds
  <2> SUFFICES ASSUME TypeInv, SlotInv, OwnInv PROVE WindowHolds
    OBVIOUS
  <2> USE DEF TypeInv, TypeOK, SlotInv, OwnInv
  <2>1. next \in Int /\ epos \in Int /\ Bound \in Int /\ window \in Int /\ window <= Window /\ Window \in Nat
        /\ Len(delivery) \in Nat /\ Len(work) \in Nat /\ (\A q \in Seqs : q \in Int)
    BY Constants, LenType DEF TypeDisp, TypeEmit, Bound, Seqs
  <2>2. OpenFds <= Window + (IF result = "error" THEN 1 ELSE 0)
    <3> DEFINE O == {p \in Seqs : fd[p] = "open"}
               R == epos .. (Bound - 1)
    <3>1. \A p \in Seqs : fd[p] = "open" => p \in R
      BY <2>1, OpenRange
    <3>7. O \in SUBSET R
      BY <3>1
    <3>2. IsFiniteSet(R) /\ Cardinality(R) = IF epos > Bound - 1 THEN 0 ELSE (Bound - 1) - epos + 1
      <4>1. Bound - 1 \in Int
        BY <2>1
      <4> QED
        BY <2>1, <4>1, FS_Interval
    <3>3. Cardinality(R) <= Window + (IF result = "error" THEN 1 ELSE 0)
      <4>1. window + (IF result = "error" THEN 1 ELSE 0) >= Bound - epos
        BY DEF Slots
      <4> QED
        BY <2>1, <3>2, <4>1
    <3>4. IsFiniteSet(O) /\ Cardinality(O) <= Cardinality(R)
      BY <3>2, <3>7, FS_Subset
    <3>5. Cardinality(O) \in Nat /\ Cardinality(R) \in Nat
      BY <3>2, <3>4, FS_CardinalityType
    <3> HIDE DEF R, O
    <3>6. Cardinality(O) <= Window + (IF result = "error" THEN 1 ELSE 0)
      BY <2>1, <3>3, <3>4, <3>5
    <3> QED
      BY <3>6 DEF OpenFds, O
  <2>3. ASSUME result = "running", dpc = "deliver" PROVE Len(delivery) < Window
    <3>1. Running /\ window = next + 1 - epos /\ First + Len(delivery) = next
      <4>1. Running /\ Bound = next + 1
        BY <2>3 DEF Phases, Bound
      <4>2. window = Bound - epos
        BY <2>3, <4>1 DEF Slots
      <4>3. First + Len(delivery) = next
        BY <2>3, <4>1 DEF Order
      <4> QED
        BY <2>1, <4>1, <4>2, <4>3
    <3> QED
      BY <2>1, <3>1 DEF First
  <2>4. ASSUME result = "running", dpc = "work" PROVE Len(work) < Window
    <3>1. Running /\ window = next + 1 - epos /\ First + Len(delivery) = next + 1
      <4>1. Running /\ Bound = next + 1
        BY <2>4 DEF Phases, Bound
      <4>2. window = Bound - epos
        BY <2>4, <4>1 DEF Slots
      <4>3. First + Len(delivery) = next + 1
        BY <2>4, <4>1 DEF Order
      <4> QED
        BY <2>1, <4>1, <4>2, <4>3
    <3>2. CASE Len(work) = 0
      BY <2>1, <3>2, Constants
    <3>3. CASE Len(work) > 0
      <4>1. 1 \in 1 .. Len(work)
        BY <2>1, <3>3
      <4>2. work[1] \in Seqs
        BY <4>1, ElementType DEF TypeDisp
      <4>3. ~closed[work[1]] /\ work[1] + Len(work) - 1 < next
        BY <4>1 DEF WorkOwn
      <4>4. epos <= work[1]
        BY <2>1, <4>2, <4>3 DEF EmittedDone
      <4> QED
        BY <2>1, <3>1, <4>2, <4>3, <4>4
    <3> QED
      BY <2>1, <3>2, <3>3
  <2> QED
    BY <2>2, <2>3, <2>4 DEF WindowHolds
<1> QED
  BY <1>1, OwnInvariant, PTL

\* Once the pipe is closed no descriptor is open, whichever of dispatcher, workers and
\* emitter failed or was canceled, and wherever.
THEOREM DescriptorsClosed == Spec => []NoFdLeak
<1>1. TypeInv /\ SlotInv /\ OwnInv => NoFdLeak
  <2> SUFFICES ASSUME TypeInv, OwnInv, epc = "closed" PROVE OpenFds = 0
    BY DEF NoFdLeak
  <2> USE DEF TypeInv, TypeOK, OwnInv
  <2>1. dpc = "exit" /\ \A w \in Workers : wpc[w] = "exit" /\ cur[w] = -1
    BY DEF ExitLast, Phases
  <2>2. PICK w \in Workers : TRUE
    BY AsyncConstants
  <2>3. Len(work) = 0
    BY <2>1, <2>2 DEF ExitLast
  <2>4. \A p \in Seqs : fd[p] # "open"
    BY <2>1, <2>3, Constants DEF FdOwned, InHand, InWork, InRead, Seqs
  <2>5. {p \in Seqs : fd[p] = "open"} = {}
    BY <2>4
  <2> QED
    BY <2>5, FS_EmptySet DEF OpenFds
<1> QED
  BY <1>1, OwnInvariant, PTL

-----------------------------------------------------------------------------
(* The budget, and the payload stream *)

\* Once the emitter has opened a payload, that is the head of line.
HeadOfLine == Running => head = IF epc = "open" THEN epos - 1 ELSE epos
FiniteBuffers == IsFiniteSet(Buffered(Seqs))

BudgetInv == HeadOfLine /\ FiniteBuffers /\ BudgetKept

-----------------------------------------------------------------------------
\* The sets HeldByAll counts, as one step changes them.
LEMMA HoldersCount ==
  ASSUME NEW w \in Workers, Others(w), NEW S
  PROVE  /\ IsFiniteSet(Holders(S)) /\ IsFiniteSet(Holders(S)')
         /\ Cardinality(Holders(S)) \in Nat /\ Cardinality(Holders(S)') \in Nat
         /\ w \in Holders(S) /\ w \in Holders(S)' => Holders(S)' = Holders(S)
         /\ w \notin Holders(S) /\ w \notin Holders(S)' => Holders(S)' = Holders(S)
         /\ w \in Holders(S) /\ w \notin Holders(S)' => Cardinality(Holders(S)') = Cardinality(Holders(S)) - 1
         /\ w \notin Holders(S) /\ w \in Holders(S)' => Cardinality(Holders(S)') = Cardinality(Holders(S)) + 1
<1>1. IsFiniteSet(Holders(S)) /\ IsFiniteSet(Holders(S)')
  <2>1. Holders(S) \in SUBSET Workers /\ Holders(S)' \in SUBSET Workers /\ IsFiniteSet(Workers)
    BY AsyncConstants DEF Holders
  <2> QED
    BY <2>1, FS_Subset
<1>2. \A x \in Workers : x # w => (x \in Holders(S)' <=> x \in Holders(S))
  BY DEF Holders, Others, Same, Woken
<1>3. \A x : x \in Holders(S) \/ x \in Holders(S)' => x \in Workers
  BY DEF Holders
<1>4. CASE w \in Holders(S) <=> w \in Holders(S)'
  <2>1. Holders(S)' = Holders(S)
    BY <1>2, <1>3, <1>4
  <2> QED
    BY <1>1, <1>4, <2>1, FS_CardinalityType
<1>5. CASE w \in Holders(S) /\ w \notin Holders(S)'
  <2>1. Holders(S)' = Holders(S) \ {w}
    BY <1>2, <1>3, <1>5
  <2>2. Cardinality(Holders(S)') = Cardinality(Holders(S)) - 1
    BY <1>1, <1>5, <2>1, FS_RemoveElement
  <2> QED
    BY <1>1, <1>5, <2>2, FS_CardinalityType
<1>6. CASE w \notin Holders(S) /\ w \in Holders(S)'
  <2>1. Holders(S)' = Holders(S) \union {w}
    BY <1>2, <1>3, <1>6
  <2>2. Cardinality(Holders(S)') = Cardinality(Holders(S)) + 1
    BY <1>1, <1>6, <2>1, FS_AddElement
  <2> QED
    BY <1>1, <1>6, <2>2, FS_CardinalityType
<1> QED
  BY <1>4, <1>5, <1>6

LEMMA HoldersSame ==
  ASSUME cur' = cur, \A x \in Workers : Woken(x), NEW S
  PROVE  Holders(S)' = Holders(S)
  BY DEF Holders, Woken

LEMMA BufferedIn ==
  ASSUME NEW S, NEW x
  PROVE  /\ x \in Buffered(S) <=> \E p \in S : \E i \in 1 .. Len(chunks[p]) : x = <<p, i>>
         /\ x \in Buffered(S)' <=> \E p \in S : \E i \in 1 .. Len(chunks'[p]) : x = <<p, i>>
  BY DEF Buffered

LEMMA BufferedSame ==
  ASSUME chunks' = chunks, NEW S
  PROVE  Buffered(S)' = Buffered(S)
  BY DEF Buffered

LEMMA BufferedFinite ==
  ASSUME FiniteBuffers, NEW S \in SUBSET Seqs
  PROVE  IsFiniteSet(Buffered(S)) /\ Cardinality(Buffered(S)) \in Nat
         /\ Cardinality(Buffered(S)) <= Cardinality(Buffered(Seqs))
<1>1. Buffered(S) \in SUBSET Buffered(Seqs)
  BY DEF Buffered
<1> QED
  BY <1>1, FS_Subset, FS_CardinalityType DEF FiniteBuffers

LEMMA BufferedGrows ==
  ASSUME FiniteBuffers, NEW S \in SUBSET Seqs, NEW p \in Seqs, chunks \in [Seqs -> Seq(Chunks)],
         NEW c \in Chunks, chunks' = [chunks EXCEPT ![p] = Append(@, c)]
  PROVE  /\ IsFiniteSet(Buffered(S)')
         /\ Cardinality(Buffered(S)') = Cardinality(Buffered(S)) + IF p \in S THEN 1 ELSE 0
<1>1. chunks[p] \in Seq(Chunks) /\ Len(chunks[p]) \in Nat /\ Len(chunks'[p]) = Len(chunks[p]) + 1
  BY AppendAt, LenType
<1>2. \A q \in Seqs : q # p => chunks'[q] = chunks[q]
  OBVIOUS
<1>3. IsFiniteSet(Buffered(S)) /\ Cardinality(Buffered(S)) \in Nat
  BY BufferedFinite
<1> DEFINE new == <<p, Len(chunks[p]) + 1>>
<1>4. CASE p \in S
  <2>1. new \notin Buffered(S)
    BY <1>1, BufferedIn
  <2>2. ASSUME NEW x PROVE x \in Buffered(S)' <=> x \in Buffered(S) \union {new}
    <3>1. ASSUME x \in Buffered(S)' PROVE x \in Buffered(S) \union {new}
      <4>1. PICK q \in S : \E i \in 1 .. Len(chunks'[q]) : x = <<q, i>>
        BY <3>1, BufferedIn
      <4>2. PICK i \in 1 .. Len(chunks'[q]) : x = <<q, i>>
        BY <4>1
      <4>3. CASE q = p
        <5>1. i \in 1 .. Len(chunks[p]) \/ i = Len(chunks[p]) + 1
          BY <1>1, <4>3
        <5> QED
          BY <4>2, <4>3, <5>1, BufferedIn
      <4>4. CASE q # p
        BY <1>2, <4>2, <4>4, BufferedIn
      <4> QED
        BY <4>3, <4>4
    <3>2. ASSUME x \in Buffered(S) PROVE x \in Buffered(S)'
      <4>1. PICK q \in S : \E i \in 1 .. Len(chunks[q]) : x = <<q, i>>
        BY <3>2, BufferedIn
      <4>2. PICK i \in 1 .. Len(chunks[q]) : x = <<q, i>>
        BY <4>1
      <4>3. i \in 1 .. Len(chunks'[q])
        BY <1>1, <1>2
      <4> QED
        BY <4>2, <4>3, BufferedIn
    <3>3. new \in Buffered(S)'
      <4>1. Len(chunks[p]) + 1 \in 1 .. Len(chunks'[p])
        BY <1>1
      <4> QED
        BY <1>4, <4>1, BufferedIn
    <3> QED
      BY <3>1, <3>2, <3>3
  <2>3. Buffered(S)' = Buffered(S) \union {new}
    BY <2>2
  <2> HIDE DEF new
  <2> QED
    BY <1>3, <1>4, <2>1, <2>3, FS_AddElement
<1>5. CASE p \notin S
  <2>1. Buffered(S)' = Buffered(S)
    BY <1>2, <1>5 DEF Buffered
  <2> QED
    BY <1>3, <1>5, <2>1
<1> QED
  BY <1>4, <1>5

LEMMA BufferedShrinks ==
  ASSUME FiniteBuffers, NEW S \in SUBSET Seqs, NEW p \in Seqs, chunks \in [Seqs -> Seq(Chunks)],
         chunks[p] # <<>>, chunks' = [chunks EXCEPT ![p] = Tail(@)]
  PROVE  /\ IsFiniteSet(Buffered(S)')
         /\ Cardinality(Buffered(S)') = Cardinality(Buffered(S)) - IF p \in S THEN 1 ELSE 0
<1>1. chunks[p] \in Seq(Chunks) /\ Len(chunks[p]) \in Nat /\ Len(chunks'[p]) = Len(chunks[p]) - 1 /\ Len(chunks[p]) > 0
  <2>1. chunks[p] \in Seq(Chunks) /\ Len(chunks[p]) \in Nat
    BY LenType
  <2>2. Len(Tail(chunks[p])) = Len(chunks[p]) - 1
    BY <2>1, TailAt
  <2>3. Len(chunks[p]) # 0
    BY <2>1, EmptyLen
  <2> QED
    BY <2>1, <2>2, <2>3
<1>2. \A q \in Seqs : q # p => chunks'[q] = chunks[q]
  OBVIOUS
<1>3. IsFiniteSet(Buffered(S)) /\ Cardinality(Buffered(S)) \in Nat
  BY BufferedFinite
<1> DEFINE last == <<p, Len(chunks[p])>>
<1>4. CASE p \in S
  <2>1. last \in Buffered(S)
    <3>1. Len(chunks[p]) \in 1 .. Len(chunks[p])
      BY <1>1
    <3> QED
      BY <1>4, <3>1, BufferedIn
  <2>2. ASSUME NEW x PROVE x \in Buffered(S)' <=> x \in Buffered(S) \ {last}
    <3>1. ASSUME x \in Buffered(S)' PROVE x \in Buffered(S) /\ x # last
      <4>1. PICK q \in S : \E i \in 1 .. Len(chunks'[q]) : x = <<q, i>>
        BY <3>1, BufferedIn
      <4>2. PICK i \in 1 .. Len(chunks'[q]) : x = <<q, i>>
        BY <4>1
      <4>3. i \in 1 .. Len(chunks[q]) /\ (q = p => i # Len(chunks[p]))
        <5>1. CASE q = p
          <6>1. Len(chunks'[q]) = Len(chunks[p]) - 1
            BY <1>1, <5>1, Zenon
          <6>2. i \in 1 .. Len(chunks[p]) - 1
            BY <6>1, Zenon
          <6>3. i \in 1 .. Len(chunks[p]) /\ i # Len(chunks[p])
            BY <1>1, <6>2, ButLast, Zenon
          <6> QED
            BY <5>1, <6>3, Zenon
        <5>2. CASE q # p
          BY <1>2, <5>2
        <5> QED
          BY <5>1, <5>2
      <4> QED
        BY <4>2, <4>3, BufferedIn
    <3>2. ASSUME x \in Buffered(S), x # last PROVE x \in Buffered(S)'
      <4>1. PICK q \in S : \E i \in 1 .. Len(chunks[q]) : x = <<q, i>>
        BY <3>2, BufferedIn
      <4>2. PICK i \in 1 .. Len(chunks[q]) : x = <<q, i>>
        BY <4>1
      <4>3. q = p => i # Len(chunks[p])
        BY <3>2, <4>2
      <4>4. i \in 1 .. Len(chunks'[q])
        <5>1. CASE q = p
          <6>1. Len(chunks'[q]) = Len(chunks[p]) - 1
            BY <1>1, <5>1, Zenon
          <6>2. i \in 1 .. Len(chunks[p]) /\ i # Len(chunks[p])
            BY <4>2, <4>3, <5>1, Zenon
          <6>3. i \in 1 .. Len(chunks[p]) - 1
            BY <1>1, <6>2, ButLast, Zenon
          <6> QED
            BY <6>1, <6>3, Zenon
        <5>2. CASE q # p
          BY <1>2, <5>2
        <5> QED
          BY <5>1, <5>2
      <4> QED
        BY <4>2, <4>4, BufferedIn
    <3> QED
      BY <3>1, <3>2
  <2>3. Buffered(S)' = Buffered(S) \ {last}
    BY <2>2
  <2> HIDE DEF last
  <2> QED
    BY <1>3, <1>4, <2>1, <2>3, FS_RemoveElement
<1>5. CASE p \notin S
  <2>1. Buffered(S)' = Buffered(S)
    BY <1>2, <1>5 DEF Buffered
  <2> QED
    BY <1>3, <1>5, <2>1
<1> QED
  BY <1>4, <1>5

-----------------------------------------------------------------------------
(***************************************************************************)
(* One step moves at most one credit: to a payload that is the head of     *)
(* line or while credits are left, or back.                                *)
(***************************************************************************)
One(p, S) == IF p \in S THEN 1 ELSE 0
Keeps(S) == avail' = avail /\ HeldByAll(S)' = HeldByAll(S)
Takes(S) ==
  \E p \in Seqs : /\ avail' = avail - 1 /\ (avail >= 1 \/ p = head)
                  /\ HeldByAll(S)' = HeldByAll(S) + One(p, S)
GivesBack(S) == \E p \in Seqs : avail' = avail + 1 /\ HeldByAll(S)' = HeldByAll(S) - One(p, S)

LEMMA HeldType ==
  ASSUME TypeInv, FiniteBuffers, NEW S \in SUBSET Seqs
  PROVE  HeldByAll(S) \in Nat /\ HeldByAll(S) <= HeldByAll(Seqs)
<1>1. Cardinality(Holders(S)) \in Nat /\ Cardinality(Holders(Seqs)) \in Nat
      /\ Cardinality(Holders(S)) <= Cardinality(Holders(Seqs))
  <2>1. Holders(Seqs) \in SUBSET Workers /\ IsFiniteSet(Workers) /\ Holders(S) \in SUBSET Holders(Seqs)
    BY AsyncConstants DEF Holders
  <2>2. IsFiniteSet(Holders(Seqs))
    BY <2>1, FS_Subset
  <2> QED
    BY <2>1, <2>2, FS_Subset, FS_CardinalityType
<1>2. Cardinality(Buffered(S)) \in Nat /\ Cardinality(Buffered(Seqs)) \in Nat
      /\ Cardinality(Buffered(S)) <= Cardinality(Buffered(Seqs))
  BY BufferedFinite
<1> QED
  BY <1>1, <1>2 DEF HeldByAll

HeldLess ==
  \A g \in Seqs : HeldByAll(Seqs \ {g}) <= HeldByAll(Seqs) /\ HeldByAll(Seqs \ {g}) \in Nat /\ HeldByAll(Seqs) \in Nat
LEMMA HeldLessHolds == TypeInv /\ FiniteBuffers => HeldLess
  BY HeldType DEF HeldLess
LEMMA HeldLessNext == TypeInv' /\ FiniteBuffers' => HeldLess'
  BY HeldLessHolds, PTL

LEMMA WorkerMoves ==
  ASSUME TypeInv, FiniteBuffers, NEW w \in Workers, Worker(w), NEW S \in SUBSET Seqs
  PROVE  IsFiniteSet(Buffered(S)') /\ (Keeps(S) \/ Takes(S) \/ GivesBack(S))
<1> USE DEF TypeInv, TypeOK
<1>1. UNCHANGED <<epc, epos, head>>
  BY WorkerFrame
<1>2. IsFiniteSet(Buffered(S)) /\ Cardinality(Buffered(S)) \in Nat
  BY BufferedFinite
<1>3. -1 \notin S
  BY Constants DEF Seqs
<1> DEFINE e == IF epc = "write" /\ epos \in S THEN 1 ELSE 0
<1>4. e' = e /\ e \in Nat
  BY <1>1
<1>5. /\ HeldByAll(S) = Cardinality(Holders(S)) + Cardinality(Buffered(S)) + e
      /\ HeldByAll(S)' = Cardinality(Holders(S)') + Cardinality(Buffered(S)') + e
  BY <1>4 DEF HeldByAll
<1> HIDE DEF e
<1>6. /\ w \in Holders(S) <=> cur[w] \in S /\ wpc[w] \in {"read", "send"}
      /\ w \in Holders(S)' <=> cur'[w] \in S /\ wpc'[w] \in {"read", "send"}
  BY DEF Holders
<1>7. ASSUME chunks' = chunks, avail' = avail, Others(w), w \in Holders(S) <=> w \in Holders(S)'
      PROVE  IsFiniteSet(Buffered(S)') /\ Keeps(S)
  BY <1>2, <1>5, <1>7, HoldersCount, BufferedSame DEF Keeps
<1>8. CASE WorkerReceive(w)
  <2>1. w \notin Holders(S) /\ w \notin Holders(S)'
    BY <1>6, <1>8, ReceiveEffect DEF WorkerReceive
  <2> QED
    BY <1>7, <1>8, <2>1, ReceiveEffect
<1>9. CASE Acquire(w)
  <2>1. Others(w) /\ chunks' = chunks /\ wpc[w] = "acquire" /\ cur[w] \in Seqs
    BY <1>9, AcquireEffect
  <2>2. w \notin Holders(S)
    BY <1>6, <2>1
  <2>3. CASE Returns(w, TRUE) /\ UNCHANGED avail
    BY <1>6, <1>7, <2>1, <2>2, <2>3 DEF Returns
  <2>4. CASE UNCHANGED avail /\ wpc'[w] = "wait"
    BY <1>6, <1>7, <2>1, <2>2, <2>4
  <2>5. CASE Continues(w) /\ wpc'[w] = "read" /\ avail' = avail - 1 /\ (avail >= 1 \/ cur[w] = head)
    <3>1. w \in Holders(S)' <=> cur[w] \in S
      BY <1>6, <2>5 DEF Continues
    <3>2. Cardinality(Holders(S)') = Cardinality(Holders(S)) + One(cur[w], S) /\ Cardinality(Holders(S)) \in Nat
      BY <2>1, <2>2, <3>1, HoldersCount DEF One
    <3>3. Buffered(S)' = Buffered(S)
      BY <2>1, BufferedSame
    <3>4. One(cur[w], S) \in Nat
      BY DEF One
    <3>5. HeldByAll(S)' = HeldByAll(S) + One(cur[w], S)
      BY <1>2, <1>4, <1>5, <3>2, <3>3, <3>4
    <3> QED
      BY <1>2, <2>1, <2>5, <3>3, <3>5 DEF Takes
  <2> QED
    BY <1>9, <2>3, <2>4, <2>5, AcquireEffect
<1>10. CASE Sleep(w)
  BY <1>6, <1>7, <1>10, SleepEffect
<1>11. CASE Read(w)
  BY <1>6, <1>7, <1>11, ReadEffect
<1>12. CASE Send(w)
  <2>1. /\ Others(w) /\ wpc[w] = "send" /\ cur[w] \in Seqs
        /\ Returns(w, TRUE) \/ GoesOn(w, remaining[w] - hold[w].n)
    BY <1>12, SendEffect
  <2>2. w \in Holders(S) <=> cur[w] \in S
    BY <1>6, <2>1
  <2>3. w \notin Holders(S)'
    BY <1>3, <1>6, <2>1 DEF Returns, GoesOn
  <2>4. Cardinality(Holders(S)') = Cardinality(Holders(S)) - One(cur[w], S) /\ Cardinality(Holders(S)) \in Nat
    BY <2>1, <2>2, <2>3, HoldersCount DEF One
  <2>5. One(cur[w], S) \in Nat
    BY DEF One
  <2>6. CASE hold[w] \in Chunks /\ chunks' = [chunks EXCEPT ![cur[w]] = Append(@, hold[w])] /\ avail' = avail
    <3>1. IsFiniteSet(Buffered(S)') /\ Cardinality(Buffered(S)') = Cardinality(Buffered(S)) + One(cur[w], S)
      BY <2>1, <2>6, BufferedGrows DEF TypeChunks, One
    <3>2. HeldByAll(S)' = HeldByAll(S)
      BY <1>2, <1>4, <1>5, <2>4, <2>5, <3>1
    <3> QED
      BY <2>6, <3>1, <3>2 DEF Keeps
  <2>7. CASE chunks' = chunks /\ avail' = avail + 1
    <3>1. Buffered(S)' = Buffered(S)
      BY <2>7, BufferedSame
    <3>2. HeldByAll(S)' = HeldByAll(S) - One(cur[w], S)
      BY <1>2, <1>4, <1>5, <2>4, <2>5, <3>1
    <3> QED
      BY <1>2, <2>1, <2>7, <3>1, <3>2 DEF GivesBack
  <2> QED
    BY <1>12, <2>6, <2>7, SendEffect
<1>13. CASE FinalCheck(w)
  BY <1>6, <1>7, <1>13, FinalCheckEffect DEF Returns
<1> QED
  BY <1>8, <1>9, <1>10, <1>11, <1>12, <1>13 DEF Worker

LEMMA EmitterMoves ==
  ASSUME TypeInv, FiniteBuffers, Emitter, NEW S \in SUBSET Seqs
  PROVE  IsFiniteSet(Buffered(S)') /\ (Keeps(S) \/ GivesBack(S))
<1> USE DEF TypeInv, TypeOK
<1>1. cur' = cur /\ \A x \in Workers : Woken(x)
  BY EmitterFrame, EmitterWakes
<1>2. Holders(S)' = Holders(S)
  BY <1>1, HoldersSame
<1>3. Cardinality(Holders(S)) \in Nat
  <2>1. Holders(S) \in SUBSET Workers /\ IsFiniteSet(Workers)
    BY AsyncConstants DEF Holders
  <2> QED
    BY <2>1, FS_Subset, FS_CardinalityType
<1>4. IsFiniteSet(Buffered(S)) /\ Cardinality(Buffered(S)) \in Nat
  BY BufferedFinite
<1>5. CASE EmitReceive
  <2>1. /\ epc = "copy" /\ epc' = "write" /\ chunks[epos] # <<>> /\ chunks' = [chunks EXCEPT ![epos] = Tail(@)]
        /\ UNCHANGED <<avail, epos>>
    BY <1>5 DEF EmitReceive
  <2>2. epos \in Seqs
    BY <2>1, Constants DEF Phases, TypeEmit, Seqs
  <2>3. IsFiniteSet(Buffered(S)') /\ Cardinality(Buffered(S)') = Cardinality(Buffered(S)) - One(epos, S)
    BY <2>1, <2>2, BufferedShrinks DEF TypeChunks, One
  <2>4. HeldByAll(S) = Cardinality(Holders(S)) + Cardinality(Buffered(S))
    BY <1>3, <1>4, <2>1 DEF HeldByAll
  <2>5. HeldByAll(S)' = Cardinality(Holders(S)) + Cardinality(Buffered(S)') + One(epos, S)
    BY <1>2, <2>1 DEF HeldByAll, One
  <2>6. One(epos, S) \in Nat
    BY DEF One
  <2> QED
    BY <1>3, <1>4, <2>1, <2>3, <2>4, <2>5, <2>6 DEF Keeps
<1>6. CASE EmitWrite
  <2>1. epc = "write" /\ epc' # "write" /\ UNCHANGED <<epos, chunks>> /\ avail' = avail + 1
    BY <1>6 DEF EmitWrite, EmitFails, Release
  <2>2. epos \in Seqs
    BY <2>1, Constants DEF Phases, TypeEmit, Seqs
  <2>3. Buffered(S)' = Buffered(S)
    BY <2>1, BufferedSame
  <2>4. HeldByAll(S) = Cardinality(Holders(S)) + Cardinality(Buffered(S)) + One(epos, S)
    BY <2>1 DEF HeldByAll, One
  <2>5. HeldByAll(S)' = Cardinality(Holders(S)) + Cardinality(Buffered(S))
    BY <1>2, <1>3, <1>4, <2>1, <2>3 DEF HeldByAll
  <2>6. One(epos, S) \in Nat
    BY DEF One
  <2>7. HeldByAll(S)' = HeldByAll(S) - One(epos, S)
    BY <1>3, <1>4, <2>4, <2>5, <2>6
  <2> QED
    BY <1>4, <2>1, <2>2, <2>3, <2>7 DEF GivesBack
<1>7. CASE ~EmitReceive /\ ~EmitWrite
  <2>1. epc # "write" /\ epc' # "write" /\ UNCHANGED <<chunks, avail>>
    BY <1>7 DEF Emitter, EmitOpen, EmitHeader, EmitClose, EmitEnd, CancelSource, ClosePipe, EmitFails
  <2>2. Buffered(S)' = Buffered(S)
    BY <2>1, BufferedSame
  <2> QED
    BY <1>2, <1>4, <2>1, <2>2 DEF HeldByAll, Keeps
<1> QED
  BY <1>5, <1>6, <1>7

LEMMA HeldStep ==
  ASSUME TypeInv, FiniteBuffers, [Next]_vars, NEW S \in SUBSET Seqs
  PROVE  IsFiniteSet(Buffered(S)') /\ (Keeps(S) \/ Takes(S) \/ GivesBack(S))
<1>1. ASSUME UNCHANGED <<chunks, avail, cur, epc, epos>>, \A x \in Workers : Woken(x)
      PROVE  IsFiniteSet(Buffered(S)') /\ Keeps(S)
  <2>1. Holders(S)' = Holders(S) /\ Buffered(S)' = Buffered(S)
    BY <1>1, HoldersSame, BufferedSame
  <2> QED
    BY <1>1, <2>1, BufferedFinite DEF HeldByAll, Keeps
<1>2. CASE WakeOnCancel \/ UserCancel
  BY <1>1, <1>2, CancelFrame, EmitterWakes DEF TypeInv, TypeOK
<1>3. CASE Dispatch
  BY <1>1, <1>3, DispatchFrame, EmitterWakes DEF TypeInv, TypeOK
<1>4. CASE UNCHANGED vars
  BY <1>1, <1>4 DEF vars, workVars, emitVars, Woken
<1> QED
  BY <1>2, <1>3, <1>4, WorkerMoves, EmitterMoves DEF Next

\* The payload the emitter has closed holds no credit when the next becomes the head.
LEMMA OldHeadHoldsNothing ==
  ASSUME TypeInv, OwnInv, HeadOfLine, epc = "open", NEW h, h = head
  PROVE  HeldByAll(Seqs \ {h}) = HeldByAll(Seqs)
<1> USE DEF TypeInv, TypeOK, OwnInv
<1>1. h = epos - 1 /\ epos \in Int /\ (\A q \in Seqs : q \in Int) /\ -1 \notin Seqs
  BY Constants DEF HeadOfLine, Running, TypeEmit, Seqs
<1>2. h \in Seqs => closed[h] /\ chunks[h] = <<>>
  BY <1>1 DEF EmittedDone
<1>3. \A w \in Workers : cur[w] \in Seqs => cur[w] # h
  BY <1>1, <1>2 DEF ReadOwn
<1>4. Holders(Seqs \ {h}) = Holders(Seqs)
  BY <1>3 DEF Holders
<1>5. Buffered(Seqs \ {h}) = Buffered(Seqs)
  <2>1. h \in Seqs => Len(chunks[h]) = 0
    BY <1>2
  <2>2. h \in Seqs => 1 .. Len(chunks[h]) = {}
    BY <2>1
  <2>3. \A x : x \in Buffered(Seqs) => x \in Buffered(Seqs \ {h})
    <3> SUFFICES ASSUME NEW x, x \in Buffered(Seqs) PROVE x \in Buffered(Seqs \ {h})
      OBVIOUS
    <3>1. PICK p \in Seqs : \E i \in 1 .. Len(chunks[p]) : x = <<p, i>>
      BY BufferedIn
    <3>2. p # h
      BY <2>2, <3>1
    <3> QED
      BY <3>1, <3>2, BufferedIn
  <2> QED
    BY <2>3 DEF Buffered
<1> QED
  BY <1>4, <1>5 DEF HeldByAll

LEMMA HeadStep ==
  ASSUME TypeInv, SlotInv, HeadOfLine, [Next]_vars
  PROVE  /\ HeadOfLine'
         /\ head' = head \/ (head' = epos /\ epc = "open" /\ avail' = avail /\ head' \in Seqs)
<1> USE DEF TypeInv, TypeOK
<1>1. ASSUME UNCHANGED <<epc, epos, head>> PROVE HeadOfLine'
  BY <1>1 DEF HeadOfLine, Running
<1>2. CASE Dispatch
  BY <1>1, <1>2, DispatchFrame
<1>3. ASSUME NEW w \in Workers, Worker(w) PROVE HeadOfLine' /\ head' = head
  BY <1>1, <1>3, WorkerFrame
<1>4. CASE WakeOnCancel \/ UserCancel
  BY <1>1, <1>4, CancelFrame
<1>5. CASE UNCHANGED vars
  BY <1>1, <1>5 DEF vars, emitVars
<1>6. CASE EmitOpen
  <2>1. CASE EmitFails /\ head' = head
    BY <2>1 DEF EmitFails, HeadOfLine, Running
  <2>2. CASE delivery # <<>> /\ Head(delivery) = epos /\ head' = epos /\ epc' = "header" /\ UNCHANGED epos
    <3>1. head' \in Seqs
      BY <1>6, <2>2, Constants DEF EmitOpen, Seqs, TypeEmit
    <3> QED
      BY <1>6, <2>2, <3>1 DEF EmitOpen, HeadOfLine, Running
  <2> QED
    BY <1>6, <2>1, <2>2 DEF EmitOpen
<1>7. CASE EmitClose
  BY <1>7, Constants DEF EmitClose, EmitFails, HeadOfLine, Running, TypeEmit
<1>8. CASE EmitHeader \/ EmitReceive \/ EmitWrite \/ EmitEnd \/ CancelSource \/ ClosePipe
  BY <1>8 DEF EmitHeader, EmitReceive, EmitWrite, EmitEnd, CancelSource, ClosePipe, EmitFails, HeadOfLine, Running
<1> QED
  BY <1>2, <1>3, <1>4, <1>5, <1>6, <1>7, <1>8 DEF Next, Emitter

LEMMA BudgetInit == Init => BudgetInv
<1> SUFFICES ASSUME Init PROVE BudgetInv
  OBVIOUS
<1>1. HeadOfLine
  BY DEF Init, HeadOfLine
<1>2. Buffered(Seqs) = {} /\ Buffered(Seqs \ {head}) = {}
  <2>1. \A p \in Seqs : 1 .. Len(chunks[p]) = {}
    <3>1. \A p \in Seqs : Len(chunks[p]) = 0
      BY DEF Init
    <3> QED
      BY <3>1
  <2> QED
    BY <2>1 DEF Buffered
<1>3. Holders(Seqs) = {} /\ Holders(Seqs \ {head}) = {}
  BY DEF Init, Holders
<1>4. HeldByAll(Seqs) = 0 /\ HeldByAll(Seqs \ {head}) = 0
  <2>1. Cardinality({}) = 0 /\ epc # "write"
    BY FS_EmptySet DEF Init
  <2> QED
    BY <1>2, <1>3, <2>1 DEF HeldByAll
<1>5. BudgetKept
  BY <1>4, Constants DEF BudgetKept, Init
<1> QED
  BY <1>1, <1>2, <1>5, FS_EmptySet DEF BudgetInv, FiniteBuffers

LEMMA BudgetStep == TypeInv /\ SlotInv /\ OwnInv /\ BudgetInv /\ [Next]_vars => BudgetInv'
<1> SUFFICES ASSUME TypeInv, SlotInv, OwnInv, BudgetInv, [Next]_vars PROVE BudgetInv'
  OBVIOUS
<1> USE DEF BudgetInv
<1>1. FiniteBuffers'
  BY HeldStep DEF FiniteBuffers, Seqs
<1>2. TypeInv' /\ HeadOfLine'
  BY SlotStep, HeadStep
<1>3. avail \in Int /\ Budget \in Nat
  BY Constants DEF TypeInv, TypeOK, TypeChunks
<1>4. PICK h : h = head
  OBVIOUS
<1>5. HeldByAll(Seqs) \in Nat /\ HeldByAll(Seqs \ {h}) \in Nat /\ HeldByAll(Seqs \ {h}) <= HeldByAll(Seqs)
  BY HeldType
<1>6. avail = Budget - HeldByAll(Seqs) /\ HeldByAll(Seqs \ {h}) <= Budget
  BY <1>4 DEF BudgetKept
<1>7. avail' = Budget - HeldByAll(Seqs)'
  <2>1. Keeps(Seqs) \/ Takes(Seqs) \/ GivesBack(Seqs)
    BY HeldStep
  <2> QED
    BY <1>3, <1>5, <1>6, <2>1 DEF Keeps, Takes, GivesBack, One
<1>8. CASE head' = head
  <2>1. Keeps(Seqs \ {h}) \/ Takes(Seqs \ {h}) \/ GivesBack(Seqs \ {h})
    BY HeldStep
  <2>2. HeldByAll(Seqs \ {h})' <= Budget
    <3>1. CASE Keeps(Seqs \ {h})
      BY <1>6, <3>1 DEF Keeps
    <3>2. CASE Takes(Seqs \ {h})
      BY <1>3, <1>4, <1>5, <1>6, <3>2 DEF Takes, One
    <3>3. CASE GivesBack(Seqs \ {h})
      BY <1>3, <1>5, <1>6, <3>3 DEF GivesBack, One
    <3> QED
      BY <2>1, <3>1, <3>2, <3>3
  <2>3. BudgetKept'
    BY <1>4, <1>7, <1>8, <2>2 DEF BudgetKept
  <2> QED
    BY <1>1, <1>2, <2>3
<1>9. CASE head' # head
  <2>1. epc = "open" /\ avail' = avail /\ head' \in Seqs
    BY <1>9, HeadStep
  <2>2. HeldByAll(Seqs) <= Budget
    BY <1>4, <1>6, <2>1, OldHeadHoldsNothing
  <2>3. PICK g \in Seqs : g = head'
    BY <2>1
  <2>4. (HeldByAll(Seqs \ {g}) <= HeldByAll(Seqs) /\ HeldByAll(Seqs \ {g}) \in Nat /\ HeldByAll(Seqs) \in Nat)'
    BY <1>1, <1>2, HeldLessNext DEF HeldLess, Seqs
  <2>5. HeldByAll(Seqs)' <= Budget
    BY <1>3, <1>5, <1>6, <1>7, <2>1, <2>2, <2>4
  <2>6. BudgetKept'
    BY <1>3, <1>7, <2>3, <2>4, <2>5 DEF BudgetKept
  <2> QED
    BY <1>1, <1>2, <2>6
<1> QED
  BY <1>8, <1>9

\* The budget loses and invents no credit (release, putBack and acquire of
\* src/archive/async.go balance on every path, the failing and canceled ones included),
\* and payloads behind the head of line never hold more than the whole budget.
THEOREM BudgetBalances == Spec => []BudgetKept
<1>1. TypeInv /\ SlotInv /\ OwnInv /\ BudgetInv => BudgetKept
  BY DEF BudgetInv
<1> QED
  BY <1>1, OwnInvariant, BudgetInit, BudgetStep, PTL DEF Spec

-----------------------------------------------------------------------------
(***************************************************************************)
(* What the emitter writes is a payload stream.  The invariant follows the *)
(* content of each payload from its reader through the chunk channel to    *)
(* the emitter.                                                            *)
(***************************************************************************)
\* The payload's content the emitter has taken so far.
Front(p) == IF p = epos /\ epc = "copy" THEN written
            ELSE IF p = epos /\ epc = "write" THEN written + ehold.n ELSE 0
\* The buffers of s hold the content from a to b without a gap.
Line(s, a, b) ==
  /\ a = IF s = <<>> THEN b ELSE s[1].off
  /\ \A i \in 1 .. Len(s) : /\ s[i].off + s[i].n <= b
                            /\ i = Len(s) => s[i].off + s[i].n = b
                            /\ i < Len(s) => s[i+1].off = s[i].off + s[i].n
\* The reader of p has got as far as b.
ReadTo(p, b) ==
  /\ Line(chunks[p], Front(p), b)
  /\ b > 0 => b <= size[p]
  /\ p >= next \/ InWork(p) => b = 0
  /\ \A w \in Workers : cur[w] = p => b = Offset(w)
  /\ closed[p] /\ ~err[p] /\ ~openErr[p] => b = size[p]
Flow == Running => \A p \in Seqs : p >= epos => \E b \in Nat : ReadTo(p, b)
\* A buffer that was filled holds the content that comes next, or zeros.
Filled ==
  \A w \in Workers : wpc[w] = "send" /\ hold[w].n > 0 => hold[w].off = Offset(w) /\ (hold[w].pad <=> padding[w])

\* The emitter has received padding of p.
Started(p) == p = epos /\ (padded > 0 \/ (epc = "write" /\ ehold.pad))
\* Nothing but padding follows padding, and the reader has noted that the size changed.
PadsOf(p) ==
  /\ p >= next \/ InWork(p) => ~Started(p)
  /\ \A i \in 1 .. Len(chunks[p]) : Started(p) => chunks[p][i].pad
  /\ \A i, j \in 1 .. Len(chunks[p]) : chunks[p][i].pad /\ i <= j => chunks[p][j].pad
  /\ Started(p) \/ (\E i \in 1 .. Len(chunks[p]) : chunks[p][i].pad) =>
       warned[p] /\ \A w \in Workers : cur[w] = p => padding[w]
  /\ \A w \in Workers : cur[w] = p /\ padding[w] => warned[p]
Pads == \A p \in Seqs : PadsOf(p)
Emitting ==
  /\ epc \notin {"copy", "write"} => written = 0 /\ padded = 0
  /\ epc = "write" => ehold.n > 0 /\ (padded > 0 => ehold.pad)
  /\ epc \in {"header", "copy", "write"} => ~openErr[epos]
StreamInv == Flow /\ Filled /\ Pads /\ Emitting

LEMMA LineAppend ==
  ASSUME NEW s \in Seq(Chunks), NEW a \in Nat, NEW b \in Nat, NEW c \in Chunks, Line(s, a, b), c.off = b
  PROVE  Line(Append(s, c), a, b + c.n)
<1> DEFINE t == Append(s, c)
<1>1. Len(s) \in Nat /\ c.n \in Nat /\ c.n > 0 /\ t # <<>>
  BY LenType, ChunkFields
<1>2. Len(t) = Len(s) + 1 /\ t[Len(s) + 1] = c /\ \A i \in 1 .. Len(s) : t[i] = s[i]
  BY AppendAt
<1>3. s = <<>> <=> Len(s) = 0
  BY EmptyLen
<1>4. \A i \in 1 .. Len(s) : s[i] \in Chunks /\ s[i].off \in Nat /\ s[i].n \in Nat
  BY ElementType, ChunkFields
<1>5. a = IF s = <<>> THEN b ELSE s[1].off
  BY DEF Line
<1>6. \A i \in 1 .. Len(s) : /\ s[i].off + s[i].n <= b
                             /\ i = Len(s) => s[i].off + s[i].n = b
                             /\ i < Len(s) => s[i+1].off = s[i].off + s[i].n
  BY DEF Line
<1> HIDE DEF t
<1>7. a = t[1].off
  BY <1>1, <1>2, <1>3, <1>5
<1>8. ASSUME NEW i \in 1 .. Len(t)
      PROVE  /\ t[i].off + t[i].n <= b + c.n
             /\ i = Len(t) => t[i].off + t[i].n = b + c.n
             /\ i < Len(t) => t[i+1].off = t[i].off + t[i].n
  <2>1. CASE i = Len(s) + 1
    BY <1>1, <1>2, <2>1
  <2>2. CASE i \in 1 .. Len(s)
    <3>1. t[i] = s[i] /\ t[i].off + t[i].n <= b /\ t[i].off \in Nat /\ t[i].n \in Nat
      BY <1>2, <1>4, <1>6, <2>2
    <3>2. CASE i = Len(s)
      BY <1>1, <1>2, <1>6, <3>1, <3>2
    <3>3. CASE i # Len(s)
      <4>1. i+1 \in 1 .. Len(s) /\ i < Len(s) /\ i # Len(t)
        BY <1>1, <1>2, <2>2, <3>3
      <4>2. t[i+1] = s[i+1] /\ s[i+1].off = s[i].off + s[i].n
        BY <1>2, <1>6, <2>2, <4>1
      <4>3. t[i].off + t[i].n <= b + c.n
        BY <1>1, <3>1
      <4> QED
        BY <3>1, <4>1, <4>2, <4>3
    <3> QED
      BY <3>2, <3>3
  <2> QED
    BY <1>1, <1>2, <2>1, <2>2
<1> QED
  BY <1>1, <1>7, <1>8 DEF Line, t

LEMMA LineTail ==
  ASSUME NEW s \in Seq(Chunks), NEW a \in Nat, NEW b \in Nat, Line(s, a, b), s # <<>>
  PROVE  /\ Head(s) \in Chunks /\ Head(s).n \in Nat /\ Head(s).n > 0
         /\ a + Head(s).n <= b
         /\ Line(Tail(s), a + Head(s).n, b)
<1> DEFINE t == Tail(s)
<1>1. 1 \in 1 .. Len(s) /\ Head(s) = s[1] /\ s[1] \in Chunks /\ Len(s) \in Nat
  BY HeadAt, ElementType, LenType
<1>2. s[1].n \in Nat /\ s[1].n > 0 /\ s[1].off = a
  BY <1>1, ChunkFields DEF Line
<1>3. a + s[1].n <= b
  BY <1>1, <1>2 DEF Line
<1>4. t \in Seq(Chunks) /\ Len(t) = Len(s) - 1 /\ (\A i \in 1 .. Len(t) : i+1 \in 1 .. Len(s) /\ t[i] = s[i+1])
  BY TailAt, HeadTailType
<1>5. t = <<>> <=> Len(t) = 0
  BY <1>4, EmptyLen
<1>6. \A i \in 1 .. Len(s) : /\ s[i].off + s[i].n <= b
                             /\ i = Len(s) => s[i].off + s[i].n = b
                             /\ i < Len(s) => s[i+1].off = s[i].off + s[i].n
  BY DEF Line
<1> HIDE DEF t
<1>7. a + s[1].n = IF t = <<>> THEN b ELSE t[1].off
  <2>1. CASE Len(s) = 1
    BY <1>1, <1>2, <1>4, <1>5, <1>6, <2>1
  <2>2. CASE Len(s) # 1
    <3>1. 1 < Len(s) /\ 1 \in 1 .. Len(t) /\ t # <<>>
      BY <1>1, <1>4, <1>5, <2>2
    <3>2. t[1] = s[1+1]
      BY <1>4, <3>1
    <3> QED
      BY <1>1, <1>2, <1>6, <3>1, <3>2
  <2> QED
    BY <2>1, <2>2
<1>8. ASSUME NEW i \in 1 .. Len(t)
      PROVE  /\ t[i].off + t[i].n <= b
             /\ i = Len(t) => t[i].off + t[i].n = b
             /\ i < Len(t) => t[i+1].off = t[i].off + t[i].n
  <2>1. i+1 \in 1 .. Len(s) /\ t[i] = s[i+1] /\ (i = Len(t) => i+1 = Len(s)) /\ (i < Len(t) => i+1 < Len(s))
    BY <1>1, <1>4
  <2>2. i < Len(t) => t[i+1] = s[i+1+1]
    BY <1>1, <1>4
  <2> QED
    BY <1>6, <2>1, <2>2
<1> QED
  BY <1>1, <1>2, <1>3, <1>7, <1>8 DEF Line, t

-----------------------------------------------------------------------------
\* What the dispatcher does to the payloads.
LEMMA DispatchPayload ==
  ASSUME TypeInv, SlotInv, OwnInv, Dispatch
  PROVE  /\ \A p \in Seqs : p # next => size'[p] = size[p] /\ (openErr'[p] <=> openErr[p]) /\ (closed'[p] <=> closed[p])
         /\ \A p \in Seqs : p = next /\ closed'[p] => openErr'[p]
         /\ \A p \in Seqs : p >= next' \/ InWork(p)' => p >= next \/ InWork(p)
         /\ epc \in {"header", "copy", "write"} => openErr'[epos] <=> openErr[epos]
<1> USE DEF TypeInv, TypeOK
<1>1. next \in Int /\ epos \in Int /\ N \in Nat /\ (\A q \in Seqs : q \in Int) /\ Len(delivery) \in Nat
  BY Constants, LenType DEF TypeDisp, TypeEmit, Seqs
<1>2. \A p \in Seqs : p >= next => ~closed[p]
  BY DEF OwnInv, Fresh
<1>3. CASE Binds
  <2>1. epc \in {"header", "copy", "write"} => epos # next /\ epos \in Seqs
    BY <1>1, <1>3 DEF Binds, SlotInv, Order, Running, First, Phases, TypeEmit, Seqs
  <2>2. \A p \in Seqs : p # next => size'[p] = size[p]
    BY <1>3 DEF Binds, TypePay
  <2>3. \A p \in Seqs : p # next => (openErr'[p] <=> openErr[p])
    BY <1>3 DEF Binds, TypePay
  <2>4. UNCHANGED <<next, work, closed>>
    BY <1>3 DEF Binds
  <2> QED
    BY <1>1, <1>2, <2>1, <2>2, <2>3, <2>4 DEF InWork
<1>4. CASE Delivers
  <2>1. UNCHANGED <<size, openErr, work>> /\ (next' = next \/ next' = next + 1)
    BY <1>4 DEF Delivers
  <2>2. \A p \in Seqs : p # next => (closed'[p] <=> closed[p])
    BY <1>4 DEF Delivers, TypeChunks
  <2>3. \A p \in Seqs : p = next /\ closed'[p] => openErr[p]
    BY <1>1, <1>2, <1>4 DEF Delivers
  <2> QED
    BY <1>1, <2>1, <2>2, <2>3 DEF InWork
<1>5. CASE HandsOver
  <2>1. UNCHANGED <<size, openErr, closed>> /\ next' = next + 1 /\ work' = Append(work, next) /\ next \in Seqs
    BY <1>1, <1>5 DEF HandsOver, Phases, TypeDisp, Seqs
  <2>2. \A p \in Seqs : InWork(p)' => InWork(p) \/ p = next
    BY <2>1, AppendAt DEF TypeDisp, InWork
  <2> QED
    BY <1>1, <1>2, <2>1, <2>2
<1>6. CASE Leaves
  BY <1>1, <1>2, <1>6 DEF Leaves, InWork
<1> QED
  BY <1>3, <1>4, <1>5, <1>6, DispatchCases

LEMMA DispatchStream ==
  ASSUME TypeInv, SlotInv, OwnInv, StreamInv, Dispatch
  PROVE  StreamInv'
<1> USE DEF TypeInv, TypeOK, StreamInv
<1>1. UNCHANGED <<chunks, err, warned, wpc, cur, remaining, padding, hold, epc, epos, ehold, written, padded>>
  BY DispatchFrame
<1>2. next \in Int /\ (\A q \in Seqs : q \in Int) /\ -1 \notin Seqs
  BY Constants DEF TypeDisp, Seqs
<1>3. \A w \in Workers : cur[w] \in Seqs => cur[w] < next
  BY <1>2 DEF Reading, ReadingOf
<1>4. \A w \in Workers : cur[w] \in Seqs => Offset(w)' = Offset(w)
  <2>1. \A w \in Workers : cur[w] \in Seqs => size'[cur[w]] = size[cur[w]]
    BY <1>2, <1>3, DispatchPayload
  <2> QED
    BY <1>1, <2>1 DEF Offset
<1>5. ASSUME NEW p \in Seqs, NEW b \in Nat, ReadTo(p, b) PROVE ReadTo(p, b)'
  <2>1. Line(chunks[p], Front(p), b)'
    BY <1>1, <1>5 DEF ReadTo, Line, Front
  <2>2. b > 0 => b <= size'[p]
    BY <1>2, <1>5, DispatchPayload DEF ReadTo
  <2>3. p >= next' \/ InWork(p)' => b = 0
    BY <1>5, DispatchPayload DEF ReadTo
  <2>4. \A w \in Workers : cur'[w] = p => b = Offset(w)'
    BY <1>1, <1>4, <1>5 DEF ReadTo
  <2>5. closed'[p] /\ ~err'[p] /\ ~openErr'[p] => b = size'[p]
    BY <1>1, <1>5, DispatchPayload DEF ReadTo
  <2> QED
    BY <2>1, <2>2, <2>3, <2>4, <2>5 DEF ReadTo
<1>6. Flow'
  BY <1>1, <1>5 DEF Flow, Running, Seqs
<1>7. Filled'
  <2>1. \A w \in Workers : wpc[w] = "send" => cur[w] \in Seqs
    BY BusyType
  <2> QED
    BY <1>1, <1>4, <2>1 DEF Filled
<1>8. Pads'
  <2> SUFFICES ASSUME NEW p \in Seqs PROVE PadsOf(p)'
    BY DEF Pads, Seqs
  <2>1. PadsOf(p) /\ Started(p)' = Started(p)
    BY <1>1 DEF Pads, Started
  <2> QED
    BY <1>1, <2>1, DispatchPayload DEF PadsOf
<1>9. Emitting'
  BY <1>1, DispatchPayload DEF Emitting
<1> QED
  BY <1>6, <1>7, <1>8, <1>9

-----------------------------------------------------------------------------
\* A worker's step on its payload that sends nothing: it goes on where it was, or returns.
Quiet(w) ==
  /\ work' = work /\ chunks' = chunks
  /\ \A q \in Seqs : q # cur[w] => (closed'[q] <=> closed[q]) /\ (err'[q] <=> err[q])
  /\ \/ cur'[w] = cur[w] /\ remaining'[w] = remaining[w] /\ UNCHANGED <<closed, err>>
     \/ cur'[w] = -1 /\ (err'[cur[w]] \/ remaining[w] = 0)
\* What it notes about padding.
Notes(w) ==
  /\ \A q \in Seqs : warned[q] => warned'[q]
  /\ cur'[w] = cur[w] /\ padding[w] => padding'[w]
  /\ cur'[w] = cur[w] /\ padding'[w] => padding[w] \/ warned'[cur[w]]
  /\ cur'[w] \in {cur[w], -1}
\* It sends the buffer it holds.
Pushes(w) ==
  /\ work' = work /\ hold[w] \in Chunks /\ wpc[w] = "send"
  /\ chunks' = [chunks EXCEPT ![cur[w]] = Append(@, hold[w])]
  /\ \A q \in Seqs : q # cur[w] => (closed'[q] <=> closed[q]) /\ (err'[q] <=> err[q])
  /\ \/ cur'[w] = cur[w] /\ remaining'[w] = remaining[w] - hold[w].n /\ UNCHANGED <<closed, err>>
     \/ cur'[w] = -1 /\ err'[cur[w]]

LEMMA WorkerActs ==
  ASSUME TypeInv, NEW w \in Workers, Worker(w), ~WorkerReceive(w)
  PROVE  /\ cur[w] \in Seqs /\ Others(w) /\ Notes(w) /\ (Quiet(w) \/ Pushes(w))
<1> USE DEF TypeInv, TypeOK
<1>1. cur[w] \in Seqs /\ Others(w)
  BY WorkerSteps DEF Steps
<1>2. \A x \in Workers : padding[x] \in BOOLEAN
  BY DEF TypeWork
<1>3. ASSUME NEW f \in BOOLEAN, Returns(w, f)
      PROVE  /\ cur'[w] = -1 /\ cur'[w] # cur[w] /\ (f => err'[cur[w]])
             /\ \A q \in Seqs : q # cur[w] => (closed'[q] <=> closed[q]) /\ (err'[q] <=> err[q])
  <2>1. -1 \notin Seqs
    BY Constants DEF Seqs
  <2> QED
    BY <1>1, <1>3, <2>1 DEF Returns, TypeChunks
<1>4. CASE Acquire(w)
  <2>1. warned' = warned
    BY <1>4, AcquireEffect
  <2>2. CASE Returns(w, TRUE)
    BY <1>1, <1>3, <1>4, <2>1, <2>2, AcquireEffect DEF Quiet, Notes
  <2>3. CASE Continues(w) /\ UNCHANGED <<remaining, padding>>
    BY <1>1, <1>4, <2>1, <2>3, AcquireEffect DEF Quiet, Notes, Continues
  <2> QED
    BY <1>4, <2>2, <2>3, AcquireEffect
<1>5. CASE Sleep(w)
  BY <1>1, <1>5, SleepEffect DEF Quiet, Notes
<1>6. CASE Read(w)
  BY <1>1, <1>6, ReadEffect DEF Quiet, Notes
<1>7. CASE Send(w)
  <2> DEFINE left == remaining[w] - hold[w].n
  <2>1. /\ work' = work /\ wpc[w] = "send" /\ left \in Nat
        /\ Returns(w, TRUE) \/ GoesOn(w, left)
    BY <1>7, SendEffect
  <2>2. \/ warned' = warned /\ Returns(w, TRUE)
        \/ warned' = [warned EXCEPT ![cur[w]] = @ \/ Short(w, left)]
    BY <1>7, SendEffect
  <2>3. remaining[w] \in Nat /\ hold[w].n \in Nat
    BY <2>1, BusyType, ChunkFields
  <2>4. \A q \in Seqs : warned[q] => warned'[q]
    BY <2>2 DEF TypeChunks
  <2>5. Notes(w)
    <3>1. CASE Returns(w, TRUE)
      BY <1>3, <2>4, <3>1 DEF Notes
    <3>2. CASE GoesOn(w, left)
      <4>1. cur'[w] = cur[w] /\ cur[w] # -1 /\ padding'[w] = (padding[w] \/ Short(w, left))
        BY <2>1, <3>2, BusyType DEF GoesOn, Continues
      <4>2. ~Returns(w, TRUE)
        BY <4>1 DEF Returns
      <4>3. Short(w, left) => warned'[cur[w]]
        BY <1>1, <2>2, <4>2 DEF TypeChunks
      <4> QED
        BY <1>2, <2>4, <4>1, <4>3 DEF Notes
    <3> QED
      BY <2>1, <3>1, <3>2
  <2>6. /\ \A q \in Seqs : q # cur[w] => (closed'[q] <=> closed[q]) /\ (err'[q] <=> err[q])
        /\ \/ cur'[w] = cur[w] /\ remaining'[w] = left /\ UNCHANGED <<closed, err>>
           \/ cur'[w] = -1 /\ err'[cur[w]]
    BY <1>3, <2>1 DEF GoesOn, Continues
  <2>7. \/ hold[w] \in Chunks /\ chunks' = [chunks EXCEPT ![cur[w]] = Append(@, hold[w])]
        \/ hold[w].n > 0 /\ Returns(w, TRUE) /\ chunks' = chunks
        \/ hold[w].n = 0 /\ chunks' = chunks
    BY <1>7, SendEffect
  <2>8. CASE hold[w] \in Chunks /\ chunks' = [chunks EXCEPT ![cur[w]] = Append(@, hold[w])]
    BY <1>1, <2>1, <2>5, <2>6, <2>8 DEF Pushes
  <2>9. CASE hold[w].n > 0 /\ Returns(w, TRUE) /\ chunks' = chunks
    BY <1>1, <1>3, <2>1, <2>5, <2>9 DEF Quiet
  <2>10. CASE hold[w].n = 0 /\ chunks' = chunks
    <3>1. left = remaining[w]
      BY <2>3, <2>10
    <3> HIDE DEF left
    <3> QED
      BY <1>1, <2>1, <2>5, <2>6, <2>10, <3>1 DEF Quiet
  <2> QED
    BY <2>7, <2>8, <2>9, <2>10
<1>8. CASE FinalCheck(w)
  <2>1. remaining[w] = 0
    BY <1>8, FinalCheckEffect DEF Reading, ReadingOf
  <2> QED
    BY <1>1, <1>3, <1>8, <2>1, FinalCheckEffect DEF Quiet, Notes
<1> QED
  BY <1>4, <1>5, <1>6, <1>7, <1>8 DEF Worker

LEMMA WorkerFilled ==
  ASSUME TypeInv, StreamInv, NEW w \in Workers, Worker(w)
  PROVE  Filled'
<1> USE DEF TypeInv, TypeOK, StreamInv
<1>1. UNCHANGED <<size>>
  BY WorkerFrame
<1>2. \A x \in Workers : padding[x] \in BOOLEAN
  BY DEF TypeWork
<1>3. Others(w)
  BY ReceiveEffect, WorkerActs
<1>4. ASSUME NEW x \in Workers, x # w, wpc'[x] = "send", hold'[x].n > 0
      PROVE  hold'[x].off = Offset(x)' /\ (hold'[x].pad <=> padding'[x])
  BY <1>1, <1>3, <1>4 DEF Others, Same, Woken, Filled, Offset
<1>5. ASSUME wpc'[w] = "send", hold'[w].n > 0
      PROVE  hold'[w].off = Offset(w)' /\ (hold'[w].pad <=> padding'[w])
  <2>1. CASE Read(w)
    <3>1. UNCHANGED <<cur, remaining, padding>> /\ hold'[w].off = Offset(w) /\ (hold'[w].pad <=> padding[w])
      BY <1>5, <2>1, ReadEffect
    <3> QED
      BY <1>1, <3>1 DEF Offset
  <2>2. CASE ~Read(w)
    <3>1. wpc'[w] # "send"
      BY <2>2, ReceiveEffect, AcquireEffect, SleepEffect, SendEffect, FinalCheckEffect
         DEF Worker, Returns, GoesOn
    <3> QED
      BY <1>5, <3>1
  <2> QED
    BY <2>1, <2>2
<1> QED
  BY <1>4, <1>5 DEF Filled

LEMMA WorkerFlow ==
  ASSUME TypeInv, OwnInv, StreamInv, NEW w \in Workers, Worker(w)
  PROVE  Flow'
<1> USE DEF TypeInv, TypeOK, StreamInv
<1>1. UNCHANGED <<next, size, openErr, epc, epos, ehold, written>>
  BY WorkerFrame
<1>2. next \in Int /\ (\A q \in Seqs : q \in Int) /\ -1 \notin Seqs
  BY Constants DEF TypeDisp, Seqs
<1>3. \A p \in Seqs : Front(p)' = Front(p)
  BY <1>1 DEF Front
<1>4. Others(w)
  BY ReceiveEffect, WorkerActs
<1>5. \A x \in Workers : x # w => cur'[x] = cur[x] /\ Offset(x)' = Offset(x)
  BY <1>1, <1>4 DEF Others, Same, Offset
<1>6. ASSUME NEW p \in Seqs, NEW b \in Nat, ReadTo(p, b), chunks'[p] = chunks[p],
             InWork(p)' => InWork(p), cur'[w] = p => b = Offset(w)',
             closed'[p] /\ ~err'[p] /\ ~openErr[p] => b = size[p]
      PROVE  ReadTo(p, b)'
  <2>1. Line(chunks[p], Front(p), b)'
    BY <1>3, <1>6 DEF ReadTo, Line
  <2>2. \A x \in Workers : cur'[x] = p => b = Offset(x)'
    BY <1>5, <1>6 DEF ReadTo
  <2> QED
    BY <1>1, <1>6, <2>1, <2>2 DEF ReadTo
<1>7. ASSUME NEW p \in Seqs, NEW b \in Nat, ReadTo(p, b) PROVE \E c \in Nat : ReadTo(p, c)'
  <2>1. CASE WorkerReceive(w)
    <3>1. UNCHANGED <<chunks, closed, err>>
      BY <2>1, ReceiveEffect
    <3>2. CASE work # <<>> /\ work' = Tail(work) /\ cur'[w] = Head(work) /\ remaining'[w] = size[Head(work)] /\ Head(work) \in Seqs
      <4>1. InWork(p)' => InWork(p)
        BY <3>2, TailAt DEF InWork, TypeDisp
      <4>2. cur'[w] = p => b = Offset(w)'
        <5> SUFFICES ASSUME cur'[w] = p PROVE b = Offset(w)'
          OBVIOUS
        <5>1. InWork(p)
          BY <3>2, HeadAt DEF InWork, TypeDisp
        <5>2. b = 0
          BY <1>7, <5>1 DEF ReadTo
        <5>3. Offset(w)' = 0
          BY <1>1, <3>2, SizeType DEF Offset
        <5> QED
          BY <5>2, <5>3
      <4> QED
        BY <1>6, <1>7, <3>1, <4>1, <4>2 DEF ReadTo
    <3>3. CASE UNCHANGED <<work, cur, remaining>>
      <4>1. InWork(p)' => InWork(p)
        BY <3>3 DEF InWork
      <4>2. cur'[w] = p => b = Offset(w)'
        BY <1>1, <1>7, <3>3 DEF ReadTo, Offset
      <4> QED
        BY <1>6, <1>7, <3>1, <4>1, <4>2 DEF ReadTo
    <3> QED
      BY <2>1, <3>2, <3>3, ReceiveEffect
  <2>2. CASE ~WorkerReceive(w)
    <3>1. cur[w] \in Seqs /\ (Quiet(w) \/ Pushes(w)) /\ work' = work /\ cur'[w] \in {cur[w], -1}
      BY <2>2, WorkerActs DEF Quiet, Pushes, Notes
    <3>2. InWork(p)' => InWork(p)
      BY <3>1 DEF InWork
    <3>3. CASE p # cur[w]
      <4>1. chunks'[p] = chunks[p] /\ (closed'[p] <=> closed[p]) /\ (err'[p] <=> err[p]) /\ cur'[w] # p
        BY <1>2, <3>1, <3>3 DEF Quiet, Pushes, TypeChunks
      <4> QED
        BY <1>6, <1>7, <3>2, <4>1 DEF ReadTo
    <3>4. CASE p = cur[w]
      <4>1. b = Offset(w) /\ size[p] \in Nat /\ remaining[w] \in Nat /\ remaining[w] <= size[p]
            /\ p < next /\ ~closed[p] /\ ~InWork(p)
        <5>1. wpc[w] \notin {"idle", "exit"}
          BY <1>2, <3>1 DEF Phases
        <5>2. b = Offset(w)
          BY <1>7, <3>4 DEF ReadTo
        <5>3. ~closed[p] /\ ~InWork(p)
          BY <1>2, <3>1, <3>4 DEF OwnInv, ReadOwn, WorkOwn, InWork, InRead
        <5> QED
          BY <3>4, <5>1, <5>2, <5>3, BusyType
      <4>2. CASE Quiet(w)
        <5>1. cur'[w] = p => b = Offset(w)'
          BY <1>1, <1>2, <3>4, <4>1, <4>2 DEF Quiet, Offset
        <5>2. closed'[p] /\ ~err'[p] => b = size[p]
          BY <1>2, <3>4, <4>1, <4>2 DEF Quiet, Offset
        <5> QED
          BY <1>6, <1>7, <3>2, <4>2, <5>1, <5>2 DEF Quiet
      <4>3. CASE Pushes(w)
        <5>0. PICK n : n = hold[w].n
          OBVIOUS
        <5>1. n \in Nat /\ n > 0 /\ n <= remaining[w] /\ hold[w].off = b
          BY <3>4, <4>1, <4>3, <5>0, ChunkFields DEF Pushes, Filled, Reading, ReadingOf
        <5>2. chunks'[p] = Append(chunks[p], hold[w]) /\ hold[w] \in Chunks /\ chunks[p] \in Seq(Chunks)
          BY <3>4, <4>3 DEF Pushes, TypeChunks
        <5>3. Front(p) \in Nat
          BY ChunkFields DEF Front, TypeEmit
        <5>4. Line(chunks[p], Front(p), b)
          BY <1>7 DEF ReadTo
        <5>5. Line(chunks[p], Front(p), b + n)'
          <6>1. Line(Append(chunks[p], hold[w]), Front(p), b + n)
            BY <5>0, <5>1, <5>2, <5>3, <5>4, LineAppend
          <6>2. Line(chunks'[p], Front(p)', b + n)
            BY <1>3, <5>2, <6>1
          <6> QED
            BY <6>2 DEF Line
        <5>6. b + n <= size[p] /\ b + n \in Nat
          BY <4>1, <5>1, <3>4 DEF Offset
        <5>7. cur'[w] = p => b + n = Offset(w)' /\ (~closed'[p])
          BY <1>1, <1>2, <3>4, <4>1, <4>3, <5>0, <5>1 DEF Pushes, Offset
        <5>8. cur'[w] # p => err'[p]
          BY <3>4, <4>3 DEF Pushes
        <5>9. \A x \in Workers : cur'[x] = p => b + n = Offset(x)'
          <6>1. \A x \in Workers : x # w => cur'[x] # p
            BY <1>2, <1>5, <3>4 DEF OwnInv, ReadOwn
          <6> QED
            BY <5>7, <6>1
        <5>10. ReadTo(p, b + n)'
          BY <1>1, <1>2, <3>2, <4>1, <5>5, <5>6, <5>7, <5>8, <5>9 DEF ReadTo
        <5> QED
          BY <5>6, <5>10
      <4> QED
        BY <3>1, <4>2, <4>3
    <3> QED
      BY <3>3, <3>4
  <2> QED
    BY <2>1, <2>2
<1> QED
  BY <1>1, <1>7 DEF Flow, Running, Seqs

LEMMA WorkerPads ==
  ASSUME TypeInv, OwnInv, StreamInv, NEW w \in Workers, Worker(w)
  PROVE  Pads'
<1> USE DEF TypeInv, TypeOK, StreamInv
<1>1. UNCHANGED <<next, epc, epos, ehold, padded>>
  BY WorkerFrame
<1>2. next \in Int /\ (\A q \in Seqs : q \in Int) /\ -1 \notin Seqs
  BY Constants DEF TypeDisp, Seqs
<1>3. Others(w)
  BY ReceiveEffect, WorkerActs
<1>4. \A x \in Workers : x # w => cur'[x] = cur[x] /\ (padding'[x] <=> padding[x])
  BY <1>3 DEF Others, Same
<1> SUFFICES ASSUME NEW p \in Seqs PROVE PadsOf(p)'
  BY DEF Pads, Seqs
<1>5. PadsOf(p) /\ (Started(p)' <=> Started(p))
  BY <1>1 DEF Pads, Started
<1>6. ASSUME chunks'[p] = chunks[p], InWork(p)' => InWork(p), warned[p] => warned'[p],
             cur'[w] = p => (Started(p) \/ (\E i \in 1 .. Len(chunks[p]) : chunks[p][i].pad) => padding'[w]),
             cur'[w] = p /\ padding'[w] => warned'[p]
      PROVE  PadsOf(p)'
  BY <1>1, <1>4, <1>5, <1>6 DEF PadsOf
<1>7. CASE WorkerReceive(w)
  <2>1. UNCHANGED <<chunks, warned>>
    BY <1>7, ReceiveEffect
  <2>2. CASE work # <<>> /\ work' = Tail(work) /\ cur'[w] = Head(work) /\ padding'[w] = FALSE
    <3>1. InWork(p)' => InWork(p)
      BY <2>2, TailAt DEF InWork, TypeDisp
    <3>2. cur'[w] = p => InWork(p)
      BY <2>2, HeadAt DEF InWork, TypeDisp
    <3>3. InWork(p) => ~Started(p) /\ chunks[p] = <<>>
      BY <1>5 DEF PadsOf, OwnInv, WorkOwn, InWork
    <3>4. InWork(p) => Len(chunks[p]) = 0
      BY <3>3
    <3>5. InWork(p) => ~\E i \in 1 .. Len(chunks[p]) : chunks[p][i].pad
      BY <3>4
    <3> QED
      BY <1>6, <2>1, <2>2, <3>1, <3>2, <3>3, <3>5
  <2>3. CASE UNCHANGED <<work, cur, padding>>
    BY <1>1, <1>5, <2>1, <2>3 DEF PadsOf, InWork
  <2> QED
    BY <1>7, <2>2, <2>3, ReceiveEffect
<1>8. CASE ~WorkerReceive(w)
  <2>1. cur[w] \in Seqs /\ Notes(w) /\ (Quiet(w) \/ Pushes(w)) /\ work' = work
    BY <1>8, WorkerActs DEF Quiet, Pushes
  <2>2. (InWork(p)' => InWork(p)) /\ (warned[p] => warned'[p])
    BY <2>1 DEF InWork, Notes
  <2>3. CASE p # cur[w]
    <3>1. chunks'[p] = chunks[p] /\ cur'[w] # p
      BY <1>2, <2>1, <2>3 DEF Notes, Quiet, Pushes, TypeChunks
    <3> QED
      BY <1>6, <2>2, <3>1
  <2>4. CASE p = cur[w]
    <3>1. Started(p) \/ (\E i \in 1 .. Len(chunks[p]) : chunks[p][i].pad) => padding[w] /\ warned[p]
      BY <1>5, <2>4 DEF PadsOf
    <3>2. padding[w] => warned[p]
      BY <1>5, <2>4 DEF PadsOf
    <3>3. cur'[w] = p /\ padding[w] => padding'[w]
      BY <2>1, <2>4 DEF Notes
    <3>4. cur'[w] = p /\ padding'[w] => warned'[p]
      BY <2>1, <2>2, <2>4, <3>2 DEF Notes
    <3>5. CASE Quiet(w)
      BY <1>6, <2>2, <3>1, <3>3, <3>4, <3>5 DEF Quiet
    <3>6. CASE Pushes(w)
      <4> DEFINE s == chunks[p]
                 t == chunks'[p]
      <4>1. s \in Seq(Chunks) /\ t = Append(s, hold[w]) /\ hold[w] \in Chunks
        BY <2>1, <2>4, <3>6 DEF Pushes, TypeChunks
      <4>2. hold[w].pad <=> padding[w]
        BY <3>6, <4>1, ChunkFields DEF Pushes, Filled
      <4>3. Len(s) \in Nat /\ Len(t) = Len(s) + 1 /\ t[Len(s) + 1] = hold[w] /\ \A i \in 1 .. Len(s) : t[i] = s[i]
        BY <4>1, AppendAt, LenType
      <4>4. \A i \in 1 .. Len(t) : i \in 1 .. Len(s) \/ i = Len(s) + 1
        BY <4>3
      <4>5. ~InWork(p) /\ p < next
        <5>1. wpc[w] \notin {"idle", "exit"}
          BY <3>6 DEF Pushes
        <5>2. ~InWork(p)
          BY <1>2, <2>1, <2>4 DEF OwnInv, WorkOwn, InWork, InRead
        <5> QED
          BY <2>4, <5>1, <5>2, BusyType
      <4> HIDE DEF s, t
      <4>6. \A i \in 1 .. Len(t) : t[i].pad => padding[w]
        BY <3>1, <4>2, <4>3, <4>4 DEF s
      <4>7. \A i \in 1 .. Len(t) : Started(p) => t[i].pad
        <5>1. \A i \in 1 .. Len(s) : Started(p) => s[i].pad
          BY <1>5 DEF PadsOf, s
        <5> QED
          BY <3>1, <4>2, <4>3, <4>4, <5>1
      <4>8. \A i, j \in 1 .. Len(t) : t[i].pad /\ i <= j => t[j].pad
        <5> SUFFICES ASSUME NEW i \in 1 .. Len(t), NEW j \in 1 .. Len(t), t[i].pad, i <= j PROVE t[j].pad
          OBVIOUS
        <5>1. CASE j = Len(s) + 1
          BY <4>2, <4>3, <4>6, <5>1
        <5>2. CASE j \in 1 .. Len(s)
          <6>1. i \in 1 .. Len(s)
            BY <4>3, <5>2
          <6>2. \A a, b \in 1 .. Len(s) : s[a].pad /\ a <= b => s[b].pad
            BY <1>5 DEF PadsOf, s
          <6> QED
            BY <4>3, <5>2, <6>1, <6>2
        <5> QED
          BY <4>4, <5>1, <5>2
      <4>9. Started(p) \/ (\E i \in 1 .. Len(t) : t[i].pad) => warned'[p] /\ padding[w]
        BY <2>2, <3>1, <3>2, <4>6
      <4>10. \A x \in Workers : x # w => cur'[x] # p
        BY <1>2, <1>4, <2>4 DEF OwnInv, ReadOwn
      <4>11. \A x \in Workers : cur'[x] = p /\ padding'[x] => warned'[p]
        BY <3>4, <4>10
      <4>12. Started(p) \/ (\E i \in 1 .. Len(t) : t[i].pad) => \A x \in Workers : cur'[x] = p => padding'[x]
        BY <3>3, <4>9, <4>10
      <4> QED
        BY <1>1, <1>2, <1>5, <2>2, <4>5, <4>7, <4>8, <4>9, <4>11, <4>12 DEF PadsOf, t
    <3> QED
      BY <2>1, <3>5, <3>6
  <2> QED
    BY <2>3, <2>4
<1> QED
  BY <1>7, <1>8

LEMMA WorkerStream ==
  ASSUME TypeInv, OwnInv, StreamInv, NEW w \in Workers, Worker(w)
  PROVE  StreamInv'
<1>1. Emitting'
  BY WorkerFrame DEF StreamInv, Emitting
<1> QED
  BY <1>1, WorkerFilled, WorkerFlow, WorkerPads DEF StreamInv

-----------------------------------------------------------------------------
\* The emitter's steps as the stream sees them.
Stops == ~Running' /\ written' = 0 /\ padded' = 0 /\ chunks' = chunks /\ epos' = epos
Opens == epc = "open" /\ epc' = "header" /\ UNCHANGED <<chunks, epos, written, padded>> /\ ~openErr[epos]
Announces == epc = "header" /\ epc' = "copy" /\ UNCHANGED <<chunks, epos, written, padded>>
Receives ==
  /\ epc = "copy" /\ epc' = "write" /\ chunks[epos] # <<>> /\ ehold' = Head(chunks[epos])
  /\ chunks' = [chunks EXCEPT ![epos] = Tail(@)] /\ UNCHANGED <<epos, written, padded>>
Writes ==
  /\ epc = "write" /\ epc' = "copy" /\ written' = written + ehold.n
  /\ padded' = IF ehold.pad THEN padded + ehold.n ELSE padded
  /\ UNCHANGED <<chunks, epos>>
Closes ==
  /\ epc = "copy" /\ epc' = "open" /\ chunks[epos] = <<>> /\ closed[epos] /\ ~err[epos]
  /\ epos' = epos + 1 /\ written' = 0 /\ padded' = 0 /\ chunks' = chunks

LEMMA EmitterCases ==
  ASSUME Emitting, Emitter
  PROVE  Stops \/ Opens \/ Announces \/ Receives \/ Writes \/ Closes
<1>1. CASE EmitOpen
  BY <1>1 DEF EmitOpen, EmitFails, Stops, Opens, Running
<1>2. CASE EmitHeader
  BY <1>2 DEF EmitHeader, EmitFails, Stops, Announces, Running
<1>3. CASE EmitReceive
  BY <1>3 DEF EmitReceive, Receives
<1>4. CASE EmitWrite
  BY <1>4 DEF EmitWrite, EmitFails, Stops, Writes, Running
<1>5. CASE EmitClose
  BY <1>5 DEF EmitClose, EmitFails, Stops, Closes, Running
<1>6. CASE EmitEnd \/ CancelSource \/ ClosePipe
  BY <1>6 DEF EmitEnd, CancelSource, ClosePipe, EmitFails, Stops, Running, Emitting
<1> QED
  BY <1>1, <1>2, <1>3, <1>4, <1>5, <1>6 DEF Emitter

LEMMA EmitterStream ==
  ASSUME TypeInv, OwnInv, StreamInv, Emitter
  PROVE  StreamInv'
<1> USE DEF TypeInv, TypeOK, StreamInv
<1>1. UNCHANGED <<next, work, size, openErr, closed, err, warned, cur, remaining, padding, hold>>
      /\ \A x \in Workers : Woken(x)
  BY EmitterFrame, EmitterWakes
<1>2. next \in Int /\ epos \in Int /\ written \in Nat /\ padded \in Nat /\ (\A q \in Seqs : q \in Int)
      /\ (epc \in {"header", "copy", "write"} => epos \in Seqs)
  BY Constants DEF TypeDisp, TypeEmit, Phases, Seqs
<1>3. ehold.n \in Nat /\ ehold.pad \in BOOLEAN
  BY ChunkFields DEF TypeEmit
<1>4. Filled'
  BY <1>1 DEF Filled, Offset, Woken
<1>5. ASSUME NEW p \in Seqs, NEW b \in Nat, ReadTo(p, b), Line(chunks[p], Front(p), b)' PROVE ReadTo(p, b)'
  BY <1>1, <1>5 DEF ReadTo, InWork, Offset
<1>6. ASSUME chunks' = chunks, \A p \in Seqs : p >= epos' => p >= epos /\ Front(p)' = Front(p), Running' => Running
      PROVE  Flow'
  <2>1. ASSUME NEW p \in Seqs, NEW b \in Nat, p >= epos', ReadTo(p, b) PROVE ReadTo(p, b)'
    <3>1. Line(chunks[p], Front(p), b)'
      BY <1>6, <2>1 DEF ReadTo, Line
    <3> QED
      BY <1>5, <2>1, <3>1
  <2> QED
    BY <1>6, <2>1 DEF Flow, Seqs
<1>7. ASSUME chunks' = chunks, \A p \in Seqs : Started(p)' => Started(p)
      PROVE  Pads'
  BY <1>1, <1>7 DEF Pads, PadsOf, InWork
<1>8. CASE Stops
  <2>1. Flow'
    BY <1>8 DEF Stops, Flow
  <2>2. \A p \in Seqs : ~Started(p)'
    BY <1>8 DEF Stops, Started, Running
  <2>3. Pads'
    BY <1>7, <1>8, <2>2 DEF Stops
  <2>4. Emitting'
    BY <1>8 DEF Stops, Emitting, Running
  <2> QED
    BY <1>4, <2>1, <2>3, <2>4
<1>9. CASE Opens \/ Announces
  <2>1. written = 0 /\ padded = 0 /\ UNCHANGED <<epos, written, padded, chunks>>
    BY <1>9 DEF Emitting, Opens, Announces
  <2>2. \A p \in Seqs : Front(p)' = Front(p)
    BY <1>9, <2>1 DEF Front, Opens, Announces
  <2>3. Flow'
    BY <1>6, <1>9, <2>1, <2>2 DEF Running, Opens, Announces
  <2>4. \A p \in Seqs : ~Started(p)'
    BY <1>9, <2>1 DEF Started, Opens, Announces
  <2>5. Emitting'
    BY <1>1, <1>9, <2>1 DEF Emitting, Opens, Announces
  <2> QED
    BY <1>4, <1>7, <2>1, <2>3, <2>4, <2>5
<1>10. CASE Receives
  <2> DEFINE s == chunks[epos]
             t == Tail(chunks[epos])
  <2>1. epos \in Seqs /\ s \in Seq(Chunks) /\ s # <<>>
    BY <1>2, <1>10 DEF Receives, TypeChunks
  <2>2. chunks'[epos] = t /\ (\A p \in Seqs : p # epos => chunks'[p] = chunks[p]) /\ ehold' = s[1] /\ ehold' \in Chunks
    BY <1>10, <2>1, HeadAt, HeadTailType DEF Receives, TypeChunks
  <2>3. /\ Len(s) \in Nat /\ Len(t) = Len(s) - 1 /\ 1 \in 1 .. Len(s)
        /\ \A i \in 1 .. Len(t) : i+1 \in 1 .. Len(s) /\ t[i] = s[i+1]
    BY <2>1, TailAt, LenType, HeadAt
  <2>4. ehold'.n \in Nat /\ ehold'.n > 0
    BY <2>2, ChunkFields
  <2>5. UNCHANGED <<epos, written, padded>> /\ epc = "copy" /\ epc' = "write"
    BY <1>10 DEF Receives
  <2>6. Flow'
    <3>1. ASSUME NEW p \in Seqs, NEW b \in Nat, ReadTo(p, b), p # epos PROVE ReadTo(p, b)'
      <4>1. Line(chunks[p], Front(p), b)'
        BY <2>2, <2>5, <3>1 DEF ReadTo, Line, Front
      <4> QED
        BY <1>5, <3>1, <4>1
    <3>2. ASSUME NEW p \in Seqs, NEW b \in Nat, ReadTo(p, b), p = epos PROVE ReadTo(p, b)'
      <4>1. Line(s, written, b)
        BY <2>5, <3>2 DEF ReadTo, Front
      <4>2. Line(t, written + Head(s).n, b)
        BY <1>2, <2>1, <4>1, LineTail
      <4>3. Front(p)' = written + Head(s).n
        BY <1>10, <2>5, <3>2 DEF Front, Receives
      <4>4. chunks'[p] = t
        BY <2>2, <3>2
      <4> HIDE DEF s, t
      <4>5. Line(chunks[p], Front(p), b)'
        BY <4>2, <4>3, <4>4 DEF Line
      <4> QED
        BY <1>5, <3>2, <4>5
    <3>3. Running
      BY <2>5 DEF Running
    <3> QED
      BY <2>5, <3>1, <3>2, <3>3 DEF Flow, Seqs
  <2>7. PadsOf(epos)
    BY <2>1 DEF Pads
  <2>8. /\ Started(epos) <=> padded > 0
        /\ \A p \in Seqs : Started(p)' <=> p = epos /\ (padded > 0 \/ s[1].pad)
    BY <2>2, <2>5 DEF Started
  <2>9. ASSUME NEW p \in Seqs, p # epos PROVE PadsOf(p)'
    <3>1. PadsOf(p) /\ ~Started(p)'
      BY <2>8, <2>9 DEF Pads
    <3> QED
      BY <1>1, <2>2, <2>9, <3>1 DEF PadsOf, InWork
  <2>10. ~(epos >= next \/ InWork(epos))
    BY <2>1 DEF OwnInv, Fresh, WorkOwn, InWork
  <2> HIDE DEF s, t
  <2>11. \A i \in 1 .. Len(s) : padded > 0 => s[i].pad
    BY <2>7, <2>8 DEF PadsOf, s
  <2>12. \A i, j \in 1 .. Len(s) : s[i].pad /\ i <= j => s[j].pad
    BY <2>7 DEF PadsOf, s
  <2>13. (padded > 0 \/ \E i \in 1 .. Len(s) : s[i].pad) =>
           warned[epos] /\ \A w \in Workers : cur[w] = epos => padding[w]
    BY <2>7, <2>8 DEF PadsOf, s
  <2>14. \A i \in 1 .. Len(t) : padded > 0 \/ s[1].pad => t[i].pad
    <3> SUFFICES ASSUME NEW i \in 1 .. Len(t), padded > 0 \/ s[1].pad PROVE s[i+1].pad
      BY <2>3
    <3>1. i+1 \in 1 .. Len(s) /\ 1 <= i+1
      BY <2>3
    <3> QED
      BY <2>3, <2>11, <2>12, <3>1
  <2>15. \A i, j \in 1 .. Len(t) : t[i].pad /\ i <= j => t[j].pad
    <3> SUFFICES ASSUME NEW i \in 1 .. Len(t), NEW j \in 1 .. Len(t), s[i+1].pad, i <= j PROVE s[j+1].pad
      BY <2>3
    <3>1. i+1 \in 1 .. Len(s) /\ j+1 \in 1 .. Len(s) /\ i+1 <= j+1
      BY <2>3
    <3> QED
      BY <2>12, <3>1
  <2>16. (padded > 0 \/ s[1].pad \/ \E i \in 1 .. Len(t) : t[i].pad) =>
           warned[epos] /\ \A w \in Workers : cur[w] = epos => padding[w]
    BY <2>3, <2>13
  <2>17. \A w \in Workers : cur[w] = epos /\ padding[w] => warned[epos]
    BY <2>7 DEF PadsOf
  <2>18. ASSUME NEW p \in Seqs, p = epos PROVE PadsOf(p)'
    <3>1. chunks'[p] = t /\ (Started(p)' <=> padded > 0 \/ s[1].pad)
      BY <2>2, <2>8, <2>18
    <3>2. ~(p >= next' \/ InWork(p)')
      BY <1>1, <2>10, <2>18 DEF InWork
    <3> QED
      BY <1>1, <2>14, <2>15, <2>16, <2>17, <2>18, <3>1, <3>2 DEF PadsOf
  <2>19. Pads'
    BY <2>9, <2>18 DEF Pads, Seqs
  <2>20. Emitting'
    BY <1>1, <2>2, <2>3, <2>4, <2>5, <2>11 DEF Emitting
  <2> QED
    BY <1>4, <2>6, <2>19, <2>20
<1>11. CASE Writes
  <2>1. UNCHANGED <<chunks, epos>> /\ epc = "write" /\ epc' = "copy" /\ written' = written + ehold.n /\ ehold.n > 0
    BY <1>11 DEF Writes, Emitting
  <2>2. \A p \in Seqs : Front(p)' = Front(p)
    BY <2>1 DEF Front
  <2>3. Flow'
    BY <1>6, <2>1, <2>2 DEF Running
  <2>4. padded' > 0 => padded > 0 \/ ehold.pad
    BY <1>2, <1>3, <1>11 DEF Writes
  <2>5. \A p \in Seqs : Started(p)' => Started(p)
    BY <2>1, <2>4 DEF Started
  <2>6. Emitting'
    BY <1>1, <2>1 DEF Emitting
  <2> QED
    BY <1>4, <1>7, <2>1, <2>3, <2>5, <2>6
<1>12. CASE Closes
  <2>1. \A p \in Seqs : p >= epos' => p >= epos /\ Front(p)' = Front(p)
    BY <1>2, <1>12 DEF Closes, Front
  <2>2. Flow'
    BY <1>6, <1>12, <2>1 DEF Closes, Running
  <2>3. \A p \in Seqs : ~Started(p)'
    BY <1>12 DEF Closes, Started
  <2>4. Emitting'
    BY <1>12 DEF Closes, Emitting
  <2> QED
    BY <1>4, <1>7, <1>12, <2>2, <2>3, <2>4 DEF Closes
<1> QED
  BY <1>8, <1>9, <1>10, <1>11, <1>12, EmitterCases

LEMMA StreamInit == Init => StreamInv
<1> SUFFICES ASSUME Init PROVE StreamInv
  OBVIOUS
<1>1. Len(work) = 0 /\ (\A p \in Seqs : chunks[p] = <<>> /\ Len(chunks[p]) = 0) /\ (\A q \in Seqs : q \in Int) /\ -1 \notin Seqs
  BY Constants DEF Init, Seqs
<1>2. Filled /\ Emitting
  BY DEF Init, Filled, Emitting
<1>3. Pads
  BY <1>1 DEF Init, Pads, PadsOf, Started, InWork
<1>4. \A p \in Seqs : ReadTo(p, 0)
  <2> SUFFICES ASSUME NEW p \in Seqs PROVE ReadTo(p, 0)
    OBVIOUS
  <2>1. Front(p) = 0
    BY DEF Init, Front
  <2>2. Line(chunks[p], Front(p), 0)
    BY <1>1, <2>1 DEF Line
  <2> QED
    BY <1>1, <2>2 DEF Init, ReadTo
<1> QED
  BY <1>2, <1>3, <1>4 DEF StreamInv, Flow

LEMMA StreamStep == TypeInv /\ SlotInv /\ OwnInv /\ StreamInv /\ [Next]_vars => StreamInv'
<1> SUFFICES ASSUME TypeInv, SlotInv, OwnInv, StreamInv, [Next]_vars PROVE StreamInv'
  OBVIOUS
<1>1. ASSUME UNCHANGED <<next, work, size, openErr, chunks, closed, err, warned, cur, remaining, padding, hold,
                         epc, epos, ehold, written, padded>>, \A x \in Workers : Woken(x)
      PROVE  StreamInv'
  <2>1. Flow'
    <3>1. ASSUME NEW p \in Seqs, NEW b \in Nat, ReadTo(p, b) PROVE ReadTo(p, b)'
      BY <1>1, <3>1 DEF ReadTo, Line, Front, InWork, Offset
    <3> QED
      BY <1>1, <3>1 DEF StreamInv, Flow, Running, Seqs
  <2>2. Filled'
    BY <1>1 DEF StreamInv, Filled, Offset, Woken
  <2>3. Pads'
    BY <1>1 DEF StreamInv, Pads, PadsOf, Started, InWork, Seqs
  <2>4. Emitting'
    BY <1>1 DEF StreamInv, Emitting
  <2> QED
    BY <2>1, <2>2, <2>3, <2>4 DEF StreamInv
<1>2. CASE WakeOnCancel \/ UserCancel
  BY <1>1, <1>2, CancelFrame, EmitterWakes DEF TypeInv, TypeOK
<1>3. CASE UNCHANGED vars
  BY <1>1, <1>3 DEF vars, dispVars, payVars, workVars, emitVars, Woken
<1> QED
  BY <1>2, <1>3, DispatchStream, WorkerStream, EmitterStream DEF Next

-----------------------------------------------------------------------------
\* The size the reader of the archive knows.
Announced == IF epc \in {"copy", "write"} THEN size[epos] ELSE -1

\* Every step that changes what the stream shows is a step of PayloadStream.
LEMMA EmitterRefines ==
  ASSUME TypeInv, StreamInv, Emitter
  PROVE  Promise!Next \/ UNCHANGED Promise!streamVars
<1> USE DEF TypeInv, TypeOK, StreamInv
<1>1. size' = size
  BY EmitterFrame
<1>2. epos \in Int /\ written \in Nat /\ padded \in Nat
      /\ (epc \in {"header", "copy", "write"} => epos \in Seqs /\ size[epos] \in Nat)
  BY Constants, SizeType DEF TypeEmit, Phases, BoundSize, Seqs
<1>3. ehold.n \in Nat /\ ehold.pad \in BOOLEAN
  BY ChunkFields DEF TypeEmit
<1>4. epc \in {"copy", "write"} => \E b \in Nat : ReadTo(epos, b) /\ Line(chunks[epos], Front(epos), b)
  <2> SUFFICES ASSUME epc \in {"copy", "write"} PROVE \E b \in Nat : ReadTo(epos, b) /\ Line(chunks[epos], Front(epos), b)
    OBVIOUS
  <2>1. Running /\ epos >= epos /\ epos \in Seqs
    BY <1>2 DEF Running
  <2>2. PICK b \in Nat : ReadTo(epos, b)
    BY <2>1 DEF Flow
  <2> QED
    BY <2>2 DEF ReadTo
<1>5. ASSUME EmitFails, Running PROVE Promise!Fail
  <2>1. result = "running" /\ epc' = "cancel" /\ result' = "error" /\ written' = 0 /\ padded' = 0 /\ UNCHANGED <<epos, reported>>
    BY <1>5 DEF EmitFails, Phases
  <2> QED
    BY <2>1 DEF Promise!Fail
<1>6. ASSUME UNCHANGED <<epos, written, padded, reported, result>>, Announced' = Announced
      PROVE  UNCHANGED Promise!streamVars
  BY <1>6 DEF Promise!streamVars, Announced
<1>7. CASE EmitOpen
  <2>1. CASE EmitFails
    BY <1>5, <1>7, <2>1 DEF EmitOpen, Running, Promise!Next
  <2>2. CASE epc = "open" /\ epc' = "header" /\ UNCHANGED <<epos, written, padded, reported, result>>
    BY <1>6, <2>2 DEF Announced
  <2> QED
    BY <1>7, <2>1, <2>2 DEF EmitOpen
<1>8. CASE EmitHeader
  <2>1. CASE EmitFails
    BY <1>5, <1>8, <2>1 DEF EmitHeader, Running, Promise!Next
  <2>2. CASE epc' = "copy" /\ UNCHANGED <<epos, written, padded, reported, result>>
    <3>1. epc = "header" /\ epos < N /\ result = "running" /\ written = 0 /\ padded = 0 /\ size[epos] \in Nat
      BY <1>2, <1>8 DEF EmitHeader, Phases, Running, Emitting
    <3>2. Promise!Begin
      BY <1>1, <2>2, <3>1 DEF Promise!Begin
    <3> QED
      BY <3>2 DEF Promise!Next
  <2> QED
    BY <1>8, <2>1, <2>2 DEF EmitHeader
<1>9. CASE EmitReceive
  BY <1>1, <1>6, <1>9 DEF EmitReceive, Announced
<1>10. CASE EmitWrite
  <2>1. CASE EmitFails
    BY <1>5, <1>10, <2>1 DEF EmitWrite, Running, Promise!Next
  <2>2. CASE /\ written' = written + ehold.n /\ padded' = (IF ehold.pad THEN padded + ehold.n ELSE padded)
             /\ epc' = "copy" /\ UNCHANGED <<epos, reported, result>>
    <3>1. epc = "write" /\ result = "running" /\ size[epos] \in Nat /\ ehold.n > 0 /\ (padded > 0 => ehold.pad)
      BY <1>2, <1>10 DEF EmitWrite, Phases, Running, Emitting
    <3>2. PICK b \in Nat : ReadTo(epos, b) /\ Line(chunks[epos], written + ehold.n, b)
      BY <1>4, <3>1 DEF Front
    <3>3. written + ehold.n <= b
      <4>1. CASE chunks[epos] = <<>>
        BY <1>2, <1>3, <3>2, <4>1 DEF Line
      <4>2. CASE chunks[epos] # <<>>
        <5>1. chunks[epos] \in Seq(Chunks) /\ written + ehold.n \in Nat
          BY <1>2, <1>3, <3>1 DEF TypeChunks
        <5>2. Head(chunks[epos]).n \in Nat /\ written + ehold.n + Head(chunks[epos]).n <= b
          BY <3>2, <4>2, <5>1, LineTail
        <5> QED
          BY <5>1, <5>2
      <4> QED
        BY <4>1, <4>2
    <3>4. b <= size[epos]
      BY <1>2, <1>3, <3>1, <3>2, <3>3 DEF ReadTo
    <3>5. written' \in (written + 1) .. size[epos]
      BY <1>2, <1>3, <2>2, <3>1, <3>3, <3>4
    <3>6. (padded = 0 /\ padded' = 0) \/ padded' = padded + (written' - written)
      BY <1>2, <1>3, <2>2, <3>1
    <3>7. size[epos] # -1
      BY <3>1
    <3>8. Promise!Write
      BY <1>1, <2>2, <3>1, <3>5, <3>6, <3>7 DEF Promise!Write
    <3> QED
      BY <3>8 DEF Promise!Next
  <2> QED
    BY <1>10, <2>1, <2>2 DEF EmitWrite
<1>11. CASE EmitClose
  <2>1. CASE EmitFails
    BY <1>5, <1>11, <2>1 DEF EmitClose, Running, Promise!Next
  <2>2. CASE /\ ~err[epos] /\ epc' = "open" /\ epos' = epos + 1 /\ written' = 0 /\ padded' = 0
             /\ reported' = (IF warned[epos] THEN reported \union {epos} ELSE reported)
             /\ UNCHANGED result
    <3>1. epc = "copy" /\ chunks[epos] = <<>> /\ closed[epos] /\ result = "running" /\ epos \in Seqs /\ size[epos] \in Nat /\ ~openErr[epos]
      BY <1>2, <1>11 DEF EmitClose, Phases, Running, Emitting
    <3>2. PICK b \in Nat : ReadTo(epos, b) /\ Line(chunks[epos], written, b)
      BY <1>4, <3>1 DEF Front
    <3>3. written = size[epos]
      BY <2>2, <3>1, <3>2 DEF ReadTo, Line
    <3>4. padded > 0 => warned[epos]
      BY <3>1 DEF Pads, PadsOf, Started
    <3>5. size[epos] # -1
      BY <3>1
    <3>6. /\ padded > 0 => epos \in reported'
          /\ reported' \in {reported, reported \union {epos}}
      BY <2>2, <3>4
    <3>7. Promise!End
      BY <1>1, <2>2, <3>1, <3>3, <3>5, <3>6 DEF Promise!End
    <3> QED
      BY <3>7 DEF Promise!Next
  <2> QED
    BY <1>11, <2>1, <2>2 DEF EmitClose
<1>12. CASE EmitEnd
  <2>1. CASE EmitFails
    BY <1>5, <1>12, <2>1 DEF EmitEnd, Running, Promise!Next
  <2>2. CASE epc' = "cancel" /\ result' = "ok" /\ UNCHANGED <<written, padded, epos, reported>>
    <3>1. epc = "open" /\ epos = N /\ result = "running"
      BY <1>12 DEF EmitEnd, Phases, Running
    <3>2. Promise!Complete
      BY <2>2, <3>1 DEF Promise!Complete
    <3> QED
      BY <3>2 DEF Promise!Next
  <2> QED
    BY <1>12, <2>1, <2>2 DEF EmitEnd
<1>13. CASE CancelSource \/ ClosePipe
  BY <1>6, <1>13 DEF CancelSource, ClosePipe, Announced
<1> QED
  BY <1>7, <1>8, <1>9, <1>10, <1>11, <1>12, <1>13 DEF Emitter

LEMMA StepRefines == TypeInv /\ SlotInv /\ StreamInv /\ [Next]_vars => [Promise!Next]_(Promise!streamVars)
<1> SUFFICES ASSUME TypeInv, SlotInv, StreamInv, [Next]_vars PROVE Promise!Next \/ UNCHANGED Promise!streamVars
  OBVIOUS
<1>1. ASSUME UNCHANGED <<epc, epos, written, padded, reported, result>>,
             epc \in {"copy", "write"} => size'[epos] = size[epos]
      PROVE  UNCHANGED Promise!streamVars
  BY <1>1 DEF Promise!streamVars
<1>2. CASE Dispatch
  <2>1. UNCHANGED <<epc, epos, written, padded, reported, result>>
    BY <1>2, DispatchFrame
  <2>2. epc \in {"copy", "write"} => size'[epos] = size[epos]
    <3>1. CASE Binds
      <4>1. epc \in {"copy", "write"} => epos # next
        <5>1. next \in Int /\ epos \in Int /\ Len(delivery) \in Nat
          BY Constants, LenType DEF TypeInv, TypeOK, TypeDisp, TypeEmit
        <5> QED
          BY <3>1, <5>1 DEF Binds, SlotInv, Order, Running, First
      <4>2. epc \in {"copy", "write"} => epos \in Seqs
        BY Constants DEF TypeInv, TypeOK, TypeEmit, Phases, Seqs
      <4> QED
        BY <3>1, <4>1, <4>2 DEF Binds, TypeInv, TypeOK, TypePay
    <3>2. CASE Delivers \/ HandsOver \/ Leaves
      BY <3>2 DEF Delivers, HandsOver, Leaves
    <3> QED
      BY <1>2, <3>1, <3>2, DispatchCases
  <2> QED
    BY <1>1, <2>1, <2>2
<1>3. ASSUME NEW w \in Workers, Worker(w) PROVE UNCHANGED Promise!streamVars
  BY <1>1, <1>3, WorkerFrame
<1>4. CASE WakeOnCancel \/ UserCancel
  BY <1>1, <1>4, CancelFrame
<1>5. CASE UNCHANGED vars
  BY <1>1, <1>5 DEF vars, emitVars, payVars
<1> QED
  BY <1>2, <1>3, <1>4, <1>5, EmitterRefines DEF Next

LEMMA InitRefines == Init => Promise!Init
  BY DEF Init, Promise!Init

\* What the emitter of GenerateV1 writes, whatever the dispatcher, the workers and the
\* budget of src/archive/async.go do meanwhile, is a payload stream: plan order, exactly the
\* announced size for every payload, padding only at its end and always reported.
THEOREM ImplementsPayloadStream == Spec => RefinesPayloadStream
<1>1. Spec => [](TypeInv /\ SlotInv /\ OwnInv /\ StreamInv)
  BY OwnInvariant, StreamInit, StreamStep, PTL DEF Spec
<1>2. Spec => Promise!Init /\ [][Promise!Next]_(Promise!streamVars)
  BY <1>1, InitRefines, StepRefines, PTL DEF Spec
<1> QED
  BY <1>2 DEF RefinesPayloadStream, Promise!Spec
=============================================================================
