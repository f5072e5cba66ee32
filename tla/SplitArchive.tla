---------------------------- MODULE SplitArchive ----------------------------
(***************************************************************************)
(* Generating a split (v2) archive and handing it to the upload:           *)
(* src/archive/archive.go (GenerateV2), emitv2.go, refs.go, previous.go    *)
(* and emit.go in v2 mode, with the readers of the two streams that        *)
(* src/pbs/upload.go and gopbs.go provide.                                 *)
(*                                                                         *)
(* The metadata stream refers into the payload stream by offset, computed  *)
(* from sizes the payload side publishes in a ledger before the bytes      *)
(* exist, and from the layout of the previous snapshot for files that are  *)
(* not read again.  Both streams are pipes without a buffer.               *)
(*                                                                         *)
(* Lengths are in abstract units: a marker and a payload header take one.  *)
(* The reading of file content (workers, buffers) is AsyncSource's; here a *)
(* payload handed to the workers yields its bound size or an error.        *)
(***************************************************************************)
EXTENDS Integers, Sequences, FiniteSets, FiniteSetsExt

CONSTANTS
  N,          \* regular files of the plan, 1 .. N
  Window,     \* dispatch-window slots of the asynchronous source
  Sizes,      \* bound: content sizes considered
  Layouts,    \* bound: previous snapshots considered
  PadNum, PadDen, \* the padding threshold PadNum / PadDen
  MayFail,    \* opens and reads of the source, and links, may fail
  MayGiveUp,  \* requests of the uploads may fail
  MayCancel   \* the caller may cancel its context

Files == 1 .. N
Streams == {"meta", "payload"}
MarkerSize == 1
HeaderSize == 1

\* A previous snapshot: where its payload stream holds the record of each file (-1: it has
\* no such file), the file's size, and the end offsets of the stream's chunks.  LoadPrevious
\* refuses end offsets that do not ascend; records do not overlap.
IsPrevious(L) ==
  /\ L.off \in [Files -> Nat \union {-1}] /\ L.size \in [Files -> Nat]
  /\ L.cuts \in Seq(Nat)
  /\ \A i \in 2 .. Len(L.cuts) : L.cuts[i-1] < L.cuts[i]
  /\ \A f, g \in Files : f # g /\ L.off[f] >= 0 /\ L.off[g] >= L.off[f] =>
       L.off[g] >= L.off[f] + HeaderSize + L.size[f]

ASSUME SplitConstants ==
  /\ N \in Nat /\ Window \in Nat \ {0} /\ Sizes \subseteq Nat
  /\ \A L \in Layouts : IsPrevious(L)
  /\ PadNum \in Nat /\ PadDen \in Nat \ {0}
  /\ MayFail \in BOOLEAN /\ MayGiveUp \in BOOLEAN /\ MayCancel \in BOOLEAN

VARIABLES
  prev, changed, async,  \* the previous snapshot, the files that differ, Workers > 1
  plan,                  \* planReuse's decision for each file
  canceled, userCanceled, \* genCtx is done; the caller canceled
  \* the ledger
  sizes, lerr, watching,
  \* the dispatcher (asynchronous mode)
  dpc, bound, window, delivered, handed,
  \* the emitters: program counter, position in the plan, inside a pipe write, outcome
  pc, pos, inPipe, outcome,
  refOffset, refs, pay,
  \* the readers of the two pipes and their uploads; failed: bound to return an error
  rpc, failed, ret

planVars == <<prev, changed, async, plan>>
ctxVars  == <<canceled, userCanceled>>
dispVars == <<dpc, bound, delivered, handed>>
readVars == <<failed, ret>>
vars == <<planVars, ctxVars, sizes, lerr, watching, dispVars, window, pc, pos, inPipe, outcome,
          refOffset, refs, pay, rpc, readVars>>

-----------------------------------------------------------------------------
(***************************************************************************)
(* planReuse: maximal runs of unchanged files with ascending previous      *)
(* records; a run is reused if the chunks that cover it hold little else.  *)
(***************************************************************************)
Unchanged(L, C, i) == L.off[i] # -1 /\ i \notin C

JoinsAnyOrder(L, C, i) ==              \* a mutant: the records need not ascend
  i > 1 /\ Unchanged(L, C, i-1) /\ Unchanged(L, C, i)
JoinsRun(L, C, i) ==
  i > 1 /\ Unchanged(L, C, i-1) /\ Unchanged(L, C, i) /\ L.off[i] > L.off[i-1]

RunHead(L, C, i) == Max({h \in 1 .. i : ~JoinsRun(L, C, h)})
RunLast(L, C, i) == Min({k \in i .. N : k = N \/ ~JoinsRun(L, C, k + 1)})

RecordLen(size) == HeaderSize + size

\* chunksFor: the first and last chunk of the range [start, end), and where they lie.
CutBefore(L, c) == IF c = 1 THEN 0 ELSE L.cuts[c-1]
FirstChunk(L, start) == Min({c \in 1 .. Len(L.cuts) : L.cuts[c] > start})
LastChunk(L, end) == Min({c \in 1 .. Len(L.cuts) : L.cuts[c] >= end})
InIndex(L, end) == L.cuts # <<>> /\ end <= L.cuts[Len(L.cuts)]

\* The span of chunks that covers the run from h to k.
SpanFrom(L, h) == CutBefore(L, FirstChunk(L, L.off[h]))
RunEnd(L, k) == L.off[k] + RecordLen(L.size[k])
SpanTo(L, k) == L.cuts[LastChunk(L, RunEnd(L, k))]

\* The chunks of the span hold little besides the run.
LittlePadding(L, h, k) ==
  LET used == MapThenSumSet(LAMBDA f : RecordLen(L.size[f]), h .. k)
      total == SpanTo(L, k) - SpanFrom(L, h)
  IN total >= used /\ (total - used) * PadDen <= PadNum * total

Accept(L, h, k) == InIndex(L, RunEnd(L, k)) /\ LittlePadding(L, h, k)

Reused(L, C, i) ==
  Unchanged(L, C, i) /\ Accept(L, RunHead(L, C, i), RunLast(L, C, i))

\* The entry of file i: read as number readSeq of the source, or at rel in the injected
\* span from .. to-1 of the previous stream, which the head of the run carries.
PlanReuse(L, C) ==
  [i \in Files |->
     IF Reused(L, C, i)
       THEN LET h == RunHead(L, C, i)
                k == RunLast(L, C, i) IN
            [reuse |-> TRUE, readSeq |-> 0, rel |-> L.off[i] - SpanFrom(L, h), size |-> L.size[i],
             head |-> i = h, last |-> i = k, from |-> SpanFrom(L, h), to |-> SpanTo(L, k)]
       ELSE [reuse |-> FALSE, readSeq |-> Cardinality({j \in 1 .. i-1 : ~Reused(L, C, j)}) + 1,
             rel |-> 0, size |-> 0, head |-> FALSE, last |-> FALSE, from |-> 0, to |-> 0]]

Reads == {i \in Files : ~plan[i].reuse}

\* The payload stream unit by unit: <<f, k, s>> is unit k of the record of file f with
\* size s (k = 0 is the header); anything else is Other.
Other == <<0, 0, 0>>
Record(f, s) == [k \in 1 .. RecordLen(s) |-> <<f, k-1, s>>]
PreviousUnit(p) ==
  LET S == {f \in Files : prev.off[f] # -1 /\ p \in prev.off[f] .. prev.off[f] + prev.size[f]}
  IN IF S = {} THEN Other ELSE LET f == CHOOSE g \in S : TRUE IN <<f, p - prev.off[f], prev.size[f]>>
Injected(e) == [k \in 1 .. e.to - e.from |-> PreviousUnit(e.from + k - 1)]

Init ==
  /\ prev \in Layouts /\ changed \in SUBSET {f \in Files : prev.off[f] # -1} /\ async \in BOOLEAN
  /\ plan = PlanReuse(prev, changed)
  /\ canceled = FALSE /\ userCanceled = FALSE
  /\ sizes = <<>> /\ lerr = FALSE /\ watching = TRUE
  /\ dpc = IF async THEN "slot" ELSE "exit"
  /\ bound = <<>> /\ window = 0 /\ delivered = 0 /\ handed = 0
  /\ pc = [s \in Streams |-> "start"] /\ pos = [s \in Streams |-> 1]
  /\ inPipe = [s \in Streams |-> FALSE] /\ outcome = [s \in Streams |-> "running"]
  /\ refOffset = MarkerSize /\ refs = <<>> /\ pay = <<>>
  /\ rpc = [s \in Streams |-> "setup"]
  /\ failed = [s \in Streams |-> FALSE]
  /\ ret = [s \in Streams |-> "none"]

-----------------------------------------------------------------------------
(***************************************************************************)
(* Pipes and the uploads that read them.  A write passes countWriter's     *)
(* test of the context and then waits for the reader; it fails when the    *)
(* reader has been closed.                                                 *)
(***************************************************************************)
Taken(s) == rpc[s] = "read"

\* The reader takes a write; whether it completes a chunk is up to EmitChunk.
Take(s) == rpc' = [rpc EXCEPT ![s] = "emit"]

EmitterFails(s) ==
  /\ pc' = [pc EXCEPT ![s] = "fail"]
  /\ outcome' = [outcome EXCEPT ![s] = "error"]
  /\ UNCHANGED pos

\* The upload of s sees its context done: it failed, the other one did, or the caller
\* canceled.
Gone(s) == failed[s] \/ userCanceled \/ \E t \in Streams : ret[t] = "error"

\* The requests before the pipeline starts; a failure returns without reading anything.
Setup(s) ==
  /\ rpc[s] = "setup"
  /\ \/ rpc' = [rpc EXCEPT ![s] = "read"] /\ UNCHANGED ret
     \/ /\ MayGiveUp \/ Gone(s)
        /\ rpc' = [rpc EXCEPT ![s] = "ended"]
        /\ ret' = [ret EXCEPT ![s] = "error"]
  /\ UNCHANGED failed

\* A worker or the collector of the upload fails (a failure that follows another one
\* changes nothing).
UploadFails(s) ==
  /\ MayGiveUp /\ rpc[s] \in {"read", "emit"} /\ ~Gone(s)
  /\ failed' = [failed EXCEPT ![s] = TRUE]
  /\ UNCHANGED <<rpc, ret>>

\* The producer reads on, having passed a chunk to the workers or not completed one; with
\* a chunk in hand it may instead give up once the context is done.
EmitChunk(s) ==
  /\ rpc[s] = "emit"
  /\ \/ rpc' = [rpc EXCEPT ![s] = "read"] /\ UNCHANGED failed
     \/ /\ Gone(s)
        /\ rpc' = [rpc EXCEPT ![s] = "ended"]
        /\ failed' = [failed EXCEPT ![s] = TRUE]
  /\ UNCHANGED ret

\* The pipe was closed by its emitter: the end of the stream, or an error.
AlwaysEOF(s) == FALSE                  \* a mutant: the pipe is closed without the error
ClosedWithError(s) == outcome[s] = "error"

ReadEnd(s) ==
  /\ rpc[s] = "read" /\ pc[s] = "closed"
  /\ rpc' = [rpc EXCEPT ![s] = "ended"]
  /\ failed' = [failed EXCEPT ![s] = @ \/ ClosedWithError(s)]
  /\ UNCHANGED ret

\* uploadIndexStream returns once its producer has ended.
UploadReturns(s) ==
  /\ rpc[s] = "ended" /\ ret[s] = "none"
  /\ \/ ~failed[s] /\ ret' = [ret EXCEPT ![s] = "ok"]
     \/ /\ failed[s] \/ MayGiveUp \/ Gone(s)
        /\ ret' = [ret EXCEPT ![s] = "error"]
  /\ UNCHANGED <<rpc, failed>>

Upload(s) ==
  /\ Setup(s) \/ UploadFails(s) \/ EmitChunk(s) \/ ReadEnd(s) \/ UploadReturns(s)
  /\ UNCHANGED <<planVars, ctxVars, sizes, lerr, watching, dispVars, window, pc, pos, inPipe,
                 outcome, refOffset, refs, pay>>

\* Backup closes both readers when UploadPXARv2 has returned.
CloseReaders ==
  /\ \A s \in Streams : ret[s] # "none" /\ rpc[s] # "closed"
  /\ rpc' = [s \in Streams |-> "closed"]
  /\ UNCHANGED <<planVars, ctxVars, sizes, lerr, watching, dispVars, window, pc, pos, inPipe,
                 outcome, refOffset, refs, pay, readVars>>

-----------------------------------------------------------------------------
(***************************************************************************)
(* The ledger of bound sizes.  get keeps the mutex from its test of the    *)
(* done channel until cond.Wait has put it on the wait list ("wait");      *)
(* publish and fail need the mutex, the watcher broadcasts without it.     *)
(***************************************************************************)
LedgerFree == pc["meta"] # "wait"
Woken(p) == [p EXCEPT !["meta"] = IF @ = "sleep" THEN "get" ELSE @]

\* A bind that failed (size -1) poisons the ledger; after that nothing is recorded.
Publish(s) ==
  /\ sizes' = IF lerr \/ s = -1 THEN sizes ELSE Append(sizes, s)
  /\ lerr' = (lerr \/ s = -1)

WakeOnCancel ==
  /\ canceled /\ watching
  /\ watching' = FALSE
  /\ pc' = Woken(pc)
  /\ UNCHANGED <<planVars, ctxVars, sizes, lerr, dispVars, window, pos, inPipe, outcome,
                 refOffset, refs, pay, rpc, readVars>>

\* Opening a payload fixes its size.
Binds == Sizes \union (IF MayFail THEN {-1} ELSE {})

-----------------------------------------------------------------------------
(***************************************************************************)
(* The dispatcher of the asynchronous source.  Both of its queues have     *)
(* room whenever it holds a slot (AsyncSource, WindowHolds).               *)
(***************************************************************************)
DispatchExit == canceled /\ dpc' = "exit" /\ UNCHANGED <<sizes, lerr, pc, bound, window, delivered, handed>>

DispatchBind ==
  /\ dpc = "slot" /\ Len(bound) < Cardinality(Reads)
  /\ \/ /\ window < Window /\ LedgerFree
        /\ \E s \in Binds : bound' = Append(bound, s) /\ Publish(s)
        /\ window' = window + 1
        /\ pc' = Woken(pc)
        /\ dpc' = "deliver"
        /\ UNCHANGED <<delivered, handed>>
     \/ DispatchExit

DispatchDeliver ==
  /\ dpc = "deliver"
  /\ \/ /\ delivered' = Len(bound)
        /\ dpc' = IF bound[Len(bound)] = -1 THEN "slot" ELSE "work"
        /\ UNCHANGED <<sizes, lerr, pc, bound, window, handed>>
     \/ DispatchExit

DispatchWork ==
  /\ dpc = "work"
  /\ \/ /\ handed' = Len(bound)
        /\ dpc' = "slot"
        /\ UNCHANGED <<sizes, lerr, pc, bound, window, delivered>>
     \/ DispatchExit

DispatchDone ==
  /\ dpc = "slot" /\ Len(bound) = Cardinality(Reads)
  /\ dpc' = "exit"
  /\ UNCHANGED <<sizes, lerr, pc, bound, window, delivered, handed>>

Dispatch ==
  /\ DispatchBind \/ DispatchDeliver \/ DispatchWork \/ DispatchDone
  /\ UNCHANGED <<planVars, ctxVars, watching, pos, inPipe, outcome, refOffset, refs, pay, rpc, readVars>>

-----------------------------------------------------------------------------
(***************************************************************************)
(* The emitters.  Writes of an emitter:                                    *)
(***************************************************************************)
Writes(s) == IF s = "meta" THEN {"start", "entry", "ref", "goodbye"}
                           ELSE {"start", "inject", "header", "content", "tail"}

\* A payload that was opened gives its slot back when it is closed.
SlotReturned(closing) == IF async /\ closing THEN window - 1 ELSE window
HasPayload(s) == s = "payload" /\ pc[s] \in {"header", "copy", "content"}

\* countWriter tests the context; an injection goes past it to the pipe.
BeginWrite(s) ==
  /\ pc[s] \in Writes(s) /\ ~inPipe[s]
  /\ \/ /\ ~canceled \/ pc[s] = "inject"
        /\ inPipe' = [inPipe EXCEPT ![s] = TRUE]
        /\ UNCHANGED <<pc, pos, outcome, window>>
     \/ /\ canceled /\ pc[s] # "inject"
        /\ EmitterFails(s)
        /\ window' = SlotReturned(HasPayload(s))
        /\ UNCHANGED inPipe
  /\ UNCHANGED <<planVars, ctxVars, sizes, lerr, watching, dispVars, refOffset, refs, pay, rpc, readVars>>

\* The reader was closed.
WriteRefused(s) ==
  /\ inPipe[s] /\ rpc[s] = "closed"
  /\ inPipe' = [inPipe EXCEPT ![s] = FALSE]
  /\ EmitterFails(s)
  /\ window' = SlotReturned(HasPayload(s))
  /\ UNCHANGED <<planVars, ctxVars, sizes, lerr, watching, dispVars, refOffset, refs, pay, rpc, readVars>>

Moves(s, q, p) == pos' = [pos EXCEPT ![s] = q] /\ pc' = [pc EXCEPT ![s] = p]
Completes(s) == outcome' = [outcome EXCEPT ![s] = IF pc'[s] = "closed" THEN "ok" ELSE @]

\* The next entry with something to do: a file to read, or the chunks of a run.
NextEntry(i) == Min({q \in i .. N : ~plan[q].reuse \/ plan[q].head} \union {N + 1})
PayloadPc(q) == IF q > N THEN "tail" ELSE IF plan[q].reuse THEN "inject" ELSE "open"
Advance(i) == Moves("payload", NextEntry(i), PayloadPc(NextEntry(i)))
ReadSeq == plan[pos["payload"]].readSeq

\* The payload stream: marker, records and injected chunks in plan order, marker.
PayloadWritten ==
  LET i == pos["payload"] IN
  /\ inPipe["payload"] /\ Taken("payload") /\ Take("payload")
  /\ inPipe' = [inPipe EXCEPT !["payload"] = FALSE]
  /\ CASE pc["payload"] = "start"   -> pay' = <<Other>> /\ Advance(1)
       [] pc["payload"] = "inject"  -> pay' = pay \o Injected(plan[i]) /\ Advance(i + 1)
       [] pc["payload"] = "header"  -> pay' = Append(pay, Record(i, bound[ReadSeq])[1]) /\ Moves("payload", i, "copy")
       [] pc["payload"] = "content" -> pay' = pay \o Tail(Record(i, bound[ReadSeq])) /\ Advance(i + 1)
       [] pc["payload"] = "tail"    -> pay' = Append(pay, Other) /\ Moves("payload", i, "closed")
  /\ Completes("payload")
  /\ window' = SlotReturned(pc["payload"] = "content")
  /\ UNCHANGED <<planVars, ctxVars, sizes, lerr, watching, dispVars, refOffset, refs, readVars>>

\* open: the next delivered payload, or (synchronously) open and publish its size here.
OpenPayload ==
  LET i == pos["payload"] IN
  /\ pc["payload"] = "open"
  /\ \/ /\ async /\ delivered >= ReadSeq
        /\ IF bound[ReadSeq] = -1
             THEN EmitterFails("payload") /\ window' = SlotReturned(TRUE)
             ELSE Moves("payload", i, "header") /\ UNCHANGED <<outcome, window>>
        /\ UNCHANGED <<bound, sizes, lerr>>
     \/ /\ async /\ canceled
        /\ EmitterFails("payload")
        /\ UNCHANGED <<bound, sizes, lerr, window>>
     \/ /\ ~async /\ LedgerFree
        /\ \E s \in Binds :
             /\ bound' = Append(bound, s)
             /\ Publish(s)
             /\ pc' = Woken([pc EXCEPT !["payload"] = IF s = -1 THEN "fail" ELSE "header"])
             /\ outcome' = [outcome EXCEPT !["payload"] = IF s = -1 THEN "error" ELSE @]
        /\ UNCHANGED <<pos, window>>
  /\ UNCHANGED <<planVars, ctxVars, watching, dpc, delivered, handed, inPipe, refOffset, refs, pay, rpc, readVars>>

\* Copy: the content, or an error of the source; a payload no worker got has neither.
CopyPayload ==
  LET i == pos["payload"]
      s == bound[ReadSeq] IN
  /\ pc["payload"] = "copy" /\ (async => handed >= ReadSeq)
  /\ \/ s = 0 /\ Advance(i + 1) /\ window' = SlotReturned(TRUE) /\ UNCHANGED outcome
     \/ s > 0 /\ Moves("payload", i, "content") /\ UNCHANGED <<outcome, window>>
     \/ /\ s > 0 /\ (MayFail \/ (async /\ canceled))
        /\ EmitterFails("payload")
        /\ window' = SlotReturned(TRUE)
  /\ UNCHANGED <<planVars, ctxVars, sizes, lerr, watching, dispVars, inPipe, refOffset, refs, pay, rpc, readVars>>

\* The payload stream failed: poison the ledger, then close the pipe with the error.
LeaveLedger == UNCHANGED lerr          \* a mutant: the references awaited never come
FailLedger == lerr' = TRUE

PayloadFailed ==
  /\ pc["payload"] = "fail" /\ LedgerFree
  /\ FailLedger
  /\ pc' = Woken([pc EXCEPT !["payload"] = "closed"])
  /\ UNCHANGED <<planVars, ctxVars, sizes, watching, dispVars, window, pos, inPipe, outcome,
                 refOffset, refs, pay, rpc, readVars>>

PayloadEmitter ==
  BeginWrite("payload") \/ WriteRefused("payload") \/ PayloadWritten \/ OpenPayload \/ CopyPayload
  \/ PayloadFailed

MetaPc(i) == IF i > N THEN "goodbye" ELSE "entry"

\* The metadata stream: per file its entry and a reference, at the end the goodbye table.
MetaWritten ==
  LET i == pos["meta"] IN
  /\ inPipe["meta"] /\ Taken("meta") /\ Take("meta")
  /\ inPipe' = [inPipe EXCEPT !["meta"] = FALSE]
  /\ CASE pc["meta"] = "start"   -> Moves("meta", 1, MetaPc(1))
       [] pc["meta"] = "entry"   -> Moves("meta", i, "get")
       [] pc["meta"] = "ref"     -> Moves("meta", i + 1, MetaPc(i + 1))
       [] pc["meta"] = "goodbye" -> Moves("meta", i, "closed")
  /\ Completes("meta")
  /\ UNCHANGED <<planVars, ctxVars, sizes, lerr, watching, dispVars, window, refOffset, refs, pay, readVars>>

\* refReader.next for a reused file: its place in the span; the run's last entry moves on.
SkipSpan(e) == IF e.last THEN e.to - e.from ELSE 0

\* refReader.next for a file that is read: where the record before it ends.
SkipContent(s) == s                    \* a mutant: the header is forgotten
SkipRecord(s) == HeaderSize + s

NextRef ==
  LET i == pos["meta"]
      e == plan[i] IN
  /\ pc["meta"] = "get"
  /\ \/ /\ e.reuse
        /\ refs' = Append(refs, [offset |-> refOffset + e.rel, size |-> e.size])
        /\ refOffset' = refOffset + SkipSpan(e)
        /\ Moves("meta", i, "ref") /\ UNCHANGED outcome
     \/ /\ ~e.reuse /\ Len(sizes) >= e.readSeq
        /\ refs' = Append(refs, [offset |-> refOffset, size |-> sizes[e.readSeq]])
        /\ refOffset' = refOffset + SkipRecord(sizes[e.readSeq])
        /\ Moves("meta", i, "ref") /\ UNCHANGED outcome
     \/ /\ ~e.reuse /\ Len(sizes) < e.readSeq
        /\ IF lerr \/ canceled
             THEN EmitterFails("meta")
             ELSE Moves("meta", i, "wait") /\ UNCHANGED outcome
        /\ UNCHANGED <<refs, refOffset>>
  /\ UNCHANGED <<planVars, ctxVars, sizes, lerr, watching, dispVars, window, inPipe, pay, rpc, readVars>>

\* cond.Wait in get: join the wait list and unlock.
Sleep ==
  /\ pc["meta"] = "wait"
  /\ pc' = [pc EXCEPT !["meta"] = "sleep"]
  /\ UNCHANGED <<planVars, ctxVars, sizes, lerr, watching, dispVars, window, pos, inPipe, outcome,
                 refOffset, refs, pay, rpc, readVars>>

MetaFailed ==
  /\ pc["meta"] = "fail"
  /\ pc' = [pc EXCEPT !["meta"] = "closed"]
  /\ UNCHANGED <<planVars, ctxVars, sizes, lerr, watching, dispVars, window, pos, inPipe, outcome,
                 refOffset, refs, pay, rpc, readVars>>

\* A hardlink, which may come anywhere among the files, whose target was not emitted.
UnresolvedLink ==
  /\ MayFail /\ pc["meta"] \in {"entry", "goodbye"} /\ ~inPipe["meta"]
  /\ EmitterFails("meta")
  /\ UNCHANGED <<planVars, ctxVars, sizes, lerr, watching, dispVars, window, inPipe, refOffset, refs, pay, rpc, readVars>>

MetaEmitter ==
  BeginWrite("meta") \/ WriteRefused("meta") \/ MetaWritten \/ UnresolvedLink \/ NextRef \/ Sleep \/ MetaFailed

\* Both emitters are done: the third goroutine of GenerateV2 cancels.
Cleanup ==
  /\ \A s \in Streams : pc[s] = "closed"
  /\ ~canceled /\ canceled' = TRUE
  /\ UNCHANGED <<planVars, userCanceled, sizes, lerr, watching, dispVars, window, pc, pos, inPipe,
                 outcome, refOffset, refs, pay, rpc, readVars>>

\* The caller cancels the context it gave to Backup.
UserCancel ==
  /\ MayCancel /\ ~userCanceled /\ \E s \in Streams : ret[s] = "none"
  /\ canceled' = TRUE /\ userCanceled' = TRUE
  /\ UNCHANGED <<planVars, sizes, lerr, watching, dispVars, window, pc, pos, inPipe,
                 outcome, refOffset, refs, pay, rpc, readVars>>

Next ==
  \/ Dispatch \/ PayloadEmitter \/ MetaEmitter \/ WakeOnCancel \/ Cleanup
  \/ \E s \in Streams : Upload(s)
  \/ CloseReaders \/ UserCancel

\* Every goroutine that can proceed does; nothing makes a request fail or a caller cancel.
Fairness ==
  /\ WF_vars(Dispatch) /\ WF_vars(PayloadEmitter) /\ WF_vars(MetaEmitter)
  /\ WF_vars(WakeOnCancel) /\ WF_vars(Cleanup) /\ WF_vars(CloseReaders)
  /\ \A s \in Streams : WF_vars(Upload(s))

Spec == Init /\ [][Next]_vars
FairSpec == Spec /\ Fairness

-----------------------------------------------------------------------------
PlanEntries == [reuse : BOOLEAN, readSeq : Nat, rel : Nat, size : Nat, head : BOOLEAN,
                last : BOOLEAN, from : Nat, to : Nat]

TypePlan ==
  /\ prev \in Layouts /\ changed \subseteq Files /\ async \in BOOLEAN
  /\ plan \in [Files -> PlanEntries]
  /\ canceled \in BOOLEAN /\ userCanceled \in BOOLEAN
TypeBound ==
  /\ sizes \in Seq(Nat) /\ lerr \in BOOLEAN /\ watching \in BOOLEAN
  /\ dpc \in {"slot", "deliver", "work", "exit"}
  /\ bound \in Seq(Nat \union {-1}) /\ window \in 0 .. Window
  /\ delivered \in Nat /\ handed \in Nat
TypeEmit ==
  /\ pc \in [Streams -> {"start", "entry", "get", "wait", "sleep", "ref", "goodbye", "inject", "open",
                         "header", "copy", "content", "tail", "fail", "closed"}]
  /\ pos \in [Streams -> 1 .. N + 1] /\ inPipe \in [Streams -> BOOLEAN]
  /\ outcome \in [Streams -> {"running", "ok", "error"}]
TypeOut ==
  /\ refOffset \in Nat /\ refs \in Seq([offset : Nat, size : Nat])
  /\ pay \in Seq(Nat \X Nat \X Nat)
TypeRead ==
  /\ rpc \in [Streams -> {"setup", "read", "emit", "ended", "closed"}]
  /\ failed \in [Streams -> BOOLEAN]
  /\ ret \in [Streams -> {"none", "ok", "error"}]

\* The variables have their types; in particular no offset of the plan is negative.
TypeOK == TypePlan /\ TypeBound /\ TypeEmit /\ TypeOut /\ TypeRead

\* Wherever the payload stream has got to, a reference already emitted points at the
\* record of its file: the header with that size, then its content, unit by unit.
RefsResolve ==
  \A i \in 1 .. Len(refs) : \A k \in 0 .. refs[i].size :
    refs[i].offset + k < Len(pay) => pay[refs[i].offset + k + 1] = <<i, k, refs[i].size>>

\* A backup succeeds only with a pair of streams that belong together: one reference per
\* file, and every record referred to is there to its last unit.
PairComplete ==
  (\A s \in Streams : ret[s] = "ok") =>
    /\ Len(refs) = N
    /\ \A i \in 1 .. N : refs[i].offset + RecordLen(refs[i].size) <= Len(pay)
    /\ \A i \in 1 .. N : \A k \in 0 .. refs[i].size :
         pay[refs[i].offset + k + 1] = <<i, k, refs[i].size>>

\* The upload of s ended before the stream did.
GaveUp(s) == rpc[s] \in {"ended", "closed"} /\ pc[s] # "closed"
Ended == (\A s \in Streams : pc[s] = "closed") /\ canceled /\ dpc = "exit"

\* Nothing hangs: when no goroutine can take a step any more (that an upload might still
\* fail does not count), both emitters and the dispatcher have ended, whatever failed in the
\* source, as long as both streams are read to their ends; with the synchronous source also
\* when the caller cancels, though the ledger's watcher may wake nobody.  No step can be
\* repeated (positions, sizes and the bytes written only grow), so a fair run always comes
\* to such a state.
NoStall ==
  \/ Ended
  \/ \E s \in Streams : GaveUp(s)
  \/ async /\ userCanceled
  \/ ENABLED MetaEmitter \/ ENABLED PayloadEmitter \/ ENABLED Dispatch
  \/ ENABLED (WakeOnCancel \/ Cleanup \/ CloseReaders)
  \/ \E s \in Streams : ENABLED (Setup(s) \/ EmitChunk(s) \/ ReadEnd(s) \/ UploadReturns(s))

\* UploadPXARv2 returns, and with it Backup, when one of its uploads fails: the
\* failure cancels the other upload (upload.go:98-115), which is waited for (116), so that
\* the root cause can be reported (117: "Whichever stream failed first canceled the other:
\* report the root cause, not the cancellation it provoked").  The other upload reads a
\* stream of which the emitter may be waiting for the one that is no longer read, and
\* Backup closes the readers only when both have returned (gopbs.go:252-254).
UploadReturnsOnFailure ==
  (\E s \in Streams : ret[s] = "error") ~> (\A s \in Streams : ret[s] # "none")
=============================================================================
