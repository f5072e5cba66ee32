-------------------------- MODULE UploadIndexProofs --------------------------
(***************************************************************************)
(* Proofs about UploadIndex, for any number of workers, digests and chunks *)
(* and any batch size: its types, that the server is never asked to append *)
(* a chunk it does not know and that its index is a prefix of the stream;  *)
(* and what the two uploads of a session come to: no chunk is sent twice,  *)
(* a closed index holds the whole stream, and the error returned is the    *)
(* one that came first.                                                    *)
(***************************************************************************)
EXTENDS UploadIndex, SequenceLemmas

\* A worker exits only after the producer has closed jobs and the queue is drained.
ExitsAfterProducer ==
  \A w \in WorkerIds : wpc[w] = "exit" => prodErr[w[1]] # "running" /\ jobs[w[1]] = <<>>

TypeInv == TypeOK /\ ExitsAfterProducer

-----------------------------------------------------------------------------
LEMMA NoJobType == NoJob \in Jobs
  BY UploadConstants DEF NoJob, Jobs

LEMMA DoneOfType ==
  ASSUME NEW j \in Jobs, NEW e \in Errors
  PROVE  DoneOf(j, e) \in Dones
  BY DEF DoneOf, Jobs, Dones

LEMMA SeqNumber ==
  ASSUME NEW j \in Jobs \union Dones
  PROVE  j.seq \in Nat
  BY DEF Jobs, Dones

LEMMA ChunkType ==
  ASSUME NEW j \in Jobs \union Dones
  PROVE  EndOf(j) \in Nat /\ Entry(j) \in Entries /\ SumOf(j) \in Sums
  <1>1. j.offset \in Nat /\ j.digest \in Digests
    BY DEF Jobs, Dones
  <1>2. EndOf(j) \in Nat
    BY <1>1, UploadConstants DEF EndOf
  <1> QED
    BY <1>1, <1>2 DEF Entry, SumOf, Entries, Sums

LEMMA FailuresType ==
  ASSUME NEW b \in BOOLEAN
  PROVE  Failures(b) \subseteq {"fault", "canceled"}
  BY DEF Failures

LEMMA ErrorKinds == {"fault", "canceled", "none"} \subseteq Errors
  BY DEF Errors

LEMMA AppendErrorsType ==
  ASSUME TypeCtx, NEW u \in Uploads
  PROVE  AppendErrors(u) \subseteq {"fault", "canceled"}
  BY FailuresType DEF AppendErrors, TypeCtx

LEMMA AppendedType ==
  ASSUME TypeIndex, TypeBatch, NEW u \in Uploads
  PROVE  Appended(u) \in [Uploads -> Seq(Entries)]
  <1>1. entries \in [Uploads -> Seq(Entries)] /\ batch[u] \in Seq(Entries)
    BY DEF TypeIndex, TypeBatch
  <1> QED
    BY <1>1 DEF Appended

LEMMA StreamSizeType ==
  ASSUME TypeProd, NEW u \in Uploads
  PROVE  StreamSize(u) \in Nat
  <1>1. cut[u] \in Seq(Jobs)
    BY DEF TypeProd
  <1>2. cut[u] # <<>> => cut[u][Len(cut[u])] \in Jobs
    BY <1>1
  <1> QED
    BY <1>2, ChunkType DEF StreamSize

LEMMA ReturnType ==
  ASSUME TypePhase, NEW u \in Uploads, NEW e \in Errors, Return(u, e), UNCHANGED <<stopped, firstErr>>
  PROVE  TypePhase' /\ canceled' \in BOOLEAN
  BY DEF Return, TypePhase, Phases

LEMMA TypeInit == Init => TypeInv
<1> SUFFICES ASSUME Init PROVE TypeInv
  OBVIOUS
<1>1. TypeCtx /\ TypeSet /\ TypePhase
  BY DEF Init, TypeCtx, TypeSet, TypePhase, Errors, Phases
<1>2. TypeProd
  BY DEF Init, TypeProd
<1>3. TypeWork
  BY NoJobType DEF Init, TypeWork, Errors
<1>4. TypeDone /\ TypeBatch
  BY DEF Init, TypeDone, TypeBatch
<1>5. TypeIndex
  BY DEF Init, TypeIndex
<1> QED
  BY <1>1, <1>2, <1>3, <1>4, <1>5 DEF TypeInv, TypeOK, ExitsAfterProducer, Init

LEMMA TypeStep == TypeInv /\ [Next]_vars => TypeInv'
<1> SUFFICES ASSUME TypeInv, [Next]_vars PROVE TypeInv'
  OBVIOUS
<1> USE DEF TypeInv, TypeOK
<1>1. ASSUME NEW u \in Uploads, DownloadPrevious(u) PROVE TypeInv'
  <2>1. UNCHANGED <<userCanceled, sent, stopped, prodVars, dones, workVars, collVars, indexVars>>
    BY <1>1 DEF DownloadPrevious
  <2>2. TypeSet'
    <3>1. Seeded(u) \in [Digests -> Errors \union {"free", "flight"}]
      BY DEF Seeded, TypeSet, Errors
    <3> QED
      BY <1>1, <2>1, <3>1, UploadConstants DEF DownloadPrevious, TypeSet
  <2>3. TypePhase' /\ TypeCtx'
    BY <1>1, <2>1, ReturnType, FailuresType, ErrorKinds DEF DownloadPrevious, TypePhase, TypeCtx, Phases, collVars
  <2> QED
    BY <2>1, <2>2, <2>3 DEF TypeProd, TypeWork, TypeDone, TypeBatch, TypeIndex, ExitsAfterProducer, prodVars, workVars, collVars, indexVars
<1>2. ASSUME NEW u \in Uploads, CreateIndex(u) PROVE TypeInv'
  <2>1. UNCHANGED <<userCanceled, setVars, stopped, prodVars, dones, workVars, collVars, closed, entries, closeSum, closeSize>>
    BY <1>2 DEF CreateIndex
  <2>2. TypeIndex'
    BY <1>2, <2>1 DEF CreateIndex, TypeIndex
  <2>3. TypePhase' /\ TypeCtx'
    BY <1>2, <2>1, ReturnType, FailuresType, ErrorKinds DEF CreateIndex, TypePhase, TypeCtx, Phases, collVars
  <2> QED
    BY <2>1, <2>2, <2>3 DEF TypeSet, TypeProd, TypeWork, TypeDone, TypeBatch, ExitsAfterProducer, setVars, prodVars, workVars, collVars
<1>3. ASSUME NEW u \in Uploads, Produce(u) PROVE TypeInv'
  <2>1. UNCHANGED <<ctxVars, setVars, phase, stopped, dones, workVars, collVars, ret, indexVars>>
    BY <1>3 DEF Produce
  <2>2. cut' \in [Uploads -> Seq(Jobs)] /\ jobs' \in [Uploads -> Seq(Jobs)]
    <3>1. ASSUME NEW d \in Digests, NEW k \in BOOLEAN
          PROVE [seq |-> SeqOfNext(u), offset |-> StreamSize(u), digest |-> d, known |-> k] \in Jobs
      <4>1. SeqOfNext(u) \in Nat
        BY LenType DEF SeqOfNext, TypeProd
      <4> QED
        BY <4>1, StreamSizeType DEF Jobs
    <3>2. cut[u] \in Seq(Jobs) /\ jobs[u] \in Seq(Jobs)
      BY DEF TypeProd
    <3>3. ASSUME NEW j \in Jobs PROVE Append(cut[u], j) \in Seq(Jobs) /\ Append(jobs[u], j) \in Seq(Jobs)
      BY <3>2, AppendType
    <3> QED
      <4>1. \/ UNCHANGED <<cut, jobs>>
            \/ \E j \in Jobs : cut' = [cut EXCEPT ![u] = Append(@, j)] /\ jobs' = [jobs EXCEPT ![u] = Append(@, j)]
        BY <1>3, <3>1, Zenon DEF Produce
      <4> QED
        BY <4>1, <3>3 DEF TypeProd
  <2>3. prodErr' \in [Uploads -> Errors \union {"running"}]
    BY <1>3, ErrorKinds DEF Produce, ReadErrors, TypeProd
  <2>4. ExitsAfterProducer'
    <3>1. prodErr[u] = "running" /\ \A v \in Uploads : v # u => prodErr'[v] = prodErr[v] /\ jobs'[v] = jobs[v]
      BY <1>3 DEF Produce, TypeProd
    <3>2. \A w \in WorkerIds : w[1] \in Uploads
      BY DEF WorkerIds
    <3> QED
      BY <2>1, <3>1, <3>2 DEF ExitsAfterProducer, workVars
  <2> QED
    BY <2>1, <2>2, <2>3, <2>4 DEF TypeCtx, TypeSet, TypePhase, TypeProd, TypeWork, TypeDone, TypeBatch, TypeIndex, ctxVars, setVars, workVars, collVars, indexVars
<1>4. ASSUME NEW w \in WorkerIds, WorkerReceive(w) PROVE TypeInv'
  <2>1. UNCHANGED <<ctxVars, setVars, phase, stopped, cut, prodErr, dones, werr, collVars, ret, indexVars>>
    BY <1>4 DEF WorkerReceive
  <2>2. w[1] \in Uploads
    BY DEF WorkerIds
  <2>3. ASSUME jobs[w[1]] # <<>>,
               wjob' = [wjob EXCEPT ![w] = Head(jobs[w[1]])],
               jobs' = [jobs EXCEPT ![w[1]] = Tail(@)],
               wpc' = [wpc EXCEPT ![w] = "claim"]
        PROVE  TypeProd' /\ TypeWork' /\ ExitsAfterProducer'
    <3>1. Head(jobs[w[1]]) \in Jobs /\ Tail(jobs[w[1]]) \in Seq(Jobs)
      BY <2>2, <2>3, HeadTailType DEF TypeProd
    <3>2. TypeProd' /\ TypeWork'
      BY <2>1, <2>2, <2>3, <3>1 DEF TypeProd, TypeWork
    <3>3. ExitsAfterProducer'
      BY <2>1, <2>2, <2>3 DEF TypeProd, TypeWork, ExitsAfterProducer
    <3> QED
      BY <3>2, <3>3
  <2>4. ASSUME jobs[w[1]] = <<>>, JobsClosed(w[1]),
               wpc' = [wpc EXCEPT ![w] = "exit"],
               UNCHANGED <<jobs, wjob>>
        PROVE  TypeProd' /\ TypeWork' /\ ExitsAfterProducer'
    <3>1. TypeProd' /\ TypeWork'
      BY <2>1, <2>4 DEF TypeProd, TypeWork
    <3>2. ExitsAfterProducer'
      BY <2>1, <2>4 DEF JobsClosed, TypeWork, ExitsAfterProducer
    <3> QED
      BY <3>1, <3>2
  <2>5. TypeProd' /\ TypeWork' /\ ExitsAfterProducer'
    BY <1>4, <2>3, <2>4 DEF WorkerReceive
  <2> QED
    BY <2>1, <2>5 DEF TypeCtx, TypeSet, TypePhase, TypeDone, TypeBatch, TypeIndex, ctxVars, setVars, collVars, indexVars
<1>5. ASSUME NEW w \in WorkerIds, Claim(w) PROVE TypeInv'
  <2>1. UNCHANGED <<ctxVars, serverKnown, phase, stopped, prodVars, dones, wjob, collVars, ret, indexVars>>
    BY <1>5 DEF Claim
  <2>2. wjob[w].digest \in Digests
    BY DEF TypeWork, Jobs
  <2>3. TypeSet'
    BY <1>5, <2>1, <2>2, ErrorKinds DEF Claim, TypeSet
  <2>4. TypeWork' /\ wpc'[w] # "exit" /\ wpc' = [wpc EXCEPT ![w] = wpc'[w]]
    BY <1>5, <2>1, ErrorKinds DEF Claim, Decide, TypeWork
  <2> QED
    BY <2>1, <2>3, <2>4 DEF TypeCtx, TypePhase, TypeProd, TypeWork, TypeDone, TypeBatch, TypeIndex, ExitsAfterProducer, ctxVars, prodVars, collVars, indexVars
<1>6. ASSUME NEW w \in WorkerIds, UploadReturns(w) PROVE TypeInv'
  <2>1. UNCHANGED <<ctxVars, sent, phase, stopped, prodVars, dones, wjob, collVars, ret, indexVars>>
    BY <1>6 DEF UploadReturns
  <2>2. wjob[w].digest \in Digests /\ Failures(Gone(w[1])) \subseteq Errors
    BY FailuresType, ErrorKinds DEF TypeWork, TypeCtx, TypePhase, WorkerIds, Jobs, Gone
  <2>3. TypeSet'
    BY <1>6, <2>1, <2>2, ErrorKinds DEF UploadReturns, Complete, TypeSet
  <2>4. TypeWork' /\ wpc'[w] # "exit" /\ wpc' = [wpc EXCEPT ![w] = wpc'[w]]
    BY <1>6, <2>1, <2>2, ErrorKinds DEF UploadReturns, Decide, TypeWork
  <2> QED
    BY <2>1, <2>3, <2>4 DEF TypeCtx, TypePhase, TypeProd, TypeWork, TypeDone, TypeBatch, TypeIndex, ExitsAfterProducer, ctxVars, prodVars, collVars, indexVars
<1>7. ASSUME NEW w \in WorkerIds, WaitReturns(w) PROVE TypeInv'
  <2>1. UNCHANGED <<ctxVars, setVars, phase, stopped, prodVars, dones, wjob, collVars, ret, indexVars>>
    BY <1>7 DEF WaitReturns
  <2>2. TypeWork' /\ wpc'[w] # "exit" /\ wpc' = [wpc EXCEPT ![w] = wpc'[w]]
    BY <1>7, <2>1, ErrorKinds DEF WaitReturns, Decide, TypeWork
  <2> QED
    BY <2>1, <2>2 DEF TypeCtx, TypeSet, TypePhase, TypeProd, TypeWork, TypeDone, TypeBatch, TypeIndex, ExitsAfterProducer, ctxVars, setVars, prodVars, collVars, indexVars
<1>8. ASSUME NEW w \in WorkerIds, SendDone(w) PROVE TypeInv'
  <2>1. UNCHANGED <<ctxVars, setVars, phase, stopped, prodVars, collVars, ret, indexVars>>
    BY <1>8 DEF SendDone
  <2>2. DoneOf(wjob[w], werr[w]) \in Dones /\ w[1] \in Uploads
    BY DoneOfType DEF TypeWork, WorkerIds
  <2>3. Append(dones[w[1]], DoneOf(wjob[w], werr[w])) \in Seq(Dones)
    BY <2>2, AppendType DEF TypeDone
  <2>4. TypeDone'
    BY <1>8, <2>1, <2>2, <2>3 DEF SendDone, TypeDone, collVars
  <2>5. TypeWork' /\ wpc'[w] # "exit" /\ wpc' = [wpc EXCEPT ![w] = wpc'[w]]
    BY <1>8, NoJobType, ErrorKinds DEF SendDone, TypeWork
  <2> QED
    BY <2>1, <2>4, <2>5 DEF TypeCtx, TypeSet, TypePhase, TypeProd, TypeWork, TypeBatch, TypeIndex, collVars, ExitsAfterProducer, ctxVars, setVars, prodVars, indexVars
<1>9. ASSUME NEW u \in Uploads, Collect(u) PROVE TypeInv'
  <2>1. UNCHANGED <<ctxVars, setVars, prodVars, workVars, nextSeq, batch, csum, ret, indexVars>>
    BY <1>9 DEF Collect
  <2>2. Head(dones[u]) \in Dones /\ Tail(dones[u]) \in Seq(Dones)
    BY <1>9, HeadTailType DEF Collect, TypeDone
  <2>3. Head(dones[u]).err \in Errors
    BY <2>2 DEF Dones
  <2>4. TypeDone'
    <3>1. /\ dones' = [dones EXCEPT ![u] = Tail(@)]
          /\ pending' = pending \/ pending' = [pending EXCEPT ![u] = @ \union {Head(dones[u])}]
      BY <1>9 DEF Collect
    <3> QED
      BY <2>2, <3>1 DEF TypeDone
  <2>5. TypePhase'
    BY <1>9, <2>1, <2>3 DEF Collect, TypePhase, Phases
  <2> QED
    BY <2>1, <2>4, <2>5 DEF TypeCtx, TypeSet, TypeProd, TypeWork, TypeBatch, TypeIndex, ExitsAfterProducer, ctxVars, setVars, prodVars, workVars, indexVars
<1>10. ASSUME NEW u \in Uploads, Drain(u) PROVE TypeInv'
  <2>1. UNCHANGED <<ctxVars, setVars, stopped, prodVars, dones, workVars, firstErr, ret, indexVars>>
    BY <1>10 DEF Drain
  <2>2. \A c \in pending[u] : Entry(c) \in Entries /\ SumOf(c) \in Sums
    BY ChunkType DEF TypeDone
  <2>3. TypeDone'
    <3>1. pending' = pending \/ \E c \in pending[u] : pending' = [pending EXCEPT ![u] = @ \ {c}]
      BY <1>10 DEF Drain
    <3> QED
      BY <2>1, <3>1 DEF TypeDone
  <2>4. TypeBatch'
    <3>1. ASSUME NEW c \in pending[u]
          PROVE  Append(batch[u], Entry(c)) \in Seq(Entries) /\ Append(csum[u], SumOf(c)) \in Seq(Sums)
      BY <2>2, AppendType DEF TypeBatch
    <3>2. \/ UNCHANGED <<nextSeq, csum, batch>>
          \/ \E c \in pending[u] :
               /\ nextSeq' = [nextSeq EXCEPT ![u] = @ + 1]
               /\ csum' = [csum EXCEPT ![u] = Append(@, SumOf(c))]
               /\ batch' = [batch EXCEPT ![u] = Append(@, Entry(c))]
      BY <1>10 DEF Drain
    <3>3. ASSUME NEW c \in pending[u],
                 nextSeq' = [nextSeq EXCEPT ![u] = @ + 1],
                 csum' = [csum EXCEPT ![u] = Append(@, SumOf(c))],
                 batch' = [batch EXCEPT ![u] = Append(@, Entry(c))]
          PROVE  TypeBatch'
      BY <3>1, <3>3 DEF TypeBatch
    <3> QED
      BY <3>2, <3>3 DEF TypeBatch
  <2>5. TypePhase'
    BY <1>10, <2>1 DEF Drain, TypePhase, Phases
  <2> QED
    BY <2>1, <2>3, <2>4, <2>5 DEF TypeCtx, TypeSet, TypeProd, TypeWork, TypeIndex, ExitsAfterProducer, ctxVars, setVars, prodVars, workVars, indexVars
<1>11. ASSUME NEW u \in Uploads, Flush(u) PROVE TypeInv'
  <2>1. UNCHANGED <<ctxVars, setVars, prodVars, dones, workVars, pending, nextSeq, csum, ret, opened, closed, closeSum, closeSize>>
    BY <1>11 DEF Flush
  <2>2. TypeIndex'
    BY <1>11, <2>1, AppendedType DEF Flush, TypeIndex
  <2>3. TypeBatch'
    <3>1. batch' = batch \/ batch' = [batch EXCEPT ![u] = <<>>]
      BY <1>11 DEF Flush
    <3> QED
      BY <2>1, <3>1, EmptyType DEF TypeBatch
  <2>4. TypePhase'
    <3>1. /\ firstErr' = firstErr \/ \E e \in Errors : firstErr' = [firstErr EXCEPT ![u] = e]
          /\ stopped' = stopped \/ stopped' = [stopped EXCEPT ![u] = TRUE]
          /\ phase' = [phase EXCEPT ![u] = "drain"] \/ phase' = [phase EXCEPT ![u] = "collect"]
      BY <1>11, AppendErrorsType, ErrorKinds DEF Flush
    <3> QED
      BY <2>1, <3>1 DEF TypePhase, Phases
  <2> QED
    BY <2>1, <2>2, <2>3, <2>4 DEF TypeCtx, TypeSet, TypeProd, TypeWork, TypeDone, ExitsAfterProducer, ctxVars, setVars, prodVars, workVars
<1>12. ASSUME NEW u \in Uploads, CollectEnd(u) PROVE TypeInv'
  <2>1. UNCHANGED <<userCanceled, setVars, stopped, prodVars, dones, workVars, collVars, indexVars>>
    BY <1>12 DEF CollectEnd
  <2>2. StreamErr(u) \in Errors
    <3>1. PICK i \in Workers : TRUE
      BY UploadConstants
    <3>2. prodErr[u] # "running"
      <4>1. <<u, i>> \in WorkerIds /\ <<u, i>>[1] = u
        BY <3>1 DEF WorkerIds
      <4>2. wpc[<<u, i>>] = "exit"
        BY <1>12, <3>1 DEF CollectEnd
      <4> QED
        BY <4>1, <4>2 DEF ExitsAfterProducer
    <3> QED
      BY <3>2 DEF StreamErr, TypeProd, TypePhase
  <2>3. TypePhase' /\ TypeCtx'
    <3>1. CASE Return(u, StreamErr(u))
      BY <2>1, <3>1, <2>2, ReturnType DEF TypeCtx, collVars
    <3>2. CASE Return(u, "fault")
      BY <2>1, <3>2, ReturnType, ErrorKinds DEF TypeCtx, collVars
    <3>3. CASE phase' = [phase EXCEPT ![u] = "final"] /\ UNCHANGED <<canceled, ret>>
      BY <2>1, <3>3 DEF TypeCtx, TypePhase, Phases, collVars
    <3> QED
      BY <1>12, <3>1, <3>2, <3>3 DEF CollectEnd
  <2> QED
    BY <2>1, <2>3 DEF TypeSet, TypeProd, TypeWork, TypeDone, TypeBatch, TypeIndex, ExitsAfterProducer, setVars, prodVars, workVars, collVars, indexVars
<1>13. ASSUME NEW u \in Uploads, FinalFlush(u) PROVE TypeInv'
  <2>1. UNCHANGED <<userCanceled, setVars, stopped, prodVars, dones, workVars, pending, nextSeq, csum, firstErr, opened, closed, closeSum, closeSize>>
    BY <1>13 DEF FinalFlush
  <2>2. TypeIndex'
    BY <1>13, <2>1, AppendedType DEF FinalFlush, TypeIndex
  <2>3. TypeBatch'
    <3>1. batch' = batch \/ batch' = [batch EXCEPT ![u] = <<>>]
      BY <1>13 DEF FinalFlush
    <3> QED
      BY <2>1, <3>1, EmptyType DEF TypeBatch
  <2>4. TypePhase' /\ TypeCtx'
    BY <1>13, <2>1, ReturnType, AppendErrorsType, ErrorKinds DEF FinalFlush, TypePhase, TypeCtx, Phases
  <2> QED
    BY <2>1, <2>2, <2>3, <2>4 DEF TypeSet, TypeProd, TypeWork, TypeDone, ExitsAfterProducer, setVars, prodVars, workVars
<1>14. ASSUME NEW u \in Uploads, CloseIndex(u) PROVE TypeInv'
  <2>1. UNCHANGED <<userCanceled, setVars, stopped, prodVars, dones, workVars, collVars, opened, entries>>
    BY <1>14 DEF CloseIndex
  <2>2. csum[u] \in Seq(Sums) /\ (csum[u] # <<>> => csum[u][Len(csum[u])] \in Sums)
    BY DEF TypeBatch
  <2>3. SumSize(u) \in Nat
    BY <2>2 DEF SumSize, Sums
  <2>4. TypeIndex'
    <3>1. CASE Close(u)
      BY <2>1, <2>2, <2>3, <3>1 DEF Close, TypeIndex
    <3>2. CASE UNCHANGED <<closed, closeSum, closeSize>>
      BY <2>1, <3>2 DEF TypeIndex
    <3> QED
      BY <1>14, <3>1, <3>2 DEF CloseIndex
  <2>5. TypePhase' /\ TypeCtx'
    <3>1. PICK e \in Errors : Return(u, e)
      BY <1>14, FailuresType, ErrorKinds DEF CloseIndex, TypeCtx
    <3> QED
      BY <2>1, <3>1, ReturnType DEF TypeCtx, collVars
  <2> QED
    BY <2>1, <2>4, <2>5 DEF TypeSet, TypeProd, TypeWork, TypeDone, TypeBatch, ExitsAfterProducer, setVars, prodVars, workVars, collVars
<1>15. CASE UserCancel
  BY <1>15 DEF UserCancel, TypeCtx, TypeSet, TypePhase, TypeProd, TypeWork, TypeDone, TypeBatch, TypeIndex, ExitsAfterProducer, setVars, prodVars, workVars, collVars, indexVars
<1>16. CASE UNCHANGED vars
  BY <1>16 DEF TypeCtx, TypeSet, TypePhase, TypeProd, TypeWork, TypeDone, TypeBatch, TypeIndex, ExitsAfterProducer, vars, ctxVars, setVars, prodVars, workVars, collVars, indexVars
<1> QED
  BY <1>1, <1>2, <1>3, <1>4, <1>5, <1>6, <1>7, <1>8, <1>9, <1>10, <1>11, <1>12, <1>13, <1>14, <1>15, <1>16
  DEF Next, Collector, Worker, Terminated

\* Every variable keeps its type, for any number of workers, chunks and digests and any
\* batch size: in particular an upload never returns the error of a producer that has not
\* ended, and a sequence number is never negative.
THEOREM TypeCorrect == Spec => []TypeOK
<1>1. Spec => []TypeInv
  BY TypeInit, TypeStep, PTL DEF Spec
<1>2. TypeInv => TypeOK
  BY DEF TypeInv
<1> QED
  BY <1>1, <1>2, PTL

-----------------------------------------------------------------------------
(***************************************************************************)
(* A batch holds only chunks the server knows.  What makes it so is that a *)
(* claim completes without an error only once the server knows the digest, *)
(* and that the result keeps that fact on its way from the worker through  *)
(* dones and pending into the batch.                                       *)
(***************************************************************************)
KnownClaims == \A d \in Digests : claims[d] = "none" => d \in serverKnown
KnownSends ==
  \A w \in WorkerIds : wpc[w] = "send" /\ werr[w] = "none" => wjob[w].digest \in serverKnown
KnownDones ==
  \A u \in Uploads : \A i \in 1 .. Len(dones[u]) :
    dones[u][i].err = "none" => dones[u][i].digest \in serverKnown
KnownPending == \A u \in Uploads : \A c \in pending[u] : c.digest \in serverKnown

KnownInv == KnownClaims /\ KnownSends /\ KnownDones /\ KnownPending /\ AppendsKnown

LEMMA KnownStep == TypeInv /\ KnownInv /\ [Next]_vars => KnownInv'
<1> SUFFICES ASSUME TypeInv, KnownInv, [Next]_vars PROVE KnownInv'
  OBVIOUS
<1> USE DEF TypeInv, TypeOK, KnownInv
<1>1. ASSUME NEW u \in Uploads, DownloadPrevious(u) PROVE KnownInv'
  <2>1. UNCHANGED <<dones, wpc, wjob, werr, pending, batch>>
    BY <1>1 DEF DownloadPrevious, workVars, collVars
  <2>2. serverKnown \subseteq serverKnown'
    BY <1>1 DEF DownloadPrevious
  <2>3. KnownClaims'
    <3>1. CASE claims' = Seeded(u) /\ serverKnown' = serverKnown \union Previous[u]
      BY <3>1 DEF Seeded, KnownClaims, TypeSet
    <3>2. CASE UNCHANGED claims
      BY <2>2, <3>2 DEF KnownClaims
    <3> QED
      BY <1>1, <3>1, <3>2 DEF DownloadPrevious
  <2> QED
    BY <2>1, <2>2, <2>3 DEF KnownSends, KnownDones, KnownPending, AppendsKnown
<1>2. ASSUME NEW w \in WorkerIds, WorkerReceive(w) PROVE KnownInv'
  <2>1. UNCHANGED <<claims, serverKnown, dones, werr, pending, batch>>
    BY <1>2 DEF WorkerReceive, setVars, collVars
  <2>2. KnownSends'
    <3>1. /\ wpc'[w] # "send"
          /\ \A x \in WorkerIds : x # w => wpc'[x] = wpc[x] /\ wjob'[x] = wjob[x]
      BY <1>2 DEF WorkerReceive, TypeWork
    <3> QED
      BY <2>1, <3>1 DEF KnownSends
  <2> QED
    BY <2>1, <2>2 DEF KnownClaims, KnownDones, KnownPending, AppendsKnown
<1>3. ASSUME NEW w \in WorkerIds, Claim(w) PROVE KnownInv'
  <2>1. UNCHANGED <<serverKnown, dones, wjob, pending, batch>>
    BY <1>3 DEF Claim, collVars
  <2>2. \A d \in Digests : claims'[d] = "none" => claims[d] = "none"
    BY <1>3 DEF Claim, TypeSet
  <2>3. \A x \in WorkerIds : wpc'[x] = "send" /\ werr'[x] = "none" => wpc[x] = "send" /\ werr[x] = "none"
    BY <1>3 DEF Claim, Decide, TypeWork
  <2> QED
    BY <2>1, <2>2, <2>3 DEF KnownClaims, KnownSends, KnownDones, KnownPending, AppendsKnown
<1>4. ASSUME NEW w \in WorkerIds, UploadReturns(w) PROVE KnownInv'
  <2>1. UNCHANGED <<dones, wjob, pending, batch>>
    BY <1>4 DEF UploadReturns, collVars
  <2>2. serverKnown \subseteq serverKnown'
    BY <1>4 DEF UploadReturns
  <2>3. PICK e : /\ claims' = [claims EXCEPT ![wjob[w].digest] = e]
                 /\ werr' = [werr EXCEPT ![w] = e]
                 /\ wpc' = [wpc EXCEPT ![w] = "send"]
                 /\ e = "none" => wjob[w].digest \in serverKnown'
    <3>1. Gone(w[1]) \in BOOLEAN
      BY DEF Gone, TypeCtx, TypePhase, WorkerIds
    <3> QED
      BY <1>4, <3>1, FailuresType DEF UploadReturns, Decide, Complete
  <2>4. KnownClaims'
    BY <2>2, <2>3 DEF KnownClaims, TypeSet
  <2>5. KnownSends'
    BY <2>1, <2>2, <2>3 DEF KnownSends, TypeWork
  <2> QED
    BY <2>1, <2>2, <2>4, <2>5 DEF KnownDones, KnownPending, AppendsKnown
<1>5. ASSUME NEW w \in WorkerIds, WaitReturns(w) PROVE KnownInv'
  <2>1. UNCHANGED <<claims, serverKnown, dones, wjob, pending, batch>>
    BY <1>5 DEF WaitReturns, setVars, collVars
  <2>2. PICK e : Decide(w, e) /\ (e = "canceled" \/ e = claims[wjob[w].digest])
    BY <1>5 DEF WaitReturns
  <2>3. wjob[w].digest \in Digests
    BY DEF TypeWork, Jobs
  <2>4. KnownSends'
    BY <2>1, <2>2, <2>3 DEF Decide, KnownSends, KnownClaims, TypeWork
  <2> QED
    BY <2>1, <2>4 DEF KnownClaims, KnownDones, KnownPending, AppendsKnown
<1>6. ASSUME NEW w \in WorkerIds, SendDone(w) PROVE KnownInv'
  <2>1. UNCHANGED <<claims, serverKnown, pending, batch>>
    BY <1>6 DEF SendDone, setVars, collVars
  <2>2. KnownSends'
    BY <1>6, <2>1 DEF SendDone, KnownSends, TypeWork
  <2>3. KnownDones'
    <3> DEFINE d == DoneOf(wjob[w], werr[w])
    <3>1. d.err = "none" => d.digest \in serverKnown
      BY <1>6 DEF SendDone, KnownSends, DoneOf
    <3>2. dones' = [dones EXCEPT ![w[1]] = Append(@, d)] /\ w[1] \in Uploads /\ d \in Dones
      BY <1>6, DoneOfType DEF SendDone, WorkerIds, TypeWork
    <3> HIDE DEF d
    <3>3. \A i \in 1 .. Len(dones'[w[1]]) : dones'[w[1]][i] = d \/ (i \in 1 .. Len(dones[w[1]]) /\ dones'[w[1]][i] = dones[w[1]][i])
      BY <3>2, AppendAt DEF TypeDone
    <3> QED
      BY <2>1, <3>1, <3>2, <3>3 DEF KnownDones, TypeDone
  <2> QED
    BY <2>1, <2>2, <2>3 DEF KnownClaims, KnownPending, AppendsKnown
<1>7. ASSUME NEW u \in Uploads, Collect(u) PROVE KnownInv'
  <2>1. UNCHANGED <<claims, serverKnown, wpc, wjob, werr, batch>>
    BY <1>7 DEF Collect, setVars, workVars
  <2>2. dones[u] \in Seq(Dones) /\ dones[u] # <<>> /\ dones' = [dones EXCEPT ![u] = Tail(@)]
    BY <1>7 DEF Collect, TypeDone
  <2>3. KnownDones'
    <3>1. \A i \in 1 .. Len(Tail(dones[u])) : i+1 \in 1 .. Len(dones[u]) /\ Tail(dones[u])[i] = dones[u][i+1]
      BY <2>2, TailAt
    <3> QED
      BY <2>1, <2>2, <3>1 DEF KnownDones, TypeDone
  <2>4. KnownPending'
    <3>1. Head(dones[u]).err = "none" => Head(dones[u]).digest \in serverKnown
      BY <2>2, HeadAt DEF KnownDones
    <3>2. pending' = pending \/ (Head(dones[u]).err = "none" /\ pending' = [pending EXCEPT ![u] = @ \union {Head(dones[u])}])
      BY <1>7 DEF Collect
    <3> QED
      BY <2>1, <3>1, <3>2 DEF KnownPending, TypeDone
  <2> QED
    BY <2>1, <2>3, <2>4 DEF KnownClaims, KnownSends, AppendsKnown
<1>8. ASSUME NEW u \in Uploads, Drain(u) PROVE KnownInv'
  <2>1. UNCHANGED <<claims, serverKnown, dones, wpc, wjob, werr>>
    BY <1>8 DEF Drain, setVars, workVars
  <2>2. CASE UNCHANGED <<pending, batch>>
    BY <2>1, <2>2 DEF KnownClaims, KnownSends, KnownDones, KnownPending, AppendsKnown
  <2>3. ASSUME NEW c \in pending[u],
               pending' = [pending EXCEPT ![u] = @ \ {c}],
               batch' = [batch EXCEPT ![u] = Append(@, Entry(c))]
        PROVE  KnownInv'
    <3>1. KnownPending'
      BY <2>1, <2>3 DEF KnownPending, TypeDone
    <3>2. Entry(c).digest \in serverKnown /\ Entry(c) \in Entries
      BY ChunkType DEF KnownPending, Entry, TypeDone
    <3>3. \A i \in 1 .. Len(batch'[u]) : batch'[u][i] = Entry(c) \/ (i \in 1 .. Len(batch[u]) /\ batch'[u][i] = batch[u][i])
      BY <2>3, <3>2, AppendAt DEF TypeBatch
    <3>4. AppendsKnown'
      BY <2>1, <2>3, <3>2, <3>3 DEF AppendsKnown, TypeBatch
    <3> QED
      BY <2>1, <3>1, <3>4 DEF KnownClaims, KnownSends, KnownDones
  <2> QED
    BY <1>8, <2>2, <2>3 DEF Drain
<1>9. ASSUME NEW u \in Uploads, Flush(u) \/ FinalFlush(u) PROVE KnownInv'
  <2>1. UNCHANGED <<claims, serverKnown, dones, wpc, wjob, werr, pending>>
    BY <1>9 DEF Flush, FinalFlush, setVars, workVars
  <2>2. batch' = batch \/ batch' = [batch EXCEPT ![u] = <<>>]
    BY <1>9 DEF Flush, FinalFlush
  <2>3. AppendsKnown'
    <3>1. CASE batch' = [batch EXCEPT ![u] = <<>>]
      <4>1. \A v \in Uploads : batch'[v] = <<>> \/ batch'[v] = batch[v]
        BY <3>1 DEF TypeBatch
      <4> QED
        BY <2>1, <4>1 DEF AppendsKnown
    <3> QED
      BY <2>1, <2>2, <3>1 DEF AppendsKnown
  <2> QED
    BY <2>1, <2>3 DEF KnownClaims, KnownSends, KnownDones, KnownPending
<1>10. CASE UNCHANGED <<claims, serverKnown, dones, wpc, wjob, werr, pending, batch>>
  BY <1>10 DEF KnownClaims, KnownSends, KnownDones, KnownPending, AppendsKnown
<1>11. ASSUME NEW u \in Uploads, CreateIndex(u) \/ Produce(u) \/ CollectEnd(u) \/ CloseIndex(u) PROVE KnownInv'
  BY <1>10, <1>11 DEF CreateIndex, Produce, CollectEnd, CloseIndex, setVars, workVars, collVars
<1>12. CASE UserCancel \/ UNCHANGED vars
  BY <1>10, <1>12 DEF UserCancel, vars, setVars, workVars, collVars
<1> QED
  BY <1>1, <1>2, <1>3, <1>4, <1>5, <1>6, <1>7, <1>8, <1>9, <1>11, <1>12
  DEF Next, Collector, Worker, Terminated

\* The collector never asks the server to append a chunk the server does not know, for any
\* number of workers and chunks and whatever fails: a claim lost by a worker of the other
\* upload reaches everyone who waited for it as an error.
THEOREM NeverAppendsUnknown == Spec => []AppendsKnown
<1>1. Init => KnownInv
  BY DEF Init, KnownInv, KnownClaims, KnownSends, KnownDones, KnownPending, AppendsKnown
<1>2. Spec => [](TypeInv /\ KnownInv)
  BY <1>1, TypeInit, TypeStep, KnownStep, PTL DEF Spec
<1>3. KnownInv => AppendsKnown
  BY DEF KnownInv
<1> QED
  BY <1>2, <1>3, PTL

-----------------------------------------------------------------------------
(***************************************************************************)
(* The index is a prefix of the stream.  Every chunk in a queue, in a      *)
(* worker's hands or waiting in pending is the chunk the producer cut at   *)
(* its sequence number; the batch is the piece of the stream that ends at  *)
(* nextSeq; and, until the upload fails, the index is the piece before it. *)
(* After a failed append the two may overlap, which is why the collector   *)
(* must not append again.                                                  *)
(***************************************************************************)
IsCutOf(s, x) == x.seq < Len(s) /\ Entry(x) = Entry(s[x.seq + 1])

\* b is the piece of the stream s that ends with its n-th chunk.
PieceOf(b, n, s) ==
  /\ n <= Len(s) /\ Len(b) <= n
  /\ \A i \in 1 .. Len(b) : b[i] = Entry(s[n - Len(b) + i])

CutShape ==
  \A u \in Uploads : \A i \in 1 .. Len(cut[u]) :
    /\ cut[u][i].seq = i - 1
    /\ cut[u][i].offset = IF i = 1 THEN 0 ELSE EndOf(cut[u][i-1])
CutJobs == \A u \in Uploads : \A i \in 1 .. Len(jobs[u]) : IsCutOf(cut[u], jobs[u][i])
Busy == {"claim", "upload", "wait", "send"}
CutWork == \A w \in WorkerIds : wpc[w] \in Busy => IsCutOf(cut[w[1]], wjob[w])
CutDones == \A u \in Uploads : \A i \in 1 .. Len(dones[u]) : IsCutOf(cut[u], dones[u][i])
CutPending == \A u \in Uploads : \A c \in pending[u] : IsCutOf(cut[u], c)
CutBatch == \A u \in Uploads : PieceOf(batch[u], nextSeq[u], cut[u])
CutEntries ==
  \A u \in Uploads : PieceOf(entries[u], Len(entries[u]), cut[u]) /\ Len(entries[u]) <= nextSeq[u]
Aligned ==
  \A u \in Uploads :
    /\ phase[u] # "returned" /\ firstErr[u] = "none" => Len(entries[u]) + Len(batch[u]) = nextSeq[u]
    /\ phase[u] \in {"drain", "flush", "final", "close"} => firstErr[u] = "none"

StreamInv ==
  CutShape /\ CutJobs /\ CutWork /\ CutDones /\ CutPending /\ CutBatch /\ CutEntries /\ Aligned

LEMMA CutGrows ==
  ASSUME NEW s \in Seq(Jobs), NEW j \in Jobs, NEW x, x.seq \in Nat, IsCutOf(s, x)
  PROVE  IsCutOf(Append(s, j), x)
  BY AppendAt DEF IsCutOf

LEMMA PieceGrows ==
  ASSUME NEW s \in Seq(Jobs), NEW j \in Jobs, NEW b \in Seq(Entries), NEW n \in Nat, PieceOf(b, n, s)
  PROVE  PieceOf(b, n, Append(s, j))
<1>1. \A k \in 1 .. Len(s) : Append(s, j)[k] = s[k]
  BY AppendAt
<1>2. Len(Append(s, j)) = Len(s) + 1 /\ Len(s) \in Nat /\ Len(b) \in Nat
  BY AppendAt, LenType
<1>3. ASSUME NEW i \in 1 .. Len(b) PROVE n - Len(b) + i \in 1 .. Len(s)
  BY <1>2 DEF PieceOf
<1> QED
  BY <1>1, <1>2, <1>3 DEF PieceOf

LEMMA PieceExtends ==
  ASSUME NEW s \in Seq(Jobs), NEW b \in Seq(Entries), NEW n \in Nat, PieceOf(b, n, s),
         NEW c \in Dones, IsCutOf(s, c), c.seq = n
  PROVE  PieceOf(Append(b, Entry(c)), n + 1, s)
<1>1. Entry(c) \in Entries
  BY ChunkType
<1> DEFINE bb == Append(b, Entry(c))
<1>2. /\ Len(bb) = Len(b) + 1 /\ bb[Len(b) + 1] = Entry(c)
      /\ \A i \in 1 .. Len(b) : bb[i] = b[i]
  BY <1>1, AppendAt
<1>3. Len(b) \in Nat /\ Len(s) \in Nat
  BY LenType
<1>4. n + 1 <= Len(s) /\ Entry(c) = Entry(s[n + 1])
  BY <1>3 DEF IsCutOf
<1> HIDE DEF bb
<1>5. ASSUME NEW i \in 1 .. Len(bb) PROVE bb[i] = Entry(s[(n + 1) - Len(bb) + i])
  <2>1. CASE i \in 1 .. Len(b)
    <3>1. (n + 1) - Len(bb) + i = n - Len(b) + i
      BY <1>2, <1>3, <2>1
    <3> QED
      BY <1>2, <2>1, <3>1 DEF PieceOf
  <2>2. CASE i = Len(b) + 1
    <3>1. (n + 1) - Len(bb) + i = n + 1
      BY <1>2, <1>3, <2>2
    <3> QED
      BY <1>2, <1>4, <2>2, <3>1
  <2> QED
    BY <1>2, <1>3, <2>1, <2>2
<1>6. Len(bb) <= n + 1
  BY <1>2, <1>3 DEF PieceOf
<1>7. PieceOf(bb, n + 1, s)
  BY <1>4, <1>5, <1>6 DEF PieceOf
<1> QED
  BY <1>7 DEF bb

LEMMA PiecesJoin ==
  ASSUME NEW s \in Seq(Jobs), NEW e \in Seq(Entries), NEW b \in Seq(Entries), NEW n \in Nat,
         PieceOf(e, Len(e), s), PieceOf(b, n, s), Len(e) + Len(b) = n
  PROVE  PieceOf(e \o b, Len(e \o b), s) /\ Len(e \o b) = n
<1> DEFINE eb == e \o b
<1>1. /\ Len(eb) = Len(e) + Len(b)
      /\ \A i \in 1 .. Len(e) : eb[i] = e[i]
      /\ \A i \in 1 .. Len(e) + Len(b) : i > Len(e) => eb[i] = b[i - Len(e)]
  BY ConcatAt
<1>2. Len(e) \in Nat /\ Len(b) \in Nat /\ Len(s) \in Nat
  BY LenType
<1> HIDE DEF eb
<1>3. ASSUME NEW i \in 1 .. n PROVE eb[i] = Entry(s[i])
  <2>1. CASE i <= Len(e)
    BY <1>1, <1>2, <2>1 DEF PieceOf
  <2>2. CASE i > Len(e)
    <3>1. i - Len(e) \in 1 .. Len(b) /\ n - Len(b) + (i - Len(e)) = i
      BY <1>2, <2>2
    <3>2. eb[i] = b[i - Len(e)]
      BY <1>1, <2>2
    <3> QED
      BY <3>1, <3>2 DEF PieceOf
  <2> QED
    BY <1>2, <2>1, <2>2
<1>4. PieceOf(eb, Len(eb), s) /\ Len(eb) = n
  <2>1. n <= Len(s)
    BY DEF PieceOf
  <2>2. \A i \in 1 .. n : n - n + i = i
    OBVIOUS
  <2> QED
    BY <1>1, <1>3, <2>1, <2>2 DEF PieceOf
<1> QED
  BY <1>4 DEF eb

LEMMA StreamStep == TypeInv /\ StreamInv /\ [Next]_vars => StreamInv'
<1> SUFFICES ASSUME TypeInv, StreamInv, [Next]_vars PROVE StreamInv'
  OBVIOUS
<1> USE DEF TypeInv, TypeOK, StreamInv
<1>1. ASSUME NEW u \in Uploads, Produce(u) PROVE StreamInv'
  <2>1. UNCHANGED <<wpc, wjob, dones, pending, batch, nextSeq, entries, phase, firstErr>>
    BY <1>1 DEF Produce, workVars, collVars, indexVars
  <2>2. Aligned'
    BY <2>1 DEF Aligned
  <2>3. CASE UNCHANGED <<cut, jobs>>
    BY <2>1, <2>2, <2>3 DEF CutShape, CutJobs, CutWork, CutDones, CutPending, CutBatch, CutEntries
  <2>4. ASSUME NEW j \in Jobs, j.seq = Len(cut[u]), j.offset = StreamSize(u),
               cut' = [cut EXCEPT ![u] = Append(@, j)],
               jobs' = [jobs EXCEPT ![u] = Append(@, j)]
        PROVE  StreamInv'
    <3>1. cut[u] \in Seq(Jobs) /\ jobs[u] \in Seq(Jobs) /\ Len(cut[u]) \in Nat
      BY LenType DEF TypeProd
    <3>2. cut'[u] = Append(cut[u], j) /\ \A v \in Uploads : v # u => cut'[v] = cut[v] /\ jobs'[v] = jobs[v]
      BY <2>4 DEF TypeProd
    <3>3. ASSUME NEW v \in Uploads, NEW x, x.seq \in Nat, IsCutOf(cut[v], x) PROVE IsCutOf(cut'[v], x)
      BY <3>1, <3>2, <3>3, CutGrows
    <3>4. ASSUME NEW v \in Uploads, NEW b \in Seq(Entries), NEW n \in Nat, PieceOf(b, n, cut[v])
          PROVE  PieceOf(b, n, cut'[v])
      BY <3>1, <3>2, <3>4, PieceGrows
    <3>5. CutShape'
      <4>1. /\ Len(cut'[u]) = Len(cut[u]) + 1 /\ cut'[u][Len(cut[u]) + 1] = j
            /\ \A i \in 1 .. Len(cut[u]) : cut'[u][i] = cut[u][i]
        BY <3>1, <3>2, AppendAt
      <4>2. ASSUME NEW i \in 1 .. Len(cut'[u])
            PROVE  /\ cut'[u][i].seq = i - 1
                   /\ cut'[u][i].offset = IF i = 1 THEN 0 ELSE EndOf(cut'[u][i-1])
        <5>1. CASE i \in 1 .. Len(cut[u])
          <6>1. i # 1 => i - 1 \in 1 .. Len(cut[u])
            BY <3>1, <5>1
          <6> QED
            BY <4>1, <5>1, <6>1, SMTT(30) DEF CutShape
        <5>2. CASE i = Len(cut[u]) + 1
          <6>1. i # 1 => i - 1 = Len(cut[u]) /\ Len(cut[u]) \in 1 .. Len(cut[u]) /\ cut[u] # <<>>
            BY <3>1, <5>2
          <6>2. i = 1 => cut[u] = <<>>
            BY <3>1, <5>2
          <6> QED
            BY <2>4, <3>1, <4>1, <5>2, <6>1, <6>2 DEF StreamSize
        <5> QED
          BY <3>1, <4>1, <5>1, <5>2
      <4> QED
        <5> SUFFICES ASSUME NEW v \in Uploads, NEW i \in 1 .. Len(cut'[v])
                     PROVE  /\ cut'[v][i].seq = i - 1
                            /\ cut'[v][i].offset = IF i = 1 THEN 0 ELSE EndOf(cut'[v][i-1])
          BY DEF CutShape, EndOf
        <5>1. CASE v = u
          BY <4>2, <5>1
        <5>2. CASE v # u
          <6>1. cut'[v] = cut[v]
            BY <3>2, <5>2
          <6> QED
            BY <6>1 DEF CutShape
        <5> QED
          BY <5>1, <5>2
    <3>6. CutJobs'
      <4>1. IsCutOf(cut'[u], j)
        BY <2>4, <3>1, <3>2, AppendAt DEF IsCutOf
      <4>2. \A i \in 1 .. Len(jobs'[u]) : jobs'[u][i] = j \/ (i \in 1 .. Len(jobs[u]) /\ jobs'[u][i] = jobs[u][i])
        BY <2>4, <3>1, AppendAt DEF TypeProd
      <4>3. \A i \in 1 .. Len(jobs[u]) : jobs[u][i].seq \in Nat
        BY <3>1, ElementType, SeqNumber
      <4>4. \A i \in 1 .. Len(jobs'[u]) : IsCutOf(cut'[u], jobs'[u][i])
        BY <3>3, <4>1, <4>2, <4>3 DEF CutJobs
      <4> QED
        BY <3>2, <4>4 DEF CutJobs
    <3>7. CutWork'
      <4>1. \A w \in WorkerIds : wjob[w].seq \in Nat /\ w[1] \in Uploads
        BY DEF TypeWork, Jobs, WorkerIds
      <4> QED
        BY <2>1, <3>3, <4>1 DEF CutWork
    <3>8. CutDones'
      <4>1. \A v \in Uploads : \A i \in 1 .. Len(dones[v]) : dones[v][i].seq \in Nat
        BY ElementType, SeqNumber DEF TypeDone
      <4> QED
        BY <2>1, <3>3, <4>1 DEF CutDones
    <3>9. CutPending'
      <4>1. \A v \in Uploads : \A c \in pending[v] : c.seq \in Nat
        BY DEF TypeDone, Dones
      <4> QED
        BY <2>1, <3>3, <4>1 DEF CutPending
    <3>10. CutBatch'
      BY <2>1, <3>4 DEF CutBatch, TypeBatch
    <3>11. CutEntries'
      <4>1. \A v \in Uploads : entries[v] \in Seq(Entries) /\ Len(entries[v]) \in Nat
        BY LenType DEF TypeIndex
      <4> QED
        BY <2>1, <3>4, <4>1 DEF CutEntries
    <3> QED
      BY <2>2, <3>5, <3>6, <3>7, <3>8, <3>9, <3>10, <3>11
  <2> QED
    <3>1. ASSUME NEW d \in Digests, NEW k \in BOOLEAN
          PROVE [seq |-> SeqOfNext(u), offset |-> StreamSize(u), digest |-> d, known |-> k] \in Jobs
      <4>1. SeqOfNext(u) \in Nat
        BY LenType DEF SeqOfNext, TypeProd
      <4> QED
        BY <4>1, StreamSizeType DEF Jobs
    <3>2. \/ UNCHANGED <<cut, jobs>>
          \/ \E j \in Jobs : /\ j.seq = Len(cut[u]) /\ j.offset = StreamSize(u)
                             /\ cut' = [cut EXCEPT ![u] = Append(@, j)]
                             /\ jobs' = [jobs EXCEPT ![u] = Append(@, j)]
      <4>1. ASSUME NEW d \in Digests, NEW k \in BOOLEAN
            PROVE  LET j == [seq |-> SeqOfNext(u), offset |-> StreamSize(u), digest |-> d, known |-> k]
                   IN  j.seq = Len(cut[u]) /\ j.offset = StreamSize(u)
        BY DEF SeqOfNext
      <4> QED
        BY <1>1, <3>1, <4>1, Zenon DEF Produce
    <3> QED
      BY <2>3, <2>4, <3>2
<1>2. ASSUME NEW w \in WorkerIds, WorkerReceive(w) PROVE StreamInv'
  <2>1. UNCHANGED <<cut, dones, pending, batch, nextSeq, entries, phase, firstErr>>
    BY <1>2 DEF WorkerReceive, collVars, indexVars
  <2>2. w[1] \in Uploads /\ jobs[w[1]] \in Seq(Jobs)
    BY DEF WorkerIds, TypeProd
  <2>3. ASSUME jobs[w[1]] # <<>>,
               wjob' = [wjob EXCEPT ![w] = Head(jobs[w[1]])],
               jobs' = [jobs EXCEPT ![w[1]] = Tail(@)],
               wpc' = [wpc EXCEPT ![w] = "claim"]
        PROVE  CutJobs' /\ CutWork'
    <3>1. CutJobs'
      <4>1. \A i \in 1 .. Len(Tail(jobs[w[1]])) : i+1 \in 1 .. Len(jobs[w[1]]) /\ Tail(jobs[w[1]])[i] = jobs[w[1]][i+1]
        BY <2>2, <2>3, TailAt
      <4> QED
        BY <2>1, <2>2, <2>3, <4>1 DEF CutJobs, TypeProd
    <3>2. IsCutOf(cut[w[1]], Head(jobs[w[1]]))
      BY <2>2, <2>3, HeadAt DEF CutJobs
    <3>3. CutWork'
      BY <2>1, <2>3, <3>2 DEF CutWork, TypeWork
    <3> QED
      BY <3>1, <3>3
  <2>4. ASSUME wpc' = [wpc EXCEPT ![w] = "exit"], UNCHANGED <<jobs, wjob>>
        PROVE  CutJobs' /\ CutWork'
    <3>1. \A x \in WorkerIds : wpc'[x] \in Busy => wpc[x] \in Busy
      BY <2>4 DEF TypeWork, Busy
    <3> QED
      BY <2>1, <2>4, <3>1 DEF CutJobs, CutWork
  <2>5. CutJobs' /\ CutWork'
    BY <1>2, <2>3, <2>4 DEF WorkerReceive
  <2> QED
    BY <2>1, <2>5 DEF CutShape, CutDones, CutPending, CutBatch, CutEntries, Aligned
<1>3. ASSUME NEW w \in WorkerIds, Claim(w) \/ UploadReturns(w) \/ WaitReturns(w) PROVE StreamInv'
  <2>1. UNCHANGED <<cut, jobs, wjob, dones, pending, batch, nextSeq, entries, phase, firstErr>>
    BY <1>3 DEF Claim, UploadReturns, WaitReturns, prodVars, collVars, indexVars
  <2>2. wpc[w] \in Busy /\ \E pc \in Busy : wpc' = [wpc EXCEPT ![w] = pc]
    BY <1>3 DEF Claim, UploadReturns, WaitReturns, Decide, Busy
  <2>3. \A x \in WorkerIds : wpc'[x] \in Busy => wpc[x] \in Busy
    BY <2>2 DEF TypeWork
  <2> QED
    BY <2>1, <2>3 DEF CutShape, CutJobs, CutWork, CutDones, CutPending, CutBatch, CutEntries, Aligned
<1>4. ASSUME NEW w \in WorkerIds, SendDone(w) PROVE StreamInv'
  <2>1. UNCHANGED <<cut, jobs, pending, batch, nextSeq, entries, phase, firstErr>>
    BY <1>4 DEF SendDone, prodVars, collVars, indexVars
  <2>2. CutWork'
    <3>1. \A x \in WorkerIds : wpc'[x] \in Busy => wpc[x] \in Busy /\ wjob'[x] = wjob[x]
      BY <1>4 DEF SendDone, TypeWork, Busy
    <3> QED
      BY <2>1, <3>1 DEF CutWork
  <2>3. CutDones'
    <3> DEFINE d == DoneOf(wjob[w], werr[w])
    <3>1. IsCutOf(cut[w[1]], d)
      <4>1. IsCutOf(cut[w[1]], wjob[w])
        BY <1>4 DEF SendDone, CutWork, Busy
      <4> QED
        BY <4>1 DEF IsCutOf, DoneOf, Entry
    <3>2. dones' = [dones EXCEPT ![w[1]] = Append(@, d)] /\ w[1] \in Uploads /\ d \in Dones
      BY <1>4, DoneOfType DEF SendDone, WorkerIds, TypeWork
    <3> HIDE DEF d
    <3>3. \A i \in 1 .. Len(dones'[w[1]]) : dones'[w[1]][i] = d \/ (i \in 1 .. Len(dones[w[1]]) /\ dones'[w[1]][i] = dones[w[1]][i])
      BY <3>2, AppendAt DEF TypeDone
    <3> QED
      BY <2>1, <3>1, <3>2, <3>3 DEF CutDones, TypeDone
  <2> QED
    BY <2>1, <2>2, <2>3 DEF CutShape, CutJobs, CutPending, CutBatch, CutEntries, Aligned
<1>5. ASSUME NEW u \in Uploads, Collect(u) PROVE StreamInv'
  <2>1. UNCHANGED <<cut, jobs, wpc, wjob, batch, nextSeq, entries>>
    BY <1>5 DEF Collect, prodVars, workVars, indexVars
  <2>2. dones[u] \in Seq(Dones) /\ dones[u] # <<>> /\ dones' = [dones EXCEPT ![u] = Tail(@)]
    BY <1>5 DEF Collect, TypeDone
  <2>3. CutDones'
    <3>1. \A i \in 1 .. Len(Tail(dones[u])) : i+1 \in 1 .. Len(dones[u]) /\ Tail(dones[u])[i] = dones[u][i+1]
      BY <2>2, TailAt
    <3> QED
      BY <2>1, <2>2, <3>1 DEF CutDones, TypeDone
  <2>4. CutPending'
    <3>1. IsCutOf(cut[u], Head(dones[u]))
      BY <2>2, HeadAt DEF CutDones
    <3>2. pending' = pending \/ pending' = [pending EXCEPT ![u] = @ \union {Head(dones[u])}]
      BY <1>5 DEF Collect
    <3> QED
      BY <2>1, <3>1, <3>2 DEF CutPending, TypeDone
  <2>5. Aligned'
    <3>1. /\ phase[u] = "collect"
          /\ \/ phase' = phase /\ firstErr' = firstErr
             \/ phase' = phase /\ \E e : e # "none" /\ firstErr' = [firstErr EXCEPT ![u] = e]
             \/ firstErr[u] = "none" /\ firstErr' = firstErr /\ phase' = [phase EXCEPT ![u] = "drain"]
      BY <1>5 DEF Collect
    <3> QED
      BY <2>1, <3>1 DEF Aligned, TypePhase
  <2> QED
    BY <2>1, <2>3, <2>4, <2>5 DEF CutShape, CutJobs, CutWork, CutBatch, CutEntries
<1>6. ASSUME NEW u \in Uploads, Drain(u) PROVE StreamInv'
  <2>1. UNCHANGED <<cut, jobs, wpc, wjob, dones, entries, firstErr>> /\ phase[u] = "drain"
    BY <1>6 DEF Drain, prodVars, workVars, indexVars
  <2>2. CASE UNCHANGED <<pending, nextSeq, batch>> /\ phase' = [phase EXCEPT ![u] = "collect"]
    <3>1. Aligned'
      BY <2>1, <2>2 DEF Aligned, TypePhase
    <3> QED
      BY <2>1, <2>2, <3>1 DEF CutShape, CutJobs, CutWork, CutDones, CutPending, CutBatch, CutEntries
  <2>3. ASSUME NEW c \in pending[u], c.seq = nextSeq[u],
               pending' = [pending EXCEPT ![u] = @ \ {c}],
               nextSeq' = [nextSeq EXCEPT ![u] = @ + 1],
               batch' = [batch EXCEPT ![u] = Append(@, Entry(c))],
               NEW ph \in {"flush", "drain"}, phase' = [phase EXCEPT ![u] = ph]
        PROVE  StreamInv'
    <3>1. CutPending'
      BY <2>1, <2>3 DEF CutPending, TypeDone
    <3>2. batch[u] \in Seq(Entries) /\ nextSeq[u] \in Nat /\ cut[u] \in Seq(Jobs) /\ c \in Dones /\ Entry(c) \in Entries
      BY ChunkType DEF TypeBatch, TypeProd, TypeDone
    <3>3. CutBatch'
      <4>1. IsCutOf(cut[u], c)
        BY DEF CutPending
      <4>2. PieceOf(Append(batch[u], Entry(c)), nextSeq[u] + 1, cut[u])
        BY <2>3, <3>2, <4>1, PieceExtends DEF CutBatch
      <4> QED
        BY <2>1, <2>3, <4>2 DEF CutBatch, TypeBatch
    <3>4. Len(entries[u]) \in Nat /\ Len(batch[u]) \in Nat /\ Len(batch'[u]) = Len(batch[u]) + 1
      BY <2>3, <3>2, AppendAt, LenType DEF TypeBatch, TypeIndex
    <3>5. CutEntries'
      BY <2>1, <2>3, <3>2, <3>4 DEF CutEntries, TypeBatch
    <3>6. Aligned'
      <4>1. nextSeq'[u] = nextSeq[u] + 1 /\ \A v \in Uploads : v # u => nextSeq'[v] = nextSeq[v] /\ batch'[v] = batch[v] /\ phase'[v] = phase[v]
        BY <2>3 DEF TypeBatch, TypePhase
      <4>2. phase'[u] = ph /\ ph # "returned"
        BY <2>3 DEF TypePhase
      <4>3. firstErr[u] = "none" /\ Len(entries[u]) + Len(batch[u]) = nextSeq[u]
        BY <2>1 DEF Aligned
      <4> QED
        <5> SUFFICES ASSUME NEW v \in Uploads
                     PROVE  /\ phase'[v] # "returned" /\ firstErr'[v] = "none" => Len(entries'[v]) + Len(batch'[v]) = nextSeq'[v]
                            /\ phase'[v] \in {"drain", "flush", "final", "close"} => firstErr'[v] = "none"
          BY DEF Aligned
        <5>1. CASE v = u
          <6>1. entries'[u] = entries[u] /\ firstErr'[u] = "none"
            BY <2>1, <4>3
          <6>2. Len(entries'[u]) + Len(batch'[u]) = nextSeq'[u]
            <7>1. Len(entries[u]) + (Len(batch[u]) + 1) = nextSeq[u] + 1
              <8>1. Len(entries[u]) \in Nat /\ Len(batch[u]) \in Nat /\ Len(entries[u]) + Len(batch[u]) = nextSeq[u]
                BY <3>4, <4>3
              <8>2. \A x, y \in Nat : x + (y + 1) = (x + y) + 1
                OBVIOUS
              <8> QED
                BY <8>1, <8>2, Zenon
            <7>2. Len(entries'[u]) = Len(entries[u])
              BY <6>1
            <7>3. Len(batch'[u]) = Len(batch[u]) + 1 /\ nextSeq'[u] = nextSeq[u] + 1
              BY <3>4, <4>1
            <7> QED
              BY <7>1, <7>2, <7>3, Zenon
          <6> QED
            BY <5>1, <6>1, <6>2
        <5>2. CASE v # u
          BY <2>1, <4>1, <5>2 DEF Aligned
        <5> QED
          BY <5>1, <5>2
    <3> QED
      BY <2>1, <3>1, <3>3, <3>5, <3>6 DEF CutShape, CutJobs, CutWork, CutDones
  <2> QED
    BY <1>6, <2>2, <2>3 DEF Drain, IsNext
<1>7. ASSUME NEW u \in Uploads, Flush(u) \/ FinalFlush(u) PROVE StreamInv'
  <2>1. UNCHANGED <<cut, jobs, wpc, wjob, dones, pending, nextSeq>> /\ phase[u] \in {"flush", "final"}
    BY <1>7 DEF Flush, FinalFlush, prodVars, workVars
  <2>2. /\ entries[u] \in Seq(Entries) /\ batch[u] \in Seq(Entries) /\ nextSeq[u] \in Nat /\ cut[u] \in Seq(Jobs)
        /\ Len(entries[u]) \in Nat /\ Len(batch[u]) \in Nat
    BY LenType DEF TypeIndex, TypeBatch, TypeProd
  <2>3. firstErr[u] = "none" /\ Len(entries[u]) + Len(batch[u]) = nextSeq[u]
    BY <2>1 DEF Aligned
  <2>4. PieceOf(entries[u] \o batch[u], Len(entries[u] \o batch[u]), cut[u]) /\ Len(entries[u] \o batch[u]) = nextSeq[u]
    BY <2>2, <2>3, PiecesJoin DEF CutEntries, CutBatch
  <2>5. entries' = entries \/ entries' = [entries EXCEPT ![u] = @ \o batch[u]]
    BY <1>7 DEF Flush, FinalFlush, Appended
  <2>6. CutEntries'
    <3>1. CASE entries' = [entries EXCEPT ![u] = @ \o batch[u]]
      <4>1. entries'[u] = entries[u] \o batch[u] /\ \A v \in Uploads : v # u => entries'[v] = entries[v]
        BY <3>1 DEF TypeIndex
      <4>2. PieceOf(entries'[u], Len(entries'[u]), cut'[u]) /\ Len(entries'[u]) <= nextSeq'[u]
        <5>1. cut'[u] = cut[u] /\ nextSeq'[u] = nextSeq[u]
          BY <2>1
        <5>2. Len(entries'[u]) = nextSeq[u] /\ PieceOf(entries'[u], Len(entries'[u]), cut[u])
          BY <2>4, <4>1, Zenon
        <5>3. nextSeq[u] <= nextSeq[u]
          BY <2>2
        <5> QED
          BY <5>1, <5>2, <5>3, Zenon
      <4> QED
        BY <2>1, <4>1, <4>2 DEF CutEntries
    <3>2. CASE entries' = entries
      BY <2>1, <3>2 DEF CutEntries
    <3> QED
      BY <2>5, <3>1, <3>2
  <2>7. batch' = batch \/ batch' = [batch EXCEPT ![u] = <<>>]
    BY <1>7 DEF Flush, FinalFlush
  <2>8. CutBatch'
    <3>1. PieceOf(<<>>, nextSeq[u], cut[u])
      BY <2>2 DEF CutBatch, PieceOf
    <3> QED
      BY <2>1, <2>7, <3>1 DEF CutBatch, TypeBatch
  <2>9. Aligned'
    <3>1. \A v \in Uploads : v # u => /\ phase'[v] = phase[v] /\ firstErr'[v] = firstErr[v]
                                      /\ entries'[v] = entries[v] /\ batch'[v] = batch[v]
      BY <1>7 DEF Flush, FinalFlush, Return, Appended, TypePhase, TypeIndex, TypeBatch
    <3>2. CASE /\ entries' = Appended(u) /\ batch' = [batch EXCEPT ![u] = <<>>] /\ UNCHANGED firstErr
      <4>1. Len(entries'[u]) = nextSeq[u] /\ Len(batch'[u]) = 0
        BY <2>4, <3>2 DEF Appended, TypeIndex, TypeBatch
      <4> QED
        <5> SUFFICES ASSUME NEW v \in Uploads
                     PROVE  /\ phase'[v] # "returned" /\ firstErr'[v] = "none" => Len(entries'[v]) + Len(batch'[v]) = nextSeq'[v]
                            /\ phase'[v] \in {"drain", "flush", "final", "close"} => firstErr'[v] = "none"
          BY DEF Aligned
        <5>1. CASE v = u
          <6>1. firstErr'[u] = "none"
            BY <2>3, <3>2
          <6>2. Len(entries'[u]) + Len(batch'[u]) = nextSeq'[u]
            BY <2>1, <2>2, <4>1
          <6> QED
            BY <5>1, <6>1, <6>2
        <5>2. CASE v # u
          BY <2>1, <3>1, <5>2 DEF Aligned
        <5> QED
          BY <5>1, <5>2
    <3>3. CASE /\ firstErr'[u] # "none" \/ phase'[u] = "returned"
               /\ phase'[u] \in {"collect", "returned"}
      BY <2>1, <3>1, <3>3 DEF Aligned
    <3>4. ASSUME Flush(u) PROVE Aligned'
      <4>1. ASSUME NEW e \in AppendErrors(u), firstErr' = [firstErr EXCEPT ![u] = e],
                   phase' = [phase EXCEPT ![u] = "collect"]
            PROVE  Aligned'
        <5>1. e # "none"
          BY AppendErrorsType
        <5> QED
          BY <3>3, <4>1, <5>1 DEF TypePhase
      <4> QED
        BY <3>2, <3>4, <4>1 DEF Flush
    <3>5. ASSUME FinalFlush(u) PROVE Aligned'
      BY <3>2, <3>3, <3>5 DEF FinalFlush, Return, TypePhase
    <3> QED
      BY <1>7, <3>4, <3>5
  <2> QED
    BY <2>1, <2>6, <2>8, <2>9 DEF CutShape, CutJobs, CutWork, CutDones, CutPending
<1>8. ASSUME NEW u \in Uploads, DownloadPrevious(u) \/ CreateIndex(u) \/ CollectEnd(u) \/ CloseIndex(u) PROVE StreamInv'
  <2>1. UNCHANGED <<cut, jobs, wpc, wjob, dones, pending, batch, nextSeq, entries, firstErr>>
    BY <1>8 DEF DownloadPrevious, CreateIndex, CollectEnd, CloseIndex, prodVars, workVars, collVars, indexVars
  <2>2. \A v \in Uploads : \/ phase'[v] = phase[v] \/ phase'[v] = "returned"
                           \/ phase[v] # "returned" /\ phase'[v] \in {"create", "collect"}
                           \/ phase[v] # "returned" /\ phase'[v] = "final" /\ firstErr[v] = "none"
    BY <1>8 DEF DownloadPrevious, CreateIndex, CollectEnd, CloseIndex, Return, StreamErr, TypePhase
  <2>3. Aligned'
    BY <2>1, <2>2 DEF Aligned
  <2> QED
    BY <2>1, <2>3 DEF CutShape, CutJobs, CutWork, CutDones, CutPending, CutBatch, CutEntries
<1>9. CASE UserCancel \/ UNCHANGED vars
  <2>1. UNCHANGED <<cut, jobs, wpc, wjob, dones, pending, batch, nextSeq, entries, firstErr, phase>>
    BY <1>9 DEF UserCancel, vars, prodVars, workVars, collVars, indexVars
  <2> QED
    BY <2>1 DEF CutShape, CutJobs, CutWork, CutDones, CutPending, CutBatch, CutEntries, Aligned
<1> QED
  BY <1>1, <1>2, <1>3, <1>4, <1>5, <1>6, <1>7, <1>8, <1>9 DEF Next, Collector, Worker, Terminated

LEMMA StreamInit == Init => StreamInv
<1> SUFFICES ASSUME Init PROVE StreamInv
  OBVIOUS
<1>1. CutShape /\ CutJobs /\ CutWork /\ CutDones /\ CutPending
  BY DEF Init, CutShape, CutJobs, CutWork, CutDones, CutPending, Busy
<1>2. CutBatch /\ CutEntries /\ Aligned
  BY DEF Init, CutBatch, CutEntries, Aligned, PieceOf
<1> QED
  BY <1>1, <1>2 DEF StreamInv

LEMMA StreamImplies == TypeOK /\ StreamInv => IndexFollowsStream
<1> SUFFICES ASSUME TypeOK, StreamInv, NEW u \in Uploads
             PROVE  LET e == entries[u] IN
                    /\ Len(e) <= Len(cut[u])
                    /\ \A i \in 1 .. Len(e) :
                         /\ e[i] = Entry(cut[u][i])
                         /\ e[i].offset = IF i = 1 THEN 0 ELSE e[i-1].offset + SizeOf[e[i-1].digest]
  BY DEF IndexFollowsStream
<1> USE DEF TypeOK, StreamInv
<1>1. Len(entries[u]) \in Nat /\ Len(cut[u]) \in Nat
  BY LenType DEF TypeIndex, TypeProd
<1>2. Len(entries[u]) <= Len(cut[u]) /\ \A i \in 1 .. Len(entries[u]) : entries[u][i] = Entry(cut[u][i])
  <2>1. PieceOf(entries[u], Len(entries[u]), cut[u])
    BY DEF CutEntries
  <2>2. \A i \in 1 .. Len(entries[u]) : Len(entries[u]) - Len(entries[u]) + i = i
    BY <1>1
  <2> QED
    BY <2>1, <2>2 DEF PieceOf
<1>3. ASSUME NEW i \in 1 .. Len(entries[u])
      PROVE  entries[u][i].offset = IF i = 1 THEN 0 ELSE entries[u][i-1].offset + SizeOf[entries[u][i-1].digest]
  <2>1. i \in 1 .. Len(cut[u]) /\ (i # 1 => i - 1 \in 1 .. Len(entries[u]))
    BY <1>1, <1>2
  <2>2. entries[u][i].offset = IF i = 1 THEN 0 ELSE EndOf(cut[u][i-1])
    <3>1. entries[u][i].offset = cut[u][i].offset
      <4>1. entries[u][i] = Entry(cut[u][i])
        BY <1>2
      <4> QED
        BY <4>1 DEF Entry
    <3> QED
      BY <2>1, <3>1 DEF CutShape
  <2>3. i # 1 => entries[u][i-1].offset + SizeOf[entries[u][i-1].digest] = EndOf(cut[u][i-1])
    <3>1. i # 1 => entries[u][i-1] = Entry(cut[u][i-1])
      BY <1>2, <2>1
    <3> QED
      BY <3>1 DEF Entry, EndOf
  <2> QED
    BY <2>2, <2>3
<1> QED
  BY <1>2, <1>3

\* The server's index is at all times a prefix of the stream, contiguous from offset 0, for
\* any number of workers, any batch size and any stream: whatever order the workers finish
\* in, and although an append that failed may have been carried out.
THEOREM IndexIsPrefix == Spec => []IndexFollowsStream
<1>1. Spec => [](TypeInv /\ StreamInv)
  BY TypeInit, TypeStep, StreamInit, StreamStep, PTL DEF Spec
<1>2. TypeInv /\ StreamInv => IndexFollowsStream
  BY StreamImplies DEF TypeInv
<1> QED
  BY <1>1, <1>2, PTL

-----------------------------------------------------------------------------
(***************************************************************************)
(* A digest once claimed is never free again.  What was sent is claimed,   *)
(* and so is what the previous index holds, before the first worker of an  *)
(* upload can have a job.                                                  *)
(***************************************************************************)
Claimed(D) == \A d \in D : claims[d] # "free"
SentClaimed == Claimed(sent)
SeededFirst == \A u \in Uploads : phase[u] \notin {"previous", "returned"} => Claimed(Previous[u])
BusySeeded == \A w \in WorkerIds : wpc[w] \in Busy => Claimed(Previous[w[1]])

ClaimInv == SentClaimed /\ SeededFirst /\ BusySeeded

\* No step frees a digest, and only DownloadPrevious and Claim touch what the invariant reads
\* of a digest that is free.
LEMMA StaysClaimed ==
  ASSUME TypeInv, [Next]_vars, NEW d \in Digests, claims[d] # "free"
  PROVE  claims'[d] # "free"
<1> USE DEF TypeInv, TypeOK
<1>1. ASSUME NEW u \in Uploads, DownloadPrevious(u) PROVE claims'[d] # "free"
  BY <1>1 DEF DownloadPrevious, Seeded, TypeSet
<1>2. ASSUME NEW w \in WorkerIds, Claim(w) PROVE claims'[d] # "free"
  BY <1>2 DEF Claim, TypeSet
<1>3. ASSUME NEW w \in WorkerIds, UploadReturns(w) PROVE claims'[d] # "free"
  <2>1. Gone(w[1]) \in BOOLEAN
    BY DEF Gone, TypeCtx, TypePhase, WorkerIds
  <2> QED
    BY <1>3, <2>1, FailuresType DEF UploadReturns, Complete, TypeSet
<1>4. CASE UNCHANGED claims
  BY <1>4
<1>5. ASSUME NEW u \in Uploads,
             Produce(u) \/ CreateIndex(u) \/ Collect(u) \/ Drain(u) \/ Flush(u) \/ CollectEnd(u)
               \/ FinalFlush(u) \/ CloseIndex(u)
      PROVE  claims'[d] # "free"
  BY <1>4, <1>5 DEF Produce, CreateIndex, Collect, Drain, Flush, CollectEnd, FinalFlush, CloseIndex, setVars
<1>6. ASSUME NEW w \in WorkerIds, WorkerReceive(w) \/ WaitReturns(w) \/ SendDone(w) PROVE claims'[d] # "free"
  BY <1>4, <1>6 DEF WorkerReceive, WaitReturns, SendDone, setVars
<1>7. CASE UserCancel \/ UNCHANGED vars
  BY <1>4, <1>7 DEF UserCancel, vars, setVars
<1> QED
  BY <1>1, <1>2, <1>3, <1>5, <1>6, <1>7 DEF Next, Collector, Worker, Terminated

LEMMA ClaimStep == TypeInv /\ ClaimInv /\ [Next]_vars => ClaimInv'
<1> SUFFICES ASSUME TypeInv, ClaimInv, [Next]_vars PROVE ClaimInv'
  OBVIOUS
<1> USE DEF TypeInv, TypeOK, ClaimInv
<1>1. ASSUME NEW D, D \subseteq Digests, Claimed(D) PROVE Claimed(D)'
  BY <1>1, StaysClaimed DEF Claimed
<1>2. \A u \in Uploads : Previous[u] \subseteq Digests
  BY UploadConstants
<1>3. \A w \in WorkerIds : w[1] \in Uploads
  BY DEF WorkerIds
<1>4. SentClaimed'
  <2>1. CASE sent' = sent
    BY <1>1, <2>1 DEF SentClaimed, TypeSet, Claimed
  <2>2. ASSUME NEW w \in WorkerIds, Claim(w) PROVE SentClaimed'
    <3>1. wjob[w].digest \in Digests
      BY DEF TypeWork, Jobs
    <3>2. sent' = sent \/ (sent' = sent \union {wjob[w].digest} /\ claims'[wjob[w].digest] = "flight")
      BY <2>2, <3>1 DEF Claim, TypeSet
    <3> QED
      BY <1>1, <2>1, <3>2 DEF SentClaimed, TypeSet, Claimed
  <2>3. sent' = sent \/ \E w \in WorkerIds : Claim(w)
    BY DEF Next, Collector, Worker, Terminated, Produce, DownloadPrevious, CreateIndex, Collect, Drain, Flush,
           CollectEnd, FinalFlush, CloseIndex, WorkerReceive, UploadReturns, WaitReturns, SendDone, UserCancel,
           vars, setVars
  <2> QED
    BY <2>1, <2>2, <2>3
<1>5. SeededFirst'
  <2>1. ASSUME NEW u \in Uploads, DownloadPrevious(u) PROVE SeededFirst'
    <3>1. \A v \in Uploads : v # u => phase'[v] = phase[v]
      BY <2>1 DEF DownloadPrevious, Return, TypePhase
    <3>2. phase'[u] # "returned" => Claimed(Previous[u])'
      BY <1>2, <2>1 DEF DownloadPrevious, Return, Seeded, Claimed, TypePhase, TypeSet
    <3> QED
      BY <1>1, <1>2, <3>1, <3>2 DEF SeededFirst
  <2>2. CASE \A v \in Uploads : phase[v] \in {"previous", "returned"} => phase'[v] = phase[v]
    BY <1>1, <1>2, <2>2 DEF SeededFirst
  <2>3. ASSUME NEW u \in Uploads,
               CreateIndex(u) \/ Collect(u) \/ Drain(u) \/ Flush(u) \/ CollectEnd(u) \/ FinalFlush(u) \/ CloseIndex(u)
        PROVE  SeededFirst'
    <3>1. phase[u] \notin {"previous", "returned"}
      BY <2>3 DEF CreateIndex, Collect, Drain, Flush, CollectEnd, FinalFlush, CloseIndex
    <3>2. \A v \in Uploads : v # u => phase'[v] = phase[v]
      BY <2>3 DEF CreateIndex, Collect, Drain, Flush, CollectEnd, FinalFlush, CloseIndex, Return, TypePhase
    <3> QED
      BY <2>2, <3>1, <3>2
  <2>4. CASE phase' = phase
    BY <2>2, <2>4
  <2>5. ASSUME NEW u \in Uploads, Produce(u) PROVE SeededFirst'
    BY <2>4, <2>5 DEF Produce
  <2>6. ASSUME NEW w \in WorkerIds, Worker(w) PROVE SeededFirst'
    BY <2>4, <2>6 DEF Worker, WorkerReceive, Claim, UploadReturns, WaitReturns, SendDone
  <2>7. CASE UserCancel \/ UNCHANGED vars
    BY <2>4, <2>7 DEF UserCancel, vars
  <2> QED
    BY <2>1, <2>3, <2>5, <2>6, <2>7 DEF Next, Collector, Terminated
<1>6. BusySeeded'
  <2>1. CASE \A w \in WorkerIds : wpc'[w] \in Busy => wpc[w] \in Busy
    BY <1>1, <1>2, <1>3, <2>1 DEF BusySeeded
  <2>2. ASSUME NEW w \in WorkerIds, WorkerReceive(w) PROVE BusySeeded'
    <3>1. Claimed(Previous[w[1]])
      BY <1>3, <2>2 DEF WorkerReceive, Started, SeededFirst
    <3>2. \A x \in WorkerIds : x # w => wpc'[x] = wpc[x]
      BY <2>2 DEF WorkerReceive, TypeWork
    <3> QED
      BY <1>1, <1>2, <1>3, <3>1, <3>2 DEF BusySeeded
  <2>3. ASSUME NEW w \in WorkerIds, Claim(w) \/ UploadReturns(w) \/ WaitReturns(w) \/ SendDone(w) PROVE BusySeeded'
    <3>1. wpc[w] \in Busy /\ \A x \in WorkerIds : x # w => wpc'[x] = wpc[x]
      BY <2>3 DEF Claim, UploadReturns, WaitReturns, SendDone, Decide, TypeWork, Busy
    <3> QED
      BY <2>1, <3>1
  <2>4. CASE wpc' = wpc
    BY <2>1, <2>4
  <2>5. ASSUME NEW u \in Uploads, Produce(u) \/ Collector(u) PROVE BusySeeded'
    BY <2>4, <2>5 DEF Produce, Collector, DownloadPrevious, CreateIndex, Collect, Drain, Flush, CollectEnd,
                      FinalFlush, CloseIndex, workVars
  <2>6. CASE UserCancel \/ UNCHANGED vars
    BY <2>4, <2>6 DEF UserCancel, vars, workVars
  <2> QED
    BY <2>2, <2>3, <2>5, <2>6 DEF Next, Worker, Terminated
<1> QED
  BY <1>4, <1>5, <1>6

\* A chunk is uploaded at most once in a session, over both streams and for any number of
\* workers, and never when the stream's own previous index holds it.
THEOREM ChunkSentOnce == Spec => SentOnce
<1>1. Init => ClaimInv
  BY DEF Init, ClaimInv, SentClaimed, SeededFirst, BusySeeded, Claimed, Busy
<1>2. Spec => [](TypeInv /\ ClaimInv)
  BY <1>1, TypeInit, TypeStep, ClaimStep, PTL DEF Spec
<1>3. TypeInv /\ ClaimInv /\ [Next]_vars =>
        [\A w \in WorkerIds : wpc[w] = "claim" /\ wpc'[w] = "upload" =>
           wjob[w].digest \notin sent \union Previous[w[1]]]_vars
  <2> SUFFICES ASSUME TypeInv, ClaimInv, [Next]_vars,
                      NEW w \in WorkerIds, wpc[w] = "claim", wpc'[w] = "upload"
               PROVE  wjob[w].digest \notin sent \union Previous[w[1]]
    OBVIOUS
  <2> USE DEF TypeInv, TypeOK, ClaimInv
  <2>1. Claim(w)
    <3>1. ASSUME NEW x \in WorkerIds, Worker(x) PROVE Claim(w)
      BY <3>1 DEF Worker, WorkerReceive, Claim, UploadReturns, WaitReturns, SendDone, Decide, TypeWork
    <3>2. wpc' # wpc
      OBVIOUS
    <3>3. ASSUME NEW u \in Uploads, Produce(u) \/ Collector(u) PROVE FALSE
      BY <3>2, <3>3 DEF Produce, Collector, DownloadPrevious, CreateIndex, Collect, Drain, Flush, CollectEnd,
                        FinalFlush, CloseIndex, workVars
    <3>4. ~UserCancel /\ ~UNCHANGED vars
      BY <3>2 DEF UserCancel, vars, workVars
    <3> QED
      BY <3>1, <3>3, <3>4 DEF Next, Terminated
  <2>2. claims[wjob[w].digest] = "free"
    BY <2>1 DEF Claim, Decide, TypeWork
  <2> QED
    BY <2>2 DEF SentClaimed, BusySeeded, Claimed, Busy
<1> QED
  BY <1>2, <1>3, PTL DEF Spec, SentOnce

-----------------------------------------------------------------------------
(***************************************************************************)
(* A closed index is complete.  Until an error, no chunk gets lost: each   *)
(* one not yet in the batch is in a queue, in a worker's hands or pending. *)
(* So when every worker has exited and nothing is pending, the batch has   *)
(* reached the end of the stream.  The checksum follows the batch.         *)
(***************************************************************************)
InJobs(u, s) == \E i \in 1 .. Len(jobs[u]) : jobs[u][i].seq = s
InWork(u, s) == \E i \in Workers : wpc[<<u, i>>] \in Busy /\ wjob[<<u, i>>].seq = s
InDones(u, s) == \E i \in 1 .. Len(dones[u]) : dones[u][i].seq = s
InPending(u, s) == \E c \in pending[u] : c.seq = s

Accounted ==
  \A u \in Uploads : firstErr[u] = "none" =>
    \A s \in Nat : nextSeq[u] <= s /\ s < Len(cut[u]) =>
      InJobs(u, s) \/ InWork(u, s) \/ InDones(u, s) \/ InPending(u, s)
SumFollows ==
  \A u \in Uploads :
    /\ Len(csum[u]) = nextSeq[u]
    /\ \A i \in 1 .. Len(csum[u]) : csum[u][i] = SumOf(cut[u][i])
ReadToEnd ==
  \A u \in Uploads : phase[u] \in {"final", "close"} => prodErr[u] = "none" /\ nextSeq[u] = Len(cut[u])
ClosedReturned == \A u \in Uploads : closed[u] => phase[u] = "returned"

CompleteInv == Accounted /\ SumFollows /\ ReadToEnd /\ ClosedReturned /\ ClosedComplete

LEMMA AccountedStep == TypeInv /\ StreamInv /\ Accounted /\ [Next]_vars => Accounted'
<1> SUFFICES ASSUME TypeInv, StreamInv, Accounted, [Next]_vars,
                    NEW u \in Uploads, firstErr'[u] = "none",
                    NEW s \in Nat, nextSeq'[u] <= s, s < Len(cut'[u])
             PROVE  InJobs(u, s)' \/ InWork(u, s)' \/ InDones(u, s)' \/ InPending(u, s)'
  BY DEF Accounted, InJobs, InWork, InDones, InPending
<1> USE DEF TypeInv, TypeOK
<1>1. /\ cut[u] \in Seq(Jobs) /\ jobs[u] \in Seq(Jobs) /\ dones[u] \in Seq(Dones) /\ nextSeq[u] \in Nat
      /\ Len(cut[u]) \in Nat /\ Len(jobs[u]) \in Nat /\ Len(dones[u]) \in Nat
  BY LenType DEF TypeProd, TypeDone, TypeBatch
<1>2. \A i \in Workers : <<u, i>> \in WorkerIds /\ <<u, i>>[1] = u
  BY DEF WorkerIds
<1>3. ASSUME firstErr[u] = "none", nextSeq[u] <= s, s < Len(cut[u])
      PROVE  InJobs(u, s) \/ InWork(u, s) \/ InDones(u, s) \/ InPending(u, s)
  BY <1>3 DEF Accounted
<1>4. CASE UNCHANGED <<cut, jobs, dones, pending, nextSeq>> /\ firstErr[u] = "none"
           /\ \A i \in Workers : wpc[<<u, i>>] \in Busy => wpc'[<<u, i>>] \in Busy /\ wjob'[<<u, i>>] = wjob[<<u, i>>]
  BY <1>3, <1>4 DEF InJobs, InWork, InDones, InPending
<1>5. ASSUME NEW v \in Uploads, Produce(v) PROVE InJobs(u, s)' \/ InWork(u, s)' \/ InDones(u, s)' \/ InPending(u, s)'
  <2>1. UNCHANGED <<wpc, wjob, dones, pending, nextSeq, firstErr>>
    BY <1>5 DEF Produce, workVars, collVars
  <2>2. CASE cut'[u] = cut[u] /\ jobs'[u] = jobs[u]
    BY <1>3, <2>1, <2>2 DEF InJobs, InWork, InDones, InPending
  <2>3. ASSUME NEW j \in Jobs, j.seq = Len(cut[u]), cut'[u] = Append(cut[u], j), jobs'[u] = Append(jobs[u], j)
        PROVE  InJobs(u, s)' \/ InWork(u, s)' \/ InDones(u, s)' \/ InPending(u, s)'
    <3>1. Len(cut'[u]) = Len(cut[u]) + 1 /\ Len(jobs'[u]) = Len(jobs[u]) + 1 /\ jobs'[u][Len(jobs[u]) + 1] = j
      BY <1>1, <2>3, AppendAt
    <3>2. CASE s = Len(cut[u])
      <4>1. Len(jobs[u]) + 1 \in 1 .. Len(jobs'[u])
        BY <1>1, <3>1
      <4> QED
        BY <2>3, <3>1, <3>2, <4>1 DEF InJobs
    <3>3. CASE s < Len(cut[u])
      <4>1. InJobs(u, s) => InJobs(u, s)'
        <5>1. \A i \in 1 .. Len(jobs[u]) : i \in 1 .. Len(jobs'[u]) /\ jobs'[u][i] = jobs[u][i]
          BY <1>1, <2>3, <3>1, AppendAt
        <5> QED
          BY <5>1 DEF InJobs
      <4> QED
        BY <1>3, <2>1, <3>3, <4>1 DEF InWork, InDones, InPending
    <3> QED
      BY <1>1, <3>1, <3>2, <3>3
  <2>4. CASE v = u
    <3>1. ASSUME NEW d \in Digests, NEW k \in BOOLEAN
          PROVE [seq |-> SeqOfNext(u), offset |-> StreamSize(u), digest |-> d, known |-> k] \in Jobs
      BY <1>1, StreamSizeType DEF Jobs, SeqOfNext
    <3>2. \/ UNCHANGED <<cut, jobs>>
          \/ \E j \in Jobs : /\ j.seq = Len(cut[u])
                             /\ cut' = [cut EXCEPT ![u] = Append(@, j)]
                             /\ jobs' = [jobs EXCEPT ![u] = Append(@, j)]
      <4>1. ASSUME NEW d \in Digests, NEW k \in BOOLEAN
            PROVE  LET j == [seq |-> SeqOfNext(u), offset |-> StreamSize(u), digest |-> d, known |-> k]
                   IN  j.seq = Len(cut[u])
        BY DEF SeqOfNext
      <4> QED
        BY <1>5, <2>4, <3>1, <4>1, Zenon DEF Produce
    <3>3. CASE UNCHANGED <<cut, jobs>>
      BY <2>2, <3>3
    <3>4. ASSUME NEW j \in Jobs, j.seq = Len(cut[u]),
                 cut' = [cut EXCEPT ![u] = Append(@, j)], jobs' = [jobs EXCEPT ![u] = Append(@, j)]
          PROVE  InJobs(u, s)' \/ InWork(u, s)' \/ InDones(u, s)' \/ InPending(u, s)'
      <4>1. cut'[u] = Append(cut[u], j) /\ jobs'[u] = Append(jobs[u], j)
        BY <3>4 DEF TypeProd
      <4> QED
        BY <2>3, <3>4, <4>1
    <3> QED
      BY <3>2, <3>3, <3>4
  <2>5. CASE v # u
    <3>1. cut'[u] = cut[u] /\ jobs'[u] = jobs[u]
      BY <1>5, <2>5 DEF Produce, TypeProd
    <3> QED
      BY <2>2, <3>1
  <2> QED
    BY <2>4, <2>5
<1>6. ASSUME NEW w \in WorkerIds, WorkerReceive(w) PROVE InJobs(u, s)' \/ InWork(u, s)' \/ InDones(u, s)' \/ InPending(u, s)'
  <2>1. UNCHANGED <<cut, dones, pending, nextSeq, firstErr>> /\ w[1] \in Uploads /\ wpc[w] = "idle"
    BY <1>6 DEF WorkerReceive, collVars, WorkerIds
  <2>2. InWork(u, s) => InWork(u, s)'
    <3>1. \A x \in WorkerIds : x # w => wpc'[x] = wpc[x] /\ wjob'[x] = wjob[x]
      BY <1>6 DEF WorkerReceive, TypeWork
    <3> QED
      BY <1>2, <2>1, <3>1 DEF InWork, Busy
  <2>3. InJobs(u, s) => InJobs(u, s)' \/ InWork(u, s)'
    <3>1. CASE jobs'[u] = jobs[u]
      BY <3>1 DEF InJobs
    <3>2. CASE /\ w[1] = u /\ jobs[u] # <<>> /\ jobs'[u] = Tail(jobs[u])
               /\ wjob'[w] = Head(jobs[u]) /\ wpc'[w] = "claim"
      <4> SUFFICES ASSUME NEW i \in 1 .. Len(jobs[u]), jobs[u][i].seq = s
                   PROVE  InJobs(u, s)' \/ InWork(u, s)'
        BY DEF InJobs
      <4>1. CASE i = 1
        <5>1. Head(jobs[u]) = jobs[u][1]
          BY <1>1, <3>2, HeadAt
        <5>2. \E k \in Workers : w = <<u, k>>
          BY <3>2 DEF WorkerIds
        <5> QED
          BY <3>2, <4>1, <5>1, <5>2 DEF InWork, Busy
      <4>2. CASE i > 1
        <5>1. i - 1 \in 1 .. Len(jobs'[u]) /\ jobs'[u][i - 1] = jobs[u][(i - 1) + 1] /\ (i - 1) + 1 = i
          BY <1>1, <3>2, <4>2, TailAt
        <5> QED
          BY <5>1 DEF InJobs
      <4> QED
        BY <4>1, <4>2
    <3>3. CASE w[1] # u
      BY <1>6, <2>1, <3>1, <3>3 DEF WorkerReceive, TypeProd
    <3>4. CASE w[1] = u
      <4>1. \/ jobs' = jobs
            \/ /\ jobs[u] # <<>> /\ jobs' = [jobs EXCEPT ![u] = Tail(jobs[u])]
               /\ wjob' = [wjob EXCEPT ![w] = Head(jobs[u])] /\ wpc' = [wpc EXCEPT ![w] = "claim"]
        BY <1>6, <3>4 DEF WorkerReceive
      <4>2. jobs' = [jobs EXCEPT ![u] = Tail(jobs[u])] => jobs'[u] = Tail(jobs[u])
        BY DEF TypeProd
      <4>3. /\ wjob' = [wjob EXCEPT ![w] = Head(jobs[u])] => wjob'[w] = Head(jobs[u])
            /\ wpc' = [wpc EXCEPT ![w] = "claim"] => wpc'[w] = "claim"
        BY DEF TypeWork
      <4> QED
        BY <3>1, <3>2, <3>4, <4>1, <4>2, <4>3
    <3> QED
      BY <3>3, <3>4
  <2> QED
    BY <1>3, <2>1, <2>2, <2>3 DEF InDones, InPending
<1>7. ASSUME NEW w \in WorkerIds, Claim(w) \/ UploadReturns(w) \/ WaitReturns(w)
      PROVE  InJobs(u, s)' \/ InWork(u, s)' \/ InDones(u, s)' \/ InPending(u, s)'
  <2>1. UNCHANGED <<cut, jobs, wjob, dones, pending, nextSeq, firstErr>>
    BY <1>7 DEF Claim, UploadReturns, WaitReturns, prodVars, collVars
  <2>2. \E pc \in Busy : wpc' = [wpc EXCEPT ![w] = pc]
    BY <1>7 DEF Claim, UploadReturns, WaitReturns, Decide, Busy
  <2> QED
    BY <1>2, <1>4, <2>1, <2>2 DEF TypeWork
<1>8. ASSUME NEW w \in WorkerIds, SendDone(w) PROVE InJobs(u, s)' \/ InWork(u, s)' \/ InDones(u, s)' \/ InPending(u, s)'
  <2> DEFINE d == DoneOf(wjob[w], werr[w])
  <2>1. UNCHANGED <<cut, jobs, pending, nextSeq, firstErr>>
    BY <1>8 DEF SendDone, prodVars, collVars
  <2>2. /\ dones' = [dones EXCEPT ![w[1]] = Append(@, d)] /\ w[1] \in Uploads /\ d \in Dones /\ d.seq = wjob[w].seq
        /\ \A x \in WorkerIds : x # w => wpc'[x] = wpc[x] /\ wjob'[x] = wjob[x]
    BY <1>8, DoneOfType DEF SendDone, WorkerIds, TypeWork, DoneOf
  <2> HIDE DEF d
  <2>3. InDones(u, s) => InDones(u, s)'
    <3>1. \A i \in 1 .. Len(dones[u]) : i \in 1 .. Len(dones'[u]) /\ dones'[u][i] = dones[u][i]
      <4>1. CASE w[1] = u
        <5>1. dones'[u] = Append(dones[u], d)
          BY <2>2, <4>1 DEF TypeDone
        <5> QED
          BY <1>1, <2>2, <5>1, AppendAt
      <4>2. CASE w[1] # u
        BY <2>2, <4>2 DEF TypeDone
      <4> QED
        BY <4>1, <4>2
    <3> QED
      BY <3>1 DEF InDones
  <2>4. InWork(u, s) => InWork(u, s)' \/ InDones(u, s)'
    <3> SUFFICES ASSUME NEW i \in Workers, wpc[<<u, i>>] \in Busy, wjob[<<u, i>>].seq = s
                 PROVE  InWork(u, s)' \/ InDones(u, s)'
      BY DEF InWork
    <3>1. CASE w = <<u, i>>
      <4>1. dones'[u] = Append(dones[u], d) /\ d.seq = s
        BY <1>2, <2>2, <3>1 DEF TypeDone
      <4>2. Len(dones[u]) + 1 \in 1 .. Len(dones'[u]) /\ dones'[u][Len(dones[u]) + 1] = d
        BY <1>1, <2>2, <4>1, AppendAt
      <4> QED
        BY <4>1, <4>2 DEF InDones
    <3>2. CASE w # <<u, i>>
      BY <1>2, <2>2, <3>2 DEF InWork
    <3> QED
      BY <3>1, <3>2
  <2> QED
    BY <1>3, <2>1, <2>3, <2>4 DEF InJobs, InPending
<1>9. ASSUME NEW v \in Uploads, Collect(v) PROVE InJobs(u, s)' \/ InWork(u, s)' \/ InDones(u, s)' \/ InPending(u, s)'
  <2>1. UNCHANGED <<cut, jobs, wpc, wjob, nextSeq>>
    BY <1>9 DEF Collect, prodVars, workVars
  <2>2. CASE v # u
    <3>1. dones'[u] = dones[u] /\ pending'[u] = pending[u] /\ firstErr'[u] = firstErr[u]
      BY <1>9, <2>2 DEF Collect, TypeDone, TypePhase
    <3> QED
      BY <1>3, <2>1, <3>1 DEF InJobs, InWork, InDones, InPending
  <2>3. CASE v = u
    <3>1. /\ dones[u] # <<>> /\ dones'[u] = Tail(dones[u])
          /\ firstErr[u] = "none" /\ pending'[u] = pending[u] \union {Head(dones[u])}
      BY <1>9, <2>3 DEF Collect, TypeDone, TypePhase
    <3>2. InDones(u, s) => InDones(u, s)' \/ InPending(u, s)'
      <4> SUFFICES ASSUME NEW i \in 1 .. Len(dones[u]), dones[u][i].seq = s
                   PROVE  InDones(u, s)' \/ InPending(u, s)'
        BY DEF InDones
      <4>1. CASE i = 1
        <5>1. Head(dones[u]) = dones[u][1]
          BY <1>1, <3>1, HeadAt
        <5> QED
          BY <3>1, <4>1, <5>1 DEF InPending
      <4>2. CASE i > 1
        <5>1. i - 1 \in 1 .. Len(dones'[u]) /\ dones'[u][i - 1] = dones[u][(i - 1) + 1] /\ (i - 1) + 1 = i
          BY <1>1, <3>1, <4>2, TailAt
        <5> QED
          BY <5>1 DEF InDones
      <4> QED
        BY <4>1, <4>2
    <3>3. InPending(u, s) => InPending(u, s)'
      BY <3>1 DEF InPending
    <3> QED
      BY <1>3, <2>1, <3>1, <3>2, <3>3 DEF InJobs, InWork
  <2> QED
    BY <2>2, <2>3
<1>10. ASSUME NEW v \in Uploads, Drain(v) PROVE InJobs(u, s)' \/ InWork(u, s)' \/ InDones(u, s)' \/ InPending(u, s)'
  <2>1. UNCHANGED <<cut, jobs, wpc, wjob, dones, firstErr>>
    BY <1>10 DEF Drain, prodVars, workVars
  <2>2. CASE pending'[u] = pending[u] /\ nextSeq'[u] = nextSeq[u]
    BY <1>3, <2>1, <2>2 DEF InJobs, InWork, InDones, InPending
  <2>3. ASSUME NEW c \in pending[u], c.seq = nextSeq[u], pending'[u] = pending[u] \ {c}, nextSeq'[u] = nextSeq[u] + 1
        PROVE  InJobs(u, s)' \/ InWork(u, s)' \/ InDones(u, s)' \/ InPending(u, s)'
    <3>1. nextSeq[u] <= s /\ s # nextSeq[u]
      BY <1>1, <2>3
    <3>2. InPending(u, s) => InPending(u, s)'
      BY <2>3, <3>1 DEF InPending
    <3> QED
      BY <1>3, <2>1, <3>1, <3>2 DEF InJobs, InWork, InDones
  <2>4. CASE v # u
    <3>1. pending'[u] = pending[u] /\ nextSeq'[u] = nextSeq[u]
      BY <1>10, <2>4 DEF Drain, TypeDone, TypeBatch
    <3> QED
      BY <2>2, <3>1
  <2>5. CASE v = u
    <3>1. CASE UNCHANGED <<pending, nextSeq>>
      BY <2>2, <3>1
    <3>2. ASSUME NEW c \in pending[u], c.seq = nextSeq[u],
                 pending' = [pending EXCEPT ![u] = @ \ {c}], nextSeq' = [nextSeq EXCEPT ![u] = @ + 1]
          PROVE  InJobs(u, s)' \/ InWork(u, s)' \/ InDones(u, s)' \/ InPending(u, s)'
      <4>1. pending'[u] = pending[u] \ {c} /\ nextSeq'[u] = nextSeq[u] + 1
        BY <3>2 DEF TypeDone, TypeBatch
      <4> QED
        BY <2>3, <3>2, <4>1
    <3> QED
      BY <1>10, <2>5, <3>1, <3>2 DEF Drain, IsNext
  <2> QED
    BY <2>4, <2>5
<1>11. ASSUME NEW v \in Uploads, Flush(v) PROVE InJobs(u, s)' \/ InWork(u, s)' \/ InDones(u, s)' \/ InPending(u, s)'
  <2>1. UNCHANGED <<cut, jobs, wpc, wjob, dones, pending, nextSeq>>
    BY <1>11 DEF Flush, prodVars, workVars
  <2>2. firstErr[u] = "none"
    <3>1. \A e \in AppendErrors(v) : e # "none"
      BY AppendErrorsType
    <3> QED
      BY <1>11, <3>1 DEF Flush, TypePhase
  <2> QED
    BY <1>4, <2>1, <2>2
<1>12. ASSUME NEW v \in Uploads, DownloadPrevious(v) \/ CreateIndex(v) \/ CollectEnd(v) \/ FinalFlush(v) \/ CloseIndex(v)
       PROVE  InJobs(u, s)' \/ InWork(u, s)' \/ InDones(u, s)' \/ InPending(u, s)'
  BY <1>4, <1>12 DEF DownloadPrevious, CreateIndex, CollectEnd, FinalFlush, CloseIndex, prodVars, workVars, collVars
<1>13. CASE UserCancel \/ UNCHANGED vars
  BY <1>4, <1>13 DEF UserCancel, vars, prodVars, workVars, collVars
<1> QED
  BY <1>5, <1>6, <1>7, <1>8, <1>9, <1>10, <1>11, <1>12, <1>13 DEF Next, Collector, Worker, Terminated

LEMMA SumFollowsStep == TypeInv /\ StreamInv /\ SumFollows /\ [Next]_vars => SumFollows'
<1> SUFFICES ASSUME TypeInv, StreamInv, SumFollows, [Next]_vars, NEW u \in Uploads
             PROVE  /\ Len(csum'[u]) = nextSeq'[u]
                    /\ \A i \in 1 .. Len(csum'[u]) : csum'[u][i] = SumOf(cut'[u][i])
  BY DEF SumFollows, SumOf, EndOf
<1> USE DEF TypeInv, TypeOK
<1>1. /\ cut[u] \in Seq(Jobs) /\ csum[u] \in Seq(Sums) /\ nextSeq[u] \in Nat
      /\ Len(cut[u]) \in Nat /\ Len(csum[u]) = nextSeq[u] /\ nextSeq[u] <= Len(cut[u])
      /\ \A i \in 1 .. Len(csum[u]) : csum[u][i] = SumOf(cut[u][i])
  BY LenType DEF TypeProd, TypeBatch, SumFollows, StreamInv, CutBatch, PieceOf
<1>2. CASE csum'[u] = csum[u] /\ nextSeq'[u] = nextSeq[u] /\ cut'[u] = cut[u]
  BY <1>1, <1>2
<1>3. ASSUME NEW v \in Uploads, Produce(v)
      PROVE  Len(csum'[u]) = nextSeq'[u] /\ \A i \in 1 .. Len(csum'[u]) : csum'[u][i] = SumOf(cut'[u][i])
  <2>1. csum' = csum /\ nextSeq' = nextSeq
    BY <1>3 DEF Produce, collVars
  <2>2. cut'[u] = cut[u] \/ \E j \in Jobs : cut'[u] = Append(cut[u], j)
    <3>1. ASSUME NEW d \in Digests, NEW k \in BOOLEAN
          PROVE [seq |-> SeqOfNext(v), offset |-> StreamSize(v), digest |-> d, known |-> k] \in Jobs
      BY LenType, StreamSizeType DEF Jobs, SeqOfNext, TypeProd
    <3>2. cut' = cut \/ \E j \in Jobs : cut' = [cut EXCEPT ![v] = Append(@, j)]
      BY <1>3, <3>1, Zenon DEF Produce
    <3> QED
      BY <3>2 DEF TypeProd
  <2>3. \A i \in 1 .. Len(cut[u]) : cut'[u][i] = cut[u][i]
    BY <1>1, <2>2, AppendAt
  <2> QED
    BY <1>1, <2>1, <2>3
<1>4. ASSUME NEW v \in Uploads, Drain(v)
      PROVE  Len(csum'[u]) = nextSeq'[u] /\ \A i \in 1 .. Len(csum'[u]) : csum'[u][i] = SumOf(cut'[u][i])
  <2>1. cut' = cut
    BY <1>4 DEF Drain, prodVars
  <2>2. CASE UNCHANGED <<csum, nextSeq>>
    BY <1>2, <2>1, <2>2
  <2>3. ASSUME NEW c \in pending[v], c.seq = nextSeq[v],
               nextSeq' = [nextSeq EXCEPT ![v] = @ + 1],
               csum' = [csum EXCEPT ![v] = Append(@, SumOf(c))]
        PROVE  Len(csum'[u]) = nextSeq'[u] /\ \A i \in 1 .. Len(csum'[u]) : csum'[u][i] = SumOf(cut'[u][i])
    <3>1. CASE v # u
      BY <1>2, <2>1, <2>3, <3>1 DEF TypeBatch
    <3>2. CASE v = u
      <4>1. csum'[u] = Append(csum[u], SumOf(c)) /\ nextSeq'[u] = nextSeq[u] + 1
        BY <2>3, <3>2 DEF TypeBatch
      <4>2. SumOf(c) \in Sums
        BY <2>3, ChunkType DEF TypeDone
      <4>3. /\ Len(csum'[u]) = Len(csum[u]) + 1 /\ csum'[u][Len(csum[u]) + 1] = SumOf(c)
            /\ \A i \in 1 .. Len(csum[u]) : csum'[u][i] = csum[u][i]
        BY <1>1, <4>1, <4>2, AppendAt
      <4>4. SumOf(c) = SumOf(cut[u][nextSeq[u] + 1])
        <5>1. Entry(c) = Entry(cut[u][nextSeq[u] + 1])
          BY <2>3, <3>2 DEF StreamInv, CutPending, IsCutOf
        <5>2. c.offset = cut[u][nextSeq[u] + 1].offset /\ c.digest = cut[u][nextSeq[u] + 1].digest
          BY <5>1 DEF Entry
        <5> QED
          BY <5>2 DEF SumOf, EndOf
      <4> QED
        BY <1>1, <2>1, <4>1, <4>3, <4>4
    <3> QED
      BY <3>1, <3>2
  <2> QED
    BY <1>4, <2>2, <2>3 DEF Drain, IsNext
<1>5. CASE UNCHANGED <<csum, nextSeq, cut>>
  BY <1>2, <1>5
<1>6. ASSUME NEW v \in Uploads, DownloadPrevious(v) \/ CreateIndex(v) \/ Collect(v) \/ Flush(v) \/ CollectEnd(v)
                                 \/ FinalFlush(v) \/ CloseIndex(v)
      PROVE  UNCHANGED <<csum, nextSeq, cut>>
  BY <1>6 DEF DownloadPrevious, CreateIndex, Collect, Flush, CollectEnd, FinalFlush, CloseIndex, prodVars, collVars
<1>7. ASSUME NEW w \in WorkerIds, Worker(w) PROVE UNCHANGED <<csum, nextSeq, cut>>
  BY <1>7 DEF Worker, WorkerReceive, Claim, UploadReturns, WaitReturns, SendDone, prodVars, collVars
<1>8. ASSUME UserCancel \/ UNCHANGED vars PROVE UNCHANGED <<csum, nextSeq, cut>>
  BY <1>8 DEF UserCancel, vars, prodVars, collVars
<1> QED
  BY <1>3, <1>4, <1>5, <1>6, <1>7, <1>8 DEF Next, Collector, Terminated

\* When every worker has exited and no error occurred, the batch has reached the end of the
\* stream: nothing is left in the queues.
LEMMA EndReached ==
  ASSUME TypeInv, StreamInv, Accounted, NEW u \in Uploads, firstErr[u] = "none",
         dones[u] = <<>>, pending[u] = {}, \A i \in Workers : wpc[<<u, i>>] = "exit"
  PROVE  prodErr[u] # "running" /\ nextSeq[u] = Len(cut[u])
<1> USE DEF TypeInv, TypeOK
<1>1. nextSeq[u] \in Nat /\ Len(cut[u]) \in Nat /\ nextSeq[u] <= Len(cut[u])
  BY LenType DEF TypeProd, TypeBatch, StreamInv, CutBatch, PieceOf
<1>2. jobs[u] = <<>> /\ prodErr[u] # "running"
  <2>1. PICK i \in Workers : TRUE
    BY UploadConstants
  <2>2. <<u, i>> \in WorkerIds /\ <<u, i>>[1] = u /\ wpc[<<u, i>>] = "exit"
    BY <2>1 DEF WorkerIds
  <2> QED
    BY <2>2 DEF ExitsAfterProducer
<1>3. ASSUME nextSeq[u] < Len(cut[u]) PROVE FALSE
  <2>1. \/ InJobs(u, nextSeq[u]) \/ InWork(u, nextSeq[u])
        \/ InDones(u, nextSeq[u]) \/ InPending(u, nextSeq[u])
    BY <1>1, <1>3 DEF Accounted
  <2>2. ~InJobs(u, nextSeq[u]) /\ ~InDones(u, nextSeq[u])
    BY <1>2 DEF InJobs, InDones
  <2>3. ~InWork(u, nextSeq[u]) /\ ~InPending(u, nextSeq[u])
    BY DEF InWork, InPending, Busy
  <2> QED
    BY <2>1, <2>2, <2>3
<1> QED
  BY <1>1, <1>2, <1>3

LEMMA ReadToEndStep ==
  TypeInv /\ StreamInv /\ Accounted /\ ReadToEnd /\ [Next]_vars => ReadToEnd'
<1> SUFFICES ASSUME TypeInv, StreamInv, Accounted, ReadToEnd, [Next]_vars,
                    NEW u \in Uploads, phase'[u] \in {"final", "close"}
             PROVE  prodErr'[u] = "none" /\ nextSeq'[u] = Len(cut'[u])
  BY DEF ReadToEnd
<1> USE DEF TypeInv, TypeOK
<1>1. CASE phase[u] \in {"final", "close"} /\ prodErr'[u] = prodErr[u] /\ nextSeq'[u] = nextSeq[u] /\ cut'[u] = cut[u]
  BY <1>1 DEF ReadToEnd
<1>2. ASSUME NEW v \in Uploads, Produce(v) PROVE prodErr'[u] = "none" /\ nextSeq'[u] = Len(cut'[u])
  <2>1. phase' = phase /\ nextSeq' = nextSeq /\ prodErr[v] = "running"
    BY <1>2 DEF Produce, collVars
  <2>2. u # v
    BY <2>1 DEF ReadToEnd
  <2>3. prodErr'[u] = prodErr[u] /\ cut'[u] = cut[u]
    BY <1>2, <2>2 DEF Produce, TypeProd
  <2> QED
    BY <1>1, <2>1, <2>3
<1>3. ASSUME NEW v \in Uploads, CollectEnd(v) PROVE prodErr'[u] = "none" /\ nextSeq'[u] = Len(cut'[u])
  <2>1. UNCHANGED <<prodErr, cut, nextSeq>>
    BY <1>3 DEF CollectEnd, prodVars, collVars
  <2>2. CASE v # u
    BY <1>1, <1>3, <2>1, <2>2 DEF CollectEnd, Return, TypePhase
  <2>3. CASE v = u
    <3>1. /\ firstErr[u] = "none" /\ prodErr[u] = "none" /\ pending[u] = {} /\ dones[u] = <<>>
          /\ \A i \in Workers : wpc[<<u, i>>] = "exit"
      BY <1>3, <2>3 DEF CollectEnd, Return, StreamErr, TypePhase
    <3> QED
      BY <2>1, <3>1, EndReached
  <2> QED
    BY <2>2, <2>3
<1>4. ASSUME NEW v \in Uploads,
             DownloadPrevious(v) \/ CreateIndex(v) \/ Collect(v) \/ Drain(v) \/ Flush(v) \/ FinalFlush(v) \/ CloseIndex(v)
      PROVE  prodErr'[u] = "none" /\ nextSeq'[u] = Len(cut'[u])
  <2>1. UNCHANGED <<prodErr, cut>>
    BY <1>4 DEF DownloadPrevious, CreateIndex, Collect, Drain, Flush, FinalFlush, CloseIndex, prodVars
  <2>2. phase[u] \in {"final", "close"}
    BY <1>4 DEF DownloadPrevious, CreateIndex, Collect, Drain, Flush, FinalFlush, CloseIndex, Return, TypePhase
  <2>3. nextSeq'[u] = nextSeq[u]
    BY <1>4, <2>2 DEF DownloadPrevious, CreateIndex, Collect, Drain, Flush, FinalFlush, CloseIndex, TypeBatch, collVars
  <2> QED
    BY <1>1, <2>1, <2>2, <2>3
<1>5. ASSUME NEW w \in WorkerIds, Worker(w) PROVE prodErr'[u] = "none" /\ nextSeq'[u] = Len(cut'[u])
  BY <1>1, <1>5 DEF Worker, WorkerReceive, Claim, UploadReturns, WaitReturns, SendDone, prodVars, collVars
<1>6. CASE UserCancel \/ UNCHANGED vars
  BY <1>1, <1>6 DEF UserCancel, vars, prodVars, collVars
<1> QED
  BY <1>2, <1>3, <1>4, <1>5, <1>6 DEF Next, Collector, Terminated

\* What ClosedComplete says of one index.
CompleteFor(u) ==
  /\ prodErr[u] = "none"
  /\ Len(entries[u]) = Len(cut[u])
  /\ closeSize[u] = StreamSize(u)
  /\ Len(closeSum[u]) = Len(cut[u])
  /\ \A i \in 1 .. Len(cut[u]) : closeSum[u][i] = SumOf(cut[u][i])

LEMMA ClosedStep ==
  TypeInv /\ StreamInv /\ CompleteInv /\ [Next]_vars => ClosedReturned' /\ ClosedComplete'
<1> SUFFICES ASSUME TypeInv, StreamInv, CompleteInv, [Next]_vars, NEW u \in Uploads, closed'[u]
             PROVE  phase'[u] = "returned" /\ CompleteFor(u)'
  BY DEF ClosedReturned, ClosedComplete, CompleteFor, SumOf, EndOf, StreamSize
<1> USE DEF TypeInv, TypeOK, CompleteInv
<1>1. CASE /\ closed[u] /\ phase'[u] = phase[u] /\ prodErr'[u] = prodErr[u] /\ entries'[u] = entries[u] /\ cut'[u] = cut[u]
           /\ closeSize'[u] = closeSize[u] /\ closeSum'[u] = closeSum[u]
  BY <1>1 DEF ClosedReturned, ClosedComplete, CompleteFor, SumOf, EndOf, StreamSize
<1>2. ASSUME NEW v \in Uploads, CloseIndex(v), v = u PROVE phase'[u] = "returned" /\ CompleteFor(u)'
  <2>1. UNCHANGED <<prodErr, entries, cut>> /\ phase[u] = "close" /\ phase'[u] = "returned"
    BY <1>2 DEF CloseIndex, Return, TypePhase, prodVars
  <2>2. ~closed[u]
    BY <2>1 DEF ClosedReturned
  <2>3. Close(u)
    BY <1>2, <2>2 DEF CloseIndex
  <2>4. closeSum'[u] = csum[u] /\ closeSize'[u] = SumSize(u) /\ Len(entries[u]) = Len(csum[u])
    BY <2>3 DEF Close, Closeable, TypeIndex
  <2>5. prodErr[u] = "none" /\ nextSeq[u] = Len(cut[u])
    BY <2>1 DEF ReadToEnd
  <2>6. Len(csum[u]) = Len(cut[u]) /\ \A i \in 1 .. Len(cut[u]) : csum[u][i] = SumOf(cut[u][i])
    BY <2>5 DEF SumFollows
  <2>7. SumSize(u) = StreamSize(u)
    <3>1. cut[u] \in Seq(Jobs) /\ csum[u] \in Seq(Sums) /\ Len(cut[u]) \in Nat
      BY LenType DEF TypeProd, TypeBatch
    <3>2. (cut[u] = <<>> <=> Len(cut[u]) = 0) /\ (csum[u] = <<>> <=> Len(csum[u]) = 0)
      BY <3>1
    <3>3. CASE cut[u] = <<>>
      BY <2>6, <3>2, <3>3 DEF SumSize, StreamSize
    <3>4. CASE cut[u] # <<>>
      <4>1. Len(cut[u]) \in 1 .. Len(cut[u])
        BY <3>1, <3>2, <3>4
      <4>2. csum[u][Len(csum[u])].end = EndOf(cut[u][Len(cut[u])])
        <5>1. csum[u][Len(csum[u])] = SumOf(cut[u][Len(cut[u])])
          BY <2>6, <4>1
        <5>2. SumOf(cut[u][Len(cut[u])]).end = EndOf(cut[u][Len(cut[u])])
          BY DEF SumOf
        <5> QED
          BY <5>1, <5>2
      <4> QED
        BY <2>6, <3>2, <3>4, <4>2 DEF SumSize, StreamSize
    <3> QED
      BY <3>3, <3>4
  <2>8. CompleteFor(u)'
    BY <2>1, <2>4, <2>5, <2>6, <2>7 DEF CompleteFor, SumOf, EndOf, StreamSize
  <2> QED
    BY <2>1, <2>8
<1>3. ASSUME NEW v \in Uploads, CloseIndex(v), v # u PROVE phase'[u] = "returned" /\ CompleteFor(u)'
  BY <1>1, <1>3 DEF CloseIndex, Close, Return, TypePhase, TypeIndex, prodVars
<1>4. ASSUME NEW v \in Uploads, Produce(v) PROVE phase'[u] = "returned" /\ CompleteFor(u)'
  <2>1. UNCHANGED <<phase, closed, entries, closeSum, closeSize>> /\ phase[v] # "returned"
    BY <1>4 DEF Produce, Started, indexVars
  <2>2. u # v
    BY <2>1 DEF ClosedReturned
  <2>3. prodErr'[u] = prodErr[u] /\ cut'[u] = cut[u]
    BY <1>4, <2>2 DEF Produce, TypeProd
  <2> QED
    BY <1>1, <2>1, <2>3
<1>5. ASSUME NEW v \in Uploads,
             DownloadPrevious(v) \/ CreateIndex(v) \/ Collect(v) \/ Drain(v) \/ Flush(v) \/ CollectEnd(v) \/ FinalFlush(v)
      PROVE  phase'[u] = "returned" /\ CompleteFor(u)'
  <2>1. UNCHANGED <<prodErr, cut, closed, closeSum, closeSize>> /\ phase[v] # "returned"
    BY <1>5 DEF DownloadPrevious, CreateIndex, Collect, Drain, Flush, CollectEnd, FinalFlush, prodVars, indexVars
  <2>2. u # v
    BY <2>1 DEF ClosedReturned
  <2>3. phase'[u] = phase[u] /\ entries'[u] = entries[u]
    BY <1>5, <2>2 DEF DownloadPrevious, CreateIndex, Collect, Drain, Flush, CollectEnd, FinalFlush, Return, Appended,
                      TypePhase, TypeIndex, indexVars
  <2> QED
    BY <1>1, <2>1, <2>3
<1>6. ASSUME NEW w \in WorkerIds, Worker(w) PROVE phase'[u] = "returned" /\ CompleteFor(u)'
  BY <1>1, <1>6 DEF Worker, WorkerReceive, Claim, UploadReturns, WaitReturns, SendDone, prodVars, indexVars
<1>7. CASE UserCancel \/ UNCHANGED vars
  BY <1>1, <1>7 DEF UserCancel, vars, prodVars, indexVars
<1> QED
  BY <1>2, <1>3, <1>4, <1>5, <1>6, <1>7 DEF Next, Collector, Terminated

LEMMA CompleteInvariant == Spec => [](TypeInv /\ StreamInv /\ CompleteInv)
<1>1. Init => CompleteInv
  <2> SUFFICES ASSUME Init PROVE CompleteInv
    OBVIOUS
  <2>1. Accounted /\ SumFollows
    BY DEF Init, Accounted, SumFollows
  <2> QED
    BY <2>1 DEF Init, CompleteInv, ReadToEnd, ClosedReturned, ClosedComplete
<1>2. TypeInv /\ StreamInv /\ CompleteInv /\ [Next]_vars => CompleteInv'
  BY AccountedStep, SumFollowsStep, ReadToEndStep, ClosedStep DEF CompleteInv
<1> QED
  BY <1>1, <1>2, TypeInit, TypeStep, StreamInit, StreamStep, PTL DEF Spec

\* Only a stream that was read to its end is closed, with every chunk of it in the index and
\* the checksum and size of exactly those chunks: in no interleaving of the workers is a
\* chunk lost between the queues, even when the request to close was cut off.
THEOREM ClosedIsComplete == Spec => []ClosedComplete
<1>1. CompleteInv => ClosedComplete
  BY DEF CompleteInv
<1> QED
  BY <1>1, CompleteInvariant, PTL

-----------------------------------------------------------------------------
(***************************************************************************)
(* The root cause.  Without the caller's cancellation, a context is done   *)
(* or a cancellation seen only after some upload met a fault of its own,   *)
(* which that upload goes on to return.                                    *)
(***************************************************************************)
Tainted ==
  \/ canceled
  \/ \E u \in Uploads : stopped[u] \/ "canceled" \in {firstErr[u], prodErr[u], ret[u]}
  \/ \E d \in Digests : claims[d] = "canceled"
  \/ \E w \in WorkerIds : werr[w] = "canceled"
  \/ \E u \in Uploads : \E i \in 1 .. Len(dones[u]) : dones[u][i].err = "canceled"
Faulty == \E u \in Uploads : firstErr[u] = "fault" \/ ret[u] = "fault"
TaintHasRoot == Tainted => userCanceled \/ Faulty
FirstErrReturned ==
  \A u \in Uploads : phase[u] = "returned" => (firstErr[u] # "none" => ret[u] = firstErr[u])
ReturnedOk == \A u \in Uploads : phase[u] = "returned" /\ ret[u] = "none" => closed[u]
RunningOk == \A u \in Uploads : phase[u] # "returned" => ret[u] = "none"
EarlyClean == \A u \in Uploads : phase[u] \in {"previous", "create"} => firstErr[u] = "none"

RootInv == TaintHasRoot /\ FirstErrReturned /\ ReturnedOk /\ RunningOk /\ EarlyClean

\* Once a fault is in an upload's hands, it stays there.
LEMMA FaultStays ==
  ASSUME TypeInv, StreamInv, RootInv, [Next]_vars, Faulty
  PROVE  Faulty'
<1> USE DEF TypeInv, TypeOK, RootInv
<1>1. PICK u \in Uploads : firstErr[u] = "fault" \/ ret[u] = "fault"
  BY DEF Faulty
<1>2. CASE firstErr'[u] = firstErr[u] /\ ret'[u] = ret[u]
  BY <1>1, <1>2 DEF Faulty
<1>3. CASE firstErr'[u] = firstErr[u] /\ phase[u] # "returned"
  <2>1. ret[u] = "none"
    BY <1>3 DEF RunningOk
  <2> QED
    BY <1>1, <1>3, <2>1 DEF Faulty
<1>4. ASSUME NEW v \in Uploads, Collect(v) PROVE Faulty'
  <2>1. phase[v] # "returned" /\ ret' = ret
    BY <1>4 DEF Collect
  <2>2. CASE v # u
    BY <1>2, <1>4, <2>1, <2>2 DEF Collect, TypePhase
  <2>3. CASE v = u
    <3>1. firstErr[u] = "fault"
      BY <1>1, <2>1, <2>3 DEF RunningOk
    <3> QED
      BY <1>2, <1>4, <2>1, <2>3, <3>1 DEF Collect, TypePhase
  <2> QED
    BY <2>2, <2>3
<1>5. ASSUME NEW v \in Uploads, Flush(v) PROVE Faulty'
  <2>1. phase[v] = "flush" /\ ret' = ret
    BY <1>5 DEF Flush
  <2>2. v # u
    BY <1>1, <2>1 DEF RunningOk, StreamInv, Aligned
  <2> QED
    BY <1>2, <1>5, <2>1, <2>2 DEF Flush, TypePhase
<1>6. ASSUME NEW v \in Uploads,
             DownloadPrevious(v) \/ CreateIndex(v) \/ CollectEnd(v) \/ FinalFlush(v) \/ CloseIndex(v)
      PROVE  Faulty'
  <2>1. firstErr' = firstErr /\ phase[v] # "returned"
    BY <1>6 DEF DownloadPrevious, CreateIndex, CollectEnd, FinalFlush, CloseIndex, collVars
  <2>2. v # u => ret'[u] = ret[u]
    BY <1>6 DEF DownloadPrevious, CreateIndex, CollectEnd, FinalFlush, CloseIndex, Return, TypePhase
  <2> QED
    BY <1>2, <1>3, <2>1, <2>2
<1>7. ASSUME NEW v \in Uploads, Produce(v) \/ Drain(v) PROVE Faulty'
  BY <1>2, <1>7 DEF Produce, Drain, collVars
<1>8. ASSUME NEW w \in WorkerIds, Worker(w) PROVE Faulty'
  BY <1>2, <1>8 DEF Worker, WorkerReceive, Claim, UploadReturns, WaitReturns, SendDone, collVars
<1>9. CASE UserCancel \/ UNCHANGED vars
  BY <1>2, <1>9 DEF UserCancel, vars, collVars
<1> QED
  BY <1>4, <1>5, <1>6, <1>7, <1>8, <1>9 DEF Next, Collector, Terminated

\* A step that returns e with a done context, or with an error it found in the upload.
LEMMA ReturnTaint ==
  ASSUME TypeInv, ~Tainted, NEW u \in Uploads, NEW e \in {"none", "fault"}, Return(u, e),
         UNCHANGED <<stopped, firstErr, prodErr, claims, werr, dones>>
  PROVE  Tainted' => Faulty'
<1>1. CASE e = "none"
  BY <1>1 DEF Return, Tainted, TypeInv, TypeOK, TypePhase, TypeCtx
<1>2. CASE e = "fault"
  BY <1>2 DEF Return, Faulty, TypeInv, TypeOK, TypePhase
<1> QED
  BY <1>1, <1>2

\* The first step to bring in a cancellation is the caller's, or comes with a fault.
LEMMA FirstTaint ==
  ASSUME TypeInv, RootInv, [Next]_vars, ~Tainted, Tainted'
  PROVE  userCanceled' \/ Faulty'
<1> USE DEF TypeInv, TypeOK
<1>1. /\ canceled = FALSE
      /\ \A u \in Uploads : stopped[u] = FALSE /\ firstErr[u] # "canceled" /\ prodErr[u] # "canceled" /\ ret[u] # "canceled"
      /\ \A d \in Digests : claims[d] # "canceled"
      /\ \A w \in WorkerIds : werr[w] # "canceled"
      /\ \A u \in Uploads : \A i \in 1 .. Len(dones[u]) : dones[u][i].err # "canceled"
  BY DEF Tainted, TypeCtx, TypePhase
<1>2. \A u \in Uploads : Gone(u) = FALSE
  BY <1>1 DEF Gone
<1>3. Failures(FALSE) \subseteq {"fault"} /\ \A u \in Uploads : AppendErrors(u) \subseteq {"fault"}
  BY <1>1 DEF Failures, AppendErrors
<1>4. ASSUME UNCHANGED <<canceled, stopped, firstErr, prodErr, ret, claims, werr, dones>> PROVE FALSE
  BY <1>4 DEF Tainted
<1>5. ASSUME NEW u \in Uploads, DownloadPrevious(u) PROVE Faulty'
  <2>1. UNCHANGED <<stopped, firstErr, prodErr, werr, dones>>
    BY <1>5 DEF DownloadPrevious, prodVars, workVars, collVars
  <2>2. CASE claims' = Seeded(u) /\ UNCHANGED <<canceled, ret>>
    <3>1. \A d \in Digests : claims'[d] # "canceled"
      BY <1>1, <2>2 DEF Seeded
    <3> QED
      BY <1>1, <2>1, <2>2, <3>1 DEF Tainted
  <2>3. ASSUME NEW e \in Failures(canceled), Return(u, e), UNCHANGED claims PROVE Faulty'
    <3>1. e = "fault"
      BY <1>1, <1>3, <2>3
    <3> QED
      BY <2>1, <2>3, <3>1, ReturnTaint
  <2> QED
    BY <1>5, <2>2, <2>3 DEF DownloadPrevious
<1>6. ASSUME NEW u \in Uploads, CreateIndex(u) \/ FinalFlush(u) \/ CloseIndex(u) PROVE Faulty'
  <2>1. UNCHANGED <<stopped, firstErr, prodErr, claims, werr, dones>>
    BY <1>6 DEF CreateIndex, FinalFlush, CloseIndex, setVars, prodVars, workVars, collVars
  <2>2. UNCHANGED <<canceled, ret>> \/ \E e \in {"none", "fault"} : Return(u, e)
    BY <1>1, <1>3, <1>6 DEF CreateIndex, FinalFlush, CloseIndex
  <2> QED
    BY <1>4, <2>1, <2>2, ReturnTaint
<1>7. ASSUME NEW u \in Uploads, CollectEnd(u) PROVE Faulty'
  <2>1. UNCHANGED <<stopped, firstErr, prodErr, claims, werr, dones>>
    BY <1>7 DEF CollectEnd, setVars, prodVars, workVars, collVars
  <2>2. StreamErr(u) # "none" => StreamErr(u) = "fault"
    <3>1. prodErr[u] # "running"
      <4>1. PICK i \in Workers : TRUE
        BY UploadConstants
      <4>2. <<u, i>> \in WorkerIds /\ <<u, i>>[1] = u /\ wpc[<<u, i>>] = "exit"
        BY <1>7, <4>1 DEF WorkerIds, CollectEnd
      <4> QED
        BY <4>2 DEF ExitsAfterProducer
    <3> QED
      BY <1>1, <3>1 DEF StreamErr, TypePhase, TypeProd, Errors
  <2>3. UNCHANGED <<canceled, ret>> \/ Return(u, "fault")
    BY <1>7, <2>2 DEF CollectEnd
  <2> QED
    BY <1>4, <2>1, <2>3, ReturnTaint
<1>8. ASSUME NEW u \in Uploads, Produce(u) PROVE FALSE
  <2>1. UNCHANGED <<canceled, stopped, firstErr, ret, claims, werr, dones>>
    BY <1>8 DEF Produce, ctxVars, setVars, workVars, collVars
  <2>2. ReadErrors(u) \subseteq {"fault"}
    BY <1>2 DEF ReadErrors
  <2>3. \A v \in Uploads : prodErr'[v] # "canceled"
    BY <1>1, <1>2, <1>8, <2>2 DEF Produce, TypeProd
  <2> QED
    BY <1>1, <2>1, <2>3 DEF Tainted
<1>9. ASSUME NEW u \in Uploads, Collect(u) PROVE Faulty'
  <2>1. UNCHANGED <<canceled, prodErr, ret, claims, werr>> /\ dones[u] \in Seq(Dones) /\ dones[u] # <<>>
    BY <1>9 DEF Collect, ctxVars, setVars, prodVars, workVars, TypeDone
  <2>2. \A v \in Uploads : \A i \in 1 .. Len(dones'[v]) : dones'[v][i].err # "canceled"
    <3>1. \A i \in 1 .. Len(Tail(dones[u])) : i+1 \in 1 .. Len(dones[u]) /\ Tail(dones[u])[i] = dones[u][i+1]
      BY <2>1, TailAt
    <3>2. dones' = [dones EXCEPT ![u] = Tail(@)]
      BY <1>9 DEF Collect
    <3> QED
      BY <1>1, <3>1, <3>2 DEF TypeDone
  <2>3. Head(dones[u]).err # "canceled" /\ Head(dones[u]).err \in Errors
    <3>1. Head(dones[u]) = dones[u][1] /\ 1 \in 1 .. Len(dones[u])
      BY <2>1, HeadAt, LenType
    <3>2. dones[u][1] \in Dones
      BY <2>1, <3>1, ElementType
    <3> QED
      BY <1>1, <3>1, <3>2 DEF Dones
  <2>4. CASE UNCHANGED <<firstErr, stopped>>
    BY <1>1, <2>1, <2>2, <2>4 DEF Tainted
  <2>5. CASE firstErr' = [firstErr EXCEPT ![u] = Head(dones[u]).err] /\ Head(dones[u]).err # "none"
    <3>1. Head(dones[u]).err = "fault"
      BY <2>3, <2>5 DEF Errors
    <3> QED
      BY <2>5, <3>1 DEF Faulty, TypePhase
  <2> QED
    BY <1>9, <2>4, <2>5 DEF Collect
<1>10. ASSUME NEW u \in Uploads, Flush(u) PROVE Faulty'
  <2>1. UNCHANGED <<canceled, prodErr, ret, claims, werr, dones>>
    BY <1>10 DEF Flush, ctxVars, setVars, prodVars, workVars
  <2>2. UNCHANGED <<firstErr, stopped>> \/ firstErr' = [firstErr EXCEPT ![u] = "fault"]
    BY <1>3, <1>10 DEF Flush
  <2> QED
    BY <1>4, <2>1, <2>2 DEF Faulty, TypePhase
<1>11. ASSUME NEW w \in WorkerIds, Claim(w) \/ UploadReturns(w) \/ WaitReturns(w) PROVE FALSE
  <2>1. UNCHANGED <<canceled, stopped, firstErr, prodErr, ret, dones>>
    BY <1>11 DEF Claim, UploadReturns, WaitReturns, ctxVars, prodVars, collVars
  <2>2. wjob[w].digest \in Digests /\ w[1] \in Uploads
    BY DEF TypeWork, Jobs, WorkerIds
  <2>3. Gone(w[1]) = FALSE
    BY <1>2, <2>2
  <2>4. \A d \in Digests : claims'[d] # "canceled"
    BY <1>1, <1>3, <1>11, <2>2, <2>3 DEF Claim, UploadReturns, WaitReturns, Complete, TypeSet, setVars
  <2>5. \A x \in WorkerIds : werr'[x] # "canceled"
    BY <1>1, <1>3, <1>11, <2>2, <2>3 DEF Claim, UploadReturns, WaitReturns, Decide, TypeWork
  <2> QED
    BY <1>1, <2>1, <2>4, <2>5 DEF Tainted
<1>12. ASSUME NEW w \in WorkerIds, SendDone(w) PROVE FALSE
  <2>1. UNCHANGED <<canceled, stopped, firstErr, prodErr, ret, claims>>
    BY <1>12 DEF SendDone, ctxVars, setVars, prodVars, collVars
  <2>2. \A x \in WorkerIds : werr'[x] # "canceled"
    BY <1>1, <1>12 DEF SendDone, TypeWork
  <2>3. \A v \in Uploads : \A i \in 1 .. Len(dones'[v]) : dones'[v][i].err # "canceled"
    <3> DEFINE d == DoneOf(wjob[w], werr[w])
    <3>1. dones' = [dones EXCEPT ![w[1]] = Append(@, d)] /\ w[1] \in Uploads /\ d \in Dones /\ d.err # "canceled"
      BY <1>1, <1>12, DoneOfType DEF SendDone, WorkerIds, TypeWork, DoneOf
    <3> HIDE DEF d
    <3>2. \A i \in 1 .. Len(dones'[w[1]]) : dones'[w[1]][i] = d \/ (i \in 1 .. Len(dones[w[1]]) /\ dones'[w[1]][i] = dones[w[1]][i])
      BY <3>1, AppendAt DEF TypeDone
    <3> QED
      BY <1>1, <3>1, <3>2 DEF TypeDone
  <2> QED
    BY <1>1, <2>1, <2>2, <2>3 DEF Tainted
<1>13. ASSUME NEW u \in Uploads, Drain(u) PROVE FALSE
  BY <1>4, <1>13 DEF Drain, ctxVars, setVars, prodVars, workVars
<1>14. ASSUME NEW w \in WorkerIds, WorkerReceive(w) PROVE FALSE
  BY <1>4, <1>14 DEF WorkerReceive, ctxVars, setVars, collVars
<1>15. CASE UserCancel
  BY <1>15 DEF UserCancel
<1>16. CASE UNCHANGED vars
  BY <1>4, <1>16 DEF vars, ctxVars, setVars, prodVars, workVars, collVars
<1> QED
  BY <1>5, <1>6, <1>7, <1>8, <1>9, <1>10, <1>11, <1>12, <1>13, <1>14, <1>15, <1>16 DEF Next, Collector, Worker, Terminated

\* Returning is final, and only the close of the index returns without an error.
LEMMA ReturnStep ==
  ASSUME TypeInv, StreamInv, RootInv, [Next]_vars
  PROVE  FirstErrReturned' /\ ReturnedOk' /\ RunningOk' /\ EarlyClean'
<1> USE DEF TypeInv, TypeOK, RootInv
<1>1. CASE UNCHANGED <<phase, ret, firstErr>> /\ \A u \in Uploads : closed[u] => closed'[u]
  BY <1>1 DEF FirstErrReturned, ReturnedOk, RunningOk, EarlyClean
<1>2. ASSUME NEW u \in Uploads, NEW p \in Phases \ {"returned"},
             phase' = [phase EXCEPT ![u] = p], phase[u] # "returned", UNCHANGED <<ret, closed>>,
             \A v \in Uploads : v # u => firstErr'[v] = firstErr[v],
             p \in {"previous", "create"} => firstErr'[u] = "none"
      PROVE  FirstErrReturned' /\ ReturnedOk' /\ RunningOk' /\ EarlyClean'
  BY <1>2 DEF FirstErrReturned, ReturnedOk, RunningOk, EarlyClean, TypePhase
<1>3. ASSUME NEW u \in Uploads, NEW e, Return(u, e), phase[u] # "returned", UNCHANGED firstErr,
             firstErr[u] # "none" => e = firstErr[u],
             e = "none" => closed'[u],
             \A v \in Uploads : closed[v] => closed'[v]
      PROVE  FirstErrReturned' /\ ReturnedOk' /\ RunningOk' /\ EarlyClean'
  BY <1>3 DEF FirstErrReturned, ReturnedOk, RunningOk, EarlyClean, TypePhase, Return
<1>4. \A e \in Failures(canceled) : e # "none"
  BY DEF Failures
<1>5. ASSUME NEW u \in Uploads, DownloadPrevious(u) \/ CreateIndex(u)
      PROVE  FirstErrReturned' /\ ReturnedOk' /\ RunningOk' /\ EarlyClean'
  <2>1. UNCHANGED <<firstErr, closed>> /\ phase[u] \in {"previous", "create"}
    BY <1>5 DEF DownloadPrevious, CreateIndex, collVars, indexVars
  <2>2. firstErr[u] = "none"
    BY <2>1 DEF EarlyClean
  <2>3. \/ \E p \in {"create", "collect"} : phase' = [phase EXCEPT ![u] = p] /\ ret' = ret
        \/ \E e \in Failures(canceled) : Return(u, e)
    BY <1>5 DEF DownloadPrevious, CreateIndex
  <2> QED
    BY <1>2, <1>3, <1>4, <2>1, <2>2, <2>3 DEF Phases
<1>6. ASSUME NEW u \in Uploads, Collect(u) \/ Drain(u) \/ Flush(u)
      PROVE  FirstErrReturned' /\ ReturnedOk' /\ RunningOk' /\ EarlyClean'
  <2>1. UNCHANGED <<ret, closed>> /\ phase[u] \in {"collect", "drain", "flush"}
    BY <1>6 DEF Collect, Drain, Flush, indexVars
  <2>2. \A v \in Uploads : v # u => firstErr'[v] = firstErr[v]
    BY <1>6 DEF Collect, Drain, Flush, TypePhase
  <2>3. phase' = phase \/ \E p \in {"collect", "drain", "flush"} : phase' = [phase EXCEPT ![u] = p]
    BY <1>6 DEF Collect, Drain, Flush
  <2>4. \E p \in {"collect", "drain", "flush"} : phase' = [phase EXCEPT ![u] = p]
    BY <2>1, <2>3 DEF TypePhase
  <2> QED
    BY <1>2, <2>1, <2>2, <2>4 DEF Phases
<1>7. ASSUME NEW u \in Uploads, CollectEnd(u) \/ FinalFlush(u)
      PROVE  FirstErrReturned' /\ ReturnedOk' /\ RunningOk' /\ EarlyClean'
  <2>1. UNCHANGED <<firstErr, closed>> /\ phase[u] \in {"collect", "final"}
    BY <1>7 DEF CollectEnd, FinalFlush, collVars, indexVars
  <2>2. phase[u] = "final" => firstErr[u] = "none"
    BY DEF StreamInv, Aligned
  <2>3. \A e \in AppendErrors(u) : e # "none"
    BY <1>4 DEF AppendErrors
  <2>4. \/ \E p \in {"final", "close"} : phase' = [phase EXCEPT ![u] = p] /\ ret' = ret
        \/ \E e \in Errors \union {"running"} :
             e # "none" /\ (firstErr[u] # "none" => e = firstErr[u]) /\ Return(u, e)
    <3>1. CASE CollectEnd(u)
      <4>1. StreamErr(u) \in Errors \union {"running"} /\ (firstErr[u] # "none" => StreamErr(u) = firstErr[u])
        BY DEF StreamErr, TypePhase, TypeProd
      <4>2. CASE StreamErr(u) = "none"
        BY <3>1, <4>1, <4>2 DEF CollectEnd, Errors
      <4>3. CASE StreamErr(u) # "none"
        BY <3>1, <4>1, <4>3 DEF CollectEnd
      <4> QED
        BY <4>2, <4>3
    <3>2. CASE FinalFlush(u)
      <4>1. AppendErrors(u) \subseteq Errors
        BY DEF AppendErrors, Failures, Errors
      <4> QED
        BY <2>1, <2>2, <2>3, <3>2, <4>1 DEF FinalFlush
    <3> QED
      BY <1>7, <3>1, <3>2
  <2> QED
    BY <1>2, <1>3, <2>1, <2>4 DEF Phases
<1>8. ASSUME NEW u \in Uploads, CloseIndex(u)
      PROVE  FirstErrReturned' /\ ReturnedOk' /\ RunningOk' /\ EarlyClean'
  <2>1. UNCHANGED firstErr /\ phase[u] = "close" /\ firstErr[u] = "none"
    BY <1>8 DEF CloseIndex, collVars, StreamInv, Aligned
  <2>2. \A v \in Uploads : closed[v] => closed'[v]
    BY <1>8 DEF CloseIndex, Close, TypeIndex
  <2>3. \E e \in Errors : Return(u, e) /\ (e = "none" => closed'[u])
    BY <1>4, <1>8 DEF CloseIndex, Close, TypeIndex, Errors, Failures
  <2> QED
    BY <1>3, <2>1, <2>2, <2>3
<1>9. ASSUME NEW u \in Uploads, Produce(u) PROVE UNCHANGED <<phase, ret, firstErr, closed>>
  BY <1>9 DEF Produce, collVars, indexVars
<1>10. ASSUME NEW w \in WorkerIds, Worker(w) PROVE UNCHANGED <<phase, ret, firstErr, closed>>
  BY <1>10 DEF Worker, WorkerReceive, Claim, UploadReturns, WaitReturns, SendDone, collVars, indexVars
<1>11. CASE UserCancel \/ UNCHANGED vars
  BY <1>1, <1>11 DEF UserCancel, vars, collVars, indexVars
<1> QED
  BY <1>1, <1>5, <1>6, <1>7, <1>8, <1>9, <1>10, <1>11 DEF Next, Collector, Terminated

LEMMA RootStep == TypeInv /\ StreamInv /\ RootInv /\ [Next]_vars => RootInv'
<1> SUFFICES ASSUME TypeInv, StreamInv, RootInv, [Next]_vars PROVE RootInv'
  OBVIOUS
<1>1. FirstErrReturned' /\ ReturnedOk' /\ RunningOk' /\ EarlyClean' 
  BY ReturnStep
<1>2. userCanceled => userCanceled'
  BY DEF Next, vars, ctxVars, UserCancel, Terminated, Collector, Worker, DownloadPrevious, CreateIndex, Collect,
         Drain, Flush, CollectEnd, FinalFlush, CloseIndex, Produce, WorkerReceive, Claim, UploadReturns,
         WaitReturns, SendDone
<1>3. TaintHasRoot'
  <2>1. CASE ~Tainted
    BY <2>1, FirstTaint DEF TaintHasRoot
  <2>2. CASE Tainted
    BY <1>2, <2>2, FaultStays DEF TaintHasRoot, RootInv
  <2> QED
    BY <2>1, <2>2
<1> QED
  BY <1>1, <1>3 DEF RootInv

LEMMA RootInvariant == Spec => []RootInv
<1>1. Init => RootInv
  <2> SUFFICES ASSUME Init PROVE RootInv
    OBVIOUS
  <2>1. ~Tainted
    BY DEF Init, Tainted
  <2> QED
    BY <2>1 DEF Init, RootInv, TaintHasRoot, FirstErrReturned, ReturnedOk, RunningOk, EarlyClean
<1> QED
  BY <1>1, RootStep, CompleteInvariant, PTL DEF Spec

(***************************************************************************)
(* UploadPXARv2 succeeds only with both indexes closed, and it returns a   *)
(* cancellation only when the caller canceled: whatever the interleaving,  *)
(* an error that came of the other stream's failure never hides it.        *)
(***************************************************************************)
THEOREM RootCauseReported == Spec => []RootCause
<1>1. RootInv /\ TypeInv => RootCause
  <2> SUFFICES ASSUME RootInv, TypeInv, Finished PROVE
        /\ UploadErr = "none" => \A u \in Uploads : closed[u]
        /\ UploadErr = "canceled" => userCanceled
    BY DEF RootCause
  <2> USE DEF RootInv, TypeInv, TypeOK, TypePhase, Finished, Uploads
  <2>1. ASSUME UploadErr = "none" PROVE \A u \in Uploads : closed[u]
    BY <2>1 DEF UploadErr, ReturnedOk
  <2>2. ASSUME UploadErr = "canceled" PROVE userCanceled
    <3>1. \E u \in Uploads : ret[u] = "canceled"
      BY <2>2 DEF UploadErr
    <3>2. \A u \in Uploads : ret[u] # "fault"
      BY <2>2 DEF UploadErr
    <3>3. ~Faulty
      BY <3>2 DEF Faulty, FirstErrReturned
    <3> QED
      BY <3>1, <3>3 DEF Tainted, TaintHasRoot
  <2> QED
    BY <2>1, <2>2
<1> QED
  BY <1>1, RootInvariant, CompleteInvariant, PTL
=============================================================================
