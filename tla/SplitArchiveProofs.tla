------------------------- MODULE SplitArchiveProofs -------------------------
(***************************************************************************)
(* Proofs about SplitArchive, for every plan, previous snapshot and order  *)
(* of the two emitters: the types, that every reference emitted points at  *)
(* the record of its file, and that a backup that succeeds has stored a    *)
(* complete pair of streams.                                               *)
(*                                                                         *)
(* Either stream may be ahead of the other, so the invariant speaks of a   *)
(* layout S: entry i of the plan begins at offset S[i] of the payload      *)
(* stream.  S is fixed as far as one of the emitters has got, and the      *)
(* emitter that is ahead extends it.                                       *)
(***************************************************************************)
EXTENDS SplitArchive, SequenceLemmas, FiniteSetTheorems

-----------------------------------------------------------------------------
\* What planReuse promises: a reused file lies in the span its run injects, a run is
\* contiguous and shares one span, and the files to read are numbered in plan order.
ReadsBefore(i) == {j \in 1 .. i - 1 : ~plan[j].reuse}

InSpan(i) ==
  /\ prev.off[i] # -1 /\ plan[i].size = prev.size[i]
  /\ plan[i].from + plan[i].rel = prev.off[i]
  /\ plan[i].rel + RecordLen(plan[i].size) <= plan[i].to - plan[i].from
FollowsInRun(i) ==
  /\ i > 1 /\ plan[i-1].reuse /\ ~plan[i-1].last
  /\ plan[i-1].from = plan[i].from /\ plan[i-1].to = plan[i].to
PlanFacts ==
  \A i \in Files :
    /\ plan[i].reuse => InSpan(i)
    /\ plan[i].reuse /\ ~plan[i].head => FollowsInRun(i)
    /\ plan[i].reuse /\ ~plan[i].last => i < N /\ plan[i+1].reuse /\ ~plan[i+1].head
    /\ ~plan[i].reuse => plan[i].rel = 0 /\ plan[i].readSeq = Cardinality(ReadsBefore(i)) + 1

-----------------------------------------------------------------------------
\* What the program counters of the emitters imply.
at == pos["payload"]
sent == Len(refs)

Fixed(i) == plan[i].reuse \/ (plan[i].readSeq \in 1 .. Len(bound) /\ bound[plan[i].readSeq] \in Nat)

Outcomes ==
  \A s \in Streams :
    /\ inPipe[s] => pc[s] \in Writes(s)
    /\ pc[s] = "fail" => outcome[s] = "error"
    /\ pc[s] = "closed" => outcome[s] # "running"
    /\ pc[s] \notin {"fail", "closed"} => outcome[s] = "running"

MetaPhases ==
  /\ pc["meta"] \in {"start", "entry", "get", "wait", "sleep", "ref", "goodbye", "fail", "closed"}
  /\ sent <= N
  /\ pc["meta"] = "start" => pos["meta"] = 1
  /\ pc["meta"] \in {"start", "entry", "get", "wait", "sleep"} => sent = pos["meta"] - 1
  /\ pc["meta"] \in {"entry", "get", "wait", "sleep", "ref"} => pos["meta"] <= N
  /\ pc["meta"] = "ref" => sent = pos["meta"]
  /\ pc["meta"] = "goodbye" \/ outcome["meta"] = "ok" => sent = N

PayloadPhases ==
  /\ pc["payload"] \in {"start", "inject", "open", "header", "copy", "content", "tail", "fail", "closed"}
  /\ pc["payload"] = "start" => at = 1 /\ pay = <<>>
  /\ pc["payload"] = "inject" => at \in Files /\ plan[at].reuse /\ plan[at].head
  /\ pc["payload"] \in {"open", "header", "copy", "content"} => at \in Files /\ ~plan[at].reuse
  /\ pc["payload"] \in {"header", "copy", "content"} => Fixed(at)
  /\ pc["payload"] = "tail" \/ outcome["payload"] = "ok" => at = N + 1

\* The ledger holds the sizes bound, in order, up to the first failure.
Ledger ==
  /\ Len(sizes) <= Len(bound) /\ \A i \in 1 .. Len(sizes) : sizes[i] = bound[i]
  /\ ~lerr => Len(sizes) = Len(bound)
  /\ delivered <= Len(bound) /\ handed <= Len(bound)

\* Slots are held by the payloads bound and not yet emitted; the synchronous source binds
\* the payload it is about to emit.
Slots ==
  /\ ~async => dpc = "exit" /\ window = 0
  /\ pc["payload"] \notin {"fail", "closed"} =>
       IF async THEN window = Len(bound) - Cardinality(ReadsBefore(at))
       ELSE Len(bound) = Cardinality(ReadsBefore(at)) + (IF pc["payload"] \in {"header", "copy", "content"} THEN 1 ELSE 0)

\* An upload succeeds only at the regular end of its stream.
Returned ==
  \A s \in Streams :
    ret[s] = "ok" \/ (rpc[s] = "ended" /\ ~failed[s] /\ ret[s] = "none")
      => pc[s] = "closed" /\ outcome[s] = "ok"

-----------------------------------------------------------------------------
\* The layout of the payload stream.
Sz(i) == IF plan[i].reuse THEN plan[i].size ELSE bound[plan[i].readSeq]
Off(S, i) == S[i] + plan[i].rel
Skip(i) == IF plan[i].reuse THEN SkipSpan(plan[i]) ELSE SkipRecord(bound[plan[i].readSeq])

Chain(S) ==
  /\ S \in [1 .. N + 1 -> Nat] /\ S[1] = MarkerSize
  /\ \A i \in Files : i <= sent \/ i < at => Fixed(i) /\ S[i+1] = S[i] + Skip(i)

\* The records before the emitter's position are there.
WrittenAt(S, i) ==
  /\ Off(S, i) + RecordLen(Sz(i)) <= Len(pay)
  /\ \A k \in 0 .. Sz(i) : pay[Off(S, i) + k + 1] = <<i, k, Sz(i)>>
Written(S) == \A i \in Files : i < at => WrittenAt(S, i)

\* The record at the emitter's position has its header.
HeaderOut(S) ==
  /\ at \in Files /\ ~plan[at].reuse /\ Fixed(at)
  /\ Len(pay) = S[at] + HeaderSize /\ pay[S[at] + 1] = <<at, 0, Sz(at)>>
Reached(S) ==
  /\ pc["payload"] \in {"inject", "open", "header", "tail"} => Len(pay) = S[at]
  /\ pc["payload"] \in {"copy", "content"} => HeaderOut(S)
  /\ outcome["payload"] # "ok" => Len(pay) <= S[at] \/ HeaderOut(S)

Referred(S) ==
  /\ refOffset = S[sent + 1]
  /\ \A i \in 1 .. sent : refs[i].offset = Off(S, i) /\ refs[i].size = Sz(i)

LaysOut(S) == Chain(S) /\ Written(S) /\ Reached(S) /\ Referred(S)
Layout == \E S \in [1 .. N + 1 -> Nat] : LaysOut(S)

\* The inductive invariant.
Control == PlanFacts /\ Outcomes /\ MetaPhases /\ PayloadPhases /\ Ledger /\ Slots /\ Returned
SplitInv == TypeOK /\ Control /\ Layout

-----------------------------------------------------------------------------
\* Least and greatest elements.
LEMMA MinNat ==
  ASSUME NEW T, T \subseteq Nat, T # {}
  PROVE  Min(T) \in T /\ \A y \in T : Min(T) <= y
  BY Least DEF Min

LEMMA MaxBelow ==
  ASSUME NEW n \in Nat, NEW T, T \subseteq 1 .. n, T # {}
  PROVE  Max(T) \in T /\ \A y \in T : Max(T) >= y
<1> DEFINE below == {n - y : y \in T}
<1>1. below \subseteq Nat /\ below # {}
  <2>1. \A y \in T : n - y \in Nat
    OBVIOUS
  <2> QED
    BY <2>1
<1>2. PICK x \in below : \A y \in below : x <= y
  BY <1>1, Least
<1>3. PICK z \in T : x = n - z
  OBVIOUS
<1>4. \A y \in T : n - z <= n - y
  BY <1>2, <1>3
<1>5. \A y \in T : z >= y
  BY <1>4
<1> QED
  BY <1>5 DEF Max

-----------------------------------------------------------------------------
\* planReuse.
LEMMA LayoutTypes ==
  ASSUME NEW L \in Layouts
  PROVE  /\ N \in Nat /\ L.off \in [Files -> Nat \union {-1}] /\ L.size \in [Files -> Nat] /\ L.cuts \in Seq(Nat)
         /\ \A f, g \in Files : f # g /\ L.off[f] >= 0 /\ L.off[g] >= L.off[f] =>
              L.off[g] >= L.off[f] + HeaderSize + L.size[f]
  BY SplitConstants DEF IsPrevious

LEMMA RunShape ==
  ASSUME NEW L \in Layouts, NEW C, NEW i \in Files
  PROVE  /\ RunHead(L, C, i) \in 1 .. i /\ RunLast(L, C, i) \in i .. N
         /\ ~JoinsRun(L, C, RunHead(L, C, i))
         /\ RunLast(L, C, i) = N \/ ~JoinsRun(L, C, RunLast(L, C, i) + 1)
         /\ \A j \in RunHead(L, C, i) + 1 .. RunLast(L, C, i) : JoinsRun(L, C, j)
<1>0. N \in Nat /\ i \in Nat /\ i >= 1 /\ i <= N
  BY LayoutTypes DEF Files
<1>1. PICK H : H = {h \in 1 .. i : ~JoinsRun(L, C, h)}
  OBVIOUS
<1>2. PICK K : K = {k \in i .. N : k = N \/ ~JoinsRun(L, C, k + 1)}
  OBVIOUS
<1>3. 1 \in H /\ H \subseteq 1 .. i
  BY <1>0, <1>1 DEF JoinsRun
<1>4. N \in K /\ K \subseteq Nat
  BY <1>0, <1>2
<1>5. PICK h : h = RunHead(L, C, i)
  OBVIOUS
<1>6. PICK k : k = RunLast(L, C, i)
  OBVIOUS
<1>7. h \in H /\ \A y \in H : h >= y
  BY <1>0, <1>1, <1>3, <1>5, MaxBelow DEF RunHead
<1>8. k \in K /\ \A y \in K : k <= y
  BY <1>2, <1>4, <1>6, MinNat DEF RunLast
<1>9. \A j \in h + 1 .. k : JoinsRun(L, C, j)
  <2> SUFFICES ASSUME NEW j \in h + 1 .. k PROVE JoinsRun(L, C, j)
    OBVIOUS
  <2>1. h \in 1 .. i /\ k \in i .. N /\ j \in Int
    BY <1>1, <1>2, <1>7, <1>8
  <2>2. CASE j <= i
    <3>1. j \in 1 .. i /\ ~(h >= j)
      BY <2>1, <2>2
    <3> QED
      BY <1>1, <1>7, <3>1
  <2>3. CASE j > i
    <3>1. j - 1 \in i .. N /\ ~(k <= j - 1) /\ j - 1 # N /\ (j - 1) + 1 = j
      BY <1>0, <2>1, <2>3
    <3> QED
      BY <1>2, <1>8, <3>1
  <2> QED
    BY <1>0, <2>1, <2>2, <2>3
<1> QED
  BY <1>1, <1>2, <1>5, <1>6, <1>7, <1>8, <1>9

LEMMA RunShared ==
  ASSUME NEW L \in Layouts, NEW C, NEW i \in Files, NEW j \in RunHead(L, C, i) .. RunLast(L, C, i)
  PROVE  j \in Files /\ RunHead(L, C, j) = RunHead(L, C, i) /\ RunLast(L, C, j) = RunLast(L, C, i)
<1>0. N \in Nat /\ i \in Nat /\ i >= 1 /\ i <= N
  BY LayoutTypes DEF Files
<1>1. PICK h : h = RunHead(L, C, i)
  OBVIOUS
<1>2. PICK k : k = RunLast(L, C, i)
  OBVIOUS
<1>3. /\ h \in 1 .. i /\ k \in i .. N /\ ~JoinsRun(L, C, h) /\ (k = N \/ ~JoinsRun(L, C, k + 1))
      /\ \A x \in h + 1 .. k : JoinsRun(L, C, x)
  BY <1>1, <1>2, RunShape
<1>4. j \in Files /\ j \in h .. k
  BY <1>0, <1>1, <1>2, <1>3 DEF Files
<1>5. PICK g : g = RunHead(L, C, j)
  OBVIOUS
<1>6. PICK l : l = RunLast(L, C, j)
  OBVIOUS
<1>7. /\ g \in 1 .. j /\ l \in j .. N /\ ~JoinsRun(L, C, g) /\ (l = N \/ ~JoinsRun(L, C, l + 1))
      /\ \A x \in g + 1 .. l : JoinsRun(L, C, x)
  BY <1>4, <1>5, <1>6, RunShape
<1>8. h \in Int /\ k \in Int /\ g \in Int /\ l \in Int /\ j \in Int /\ h <= j /\ j <= k /\ g <= j /\ j <= l /\ k <= N /\ l <= N
  BY <1>0, <1>3, <1>4, <1>7
<1>9. ~(g < h)
  <2> SUFFICES ASSUME g < h PROVE FALSE
    OBVIOUS
  <2>1. h \in g + 1 .. l
    BY <1>8
  <2> QED
    BY <1>3, <1>7, <2>1
<1>10. ~(h < g)
  <2> SUFFICES ASSUME h < g PROVE FALSE
    OBVIOUS
  <2>1. g \in h + 1 .. k
    BY <1>8
  <2> QED
    BY <1>3, <1>7, <2>1
<1>11. ~(l < k)
  <2> SUFFICES ASSUME l < k PROVE FALSE
    OBVIOUS
  <2>1. l + 1 \in h + 1 .. k /\ l # N
    BY <1>0, <1>8
  <2> QED
    BY <1>3, <1>7, <2>1
<1>12. ~(k < l)
  <2> SUFFICES ASSUME k < l PROVE FALSE
    OBVIOUS
  <2>1. k + 1 \in g + 1 .. l /\ k # N
    BY <1>0, <1>8
  <2> QED
    BY <1>3, <1>7, <2>1
<1> QED
  BY <1>1, <1>2, <1>4, <1>5, <1>6, <1>8, <1>9, <1>10, <1>11, <1>12

\* The records of a run ascend and lie one behind the other.
LEMMA RunAscends ==
  ASSUME NEW L \in Layouts, NEW C, NEW i \in Files, Unchanged(L, C, i),
         NEW j \in RunHead(L, C, i) .. RunLast(L, C, i)
  PROVE  /\ Unchanged(L, C, j) /\ L.off[j] \in Nat
         /\ L.off[RunHead(L, C, i)] \in Nat /\ L.off[RunHead(L, C, i)] <= L.off[j]
         /\ RunEnd(L, RunLast(L, C, i)) \in Nat /\ RunEnd(L, j) <= RunEnd(L, RunLast(L, C, i))
<1>0. N \in Nat /\ i \in Nat /\ i >= 1 /\ i <= N
  BY LayoutTypes DEF Files
<1>1. PICK h : h = RunHead(L, C, i)
  OBVIOUS
<1>2. PICK k : k = RunLast(L, C, i)
  OBVIOUS
<1>3. h \in 1 .. i /\ k \in i .. N /\ \A x \in h + 1 .. k : JoinsRun(L, C, x)
  BY <1>1, <1>2, RunShape
<1>4. \A x \in h .. k : x \in Files
  BY <1>0, <1>3 DEF Files
<1>5. \A x \in h .. k : Unchanged(L, C, x)
  <2> SUFFICES ASSUME NEW x \in h .. k PROVE Unchanged(L, C, x)
    OBVIOUS
  <2>1. CASE x \in h + 1 .. k
    BY <1>3, <2>1 DEF JoinsRun
  <2>2. CASE x = h /\ h < k
    <3>1. h + 1 \in h + 1 .. k /\ (h + 1) - 1 = h
      BY <1>0, <1>3, <2>2
    <3>2. JoinsRun(L, C, h + 1)
      BY <1>3, <3>1
    <3> QED
      BY <2>2, <3>1, <3>2 DEF JoinsRun
  <2>3. CASE x = h /\ h = k
    <3>1. h = i
      BY <1>0, <1>3, <2>3
    <3> QED
      BY <2>3, <3>1
  <2> QED
    BY <1>0, <1>3, <2>1, <2>2, <2>3
<1>6. \A x \in h .. k : L.off[x] \in Nat /\ L.size[x] \in Nat
  BY <1>4, <1>5, LayoutTypes DEF Unchanged
<1>7. \A x \in h .. k - 1 : L.off[x] <= L.off[x + 1]
  <2> SUFFICES ASSUME NEW x \in h .. k - 1 PROVE L.off[x] <= L.off[x + 1]
    OBVIOUS
  <2>1. x + 1 \in h + 1 .. k /\ (x + 1) - 1 = x /\ x \in h .. k /\ x + 1 \in h .. k
    BY <1>0, <1>3
  <2>2. L.off[x + 1] > L.off[x]
    BY <1>3, <2>1 DEF JoinsRun
  <2> QED
    BY <1>6, <2>1, <2>2
<1>8. \A x, y \in h .. k : x <= y => L.off[x] <= L.off[y]
  <2>1. h \in Nat /\ k \in Int /\ \A x \in h .. k : L.off[x] \in Int
    BY <1>0, <1>3, <1>6
  <2> QED
    BY <1>7, <2>1, Climbs
<1>9. h \in h .. k /\ k \in h .. k /\ j \in h .. k /\ h <= j /\ j <= k
  BY <1>0, <1>1, <1>2, <1>3
<1>10. RunEnd(L, j) <= RunEnd(L, k) /\ RunEnd(L, k) \in Nat
  <2>1. L.off[j] \in Nat /\ L.size[j] \in Nat /\ L.off[k] \in Nat /\ L.size[k] \in Nat /\ L.off[j] <= L.off[k]
    BY <1>6, <1>8, <1>9
  <2>2. j # k => L.off[k] >= L.off[j] + HeaderSize + L.size[j]
    BY <1>4, <1>9, <2>1, LayoutTypes
  <2> QED
    BY <2>1, <2>2 DEF RunEnd, RecordLen, HeaderSize
<1> QED
  BY <1>1, <1>2, <1>5, <1>6, <1>8, <1>9, <1>10

\* The span of chunks covers the range it was computed for.
LEMMA SpanCovers ==
  ASSUME NEW L \in Layouts, NEW h \in Files, NEW k \in Files, L.off[h] \in Nat, RunEnd(L, k) \in Nat,
         L.off[h] < RunEnd(L, k), InIndex(L, RunEnd(L, k))
  PROVE  /\ SpanFrom(L, h) \in Nat /\ SpanFrom(L, h) <= L.off[h]
         /\ SpanTo(L, k) \in Nat /\ SpanTo(L, k) >= RunEnd(L, k)
<1>1. PICK n : n = Len(L.cuts)
  OBVIOUS
<1>2. n \in Nat /\ n >= 1 /\ \A c \in 1 .. n : L.cuts[c] \in Nat
  BY <1>1, LayoutTypes, EmptyLen DEF InIndex
<1>3. L.cuts[n] >= RunEnd(L, k) /\ L.cuts[n] > L.off[h]
  BY <1>1, <1>2 DEF InIndex
<1>4. SpanTo(L, k) \in Nat /\ SpanTo(L, k) >= RunEnd(L, k)
  <2>1. PICK T : T = {c \in 1 .. n : L.cuts[c] >= RunEnd(L, k)}
    OBVIOUS
  <2>2. T \subseteq Nat /\ n \in T
    BY <1>2, <1>3, <2>1
  <2>3. LastChunk(L, RunEnd(L, k)) \in T
    BY <1>1, <2>1, <2>2, MinNat DEF LastChunk
  <2> QED
    BY <1>2, <2>1, <2>3 DEF SpanTo
<1>5. SpanFrom(L, h) \in Nat /\ SpanFrom(L, h) <= L.off[h]
  <2>1. PICK T : T = {c \in 1 .. n : L.cuts[c] > L.off[h]}
    OBVIOUS
  <2>2. T \subseteq Nat /\ n \in T
    BY <1>2, <1>3, <2>1
  <2>3. PICK c : c = FirstChunk(L, L.off[h])
    OBVIOUS
  <2>4. c \in T /\ \A y \in T : c <= y
    BY <1>1, <2>1, <2>2, <2>3, MinNat DEF FirstChunk
  <2>5. CASE c = 1
    BY <2>3, <2>5 DEF SpanFrom, CutBefore
  <2>6. CASE c # 1
    <3>1. c - 1 \in 1 .. n /\ ~(c <= c - 1)
      BY <1>2, <2>1, <2>4, <2>6
    <3>2. L.cuts[c - 1] \in Nat /\ ~(L.cuts[c - 1] > L.off[h])
      BY <1>2, <2>1, <2>4, <3>1
    <3>3. SpanFrom(L, h) = L.cuts[c - 1]
      BY <2>3, <2>6 DEF SpanFrom, CutBefore
    <3> QED
      BY <3>2, <3>3
  <2> QED
    BY <2>5, <2>6
<1> QED
  BY <1>4, <1>5

\* A file that planReuse reuses: its run, and its record within the span of the run.
LEMMA ReusedEntry ==
  ASSUME NEW L \in Layouts, NEW C, NEW i \in Files, Reused(L, C, i),
         NEW h, h = RunHead(L, C, i), NEW k, k = RunLast(L, C, i)
  PROVE  /\ h \in 1 .. i /\ k \in i .. N
         /\ \A j \in h .. k : Reused(L, C, j)
         /\ SpanFrom(L, h) \in Nat /\ SpanTo(L, k) \in Nat
         /\ L.off[i] \in Nat /\ L.off[i] - SpanFrom(L, h) \in Nat /\ L.size[i] \in Nat
         /\ L.off[i] + RecordLen(L.size[i]) <= SpanTo(L, k)
<1>0. N \in Nat /\ i \in Nat /\ i >= 1 /\ i <= N
  BY LayoutTypes DEF Files
<1>1. h \in 1 .. i /\ k \in i .. N /\ Unchanged(L, C, i) /\ Accept(L, h, k)
  BY RunShape DEF Reused
<1>2. h \in Files /\ k \in Files /\ i \in h .. k /\ k \in h .. k
  BY <1>0, <1>1 DEF Files
<1>3. \A j \in h .. k : Reused(L, C, j)
  BY <1>1, RunShared, RunAscends DEF Reused
<1>4. L.off[i] \in Nat /\ L.off[h] \in Nat /\ L.off[h] <= L.off[i] /\ RunEnd(L, k) \in Nat /\ RunEnd(L, i) <= RunEnd(L, k)
  BY <1>1, <1>2, RunAscends
<1>5. L.size[i] \in Nat /\ RunEnd(L, i) = L.off[i] + RecordLen(L.size[i])
  BY LayoutTypes DEF RunEnd
<1>6. RunEnd(L, i) > L.off[i]
  BY <1>4, <1>5 DEF RecordLen, HeaderSize
<1>7. RunEnd(L, i) \in Int
  BY <1>4, <1>5 DEF RecordLen, HeaderSize
<1>8. L.off[h] < RunEnd(L, k)
  BY <1>4, <1>6, <1>7
<1>9. /\ SpanFrom(L, h) \in Nat /\ SpanFrom(L, h) <= L.off[h]
      /\ SpanTo(L, k) \in Nat /\ SpanTo(L, k) >= RunEnd(L, k)
  BY <1>1, <1>2, <1>4, <1>8, SpanCovers DEF Accept
<1> QED
  BY <1>1, <1>3, <1>4, <1>5, <1>7, <1>9

LEMMA InitPlan ==
  ASSUME Init
  PROVE  plan \in [Files -> PlanEntries] /\ PlanFacts
<1>1. PICK L \in Layouts : L = prev
  BY DEF Init
<1>2. PICK C : C = changed
  OBVIOUS
<1>3. plan = PlanReuse(L, C)
  BY <1>1, <1>2 DEF Init
<1>0. N \in Nat /\ \A i \in Files : i \in Nat /\ i >= 1 /\ i <= N
  BY LayoutTypes DEF Files
<1>4. ASSUME NEW i \in Files, Reused(L, C, i), NEW h, h = RunHead(L, C, i), NEW k, k = RunLast(L, C, i)
      PROVE  plan[i] = [reuse |-> TRUE, readSeq |-> 0, rel |-> L.off[i] - SpanFrom(L, h), size |-> L.size[i],
                        head |-> i = h, last |-> i = k, from |-> SpanFrom(L, h), to |-> SpanTo(L, k)]
  BY <1>3, <1>4 DEF PlanReuse
<1>5. ASSUME NEW i \in Files, ~Reused(L, C, i)
      PROVE  plan[i] = [reuse |-> FALSE, readSeq |-> Cardinality({j \in 1 .. i-1 : ~Reused(L, C, j)}) + 1,
                        rel |-> 0, size |-> 0, head |-> FALSE, last |-> FALSE, from |-> 0, to |-> 0]
  BY <1>3, <1>5 DEF PlanReuse
<1>6. \A i \in Files : plan[i].reuse <=> Reused(L, C, i)
  <2> SUFFICES ASSUME NEW i \in Files PROVE plan[i].reuse <=> Reused(L, C, i)
    OBVIOUS
  <2>1. CASE Reused(L, C, i)
    <3>1. PICK h : h = RunHead(L, C, i)
      OBVIOUS
    <3>2. PICK k : k = RunLast(L, C, i)
      OBVIOUS
    <3>3. plan[i] = [reuse |-> TRUE, readSeq |-> 0, rel |-> L.off[i] - SpanFrom(L, h), size |-> L.size[i],
                     head |-> i = h, last |-> i = k, from |-> SpanFrom(L, h), to |-> SpanTo(L, k)]
      BY <1>4, <2>1, <3>1, <3>2
    <3>4. plan[i].reuse = TRUE
      BY <3>3
    <3> QED
      BY <2>1, <3>4
  <2>2. CASE ~Reused(L, C, i)
    <3>1. PICK n : n = Cardinality({j \in 1 .. i-1 : ~Reused(L, C, j)}) + 1
      OBVIOUS
    <3>2. plan[i] = [reuse |-> FALSE, readSeq |-> n, rel |-> 0, size |-> 0, head |-> FALSE, last |-> FALSE,
                     from |-> 0, to |-> 0]
      BY <1>5, <2>2, <3>1
    <3>3. plan[i].reuse = FALSE
      BY <3>2
    <3> QED
      BY <2>2, <3>3
  <2> QED
    BY <2>1, <2>2
<1>7. ASSUME NEW i \in Files, Reused(L, C, i)
      PROVE  /\ plan[i] \in PlanEntries /\ InSpan(i)
             /\ ~plan[i].head => FollowsInRun(i)
             /\ ~plan[i].last => i < N /\ plan[i+1].reuse /\ ~plan[i+1].head
  <2>1. PICK h : h = RunHead(L, C, i)
    OBVIOUS
  <2>2. PICK k : k = RunLast(L, C, i)
    OBVIOUS
  <2>3. /\ h \in 1 .. i /\ k \in i .. N /\ (\A j \in h .. k : Reused(L, C, j))
        /\ SpanFrom(L, h) \in Nat /\ SpanTo(L, k) \in Nat
        /\ L.off[i] \in Nat /\ L.off[i] - SpanFrom(L, h) \in Nat /\ L.size[i] \in Nat
        /\ L.off[i] + RecordLen(L.size[i]) <= SpanTo(L, k)
    BY <1>7, <2>1, <2>2, ReusedEntry
  <2>4. plan[i] = [reuse |-> TRUE, readSeq |-> 0, rel |-> L.off[i] - SpanFrom(L, h), size |-> L.size[i],
                   head |-> i = h, last |-> i = k, from |-> SpanFrom(L, h), to |-> SpanTo(L, k)]
    BY <1>4, <1>7, <2>1, <2>2
  <2>5. plan[i] \in PlanEntries
    BY <2>3, <2>4 DEF PlanEntries
  <2>6. InSpan(i)
    BY <1>1, <2>3, <2>4 DEF InSpan, RecordLen, HeaderSize
  <2>7. ASSUME NEW j \in Files, j \in h .. k
        PROVE  plan[j].reuse /\ (plan[j].head <=> j = h) /\ (plan[j].last <=> j = k)
               /\ plan[j].from = SpanFrom(L, h) /\ plan[j].to = SpanTo(L, k)
    <3>1. RunHead(L, C, j) = h /\ RunLast(L, C, j) = k /\ Reused(L, C, j)
      BY <2>1, <2>2, <2>3, <2>7, RunShared
    <3>2. plan[j] = [reuse |-> TRUE, readSeq |-> 0, rel |-> L.off[j] - SpanFrom(L, h), size |-> L.size[j],
                     head |-> j = h, last |-> j = k, from |-> SpanFrom(L, h), to |-> SpanTo(L, k)]
      BY <1>4, <3>1
    <3>3. plan[j].reuse = TRUE /\ plan[j].from = SpanFrom(L, h) /\ plan[j].to = SpanTo(L, k)
      BY <3>2
    <3>4. plan[j].head = (j = h) /\ plan[j].last = (j = k)
      <4>1. PICK a : a = (j = h)
        OBVIOUS
      <4>2. PICK b : b = (j = k)
        OBVIOUS
      <4>3. plan[j] = [reuse |-> TRUE, readSeq |-> 0, rel |-> L.off[j] - SpanFrom(L, h), size |-> L.size[j],
                       head |-> a, last |-> b, from |-> SpanFrom(L, h), to |-> SpanTo(L, k)]
        BY <3>2, <4>1, <4>2, Zenon
      <4>4. plan[j].head = a /\ plan[j].last = b
        BY <4>3
      <4> QED
        BY <4>1, <4>2, <4>4, Zenon
    <3> QED
      BY <3>3, <3>4
  <2>8. ASSUME ~plan[i].head PROVE FollowsInRun(i)
    <3>1. i # h
      BY <2>3, <2>7, <2>8
    <3>2. i > 1 /\ i - 1 \in Files /\ i - 1 \in h .. k /\ i - 1 # k
      BY <1>0, <2>3, <3>1 DEF Files
    <3> QED
      BY <2>4, <2>7, <3>2 DEF FollowsInRun
  <2>9. ASSUME ~plan[i].last PROVE i < N /\ plan[i+1].reuse /\ ~plan[i+1].head
    <3>1. i # k
      BY <2>3, <2>7, <2>9
    <3>2. i < N /\ i + 1 \in Files /\ i + 1 \in h .. k /\ i + 1 # h
      BY <1>0, <2>3, <3>1 DEF Files
    <3> QED
      BY <2>7, <3>2
  <2> QED
    BY <2>5, <2>6, <2>8, <2>9
<1>8. ASSUME NEW i \in Files, ~Reused(L, C, i)
      PROVE  plan[i] \in PlanEntries /\ plan[i].rel = 0 /\ plan[i].readSeq = Cardinality(ReadsBefore(i)) + 1
  <2>1. {j \in 1 .. i-1 : ~Reused(L, C, j)} = ReadsBefore(i)
    <3>1. \A j \in 1 .. i - 1 : j \in Files
      BY <1>0 DEF Files
    <3> QED
      BY <1>6, <3>1 DEF ReadsBefore
  <2>2. Cardinality(ReadsBefore(i)) \in Nat
    <3>1. i - 1 \in Int
      BY <1>0
    <3>2. IsFiniteSet(1 .. i - 1)
      BY <3>1, FS_Interval
    <3>3. IsFiniteSet(ReadsBefore(i))
      BY <3>2, FS_Subset DEF ReadsBefore
    <3> QED
      BY <3>3, FS_CardinalityType
  <2>3. plan[i] = [reuse |-> FALSE, readSeq |-> Cardinality(ReadsBefore(i)) + 1, rel |-> 0, size |-> 0,
                   head |-> FALSE, last |-> FALSE, from |-> 0, to |-> 0]
    BY <1>5, <1>8, <2>1
  <2>4. PICK n \in Nat : n = Cardinality(ReadsBefore(i)) + 1
    BY <2>2
  <2> QED
    BY <2>3, <2>4 DEF PlanEntries
<1>9. \A i \in Files : plan[i] \in PlanEntries
  BY <1>7, <1>8
<1>10. plan \in [Files -> PlanEntries]
  BY <1>3, <1>9 DEF PlanReuse
<1>11. PlanFacts
  BY <1>6, <1>7, <1>8 DEF PlanFacts
<1> QED
  BY <1>10, <1>11

-----------------------------------------------------------------------------
\* Facts that several actions need.
LEMMA Consts ==
  /\ N \in Nat /\ Window \in Nat /\ Window >= 1 /\ Sizes \subseteq Nat
  /\ "meta" \in Streams /\ "payload" \in Streams /\ \A s \in Streams : s = "meta" \/ s = "payload"
  /\ \A i \in Files : i \in Nat /\ i >= 1 /\ i <= N /\ i \in 1 .. N + 1 /\ i + 1 \in 1 .. N + 1
  BY SplitConstants DEF Streams, Files

LEMMA Types ==
  ASSUME TypeOK
  PROVE  /\ at \in 1 .. N + 1 /\ at \in Nat /\ sent \in Nat /\ Len(bound) \in Nat /\ Len(sizes) \in Nat /\ Len(pay) \in Nat
         /\ \A i \in 1 .. Len(bound) : bound[i] \in Nat \union {-1}
         /\ \A i \in 1 .. Len(sizes) : sizes[i] \in Nat
         /\ \A i \in Files : plan[i] \in PlanEntries
  BY Consts DEF TypeOK, TypeBound, TypeEmit, TypeOut, TypePlan, at, sent

LEMMA CountType ==
  ASSUME TypeOK, NEW i \in 1 .. N + 1
  PROVE  IsFiniteSet(ReadsBefore(i)) /\ Cardinality(ReadsBefore(i)) \in Nat
<1>1. IsFiniteSet(1 .. i - 1)
  BY Consts, FS_Interval
<1>2. IsFiniteSet(ReadsBefore(i))
  BY <1>1, FS_Subset DEF ReadsBefore
<1> QED
  BY <1>2, FS_CardinalityType

\* What is fixed stays, as payloads are bound one after the other.
LEMMA BoundGrows ==
  ASSUME TypeOK, plan' = plan, bound' = bound \/ \E s \in Nat \union {-1} : bound' = Append(bound, s)
  PROVE  \A i \in Files : Fixed(i) => Fixed(i)' /\ Sz(i)' = Sz(i) /\ Skip(i)' = Skip(i)
<1> SUFFICES ASSUME NEW i \in Files, Fixed(i) PROVE Fixed(i)' /\ Sz(i)' = Sz(i) /\ Skip(i)' = Skip(i)
  OBVIOUS
<1>1. CASE plan[i].reuse
  BY <1>1 DEF Fixed, Sz, Skip
<1>2. CASE ~plan[i].reuse
  <2>1. PICK r : r = plan[i].readSeq
    OBVIOUS
  <2>2. r \in 1 .. Len(bound) /\ bound[r] \in Nat
    BY <1>2, <2>1 DEF Fixed
  <2>3. r \in 1 .. Len(bound') /\ bound'[r] = bound[r]
    <3>1. bound \in Seq(Nat \union {-1}) /\ Len(bound) \in Nat
      BY DEF TypeOK, TypeBound
    <3>2. CASE bound' = bound
      BY <2>2, <3>2
    <3>3. CASE \E s \in Nat \union {-1} : bound' = Append(bound, s)
      BY <2>2, <3>1, <3>3, AppendAt
    <3> QED
      BY <3>2, <3>3
  <2> QED
    BY <1>2, <2>1, <2>2, <2>3 DEF Fixed, Sz, Skip
<1> QED
  BY <1>1, <1>2

\* A step that writes nothing keeps the layout.
Placing == {"inject", "open", "header", "tail"}
LEMMA LayoutKept ==
  ASSUME TypeOK, MetaPhases, Layout, UNCHANGED <<plan, refOffset, refs, pay>>, at' = at,
         \A i \in Files : Fixed(i) => Fixed(i)' /\ Sz(i)' = Sz(i) /\ Skip(i)' = Skip(i),
         pc'["payload"] \in Placing => pc["payload"] \in Placing,
         pc'["payload"] \in {"copy", "content"} => pc["payload"] \in {"copy", "content"},
         outcome'["payload"] # "ok" => outcome["payload"] # "ok"
  PROVE  Layout'
<1>1. PICK S \in [1 .. N + 1 -> Nat] : LaysOut(S)
  BY DEF Layout
<1>2. sent' = sent
  BY DEF sent
<1>3. Chain(S)'
  BY <1>1, <1>2 DEF LaysOut, Chain
<1>4. \A i \in Files : i <= sent \/ i < at => Fixed(i)
  BY <1>1 DEF LaysOut, Chain
<1>5. Written(S)'
  <2> SUFFICES ASSUME NEW i \in Files, i < at PROVE WrittenAt(S, i)'
    BY DEF Written
  <2>1. Sz(i)' = Sz(i) /\ Off(S, i)' = Off(S, i) /\ WrittenAt(S, i)
    BY <1>1, <1>4 DEF LaysOut, Written, Off
  <2> QED
    BY <2>1 DEF WrittenAt
<1>6. HeaderOut(S) => HeaderOut(S)'
  BY DEF HeaderOut
<1>7. Reached(S)'
  BY <1>1, <1>6 DEF LaysOut, Reached, Placing
<1>8. Referred(S)'
  <2>1. \A i \in 1 .. sent : i \in Files /\ Fixed(i)
    BY <1>4, Consts, Types DEF MetaPhases, Files
  <2> QED
    BY <1>1, <1>2, <1>4, <2>1 DEF LaysOut, Referred, Off
<1> QED
  BY <1>3, <1>5, <1>7, <1>8 DEF LaysOut, Layout

LEMMA PlanKept ==
  ASSUME PlanFacts, UNCHANGED <<prev, plan>>
  PROVE  PlanFacts'
  BY DEF PlanFacts, InSpan, FollowsInRun, ReadsBefore

LEMMA CountKept ==
  ASSUME plan' = plan, at' = at
  PROVE  ReadsBefore(at)' = ReadsBefore(at)
  BY DEF ReadsBefore

\* A stream that ended regularly stays ended.
LEMMA ReturnedKept ==
  ASSUME Returned, UNCHANGED <<failed, ret>>,
         \A s \in Streams : rpc'[s] = "ended" => rpc[s] = "ended",
         \A s \in Streams : pc[s] = "closed" => pc'[s] = "closed" /\ outcome'[s] = outcome[s]
  PROVE  Returned'
  BY DEF Returned

\* A step that leaves the payload stream, its emitter and what is bound alone.
LEMMA PayloadKept ==
  ASSUME PayloadPhases, Slots, UNCHANGED <<plan, async, bound, window, dpc, pay>>, at' = at,
         pc'["payload"] = pc["payload"], outcome'["payload"] = outcome["payload"]
  PROVE  PayloadPhases' /\ Slots'
<1>1. Fixed(at)' <=> Fixed(at)
  BY DEF Fixed
<1> QED
  BY <1>1, CountKept DEF PayloadPhases, Slots

LEMMA LedgerKept ==
  ASSUME Ledger, UNCHANGED <<sizes, bound, lerr, delivered, handed>>
  PROVE  Ledger'
  BY DEF Ledger

\* A broadcast of the ledger's condition reaches the metadata emitter only.
LEMMA Wakes ==
  ASSUME TypeEmit, pc' = Woken(pc)
  PROVE  /\ pc' \in [Streams -> {"start", "entry", "get", "wait", "sleep", "ref", "goodbye", "inject", "open",
                                 "header", "copy", "content", "tail", "fail", "closed"}]
         /\ pc'["payload"] = pc["payload"]
         /\ pc'["meta"] = pc["meta"] \/ (pc["meta"] = "sleep" /\ pc'["meta"] = "get")
  BY Consts DEF TypeEmit, Woken

\* A step of the metadata emitter to another program counter without output.
LEMMA MetaTurns ==
  ASSUME Outcomes, MetaPhases, UNCHANGED <<inPipe, refs, outcome>>, pos'["meta"] = pos["meta"],
         pc'["payload"] = pc["payload"],
         \/ pc'["meta"] = pc["meta"]
         \/ pc["meta"] = "sleep" /\ pc'["meta"] = "get"
         \/ pc["meta"] = "get" /\ pc'["meta"] = "wait"
         \/ pc["meta"] = "wait" /\ pc'["meta"] = "sleep"
         \/ pc["meta"] = "fail" /\ pc'["meta"] = "closed"
  PROVE  Outcomes' /\ MetaPhases' /\ \A s \in Streams : pc[s] = "closed" => pc'[s] = "closed"
<1>1. sent' = sent
  BY DEF sent
<1>2. MetaPhases'
  BY <1>1 DEF MetaPhases
<1>3. \A s \in Streams : pc[s] = "closed" => pc'[s] = "closed"
  BY Consts
<1>4. Outcomes'
  <2> SUFFICES ASSUME NEW s \in Streams
               PROVE  /\ inPipe'[s] => pc'[s] \in Writes(s)
                      /\ pc'[s] = "fail" => outcome'[s] = "error"
                      /\ pc'[s] = "closed" => outcome'[s] # "running"
                      /\ pc'[s] \notin {"fail", "closed"} => outcome'[s] = "running"
    BY DEF Outcomes, Writes
  <2>1. CASE s = "payload"
    BY <2>1 DEF Outcomes
  <2>2. CASE s = "meta"
    BY <2>2, Consts DEF Outcomes, Writes
  <2> QED
    BY <2>1, <2>2, Consts
<1> QED
  BY <1>2, <1>3, <1>4

-----------------------------------------------------------------------------
LEMMA SplitInit == Init => SplitInv
<1> SUFFICES ASSUME Init PROVE SplitInv
  OBVIOUS
<1>1. plan \in [Files -> PlanEntries] /\ PlanFacts
  BY InitPlan
<1>2. TypePlan
  BY <1>1 DEF Init, TypePlan
<1>3. TypeBound
  <2>1. sizes \in Seq(Nat) /\ bound \in Seq(Nat \union {-1})
    BY EmptyType DEF Init
  <2>2. dpc \in {"slot", "deliver", "work", "exit"} /\ window \in 0 .. Window
    BY Consts DEF Init
  <2> QED
    BY <2>1, <2>2 DEF Init, TypeBound
<1>4. TypeEmit /\ TypeRead
  BY Consts DEF Init, TypeEmit, TypeRead
<1>5. TypeOut
  BY EmptyType DEF Init, TypeOut, MarkerSize
<1>6. at = 1 /\ sent = 0 /\ pos["meta"] = 1 /\ pc["meta"] = "start" /\ pc["payload"] = "start"
      /\ outcome["meta"] = "running" /\ outcome["payload"] = "running"
  BY Consts DEF Init, at, sent
<1>7. Outcomes /\ Returned
  BY DEF Init, Outcomes, Returned
<1>8. MetaPhases
  BY <1>6, Consts DEF Init, MetaPhases
<1>9. PayloadPhases
  BY <1>6 DEF Init, PayloadPhases
<1>10. Ledger
  BY DEF Init, Ledger
<1>11. Slots
  <2>1. ReadsBefore(at) = {}
    BY <1>6 DEF ReadsBefore
  <2>2. Cardinality(ReadsBefore(at)) = 0
    BY <2>1, FS_EmptySet
  <2> QED
    BY <1>6, <2>2 DEF Init, Slots
<1>12. Layout
  <2>1. PICK S : S = [i \in 1 .. N + 1 |-> MarkerSize]
    OBVIOUS
  <2>2. S \in [1 .. N + 1 -> Nat] /\ S[1] = MarkerSize
    BY <2>1, Consts DEF MarkerSize
  <2>3. Chain(S) /\ Written(S)
    BY <1>6, <2>2, Consts DEF Chain, Written
  <2>4. Reached(S) /\ Referred(S)
    BY <1>6, <2>2 DEF Init, Reached, Referred, MarkerSize
  <2> QED
    BY <2>2, <2>3, <2>4 DEF Layout, LaysOut
<1> QED
  BY <1>1, <1>2, <1>3, <1>4, <1>5, <1>7, <1>8, <1>9, <1>10, <1>11, <1>12 DEF SplitInv, TypeOK, Control

-----------------------------------------------------------------------------
\* The uploads.
LEMMA UploadKeeps ==
  ASSUME SplitInv, NEW s \in Streams, Upload(s)
  PROVE  SplitInv'
<1> USE DEF SplitInv, Control, TypeOK
<1>1. UNCHANGED <<planVars, ctxVars, sizes, lerr, watching, dispVars, window, pc, pos, inPipe, outcome, refOffset, refs, pay>>
  BY DEF Upload
<1>2. TypePlan' /\ TypeBound' /\ TypeEmit' /\ TypeOut'
  BY <1>1 DEF TypePlan, TypeBound, TypeEmit, TypeOut, planVars, ctxVars, dispVars
<1>3. PlanFacts' /\ Outcomes' /\ MetaPhases'
  BY <1>1, PlanKept DEF planVars, Outcomes, MetaPhases, sent
<1>4. at' = at
  BY <1>1 DEF at
<1>5. PayloadPhases' /\ Slots' /\ Ledger'
  BY <1>1, <1>4, PayloadKept, LedgerKept DEF planVars, dispVars
<1>6. Layout'
  BY <1>1, <1>4, BoundGrows, LayoutKept DEF planVars, dispVars
<1>7. TypeRead'
  BY DEF Upload, Setup, UploadFails, EmitChunk, ReadEnd, UploadReturns, TypeRead
<1>8. Returned'
  <2> SUFFICES ASSUME NEW t \in Streams, ret'[t] = "ok" \/ (rpc'[t] = "ended" /\ ~failed'[t] /\ ret'[t] = "none")
               PROVE  pc[t] = "closed" /\ outcome[t] = "ok"
    BY <1>1 DEF Returned
  <2>1. CASE t # s
    <3>1. rpc'[t] = rpc[t] /\ failed'[t] = failed[t] /\ ret'[t] = ret[t]
      BY <2>1 DEF Upload, Setup, UploadFails, EmitChunk, ReadEnd, UploadReturns, TypeRead
    <3> QED
      BY <3>1 DEF Returned
  <2>2. CASE t = s
    <3>1. CASE Setup(s)
      BY <2>2, <3>1 DEF Setup, TypeRead, Returned
    <3>2. CASE UploadFails(s)
      BY <2>2, <3>2 DEF UploadFails, TypeRead, Returned
    <3>3. CASE EmitChunk(s)
      BY <2>2, <3>3 DEF EmitChunk, TypeRead, Returned
    <3>4. CASE ReadEnd(s)
      <4>1. ret' = ret /\ pc[s] = "closed" /\ outcome[s] \in {"ok", "error"}
        BY <3>4 DEF ReadEnd, Outcomes, TypeEmit
      <4>2. outcome[s] = "error" => failed'[s]
        BY <3>4 DEF ReadEnd, ClosedWithError, TypeRead
      <4> QED
        BY <2>2, <4>1, <4>2 DEF Returned
    <3>5. CASE UploadReturns(s)
      BY <2>2, <3>5 DEF UploadReturns, TypeRead, Returned
    <3> QED
      BY <3>1, <3>2, <3>3, <3>4, <3>5 DEF Upload
  <2> QED
    BY <2>1, <2>2
<1> QED
  BY <1>2, <1>3, <1>5, <1>6, <1>7, <1>8

LEMMA CloseReadersKeeps ==
  ASSUME SplitInv, CloseReaders
  PROVE  SplitInv'
<1> USE DEF SplitInv, Control, TypeOK
<1>1. UNCHANGED <<planVars, ctxVars, sizes, lerr, watching, dispVars, window, pc, pos, inPipe, outcome, refOffset, refs, pay, readVars>>
      /\ rpc' = [s \in Streams |-> "closed"]
  BY DEF CloseReaders
<1>2. TypePlan' /\ TypeBound' /\ TypeEmit' /\ TypeOut' /\ TypeRead'
  BY <1>1 DEF TypePlan, TypeBound, TypeEmit, TypeOut, TypeRead, planVars, ctxVars, dispVars, readVars
<1>3. PlanFacts' /\ Outcomes' /\ MetaPhases'
  BY <1>1, PlanKept DEF planVars, Outcomes, MetaPhases, sent
<1>4. at' = at
  BY <1>1 DEF at
<1>5. PayloadPhases' /\ Slots' /\ Ledger'
  BY <1>1, <1>4, PayloadKept, LedgerKept DEF planVars, dispVars
<1>6. Layout'
  BY <1>1, <1>4, BoundGrows, LayoutKept DEF planVars, dispVars
<1>7. Returned'
  BY <1>1, ReturnedKept DEF readVars
<1> QED
  BY <1>2, <1>3, <1>5, <1>6, <1>7

\* Steps that only cancel, wake or move the metadata emitter's program counter.
LEMMA TurnsKeep ==
  ASSUME SplitInv, WakeOnCancel \/ Sleep \/ MetaFailed \/ Cleanup \/ UserCancel
  PROVE  SplitInv'
<1> USE DEF SplitInv, Control, TypeOK
<1>1. /\ UNCHANGED <<prev, changed, async, plan, sizes, lerr, dispVars, window, pos, inPipe, outcome, refOffset, refs, pay, rpc, readVars>>
      /\ canceled' \in BOOLEAN /\ userCanceled' \in BOOLEAN /\ watching' \in BOOLEAN
  BY DEF WakeOnCancel, Sleep, MetaFailed, Cleanup, UserCancel, planVars, ctxVars, TypePlan, TypeBound
<1>2. TypePlan' /\ TypeBound' /\ TypeOut' /\ TypeRead'
  BY <1>1 DEF TypePlan, TypeBound, TypeOut, TypeRead, dispVars, readVars
<1>3. /\ pc' \in [Streams -> {"start", "entry", "get", "wait", "sleep", "ref", "goodbye", "inject", "open",
                              "header", "copy", "content", "tail", "fail", "closed"}]
      /\ pc'["payload"] = pc["payload"]
      /\ \/ pc'["meta"] = pc["meta"]
         \/ pc["meta"] = "sleep" /\ pc'["meta"] = "get"
         \/ pc["meta"] = "wait" /\ pc'["meta"] = "sleep"
         \/ pc["meta"] = "fail" /\ pc'["meta"] = "closed"
  <2>1. CASE WakeOnCancel
    BY <2>1, Wakes DEF WakeOnCancel
  <2>2. CASE Sleep
    BY <2>2, Consts DEF Sleep, TypeEmit
  <2>3. CASE MetaFailed
    BY <2>3, Consts DEF MetaFailed, TypeEmit
  <2>4. CASE Cleanup \/ UserCancel
    BY <2>4 DEF Cleanup, UserCancel, TypeEmit
  <2> QED
    BY <2>1, <2>2, <2>3, <2>4
<1>4. TypeEmit'
  BY <1>1, <1>3 DEF TypeEmit
<1>5. at' = at /\ PlanFacts'
  BY <1>1, PlanKept DEF at
<1>6. Outcomes' /\ MetaPhases' /\ \A s \in Streams : pc[s] = "closed" => pc'[s] = "closed"
  BY <1>1, <1>3, MetaTurns
<1>7. PayloadPhases' /\ Slots' /\ Ledger'
  BY <1>1, <1>3, <1>5, PayloadKept, LedgerKept DEF dispVars
<1>8. Layout'
  BY <1>1, <1>3, <1>5, BoundGrows, LayoutKept DEF dispVars
<1>9. Returned'
  BY <1>1, <1>6, ReturnedKept DEF readVars
<1> QED
  BY <1>2, <1>4, <1>5, <1>6, <1>7, <1>8, <1>9

-----------------------------------------------------------------------------
\* Binding and publishing a size.
LEMMA Bound ==
  ASSUME TypeOK, Ledger, NEW s \in Binds, bound' = Append(bound, s), Publish(s)
  PROVE  /\ sizes' \in Seq(Nat) /\ lerr' \in BOOLEAN /\ bound' \in Seq(Nat \union {-1}) /\ s \in Nat \union {-1}
         /\ Len(bound') = Len(bound) + 1 /\ bound'[Len(bound) + 1] = s
         /\ Len(sizes') <= Len(bound') /\ \A i \in 1 .. Len(sizes') : sizes'[i] = bound'[i]
         /\ ~lerr' => Len(sizes') = Len(bound')
<1> USE DEF TypeOK
<1>1. s \in Nat \union {-1}
  BY Consts DEF Binds
<1>2. /\ bound' \in Seq(Nat \union {-1}) /\ Len(bound') = Len(bound) + 1 /\ bound'[Len(bound) + 1] = s
      /\ \A i \in 1 .. Len(bound) : bound'[i] = bound[i]
  BY <1>1, AppendType, AppendAt DEF TypeBound
<1>3. Len(bound) \in Nat /\ Len(sizes) \in Nat
  BY Types
<1>4. CASE lerr \/ s = -1
  <2>1. sizes' = sizes /\ lerr' = TRUE
    BY <1>4 DEF Publish
  <2> QED
    BY <1>1, <1>2, <1>3, <2>1 DEF Ledger, TypeBound
<1>5. CASE ~(lerr \/ s = -1)
  <2>1. sizes' = Append(sizes, s) /\ lerr' = FALSE /\ s \in Nat /\ Len(sizes) = Len(bound)
    BY <1>1, <1>5 DEF Publish, Ledger
  <2>2. /\ sizes' \in Seq(Nat) /\ Len(sizes') = Len(sizes) + 1 /\ sizes'[Len(sizes) + 1] = s
        /\ \A i \in 1 .. Len(sizes) : sizes'[i] = sizes[i]
    BY <2>1, AppendType, AppendAt DEF TypeBound
  <2>3. \A i \in 1 .. Len(sizes') : sizes'[i] = bound'[i]
    <3> SUFFICES ASSUME NEW i \in 1 .. Len(sizes') PROVE sizes'[i] = bound'[i]
      OBVIOUS
    <3>1. i \in 1 .. Len(sizes) \/ i = Len(sizes) + 1
      BY <1>3, <2>2
    <3> QED
      BY <1>2, <2>1, <2>2, <3>1 DEF Ledger
  <2>4. Len(sizes') = Len(bound') /\ Len(bound') \in Nat
    BY <1>2, <1>3, <2>1, <2>2
  <2>5. lerr' \in BOOLEAN
    BY <2>1
  <2> QED
    BY <1>1, <1>2, <2>2, <2>3, <2>4, <2>5
<1> QED
  BY <1>4, <1>5

LEMMA PayloadPhasesKept ==
  ASSUME PayloadPhases, UNCHANGED <<plan, pay>>, at' = at, \A i \in Files : Fixed(i) => Fixed(i)',
         pc'["payload"] = pc["payload"], outcome'["payload"] = outcome["payload"]
  PROVE  PayloadPhases'
  BY DEF PayloadPhases

LEMMA DispatchKeeps ==
  ASSUME SplitInv, Dispatch
  PROVE  SplitInv'
<1> USE DEF SplitInv, Control, TypeOK
<1>1. /\ UNCHANGED <<prev, changed, async, plan, canceled, userCanceled, watching, pos, inPipe, outcome, refOffset, refs, pay, rpc, failed, ret>>
      /\ dpc # "exit"
  BY DEF Dispatch, planVars, ctxVars, readVars, DispatchBind, DispatchDeliver, DispatchWork, DispatchDone
<1>2. async
  BY <1>1 DEF Slots
<1>3. at' = at /\ PlanFacts' /\ TypePlan' /\ TypeOut' /\ TypeRead'
  BY <1>1, PlanKept DEF at, TypePlan, TypeOut, TypeRead
<1>4. Len(bound) \in Nat /\ at \in 1 .. N + 1
  BY Types
<1>5. Cardinality(ReadsBefore(at)) \in Nat /\ ReadsBefore(at)' = ReadsBefore(at)
  BY <1>1, <1>3, <1>4, CountType, CountKept
<1>6. \/ /\ UNCHANGED <<sizes, lerr, pc, bound, window>>
         /\ dpc' \in {"slot", "work", "exit"} /\ delivered' \in {delivered, Len(bound)} /\ handed' \in {handed, Len(bound)}
      \/ /\ \E s \in Binds : bound' = Append(bound, s) /\ Publish(s)
         /\ window < Window /\ window' = window + 1 /\ pc' = Woken(pc) /\ dpc' = "deliver"
         /\ UNCHANGED <<delivered, handed>>
  BY DEF Dispatch, DispatchBind, DispatchDeliver, DispatchWork, DispatchDone, DispatchExit
<1>7. CASE /\ UNCHANGED <<sizes, lerr, pc, bound, window>>
           /\ dpc' \in {"slot", "work", "exit"} /\ delivered' \in {delivered, Len(bound)} /\ handed' \in {handed, Len(bound)}
  <2>1. TypeBound' /\ TypeEmit'
    BY <1>1, <1>4, <1>7 DEF TypeBound, TypeEmit
  <2>2. Outcomes' /\ MetaPhases'
    BY <1>1, <1>7 DEF Outcomes, MetaPhases, sent
  <2>3. \A i \in Files : Fixed(i) => Fixed(i)' /\ Sz(i)' = Sz(i) /\ Skip(i)' = Skip(i)
    BY <1>1, <1>7, BoundGrows
  <2>4. PayloadPhases' /\ Layout'
    BY <1>1, <1>3, <1>7, <2>3, PayloadPhasesKept, LayoutKept
  <2>5. Ledger'
    BY <1>4, <1>7 DEF Ledger, TypeBound
  <2>6. Slots'
    BY <1>1, <1>2, <1>5, <1>7 DEF Slots
  <2>7. Returned'
    BY <1>1, <1>7, ReturnedKept
  <2> QED
    BY <1>3, <2>1, <2>2, <2>4, <2>5, <2>6, <2>7
<1>8. CASE /\ \E s \in Binds : bound' = Append(bound, s) /\ Publish(s)
           /\ window < Window /\ window' = window + 1 /\ pc' = Woken(pc) /\ dpc' = "deliver"
           /\ UNCHANGED <<delivered, handed>>
  <2>1. PICK s \in Binds : bound' = Append(bound, s) /\ Publish(s)
    BY <1>8
  <2>2. /\ sizes' \in Seq(Nat) /\ lerr' \in BOOLEAN /\ bound' \in Seq(Nat \union {-1}) /\ s \in Nat \union {-1}
        /\ Len(bound') = Len(bound) + 1
        /\ Len(sizes') <= Len(bound') /\ \A i \in 1 .. Len(sizes') : sizes'[i] = bound'[i]
        /\ ~lerr' => Len(sizes') = Len(bound')
    BY <2>1, Bound
  <2>3. window' \in 0 .. Window
    BY <1>8, Consts DEF TypeBound
  <2>4. TypeBound'
    BY <1>1, <1>8, <2>2, <2>3 DEF TypeBound
  <2>5. /\ pc'["payload"] = pc["payload"]
        /\ pc'["meta"] = pc["meta"] \/ (pc["meta"] = "sleep" /\ pc'["meta"] = "get")
    BY <1>8, Wakes
  <2>6. TypeEmit'
    BY <1>1, <1>8, Wakes DEF TypeEmit
  <2>7. Outcomes' /\ MetaPhases' /\ \A t \in Streams : pc[t] = "closed" => pc'[t] = "closed"
    BY <1>1, <2>5, MetaTurns
  <2>8. \A i \in Files : Fixed(i) => Fixed(i)' /\ Sz(i)' = Sz(i) /\ Skip(i)' = Skip(i)
    BY <1>1, <2>1, <2>2, BoundGrows
  <2>9. PayloadPhases' /\ Layout'
    BY <1>1, <1>3, <2>5, <2>8, PayloadPhasesKept, LayoutKept
  <2>10. Ledger'
    BY <1>4, <1>8, <2>2 DEF Ledger, TypeBound
  <2>11. Slots'
    <3>1. window \in Int
      BY DEF TypeBound
    <3> QED
      BY <1>1, <1>2, <1>4, <1>5, <1>8, <2>2, <2>5, <3>1 DEF Slots
  <2>12. Returned'
    BY <1>1, <2>7, ReturnedKept
  <2> QED
    BY <1>3, <2>4, <2>6, <2>7, <2>9, <2>10, <2>11, <2>12
<1> QED
  BY <1>6, <1>7, <1>8

-----------------------------------------------------------------------------
\* An emitter fails: what it wrote stays as it is.
LEMMA FailsKeep ==
  ASSUME SplitInv, NEW s \in Streams, EmitterFails(s), pc[s] \notin {"fail", "closed"},
         inPipe' \in [Streams -> BOOLEAN], ~inPipe'[s], \A t \in Streams : t # s => inPipe'[t] = inPipe[t],
         window' \in 0 .. Window, ~async => window' = 0, s = "meta" => window' = window,
         UNCHANGED <<planVars, ctxVars, sizes, lerr, watching, dispVars, refOffset, refs, pay, rpc, readVars>>
  PROVE  SplitInv'
<1> USE DEF SplitInv, Control, TypeOK
<1>1. UNCHANGED <<prev, changed, async, plan, canceled, userCanceled, sizes, lerr, watching, dpc, bound, delivered, handed, refOffset, refs, pay, rpc, failed, ret, pos>>
  BY DEF planVars, ctxVars, dispVars, readVars, EmitterFails
<1>2. /\ pc' = [pc EXCEPT ![s] = "fail"] /\ outcome' = [outcome EXCEPT ![s] = "error"]
      /\ pc'[s] = "fail" /\ outcome'[s] = "error" /\ outcome[s] = "running"
      /\ \A t \in Streams : t # s => pc'[t] = pc[t] /\ outcome'[t] = outcome[t]
  BY DEF EmitterFails, TypeEmit, Outcomes
<1>3. TypePlan' /\ TypeBound' /\ TypeOut' /\ TypeRead'
  BY <1>1 DEF TypePlan, TypeBound, TypeOut, TypeRead
<1>4. TypeEmit'
  BY <1>1, <1>2 DEF TypeEmit
<1>5. at' = at /\ sent' = sent /\ PlanFacts' /\ Ledger'
  BY <1>1, PlanKept, LedgerKept DEF at, sent
<1>6. Outcomes'
  BY <1>2 DEF Outcomes, Writes
<1>7. Returned'
  BY <1>1, <1>2, ReturnedKept
<1>8. \A i \in Files : Fixed(i) => Fixed(i)' /\ Sz(i)' = Sz(i) /\ Skip(i)' = Skip(i)
  BY <1>1, BoundGrows
<1>9. CASE s = "meta"
  <2>1. pc'["payload"] = pc["payload"] /\ outcome'["payload"] = outcome["payload"]
    BY <1>2, <1>9, Consts
  <2>2. MetaPhases'
    BY <1>1, <1>2, <1>5, <1>9 DEF MetaPhases
  <2>3. PayloadPhases' /\ Slots'
    BY <1>1, <1>5, <1>9, <2>1, PayloadKept
  <2>4. Layout'
    BY <1>1, <1>5, <1>8, <2>1, LayoutKept
  <2> QED
    BY <1>3, <1>4, <1>5, <1>6, <1>7, <2>2, <2>3, <2>4
<1>10. CASE s = "payload"
  <2>1. pc'["meta"] = pc["meta"] /\ outcome'["meta"] = outcome["meta"]
    BY <1>2, <1>10, Consts
  <2>2. MetaPhases'
    BY <1>1, <1>5, <2>1 DEF MetaPhases
  <2>3. PayloadPhases'
    BY <1>1, <1>2, <1>5, <1>8, <1>10 DEF PayloadPhases
  <2>4. Slots'
    BY <1>1, <1>2, <1>10 DEF Slots
  <2>5. Layout'
    BY <1>1, <1>2, <1>5, <1>8, <1>10, LayoutKept DEF Placing
  <2> QED
    BY <1>3, <1>4, <1>5, <1>6, <1>7, <2>2, <2>3, <2>4, <2>5
<1> QED
  BY <1>9, <1>10, Consts

\* A payload that is open holds a slot.
LEMMA SlotHeld ==
  ASSUME SplitInv, async, pc["payload"] \notin {"fail", "closed"}, at \in Files, ~plan[at].reuse,
         plan[at].readSeq <= Len(bound)
  PROVE  window >= 1
<1>1. plan[at].readSeq = Cardinality(ReadsBefore(at)) + 1 /\ window = Len(bound) - Cardinality(ReadsBefore(at))
  BY DEF SplitInv, Control, PlanFacts, Slots
<1>2. Cardinality(ReadsBefore(at)) \in Nat /\ Len(bound) \in Nat
  BY CountType, Types DEF SplitInv
<1> QED
  BY <1>1, <1>2

LEMMA SlotBack ==
  ASSUME SplitInv, NEW closing \in BOOLEAN, window' = SlotReturned(closing),
         closing => /\ pc["payload"] \notin {"fail", "closed"} /\ at \in Files /\ ~plan[at].reuse
                    /\ plan[at].readSeq <= Len(bound)
  PROVE  window' \in 0 .. Window /\ (~async => window' = 0) /\ (~closing => window' = window)
<1>1. window \in 0 .. Window
  BY DEF SplitInv, TypeOK, TypeBound
<1>2. async /\ closing => window >= 1
  BY SlotHeld
<1> QED
  BY <1>1, <1>2, Consts DEF SlotReturned, SplitInv, Control, Slots

LEMMA BeginWriteKeeps ==
  ASSUME SplitInv, NEW s \in Streams, BeginWrite(s)
  PROVE  SplitInv'
<1> USE DEF SplitInv, Control, TypeOK
<1>1. pc[s] \in Writes(s) /\ ~inPipe[s]
      /\ UNCHANGED <<planVars, ctxVars, sizes, lerr, watching, dispVars, refOffset, refs, pay, rpc, readVars>>
  BY DEF BeginWrite
<1>2. pc[s] \notin {"fail", "closed"}
  BY <1>1 DEF Writes
<1>3. CASE inPipe' = [inPipe EXCEPT ![s] = TRUE] /\ UNCHANGED <<pc, pos, outcome, window>>
  <2>1. UNCHANGED <<prev, changed, async, plan, canceled, userCanceled, sizes, lerr, watching, dpc, bound, delivered, handed, window, pc, pos, outcome, refOffset, refs, pay, rpc, failed, ret>>
    BY <1>1, <1>3 DEF planVars, ctxVars, dispVars, readVars
  <2>2. TypePlan' /\ TypeBound' /\ TypeEmit' /\ TypeOut' /\ TypeRead'
    BY <1>3, <2>1 DEF TypePlan, TypeBound, TypeEmit, TypeOut, TypeRead
  <2>3. Outcomes'
    BY <1>1, <1>3, <2>1 DEF Outcomes, TypeEmit, Writes
  <2>4. MetaPhases' /\ at' = at
    BY <2>1 DEF MetaPhases, sent, at
  <2>5. PlanFacts' /\ Ledger' /\ Returned'
    BY <2>1, PlanKept, LedgerKept, ReturnedKept
  <2>6. PayloadPhases' /\ Slots'
    BY <2>1, <2>4, PayloadKept
  <2>7. Layout'
    BY <2>1, <2>4, BoundGrows, LayoutKept
  <2> QED
    BY <2>2, <2>3, <2>4, <2>5, <2>6, <2>7
<1>4. CASE EmitterFails(s) /\ window' = SlotReturned(HasPayload(s)) /\ UNCHANGED inPipe
  <2>1. HasPayload(s) \in BOOLEAN
    BY DEF HasPayload
  <2>2. HasPayload(s) => at \in Files /\ ~plan[at].reuse /\ plan[at].readSeq <= Len(bound) /\ s = "payload"
    BY Types DEF HasPayload, PayloadPhases, Fixed
  <2>3. window' \in 0 .. Window /\ (~async => window' = 0) /\ (~HasPayload(s) => window' = window)
    BY <1>2, <1>4, <2>1, <2>2, SlotBack
  <2>4. s = "meta" => window' = window
    BY <2>3 DEF HasPayload
  <2>5. inPipe' \in [Streams -> BOOLEAN] /\ ~inPipe'[s] /\ \A t \in Streams : t # s => inPipe'[t] = inPipe[t]
    BY <1>1, <1>4 DEF TypeEmit
  <2> QED
    BY <1>1, <1>2, <1>4, <2>3, <2>4, <2>5, FailsKeep
<1> QED
  BY <1>3, <1>4 DEF BeginWrite

LEMMA UnresolvedLinkKeeps ==
  ASSUME SplitInv, UnresolvedLink
  PROVE  SplitInv'
<1>1. /\ pc["meta"] \notin {"fail", "closed"} /\ ~inPipe["meta"] /\ EmitterFails("meta")
      /\ UNCHANGED <<planVars, ctxVars, sizes, lerr, watching, dispVars, window, inPipe, refOffset, refs, pay, rpc, readVars>>
  BY DEF UnresolvedLink
<1>2. window' \in 0 .. Window /\ (~async => window' = 0) /\ inPipe' \in [Streams -> BOOLEAN] /\ "meta" \in Streams
  BY <1>1, Consts DEF SplitInv, Control, Slots, TypeOK, TypeBound, TypeEmit, Streams
<1> QED
  BY <1>1, <1>2, FailsKeep

LEMMA WriteRefusedKeeps ==
  ASSUME SplitInv, NEW s \in Streams, WriteRefused(s)
  PROVE  SplitInv'
<1> USE DEF SplitInv, Control, TypeOK
<1>1. /\ inPipe[s] /\ inPipe' = [inPipe EXCEPT ![s] = FALSE] /\ EmitterFails(s) /\ window' = SlotReturned(HasPayload(s))
      /\ UNCHANGED <<planVars, ctxVars, sizes, lerr, watching, dispVars, refOffset, refs, pay, rpc, readVars>>
  BY DEF WriteRefused
<1>2. pc[s] \notin {"fail", "closed"}
  BY <1>1 DEF Outcomes, Writes
<1>3. HasPayload(s) \in BOOLEAN
  BY DEF HasPayload
<1>4. HasPayload(s) => at \in Files /\ ~plan[at].reuse /\ plan[at].readSeq <= Len(bound) /\ s = "payload"
  BY Types DEF HasPayload, PayloadPhases, Fixed
<1>5. window' \in 0 .. Window /\ (~async => window' = 0) /\ (~HasPayload(s) => window' = window)
  BY <1>1, <1>2, <1>3, <1>4, SlotBack
<1>6. s = "meta" => window' = window
  BY <1>5 DEF HasPayload
<1>7. inPipe' \in [Streams -> BOOLEAN] /\ ~inPipe'[s] /\ \A t \in Streams : t # s => inPipe'[t] = inPipe[t]
  BY <1>1 DEF TypeEmit
<1> QED
  BY <1>1, <1>2, <1>5, <1>6, <1>7, FailsKeep

-----------------------------------------------------------------------------
\* The metadata emitter.
LEMMA MetaWrittenKeeps ==
  ASSUME SplitInv, MetaWritten
  PROVE  SplitInv'
<1> USE DEF SplitInv, Control, TypeOK
<1>1. /\ UNCHANGED <<prev, changed, async, plan, canceled, userCanceled, sizes, lerr, watching, dpc, bound, delivered, handed, window, refOffset, refs, pay, failed, ret>>
      /\ inPipe["meta"] /\ rpc["meta"] = "read" /\ rpc' = [rpc EXCEPT !["meta"] = "emit"]
      /\ inPipe' = [inPipe EXCEPT !["meta"] = FALSE] /\ Completes("meta")
  BY DEF MetaWritten, planVars, ctxVars, dispVars, readVars, Taken, Take
<1>2. pc["meta"] \in {"start", "entry", "ref", "goodbye"}
  BY <1>1, Consts DEF Outcomes, Writes
<1>3. pos["meta"] \in Nat /\ sent' = sent
  BY <1>1, Consts DEF TypeEmit, sent
<1>4. \E q, c : Moves("meta", q, c) /\
        \/ pc["meta"] = "start" /\ q = 1 /\ c = MetaPc(1)
        \/ pc["meta"] = "entry" /\ q = pos["meta"] /\ c = "get"
        \/ pc["meta"] = "ref" /\ q = pos["meta"] + 1 /\ c = MetaPc(pos["meta"] + 1)
        \/ pc["meta"] = "goodbye" /\ q = pos["meta"] /\ c = "closed"
  BY <1>2 DEF MetaWritten
<1>5. PICK q, c : Moves("meta", q, c) /\
        \/ pc["meta"] = "start" /\ q = 1 /\ c = MetaPc(1)
        \/ pc["meta"] = "entry" /\ q = pos["meta"] /\ c = "get"
        \/ pc["meta"] = "ref" /\ q = pos["meta"] + 1 /\ c = MetaPc(pos["meta"] + 1)
        \/ pc["meta"] = "goodbye" /\ q = pos["meta"] /\ c = "closed"
  BY <1>4
<1>6. /\ q \in 1 .. N + 1
      /\ c \in {"entry", "get", "goodbye", "closed"}
      /\ c \in {"entry", "get"} => q <= N /\ sent = q - 1
      /\ c \in {"goodbye", "closed"} => sent = N
      /\ (c = "closed" <=> pc["meta"] = "goodbye")
  <2>1. pos["meta"] \in 1 .. N + 1 /\ sent \in Nat /\ N \in Nat
    BY Consts, Types DEF TypeEmit
  <2>2. CASE pc["meta"] = "start"
    BY <1>5, <2>1, <2>2 DEF MetaPhases, MetaPc
  <2>3. CASE pc["meta"] = "entry"
    BY <1>5, <2>1, <2>3 DEF MetaPhases
  <2>4. CASE pc["meta"] = "ref"
    BY <1>5, <2>1, <2>4 DEF MetaPhases, MetaPc
  <2>5. CASE pc["meta"] = "goodbye"
    BY <1>5, <2>1, <2>5 DEF MetaPhases
  <2> QED
    BY <1>2, <2>2, <2>3, <2>4, <2>5
<1>7. /\ pc' = [pc EXCEPT !["meta"] = c] /\ pos' = [pos EXCEPT !["meta"] = q]
      /\ pc'["meta"] = c /\ pos'["meta"] = q /\ pc'["payload"] = pc["payload"] /\ pos'["payload"] = pos["payload"]
  BY <1>5, Consts DEF Moves, TypeEmit
<1>8. /\ outcome' = [outcome EXCEPT !["meta"] = IF c = "closed" THEN "ok" ELSE @]
      /\ outcome'["meta"] = (IF c = "closed" THEN "ok" ELSE "running") /\ outcome'["payload"] = outcome["payload"]
  <2>1. outcome["meta"] = "running"
    BY <1>2, Consts DEF Outcomes
  <2> QED
    BY <1>1, <1>7, <2>1, Consts DEF Completes, TypeEmit
<1>9. TypePlan' /\ TypeBound' /\ TypeOut'
  BY <1>1 DEF TypePlan, TypeBound, TypeOut
<1>10. TypeEmit'
  <2>1. pc' \in [Streams -> {"start", "entry", "get", "wait", "sleep", "ref", "goodbye", "inject", "open",
                             "header", "copy", "content", "tail", "fail", "closed"}]
    BY <1>6, <1>7 DEF TypeEmit
  <2>2. pos' \in [Streams -> 1 .. N + 1] /\ inPipe' \in [Streams -> BOOLEAN]
    BY <1>1, <1>6, <1>7 DEF TypeEmit
  <2>3. outcome' \in [Streams -> {"running", "ok", "error"}]
    BY <1>8 DEF TypeEmit
  <2> QED
    BY <2>1, <2>2, <2>3 DEF TypeEmit
<1>11. TypeRead'
  BY <1>1 DEF TypeRead
<1>12. at' = at
  BY <1>7 DEF at
<1>13. PlanFacts' /\ Ledger'
  BY <1>1, PlanKept, LedgerKept
<1>14. PayloadPhases' /\ Slots'
  BY <1>1, <1>7, <1>8, <1>12, PayloadKept
<1>15. Layout'
  BY <1>1, <1>7, <1>8, <1>12, BoundGrows, LayoutKept
<1>16. MetaPhases'
  BY <1>3, <1>6, <1>7, <1>8, Consts, Types DEF MetaPhases
<1>17. Outcomes'
  <2>1. ~inPipe'["meta"] /\ inPipe'["payload"] = inPipe["payload"]
    BY <1>1, Consts DEF TypeEmit
  <2> SUFFICES ASSUME NEW s \in Streams
               PROVE  /\ inPipe'[s] => pc'[s] \in Writes(s)
                      /\ pc'[s] = "fail" => outcome'[s] = "error"
                      /\ pc'[s] = "closed" => outcome'[s] # "running"
                      /\ pc'[s] \notin {"fail", "closed"} => outcome'[s] = "running"
    BY DEF Outcomes, Writes
  <2>2. CASE s = "payload"
    BY <1>7, <1>8, <2>1, <2>2 DEF Outcomes
  <2>3. CASE s = "meta"
    BY <1>6, <1>7, <1>8, <2>1, <2>3
  <2> QED
    BY <2>2, <2>3, Consts
<1>18. Returned'
  <2>1. \A s \in Streams : rpc'[s] = "ended" => rpc[s] = "ended"
    BY <1>1 DEF TypeRead
  <2>2. \A s \in Streams : pc[s] = "closed" => pc'[s] = "closed" /\ outcome'[s] = outcome[s]
    BY <1>2, <1>7, <1>8, Consts
  <2> QED
    BY <1>1, <2>1, <2>2, ReturnedKept
<1> QED
  BY <1>9, <1>10, <1>11, <1>13, <1>14, <1>15, <1>16, <1>17, <1>18

-----------------------------------------------------------------------------
\* Extending the layout.
LEMMA SkipType ==
  ASSUME TypeOK, PlanFacts, NEW i \in Files, Fixed(i)
  PROVE  Skip(i) \in Nat /\ Sz(i) \in Nat /\ plan[i].rel \in Nat
<1>1. plan[i] \in PlanEntries
  BY Types
<1>2. CASE plan[i].reuse
  <2>1. plan[i].to - plan[i].from \in Nat
    BY <1>1, <1>2 DEF PlanFacts, InSpan, PlanEntries, RecordLen, HeaderSize
  <2> QED
    BY <1>1, <1>2, <2>1 DEF Skip, SkipSpan, Sz, PlanEntries
<1>3. CASE ~plan[i].reuse
  BY <1>1, <1>3 DEF Fixed, Skip, SkipRecord, Sz, PlanEntries, HeaderSize
<1> QED
  BY <1>2, <1>3

\* The layout matters only as far as one of the emitters has got.
LEMMA Agrees ==
  ASSUME TypeOK, MetaPhases, NEW S \in [1 .. N + 1 -> Nat], NEW T \in [1 .. N + 1 -> Nat], LaysOut(S),
         \A j \in 1 .. N + 1 : j <= sent + 1 \/ j <= at => T[j] = S[j]
  PROVE  LaysOut(T)
<1>1. at \in 1 .. N + 1 /\ at \in Nat /\ sent \in Nat /\ sent <= N /\ N \in Nat
  BY Types, Consts DEF MetaPhases
<1>2. T[at] = S[at] /\ T[sent + 1] = S[sent + 1] /\ T[1] = S[1]
  BY <1>1
<1>3. Chain(T)
  <2> SUFFICES ASSUME NEW i \in Files, i <= sent \/ i < at PROVE Fixed(i) /\ T[i+1] = T[i] + Skip(i)
    BY <1>2 DEF LaysOut, Chain
  <2>0. i \in 1 .. N + 1 /\ i + 1 \in 1 .. N + 1 /\ i \in Nat
    BY Consts
  <2>1. (i + 1 <= sent + 1 \/ i + 1 <= at) /\ (i <= sent + 1 \/ i <= at)
    <3>1. at \in Nat /\ sent \in Nat
      BY <1>1
    <3> QED
      BY <2>0, <3>1
  <2>2. T[i+1] = S[i+1] /\ T[i] = S[i]
    BY <2>0, <2>1
  <2> QED
    BY <2>2 DEF LaysOut, Chain
<1>4. Written(T)
  <2> SUFFICES ASSUME NEW i \in Files, i < at PROVE WrittenAt(T, i)
    BY DEF Written
  <2>1. T[i] = S[i]
    BY <1>1, Consts
  <2>2. WrittenAt(S, i)
    BY DEF LaysOut, Written
  <2> QED
    BY <2>1, <2>2 DEF WrittenAt, Off
<1>5. Reached(T)
  BY <1>2 DEF LaysOut, Reached, HeaderOut
<1>6. Referred(T)
  <2> SUFFICES ASSUME NEW i \in 1 .. sent PROVE refs[i].offset = Off(T, i) /\ refs[i].size = Sz(i)
    BY <1>2 DEF LaysOut, Referred
  <2>1. T[i] = S[i]
    BY <1>1
  <2> QED
    BY <2>1 DEF LaysOut, Referred, Off
<1> QED
  BY <1>3, <1>4, <1>5, <1>6 DEF LaysOut

LEMMA Extends ==
  ASSUME TypeOK, PlanFacts, MetaPhases, Layout, NEW i \in Files, Fixed(i), i <= sent + 1 \/ i <= at
  PROVE  \E T \in [1 .. N + 1 -> Nat] : LaysOut(T) /\ T[i+1] = T[i] + Skip(i)
<1>1. PICK S \in [1 .. N + 1 -> Nat] : LaysOut(S)
  BY DEF Layout
<1>2. CASE i <= sent \/ i < at
  BY <1>1, <1>2 DEF LaysOut, Chain
<1>3. CASE ~(i <= sent \/ i < at)
  <2>1. PICK T : T = [S EXCEPT ![i+1] = S[i] + Skip(i)]
    OBVIOUS
  <2>2. i \in 1 .. N + 1 /\ i + 1 \in 1 .. N + 1 /\ i \in Nat /\ Skip(i) \in Nat /\ S[i] \in Nat
    BY Consts, SkipType
  <2>3. T \in [1 .. N + 1 -> Nat] /\ T[i+1] = S[i] + Skip(i) /\ T[i] = S[i]
    BY <2>1, <2>2
  <2>4. \A j \in 1 .. N + 1 : j <= sent + 1 \/ j <= at => T[j] = S[j]
    <3>1. ~(i + 1 <= sent + 1 \/ i + 1 <= at)
      BY <1>3, <2>2, Types
    <3> QED
      BY <2>1, <3>1
  <2>5. LaysOut(T)
    BY <1>1, <2>3, <2>4, Agrees
  <2> QED
    BY <2>3, <2>5
<1> QED
  BY <1>2, <1>3

LEMMA Refers ==
  ASSUME SplitInv, NEW i \in Files, i = sent + 1, Fixed(i), UNCHANGED <<plan, bound, pay>>, at' = at,
         pc'["payload"] = pc["payload"], outcome'["payload"] = outcome["payload"],
         NEW r, r = [offset |-> refOffset + plan[i].rel, size |-> Sz(i)],
         refs' = Append(refs, r), refOffset' = refOffset + Skip(i)
  PROVE  Layout' /\ TypeOut' /\ sent' = sent + 1
<1> USE DEF SplitInv, Control
<1>1. PICK T \in [1 .. N + 1 -> Nat] : LaysOut(T) /\ T[i+1] = T[i] + Skip(i)
  <2>1. i <= sent + 1
    BY Types
  <2> QED
    BY <2>1, Extends
<1>2. Skip(i) \in Nat /\ Sz(i) \in Nat /\ plan[i].rel \in Nat /\ sent \in Nat /\ refOffset \in Nat
  BY SkipType, Types DEF TypeOK, TypeOut
<1>3. r \in [offset : Nat, size : Nat] /\ r.offset = refOffset + plan[i].rel /\ r.size = Sz(i)
  BY <1>2
<1>4. refs \in Seq([offset : Nat, size : Nat]) /\ sent = Len(refs)
  BY DEF TypeOK, TypeOut, sent
<1>5. /\ refs' \in Seq([offset : Nat, size : Nat]) /\ Len(refs') = sent + 1 /\ refs'[sent + 1] = r
      /\ \A x \in 1 .. sent : refs'[x] = refs[x]
  BY <1>3, <1>4, AppendType, AppendAt
<1>6. TypeOut' /\ sent' = sent + 1
  BY <1>2, <1>5 DEF TypeOut, sent, TypeOK
<1>7. \A x \in Files : (Fixed(x)' <=> Fixed(x)) /\ Sz(x)' = Sz(x) /\ Skip(x)' = Skip(x) /\ Off(T, x)' = Off(T, x)
  BY DEF Fixed, Sz, Skip, Off
<1>8. Chain(T)'
  <2> SUFFICES ASSUME NEW x \in Files, x <= sent + 1 \/ x < at PROVE Fixed(x) /\ T[x+1] = T[x] + Skip(x)
    BY <1>1, <1>6, <1>7 DEF LaysOut, Chain
  <2>1. CASE x = i
    BY <1>1, <2>1
  <2>2. CASE x # i
    <3>1. x <= sent \/ x < at
      BY <1>2, <2>2, Consts
    <3> QED
      BY <1>1, <3>1 DEF LaysOut, Chain
  <2> QED
    BY <2>1, <2>2
<1>9. Written(T)'
  <2> SUFFICES ASSUME NEW x \in Files, x < at PROVE WrittenAt(T, x)'
    BY DEF Written
  <2>1. WrittenAt(T, x)
    BY <1>1 DEF LaysOut, Written
  <2> QED
    BY <1>7, <2>1 DEF WrittenAt
<1>10. Reached(T)'
  <2>1. HeaderOut(T) => HeaderOut(T)'
    BY <1>7 DEF HeaderOut
  <2> QED
    BY <1>1, <2>1 DEF LaysOut, Reached
<1>11. Referred(T)'
  <2>1. refOffset = T[i] /\ T[i] \in Nat /\ i \in Nat
    BY <1>1, Consts DEF LaysOut, Referred
  <2>2. refOffset' = T[sent' + 1]
    BY <1>1, <1>6, <2>1
  <2> SUFFICES ASSUME NEW x \in 1 .. sent + 1 PROVE refs'[x].offset = Off(T, x)' /\ refs'[x].size = Sz(x)'
    BY <1>6, <2>2 DEF Referred
  <2>3. CASE x = sent + 1
    <3>1. Off(T, x)' = T[i] + plan[i].rel /\ Sz(x)' = Sz(i)
      BY <1>7, <2>3 DEF Off
    <3> QED
      BY <1>3, <1>5, <2>1, <2>3, <3>1
  <2>4. CASE x # sent + 1
    <3>1. x \in 1 .. sent /\ x \in Files
      BY <1>2, <2>4, Consts DEF Files
    <3>2. refs[x].offset = Off(T, x) /\ refs[x].size = Sz(x)
      BY <1>1, <3>1 DEF LaysOut, Referred
    <3> QED
      BY <1>5, <1>7, <3>1, <3>2
  <2> QED
    BY <2>3, <2>4
<1>12. Layout'
  BY <1>8, <1>9, <1>10, <1>11 DEF Layout, LaysOut
<1> QED
  BY <1>6, <1>12

LEMMA NextRefKeeps ==
  ASSUME SplitInv, NextRef
  PROVE  SplitInv'
<1> USE DEF SplitInv, Control, TypeOK
<1>1. /\ UNCHANGED <<prev, changed, async, plan, canceled, userCanceled, sizes, lerr, watching, dpc, bound, delivered, handed, window, inPipe, pay, rpc, failed, ret>>
      /\ pc["meta"] = "get"
  BY DEF NextRef, planVars, ctxVars, dispVars, readVars
<1>2. PICK i : i = pos["meta"]
  OBVIOUS
<1>3. i \in Files /\ i = sent + 1 /\ i \in 1 .. N + 1
  BY <1>1, <1>2, Consts, Types DEF MetaPhases, TypeEmit, Files
<1>4. ~inPipe["meta"] /\ outcome["meta"] = "running"
  BY <1>1, Consts DEF Outcomes, Writes
<1>5. PlanFacts' /\ Ledger'
  BY <1>1, PlanKept, LedgerKept
<1>6. TypePlan' /\ TypeBound' /\ TypeRead'
  BY <1>1 DEF TypePlan, TypeBound, TypeRead
<1>7. ASSUME NEW c \in {"ref", "wait"}, Moves("meta", i, c), outcome' = outcome
      PROVE  /\ TypeEmit' /\ at' = at /\ pos'["meta"] = i /\ pc'["meta"] = c /\ pc'["payload"] = pc["payload"]
             /\ PayloadPhases' /\ Slots' /\ Returned'
  <2>1. /\ pc' = [pc EXCEPT !["meta"] = c] /\ pos' = [pos EXCEPT !["meta"] = i]
        /\ pc'["meta"] = c /\ pos'["meta"] = i /\ pc'["payload"] = pc["payload"] /\ pos'["payload"] = pos["payload"]
    BY <1>7, Consts DEF Moves, TypeEmit
  <2>2. TypeEmit'
    BY <1>1, <1>3, <1>7, <2>1 DEF TypeEmit
  <2>3. at' = at
    BY <2>1 DEF at
  <2>4. PayloadPhases' /\ Slots'
    BY <1>1, <1>7, <2>1, <2>3, PayloadKept
  <2>5. \A s \in Streams : pc[s] = "closed" => pc'[s] = "closed" /\ outcome'[s] = outcome[s]
    BY <1>1, <1>7, <2>1, Consts
  <2>6. Returned'
    BY <1>1, <2>5, ReturnedKept
  <2> QED
    BY <2>1, <2>2, <2>3, <2>4, <2>6
<1>8. ASSUME Fixed(i), refs' = Append(refs, [offset |-> refOffset + plan[i].rel, size |-> Sz(i)]),
             refOffset' = refOffset + Skip(i), Moves("meta", i, "ref"), outcome' = outcome
      PROVE  SplitInv'
  <2>1. /\ TypeEmit' /\ at' = at /\ pos'["meta"] = i /\ pc'["meta"] = "ref" /\ pc'["payload"] = pc["payload"]
        /\ PayloadPhases' /\ Slots' /\ Returned'
    BY <1>7, <1>8
  <2>2. Layout' /\ TypeOut' /\ sent' = sent + 1
    BY <1>1, <1>3, <1>8, <2>1, Refers
  <2>3. MetaPhases'
    BY <1>3, <1>4, <1>8, <2>1, <2>2, Consts, Types DEF MetaPhases
  <2>4. Outcomes'
    <3> SUFFICES ASSUME NEW s \in Streams
                 PROVE  /\ inPipe'[s] => pc'[s] \in Writes(s)
                        /\ pc'[s] = "fail" => outcome'[s] = "error"
                        /\ pc'[s] = "closed" => outcome'[s] # "running"
                        /\ pc'[s] \notin {"fail", "closed"} => outcome'[s] = "running"
      BY DEF Outcomes, Writes
    <3>1. CASE s = "payload"
      BY <1>1, <1>8, <2>1, <3>1 DEF Outcomes
    <3>2. CASE s = "meta"
      BY <1>1, <1>4, <1>8, <2>1, <3>2
    <3> QED
      BY <3>1, <3>2, Consts
  <2> QED
    BY <1>5, <1>6, <2>1, <2>2, <2>3, <2>4
<1>9. CASE /\ plan[i].reuse
           /\ refs' = Append(refs, [offset |-> refOffset + plan[i].rel, size |-> plan[i].size])
           /\ refOffset' = refOffset + SkipSpan(plan[i])
           /\ Moves("meta", i, "ref") /\ UNCHANGED outcome
  <2>1. Fixed(i) /\ Sz(i) = plan[i].size /\ Skip(i) = SkipSpan(plan[i])
    BY <1>9 DEF Fixed, Sz, Skip
  <2> QED
    BY <1>8, <1>9, <2>1
<1>10. CASE /\ ~plan[i].reuse /\ Len(sizes) >= plan[i].readSeq
            /\ refs' = Append(refs, [offset |-> refOffset, size |-> sizes[plan[i].readSeq]])
            /\ refOffset' = refOffset + SkipRecord(sizes[plan[i].readSeq])
            /\ Moves("meta", i, "ref") /\ UNCHANGED outcome
  <2>1. PICK q : q = plan[i].readSeq
    OBVIOUS
  <2>2. q \in Nat /\ q >= 1 /\ plan[i].rel = 0
    BY <1>3, <1>10, <2>1, CountType DEF PlanFacts
  <2>3. q \in 1 .. Len(sizes) /\ q \in 1 .. Len(bound)
    BY <1>10, <2>1, <2>2, Types DEF Ledger
  <2>4. sizes[q] = bound[q] /\ bound[q] \in Nat
    BY <2>3, Types DEF Ledger
  <2>5. Fixed(i) /\ Sz(i) = sizes[q] /\ Skip(i) = SkipRecord(sizes[q])
    BY <1>10, <2>1, <2>3, <2>4 DEF Fixed, Sz, Skip
  <2>6. refOffset + plan[i].rel = refOffset
    BY <2>2 DEF TypeOut
  <2> QED
    BY <1>8, <1>10, <2>1, <2>5, <2>6
<1>11. CASE EmitterFails("meta") /\ UNCHANGED <<refs, refOffset>>
  <2>1. UNCHANGED <<planVars, ctxVars, sizes, lerr, watching, dispVars, refOffset, refs, pay, rpc, readVars>>
    BY <1>1, <1>11 DEF planVars, ctxVars, dispVars, readVars
  <2>2. window' \in 0 .. Window /\ (~async => window' = 0) /\ window' = window
    BY <1>1 DEF TypeBound, Slots
  <2>3. /\ inPipe' \in [Streams -> BOOLEAN] /\ ~inPipe'["meta"] /\ pc["meta"] \notin {"fail", "closed"}
        /\ \A t \in Streams : t # "meta" => inPipe'[t] = inPipe[t]
    BY <1>1, <1>4 DEF TypeEmit
  <2> QED
    BY <1>11, <2>1, <2>2, <2>3, Consts, FailsKeep
<1>12. CASE Moves("meta", i, "wait") /\ UNCHANGED <<outcome, refs, refOffset>>
  <2>1. /\ TypeEmit' /\ at' = at /\ pos'["meta"] = i /\ pc'["meta"] = "wait" /\ pc'["payload"] = pc["payload"]
        /\ PayloadPhases' /\ Slots' /\ Returned'
    BY <1>7, <1>12
  <2>2. Outcomes' /\ MetaPhases'
    BY <1>1, <1>2, <1>12, <2>1, MetaTurns
  <2>3. Layout' /\ TypeOut'
    BY <1>1, <1>12, <2>1, BoundGrows, LayoutKept DEF TypeOut
  <2> QED
    BY <1>5, <1>6, <2>1, <2>2, <2>3
<1> QED
  BY <1>2, <1>9, <1>10, <1>11, <1>12 DEF NextRef

-----------------------------------------------------------------------------
\* Where the payload emitter goes next.
LEMMA EntryAfter ==
  ASSUME TypeOK, NEW i \in 1 .. N + 1, NEW q, q = NextEntry(i)
  PROVE  /\ q \in i .. N + 1 /\ q \in 1 .. N + 1
         /\ q <= N => ~plan[q].reuse \/ plan[q].head
         /\ \A x \in i .. q - 1 : x \in Files /\ plan[x].reuse /\ ~plan[x].head
<1>1. PICK T : T = {x \in i .. N : ~plan[x].reuse \/ plan[x].head} \union {N + 1}
  OBVIOUS
<1>2. N \in Nat /\ i \in Nat /\ i >= 1 /\ i <= N + 1
  BY Consts
<1>3. T \subseteq Nat /\ T # {}
  BY <1>1, <1>2
<1>4. q \in T /\ \A y \in T : q <= y
  BY <1>1, <1>3, MinNat DEF NextEntry
<1>5. q \in i .. N + 1 /\ q \in 1 .. N + 1
  BY <1>1, <1>2, <1>4
<1>6. q <= N => ~plan[q].reuse \/ plan[q].head
  BY <1>1, <1>2, <1>4
<1>7. ASSUME NEW x \in i .. q - 1 PROVE x \in Files /\ plan[x].reuse /\ ~plan[x].head
  <2>1. x \in i .. N /\ ~(q <= x)
    BY <1>2, <1>5
  <2>2. x \notin T
    BY <1>4, <2>1
  <2> QED
    BY <1>1, <1>2, <2>1, <2>2 DEF Files
<1> QED
  BY <1>5, <1>6, <1>7

\* Behind a file that is read comes the next file of the plan, and the stream begins with the
\* first: both are the start of a run or read.
LEMMA EntryAfterRead ==
  ASSUME TypeOK, PlanFacts, NEW i \in 1 .. N + 1, i = 1 \/ (i - 1 \in Files /\ ~plan[i-1].reuse)
  PROVE  NextEntry(i) = i
<1>1. PICK q : q = NextEntry(i)
  OBVIOUS
<1>2. q \in i .. N + 1 /\ \A x \in i .. q - 1 : x \in Files /\ plan[x].reuse /\ ~plan[x].head
  BY <1>1, EntryAfter
<1>3. ASSUME q # i PROVE FALSE
  <2>1. i \in i .. q - 1
    BY <1>2, <1>3
  <2>2. FollowsInRun(i)
    BY <1>2, <2>1 DEF PlanFacts
  <2> QED
    BY <2>2 DEF FollowsInRun
<1> QED
  BY <1>1, <1>3

\* The entries up to the next one are those of the run, and share its span.
LEMMA RunEntries ==
  ASSUME TypeOK, PlanFacts, NEW i \in Files, plan[i].reuse, NEW q, q = NextEntry(i + 1)
  PROVE  /\ q \in i + 1 .. N + 1
         /\ \A x \in i .. q - 1 : /\ x \in Files /\ plan[x].reuse
                                  /\ plan[x].from = plan[i].from /\ plan[x].to = plan[i].to
         /\ \A x \in i .. q - 2 : ~plan[x].last
         /\ plan[q - 1].last
<1>0. N \in Nat /\ i \in Nat /\ i >= 1 /\ i <= N /\ i + 1 \in 1 .. N + 1
  BY Consts
<1>1. /\ q \in i + 1 .. N + 1 /\ q \in Int
      /\ q <= N => ~plan[q].reuse \/ plan[q].head
      /\ \A x \in i + 1 .. q - 1 : x \in Files /\ plan[x].reuse /\ ~plan[x].head
  BY <1>0, EntryAfter
<1>2. \A x \in i .. q - 1 : x \in Files /\ plan[x].reuse
  <2> SUFFICES ASSUME NEW x \in i .. q - 1 PROVE x \in Files /\ plan[x].reuse
    OBVIOUS
  <2>1. x = i \/ x \in i + 1 .. q - 1
    BY <1>0, <1>1
  <2> QED
    BY <1>1, <2>1
<1>3. ASSUME NEW x \in i .. q - 2
      PROVE  /\ ~plan[x].last /\ x \in Files /\ x + 1 \in Files
             /\ plan[x].from = plan[x + 1].from /\ plan[x].to = plan[x + 1].to
  <2>1. x + 1 \in i + 1 .. q - 1 /\ (x + 1) - 1 = x /\ x \in i .. q - 1
    BY <1>0, <1>1
  <2>2. FollowsInRun(x + 1)
    BY <1>1, <2>1 DEF PlanFacts
  <2> QED
    BY <1>1, <1>2, <2>1, <2>2 DEF FollowsInRun
<1>4. \A x \in i .. q - 1 : plan[x].from = plan[i].from
  <2>1. PICK f : f = [x \in Files |-> plan[x].from]
    OBVIOUS
  <2>2. \A x \in Files : f[x] = plan[x].from
    BY <2>1
  <2>3. \A x \in i .. (q - 1) - 1 : f[x] = f[x + 1]
    <3>1. (q - 1) - 1 = q - 2
      BY <1>1
    <3> QED
      BY <1>3, <2>2, <3>1
  <2>4. q - 1 \in Int
    BY <1>1
  <2>5. \A x \in i .. q - 1 : f[x] = f[i]
    BY <1>0, <2>3, <2>4, Steady
  <2> QED
    BY <1>2, <2>2, <2>5
<1>5. \A x \in i .. q - 1 : plan[x].to = plan[i].to
  <2>1. PICK f : f = [x \in Files |-> plan[x].to]
    OBVIOUS
  <2>2. \A x \in Files : f[x] = plan[x].to
    BY <2>1
  <2>3. \A x \in i .. (q - 1) - 1 : f[x] = f[x + 1]
    <3>1. (q - 1) - 1 = q - 2
      BY <1>1
    <3> QED
      BY <1>3, <2>2, <3>1
  <2>4. q - 1 \in Int
    BY <1>1
  <2>5. \A x \in i .. q - 1 : f[x] = f[i]
    BY <1>0, <2>3, <2>4, Steady
  <2> QED
    BY <1>2, <2>2, <2>5
<1>6. plan[q - 1].last
  <2>1. q - 1 \in i .. q - 1 /\ (q - 1) + 1 = q
    BY <1>0, <1>1
  <2>2. q - 1 \in Files /\ plan[q - 1].reuse
    BY <1>2, <2>1
  <2>3. ASSUME ~plan[q - 1].last PROVE FALSE
    <3>1. q - 1 < N /\ plan[q].reuse /\ ~plan[q].head
      BY <2>1, <2>2, <2>3 DEF PlanFacts
    <3>2. q <= N
      BY <1>0, <1>1, <3>1
    <3> QED
      BY <1>1, <3>1, <3>2
  <2> QED
    BY <2>3
<1> QED
  BY <1>1, <1>2, <1>3, <1>4, <1>5, <1>6

LEMMA CountOver ==
  ASSUME TypeOK, NEW i \in 1 .. N + 1, NEW q \in i .. N + 1, \A x \in i .. q - 1 : plan[x].reuse
  PROVE  ReadsBefore(q) = ReadsBefore(i)
<1>1. \A x \in 1 .. q - 1 : x \in 1 .. i - 1 \/ x \in i .. q - 1
  BY Consts
<1>2. \A x \in 1 .. i - 1 : x \in 1 .. q - 1
  BY Consts
<1> QED
  BY <1>1, <1>2 DEF ReadsBefore

LEMMA CountRead ==
  ASSUME TypeOK, NEW i \in Files, ~plan[i].reuse
  PROVE  Cardinality(ReadsBefore(i + 1)) = Cardinality(ReadsBefore(i)) + 1
<1>1. i \in Nat /\ i >= 1 /\ i \in 1 .. N + 1 /\ (i + 1) - 1 = i
  BY Consts
<1>2. \A x : x \in 1 .. (i + 1) - 1 <=> x \in 1 .. i - 1 \/ x = i
  BY <1>1
<1>3. ReadsBefore(i + 1) = ReadsBefore(i) \union {i}
  BY <1>2 DEF ReadsBefore
<1>4. i \notin ReadsBefore(i)
  BY <1>1 DEF ReadsBefore
<1>5. IsFiniteSet(ReadsBefore(i))
  BY <1>1, CountType
<1> QED
  BY <1>3, <1>4, <1>5, FS_AddElement

-----------------------------------------------------------------------------
\* What is written.
Units == Nat \X Nat \X Nat

LEMMA RecordUnits ==
  ASSUME NEW i \in Nat, NEW b \in Nat
  PROVE  /\ Record(i, b) \in Seq(Units) /\ Len(Record(i, b)) = b + 1 /\ Record(i, b)[1] = <<i, 0, b>>
         /\ Tail(Record(i, b)) \in Seq(Units) /\ Len(Tail(Record(i, b))) = b
         /\ \A k \in 1 .. b : Tail(Record(i, b))[k] = <<i, k, b>>
<1>1. PICK r : r = Record(i, b)
  OBVIOUS
<1>2. r = [k \in 1 .. b + 1 |-> <<i, k - 1, b>>]
  <2>1. RecordLen(b) = b + 1
    BY DEF RecordLen, HeaderSize
  <2> QED
    BY <1>1, <2>1 DEF Record
<1>3. \A k \in 1 .. b + 1 : <<i, k - 1, b>> \in Units
  BY DEF Units
<1>4. r \in [1 .. b + 1 -> Units] /\ b + 1 \in Nat
  BY <1>2, <1>3
<1>5. r \in Seq(Units) /\ Len(r) = b + 1
  BY <1>4, SequenceOf
<1>6. r[1] = <<i, 0, b>>
  BY <1>2
<1>7. r # <<>>
  BY <1>5, EmptyLen
<1>8. PICK t : t = Tail(r)
  OBVIOUS
<1>9. t \in Seq(Units) /\ Len(t) = b /\ \A k \in 1 .. Len(t) : k + 1 \in 1 .. Len(r) /\ t[k] = r[k + 1]
  BY <1>5, <1>7, <1>8, HeadTailType, TailAt
<1>10. ASSUME NEW k \in 1 .. b PROVE t[k] = <<i, k, b>>
  <2>1. k + 1 \in 1 .. b + 1 /\ (k + 1) - 1 = k /\ t[k] = r[k + 1]
    BY <1>9
  <2> QED
    BY <1>2, <2>1
<1> QED
  BY <1>1, <1>5, <1>6, <1>8, <1>9, <1>10

\* A unit of the previous stream that belongs to the record of x.
LEMMA PreviousRecord ==
  ASSUME TypeOK, NEW x \in Files, prev.off[x] # -1, NEW k \in 0 .. prev.size[x]
  PROVE  PreviousUnit(prev.off[x] + k) = <<x, k, prev.size[x]>>
<1>1. PICK L \in Layouts : L = prev
  BY DEF TypeOK, TypePlan
<1>2. /\ L.off \in [Files -> Nat \union {-1}] /\ L.size \in [Files -> Nat]
      /\ \A f, g \in Files : f # g /\ L.off[f] >= 0 /\ L.off[g] >= L.off[f] =>
           L.off[g] >= L.off[f] + HeaderSize + L.size[f]
  BY LayoutTypes
<1>3. PICK u : u = L.off[x] + k
  OBVIOUS
<1>4. L.off[x] \in Nat /\ L.size[x] \in Nat /\ k \in Nat /\ k <= L.size[x] /\ u \in Nat /\ u - L.off[x] = k
  BY <1>1, <1>2, <1>3
<1>5. PICK F : F = {f \in Files : prev.off[f] # -1 /\ u \in prev.off[f] .. prev.off[f] + prev.size[f]}
  OBVIOUS
<1>6. x \in F
  BY <1>1, <1>3, <1>4, <1>5
<1>7. ASSUME NEW f \in F, f # x PROVE FALSE
  <2>1. f \in Files /\ L.off[f] \in Nat /\ L.size[f] \in Nat /\ L.off[f] <= u /\ u <= L.off[f] + L.size[f]
    BY <1>1, <1>2, <1>4, <1>5
  <2>2. CASE L.off[f] >= L.off[x]
    <3>1. L.off[f] >= L.off[x] + HeaderSize + L.size[x]
      BY <1>2, <1>4, <1>7, <2>1, <2>2
    <3> QED
      BY <1>3, <1>4, <2>1, <3>1 DEF HeaderSize
  <2>3. CASE L.off[x] >= L.off[f]
    <3>1. L.off[x] >= L.off[f] + HeaderSize + L.size[f]
      BY <1>2, <1>4, <1>7, <2>1, <2>3
    <3> QED
      BY <1>3, <1>4, <2>1, <3>1 DEF HeaderSize
  <2> QED
    BY <1>4, <2>1, <2>2, <2>3
<1>8. F # {} /\ (CHOOSE g \in F : TRUE) = x
  BY <1>6, <1>7
<1>9. PreviousUnit(u) = <<x, u - prev.off[x], prev.size[x]>>
  BY <1>5, <1>8 DEF PreviousUnit
<1> QED
  BY <1>1, <1>3, <1>4, <1>9

LEMMA InjectedUnits ==
  ASSUME TypeOK, PlanFacts, NEW i \in Files, plan[i].reuse, NEW n, n = plan[i].to - plan[i].from
  PROVE  /\ n \in Nat /\ Injected(plan[i]) \in Seq(Units) /\ Len(Injected(plan[i])) = n
         /\ \A x \in Files : \A k \in 0 .. plan[x].size :
              plan[x].reuse /\ plan[x].from = plan[i].from /\ plan[x].to = plan[i].to =>
                /\ plan[x].rel + k + 1 \in 1 .. n
                /\ Injected(plan[i])[plan[x].rel + k + 1] = <<x, k, plan[x].size>>
<1>1. plan[i] \in PlanEntries
  BY Types
<1>2. plan[i].to \in Nat /\ plan[i].from \in Nat /\ n \in Nat
  <2>1. InSpan(i)
    BY DEF PlanFacts
  <2> QED
    BY <1>1, <2>1 DEF PlanEntries, InSpan, RecordLen, HeaderSize
<1>3. PICK f : f = Injected(plan[i])
  OBVIOUS
<1>4. f = [k \in 1 .. n |-> PreviousUnit(plan[i].from + k - 1)]
  BY <1>3 DEF Injected
<1>5. ASSUME NEW u \in Nat PROVE PreviousUnit(u) \in Units
  <2>1. PICK F : F = {g \in Files : prev.off[g] # -1 /\ u \in prev.off[g] .. prev.off[g] + prev.size[g]}
    OBVIOUS
  <2>2. CASE F = {}
    BY <2>1, <2>2 DEF PreviousUnit, Other, Units
  <2>3. CASE F # {}
    <3>1. PICK g : g = CHOOSE h \in F : TRUE
      OBVIOUS
    <3>2. g \in F
      BY <2>3, <3>1
    <3>3. prev \in Layouts
      BY DEF TypeOK, TypePlan
    <3>4. g \in Nat /\ u - prev.off[g] \in Nat /\ prev.size[g] \in Nat
      BY <2>1, <3>2, <3>3, LayoutTypes, Consts
    <3>5. PreviousUnit(u) = <<g, u - prev.off[g], prev.size[g]>>
      BY <2>1, <2>3, <3>1 DEF PreviousUnit
    <3> QED
      BY <3>4, <3>5 DEF Units
  <2> QED
    BY <2>2, <2>3
<1>6. \A k \in 1 .. n : plan[i].from + k - 1 \in Nat
  BY <1>2
<1>7. f \in [1 .. n -> Units]
  BY <1>4, <1>5, <1>6
<1>8. f \in Seq(Units) /\ Len(f) = n
  BY <1>2, <1>7, SequenceOf
<1>9. ASSUME NEW x \in Files, NEW k \in 0 .. plan[x].size,
             plan[x].reuse, plan[x].from = plan[i].from, plan[x].to = plan[i].to
      PROVE  plan[x].rel + k + 1 \in 1 .. n /\ f[plan[x].rel + k + 1] = <<x, k, plan[x].size>>
  <2>1. plan[x] \in PlanEntries /\ InSpan(x)
    BY <1>9, Types DEF PlanFacts
  <2>2. plan[x].rel \in Nat /\ plan[x].size \in Nat /\ k \in Nat /\ k <= plan[x].size
    BY <2>1 DEF PlanEntries
  <2>3. prev.off[x] # -1 /\ plan[x].size = prev.size[x] /\ plan[i].from + plan[x].rel = prev.off[x]
        /\ plan[x].rel + 1 + plan[x].size <= n
    BY <1>9, <2>1, <2>2 DEF InSpan, RecordLen, HeaderSize
  <2>4. plan[x].rel + k + 1 \in 1 .. n
    BY <1>2, <2>2, <2>3
  <2>5. plan[i].from + (plan[x].rel + k + 1) - 1 = prev.off[x] + k
    BY <1>2, <2>2, <2>3
  <2>6. f[plan[x].rel + k + 1] = PreviousUnit(prev.off[x] + k)
    BY <1>4, <2>4, <2>5
  <2>7. PreviousUnit(prev.off[x] + k) = <<x, k, prev.size[x]>>
    BY <2>3, PreviousRecord
  <2> QED
    BY <2>3, <2>4, <2>6, <2>7
<1> QED
  BY <1>2, <1>3, <1>8, <1>9

-----------------------------------------------------------------------------
LEMMA NotLast ==
  ASSUME NEW a \in Int, NEW b \in Int, NEW x \in a .. b - 1, x # b - 1
  PROVE  x \in a .. b - 2 /\ x + 1 \in a .. b - 1
  OBVIOUS

\* The layout of a whole run, fixed at its head.
LEMMA RunExtends ==
  ASSUME TypeOK, PlanFacts, MetaPhases, Layout, NEW i \in Files, i = at, plan[i].reuse,
         NEW q, q = NextEntry(i + 1), NEW n, n = plan[i].to - plan[i].from
  PROVE  \E T \in [1 .. N + 1 -> Nat] :
           /\ LaysOut(T) /\ T[q] = T[i] + n
           /\ \A x \in i .. q - 1 : T[x] = T[i] /\ T[x+1] = T[x] + Skip(x)
<1>0. N \in Nat /\ i \in Nat /\ i >= 1 /\ i <= N /\ i \in 1 .. N + 1 /\ sent \in Nat /\ n \in Nat
  BY Consts, Types, InjectedUnits
<1>1. /\ q \in i + 1 .. N + 1 /\ q \in Int
      /\ \A x \in i .. q - 1 : x \in Files /\ plan[x].reuse /\ plan[x].from = plan[i].from /\ plan[x].to = plan[i].to
      /\ \A x \in i .. q - 2 : ~plan[x].last
      /\ plan[q - 1].last
  BY RunEntries
<1>a. i \in Int /\ q \in Int /\ N \in Int /\ 1 <= i /\ i + 1 <= q /\ q <= N + 1
  <2>1. q \in i + 1 .. N + 1 /\ q \in Int
    BY <1>1
  <2> QED
    BY <1>0, <2>1
<1>2. \A x \in i .. q - 2 : Skip(x) = 0
  <2> SUFFICES ASSUME NEW x \in i .. q - 2 PROVE Skip(x) = 0
    OBVIOUS
  <2>1. x \in i .. q - 1
    BY <1>0, <1>1
  <2> QED
    BY <1>1, <2>1 DEF Skip, SkipSpan
<1>3. Skip(q - 1) = n
  <2>1. q - 1 \in i .. q - 1
    BY <1>0, <1>1
  <2> QED
    BY <1>1, <2>1 DEF Skip, SkipSpan
<1>4. PICK S \in [1 .. N + 1 -> Nat] : LaysOut(S)
  BY DEF Layout
<1>5. PICK T : T = [j \in 1 .. N + 1 |-> IF j \in i + 1 .. q - 1 THEN S[i] ELSE IF j = q THEN S[i] + n ELSE S[j]]
  OBVIOUS
<1>6. T \in [1 .. N + 1 -> Nat]
  BY <1>0, <1>5
<1>7. \A x \in i .. q - 1 : T[x] = S[i]
  <2> SUFFICES ASSUME NEW x \in i .. q - 1 PROVE T[x] = S[i]
    OBVIOUS
  <2>1. x \in 1 .. N + 1 /\ (x = i \/ x \in i + 1 .. q - 1) /\ x # q
    BY <1>a
  <2> QED
    BY <1>5, <2>1
<1>8. T[q] = S[i] + n /\ T[i] = S[i]
  <2>1. q \in 1 .. N + 1 /\ q \notin i + 1 .. q - 1 /\ i \in i .. q - 1
    BY <1>a
  <2> QED
    BY <1>5, <1>7, <2>1
<1>9. \A j \in 1 .. N + 1 : j <= sent + 1 \/ j <= at => T[j] = S[j]
  <2> SUFFICES ASSUME NEW j \in 1 .. N + 1, j <= sent + 1 \/ j <= at PROVE T[j] = S[j]
    OBVIOUS
  <2>1. CASE j \notin i + 1 .. q
    <3>1. j \notin i + 1 .. q - 1 /\ j # q
      BY <1>a, <2>1
    <3> QED
      BY <1>5, <3>1
  <2>2. CASE j \in i + 1 .. q
    <3>1. j <= sent + 1 /\ j - 1 \in Int
      BY <1>0, <2>2
    <3>2. ASSUME NEW x \in i .. j - 1 PROVE S[x+1] = S[x] + Skip(x) /\ S[x] \in Nat
      <4>1. x \in i .. q - 1 /\ x <= sent
        BY <1>0, <1>1, <2>2, <3>1
      <4>2. x \in Files
        BY <1>1, <4>1
      <4> QED
        BY <1>4, <4>1, <4>2, Consts DEF LaysOut, Chain
    <3>3. ASSUME NEW y \in i .. q - 1, y <= j PROVE S[y] = S[i]
      <4>1. \A x \in i .. y - 1 : S[x] = S[x + 1]
        <5> SUFFICES ASSUME NEW x \in i .. y - 1 PROVE S[x] = S[x + 1]
          OBVIOUS
        <5>1. x \in i .. j - 1 /\ x \in i .. q - 2
          BY <1>0, <1>1, <3>3
        <5> QED
          BY <1>2, <3>2, <5>1
      <4>2. y \in Int /\ y \in i .. y
        BY <1>0, <1>1
      <4> QED
        BY <1>0, <4>1, <4>2, Steady
    <3>4. CASE j = q
      <4>0. q \in Int /\ i + 1 <= q
        BY <1>0, <1>1
      <4>1. q - 1 \in i .. q - 1 /\ q - 1 <= j /\ q - 1 \in i .. j - 1 /\ (q - 1) + 1 = q
        BY <1>0, <3>4, <4>0
      <4>2. S[q - 1] = S[i]
        BY <3>3, <4>1
      <4>3. S[(q - 1) + 1] = S[q - 1] + Skip(q - 1)
        BY <3>2, <4>1
      <4> QED
        BY <1>3, <1>8, <3>4, <4>1, <4>2, <4>3
    <3>5. CASE j # q
      <4>1. j \in i .. q - 1 /\ j <= j
        BY <1>0, <1>1, <2>2, <3>5
      <4> QED
        BY <1>7, <3>3, <4>1
    <3> QED
      BY <3>4, <3>5
  <2> QED
    BY <2>1, <2>2
<1>10. LaysOut(T)
  BY <1>4, <1>6, <1>9, Agrees
<1>11. ASSUME NEW x \in i .. q - 1 PROVE T[x] = T[i] /\ T[x+1] = T[x] + Skip(x)
  <2>1. S[i] \in Nat
    BY <1>0
  <2>2. CASE x = q - 1
    <3>1. x + 1 = q
      BY <1>1, <2>2
    <3> QED
      BY <1>3, <1>7, <1>8, <2>2, <3>1
  <2>3. CASE x # q - 1
    <3>1. x \in i .. q - 2 /\ x + 1 \in i .. q - 1
      BY <1>a, <2>3, NotLast
    <3> QED
      BY <1>2, <1>7, <1>8, <2>1, <3>1
  <2> QED
    BY <2>2, <2>3
<1> QED
  BY <1>6, <1>8, <1>10, <1>11

\* A record that is there stays when the stream grows.
Grows == Len(pay') >= Len(pay) /\ \A u \in 1 .. Len(pay) : pay'[u] = pay[u]

LEMMA WrittenKept ==
  ASSUME TypeOK, TypeOut', PlanFacts, Grows, UNCHANGED <<plan, bound>>, NEW i \in Files, Fixed(i),
         NEW S \in [1 .. N + 1 -> Nat], WrittenAt(S, i)
  PROVE  WrittenAt(S, i)'
<1>1. Sz(i)' = Sz(i) /\ Off(S, i)' = Off(S, i)
  BY DEF Sz, Off
<1>2. Sz(i) \in Nat /\ plan[i].rel \in Nat /\ S[i] \in Nat
  BY SkipType, Consts
<1>3. Off(S, i) \in Nat /\ Len(pay) \in Nat /\ Len(pay') \in Nat
  <2>1. Off(S, i) \in Nat
    BY <1>2 DEF Off
  <2>2. Len(pay') \in Nat
    BY DEF TypeOut
  <2> QED
    BY <2>1, <2>2, Types
<1>4. Off(S, i) + RecordLen(Sz(i)) <= Len(pay')
  BY <1>2, <1>3 DEF WrittenAt, Grows, RecordLen, HeaderSize
<1>5. ASSUME NEW k \in 0 .. Sz(i) PROVE pay'[Off(S, i) + k + 1] = <<i, k, Sz(i)>>
  <2>1. Off(S, i) + k + 1 \in 1 .. Len(pay)
    BY <1>2, <1>3 DEF WrittenAt, RecordLen, HeaderSize
  <2> QED
    BY <2>1 DEF WrittenAt, Grows
<1> QED
  BY <1>1, <1>4, <1>5 DEF WrittenAt

\* The payload emitter moves on to entry q.
LEMMA Progress ==
  ASSUME TypeOK, TypeOut', PlanFacts, Grows, UNCHANGED <<plan, bound, refs, refOffset>>,
         at' \in 1 .. N + 1, at' >= at, NEW T \in [1 .. N + 1 -> Nat], LaysOut(T), Reached(T)',
         \A x \in Files : at <= x /\ x < at' => Fixed(x) /\ T[x+1] = T[x] + Skip(x) /\ WrittenAt(T, x)',
         MetaPhases
  PROVE  Layout'
<1>1. \A x \in Files : (Fixed(x)' <=> Fixed(x)) /\ Sz(x)' = Sz(x) /\ Skip(x)' = Skip(x) /\ Off(T, x)' = Off(T, x)
  BY DEF Fixed, Sz, Skip, Off
<1>2. sent' = sent /\ at \in Nat /\ at' \in Nat /\ sent \in Nat /\ sent <= N
  BY Types, Consts DEF sent, MetaPhases
<1>3. \A x \in Files : x < at' => x < at \/ (at <= x /\ x < at')
  BY <1>2, Consts
<1>4. Chain(T)'
  <2> SUFFICES ASSUME NEW x \in Files, x <= sent \/ x < at' PROVE Fixed(x) /\ T[x+1] = T[x] + Skip(x)
    BY <1>1, <1>2 DEF LaysOut, Chain
  <2> QED
    BY <1>3 DEF LaysOut, Chain
<1>5. Written(T)'
  <2> SUFFICES ASSUME NEW x \in Files, x < at' PROVE WrittenAt(T, x)'
    BY DEF Written
  <2>1. CASE x < at
    <3>1. Fixed(x) /\ WrittenAt(T, x)
      BY <2>1 DEF LaysOut, Chain, Written
    <3> QED
      BY <3>1, WrittenKept
  <2> QED
    BY <1>3, <2>1
<1>6. Referred(T)'
  <2>1. \A x \in 1 .. sent : x \in Files
    BY <1>2, Consts DEF Files
  <2> QED
    BY <1>1, <1>2, <2>1 DEF LaysOut, Referred
<1> QED
  BY <1>4, <1>5, <1>6 DEF Layout, LaysOut

-----------------------------------------------------------------------------
\* The payload emitter: what a step that does not fail does to the control state.
LEMMA PayloadStep ==
  ASSUME SplitInv, NEW q \in 1 .. N + 1, NEW c \in {"inject", "open", "header", "copy", "content", "tail", "closed"},
         pc' \in [Streams -> {"start", "entry", "get", "wait", "sleep", "ref", "goodbye", "inject", "open",
                              "header", "copy", "content", "tail", "fail", "closed"}],
         pc'["payload"] = c, pc'["meta"] = pc["meta"] \/ (pc["meta"] = "sleep" /\ pc'["meta"] = "get"),
         pos' = [pos EXCEPT !["payload"] = q], pc["payload"] \notin {"fail", "closed"},
         inPipe' \in [Streams -> BOOLEAN], ~inPipe'["payload"], inPipe'["meta"] = inPipe["meta"],
         outcome' = [outcome EXCEPT !["payload"] = IF c = "closed" THEN "ok" ELSE @],
         \A s \in Streams : rpc'[s] = "ended" => rpc[s] = "ended",
         UNCHANGED <<prev, plan, refs, failed, ret>>
  PROVE  /\ TypeEmit' /\ PlanFacts' /\ Outcomes' /\ MetaPhases' /\ Returned' /\ at' = q
         /\ outcome'["payload"] = (IF c = "closed" THEN "ok" ELSE "running")
<1> USE DEF SplitInv, Control, TypeOK
<1>1. outcome["payload"] = "running"
  BY Consts DEF Outcomes
<1>2. /\ pos'["payload"] = q /\ pos'["meta"] = pos["meta"]
      /\ outcome'["payload"] = (IF c = "closed" THEN "ok" ELSE "running") /\ outcome'["meta"] = outcome["meta"]
  BY <1>1, Consts DEF TypeEmit
<1>3. TypeEmit'
  <2>1. pos' \in [Streams -> 1 .. N + 1]
    BY DEF TypeEmit
  <2>2. outcome' \in [Streams -> {"running", "ok", "error"}]
    BY DEF TypeEmit
  <2> QED
    BY <2>1, <2>2 DEF TypeEmit
<1>4. PlanFacts'
  BY PlanKept
<1>5. at' = q /\ sent' = sent
  BY <1>2 DEF at, sent
<1>6. MetaPhases'
  BY <1>2, <1>5 DEF MetaPhases
<1>7. Outcomes'
  <2> SUFFICES ASSUME NEW s \in Streams
               PROVE  /\ inPipe'[s] => pc'[s] \in Writes(s)
                      /\ pc'[s] = "fail" => outcome'[s] = "error"
                      /\ pc'[s] = "closed" => outcome'[s] # "running"
                      /\ pc'[s] \notin {"fail", "closed"} => outcome'[s] = "running"
    BY DEF Outcomes, Writes
  <2>1. CASE s = "payload"
    BY <1>2, <2>1
  <2>2. CASE s = "meta"
    BY <1>2, <2>2, Consts DEF Outcomes, Writes
  <2> QED
    BY <2>1, <2>2, Consts
<1>8. Returned'
  <2>1. \A s \in Streams : pc[s] = "closed" => pc'[s] = "closed" /\ outcome'[s] = outcome[s]
    BY <1>2, Consts
  <2> QED
    BY <2>1, ReturnedKept
<1> QED
  BY <1>2, <1>3, <1>4, <1>5, <1>6, <1>7, <1>8

\* Advance: the phase at the entry it arrives at.
LEMMA Arrives ==
  ASSUME TypeOK, NEW i \in 1 .. N + 1, NEW q, q = NextEntry(i)
  PROVE  /\ q \in 1 .. N + 1 /\ q >= i /\ PayloadPc(q) \in {"inject", "open", "tail"}
         /\ PayloadPc(q) = "inject" => q \in Files /\ plan[q].reuse /\ plan[q].head
         /\ PayloadPc(q) = "open" => q \in Files /\ ~plan[q].reuse
         /\ PayloadPc(q) = "tail" => q = N + 1
<1>1. /\ q \in i .. N + 1 /\ q \in 1 .. N + 1 /\ N \in Nat /\ q \in Int /\ i \in Int
      /\ q <= N => ~plan[q].reuse \/ plan[q].head
  BY EntryAfter, Consts
<1>2. CASE q > N
  BY <1>1, <1>2 DEF PayloadPc
<1>3. CASE ~(q > N)
  <2>1. q \in Files
    BY <1>1, <1>3 DEF Files
  <2> QED
    BY <1>1, <1>3, <2>1 DEF PayloadPc
<1> QED
  BY <1>2, <1>3

\* The content of entry i is complete: the slot goes back and the emitter moves to i + 1.
LEMMA Releases ==
  ASSUME SplitInv, pc["payload"] \in {"copy", "content"}, NEW i, i = at, window' = SlotReturned(TRUE),
         UNCHANGED <<async, plan, bound, dpc>>, at' = i + 1, pc'["payload"] \in {"inject", "open", "tail"}
  PROVE  Slots' /\ window' \in 0 .. Window
<1> USE DEF SplitInv, Control, TypeOK
<1>1. i \in Files /\ ~plan[i].reuse /\ plan[i].readSeq \in 1 .. Len(bound)
  BY DEF PayloadPhases, Fixed
<1>2. window' \in 0 .. Window /\ (~async => window' = 0)
  <2>1. /\ pc["payload"] \notin {"fail", "closed"} /\ at \in Files /\ ~plan[at].reuse
        /\ plan[at].readSeq <= Len(bound)
    BY <1>1, Types
  <2>2. PICK closing \in BOOLEAN : closing = TRUE
    OBVIOUS
  <2>3. window' = SlotReturned(closing)
    BY <2>2
  <2> QED
    BY <2>1, <2>3, SlotBack
<1>3. Cardinality(ReadsBefore(i + 1)) = Cardinality(ReadsBefore(i)) + 1 /\ Cardinality(ReadsBefore(i)) \in Nat
  BY <1>1, Consts, CountRead, CountType
<1>4. Cardinality(ReadsBefore(at)') = Cardinality(ReadsBefore(i + 1))
  BY DEF ReadsBefore
<1>5. PICK n \in Nat : n = Cardinality(ReadsBefore(i)) /\ n + 1 = Cardinality(ReadsBefore(at)')
  BY <1>3, <1>4
<1>6. Len(bound) \in Nat /\ window \in Int
  BY Types DEF TypeBound
<1>7. CASE async
  <2>1. window = Len(bound) - Cardinality(ReadsBefore(i)) /\ window' = window - 1
    BY <1>7 DEF Slots, SlotReturned
  <2>2. window' = Len(bound) - Cardinality(ReadsBefore(at)')
    <3>1. PICK l \in Nat : l = Len(bound)
      BY <1>6
    <3>2. window = l - n
      BY <1>5, <2>1, <3>1
    <3>3. (l - n) - 1 = l - (n + 1)
      OBVIOUS
    <3>4. window' = window - 1
      BY <2>1
    <3>5. window' = l - (n + 1)
      BY <3>2, <3>3, <3>4
    <3> QED
      BY <1>5, <3>1, <3>5
  <2> QED
    BY <1>2, <1>7, <2>2 DEF Slots
<1>8. CASE ~async
  <2>1. Len(bound) = Cardinality(ReadsBefore(i)) + 1 /\ dpc = "exit"
    BY <1>8 DEF Slots
  <2>2. Len(bound) = Cardinality(ReadsBefore(at)') + 0
    BY <1>5, <2>1
  <2> QED
    BY <1>2, <1>8, <2>1, <2>2 DEF Slots
<1> QED
  BY <1>7, <1>8

-----------------------------------------------------------------------------
\* The payload emitter's writes.
LEMMA InjectLays ==
  ASSUME SplitInv, pc["payload"] = "inject", NEW i, i = at, NEW q, q = NextEntry(i + 1), at' = q,
         pay' = pay \o Injected(plan[i]), UNCHANGED <<plan, bound, refs, refOffset>>,
         pc'["payload"] \in {"inject", "open", "tail"}, outcome'["payload"] = "running"
  PROVE  TypeOut' /\ Layout'
<1> USE DEF SplitInv, Control
<1>1. i \in Files /\ plan[i].reuse
  BY DEF PayloadPhases
<1>2. PICK n \in Nat : n = plan[i].to - plan[i].from
  BY <1>1, InjectedUnits
<1>3. /\ Injected(plan[i]) \in Seq(Units) /\ Len(Injected(plan[i])) = n
      /\ \A x \in Files : \A k \in 0 .. plan[x].size :
           plan[x].reuse /\ plan[x].from = plan[i].from /\ plan[x].to = plan[i].to =>
             /\ plan[x].rel + k + 1 \in 1 .. n
             /\ Injected(plan[i])[plan[x].rel + k + 1] = <<x, k, plan[x].size>>
  BY <1>1, <1>2, InjectedUnits DEF TypeOK
<1>4. PICK T \in [1 .. N + 1 -> Nat] :
        /\ LaysOut(T) /\ T[q] = T[i] + n
        /\ \A x \in i .. q - 1 : T[x] = T[i] /\ T[x+1] = T[x] + Skip(x)
  BY <1>1, <1>2, RunExtends
<1>5. /\ q \in i + 1 .. N + 1
      /\ \A x \in i .. q - 1 : x \in Files /\ plan[x].reuse /\ plan[x].from = plan[i].from /\ plan[x].to = plan[i].to
  BY <1>1, RunEntries
<1>6. i \in Nat /\ i >= 1 /\ i \in 1 .. N + 1 /\ N \in Nat /\ T[i] \in Nat /\ Len(pay) = T[i]
  BY <1>1, <1>4, Consts DEF LaysOut, Reached
<1>7. q \in Nat /\ q \in 1 .. N + 1 /\ q >= at
  BY <1>5, <1>6
<1>8. PICK o \in Nat : o = T[i]
  BY <1>6
<1>b. PICK inj : inj = Injected(plan[i])
  OBVIOUS
<1>9. pay \in Seq(Units) /\ inj \in Seq(Units) /\ Len(inj) = n
  BY <1>3, <1>8, <1>b DEF TypeOK, TypeOut, Units
<1>10. /\ pay' \in Seq(Units) /\ Len(pay') = o + n
       /\ \A u \in 1 .. Len(pay) : pay'[u] = pay[u]
       /\ \A u \in 1 .. o + n : u > o => pay'[u] = inj[u - o]
  <2>1. pay' = pay \o inj
    BY <1>8, <1>b
  <2>2. pay' \in Seq(Units)
    BY <1>9, <2>1
  <2>3. /\ Len(pay \o inj) = Len(pay) + Len(inj)
        /\ \A u \in 1 .. Len(pay) : (pay \o inj)[u] = pay[u]
        /\ \A u \in 1 .. Len(pay) + Len(inj) : u > Len(pay) => (pay \o inj)[u] = inj[u - Len(pay)]
    BY <1>9, ConcatAt
  <2>4. Len(pay) = o
    BY <1>6, <1>8, <1>b
  <2> QED
    BY <1>9, <2>1, <2>2, <2>3, <2>4
<1>11. TypeOut'
  BY <1>10 DEF TypeOK, TypeOut, Units
<1>12. Grows
  BY <1>3, <1>6, <1>8, <1>b, <1>10 DEF Grows
<1>13. ASSUME NEW x \in Files, at <= x, x < at'
       PROVE  Fixed(x) /\ T[x+1] = T[x] + Skip(x) /\ WrittenAt(T, x)'
  <2>1. x \in i .. q - 1
    BY <1>6, <1>7, <1>13, Consts
  <2>2. /\ plan[x].reuse /\ plan[x].from = plan[i].from /\ plan[x].to = plan[i].to
        /\ T[x] = T[i] /\ T[x+1] = T[x] + Skip(x)
    BY <1>4, <1>5, <2>1
  <2>3. plan[x].rel \in Nat /\ plan[x].size \in Nat /\ plan[x].rel + RecordLen(plan[x].size) <= n
    BY <1>2, <2>2, Types DEF PlanFacts, InSpan, PlanEntries, TypeOK
  <2>4. PICK l \in Nat, z \in Nat : l = plan[x].rel /\ z = plan[x].size /\ l + RecordLen(z) <= n
    BY <2>3
  <2>5. Off(T, x)' = o + l /\ Sz(x)' = z
    BY <1>8, <1>b, <2>2, <2>4 DEF Off, Sz
  <2>6. (o + l) + RecordLen(z) <= Len(pay')
    <3>1. Len(pay') = o + n
      BY <1>10
    <3>2. l + (1 + z) <= n
      BY <2>4 DEF RecordLen, HeaderSize
    <3>3. (o + l) + (1 + z) <= o + n
      BY <3>2
    <3> QED
      BY <3>1, <3>3 DEF RecordLen, HeaderSize
  <2>7. ASSUME NEW k \in 0 .. z PROVE pay'[(o + l) + k + 1] = <<x, k, z>>
    <3>1. l + k + 1 \in 1 .. n /\ inj[l + k + 1] = <<x, k, z>>
      BY <1>3, <1>8, <1>b, <2>2, <2>4
    <3>2. PICK u : u = (o + l) + k + 1
      OBVIOUS
    <3>3. u \in 1 .. o + n /\ u > o /\ u - o = l + k + 1
      <4>1. l + k + 1 \in 1 .. n
        BY <3>1
      <4> QED
        BY <3>2, <4>1
    <3> QED
      BY <1>10, <3>1, <3>2, <3>3
  <2>8. WrittenAt(T, x)'
    BY <2>5, <2>6, <2>7 DEF WrittenAt
  <2> QED
    BY <2>2, <2>8 DEF Fixed
<1>14. Reached(T)'
  BY <1>4, <1>8, <1>b, <1>10 DEF Reached
<1>15. Layout'
  <2>1. \A x \in Files : at <= x /\ x < at' => Fixed(x) /\ T[x+1] = T[x] + Skip(x) /\ WrittenAt(T, x)'
    BY <1>13
  <2> QED
    BY <1>4, <1>7, <1>11, <1>12, <1>14, <2>1, Progress
<1> QED
  BY <1>11, <1>15

LEMMA HeaderLays ==
  ASSUME SplitInv, pc["payload"] = "header", NEW i, i = at, at' = i,
         pay' = Append(pay, Record(i, bound[plan[i].readSeq])[1]), UNCHANGED <<plan, bound, refs, refOffset>>,
         pc'["payload"] = "copy", outcome'["payload"] = "running"
  PROVE  TypeOut' /\ Layout'
<1> USE DEF SplitInv, Control
<1>1. i \in Files /\ ~plan[i].reuse /\ Fixed(i) /\ i \in Nat /\ i \in 1 .. N + 1
  BY Consts DEF PayloadPhases
<1>2. PICK b : b = bound[plan[i].readSeq]
  OBVIOUS
<1>3. b \in Nat /\ Sz(i) = b
  BY <1>1, <1>2 DEF Fixed, Sz
<1>4. PICK T \in [1 .. N + 1 -> Nat] : LaysOut(T)
  BY DEF Layout
<1>5. Len(pay) = T[i] /\ T[i] \in Nat
  BY <1>1, <1>4 DEF LaysOut, Reached
<1>6. pay' = Append(pay, <<i, 0, b>>) /\ <<i, 0, b>> \in Units /\ pay \in Seq(Units)
  <2>1. Record(i, b)[1] = <<i, 0, b>>
    BY <1>1, <1>3, RecordUnits
  <2>2. pay' = Append(pay, <<i, 0, b>>)
    BY <1>2, <2>1
  <2>3. <<i, 0, b>> \in Units
    BY <1>1, <1>3 DEF Units
  <2>4. pay \in Seq(Units)
    BY DEF Units, TypeOK, TypeOut
  <2> QED
    BY <2>2, <2>3, <2>4
<1>7. pay' \in Seq(Units) /\ Len(pay') = T[i] + 1 /\ pay'[T[i] + 1] = <<i, 0, b>> /\ \A u \in 1 .. Len(pay) : pay'[u] = pay[u]
  BY <1>5, <1>6, AppendType, AppendAt
<1>8. TypeOut'
  BY <1>7 DEF TypeOK, TypeOut, Units
<1>9. Grows
  BY <1>5, <1>7 DEF Grows
<1>10. HeaderOut(T)'
  <2>1. Sz(i)' = b /\ Fixed(i)'
    BY <1>1, <1>3 DEF Sz, Fixed
  <2> QED
    BY <1>1, <1>7, <2>1 DEF HeaderOut, HeaderSize
<1>11. Reached(T)'
  BY <1>10 DEF Reached
<1>12. Layout'
  <2>1. \A x \in Files : at <= x /\ x < at' => Fixed(x) /\ T[x+1] = T[x] + Skip(x) /\ WrittenAt(T, x)'
    BY <1>1, Consts
  <2>2. at' \in 1 .. N + 1 /\ at' >= at
    BY <1>1
  <2> QED
    BY <1>4, <1>8, <1>9, <1>11, <2>1, <2>2, Progress
<1> QED
  BY <1>8, <1>12

LEMMA AddUp == \A x, y \in Nat : x + (1 + y) = x + 1 + y /\ x + 1 + y \in Nat /\ x + 1 + y >= x + 1
  OBVIOUS

\* The content, if there is any, completes the record whose header is out.
LEMMA ContentLays ==
  ASSUME SplitInv, pc["payload"] \in {"copy", "content"}, NEW i, i = at, at' = i + 1,
         NEW b \in Nat, b = bound[plan[i].readSeq],
         pay' = pay \o Tail(Record(i, b)) \/ (b = 0 /\ pay' = pay),
         UNCHANGED <<plan, bound, refs, refOffset>>,
         pc'["payload"] \in {"inject", "open", "tail"}, outcome'["payload"] = "running"
  PROVE  TypeOut' /\ Layout'
<1> USE DEF SplitInv, Control
<1>1. i \in Files /\ ~plan[i].reuse /\ Fixed(i) /\ i \in Nat /\ i \in 1 .. N + 1 /\ i + 1 \in 1 .. N + 1
  BY Consts DEF PayloadPhases
<1>2. Sz(i) = b /\ Skip(i) = 1 + b /\ plan[i].rel = 0
  BY <1>1 DEF Fixed, Sz, Skip, SkipRecord, HeaderSize, PlanFacts
<1>3. PICK T \in [1 .. N + 1 -> Nat] : LaysOut(T) /\ T[i+1] = T[i] + Skip(i)
  <2>1. i <= at
    BY <1>1
  <2> QED
    BY <1>1, <2>1, Extends
<1>4. PICK o \in Nat : o = T[i]
  BY <1>1
<1>5. Len(pay) = o + 1 /\ pay[o + 1] = <<i, 0, b>> /\ T[i + 1] = o + 1 + b
  <2>1. Len(pay) = o + 1 /\ pay[o + 1] = <<i, 0, b>>
    BY <1>1, <1>2, <1>3, <1>4 DEF LaysOut, Reached, HeaderOut, HeaderSize
  <2>2. T[i + 1] = o + (1 + b)
    BY <1>2, <1>3, <1>4
  <2>3. o + (1 + b) = o + 1 + b
    BY AddUp
  <2> QED
    BY <2>1, <2>2, <2>3
<1>6. pay \in Seq(Units)
  BY DEF TypeOK, TypeOut, Units
<1>7. /\ pay' \in Seq(Units) /\ Len(pay') = o + 1 + b
      /\ \A u \in 1 .. Len(pay) : pay'[u] = pay[u]
      /\ \A k \in 1 .. b : pay'[o + k + 1] = <<i, k, b>>
  <2>1. CASE pay' = pay \o Tail(Record(i, b))
    <3>1. PICK t : t = Tail(Record(i, b))
      OBVIOUS
    <3>2. t \in Seq(Units) /\ Len(t) = b /\ \A k \in 1 .. b : t[k] = <<i, k, b>>
      BY <1>1, <1>2, <3>1, RecordUnits
    <3>3. pay' = pay \o t /\ pay' \in Seq(Units)
      BY <1>6, <2>1, <3>1, <3>2
    <3>4. /\ Len(pay') = (o + 1) + b /\ \A u \in 1 .. Len(pay) : pay'[u] = pay[u]
          /\ \A u \in 1 .. (o + 1) + b : u > o + 1 => pay'[u] = t[u - (o + 1)]
      <4>1. /\ Len(pay \o t) = Len(pay) + Len(t)
            /\ \A u \in 1 .. Len(pay) : (pay \o t)[u] = pay[u]
            /\ \A u \in 1 .. Len(pay) + Len(t) : u > Len(pay) => (pay \o t)[u] = t[u - Len(pay)]
        BY <1>6, <3>2, ConcatAt
      <4> QED
        BY <1>5, <3>2, <3>3, <4>1
    <3>5. ASSUME NEW k \in 1 .. b PROVE pay'[o + k + 1] = <<i, k, b>>
      <4>1. PICK u : u = o + k + 1
        OBVIOUS
      <4>2. u \in 1 .. (o + 1) + b /\ u > o + 1 /\ u - (o + 1) = k
        BY <4>1
      <4> QED
        BY <3>2, <3>4, <4>1, <4>2
    <3> QED
      BY <3>3, <3>4, <3>5
  <2>2. CASE b = 0 /\ pay' = pay
    BY <1>4, <1>5, <1>6, <2>2
  <2> QED
    BY <2>1, <2>2
<1>8. TypeOut'
  BY <1>7 DEF TypeOK, TypeOut, Units
<1>9. Grows
  <2>1. Len(pay) = o + 1 /\ Len(pay') = o + 1 + b
    BY <1>5, <1>7
  <2>2. Len(pay') >= Len(pay)
    BY <2>1, AddUp
  <2> QED
    BY <1>7, <2>2 DEF Grows
<1>10. WrittenAt(T, i)'
  <2>1. Off(T, i)' = T[i] /\ Sz(i)' = b
    BY <1>1, <1>2, <1>4, <1>5 DEF Off, Sz
  <2>2. o + RecordLen(b) <= Len(pay')
    <3>1. Len(pay') = o + 1 + b
      BY <1>7
    <3>2. RecordLen(b) = 1 + b
      BY DEF RecordLen, HeaderSize
    <3>3. o + 1 + b \in Nat /\ o + (1 + b) = o + 1 + b
      BY AddUp
    <3> QED
      BY <3>1, <3>2, <3>3
  <2>3. ASSUME NEW k \in 0 .. b PROVE pay'[o + k + 1] = <<i, k, b>>
    <3>1. CASE k = 0
      <4>1. o + k + 1 = o + 1 /\ o + 1 \in 1 .. Len(pay)
        BY <1>4, <1>5, <3>1
      <4> QED
        BY <1>4, <1>5, <1>7, <3>1, <4>1
    <3>2. CASE k # 0
      <4>1. k \in 1 .. b
        BY <1>2, <3>2
      <4> QED
        BY <1>7, <4>1
    <3> QED
      BY <3>1, <3>2
  <2> QED
    BY <1>4, <2>1, <2>2, <2>3 DEF WrittenAt
<1>11. Reached(T)'
  <2>1. Len(pay') = T[i + 1]
    BY <1>5, <1>7
  <2> QED
    BY <2>1 DEF Reached
<1>12. Layout'
  <2>1. ASSUME NEW x \in Files, at <= x, x < at' PROVE x = i
    BY <1>1, <2>1, Consts
  <2>2. \A x \in Files : at <= x /\ x < at' => Fixed(x) /\ T[x+1] = T[x] + Skip(x) /\ WrittenAt(T, x)'
    BY <1>1, <1>3, <1>10, <2>1
  <2>3. at' \in 1 .. N + 1 /\ at' >= at
    BY <1>1
  <2> QED
    BY <1>3, <1>8, <1>9, <1>11, <2>2, <2>3, Progress
<1> QED
  BY <1>8, <1>12

LEMMA StartLays ==
  ASSUME SplitInv, pc["payload"] = "start", at' = 1, pay' = <<Other>>, UNCHANGED <<plan, bound, refs, refOffset>>,
         pc'["payload"] \in {"inject", "open", "tail"}, outcome'["payload"] = "running"
  PROVE  TypeOut' /\ Layout'
<1> USE DEF SplitInv, Control
<1>1. at = 1 /\ pay = <<>> /\ N \in Nat
  BY Consts DEF PayloadPhases
<1>2. PICK T \in [1 .. N + 1 -> Nat] : LaysOut(T)
  BY DEF Layout
<1>3. T[1] = 1
  BY <1>2 DEF LaysOut, Chain, MarkerSize
<1>4. Other \in Units
  BY DEF Other, Units
<1>5. pay' \in Seq(Units) /\ Len(pay') = 1 /\ Len(pay) = 0
  BY <1>1, <1>4
<1>6. TypeOut'
  BY <1>5 DEF TypeOK, TypeOut, Units
<1>7. Grows
  BY <1>5 DEF Grows
<1>8. Reached(T)'
  BY <1>3, <1>5 DEF Reached
<1>9. \A x \in Files : at <= x /\ x < at' => Fixed(x) /\ T[x+1] = T[x] + Skip(x) /\ WrittenAt(T, x)'
  BY <1>1, Consts
<1>10. at' \in 1 .. N + 1 /\ at' >= at
  BY <1>1
<1> QED
  BY <1>2, <1>6, <1>7, <1>8, <1>9, <1>10, Progress

LEMMA TailLays ==
  ASSUME SplitInv, pc["payload"] = "tail", at' = at, pay' = Append(pay, Other), UNCHANGED <<plan, bound, refs, refOffset>>,
         pc'["payload"] = "closed", outcome'["payload"] = "ok"
  PROVE  TypeOut' /\ Layout'
<1> USE DEF SplitInv, Control
<1>1. at \in 1 .. N + 1 /\ at \in Nat
  BY Types
<1>2. PICK T \in [1 .. N + 1 -> Nat] : LaysOut(T)
  BY DEF Layout
<1>3. Other \in Units /\ pay \in Seq(Units) /\ Len(pay) \in Nat
  BY Types DEF Other, Units, TypeOK, TypeOut
<1>4. pay' \in Seq(Units) /\ Len(pay') = Len(pay) + 1 /\ \A u \in 1 .. Len(pay) : pay'[u] = pay[u]
  BY <1>3, AppendType, AppendAt
<1>5. TypeOut'
  BY <1>4 DEF TypeOK, TypeOut, Units
<1>6. Grows
  BY <1>3, <1>4 DEF Grows
<1>7. Reached(T)'
  BY DEF Reached
<1>8. \A x \in Files : at <= x /\ x < at' => Fixed(x) /\ T[x+1] = T[x] + Skip(x) /\ WrittenAt(T, x)'
  BY <1>1, Consts
<1>9. at' \in 1 .. N + 1 /\ at' >= at
  BY <1>1
<1> QED
  BY <1>2, <1>5, <1>6, <1>7, <1>8, <1>9, Progress

\* The phase after Advance.
LEMMA Advances ==
  ASSUME TypeOK, NEW i \in 1 .. N + 1, NEW q, q = NextEntry(i), at' = q, pc'["payload"] = PayloadPc(q),
         outcome'["payload"] = "running", plan' = plan
  PROVE  PayloadPhases' /\ pc'["payload"] \in {"inject", "open", "tail"} /\ q \in 1 .. N + 1
<1>1. /\ q \in 1 .. N + 1 /\ PayloadPc(q) \in {"inject", "open", "tail"}
      /\ PayloadPc(q) = "inject" => q \in Files /\ plan[q].reuse /\ plan[q].head
      /\ PayloadPc(q) = "open" => q \in Files /\ ~plan[q].reuse
      /\ PayloadPc(q) = "tail" => q = N + 1
  BY Arrives
<1> QED
  BY <1>1 DEF PayloadPhases

LEMMA PayloadWrittenKeeps ==
  ASSUME SplitInv, PayloadWritten
  PROVE  SplitInv'
<1> USE DEF SplitInv, Control, TypeOK
<1>1. /\ UNCHANGED <<prev, changed, async, plan, canceled, userCanceled, sizes, lerr, watching, dpc, bound, delivered, handed, refOffset, refs, failed, ret>>
      /\ inPipe["payload"] /\ rpc["payload"] = "read" /\ rpc' = [rpc EXCEPT !["payload"] = "emit"]
      /\ inPipe' = [inPipe EXCEPT !["payload"] = FALSE] /\ Completes("payload")
      /\ window' = SlotReturned(pc["payload"] = "content")
  BY DEF PayloadWritten, planVars, ctxVars, dispVars, readVars, Taken, Take
<1>2. pc["payload"] \in {"start", "inject", "header", "content", "tail"}
  BY <1>1, Consts DEF Outcomes, Writes
<1>3. PICK i : i = at
  OBVIOUS
<1>4. i \in 1 .. N + 1 /\ i \in Nat /\ N \in Nat
  BY <1>3, Types, Consts
<1>5. ASSUME NEW q \in 1 .. N + 1, NEW c \in {"inject", "open", "header", "copy", "content", "tail", "closed"},
             Moves("payload", q, c)
      PROVE  /\ at' = q /\ pc'["payload"] = c /\ outcome'["payload"] = (IF c = "closed" THEN "ok" ELSE "running")
             /\ TypeOut' /\ Layout' /\ PayloadPhases' /\ Slots' /\ window' \in 0 .. Window => SplitInv'
  <2>1. /\ pc' = [pc EXCEPT !["payload"] = c] /\ pos' = [pos EXCEPT !["payload"] = q]
        /\ pc'["payload"] = c /\ pc'["meta"] = pc["meta"]
    BY <1>5, Consts DEF Moves, TypeEmit
  <2>2. pc' \in [Streams -> {"start", "entry", "get", "wait", "sleep", "ref", "goodbye", "inject", "open",
                             "header", "copy", "content", "tail", "fail", "closed"}]
    BY <2>1 DEF TypeEmit
  <2>3. inPipe' \in [Streams -> BOOLEAN] /\ ~inPipe'["payload"] /\ inPipe'["meta"] = inPipe["meta"]
    BY <1>1, Consts DEF TypeEmit
  <2>4. outcome' = [outcome EXCEPT !["payload"] = IF c = "closed" THEN "ok" ELSE @]
    BY <1>1, <2>1 DEF Completes
  <2>5. \A s \in Streams : rpc'[s] = "ended" => rpc[s] = "ended"
    BY <1>1 DEF TypeRead
  <2>6. pc["payload"] \notin {"fail", "closed"}
    BY <1>2
  <2>7. /\ TypeEmit' /\ PlanFacts' /\ Outcomes' /\ MetaPhases' /\ Returned' /\ at' = q
        /\ outcome'["payload"] = (IF c = "closed" THEN "ok" ELSE "running")
    <3>1. UNCHANGED <<prev, plan, refs, failed, ret>>
      BY <1>1
    <3> QED
      BY <2>1, <2>2, <2>3, <2>4, <2>5, <2>6, <3>1, PayloadStep
  <2>8. TypePlan' /\ TypeRead' /\ Ledger'
    BY <1>1, LedgerKept DEF TypePlan, TypeRead
  <2>9. window' \in 0 .. Window => TypeBound'
    BY <1>1 DEF TypeBound
  <2> QED
    BY <2>1, <2>7, <2>8, <2>9
<1>6. pc["payload"] # "content" => window' = window /\ window' \in 0 .. Window
  BY <1>1 DEF SlotReturned, TypeBound
<1>7. CASE pc["payload"] = "start"
  <2>1. at = 1 /\ 1 \in 1 .. N + 1
    BY <1>4, <1>7 DEF PayloadPhases
  <2>2. NextEntry(1) = 1
    BY <2>1, EntryAfterRead
  <2>3. pay' = <<Other>> /\ Moves("payload", 1, PayloadPc(1))
    BY <1>7, <2>2 DEF PayloadWritten, Advance
  <2>4. PayloadPc(1) \in {"inject", "open", "tail"}
    BY <2>1, <2>2, Arrives
  <2>5. at' = 1 /\ pc'["payload"] = PayloadPc(1) /\ outcome'["payload"] = "running"
    BY <1>5, <2>1, <2>3, <2>4
  <2>6. TypeOut' /\ Layout'
    BY <1>1, <1>7, <2>3, <2>4, <2>5, StartLays
  <2>7. PayloadPhases'
    BY <1>1, <2>1, <2>2, <2>5, Advances
  <2>8. Slots'
    BY <1>1, <1>6, <1>7, <2>1, <2>4, <2>5, CountKept DEF Slots
  <2> QED
    BY <1>5, <1>6, <1>7, <2>1, <2>3, <2>4, <2>6, <2>7, <2>8
<1>8. CASE pc["payload"] = "inject"
  <2>1. i \in Files /\ plan[i].reuse /\ i + 1 \in 1 .. N + 1
    BY <1>3, <1>8, Consts DEF PayloadPhases
  <2>2. PICK q : q = NextEntry(i + 1)
    OBVIOUS
  <2>3. q \in 1 .. N + 1 /\ PayloadPc(q) \in {"inject", "open", "tail"}
    BY <2>1, <2>2, Arrives
  <2>4. pay' = pay \o Injected(plan[i]) /\ Moves("payload", q, PayloadPc(q))
    BY <1>3, <1>8, <2>2 DEF PayloadWritten, Advance, at
  <2>5. at' = q /\ pc'["payload"] = PayloadPc(q) /\ outcome'["payload"] = "running"
    BY <1>5, <2>3, <2>4
  <2>6. TypeOut' /\ Layout'
    BY <1>1, <1>3, <1>8, <2>2, <2>3, <2>4, <2>5, InjectLays
  <2>7. PayloadPhases'
    BY <1>1, <2>1, <2>2, <2>5, Advances
  <2>8. Slots'
    <3>1. q \in i + 1 .. N + 1 /\ \A x \in i .. q - 1 : plan[x].reuse
      BY <2>1, <2>2, RunEntries
    <3>2. q \in i .. N + 1
      BY <1>4, <3>1
    <3>3. ReadsBefore(q) = ReadsBefore(i)
      BY <1>4, <3>1, <3>2, CountOver
    <3>4. ReadsBefore(at)' = ReadsBefore(at)
      BY <1>1, <1>3, <2>5, <3>3 DEF ReadsBefore
    <3> QED
      BY <1>1, <1>6, <1>8, <2>3, <2>5, <3>4 DEF Slots
  <2> QED
    BY <1>5, <1>6, <1>8, <2>3, <2>4, <2>6, <2>7, <2>8
<1>9. CASE pc["payload"] = "header"
  <2>1. i \in Files /\ ~plan[i].reuse /\ Fixed(i)
    BY <1>3, <1>9 DEF PayloadPhases
  <2>2. pay' = Append(pay, Record(i, bound[plan[i].readSeq])[1]) /\ Moves("payload", i, "copy")
    BY <1>3, <1>9 DEF PayloadWritten, at, ReadSeq
  <2>3. at' = i /\ pc'["payload"] = "copy" /\ outcome'["payload"] = "running"
    BY <1>4, <1>5, <2>2
  <2>4. TypeOut' /\ Layout'
    BY <1>1, <1>3, <1>9, <2>2, <2>3, HeaderLays
  <2>5. PayloadPhases'
    BY <1>1, <2>1, <2>3 DEF PayloadPhases, Fixed
  <2>6. Slots'
    BY <1>1, <1>3, <1>6, <1>9, <2>3, CountKept DEF Slots
  <2> QED
    BY <1>4, <1>5, <1>6, <1>9, <2>2, <2>4, <2>5, <2>6
<1>10. CASE pc["payload"] = "content"
  <2>1. i \in Files /\ ~plan[i].reuse /\ Fixed(i) /\ i + 1 \in 1 .. N + 1 /\ (i + 1) - 1 = i
    BY <1>3, <1>4, <1>10, Consts DEF PayloadPhases
  <2>2. PICK b \in Nat : b = bound[plan[i].readSeq]
    BY <2>1 DEF Fixed
  <2>3. PICK q : q = i + 1
    OBVIOUS
  <2>4. NextEntry(i + 1) = q
    BY <2>1, <2>3, EntryAfterRead
  <2>5. q \in 1 .. N + 1 /\ PayloadPc(q) \in {"inject", "open", "tail"}
    BY <2>1, <2>4, Arrives
  <2>6. pay' = pay \o Tail(Record(i, b)) /\ Moves("payload", q, PayloadPc(q))
    BY <1>3, <1>10, <2>2, <2>4 DEF PayloadWritten, Advance, at, ReadSeq
  <2>7. at' = q /\ pc'["payload"] = PayloadPc(q) /\ outcome'["payload"] = "running"
    BY <1>5, <2>5, <2>6
  <2>8. TypeOut' /\ Layout'
    BY <1>1, <1>3, <1>10, <2>2, <2>3, <2>5, <2>6, <2>7, ContentLays
  <2>9. PayloadPhases'
    BY <1>1, <2>1, <2>4, <2>7, Advances
  <2>10. Slots' /\ window' \in 0 .. Window
    <3>1. window' = SlotReturned(TRUE)
      BY <1>1, <1>10 DEF SlotReturned
    <3> QED
      BY <1>1, <1>3, <1>10, <2>3, <2>5, <2>7, <3>1, Releases
  <2> QED
    BY <1>5, <2>5, <2>6, <2>8, <2>9, <2>10
<1>11. CASE pc["payload"] = "tail"
  <2>1. pay' = Append(pay, Other) /\ Moves("payload", i, "closed") /\ i = N + 1
    BY <1>3, <1>11 DEF PayloadWritten, at, PayloadPhases
  <2>2. at' = i /\ pc'["payload"] = "closed" /\ outcome'["payload"] = "ok"
    BY <1>4, <1>5, <2>1
  <2>3. TypeOut' /\ Layout'
    BY <1>1, <1>3, <1>11, <2>1, <2>2, TailLays
  <2>4. PayloadPhases'
    BY <2>1, <2>2 DEF PayloadPhases
  <2>5. Slots'
    BY <1>1, <1>6, <1>11, <2>2 DEF Slots
  <2> QED
    BY <1>4, <1>5, <1>6, <1>11, <2>1, <2>3, <2>4, <2>5
<1> QED
  BY <1>2, <1>7, <1>8, <1>9, <1>10, <1>11

-----------------------------------------------------------------------------
\* Opening, copying and failing.
LEMMA PayloadWakes ==
  ASSUME TypeEmit, NEW c \in {"header", "fail", "closed"}, pc' = Woken([pc EXCEPT !["payload"] = c])
  PROVE  /\ pc' \in [Streams -> {"start", "entry", "get", "wait", "sleep", "ref", "goodbye", "inject", "open",
                                 "header", "copy", "content", "tail", "fail", "closed"}]
         /\ pc'["payload"] = c
         /\ pc'["meta"] = pc["meta"] \/ (pc["meta"] = "sleep" /\ pc'["meta"] = "get")
  BY Consts DEF TypeEmit, Woken

\* The payload emitter fails, or closes its pipe after it did, and wakes the other one.
LEMMA PayloadEnds ==
  ASSUME SplitInv, NEW c \in {"fail", "closed"}, pc["payload"] # "closed", ~inPipe["payload"],
         pc' = Woken([pc EXCEPT !["payload"] = c]),
         outcome' = [outcome EXCEPT !["payload"] = "error"],
         bound' = bound \/ \E s \in Nat \union {-1} : bound' = Append(bound, s),
         TypeBound', Ledger', dpc' = dpc, window' = window,
         UNCHANGED <<prev, changed, async, plan, canceled, userCanceled, pos, inPipe, refOffset, refs, pay, rpc, failed, ret>>
  PROVE  SplitInv'
<1> USE DEF SplitInv, Control, TypeOK
<1>1. /\ pc' \in [Streams -> {"start", "entry", "get", "wait", "sleep", "ref", "goodbye", "inject", "open",
                              "header", "copy", "content", "tail", "fail", "closed"}]
      /\ pc'["payload"] = c
      /\ pc'["meta"] = pc["meta"] \/ (pc["meta"] = "sleep" /\ pc'["meta"] = "get")
  BY PayloadWakes
<1>2. outcome'["payload"] = "error" /\ outcome'["meta"] = outcome["meta"]
  BY Consts DEF TypeEmit
<1>3. TypePlan' /\ TypeEmit' /\ TypeOut' /\ TypeRead'
  BY <1>1 DEF TypePlan, TypeEmit, TypeOut, TypeRead
<1>4. at' = at /\ sent' = sent /\ PlanFacts'
  BY PlanKept DEF at, sent
<1>5. MetaPhases'
  BY <1>1, <1>2, <1>4 DEF MetaPhases
<1>6. Outcomes'
  <2> SUFFICES ASSUME NEW s \in Streams
               PROVE  /\ inPipe'[s] => pc'[s] \in Writes(s)
                      /\ pc'[s] = "fail" => outcome'[s] = "error"
                      /\ pc'[s] = "closed" => outcome'[s] # "running"
                      /\ pc'[s] \notin {"fail", "closed"} => outcome'[s] = "running"
    BY DEF Outcomes, Writes
  <2>1. CASE s = "payload"
    BY <1>1, <1>2, <2>1
  <2>2. CASE s = "meta"
    BY <1>1, <1>2, <2>2, Consts DEF Outcomes, Writes
  <2> QED
    BY <2>1, <2>2, Consts
<1>7. Returned'
  <2>1. \A s \in Streams : pc[s] = "closed" => pc'[s] = "closed" /\ outcome'[s] = outcome[s]
    BY <1>1, <1>2, Consts
  <2> QED
    BY <2>1, ReturnedKept
<1>8. PayloadPhases' /\ Slots'
  BY <1>1, <1>2 DEF PayloadPhases, Slots
<1>9. \A i \in Files : Fixed(i) => Fixed(i)' /\ Sz(i)' = Sz(i) /\ Skip(i)' = Skip(i)
  BY BoundGrows
<1>10. outcome["payload"] # "ok"
  BY Consts DEF Outcomes
<1>11. Layout'
  BY <1>1, <1>4, <1>9, <1>10, LayoutKept DEF Placing
<1> QED
  BY <1>3, <1>4, <1>5, <1>6, <1>7, <1>8, <1>11

LEMMA PayloadFailedKeeps ==
  ASSUME SplitInv, PayloadFailed
  PROVE  SplitInv'
<1> USE DEF SplitInv, Control, TypeOK
<1>1. /\ UNCHANGED <<prev, changed, async, plan, canceled, userCanceled, sizes, watching, dpc, bound, delivered, handed, window, pos, inPipe, outcome, refOffset, refs, pay, rpc, failed, ret>>
      /\ pc["payload"] = "fail" /\ lerr' = TRUE /\ pc' = Woken([pc EXCEPT !["payload"] = "closed"])
  BY DEF PayloadFailed, FailLedger, planVars, ctxVars, dispVars, readVars
<1>2. outcome["payload"] = "error" /\ ~inPipe["payload"]
  BY <1>1, Consts DEF Outcomes, Writes
<1>3. outcome' = [outcome EXCEPT !["payload"] = "error"]
  BY <1>1, <1>2 DEF TypeEmit
<1>4. TypeBound' /\ Ledger'
  BY <1>1 DEF TypeBound, Ledger
<1> QED
  BY <1>1, <1>2, <1>3, <1>4, PayloadEnds

\* A payload is opened or has content to write; the emitter stays at its entry.
LEMMA PayloadTurns ==
  ASSUME SplitInv, NEW c \in {"header", "content"}, pc["payload"] = IF c = "header" THEN "open" ELSE "copy",
         pc' \in [Streams -> {"start", "entry", "get", "wait", "sleep", "ref", "goodbye", "inject", "open",
                              "header", "copy", "content", "tail", "fail", "closed"}],
         pc'["payload"] = c, pc'["meta"] = pc["meta"] \/ (pc["meta"] = "sleep" /\ pc'["meta"] = "get"),
         bound' = bound \/ \E s \in Nat \union {-1} : bound' = Append(bound, s),
         TypeBound', Ledger', Slots', Fixed(at)',
         UNCHANGED <<prev, changed, async, plan, canceled, userCanceled, pos, inPipe, outcome, refOffset, refs, pay, rpc, failed, ret>>
  PROVE  SplitInv'
<1> USE DEF SplitInv, Control, TypeOK
<1>1. pc["payload"] \in {"open", "copy"} /\ pc["payload"] \notin {"fail", "closed"}
  OBVIOUS
<1>2. inPipe' \in [Streams -> BOOLEAN] /\ ~inPipe'["payload"] /\ inPipe'["meta"] = inPipe["meta"]
  BY <1>1, Consts DEF TypeEmit, Outcomes, Writes
<1>3. PICK q \in 1 .. N + 1 : q = at
  BY Types
<1>4. pos' = [pos EXCEPT !["payload"] = q]
  BY <1>3 DEF at, TypeEmit
<1>5. outcome' = [outcome EXCEPT !["payload"] = IF c = "closed" THEN "ok" ELSE @]
  BY DEF TypeEmit
<1>6. /\ TypeEmit' /\ PlanFacts' /\ Outcomes' /\ MetaPhases' /\ Returned' /\ at' = q
      /\ outcome'["payload"] = (IF c = "closed" THEN "ok" ELSE "running")
  BY <1>1, <1>2, <1>4, <1>5, PayloadStep
<1>7. TypePlan' /\ TypeOut' /\ TypeRead'
  BY DEF TypePlan, TypeOut, TypeRead
<1>8. at \in Files /\ ~plan[at].reuse
  BY <1>1 DEF PayloadPhases
<1>9. PayloadPhases'
  BY <1>3, <1>6, <1>8 DEF PayloadPhases
<1>10. \A i \in Files : Fixed(i) => Fixed(i)' /\ Sz(i)' = Sz(i) /\ Skip(i)' = Skip(i)
  BY BoundGrows
<1>11. Layout'
  BY <1>1, <1>3, <1>6, <1>10, LayoutKept DEF Placing
<1> QED
  BY <1>6, <1>7, <1>9, <1>11

LEMMA OpenPayloadKeeps ==
  ASSUME SplitInv, OpenPayload
  PROVE  SplitInv'
<1> USE DEF SplitInv, Control, TypeOK
<1>1. /\ UNCHANGED <<prev, changed, async, plan, canceled, userCanceled, watching, dpc, delivered, handed, inPipe, refOffset, refs, pay, rpc, failed, ret>>
      /\ pc["payload"] = "open"
  BY DEF OpenPayload, planVars, ctxVars, readVars
<1>2. PICK i : i = at
  OBVIOUS
<1>3. i \in Files /\ ~plan[i].reuse /\ i \in 1 .. N + 1 /\ ReadSeq = plan[i].readSeq
  BY <1>1, <1>2, Consts DEF PayloadPhases, ReadSeq, at
<1>4. PICK n \in Nat : n = Cardinality(ReadsBefore(i))
  BY <1>3, CountType
<1>5. plan[i].readSeq = n + 1
  BY <1>3, <1>4 DEF PlanFacts
<1>6. /\ inPipe' \in [Streams -> BOOLEAN] /\ ~inPipe["payload"] /\ ~inPipe'["payload"]
      /\ \A t \in Streams : t # "payload" => inPipe'[t] = inPipe[t]
  BY <1>1, Consts DEF TypeEmit, Outcomes, Writes
<1>7. Len(bound) \in Nat /\ window \in 0 .. Window
  BY Types DEF TypeBound
<1>8. CASE async /\ delivered >= ReadSeq /\ UNCHANGED <<bound, sizes, lerr>> /\ bound[ReadSeq] = -1
           /\ EmitterFails("payload") /\ window' = SlotReturned(TRUE)
  <2>1. plan[i].readSeq <= Len(bound)
    BY <1>3, <1>5, <1>7, <1>8 DEF Ledger, TypeBound
  <2>2. PICK closing \in BOOLEAN : closing = TRUE
    OBVIOUS
  <2>3. window' \in 0 .. Window
    BY <1>1, <1>2, <1>3, <1>8, <2>1, <2>2, SlotBack
  <2> QED
    BY <1>1, <1>6, <1>8, <2>3, Consts, FailsKeep DEF planVars, ctxVars, dispVars, readVars
<1>9. CASE async /\ delivered >= ReadSeq /\ UNCHANGED <<bound, sizes, lerr>> /\ bound[ReadSeq] # -1
           /\ Moves("payload", i, "header") /\ UNCHANGED <<outcome, window>>
  <2>1. plan[i].readSeq \in 1 .. Len(bound)
    BY <1>3, <1>5, <1>7, <1>9 DEF Ledger, TypeBound
  <2>2. bound[plan[i].readSeq] \in Nat
    BY <1>3, <1>9, <2>1, Types
  <2>3. pos' = pos /\ at' = at
    BY <1>2, <1>9 DEF Moves, at, TypeEmit
  <2>4. Fixed(at)'
    BY <1>1, <1>2, <1>9, <2>1, <2>2, <2>3 DEF Fixed
  <2>5. /\ pc' \in [Streams -> {"start", "entry", "get", "wait", "sleep", "ref", "goodbye", "inject", "open",
                                "header", "copy", "content", "tail", "fail", "closed"}]
        /\ pc'["payload"] = "header" /\ pc'["meta"] = pc["meta"]
    BY <1>9, Consts DEF Moves, TypeEmit
  <2>6. TypeBound' /\ Ledger'
    BY <1>1, <1>9, LedgerKept DEF TypeBound
  <2>7. Slots'
    BY <1>1, <1>9, <2>3, CountKept DEF Slots
  <2> QED
    BY <1>1, <1>9, <2>3, <2>4, <2>5, <2>6, <2>7, PayloadTurns
<1>10. CASE async /\ EmitterFails("payload") /\ UNCHANGED <<bound, sizes, lerr, window>>
  BY <1>1, <1>6, <1>7, <1>10, Consts, FailsKeep DEF planVars, ctxVars, dispVars, readVars
<1>11. ASSUME NEW s \in Binds, ~async, bound' = Append(bound, s), Publish(s),
              pc' = Woken([pc EXCEPT !["payload"] = IF s = -1 THEN "fail" ELSE "header"]),
              outcome' = [outcome EXCEPT !["payload"] = IF s = -1 THEN "error" ELSE @],
              UNCHANGED <<pos, window>>
       PROVE  SplitInv'
  <2>1. /\ sizes' \in Seq(Nat) /\ lerr' \in BOOLEAN /\ bound' \in Seq(Nat \union {-1}) /\ s \in Nat \union {-1}
        /\ Len(bound') = Len(bound) + 1 /\ bound'[Len(bound) + 1] = s
        /\ Len(sizes') <= Len(bound') /\ \A x \in 1 .. Len(sizes') : sizes'[x] = bound'[x]
        /\ ~lerr' => Len(sizes') = Len(bound')
    BY <1>11, Bound
  <2>2. TypeBound'
    BY <1>1, <1>11, <2>1 DEF TypeBound
  <2>3. Ledger'
    <3>1. delivered <= Len(bound') /\ handed <= Len(bound')
      BY <1>7, <2>1 DEF Ledger, TypeBound
    <3> QED
      BY <1>1, <2>1, <3>1 DEF Ledger
  <2>4. CASE s = -1
    <3>1. pc' = Woken([pc EXCEPT !["payload"] = "fail"]) /\ outcome' = [outcome EXCEPT !["payload"] = "error"]
      BY <1>11, <2>4
    <3> QED
      BY <1>1, <1>6, <1>11, <2>1, <2>2, <2>3, <3>1, PayloadEnds
  <2>5. CASE s # -1
    <3>1. pc' = Woken([pc EXCEPT !["payload"] = "header"]) /\ outcome' = outcome
      BY <1>11, <2>5 DEF TypeEmit
    <3>2. /\ pc' \in [Streams -> {"start", "entry", "get", "wait", "sleep", "ref", "goodbye", "inject", "open",
                                  "header", "copy", "content", "tail", "fail", "closed"}]
          /\ pc'["payload"] = "header"
          /\ pc'["meta"] = pc["meta"] \/ (pc["meta"] = "sleep" /\ pc'["meta"] = "get")
      BY <3>1, PayloadWakes
    <3>3. at' = at /\ ReadsBefore(at)' = ReadsBefore(at)
      BY <1>1, <1>11, CountKept DEF at
    <3>4. Len(bound) = n /\ dpc = "exit" /\ window = 0
      BY <1>1, <1>2, <1>4, <1>7, <1>11 DEF Slots
    <3>5. Fixed(at)'
      <4>1. n + 1 \in 1 .. n + 1 /\ Len(bound') = n + 1 /\ bound'[n + 1] \in Nat
        BY <2>1, <2>5, <3>4
      <4> QED
        BY <1>1, <1>2, <1>5, <3>3, <4>1 DEF Fixed
    <3>6. Slots'
      BY <1>1, <1>2, <1>4, <1>11, <2>1, <3>2, <3>3, <3>4 DEF Slots
    <3> QED
      BY <1>1, <1>11, <2>1, <2>2, <2>3, <3>1, <3>2, <3>5, <3>6, PayloadTurns
  <2> QED
    BY <2>4, <2>5
<1> QED
  BY <1>2, <1>8, <1>9, <1>10, <1>11 DEF OpenPayload, at

LEMMA CopyPayloadKeeps ==
  ASSUME SplitInv, CopyPayload
  PROVE  SplitInv'
<1> USE DEF SplitInv, Control, TypeOK
<1>1. /\ UNCHANGED <<prev, changed, async, plan, canceled, userCanceled, sizes, lerr, watching, dpc, bound, delivered, handed, inPipe, refOffset, refs, pay, rpc, failed, ret>>
      /\ pc["payload"] = "copy"
  BY DEF CopyPayload, planVars, ctxVars, dispVars, readVars
<1>2. PICK i : i = at
  OBVIOUS
<1>3. /\ i \in Files /\ ~plan[i].reuse /\ i \in 1 .. N + 1 /\ i + 1 \in 1 .. N + 1 /\ (i + 1) - 1 = i
      /\ ReadSeq = plan[i].readSeq /\ Fixed(i)
  BY <1>1, <1>2, Consts DEF PayloadPhases, ReadSeq, at
<1>4. PICK b \in Nat : b = bound[plan[i].readSeq]
  BY <1>3 DEF Fixed
<1>5. /\ inPipe' \in [Streams -> BOOLEAN] /\ ~inPipe'["payload"] /\ inPipe'["meta"] = inPipe["meta"]
      /\ \A t \in Streams : t # "payload" => inPipe'[t] = inPipe[t]
  BY <1>1, Consts DEF TypeEmit, Outcomes, Writes
<1>6. \/ b = 0 /\ Advance(i + 1) /\ window' = SlotReturned(TRUE) /\ UNCHANGED outcome
      \/ Moves("payload", i, "content") /\ UNCHANGED <<outcome, window>>
      \/ EmitterFails("payload") /\ window' = SlotReturned(TRUE)
  BY <1>2, <1>3, <1>4 DEF CopyPayload, at
<1>7. CASE b = 0 /\ Advance(i + 1) /\ window' = SlotReturned(TRUE) /\ UNCHANGED outcome
  <2>1. PICK q : q = i + 1
    OBVIOUS
  <2>2. NextEntry(i + 1) = q
    BY <1>3, <2>1, EntryAfterRead
  <2>3. PICK c : c = PayloadPc(q)
    OBVIOUS
  <2>4. q \in 1 .. N + 1 /\ c \in {"inject", "open", "tail"}
    BY <1>3, <2>2, <2>3, Arrives
  <2>5. /\ pos' = [pos EXCEPT !["payload"] = q]
        /\ pc' \in [Streams -> {"start", "entry", "get", "wait", "sleep", "ref", "goodbye", "inject", "open",
                                "header", "copy", "content", "tail", "fail", "closed"}]
        /\ pc'["payload"] = c /\ pc'["meta"] = pc["meta"]
    BY <1>7, <2>2, <2>3, <2>4, Consts DEF Advance, Moves, TypeEmit
  <2>6. outcome' = [outcome EXCEPT !["payload"] = IF c = "closed" THEN "ok" ELSE @]
    BY <1>7, <2>4 DEF TypeEmit
  <2>7. /\ TypeEmit' /\ PlanFacts' /\ Outcomes' /\ MetaPhases' /\ Returned' /\ at' = q
        /\ outcome'["payload"] = (IF c = "closed" THEN "ok" ELSE "running")
    BY <1>1, <1>5, <2>4, <2>5, <2>6, PayloadStep
  <2>8. outcome'["payload"] = "running"
    BY <2>4, <2>7
  <2>9. TypeOut' /\ Layout'
    BY <1>1, <1>2, <1>4, <1>7, <2>1, <2>4, <2>5, <2>7, <2>8, ContentLays
  <2>10. Slots' /\ window' \in 0 .. Window
    BY <1>1, <1>2, <1>7, <2>1, <2>4, <2>5, <2>7, Releases
  <2>11. PayloadPhases'
    BY <1>1, <1>3, <2>2, <2>3, <2>5, <2>7, <2>8, Advances
  <2>12. TypePlan' /\ TypeBound' /\ TypeRead' /\ Ledger'
    BY <1>1, <2>10, LedgerKept DEF TypePlan, TypeBound, TypeRead
  <2> QED
    BY <2>7, <2>9, <2>10, <2>11, <2>12
<1>8. CASE Moves("payload", i, "content") /\ UNCHANGED <<outcome, window>>
  <2>1. pos' = pos /\ at' = at
    BY <1>2, <1>8 DEF Moves, at, TypeEmit
  <2>2. /\ pc' \in [Streams -> {"start", "entry", "get", "wait", "sleep", "ref", "goodbye", "inject", "open",
                                "header", "copy", "content", "tail", "fail", "closed"}]
        /\ pc'["payload"] = "content" /\ pc'["meta"] = pc["meta"]
    BY <1>8, Consts DEF Moves, TypeEmit
  <2>3. Fixed(at)'
    BY <1>1, <1>2, <1>3, <2>1 DEF Fixed
  <2>4. TypeBound' /\ Ledger'
    BY <1>1, <1>8, LedgerKept DEF TypeBound
  <2>5. Slots'
    BY <1>1, <1>8, <2>1, <2>2, CountKept DEF Slots
  <2> QED
    BY <1>1, <1>8, <2>1, <2>2, <2>3, <2>4, <2>5, PayloadTurns
<1>9. CASE EmitterFails("payload") /\ window' = SlotReturned(TRUE)
  <2>1. plan[i].readSeq <= Len(bound)
    BY <1>3, Types DEF Fixed
  <2>2. PICK closing \in BOOLEAN : closing = TRUE
    OBVIOUS
  <2>3. window' \in 0 .. Window /\ (~async => window' = 0)
    BY <1>1, <1>2, <1>3, <1>9, <2>1, <2>2, SlotBack
  <2> QED
    BY <1>1, <1>5, <1>9, <2>3, Consts, FailsKeep DEF planVars, ctxVars, dispVars, readVars
<1> QED
  BY <1>6, <1>7, <1>8, <1>9

-----------------------------------------------------------------------------
LEMMA SplitStep == SplitInv /\ [Next]_vars => SplitInv'
<1> SUFFICES ASSUME SplitInv, [Next]_vars PROVE SplitInv'
  OBVIOUS
<1>1. CASE Dispatch
  BY <1>1, DispatchKeeps
<1>2. CASE PayloadEmitter
  BY <1>2, Consts, BeginWriteKeeps, WriteRefusedKeeps, PayloadWrittenKeeps, OpenPayloadKeeps, CopyPayloadKeeps,
     PayloadFailedKeeps DEF PayloadEmitter
<1>3. CASE MetaEmitter
  BY <1>3, Consts, BeginWriteKeeps, WriteRefusedKeeps, MetaWrittenKeeps, UnresolvedLinkKeeps, NextRefKeeps, TurnsKeep
     DEF MetaEmitter
<1>4. CASE WakeOnCancel \/ Cleanup \/ UserCancel
  BY <1>4, TurnsKeep
<1>5. CASE \E s \in Streams : Upload(s)
  BY <1>5, UploadKeeps
<1>6. CASE CloseReaders
  BY <1>6, CloseReadersKeeps
<1>7. CASE UNCHANGED vars
  <2> USE DEF SplitInv, Control, TypeOK
  <2>1. UNCHANGED <<prev, changed, async, plan, canceled, userCanceled, sizes, lerr, watching, dpc, bound, delivered, handed, window, pc, pos, inPipe, outcome, refOffset, refs, pay, rpc, failed, ret>>
    BY <1>7 DEF vars, planVars, ctxVars, dispVars, readVars
  <2>2. TypePlan' /\ TypeBound' /\ TypeEmit' /\ TypeOut' /\ TypeRead'
    BY <2>1 DEF TypePlan, TypeBound, TypeEmit, TypeOut, TypeRead
  <2>3. at' = at /\ PlanFacts' /\ Outcomes' /\ MetaPhases'
    BY <2>1, PlanKept DEF at, Outcomes, MetaPhases, sent
  <2>4. PayloadPhases' /\ Slots' /\ Ledger' /\ Returned'
    BY <2>1, <2>3, PayloadKept, LedgerKept, ReturnedKept
  <2>5. Layout'
    BY <2>1, <2>3, BoundGrows, LayoutKept
  <2> QED
    BY <2>2, <2>3, <2>4, <2>5
<1> QED
  BY <1>1, <1>2, <1>3, <1>4, <1>5, <1>6, <1>7 DEF Next

\* The invariant holds in every reachable state.
LEMMA SplitInvariant == Spec => []SplitInv
  BY SplitInit, SplitStep, PTL DEF Spec

-----------------------------------------------------------------------------
\* A reference that is ahead of the payload stream refers to nothing yet but, at most, the
\* header that is out.
LEMMA AheadResolves ==
  ASSUME SplitInv, NEW S \in [1 .. N + 1 -> Nat], LaysOut(S), NEW i \in 1 .. sent, ~(i < at),
         NEW k \in 0 .. Sz(i), Off(S, i) + k < Len(pay)
  PROVE  pay[Off(S, i) + k + 1] = <<i, k, Sz(i)>>
<1> USE DEF SplitInv, Control
<1>1. N \in Nat /\ sent \in Nat /\ sent <= N /\ at \in Nat /\ at \in 1 .. N + 1 /\ Len(pay) \in Nat
  BY Consts, Types DEF MetaPhases
<1>2. i \in Files /\ at \in Files /\ i \in at .. i /\ i \in Nat /\ at <= i
  BY <1>1 DEF Files
<1>3. ASSUME NEW x \in at .. i PROVE x \in Files /\ Fixed(x) /\ S[x+1] = S[x] + Skip(x) /\ S[x] \in Nat /\ Skip(x) \in Nat
  <2>1. x \in Files /\ x <= sent
    BY <1>1, <1>2 DEF Files
  <2>2. Fixed(x) /\ S[x+1] = S[x] + Skip(x)
    BY <2>1 DEF LaysOut, Chain
  <2> QED
    BY <2>1, <2>2, SkipType, Consts
<1>4. \A x \in at .. i - 1 : S[x] <= S[x + 1]
  <2> SUFFICES ASSUME NEW x \in at .. i - 1 PROVE S[x] <= S[x + 1]
    OBVIOUS
  <2>1. x \in at .. i
    BY <1>2
  <2> QED
    BY <1>3, <2>1
<1>5. \A x \in at .. i : S[x] \in Int
  BY <1>3
<1>6. \A x, y \in at .. i : x <= y => S[x] <= S[y]
  <2>1. PICK a \in Nat : a = at
    BY <1>1
  <2>2. i \in Int
    BY <1>2
  <2>3. (\A x \in a .. i : S[x] \in Int) /\ \A x \in a .. i - 1 : S[x] <= S[x + 1]
    BY <1>4, <1>5, <2>1
  <2>4. \A x, y \in a .. i : x <= y => S[x] <= S[y]
    BY <2>2, <2>3, Climbs
  <2> QED
    BY <2>1, <2>4
<1>7. Sz(i) \in Nat /\ plan[i].rel \in Nat /\ S[i] \in Nat /\ S[at] \in Nat /\ S[at] <= S[i]
  BY <1>2, <1>3, <1>6, SkipType
<1>8. PICK o \in Nat : o = S[i] + plan[i].rel
  BY <1>7
<1>9. o + k < Len(pay) /\ o >= S[i] /\ k \in Nat
  BY <1>7, <1>8 DEF Off
<1>10. outcome["payload"] # "ok"
  BY <1>1, <1>2 DEF PayloadPhases, Files
<1>11. ~(Len(pay) <= S[at])
  BY <1>1, <1>7, <1>9
<1>12. HeaderOut(S)
  BY <1>10, <1>11 DEF LaysOut, Reached
<1>13. Len(pay) = S[at] + 1 /\ pay[S[at] + 1] = <<at, 0, Sz(at)>> /\ ~plan[at].reuse
  BY <1>12 DEF HeaderOut, HeaderSize
<1>14. CASE i = at
  <2>1. plan[i].rel = 0
    BY <1>2, <1>13, <1>14 DEF PlanFacts
  <2>2. o = S[at] /\ k = 0
    BY <1>7, <1>8, <1>9, <1>13, <1>14, <2>1
  <2>3. o + k + 1 = o + 1 /\ Off(S, i) = o
    BY <1>8, <2>2 DEF Off
  <2> QED
    BY <1>13, <1>14, <2>2, <2>3
<1>15. CASE i # at
  <2>1. at + 1 \in at .. i /\ at \in at .. i
    BY <1>2, <1>15
  <2>2. S[at + 1] <= S[i] /\ S[at + 1] = S[at] + Skip(at) /\ Skip(at) \in Nat
    BY <1>2, <1>3, <1>6, <2>1
  <2>3. Skip(at) >= 1
    <3>1. bound[plan[at].readSeq] \in Nat
      BY <1>2, <1>3, <1>13, <2>1 DEF Fixed
    <3> QED
      BY <1>13, <3>1 DEF Skip, SkipRecord, HeaderSize
  <2>4. S[i] >= S[at] + 1
    BY <1>7, <2>2, <2>3
  <2> QED
    BY <1>7, <1>9, <1>13, <2>4
<1> QED
  BY <1>14, <1>15

LEMMA Resolves == SplitInv => RefsResolve
<1> SUFFICES ASSUME SplitInv, NEW i \in 1 .. Len(refs), NEW k \in 0 .. refs[i].size, refs[i].offset + k < Len(pay)
             PROVE  pay[refs[i].offset + k + 1] = <<i, k, refs[i].size>>
  BY DEF RefsResolve
<1> USE DEF SplitInv, Control
<1>1. PICK S \in [1 .. N + 1 -> Nat] : LaysOut(S)
  BY DEF Layout
<1>2. i \in 1 .. sent /\ i \in Files
  BY Consts, Types DEF sent, MetaPhases, Files
<1>3. refs[i].offset = Off(S, i) /\ refs[i].size = Sz(i)
  BY <1>1, <1>2 DEF LaysOut, Referred
<1>4. CASE i < at
  BY <1>1, <1>2, <1>3, <1>4 DEF LaysOut, Written, WrittenAt
<1>5. CASE ~(i < at)
  BY <1>1, <1>2, <1>3, <1>5, AheadResolves
<1> QED
  BY <1>4, <1>5

LEMMA CompletePair == SplitInv => PairComplete
<1> SUFFICES ASSUME SplitInv, \A s \in Streams : ret[s] = "ok"
             PROVE  /\ Len(refs) = N
                    /\ \A i \in 1 .. N : /\ refs[i].offset + RecordLen(refs[i].size) <= Len(pay)
                                         /\ \A k \in 0 .. refs[i].size :
                                              pay[refs[i].offset + k + 1] = <<i, k, refs[i].size>>
  BY DEF PairComplete
<1> USE DEF SplitInv, Control
<1>1. sent = N /\ at = N + 1 /\ N \in Nat
  BY Consts DEF Returned, MetaPhases, PayloadPhases
<1>2. PICK S \in [1 .. N + 1 -> Nat] : LaysOut(S)
  BY DEF Layout
<1>3. ASSUME NEW i \in 1 .. N
      PROVE  /\ refs[i].offset + RecordLen(refs[i].size) <= Len(pay)
             /\ \A k \in 0 .. refs[i].size : pay[refs[i].offset + k + 1] = <<i, k, refs[i].size>>
  <2>1. i \in Files /\ i < at /\ i \in 1 .. sent
    BY <1>1 DEF Files
  <2>2. refs[i].offset = Off(S, i) /\ refs[i].size = Sz(i) /\ WrittenAt(S, i)
    BY <1>2, <2>1 DEF LaysOut, Referred, Written
  <2> QED
    BY <2>2 DEF WrittenAt
<1> QED
  BY <1>1, <1>3 DEF sent

\* Generating a split archive keeps its variables within their types, whatever the order of
\* the dispatcher, the emitters, the ledger's watcher and the uploads: in particular every
\* offset planReuse computes from the previous snapshot lies in the span it injects, and the
\* window of open payloads is never exceeded nor given back twice.
THEOREM SplitTypes == Spec => []TypeOK
  BY SplitInvariant, PTL DEF SplitInv

\* Every reference refReader.next hands to the metadata stream points at the record of its
\* file in the payload stream, for every plan, previous snapshot, failure and cancellation,
\* and whichever of the two streams is ahead.
THEOREM RefsPointAtRecords == Spec => []RefsResolve
  BY SplitInvariant, Resolves, PTL

\* When both uploads of a split backup succeed, the stored pair is complete: one reference
\* per file, and each record referred to is in the payload stream to its last unit.
THEOREM PairsComplete == Spec => []PairComplete
  BY SplitInvariant, CompletePair, PTL

=============================================================================
