--------------------------- MODULE PxarEmitProofs ---------------------------
(***************************************************************************)
(* Proofs about PxarEmit, for any tree in archive order, any kinds, sizes, *)
(* extended metadata and hash: the sizes announced are the sizes written.  *)
(***************************************************************************)
EXTENDS PxarEmit, SequenceLemmas, FiniteSetTheorems

-----------------------------------------------------------------------------
(* The inductive invariant, said of a stack fs of directories being written and the node a to
   write next *)

N == Len(nodes)
HeaderSize == IF V2 THEN IF in.exclude = <<>> THEN 1 ELSE 2 ELSE 0
PayloadSize(n) == IF n.kind = "file" THEN 1 + n.size ELSE 0
Sizes == [i \in 1 .. N |-> NodeSize(nodes[i])]
PayloadSizes == [i \in 1 .. N |-> PayloadSize(nodes[i])]

ItemType == [hash : {Hash(n) : n \in Int}, start : Nat, length : Int]
FrameType == [path : Seq(Int), start : Nat, items : Seq(ItemType), entry : Nat]
IsSeq(s) == \E T : s \in Seq(T)

\* The children of p among the first m nodes.
Kids(p, m) == {i \in 2 .. m : Front(nodes[i].path) = p}

IsOpen(fs, p) == \E j \in 1 .. Len(fs) : fs[j].path = p

\* The stack leads from the root down.  Its directories are written, and the others that are
\* have no child to come.
Nested(fs, a) ==
  /\ \A j \in 1 .. Len(fs) : /\ Len(fs[j].path) = j - 1
                             /\ \E i \in 1 .. a - 1 : nodes[i].kind = "dir" /\ nodes[i].path = fs[j].path
  /\ \A i \in 1 .. a - 1 : nodes[i].kind = "dir" =>
       IsOpen(fs, nodes[i].path) \/ \A k \in a .. N : Front(nodes[k].path) # nodes[i].path

\* A directory has an item for each child written, but for the one being written.
Itemized(fs, a) ==
  \A j \in 1 .. Len(fs) :
    Cardinality(Kids(fs[j].path, a - 1)) = Len(fs[j].items) + (IF j < Len(fs) THEN 1 ELSE 0)

Frames(fs, a) ==
  /\ fs \in Seq(FrameType) /\ a \in 1 .. N + 1 /\ (a = 1 <=> fs = <<>>)
  /\ Nested(fs, a) /\ Itemized(fs, a)

\* c cells are the first m nodes without the goodbye tables of the directories being written.
OpenSizes(fs) == [j \in 1 .. Len(fs) |-> SizeGoodbye(ChildCount(fs[j].path))]
Sized(m, c) == \E S : IsSums(S, N, Sizes) /\ c = HeaderSize + S[m]
Written(fs, m, c) == \E g : IsSums(g, Len(fs), OpenSizes(fs)) /\ Sized(m, c + g[Len(fs)])

\* c cells of payload stream are markers many markers and the content of the first m nodes.
Paid(m, c, markers) == V2 => \E P : IsSums(P, N, PayloadSizes) /\ c = markers + P[m]

EmitInv ==
  /\ epc \in {"off", "run", "done", "failed"}
  /\ epc # "off" => spc = "done" /\ IsSeq(cells) /\ IsSeq(pay)
  /\ epc = "off" => at = 1 /\ frames = <<>>
  /\ epc = "run" => Frames(frames, at) /\ Written(frames, at - 1, Len(cells)) /\ Paid(at - 1, Len(pay), 1)
  /\ epc = "done" => Sized(N, Len(cells)) /\ Paid(N, Len(pay), 2)

-----------------------------------------------------------------------------
(* FoldLeft's sum is the last partial sum. *)

LEMMA Greatest ==
  ASSUME NEW n \in Nat, NEW s \in SUBSET (1 .. n), s # {}
  PROVE  /\ Max(s) \in s /\ Max(s) \in 1 .. n
         /\ \A y \in s : y <= Max(s)
<1> DEFINE B == {b \in Nat : \A y \in s : y <= b}
<1>1. B \subseteq Nat /\ n \in B
  OBVIOUS
<1>2. PICK b \in B : \A c \in B : b <= c
  BY <1>1, Least
<1>3. b \in Nat /\ \A y \in s : y <= b
  OBVIOUS
<1>4. b \in s
  <2> SUFFICES ASSUME b \notin s PROVE FALSE
    OBVIOUS
  <2>1. \A y \in s : y \in Nat /\ 1 <= y /\ y <= b - 1
    BY <1>3
  <2>2. b - 1 \in Nat /\ \A y \in s : y <= b - 1
    <3>1. PICK y \in s : TRUE
      OBVIOUS
    <3>2. y \in Nat /\ 1 <= y /\ y <= b - 1
      BY <2>1
    <3> QED
      BY <1>3, <2>1, <3>2
  <2>3. b - 1 \in B
    BY <2>2
  <2> HIDE DEF B
  <2> QED
    BY <1>2, <1>3, <2>3
<1>5. \E x \in s : \A y \in s : x >= y
  BY <1>3, <1>4
<1>6. Max(s) \in s /\ \A y \in s : Max(s) >= y
  BY <1>5, Zenon DEF Max
<1>7. \A y \in s : y \in Int
  OBVIOUS
<1> QED
  BY <1>6, <1>7

\* The function FoldLeft recurses with, of the weights w.
Folds(it, n, w) ==
  it = [s \in SUBSET (1 .. n) |-> IF s = {} THEN 0 ELSE it[s \ {Max(s)}] + w[Max(s)]]

\* The weights outside s count nothing.
Only(s, n, w) == [k \in 1 .. n |-> IF k \in s THEN w[k] ELSE 0]
SumsOf(s, n, w) == CHOOSE f : IsSums(f, n, Only(s, n, w))

LEMMA SumsOfSubset ==
  ASSUME NEW n \in Nat, NEW w \in [1 .. n -> Nat], NEW s
  PROVE  Only(s, n, w) \in [1 .. n -> Nat] /\ IsSums(SumsOf(s, n, w), n, Only(s, n, w))
<1>1. Only(s, n, w) \in [1 .. n -> Nat]
  BY DEF Only
<1>2. \E f : IsSums(f, n, Only(s, n, w))
  BY <1>1, PartialSums
<1>3. IsSums(SumsOf(s, n, w), n, Only(s, n, w))
  BY <1>2, Zenon DEF SumsOf
<1> QED
  BY <1>1, <1>3

LEMMA SumsOfLess ==
  ASSUME NEW n \in Nat, NEW w \in [1 .. n -> Nat], NEW s \in SUBSET (1 .. n), NEW m \in s
  PROVE  SumsOf(s, n, w)[n] = SumsOf(s \ {m}, n, w)[n] + w[m]
<1>1. PICK t : t = s \ {m}
  OBVIOUS
<1>2. PICK u : u = Only(s, n, w)
  OBVIOUS
<1>3. PICK v : v = Only(t, n, w)
  OBVIOUS
<1>4. u \in [1 .. n -> Nat] /\ IsSums(SumsOf(s, n, w), n, u)
  BY <1>2, SumsOfSubset
<1>5. v \in [1 .. n -> Nat] /\ IsSums(SumsOf(t, n, w), n, v)
  BY <1>3, SumsOfSubset
<1>6. m \in 1 .. n /\ w[m] \in Nat
  OBVIOUS
<1>7. \A k \in 1 .. n : k # m => u[k] = v[k]
  BY <1>1, <1>2, <1>3 DEF Only
<1>8. u[m] = v[m] + w[m]
  BY <1>1, <1>2, <1>3, <1>6 DEF Only
<1>9. PICK f : f = SumsOf(s, n, w)
  OBVIOUS
<1>10. PICK g : g = SumsOf(t, n, w)
  OBVIOUS
<1>11. IsSums(f, n, u) /\ IsSums(g, n, v)
  BY <1>4, <1>5, <1>9, <1>10
<1>12. f[n] = g[n] + w[m]
  <2>1. DifferAt(u, v, n, m, w[m])
    BY <1>4, <1>5, <1>6, <1>7, <1>8 DEF DifferAt
  <2> QED
    BY <1>11, <2>1, OneMore
<1> QED
  BY <1>1, <1>9, <1>10, <1>12

LEMMA FoldExists ==
  ASSUME NEW n \in Nat, NEW w \in [1 .. n -> Nat]
  PROVE  \E it : Folds(it, n, w)
<1> DEFINE it == [s \in SUBSET (1 .. n) |-> IF s = {} THEN 0 ELSE SumsOf(s, n, w)[n]]
<1>0. SumsOf({}, n, w)[n] = 0
  <2>1. PICK u : u = Only({}, n, w)
    OBVIOUS
  <2>2. IsSums(SumsOf({}, n, w), n, u)
    BY <2>1, SumsOfSubset
  <2>3. \A k \in 1 .. n : u[k] = 0
    BY <2>1 DEF Only
  <2> QED
    BY <2>2, <2>3, NothingToSum
<1>1. ASSUME NEW s \in SUBSET (1 .. n), s # {}
      PROVE  SumsOf(s, n, w)[n] = it[s \ {Max(s)}] + w[Max(s)]
  <2>1. Max(s) \in s
    BY <1>1, Greatest
  <2>2. SumsOf(s, n, w)[n] = SumsOf(s \ {Max(s)}, n, w)[n] + w[Max(s)]
    BY <2>1, SumsOfLess
  <2>3. it[s \ {Max(s)}] = SumsOf(s \ {Max(s)}, n, w)[n]
    BY <1>0
  <2> HIDE DEF it
  <2> QED
    BY <2>2, <2>3
<1>2. Folds(it, n, w)
  <2>1. it = [s \in SUBSET (1 .. n) |-> IF s = {} THEN 0 ELSE it[s \ {Max(s)}] + w[Max(s)]]
    BY <1>1
  <2> QED
    BY <2>1 DEF Folds
<1> QED
  BY <1>2

LEMMA FoldIsSum ==
  ASSUME NEW n \in Nat, NEW w \in [1 .. n -> Nat], NEW it, Folds(it, n, w), NEW f, IsSums(f, n, w)
  PROVE  it[1 .. n] = f[n]
<1> DEFINE T == {k \in 0 .. n : it[1 .. k] # f[k]}
<1>1. it[1 .. 0] = f[0]
  <2>1. 1 .. 0 = {}
    OBVIOUS
  <2> QED
    BY <2>1 DEF Folds, IsSums
<1>2. ASSUME NEW k \in 1 .. n PROVE it[1 .. k] = it[1 .. k - 1] + w[k] /\ f[k] = f[k - 1] + w[k]
  <2>1. /\ 1 .. k \in SUBSET (1 .. n) /\ 1 .. k # {} /\ k \in 1 .. k
        /\ (1 .. k) \ {k} = 1 .. k - 1
    <3>1. k \in Nat /\ k \in 1 .. k
      OBVIOUS
    <3>2. \A x : x \in 1 .. k => x \in 1 .. n
      OBVIOUS
    <3>3. \A x : x \in 1 .. k - 1 <=> x \in 1 .. k /\ x # k
      BY <3>1, ButLast
    <3> QED
      BY <3>1, <3>2, <3>3
  <2>2. Max(1 .. k) = k
    <3>1. /\ Max(1 .. k) \in 1 .. k
          /\ \A y \in 1 .. k : y <= Max(1 .. k)
      BY <2>1, Greatest
    <3>2. k <= Max(1 .. k)
      BY <2>1, <3>1
    <3> QED
      BY <3>1, <3>2
  <2>3. it[1 .. k] = it[(1 .. k) \ {Max(1 .. k)}] + w[Max(1 .. k)]
    BY <2>1 DEF Folds
  <2> QED
    BY <2>1, <2>2, <2>3 DEF IsSums
<1>3. SUFFICES ASSUME T # {} PROVE FALSE
  OBVIOUS
<1>4. PICK k \in T : \A y \in T : k <= y
  <2>1. T \subseteq Nat
    OBVIOUS
  <2> QED
    BY <1>3, <2>1, Least
<1>5. k \in 1 .. n
  BY <1>1
<1>6. k - 1 \notin T /\ k - 1 \in 0 .. n
  <2>1. k - 1 \in 0 .. n /\ ~(k <= k - 1)
    BY <1>5
  <2> HIDE DEF T
  <2> QED
    BY <1>4, <2>1
<1> QED
  BY <1>2, <1>5, <1>6

-----------------------------------------------------------------------------
(* Sizes *)

LEMMA ConcatLen ==
  ASSUME NEW s, NEW t, IsSeq(s), IsSeq(t)
  PROVE  IsSeq(s \o t) /\ Len(s \o t) = Len(s) + Len(t) /\ Len(s) \in Nat /\ Len(t) \in Nat
<1>1. PICK S : s \in Seq(S)
  BY DEF IsSeq
<1>2. PICK T : t \in Seq(T)
  BY DEF IsSeq
<1>3. s \in Seq(S \union T) /\ t \in Seq(S \union T)
  BY <1>1, <1>2
<1>4. s \o t \in Seq(S \union T) /\ Len(s \o t) = Len(s) + Len(t)
  BY <1>3, ConcatAt
<1> QED
  BY <1>3, <1>4 DEF IsSeq

LEMMA OneCell == ASSUME NEW c PROVE IsSeq(<<c>>) /\ Len(<<c>>) = 1
<1>1. <<c>> \in Seq({c})
  OBVIOUS
<1> QED
  BY <1>1 DEF IsSeq

LEMMA CellsLen == ASSUME NEW t, NEW v, NEW n \in Nat PROVE IsSeq(Cells(t, v, n)) /\ Len(Cells(t, v, n)) = n
<1>1. Cells(t, v, n) \in [1 .. n -> {Cell(t, v)}]
  BY DEF Cells
<1>2. Cells(t, v, n) \in Seq({Cell(t, v)}) /\ Len(Cells(t, v, n)) = n
  BY <1>1, SequenceOf
<1> QED
  BY <1>2 DEF IsSeq

LEMMA GoodbyeLen ==
  ASSUME NEW T, NEW items \in Seq(T), NEW a, NEW b
  PROVE  IsSeq(Goodbye(items, a, b)) /\ Len(Goodbye(items, a, b)) = Len(items) + 2
<1> DEFINE tree == PermuteBST(SortByHash(items))
           mid == [i \in 1 .. Len(items) |-> Cell("item",
                     [hash |-> tree[i].hash, off |-> b - tree[i].start, length |-> tree[i].length])]
           head == <<Cell("goodbye", Len(items) + 2)>>
           tail == <<Cell("tail", [off |-> b - a, size |-> Len(items) + 2])>>
<1>1. Goodbye(items, a, b) = head \o mid \o tail
  BY DEF Goodbye
<1>2. IsSeq(mid) /\ Len(mid) = Len(items)
  <2>1. Len(items) \in Nat
    OBVIOUS
  <2>2. mid \in [1 .. Len(items) -> {mid[i] : i \in 1 .. Len(items)}]
    OBVIOUS
  <2> HIDE DEF mid
  <2> QED
    BY <2>1, <2>2, SequenceOf DEF IsSeq
<1>3. IsSeq(head) /\ Len(head) = 1 /\ IsSeq(tail) /\ Len(tail) = 1
  BY OneCell
<1> HIDE DEF mid, head, tail
<1>4. IsSeq(head \o mid) /\ Len(head \o mid) = 1 + Len(items) /\ Len(items) \in Nat
  BY <1>2, <1>3, ConcatLen
<1>5. IsSeq((head \o mid) \o tail) /\ Len((head \o mid) \o tail) = (1 + Len(items)) + 1
  <2>1. PICK hm : hm = head \o mid
    OBVIOUS
  <2>2. IsSeq(hm \o tail) /\ Len(hm \o tail) = Len(hm) + Len(tail)
    BY <1>3, <1>4, <2>1, ConcatLen
  <2> QED
    BY <1>3, <1>4, <2>1, <2>2
<1> QED
  BY <1>1, <1>4, <1>5

-----------------------------------------------------------------------------
(* The tree *)

LEMMA FrontAt ==
  ASSUME NEW S, NEW s \in Seq(S), s # <<>>
  PROVE  /\ Front(s) \in Seq(S) /\ Len(Front(s)) = Len(s) - 1 /\ Len(s) \in Nat /\ Len(s) >= 1
         /\ Last(s) \in S
         /\ \A x \in 1 .. Len(s) - 1 : Front(s)[x] = s[x]
<1>1. Len(s) \in Nat /\ Len(s) >= 1 /\ Len(s) - 1 \in Nat
  BY EmptyLen
<1>2. Last(s) \in S
  BY <1>1, ElementType DEF Last
<1>3. PICK n \in Nat : n = Len(s) - 1
  BY <1>1
<1>4. /\ SubSeq(s, 1, n) \in Seq(S) /\ Len(SubSeq(s, 1, n)) = n - 1 + 1
      /\ \A x \in 1 .. n - 1 + 1 : SubSeq(s, 1, n)[x] = s[1 + x - 1]
  BY <1>1, <1>3, SubSeqAt
<1>5. n - 1 + 1 = n /\ \A x \in 1 .. n : 1 + x - 1 = x
  OBVIOUS
<1>6. Front(s) = SubSeq(s, 1, n)
  BY <1>3 DEF Front
<1> QED
  BY <1>1, <1>2, <1>3, <1>4, <1>5, <1>6

LEMMA NodeTypes ==
  ASSUME TreeInOrder
  PROVE  /\ N \in Nat /\ N >= 1 /\ DOMAIN nodes = 1 .. N
         /\ \A i \in 1 .. N : /\ nodes[i] \in NodeType /\ nodes[i].path \in Seq(Int)
                              /\ nodes[i].size \in Nat /\ nodes[i].x \in Nat
                              /\ nodes[i].kind \in {"dir", "file", "symlink", "fifo", "device", "hardlink"}
         /\ nodes[1].path = <<>> /\ nodes[1].kind = "dir"
         /\ \A i, j \in 1 .. N : nodes[i].path = nodes[j].path => i = j
<1>1. nodes \in Seq(NodeType) /\ nodes # <<>>
  BY DEF TreeInOrder
<1>2. N \in Nat /\ N >= 1 /\ DOMAIN nodes = 1 .. N
  BY <1>1 DEF N
<1>3. \A i \in 1 .. N : nodes[i] \in NodeType
  BY <1>1, ElementType DEF N
<1>4. ASSUME NEW i \in 1 .. N
      PROVE  /\ nodes[i].path \in Seq(Int) /\ nodes[i].size \in Nat /\ nodes[i].x \in Nat
             /\ nodes[i].kind \in {"dir", "file", "symlink", "fifo", "device", "hardlink"}
  BY <1>3 DEF NodeType, Kinds
<1> QED
  BY <1>2, <1>3, <1>4 DEF TreeInOrder

LEMMA Below1 ==
  ASSUME TreeInOrder, NEW k \in 2 .. N
  PROVE  /\ k \in 1 .. N /\ nodes[k].path # <<>> /\ Len(nodes[k].path) \in Nat
         /\ Front(nodes[k].path) \in Seq(Int) /\ Len(Front(nodes[k].path)) = Len(nodes[k].path) - 1
         /\ Last(nodes[k].path) \in Int
<1>1. k \in 1 .. N /\ 1 \in 1 .. N /\ k # 1
  BY NodeTypes
<1>2. nodes[k].path \in Seq(Int) /\ nodes[k].path # <<>>
  BY <1>1, NodeTypes
<1> QED
  BY <1>1, <1>2, FrontAt

LEMMA ParentOf ==
  ASSUME TreeInOrder, NEW k \in 2 .. N
  PROVE  \E i \in 1 .. k - 1 : /\ nodes[i].kind = "dir" /\ nodes[i].path = Front(nodes[k].path)
                               /\ \A m \in i + 1 .. k - 1 : Len(nodes[m].path) > Len(nodes[i].path)
  BY DEF TreeInOrder, N

LEMMA KidsFinite ==
  ASSUME NEW p, NEW m \in Nat
  PROVE  IsFiniteSet(Kids(p, m)) /\ Cardinality(Kids(p, m)) \in Nat
<1>1. IsFiniteSet(2 .. m)
  BY FS_Interval
<1>2. Kids(p, m) \subseteq 2 .. m
  BY DEF Kids
<1> QED
  BY <1>1, <1>2, FS_Subset, FS_CardinalityType

LEMMA CountKids ==
  ASSUME TreeInOrder, NEW p
  PROVE  ChildCount(p) = Cardinality(Kids(p, N)) /\ ChildCount(p) \in Nat
<1>1. {i \in DOMAIN nodes : nodes[i].path # <<>> /\ Front(nodes[i].path) = p} = Kids(p, N)
  <2>1. \A i : i \in 2 .. N <=> i \in 1 .. N /\ i # 1
    BY NodeTypes
  <2>2. \A i \in 2 .. N : nodes[i].path # <<>>
    BY Below1
  <2> QED
    BY <2>1, <2>2, NodeTypes DEF Kids
<1> QED
  BY <1>1, NodeTypes, KidsFinite DEF ChildCount

LEMMA KidsGrow ==
  ASSUME NEW p, NEW m \in Nat, m >= 2
  PROVE  Cardinality(Kids(p, m)) = Cardinality(Kids(p, m - 1)) + (IF Front(nodes[m].path) = p THEN 1 ELSE 0)
<1>1. \A i : i \in 2 .. m <=> i \in 2 .. m - 1 \/ i = m
  OBVIOUS
<1>2. m \notin 2 .. m - 1
  OBVIOUS
<1>3. CASE Front(nodes[m].path) = p
  <2>1. Kids(p, m) = Kids(p, m - 1) \union {m} /\ m \notin Kids(p, m - 1)
    BY <1>1, <1>2, <1>3 DEF Kids
  <2>2. m - 1 \in Nat
    OBVIOUS
  <2>3. IsFiniteSet(Kids(p, m - 1)) /\ Cardinality(Kids(p, m - 1)) \in Nat
    BY <2>2, KidsFinite
  <2>4. Cardinality(Kids(p, m - 1) \union {m}) = Cardinality(Kids(p, m - 1)) + 1
    BY <2>1, <2>3, FS_AddElement
  <2> QED
    BY <1>3, <2>1, <2>4
<1>4. CASE Front(nodes[m].path) # p
  <2>1. Kids(p, m) = Kids(p, m - 1)
    BY <1>1, <1>4 DEF Kids
  <2>2. m - 1 \in Nat
    OBVIOUS
  <2> QED
    BY <1>4, <2>1, <2>2, KidsFinite
<1> QED
  BY <1>3, <1>4

\* A directory comes before its content.
LEMMA NoKidsYet ==
  ASSUME TreeInOrder, NEW i \in 1 .. N
  PROVE  Cardinality(Kids(nodes[i].path, i)) = 0
<1>1. ASSUME NEW k \in Kids(nodes[i].path, i) PROVE FALSE
  <2>1. k \in 2 .. N /\ k <= i /\ Front(nodes[k].path) = nodes[i].path
    BY NodeTypes DEF Kids
  <2>2. PICK h \in 1 .. k - 1 : nodes[h].path = Front(nodes[k].path)
    BY <2>1, ParentOf
  <2>3. h \in 1 .. N /\ h # i
    BY <2>1, NodeTypes
  <2> QED
    BY <2>1, <2>2, <2>3, NodeTypes
<1>2. Kids(nodes[i].path, i) = {}
  BY <1>1
<1> QED
  BY <1>2, FS_EmptySet

\* The directory of the next node is being written.
LEMMA ParentOpen ==
  ASSUME TreeInOrder, NEW fs, NEW a \in 2 .. N, Frames(fs, a)
  PROVE  \E j \in 1 .. Len(fs) : fs[j].path = Front(nodes[a].path)
<1>1. PICK i \in 1 .. a - 1 : nodes[i].kind = "dir" /\ nodes[i].path = Front(nodes[a].path)
  BY ParentOf
<1>2. a \in a .. N
  BY NodeTypes
<1>3. IsOpen(fs, nodes[i].path)
  BY <1>1, <1>2 DEF Frames, Nested
<1> QED
  BY <1>1, <1>3 DEF IsOpen

\* When the next node is not in the innermost directory, all of that one's children are written.
LEMMA Complete ==
  ASSUME TreeInOrder, NEW fs, NEW a \in 2 .. N + 1, Frames(fs, a), NEW d \in Nat, d = Len(fs), d >= 1,
         a <= N => Front(nodes[a].path) # fs[d].path
  PROVE  /\ \A k \in a .. N : Front(nodes[k].path) # fs[d].path
         /\ ChildCount(fs[d].path) = Len(fs[d].items)
         /\ d = 1 => a = N + 1
<1>1. N \in Nat /\ d \in 1 .. Len(fs)
  BY NodeTypes
<1>2. Len(fs[d].path) = d - 1
  BY <1>1 DEF Frames, Nested
<1>3. ASSUME a <= N PROVE d # 1 /\ Len(nodes[a].path) <= d - 1
  <2>1. a \in 2 .. N
    BY <1>1, <1>3
  <2>2. PICK j \in 1 .. Len(fs) : fs[j].path = Front(nodes[a].path)
    BY <2>1, ParentOpen
  <2>3. j # d
    BY <1>3, <2>2
  <2>4. Len(fs[j].path) = j - 1
    BY <2>2 DEF Frames, Nested
  <2>5. Len(Front(nodes[a].path)) = Len(nodes[a].path) - 1 /\ Len(nodes[a].path) \in Nat
    BY <2>1, Below1
  <2>6. Len(nodes[a].path) - 1 = j - 1
    BY <2>2, <2>4, <2>5
  <2> QED
    BY <2>3, <2>5, <2>6
<1>4. ASSUME NEW k \in a .. N, Front(nodes[k].path) = fs[d].path PROVE FALSE
  <2>1. a <= N /\ k # a /\ k \in 2 .. N /\ a \in 1 .. N
    BY <1>1, <1>4
  <2>2. PICK h \in 1 .. k - 1 : /\ nodes[h].path = Front(nodes[k].path)
                               /\ \A m \in h + 1 .. k - 1 : Len(nodes[m].path) > Len(nodes[h].path)
    BY <2>1, ParentOf
  <2>3. PICK i \in 1 .. a - 1 : nodes[i].path = fs[d].path
    BY <1>1 DEF Frames, Nested
  <2>4. h \in 1 .. N /\ i \in 1 .. N
    BY <1>1, <2>1
  <2>5. h = i
    BY <1>4, <2>2, <2>3, <2>4, NodeTypes
  <2>6. a \in h + 1 .. k - 1
    BY <1>1, <1>4, <2>1, <2>5
  <2>7. Len(nodes[a].path) > d - 1
    BY <1>2, <1>4, <2>2, <2>6
  <2>8. Len(nodes[a].path) \in Nat
    BY <2>1, Below1
  <2> QED
    BY <1>3, <2>1, <2>7, <2>8
<1>5. Kids(fs[d].path, N) = Kids(fs[d].path, a - 1)
  <2>1. \A i : i \in 2 .. N <=> i \in 2 .. a - 1 \/ i \in a .. N
    BY <1>1
  <2> QED
    BY <1>4, <2>1 DEF Kids
<1>6. Cardinality(Kids(fs[d].path, a - 1)) = Len(fs[d].items) + 0
  <2>1. Itemized(fs, a)
    BY DEF Frames
  <2>2. Cardinality(Kids(fs[d].path, a - 1)) = Len(fs[d].items) + (IF d < Len(fs) THEN 1 ELSE 0)
    BY <1>1, <2>1 DEF Itemized
  <2>3. ~(d < Len(fs))
    BY <1>1
  <2> QED
    BY <2>2, <2>3
<1>7. Len(fs[d].items) \in Nat
  <2>1. fs[d] \in FrameType
    BY <1>1, ElementType DEF Frames
  <2> QED
    BY <2>1 DEF FrameType
<1> QED
  BY <1>1, <1>3, <1>4, <1>5, <1>6, <1>7, CountKids

-----------------------------------------------------------------------------
(* The stack *)

SamePaths(fs, gs) == Len(gs) = Len(fs) /\ \A j \in 1 .. Len(fs) : gs[j].path = fs[j].path

\* gs is fs with an item more for the innermost directory, the d-th.
Added(fs, gs, d) ==
  /\ gs \in Seq(FrameType) /\ SamePaths(fs, gs)
  /\ \A j \in 1 .. d : j # d => gs[j].items = fs[j].items
  /\ Len(gs[d].items) = Len(fs[d].items) + 1

LEMMA FrameTypes ==
  ASSUME NEW fs \in Seq(FrameType), NEW j \in 1 .. Len(fs)
  PROVE  /\ fs[j] \in FrameType /\ fs[j].path \in Seq(Int) /\ fs[j].items \in Seq(ItemType)
         /\ Len(fs[j].items) \in Nat /\ fs[j].start \in Nat /\ fs[j].entry \in Nat
<1>1. PICK f : f = fs[j]
  OBVIOUS
<1>2. f \in FrameType
  BY <1>1, ElementType
<1>3. f.path \in Seq(Int) /\ f.items \in Seq(ItemType) /\ f.start \in Nat /\ f.entry \in Nat
  BY <1>2 DEF FrameType
<1>4. Len(f.items) \in Nat
  BY <1>3, LenType
<1> QED
  BY <1>1, <1>2, <1>3, <1>4

LEMMA ItemAdded ==
  ASSUME NEW fs \in Seq(FrameType), NEW d \in Nat, d = Len(fs), d >= 1, NEW n, n.path \in Seq(Int), n.path # <<>>,
         NEW b \in Nat, NEW l \in Int, NEW gs, gs = WithItem(fs, n, b, l)
  PROVE  Added(fs, gs, d)
<1>1. PICK i \in ItemType : i = [hash |-> Hash(Last(n.path)), start |-> b, length |-> l]
  <2>1. Last(n.path) \in Int
    BY FrontAt
  <2> QED
    BY <2>1 DEF ItemType
<1>2. d \in 1 .. Len(fs)
  OBVIOUS
<1>3. /\ fs[d] \in FrameType /\ fs[d].items \in Seq(ItemType)
  BY <1>2, FrameTypes
<1>4. PICK f : f = [fs[d] EXCEPT !.items = Append(fs[d].items, i)]
  OBVIOUS
<1>5. /\ f \in FrameType /\ f.path = fs[d].path /\ f.items = Append(fs[d].items, i)
  BY <1>3, <1>4, AppendType DEF FrameType
<1>6. gs = [fs EXCEPT ![d] = f]
  BY <1>1, <1>4 DEF WithItem
<1>7. /\ gs \in Seq(FrameType) /\ Len(gs) = Len(fs) /\ gs[d] = f
      /\ \A j \in 1 .. d : j # d => gs[j] = fs[j]
  BY <1>2, <1>5, <1>6
<1>8. Len(Append(fs[d].items, i)) = Len(fs[d].items) + 1
  BY <1>3, AppendAt
<1> QED
  BY <1>5, <1>7, <1>8 DEF SamePaths, Added

LEMMA NestedSame ==
  ASSUME NEW fs, NEW gs, NEW a, SamePaths(fs, gs), Nested(fs, a)
  PROVE  Nested(gs, a)
<1>1. \A p : IsOpen(fs, p) => IsOpen(gs, p)
  BY DEF SamePaths, IsOpen
<1> QED
  BY <1>1 DEF SamePaths, Nested

\* With node a written, a stack it does not change is as good for the next one, if it is no
\* directory.
LEMMA NestedNext ==
  ASSUME TreeInOrder, NEW fs, NEW a \in 1 .. N, Nested(fs, a), nodes[a].kind # "dir"
  PROVE  Nested(fs, a + 1)
<1>1. N \in Nat /\ a \in Nat
  BY NodeTypes
<1>2. \A i : i \in 1 .. (a + 1) - 1 <=> i \in 1 .. a - 1 \/ i = a
  BY <1>1
<1>3. \A k : k \in a + 1 .. N => k \in a .. N
  BY <1>1
<1>4. ASSUME NEW j \in 1 .. Len(fs)
      PROVE  /\ Len(fs[j].path) = j - 1
             /\ \E i \in 1 .. (a + 1) - 1 : nodes[i].kind = "dir" /\ nodes[i].path = fs[j].path
  BY <1>2 DEF Nested
<1>5. ASSUME NEW i \in 1 .. (a + 1) - 1, nodes[i].kind = "dir"
      PROVE  IsOpen(fs, nodes[i].path) \/ \A k \in a + 1 .. N : Front(nodes[k].path) # nodes[i].path
  <2>1. i \in 1 .. a - 1
    BY <1>2, <1>5
  <2> QED
    BY <1>3, <1>5, <2>1 DEF Nested
<1> QED
  BY <1>4, <1>5 DEF Nested

\* Only the innermost directory has one child more.
LEMMA OthersKids ==
  ASSUME TreeInOrder, NEW fs, NEW a \in 2 .. N, Frames(fs, a), NEW d \in Nat, d = Len(fs),
         Front(nodes[a].path) = fs[d].path
  PROVE  /\ d >= 1 /\ Cardinality(Kids(fs[d].path, a)) = Cardinality(Kids(fs[d].path, a - 1)) + 1
         /\ \A j \in 1 .. d : j # d => Cardinality(Kids(fs[j].path, a)) = Cardinality(Kids(fs[j].path, a - 1))
         /\ \A j \in 1 .. d : Cardinality(Kids(fs[j].path, a - 1)) \in Nat
<1>1. N \in Nat /\ a \in Nat /\ a >= 2 /\ a # 1 /\ a - 1 \in Nat
  BY NodeTypes
<1>2. d >= 1
  BY <1>1, EmptyLen DEF Frames
<1>3. Nested(fs, a)
  BY DEF Frames
<1>4. ASSUME NEW j \in 1 .. d, j # d PROVE Front(nodes[a].path) # fs[j].path
  <2>1. Len(fs[j].path) = j - 1 /\ Len(fs[d].path) = d - 1
    BY <1>2, <1>3 DEF Nested
  <2> QED
    BY <1>4, <2>1
<1>5. \A j \in 1 .. d : Cardinality(Kids(fs[j].path, a - 1)) \in Nat
  BY <1>1, KidsFinite
<1>6. Cardinality(Kids(fs[d].path, a)) = Cardinality(Kids(fs[d].path, a - 1)) + 1
  BY <1>1, KidsGrow
<1>7. ASSUME NEW j \in 1 .. d, j # d PROVE Cardinality(Kids(fs[j].path, a)) = Cardinality(Kids(fs[j].path, a - 1))
  <2>1. Cardinality(Kids(fs[j].path, a)) = Cardinality(Kids(fs[j].path, a - 1)) + 0
    BY <1>1, <1>4, <1>7, KidsGrow
  <2> QED
    BY <1>5, <2>1
<1> QED
  BY <1>2, <1>5, <1>6, <1>7

\* Entries other than directories.
LEMMA Advance ==
  ASSUME TreeInOrder, NEW fs, NEW a \in 2 .. N, Frames(fs, a), nodes[a].kind # "dir",
         Front(nodes[a].path) = Last(fs).path, NEW b \in Nat, NEW l \in Int, NEW gs, gs = WithItem(fs, nodes[a], b, l)
  PROVE  Frames(gs, a + 1) /\ SamePaths(fs, gs)
<1>1. fs \in Seq(FrameType) /\ Nested(fs, a) /\ Itemized(fs, a)
  BY DEF Frames
<1>2. PICK d \in Nat : d = Len(fs)
  BY <1>1, LenType
<1>3. Front(nodes[a].path) = fs[d].path
  BY <1>2 DEF Last
<1>4. d >= 1 /\ a \in 1 .. N /\ N \in Nat
  BY <1>2, <1>3, OthersKids, NodeTypes
<1>5. /\ gs \in Seq(FrameType) /\ SamePaths(fs, gs)
      /\ \A j \in 1 .. d : j # d => gs[j].items = fs[j].items
      /\ Len(gs[d].items) = Len(fs[d].items) + 1
  <2>1. nodes[a].path \in Seq(Int) /\ nodes[a].path # <<>>
    BY <1>4, NodeTypes, Below1
  <2>2. PICK n : n = nodes[a]
    OBVIOUS
  <2>3. n.path \in Seq(Int) /\ n.path # <<>> /\ gs = WithItem(fs, n, b, l)
    BY <2>1, <2>2
  <2>4. fs \in Seq(FrameType) /\ d = Len(fs) /\ d >= 1
    BY <1>1, <1>2, <1>4
  <2>5. Added(fs, gs, d)
    BY <2>3, <2>4, ItemAdded
  <2> QED
    BY <2>5 DEF Added
<1>6. Nested(gs, a + 1)
  BY <1>1, <1>4, <1>5, NestedNext, NestedSame
<1>7. ASSUME NEW j \in 1 .. d
      PROVE  Cardinality(Kids(gs[j].path, (a + 1) - 1)) = Len(gs[j].items) + (IF j < d THEN 1 ELSE 0)
  <2>1. gs[j].path = fs[j].path /\ (a + 1) - 1 = a
    BY <1>2, <1>4, <1>5 DEF SamePaths
  <2>2. Cardinality(Kids(fs[j].path, a - 1)) = Len(fs[j].items) + (IF j < d THEN 1 ELSE 0)
    BY <1>1, <1>2 DEF Itemized
  <2>3. Len(fs[j].items) \in Nat
    BY <1>1, <1>2, FrameTypes
  <2>4. CASE j = d
    <3>1. Cardinality(Kids(fs[j].path, a)) = Cardinality(Kids(fs[j].path, a - 1)) + 1
      BY <1>2, <1>3, <2>4, OthersKids
    <3>2. Len(gs[j].items) = Len(fs[j].items) + 1 /\ ~(j < d)
      BY <1>5, <2>4
    <3> QED
      BY <2>1, <2>2, <2>3, <3>1, <3>2
  <2>5. CASE j # d
    <3>1. Cardinality(Kids(fs[j].path, a)) = Cardinality(Kids(fs[j].path, a - 1))
      BY <1>2, <1>3, <2>5, OthersKids
    <3>2. gs[j].items = fs[j].items
      BY <1>5, <2>5
    <3> QED
      BY <2>1, <2>2, <3>1, <3>2
  <2> QED
    BY <2>4, <2>5
<1>8. Len(gs) = d /\ gs # <<>> /\ a + 1 \in 1 .. N + 1 /\ a + 1 # 1
  BY <1>2, <1>4, <1>5, EmptyLen DEF SamePaths
<1>9. Itemized(gs, a + 1)
  BY <1>7, <1>8 DEF Itemized
<1> QED
  BY <1>5, <1>6, <1>8, <1>9 DEF Frames

\* A directory begins, the root or another one.
LEMMA Descend ==
  ASSUME TreeInOrder, NEW fs, NEW a \in 1 .. N, Frames(fs, a), nodes[a].kind = "dir",
         a > 1 => Front(nodes[a].path) = Last(fs).path,
         NEW f \in FrameType, f.path = nodes[a].path, f.items = <<>>
  PROVE  Frames(Append(fs, f), a + 1)
<1>1. fs \in Seq(FrameType) /\ Nested(fs, a) /\ Itemized(fs, a) /\ (a = 1 <=> fs = <<>>)
  BY DEF Frames
<1>2. PICK d \in Nat : d = Len(fs)
  BY <1>1, LenType
<1>3. PICK gs : gs = Append(fs, f)
  OBVIOUS
<1>4. /\ gs \in Seq(FrameType) /\ Len(gs) = d + 1 /\ gs[d + 1] = f
      /\ \A j \in 1 .. d : gs[j] = fs[j]
  BY <1>1, <1>2, <1>3, AppendType, AppendAt
<1>5. N \in Nat /\ a \in Nat /\ (a + 1) - 1 = a
  BY NodeTypes
<1>6. \A j : j \in 1 .. d + 1 <=> j \in 1 .. d \/ j = d + 1
  BY <1>2
<1>7. \A i : i \in 1 .. a <=> i \in 1 .. a - 1 \/ i = a
  BY <1>5
<1>8. Len(f.path) = d
  <2>1. CASE a = 1
    <3>1. d = 0 /\ f.path = <<>>
      BY <1>1, <1>2, <2>1, NodeTypes, EmptyLen
    <3> QED
      BY <3>1
  <2>2. CASE a # 1
    <3>1. a \in 2 .. N /\ Front(nodes[a].path) = fs[d].path
      BY <1>2, <1>5, <2>2 DEF Last
    <3>2. d >= 1
      BY <1>1, <1>2, <2>2, EmptyLen
    <3>3. Len(fs[d].path) = d - 1
      BY <1>1, <1>2, <3>2 DEF Nested
    <3>4. Len(Front(nodes[a].path)) = Len(nodes[a].path) - 1 /\ Len(nodes[a].path) \in Nat
      BY <3>1, Below1
    <3> QED
      BY <3>1, <3>3, <3>4
  <2> QED
    BY <2>1, <2>2
<1>9. Nested(gs, a + 1)
  <2>1. ASSUME NEW j \in 1 .. d + 1
        PROVE  /\ Len(gs[j].path) = j - 1
               /\ \E i \in 1 .. a : nodes[i].kind = "dir" /\ nodes[i].path = gs[j].path
    <3>1. CASE j \in 1 .. d
      <4>1. /\ Len(fs[j].path) = j - 1 /\ gs[j] = fs[j]
            /\ \E i \in 1 .. a - 1 : nodes[i].kind = "dir" /\ nodes[i].path = fs[j].path
        BY <1>1, <1>2, <1>4, <3>1 DEF Nested
      <4> QED
        BY <1>7, <4>1
    <3>2. CASE j = d + 1
      BY <1>4, <1>5, <1>7, <1>8, <3>2
    <3> QED
      BY <1>6, <3>1, <3>2
  <2>2. \A p : IsOpen(fs, p) => IsOpen(gs, p)
    BY <1>2, <1>4, <1>6 DEF IsOpen
  <2>3. IsOpen(gs, nodes[a].path)
    BY <1>4, <1>6 DEF IsOpen
  <2>4. ASSUME NEW i \in 1 .. a, nodes[i].kind = "dir"
        PROVE  IsOpen(gs, nodes[i].path) \/ \A k \in a + 1 .. N : Front(nodes[k].path) # nodes[i].path
    <3>1. \A k : k \in a + 1 .. N => k \in a .. N
      BY <1>5
    <3>2. CASE i \in 1 .. a - 1
      BY <1>1, <2>2, <2>4, <3>1, <3>2 DEF Nested
    <3> QED
      BY <1>7, <2>3, <3>2
  <2> QED
    BY <1>4, <1>5, <2>1, <2>4 DEF Nested
<1>10. ASSUME NEW j \in 1 .. d + 1
       PROVE  Cardinality(Kids(gs[j].path, a)) = Len(gs[j].items) + (IF j < d + 1 THEN 1 ELSE 0)
  <2>1. CASE j = d + 1
    <3>1. Cardinality(Kids(nodes[a].path, a)) = 0
      BY NoKidsYet
    <3>2. gs[j].path = nodes[a].path /\ Len(gs[j].items) = 0 /\ ~(j < d + 1)
      BY <1>4, <2>1
    <3> QED
      BY <3>1, <3>2
  <2>2. CASE j \in 1 .. d
    <3>1. a # 1 /\ a \in 2 .. N
      BY <1>1, <1>2, <1>5, <2>2
    <3>2. Front(nodes[a].path) = fs[d].path
      BY <1>2, <1>5, <3>1 DEF Last
    <3>3. Cardinality(Kids(fs[j].path, a - 1)) = Len(fs[j].items) + (IF j < d THEN 1 ELSE 0)
      BY <1>1, <1>2, <2>2 DEF Itemized
    <3>4. Len(fs[j].items) \in Nat
      BY <1>1, <1>2, <2>2, FrameTypes
    <3>5. gs[j] = fs[j] /\ j < d + 1
      BY <1>4, <2>2
    <3>6. CASE j = d
      <4>1. Cardinality(Kids(fs[j].path, a)) = Cardinality(Kids(fs[j].path, a - 1)) + 1
        BY <1>2, <3>1, <3>2, <3>6, OthersKids
      <4>2. ~(j < d)
        BY <3>6
      <4> QED
        BY <3>3, <3>4, <3>5, <4>1, <4>2
    <3>7. CASE j # d
      <4>1. Cardinality(Kids(fs[j].path, a)) = Cardinality(Kids(fs[j].path, a - 1))
        BY <1>2, <2>2, <3>1, <3>2, <3>7, OthersKids
      <4>2. j < d
        BY <2>2, <3>7
      <4> QED
        BY <3>3, <3>5, <4>1, <4>2
    <3> QED
      BY <3>6, <3>7
  <2> QED
    BY <1>6, <2>1, <2>2
<1>11. Itemized(gs, a + 1)
  BY <1>4, <1>5, <1>10 DEF Itemized
<1>12. gs # <<>> /\ a + 1 \in 1 .. N + 1 /\ a + 1 # 1
  <2>1. gs # <<>>
    BY <1>4
  <2> QED
    BY <1>5, <2>1
<1> QED
  BY <1>3, <1>4, <1>9, <1>11, <1>12 DEF Frames

\* The innermost directory ends, and is an item of the one around it.
LEMMA Ascend ==
  ASSUME TreeInOrder, NEW fs, NEW a \in 2 .. N + 1, Frames(fs, a), NEW d \in Nat, d = Len(fs), d > 1,
         a <= N => Front(nodes[a].path) # fs[d].path,
         NEW b \in Nat, NEW l \in Int, NEW gs, gs = WithItem(Front(fs), fs[d], b, l)
  PROVE  Frames(gs, a) /\ SamePaths(Front(fs), gs)
<1>1. fs \in Seq(FrameType) /\ Nested(fs, a) /\ Itemized(fs, a)
  BY DEF Frames
<1>2. fs # <<>>
  OBVIOUS
<1>3. PICK hs : hs = Front(fs)
  OBVIOUS
<1>4. PICK e \in Nat : e = d - 1
  OBVIOUS
<1>5. hs \in Seq(FrameType) /\ Len(hs) = e /\ e >= 1 /\ \A j \in 1 .. e : j \in 1 .. d /\ j # d /\ hs[j] = fs[j]
  BY <1>1, <1>2, <1>3, <1>4, FrontAt, SMTT(30)
<1>6. \A k \in a .. N : Front(nodes[k].path) # fs[d].path
  BY Complete
<1>7. fs[d].path \in Seq(Int) /\ fs[d].path # <<>>
  <2>1. d \in 1 .. Len(fs)
    OBVIOUS
  <2>2. Len(fs[d].path) = d - 1
    BY <1>1, <2>1 DEF Nested
  <2>3. fs[d].path \in Seq(Int)
    BY <1>1, <2>1, FrameTypes
  <2>4. Len(fs[d].path) # 0
    BY <2>2
  <2> QED
    BY <2>3, <2>4, EmptyLen
<1>8. /\ gs \in Seq(FrameType) /\ SamePaths(hs, gs)
      /\ \A j \in 1 .. e : j # e => gs[j].items = hs[j].items
      /\ Len(gs[e].items) = Len(hs[e].items) + 1
  <2>1. PICK n : n = fs[d]
    OBVIOUS
  <2>2. n.path \in Seq(Int) /\ n.path # <<>> /\ gs = WithItem(hs, n, b, l)
    BY <1>3, <1>7, <2>1
  <2> QED
    <3>1. Added(hs, gs, e)
      BY <1>5, <2>2, ItemAdded
    <3> QED
      BY <1>5, <3>1 DEF Added
<1>9. Nested(hs, a)
  <2>1. ASSUME NEW i \in 1 .. a - 1, nodes[i].kind = "dir"
        PROVE  IsOpen(hs, nodes[i].path) \/ \A k \in a .. N : Front(nodes[k].path) # nodes[i].path
    <3>1. CASE IsOpen(fs, nodes[i].path)
      <4>1. PICK j \in 1 .. d : fs[j].path = nodes[i].path
        BY <3>1 DEF IsOpen
      <4>2. CASE j = d
        BY <1>6, <4>1, <4>2
      <4>3. CASE j # d
        <5>1. j \in 1 .. e /\ hs[j] = fs[j]
          BY <1>4, <1>5, <4>3
        <5> QED
          BY <1>5, <4>1, <5>1 DEF IsOpen
      <4> QED
        BY <4>2, <4>3
    <3> QED
      BY <1>1, <2>1, <3>1 DEF Nested
  <2>2. ASSUME NEW j \in 1 .. e
        PROVE  /\ Len(hs[j].path) = j - 1
               /\ \E i \in 1 .. a - 1 : nodes[i].kind = "dir" /\ nodes[i].path = hs[j].path
    BY <1>1, <1>5 DEF Nested
  <2> QED
    BY <1>5, <2>1, <2>2 DEF Nested
<1>10. Nested(gs, a)
  BY <1>8, <1>9, NestedSame
<1>11. ASSUME NEW j \in 1 .. e
       PROVE  Cardinality(Kids(gs[j].path, a - 1)) = Len(gs[j].items) + (IF j < e THEN 1 ELSE 0)
  <2>1. gs[j].path = fs[j].path /\ j < d
    <3>1. gs[j].path = hs[j].path /\ hs[j] = fs[j]
      BY <1>5, <1>8 DEF SamePaths
    <3> QED
      BY <1>4, <3>1
  <2>2. Cardinality(Kids(fs[j].path, a - 1)) = Len(fs[j].items) + 1
    BY <1>1, <1>5, <2>1 DEF Itemized
  <2>3. Len(fs[j].items) \in Nat
    BY <1>1, <1>5, FrameTypes
  <2>4. CASE j = e
    <3>1. Len(gs[j].items) = Len(fs[j].items) + 1 /\ ~(j < e)
      BY <1>5, <1>8, <2>4
    <3> QED
      BY <2>1, <2>2, <2>3, <3>1
  <2>5. CASE j # e
    <3>1. gs[j].items = fs[j].items /\ j < e
      BY <1>5, <1>8, <2>5
    <3> QED
      BY <2>1, <2>2, <3>1
  <2> QED
    BY <2>4, <2>5
<1>12. Len(gs) = e /\ gs # <<>> /\ a \in 1 .. N + 1 /\ a # 1
  BY <1>5, <1>8, EmptyLen, NodeTypes DEF SamePaths
<1>13. Itemized(gs, a)
  BY <1>11, <1>12 DEF Itemized
<1> QED
  BY <1>3, <1>8, <1>10, <1>12, <1>13 DEF Frames

-----------------------------------------------------------------------------
(* What is written of a node, and its share of the estimate *)

NameLen(n) == IF n.path = <<>> THEN 0 ELSE 1
TypeLen(n) ==
  CASE n.kind = "file" /\ V2 -> 1
    [] n.kind = "file" /\ ~V2 -> 1 + n.size
    [] n.kind \in {"symlink", "device"} -> 1
    [] n.kind = "fifo" -> 0

LEMMA SeqIs == ASSUME NEW T, NEW s \in Seq(T) PROVE IsSeq(s)
  BY DEF IsSeq

LEMMA NoCells == ASSUME NEW e, e = <<>> PROVE IsSeq(e)
<1>1. e \in Seq({0})
  OBVIOUS
<1> QED
  BY <1>1, SeqIs, Zenon

LEMMA FilenameLen == ASSUME NEW n PROVE IsSeq(Filename(n)) /\ Len(Filename(n)) = NameLen(n) /\ NameLen(n) \in Nat
<1>1. CASE n.path = <<>>
  <2>1. Filename(n) = <<>> /\ NameLen(n) = 0
    BY <1>1 DEF Filename, NameLen
  <2>2. IsSeq(Filename(n))
    BY <2>1, NoCells, Zenon
  <2>3. Len(Filename(n)) = 0
    BY <2>1
  <2> QED
    BY <2>1, <2>2, <2>3
<1>2. CASE n.path # <<>>
  BY <1>2, OneCell DEF Filename, NameLen
<1> QED
  BY <1>1, <1>2

LEMMA MetadataLen ==
  ASSUME NEW n, n.x \in Nat
  PROVE  IsSeq(MetadataRecords(n)) /\ Len(MetadataRecords(n)) = 1 + n.x
<1>1. IsSeq(ExtraRecords(n)) /\ Len(ExtraRecords(n)) = n.x
  BY CellsLen DEF ExtraRecords
<1>2. PICK c : c = Cell("entry", [kind |-> n.kind, id |-> n.id])
  OBVIOUS
<1>3. MetadataRecords(n) = <<c>> \o ExtraRecords(n)
  BY <1>2 DEF MetadataRecords
<1> QED
  BY <1>1, <1>3, OneCell, ConcatLen

LEMMA PayloadLen ==
  ASSUME NEW n, n.size \in Nat
  PROVE  IsSeq(PayloadRecord(n)) /\ Len(PayloadRecord(n)) = 1 + n.size
<1>1. IsSeq(Cells("data", n.id, n.size)) /\ Len(Cells("data", n.id, n.size)) = n.size
  BY CellsLen
<1>2. PICK c : c = Cell("payload", n.size)
  OBVIOUS
<1>3. PayloadRecord(n) = <<c>> \o Cells("data", n.id, n.size)
  BY <1>2 DEF PayloadRecord
<1> QED
  BY <1>1, <1>3, OneCell, ConcatLen

LEMMA TypeRecordsLen ==
  ASSUME NEW n, n.size \in Nat, n.kind \in {"file", "symlink", "fifo", "device"}
  PROVE  IsSeq(TypeRecords(n)) /\ Len(TypeRecords(n)) = TypeLen(n) /\ TypeLen(n) \in Nat
<1>1. CASE n.kind = "file" /\ V2
  <2>1. PICK c : c = Cell("ref", [off |-> Len(pay), size |-> n.size])
    OBVIOUS
  <2>2. TypeRecords(n) = <<c>> /\ TypeLen(n) = 1
    BY <1>1, <2>1 DEF TypeRecords, TypeLen
  <2> QED
    BY <2>2, OneCell
<1>2. CASE n.kind = "file" /\ ~V2
  <2>1. TypeRecords(n) = PayloadRecord(n) /\ TypeLen(n) = 1 + n.size
    BY <1>2 DEF TypeRecords, TypeLen
  <2> QED
    BY <2>1, PayloadLen
<1>3. CASE n.kind = "symlink"
  <2>1. PICK c : c = Cell("symlink", n.to)
    OBVIOUS
  <2>2. TypeRecords(n) = <<c>> /\ TypeLen(n) = 1
    BY <1>3, <2>1 DEF TypeRecords, TypeLen
  <2> QED
    BY <2>2, OneCell
<1>4. CASE n.kind = "device"
  <2>1. PICK c : c = Cell("device", n.id)
    OBVIOUS
  <2>2. TypeRecords(n) = <<c>> /\ TypeLen(n) = 1
    BY <1>4, <2>1 DEF TypeRecords, TypeLen
  <2> QED
    BY <2>2, OneCell
<1>5. CASE n.kind = "fifo"
  <2>1. TypeRecords(n) = <<>> /\ TypeLen(n) = 0
    BY <1>5 DEF TypeRecords, TypeLen
  <2>2. IsSeq(TypeRecords(n))
    BY <2>1, NoCells, Zenon
  <2>3. Len(TypeRecords(n)) = 0
    BY <2>1
  <2> QED
    BY <2>1, <2>2, <2>3
<1> QED
  BY <1>1, <1>2, <1>3, <1>4, <1>5

LEMMA NodeSizes ==
  ASSUME TreeInOrder, NEW i \in 1 .. N, NEW n, n = nodes[i]
  PROVE  /\ NameLen(n) \in Nat /\ n.x \in Nat /\ n.size \in Nat
         /\ SizeGoodbye(ChildCount(n.path)) \in Nat
         /\ n.kind = "hardlink" => NodeSize(n) = NameLen(n) + 1
         /\ n.kind = "dir" => NodeSize(n) = NameLen(n) + ((1 + n.x) + SizeGoodbye(ChildCount(n.path)))
         /\ n.kind \in {"file", "symlink", "fifo", "device"} =>
              TypeLen(n) \in Nat /\ NodeSize(n) = NameLen(n) + (1 + n.x) + TypeLen(n)
         /\ NodeSize(n) \in Nat
<1>1. /\ n.x \in Nat /\ n.size \in Nat /\ n.kind \in {"dir", "file", "symlink", "fifo", "device", "hardlink"}
  BY NodeTypes
<1>2. ChildCount(n.path) \in Nat
  BY CountKids
<1>3. PICK c \in Nat : c = ChildCount(n.path)
  BY <1>2
<1>4. PICK m \in Nat : m = NameLen(n) /\ m = IF n.path = <<>> THEN 0 ELSE 1
  BY DEF NameLen
<1>5. SizeGoodbye(ChildCount(n.path)) = c + 2
  BY <1>3 DEF SizeGoodbye
<1>6. CASE n.kind = "hardlink"
  <2>1. NodeSize(n) = m + 1
    BY <1>4, <1>6 DEF NodeSize
  <2> QED
    BY <1>1, <1>4, <1>5, <1>6, <2>1
<1>7. CASE n.kind = "dir"
  <2>1. NodeSize(n) = m + ((1 + n.x) + (c + 2))
    BY <1>4, <1>5, <1>7 DEF NodeSize, SizeMetadata
  <2> QED
    BY <1>1, <1>4, <1>5, <1>7, <2>1
<1>8. CASE n.kind = "file" /\ V2
  <2>1. NodeSize(n) = m + ((1 + n.x) + 1 + 0) /\ TypeLen(n) = 1
    BY <1>4, <1>8 DEF NodeSize, SizeMetadata, TypeLen
  <2> QED
    BY <1>1, <1>4, <1>5, <1>8, <2>1
<1>9. CASE n.kind = "file" /\ ~V2
  <2>1. NodeSize(n) = m + ((1 + n.x) + 1 + n.size) /\ TypeLen(n) = 1 + n.size
    BY <1>4, <1>9 DEF NodeSize, SizeMetadata, TypeLen
  <2>2. PICK x \in Nat : x = n.x
    BY <1>1
  <2>3. PICK z \in Nat : z = n.size
    BY <1>1
  <2>4. NodeSize(n) = m + ((1 + x) + 1 + z) /\ TypeLen(n) = 1 + z
    BY <2>1, <2>2, <2>3
  <2>5. TypeLen(n) \in Nat /\ NodeSize(n) \in Nat /\ NodeSize(n) = m + (1 + x) + TypeLen(n)
    BY <2>4
  <2> QED
    BY <1>1, <1>4, <1>5, <1>9, <2>2, <2>5
<1>10. CASE n.kind \in {"symlink", "device"}
  <2>1. NodeSize(n) = m + ((1 + n.x) + 1) /\ TypeLen(n) = 1
    BY <1>4, <1>10 DEF NodeSize, SizeMetadata, TypeLen
  <2> QED
    BY <1>1, <1>4, <1>5, <1>10, <2>1
<1>11. CASE n.kind = "fifo"
  <2>1. NodeSize(n) = m + (1 + n.x) /\ TypeLen(n) = 0
    BY <1>4, <1>11 DEF NodeSize, SizeMetadata, TypeLen
  <2> QED
    BY <1>1, <1>4, <1>5, <1>11, <2>1
<1> QED
  BY <1>1, <1>6, <1>7, <1>8, <1>9, <1>10, <1>11

LEMMA SizeTypes ==
  ASSUME TreeInOrder
  PROVE  /\ Sizes \in [1 .. N -> Nat] /\ PayloadSizes \in [1 .. N -> Nat] /\ HeaderSize \in Nat
         /\ \A i \in 1 .. N : NodeSize(nodes[i]) \in Nat /\ PayloadSize(nodes[i]) \in Nat
<1>1. \A i \in 1 .. N : NodeSize(nodes[i]) \in Nat
  BY NodeSizes
<1>2. \A i \in 1 .. N : PayloadSize(nodes[i]) \in Nat
  BY NodeTypes DEF PayloadSize
<1>3. HeaderSize \in Nat
  BY DEF HeaderSize
<1> QED
  BY <1>1, <1>2, <1>3 DEF Sizes, PayloadSizes

LEMMA SumsAt ==
  ASSUME NEW n \in Nat, NEW w, NEW f, IsSums(f, n, w), NEW k \in 1 .. n
  PROVE  f[k] = f[k - 1] + w[k] /\ f[k] \in Nat /\ f[k - 1] \in Nat
  BY DEF IsSums

\* The partial sums do not depend on anything but the paths.
LEMMA OpenSame ==
  ASSUME NEW fs, NEW gs, SamePaths(fs, gs)
  PROVE  OpenSizes(gs) = OpenSizes(fs) /\ Len(gs) = Len(fs)
  BY DEF SamePaths, OpenSizes

LEMMA WrittenNode ==
  ASSUME TreeInOrder, NEW fs \in Seq(FrameType), NEW gs, SamePaths(fs, gs), NEW a \in 1 .. N, NEW c \in Nat,
         Written(fs, a - 1, c), NEW k \in Nat, k = NodeSize(nodes[a])
  PROVE  Written(gs, a, c + k)
<1>1. PICK d \in Nat : d = Len(fs)
  BY LenType
<1>2. PICK g : IsSums(g, d, OpenSizes(fs)) /\ Sized(a - 1, c + g[d])
  BY <1>1 DEF Written
<1>3. PICK S : IsSums(S, N, Sizes) /\ c + g[d] = HeaderSize + S[a - 1]
  BY <1>2 DEF Sized
<1>4. S[a] = S[a - 1] + k /\ S[a - 1] \in Nat
  <2>1. Sizes[a] = k
    BY DEF Sizes
  <2> QED
    BY <1>3, <2>1, SumsAt, NodeTypes
<1>5. g[d] \in Nat
  BY <1>1, <1>2 DEF IsSums
<1>6. (c + k) + g[d] = HeaderSize + S[a]
  <2>1. PICK x \in Nat : x = g[d]
    BY <1>5
  <2>2. PICK y \in Nat : y = S[a - 1]
    BY <1>4
  <2>3. PICK z \in Nat : z = HeaderSize
    BY SizeTypes
  <2>4. c + x = z + y /\ S[a] = y + k
    BY <1>3, <1>4, <2>1, <2>2, <2>3
  <2>5. (c + k) + x = (c + x) + k /\ (z + y) + k = z + (y + k)
    OBVIOUS
  <2> QED
    BY <2>1, <2>3, <2>4, <2>5
<1>7. Sized(a, (c + k) + g[d])
  BY <1>3, <1>6 DEF Sized
<1>8. OpenSizes(gs) = OpenSizes(fs) /\ Len(gs) = d
  BY <1>1, OpenSame
<1> QED
  BY <1>2, <1>7, <1>8 DEF Written

\* Another directory open: its table is yet to come.
LEMMA OpenMore ==
  ASSUME TreeInOrder, NEW fs \in Seq(FrameType), NEW f \in FrameType, NEW d \in Nat, d = Len(fs), NEW g,
         IsSums(g, d, OpenSizes(fs))
  PROVE  \E h : /\ IsSums(h, d + 1, OpenSizes(Append(fs, f)))
               /\ h[d + 1] = g[d] + SizeGoodbye(ChildCount(f.path))
<1>1. PICK t \in Nat : t = SizeGoodbye(ChildCount(f.path))
  BY CountKids DEF SizeGoodbye
<1>2. PICK gs : gs = Append(fs, f)
  OBVIOUS
<1>3. Len(gs) = d + 1 /\ gs[d + 1] = f /\ \A j \in 1 .. d : gs[j] = fs[j]
  BY <1>2, AppendAt
<1>4. PICK w : w = OpenSizes(gs)
  OBVIOUS
<1>5. w[d + 1] = t
  BY <1>1, <1>3, <1>4 DEF OpenSizes
<1>6. \A j \in 1 .. d : j \in 1 .. d + 1 /\ w[j] = OpenSizes(fs)[j]
  BY <1>3, <1>4 DEF OpenSizes
<1>7. g \in [0 .. d -> Nat] /\ g[0] = 0 /\ g[d] \in Nat /\ \A k \in 1 .. d : g[k] = g[k - 1] + w[k]
  BY <1>6 DEF IsSums
<1> DEFINE h == [k \in 0 .. d + 1 |-> IF k = d + 1 THEN g[d] + t ELSE g[k]]
<1>8. h \in [0 .. d + 1 -> Nat]
  <2>1. \A k \in 0 .. d + 1 : k # d + 1 => k \in 0 .. d
    OBVIOUS
  <2>2. g[d] + t \in Nat
    BY <1>7
  <2> QED
    BY <1>7, <2>1, <2>2
<1>9. h[0] = 0 /\ h[d + 1] = g[d] + t
  BY <1>7
<1>10. ASSUME NEW k \in 1 .. d + 1 PROVE h[k] = h[k - 1] + w[k]
  <2>1. k - 1 \in 0 .. d + 1 /\ k - 1 # d + 1 /\ k \in 0 .. d + 1
    OBVIOUS
  <2>2. h[k - 1] = g[k - 1]
    BY <2>1
  <2>3. CASE k = d + 1
    <3>1. k - 1 = d
      BY <2>3
    <3> QED
      BY <1>5, <1>9, <2>2, <2>3, <3>1
  <2>4. CASE k # d + 1
    <3>1. k \in 1 .. d
      BY <2>4
    <3>2. h[k] = g[k]
      BY <2>1, <2>4
    <3> QED
      BY <1>7, <2>2, <3>1, <3>2
  <2> QED
    BY <2>3, <2>4
<1> HIDE DEF h
<1>11. IsSums(h, d + 1, w)
  BY <1>8, <1>9, <1>10 DEF IsSums
<1> QED
  BY <1>1, <1>2, <1>4, <1>9, <1>11

LEMMA WrittenDir ==
  ASSUME TreeInOrder, NEW fs \in Seq(FrameType), NEW f \in FrameType, NEW a \in 1 .. N, NEW c \in Nat,
         Written(fs, a - 1, c), NEW k \in Nat, NodeSize(nodes[a]) = k + SizeGoodbye(ChildCount(f.path))
  PROVE  Written(Append(fs, f), a, c + k)
<1>1. PICK d \in Nat : d = Len(fs)
  BY LenType
<1>2. PICK g : IsSums(g, d, OpenSizes(fs)) /\ Sized(a - 1, c + g[d])
  BY <1>1 DEF Written
<1>3. PICK S : IsSums(S, N, Sizes) /\ c + g[d] = HeaderSize + S[a - 1]
  BY <1>2 DEF Sized
<1>4. PICK t \in Nat : t = SizeGoodbye(ChildCount(f.path))
  BY CountKids DEF SizeGoodbye
<1>5. PICK h : IsSums(h, d + 1, OpenSizes(Append(fs, f))) /\ h[d + 1] = g[d] + SizeGoodbye(ChildCount(f.path))
  BY <1>1, <1>2, OpenMore
<1>6. S[a] = S[a - 1] + (k + t) /\ S[a - 1] \in Nat
  <2>1. Sizes[a] = k + t
    BY <1>4 DEF Sizes
  <2> QED
    BY <1>3, <2>1, SumsAt, NodeTypes
<1>7. g[d] \in Nat
  BY <1>1, <1>2 DEF IsSums
<1>8. (c + k) + h[d + 1] = HeaderSize + S[a]
  <2>1. PICK x \in Nat : x = g[d]
    BY <1>7
  <2>2. PICK y \in Nat : y = S[a - 1]
    BY <1>6
  <2>3. PICK z \in Nat : z = HeaderSize
    BY SizeTypes
  <2>4. c + x = z + y /\ S[a] = y + (k + t) /\ h[d + 1] = x + t
    BY <1>3, <1>4, <1>5, <1>6, <2>1, <2>2, <2>3
  <2>5. (c + k) + (x + t) = z + (y + (k + t))
    BY <2>4
  <2> QED
    BY <2>3, <2>4, <2>5
<1>9. Sized(a, (c + k) + h[d + 1])
  BY <1>3, <1>8 DEF Sized
<1>10. Len(Append(fs, f)) = d + 1
  BY <1>1, AppendAt
<1> QED
  BY <1>5, <1>9, <1>10 DEF Written

\* The table of the innermost directory.
LEMMA WrittenTable ==
  ASSUME TreeInOrder, NEW fs \in Seq(FrameType), NEW d \in Nat, d = Len(fs), d >= 1, NEW m \in Nat, NEW c \in Nat,
         Written(fs, m, c), NEW k \in Nat, k = SizeGoodbye(ChildCount(fs[d].path)),
         NEW gs, SamePaths(Front(fs), gs)
  PROVE  Written(gs, m, c + k) /\ (d = 1 => Sized(m, c + k))
<1>1. PICK g : IsSums(g, d, OpenSizes(fs)) /\ Sized(m, c + g[d])
  BY DEF Written
<1>2. g \in [0 .. d -> Nat] /\ g[0] = 0 /\ \A j \in 1 .. d : g[j] = g[j - 1] + OpenSizes(fs)[j]
  BY <1>1 DEF IsSums
<1>3. PICK b \in Nat : b = d - 1
  OBVIOUS
<1>4. g[d] = g[b] + k /\ g[b] \in Nat
  <2>1. OpenSizes(fs)[d] = k /\ d \in 1 .. d /\ b \in 0 .. d
    BY <1>3 DEF OpenSizes
  <2> QED
    BY <1>2, <1>3, <2>1
<1>5. (c + k) + g[b] = c + g[d]
  BY <1>4
<1>6. Sized(m, (c + k) + g[b])
  BY <1>1, <1>5
<1>7. fs # <<>>
  OBVIOUS
<1>8. Len(Front(fs)) = b /\ \A j \in 1 .. b : j \in 1 .. d /\ Front(fs)[j] = fs[j]
  BY <1>3, <1>7, FrontAt
<1>9. Len(gs) = b /\ OpenSizes(gs) = OpenSizes(Front(fs))
  BY <1>8, OpenSame
<1>10. \A j \in 1 .. b : OpenSizes(Front(fs))[j] = OpenSizes(fs)[j]
  BY <1>8 DEF OpenSizes
<1> DEFINE h == [j \in 0 .. b |-> g[j]]
<1>11. /\ h \in [0 .. b -> Nat] /\ h[0] = 0 /\ h[b] = g[b]
       /\ \A j \in 1 .. b : h[j] = g[j] /\ h[j - 1] = g[j - 1]
  BY <1>2, <1>3
<1> HIDE DEF h
<1>12. \A j \in 1 .. b : h[j] = h[j - 1] + OpenSizes(gs)[j]
  BY <1>2, <1>8, <1>9, <1>10, <1>11
<1>13. IsSums(h, b, OpenSizes(gs))
  BY <1>11, <1>12 DEF IsSums
<1>14. Written(gs, m, c + k)
  BY <1>6, <1>9, <1>11, <1>13 DEF Written
<1>15. d = 1 => Sized(m, c + k)
  <2> SUFFICES ASSUME d = 1 PROVE Sized(m, c + k)
    OBVIOUS
  <2>1. g[b] = 0 /\ (c + k) + 0 = c + k
    BY <1>2, <1>3
  <2> QED
    BY <1>6, <2>1
<1> QED
  BY <1>14, <1>15

LEMMA PaidNode ==
  ASSUME TreeInOrder, NEW a \in 1 .. N, NEW c \in Nat, Paid(a - 1, c, 1), NEW k \in Nat,
         V2 => k = PayloadSize(nodes[a])
  PROVE  Paid(a, c + k, 1)
<1> SUFFICES ASSUME V2 PROVE \E P : IsSums(P, N, PayloadSizes) /\ c + k = 1 + P[a]
  BY DEF Paid
<1>1. PICK P : IsSums(P, N, PayloadSizes) /\ c = 1 + P[a - 1]
  BY DEF Paid
<1>2. PayloadSizes[a] = k
  BY DEF PayloadSizes
<1>3. P[a] = P[a - 1] + k /\ P[a - 1] \in Nat
  BY <1>1, <1>2, SumsAt, NodeTypes
<1> QED
  BY <1>1, <1>3

-----------------------------------------------------------------------------
(* The emitter *)

\* The tree and the options do not change while the emitter runs.
LEMMA TreeStays ==
  ASSUME UNCHANGED <<in, nodes>>
  PROVE  /\ N' = N /\ V2' = V2 /\ HeaderSize' = HeaderSize /\ Sizes' = Sizes /\ PayloadSizes' = PayloadSizes
         /\ \A p, m : Kids(p, m)' = Kids(p, m)
         /\ \A p : ChildCount(p)' = ChildCount(p)
  BY DEF N, V2, HeaderSize, Sizes, PayloadSizes, PayloadSize, NodeSize, SizeMetadata, SizeGoodbye, ChildCount, Kids

LEMMA InvariantStays ==
  ASSUME UNCHANGED <<in, nodes>>, NEW fs, NEW a, NEW m, NEW c, NEW e
  PROVE  /\ Frames(fs, a) => Frames(fs, a)'
         /\ Written(fs, m, c) => Written(fs, m, c)'
         /\ Sized(m, c) => Sized(m, c)'
         /\ Paid(m, c, e) => Paid(m, c, e)'
<1>1. nodes' = nodes
  OBVIOUS
<1>2. Itemized(fs, a) => Itemized(fs, a)'
  BY TreeStays DEF Itemized
<1>3. Nested(fs, a) => Nested(fs, a)'
  BY <1>1, TreeStays DEF Nested, IsOpen
<1>4. Frames(fs, a) => Frames(fs, a)'
  BY <1>2, <1>3, TreeStays DEF Frames
<1>5. OpenSizes(fs)' = OpenSizes(fs)
  BY TreeStays DEF OpenSizes, SizeGoodbye
<1>6. \A x, y : Sized(x, y) => Sized(x, y)'
  BY TreeStays DEF Sized
<1>7. Written(fs, m, c) => Written(fs, m, c)'
  BY <1>5, <1>6 DEF Written
<1>8. Paid(m, c, e) => Paid(m, c, e)'
  BY TreeStays DEF Paid
<1> QED
  BY <1>4, <1>6, <1>7, <1>8

LEMMA StartKeeps ==
  ASSUME TreeInOrder, EmitInv, EmitStart, UNCHANGED scanVars
  PROVE  EmitInv'
<1>1. UNCHANGED <<in, nodes>> /\ spc' = spc
  BY DEF scanVars
<1>2. /\ spc = "done" /\ epc = "off" /\ epc' = "run" /\ at' = 1 /\ frames' = <<>>
  BY DEF EmitStart, EmitInv
<1>3. IsSeq(cells') /\ Len(cells') = HeaderSize
  <2>1. CASE ~V2
    <3>1. cells' = <<>> /\ HeaderSize = 0
      BY <2>1 DEF EmitStart, HeaderSize
    <3>2. IsSeq(cells')
      BY <3>1, NoCells, Zenon
    <3>3. Len(cells') = 0
      BY <3>1
    <3> QED
      BY <3>1, <3>2, <3>3
  <2>2. CASE V2 /\ in.exclude = <<>>
    <3>1. PICK c : c = <<Cell("version", 2)>>
      OBVIOUS
    <3>2. PICK e : e = <<>>
      OBVIOUS
    <3>3. cells' = c \o e
      BY <2>2, <3>1, <3>2 DEF EmitStart
    <3>4. IsSeq(c) /\ Len(c) = 1
      BY <3>1, OneCell
    <3>5. IsSeq(e)
      BY <3>2, NoCells, Zenon
    <3>6. Len(e) = 0
      BY <3>2
    <3>7. HeaderSize = 1
      BY <2>2 DEF HeaderSize
    <3> QED
      BY <3>3, <3>4, <3>5, <3>6, <3>7, ConcatLen
  <2>3. CASE V2 /\ in.exclude # <<>>
    <3>1. PICK c : c = <<Cell("version", 2)>>
      OBVIOUS
    <3>2. PICK e : e = <<Cell("prelude", in.exclude)>>
      OBVIOUS
    <3>3. cells' = c \o e
      BY <2>3, <3>1, <3>2 DEF EmitStart
    <3>4. IsSeq(c) /\ Len(c) = 1 /\ IsSeq(e) /\ Len(e) = 1
      BY <3>1, <3>2, OneCell
    <3>5. HeaderSize = 2
      BY <2>3 DEF HeaderSize
    <3>6. IsSeq(c \o e) /\ Len(c \o e) = 1 + 1
      BY <3>4, ConcatLen
    <3> QED
      BY <3>3, <3>5, <3>6
  <2> QED
    BY <2>1, <2>2, <2>3
<1>4. IsSeq(pay') /\ (V2 => Len(pay') = 1)
  <2>1. CASE V2
    <3>1. PICK c : c = Cell("start", 0)
      OBVIOUS
    <3>2. pay' = <<c>>
      BY <2>1, <3>1 DEF EmitStart
    <3> QED
      BY <3>2, OneCell
  <2>2. CASE ~V2
    <3>1. pay' = <<>>
      BY <2>2 DEF EmitStart
    <3>2. IsSeq(pay')
      BY <3>1, NoCells, Zenon
    <3> QED
      BY <2>2, <3>2
  <2> QED
    BY <2>1, <2>2
<1>5. PICK fs : fs = <<>>
  OBVIOUS
<1>6. fs \in Seq(FrameType) /\ Len(fs) = 0
  BY <1>5
<1>7. Frames(fs, 1)
  <2>1. N \in Nat /\ 1 \in 1 .. N + 1 /\ 1 .. 0 = {} /\ 1 - 1 = 0
    BY NodeTypes
  <2>2. Nested(fs, 1) /\ Itemized(fs, 1)
    BY <1>6, <2>1 DEF Nested, Itemized
  <2> QED
    BY <1>5, <1>6, <2>1, <2>2 DEF Frames
<1>8. PICK c \in Nat : c = Len(cells')
  BY <1>3, SizeTypes
<1>9. Written(fs, 0, c)
  <2>1. PICK S : IsSums(S, N, Sizes)
    BY PartialSums, SizeTypes, NodeTypes
  <2>2. OpenSizes(fs) \in [1 .. 0 -> Nat]
    BY <1>6 DEF OpenSizes
  <2>3. PICK g : IsSums(g, 0, OpenSizes(fs))
    BY <2>2, PartialSums
  <2>4. S[0] = 0 /\ g[0] = 0
    BY <2>1, <2>3 DEF IsSums
  <2>5. c + g[0] = HeaderSize + S[0]
    BY <1>3, <1>8, <2>4, SizeTypes
  <2>6. Sized(0, c + g[0])
    BY <2>1, <2>5 DEF Sized
  <2> QED
    BY <1>6, <2>3, <2>6 DEF Written
<1>10. PICK p : p = Len(pay')
  OBVIOUS
<1>11. Paid(0, p, 1)
  <2> SUFFICES ASSUME V2 PROVE \E P : IsSums(P, N, PayloadSizes) /\ p = 1 + P[0]
    BY DEF Paid
  <2>1. PICK P : IsSums(P, N, PayloadSizes)
    BY PartialSums, SizeTypes, NodeTypes
  <2>2. P[0] = 0
    BY <2>1 DEF IsSums
  <2> QED
    BY <1>4, <1>10, <2>1, <2>2
<1>12. Frames(fs, 1)' /\ Written(fs, 0, c)' /\ Paid(0, p, 1)'
  BY <1>1, <1>7, <1>9, <1>11, InvariantStays
<1>13. fs = frames' /\ at' - 1 = 0
  BY <1>2, <1>5
<1> QED
  BY <1>1, <1>2, <1>3, <1>4, <1>8, <1>10, <1>12, <1>13 DEF EmitInv

\* What a step of the walk has to show.
LEMMA WalkKeeps ==
  ASSUME EmitInv, epc = "run", UNCHANGED scanVars, epc' = "run", IsSeq(cells'), IsSeq(pay'),
         NEW fs, NEW a \in Nat, NEW c, NEW p, fs = frames', a = at' - 1, at' = a + 1, c = Len(cells'), p = Len(pay'),
         Frames(fs, a + 1), Written(fs, a, c), Paid(a, p, 1)
  PROVE  EmitInv'
<1>1. UNCHANGED <<in, nodes>> /\ spc' = spc /\ spc = "done"
  BY DEF scanVars, EmitInv
<1>2. Frames(fs, a + 1)' /\ Written(fs, a, c)' /\ Paid(a, p, 1)'
  BY <1>1, InvariantStays
<1> QED
  BY <1>1, <1>2 DEF EmitInv

LEMMA Running ==
  ASSUME TreeInOrder, EmitInv, epc = "run"
  PROVE  /\ Frames(frames, at) /\ Written(frames, at - 1, Len(cells)) /\ Paid(at - 1, Len(pay), 1)
         /\ frames \in Seq(FrameType) /\ at \in 1 .. N + 1 /\ (at = 1 <=> frames = <<>>) /\ at \in Nat
         /\ IsSeq(cells) /\ IsSeq(pay) /\ Len(cells) \in Nat /\ Len(pay) \in Nat
<1>1. IsSeq(cells) /\ IsSeq(pay)
  BY DEF EmitInv
<1>2. Len(cells) \in Nat /\ Len(pay) \in Nat
  BY <1>1, ConcatLen
<1>3. Frames(frames, at) /\ Written(frames, at - 1, Len(cells)) /\ Paid(at - 1, Len(pay), 1)
  BY DEF EmitInv
<1>4. frames \in Seq(FrameType) /\ at \in 1 .. N + 1 /\ (at = 1 <=> frames = <<>>)
  BY <1>3 DEF Frames
<1>5. at \in Nat
  BY <1>4, NodeTypes
<1> QED
  BY <1>1, <1>2, <1>3, <1>4, <1>5

LEMMA DirKeeps ==
  ASSUME TreeInOrder, EmitInv, EmitDir, UNCHANGED scanVars
  PROVE  EmitInv'
<1>1. epc = "run" /\ InOpenDir /\ AtNode.kind = "dir" /\ epc' = "run" /\ pay' = pay /\ at' = at + 1
  BY DEF EmitDir, EmitInv
<1>2. /\ Frames(frames, at) /\ Written(frames, at - 1, Len(cells)) /\ Paid(at - 1, Len(pay), 1)
      /\ frames \in Seq(FrameType) /\ at \in Nat /\ at >= 1
      /\ IsSeq(cells) /\ IsSeq(pay) /\ Len(cells) \in Nat /\ Len(pay) \in Nat
  BY <1>1, Running, NodeTypes
<1>3. PICK a \in 1 .. N : a = at
  BY <1>1, <1>2 DEF InOpenDir, N
<1>4. PICK n : n = nodes[a]
  OBVIOUS
<1>5. n = AtNode /\ n.kind = "dir" /\ (a > 1 => Front(n.path) = Last(frames).path)
  BY <1>1, <1>3, <1>4 DEF AtNode, InOpenDir
<1>6. /\ NameLen(n) \in Nat /\ n.x \in Nat /\ n.path \in Seq(Int)
      /\ NodeSize(n) = NameLen(n) + ((1 + n.x) + SizeGoodbye(ChildCount(n.path)))
      /\ SizeGoodbye(ChildCount(n.path)) \in Nat
  BY <1>4, <1>5, NodeSizes, NodeTypes
<1>7. PICK k \in Nat : k = NameLen(n) + (1 + n.x)
  BY <1>6
<1>8. NodeSize(nodes[a]) = k + SizeGoodbye(ChildCount(n.path))
  <2>1. PICK x \in Nat : x = n.x
    BY <1>6
  <2>2. PICK y \in Nat : y = NameLen(n)
    BY <1>6
  <2>3. PICK z \in Nat : z = SizeGoodbye(ChildCount(n.path))
    BY <1>6
  <2>4. NodeSize(nodes[a]) = y + ((1 + x) + z) /\ k = y + (1 + x)
    BY <1>4, <1>6, <1>7, <2>1, <2>2, <2>3
  <2> QED
    BY <2>3, <2>4
<1>9. IsSeq(Filename(n)) /\ Len(Filename(n)) = NameLen(n) /\ IsSeq(MetadataRecords(n)) /\ Len(MetadataRecords(n)) = 1 + n.x
  BY <1>6, FilenameLen, MetadataLen
<1>10. IsSeq(cells') /\ Len(cells') = Len(cells) + k
  <2>1. cells' = (cells \o Filename(n)) \o MetadataRecords(n)
    BY <1>5 DEF EmitDir
  <2>2. IsSeq(cells \o Filename(n)) /\ Len(cells \o Filename(n)) = Len(cells) + NameLen(n)
    BY <1>2, <1>9, ConcatLen
  <2>3. IsSeq(cells') /\ Len(cells') = (Len(cells) + NameLen(n)) + (1 + n.x)
    BY <1>9, <2>1, <2>2, ConcatLen
  <2>4. PICK x \in Nat : x = n.x
    BY <1>6
  <2>5. PICK y \in Nat : y = NameLen(n)
    BY <1>6
  <2>6. PICK z \in Nat : z = Len(cells)
    BY <1>2
  <2>7. Len(cells') = (z + y) + (1 + x) /\ k = y + (1 + x)
    BY <1>7, <2>3, <2>4, <2>5, <2>6
  <2> QED
    BY <2>3, <2>6, <2>7
<1>11. PICK f : f = [path |-> n.path, start |-> Len(cells), items |-> <<>>, entry |-> Len(cells) + Len(Filename(n))]
  OBVIOUS
<1>12. f \in FrameType /\ f.path = n.path /\ f.items = <<>> /\ frames' = Append(frames, f)
  <2>1. Len(cells) + Len(Filename(n)) \in Nat
    <3>1. Len(cells) \in Nat /\ Len(Filename(n)) \in Nat
      BY <1>2, <1>6, <1>9
    <3> QED
      BY <3>1
  <2>2. <<>> \in Seq(ItemType)
    BY EmptyType
  <2> QED
    BY <1>2, <1>5, <1>6, <1>11, <2>1, <2>2 DEF FrameType, EmitDir
<1>13. PICK fs : fs = frames
  OBVIOUS
<1>14. PICK c \in Nat : c = Len(cells)
  BY <1>2
<1>15. PICK p \in Nat : p = Len(pay)
  BY <1>2
<1>16. fs \in Seq(FrameType) /\ Frames(fs, a) /\ Written(fs, a - 1, c) /\ Paid(a - 1, p, 1)
  BY <1>2, <1>3, <1>13, <1>14, <1>15
<1>17. Frames(Append(fs, f), a + 1)
  BY <1>4, <1>5, <1>12, <1>13, <1>16, Descend
<1>18. Written(Append(fs, f), a, c + k)
  BY <1>8, <1>12, <1>16, WrittenDir
<1>19. Paid(a, p, 1)
  <2>1. PayloadSize(nodes[a]) = 0
    BY <1>4, <1>5 DEF PayloadSize
  <2>2. Paid(a, p + 0, 1)
    BY <1>16, <2>1, PaidNode
  <2> QED
    BY <2>2
<1>20. PICK gs : gs = Append(fs, f)
  OBVIOUS
<1>21. a \in Nat /\ at' = a + 1 /\ a = at' - 1
  BY <1>1, <1>3
<1> QED
  BY <1>1, <1>2, <1>10, <1>12, <1>13, <1>14, <1>15, <1>17, <1>18, <1>19, <1>20, <1>21, WalkKeeps

\* An entry that is an item of the innermost directory: k cells, and m of payload stream.
LEMMA EntryKeeps ==
  ASSUME TreeInOrder, EmitInv, epc = "run", epc' = "run", UNCHANGED scanVars, NEW a \in 1 .. N, a = at, InOpenDir,
         nodes[a].kind # "dir", NEW l \in Int, frames' = WithItem(frames, nodes[a], Len(cells), l), at' = at + 1,
         NEW k \in Nat, k = NodeSize(nodes[a]), IsSeq(cells'), Len(cells') = Len(cells) + k,
         NEW m \in Nat, V2 => m = PayloadSize(nodes[a]), IsSeq(pay'), Len(pay') = Len(pay) + m
  PROVE  EmitInv'
<1>1. /\ Frames(frames, at) /\ Written(frames, at - 1, Len(cells)) /\ Paid(at - 1, Len(pay), 1)
      /\ frames \in Seq(FrameType) /\ Len(cells) \in Nat /\ Len(pay) \in Nat
  BY Running
<1>2. a \in Nat /\ a # 1 /\ a \in 2 .. N
  BY NodeTypes
<1>3. PICK fs : fs = frames
  OBVIOUS
<1>4. PICK c \in Nat : c = Len(cells)
  BY <1>1
<1>5. PICK p \in Nat : p = Len(pay)
  BY <1>1
<1>6. PICK gs : gs = WithItem(fs, nodes[a], c, l)
  OBVIOUS
<1>7. fs \in Seq(FrameType) /\ Frames(fs, a) /\ Written(fs, a - 1, c) /\ Paid(a - 1, p, 1)
  BY <1>1, <1>3, <1>4, <1>5
<1>8. Front(nodes[a].path) = Last(fs).path
  BY <1>2, <1>3 DEF InOpenDir, AtNode
<1>9. Frames(gs, a + 1) /\ SamePaths(fs, gs)
  BY <1>2, <1>6, <1>7, <1>8, Advance
<1>10. Written(gs, a, c + k)
  BY <1>7, <1>9, WrittenNode
<1>11. Paid(a, p + m, 1)
  BY <1>7, PaidNode
<1>12. gs = frames'
  BY <1>3, <1>4, <1>6
<1>13. a = at' - 1 /\ at' = a + 1
  BY <1>2
<1> QED
  BY <1>2, <1>4, <1>5, <1>9, <1>10, <1>11, <1>12, <1>13, WalkKeeps

LEMMA HardlinkKeeps ==
  ASSUME TreeInOrder, EmitInv, EmitHardlink, UNCHANGED scanVars
  PROVE  EmitInv'
<1>1. /\ epc = "run" /\ epc' = "run" /\ InOpenDir /\ AtNode.kind = "hardlink" /\ pay' = pay /\ at' = at + 1
      /\ frames' = WithItem(frames, AtNode, Len(cells), 2)
  BY DEF EmitHardlink
<1>2. IsSeq(cells) /\ IsSeq(pay) /\ Len(cells) \in Nat /\ Len(pay) \in Nat /\ at \in Nat /\ at >= 1
  BY <1>1, Running, NodeTypes
<1>3. PICK a \in 1 .. N : a = at
  BY <1>1, <1>2 DEF InOpenDir, N
<1>4. AtNode = nodes[a]
  BY <1>3 DEF AtNode
<1>5. PICK n : n = nodes[a]
  OBVIOUS
<1>6. a \in 2 .. N
  BY <1>1, <1>4, NodeTypes
<1>7. NameLen(n) = 1
  BY <1>5, <1>6, Below1 DEF NameLen
<1>8. NodeSize(nodes[a]) = 2 /\ PayloadSize(nodes[a]) = 0
  <2>1. NodeSize(n) = NameLen(n) + 1
    BY <1>1, <1>4, <1>5, NodeSizes
  <2>2. PayloadSize(n) = 0
    BY <1>1, <1>4, <1>5 DEF PayloadSize
  <2> QED
    BY <1>5, <1>7, <2>1, <2>2
<1>9. IsSeq(cells') /\ Len(cells') = Len(cells) + 2
  <2>1. PICK c : c = Cell("hardlink", [off |-> LinkDistance(Len(cells), AtNode.to), to |-> AtNode.to])
    OBVIOUS
  <2>2. cells' = (cells \o Filename(n)) \o <<c>>
    BY <1>4, <1>5, <2>1 DEF EmitHardlink
  <2>3. IsSeq(cells \o Filename(n)) /\ Len(cells \o Filename(n)) = Len(cells) + 1
    BY <1>2, <1>7, FilenameLen, ConcatLen
  <2>4. IsSeq(<<c>>) /\ Len(<<c>>) = 1
    BY OneCell
  <2>5. IsSeq(cells') /\ Len(cells') = (Len(cells) + 1) + 1
    BY <2>2, <2>3, <2>4, ConcatLen
  <2> QED
    BY <1>2, <2>5
<1>10. IsSeq(pay') /\ Len(pay') = Len(pay) + 0
  BY <1>1, <1>2
<1>11. frames' = WithItem(frames, nodes[a], Len(cells), 2) /\ nodes[a].kind # "dir"
  BY <1>1, <1>4
<1>12. PICK k \in Nat : k = 2
  OBVIOUS
<1>13. PICK m \in Nat : m = 0
  OBVIOUS
<1>14. PICK l \in Int : l = 2
  OBVIOUS
<1>15. k = NodeSize(nodes[a]) /\ Len(cells') = Len(cells) + k /\ m = PayloadSize(nodes[a]) /\ Len(pay') = Len(pay) + m
  BY <1>8, <1>9, <1>10, <1>12, <1>13
<1>16. frames' = WithItem(frames, nodes[a], Len(cells), l)
  BY <1>11, <1>14
<1> QED
  BY <1>1, <1>3, <1>9, <1>10, <1>11, <1>15, <1>16, EntryKeeps

LEMMA LeafKeeps ==
  ASSUME TreeInOrder, EmitInv, EmitLeaf, UNCHANGED scanVars
  PROVE  EmitInv'
<1> DEFINE rec(n) == (Filename(n) \o MetadataRecords(n)) \o TypeRecords(n)
           extra(n) == IF V2 /\ n.kind = "file" THEN n.size ELSE 0
<1>1. /\ epc = "run" /\ epc' = "run" /\ InOpenDir /\ AtNode.kind \notin {"dir", "hardlink"} /\ at' = at + 1
  BY DEF EmitLeaf
<1>2. IsSeq(cells) /\ IsSeq(pay) /\ Len(cells) \in Nat /\ Len(pay) \in Nat /\ at \in Nat /\ at >= 1
  BY <1>1, Running, NodeTypes
<1>3. PICK a \in 1 .. N : a = at
  BY <1>1, <1>2 DEF InOpenDir, N
<1>4. AtNode = nodes[a]
  BY <1>3 DEF AtNode
<1>5. PICK n : n = nodes[a]
  OBVIOUS
<1>6. /\ cells' = cells \o rec(n) /\ pay' = IF V2 /\ n.kind = "file" THEN pay \o PayloadRecord(n) ELSE pay
      /\ frames' = WithItem(frames, n, Len(cells), Len(rec(n)) + extra(n))
  BY <1>4, <1>5 DEF EmitLeaf
<1>7. n.kind \in {"file", "symlink", "fifo", "device"} /\ n.size \in Nat /\ n.x \in Nat
  BY <1>1, <1>4, <1>5, NodeTypes
<1>8. /\ NameLen(n) \in Nat /\ TypeLen(n) \in Nat /\ NodeSize(n) = NameLen(n) + (1 + n.x) + TypeLen(n)
      /\ NodeSize(n) \in Nat
  BY <1>5, <1>7, NodeSizes
<1>9. IsSeq(rec(n)) /\ Len(rec(n)) = NodeSize(n)
  <2>1. IsSeq(Filename(n)) /\ Len(Filename(n)) = NameLen(n)
    BY FilenameLen
  <2>2. IsSeq(MetadataRecords(n)) /\ Len(MetadataRecords(n)) = 1 + n.x
    BY <1>7, MetadataLen
  <2>3. IsSeq(TypeRecords(n)) /\ Len(TypeRecords(n)) = TypeLen(n)
    BY <1>7, TypeRecordsLen
  <2>4. IsSeq(Filename(n) \o MetadataRecords(n)) /\ Len(Filename(n) \o MetadataRecords(n)) = NameLen(n) + (1 + n.x)
    BY <2>1, <2>2, ConcatLen
  <2>5. IsSeq(rec(n)) /\ Len(rec(n)) = (NameLen(n) + (1 + n.x)) + TypeLen(n)
    BY <2>3, <2>4, ConcatLen
  <2> QED
    BY <1>8, <2>5
<1> HIDE DEF rec
<1>10. PICK k \in Nat : k = NodeSize(nodes[a])
  BY <1>5, <1>8
<1>11. IsSeq(cells') /\ Len(cells') = Len(cells) + k
  BY <1>2, <1>5, <1>6, <1>9, <1>10, ConcatLen
<1>12. PICK l \in Int : l = Len(rec(n)) + extra(n)
  <2>1. extra(n) \in Nat
    BY <1>7
  <2> HIDE DEF extra
  <2> QED
    BY <1>8, <1>9, <2>1
<1>13. frames' = WithItem(frames, nodes[a], Len(cells), l) /\ nodes[a].kind # "dir"
  BY <1>1, <1>4, <1>5, <1>6, <1>12
<1>14. \E m \in Nat : (V2 => m = PayloadSize(nodes[a])) /\ IsSeq(pay') /\ Len(pay') = Len(pay) + m
  <2>1. CASE V2 /\ n.kind = "file"
    <3>1. IsSeq(PayloadRecord(n)) /\ Len(PayloadRecord(n)) = 1 + n.size
      BY <1>7, PayloadLen
    <3>2. pay' = pay \o PayloadRecord(n)
      BY <1>6, <2>1
    <3>3. IsSeq(pay') /\ Len(pay') = Len(pay) + (1 + n.size)
      BY <1>2, <3>1, <3>2, ConcatLen
    <3>4. PayloadSize(nodes[a]) = 1 + n.size /\ 1 + n.size \in Nat
      BY <1>5, <1>7, <2>1 DEF PayloadSize
    <3> QED
      BY <3>3, <3>4
  <2>2. CASE ~(V2 /\ n.kind = "file")
    <3>1. pay' = pay
      BY <1>6, <2>2
    <3>2. V2 => PayloadSize(nodes[a]) = 0
      BY <1>5, <2>2 DEF PayloadSize
    <3>3. Len(pay') = Len(pay) + 0 /\ IsSeq(pay')
      BY <1>2, <3>1
    <3> QED
      BY <3>2, <3>3
  <2> QED
    BY <2>1, <2>2
<1> QED
  BY <1>1, <1>3, <1>10, <1>11, <1>13, <1>14, EntryKeeps

LEMMA UnresolvedKeeps ==
  ASSUME TreeInOrder, EmitInv, EmitUnresolved, UNCHANGED scanVars
  PROVE  EmitInv'
  BY DEF EmitInv, EmitUnresolved, scanVars, IsSeq

\* The table of the innermost directory, which has an item for each child.
LEMMA GoodbyeWritten ==
  ASSUME TreeInOrder, EmitInv, EmitGoodbye
  PROVE  /\ epc = "run" /\ at' = at /\ at \in 2 .. N + 1
         /\ at <= N => Front(nodes[at].path) # frames[Len(frames)].path
         /\ Len(frames) \in Nat /\ Len(frames) >= 1 /\ Last(frames) = frames[Len(frames)]
         /\ Len(frames) = 1 => at = N + 1
         /\ SizeGoodbye(ChildCount(frames[Len(frames)].path)) \in Nat
         /\ IsSeq(cells')
         /\ Len(cells') = Len(cells) + SizeGoodbye(ChildCount(frames[Len(frames)].path))
<1>1. epc = "run" /\ at > 1 /\ ~InOpenDir /\ at' = at
  BY DEF EmitGoodbye
<1>2. /\ Frames(frames, at) /\ frames \in Seq(FrameType) /\ at \in 1 .. N + 1 /\ (at = 1 <=> frames = <<>>)
      /\ at \in Nat /\ IsSeq(cells) /\ Len(cells) \in Nat
  BY <1>1, Running
<1>3. PICK d \in Nat : d = Len(frames)
  BY <1>2, LenType
<1>4. d >= 1
  BY <1>1, <1>2, <1>3, EmptyLen
<1>5. PICK a \in 2 .. N + 1 : a = at
  BY <1>1, <1>2, NodeTypes
<1>6. Last(frames) = frames[d]
  BY <1>3 DEF Last
<1>7. at <= N => Front(nodes[at].path) # frames[d].path
  BY <1>1, <1>6 DEF InOpenDir, AtNode, N
<1>8. PICK fs : fs = frames
  OBVIOUS
<1>9. ChildCount(fs[d].path) = Len(fs[d].items) /\ (d = 1 => a = N + 1)
  BY <1>2, <1>3, <1>4, <1>5, <1>7, <1>8, Complete
<1>10. PICK f : f = fs[d]
  OBVIOUS
<1>11. f \in FrameType /\ f.items \in Seq(ItemType)
  <2>1. d \in 1 .. Len(fs) /\ fs \in Seq(FrameType)
    BY <1>2, <1>3, <1>4, <1>8
  <2>2. f \in FrameType
    BY <1>10, <2>1, ElementType
  <2> QED
    BY <2>2 DEF FrameType
<1>12. PICK b : b = Goodbye(f.items, IF Len(frames) = 1 THEN 0 ELSE f.entry, Len(cells))
  OBVIOUS
<1>13. cells' = cells \o b
  BY <1>6, <1>8, <1>10, <1>12 DEF EmitGoodbye
<1>14. IsSeq(b) /\ Len(b) = Len(f.items) + 2
  BY <1>11, <1>12, GoodbyeLen
<1>15. SizeGoodbye(ChildCount(fs[d].path)) = Len(f.items) + 2 /\ Len(f.items) \in Nat
  BY <1>9, <1>10, <1>11, LenType DEF SizeGoodbye
<1>16. IsSeq(cells') /\ Len(cells') = Len(cells) + Len(b)
  BY <1>2, <1>13, <1>14, ConcatLen
<1> QED
  BY <1>1, <1>3, <1>4, <1>5, <1>6, <1>7, <1>8, <1>9, <1>14, <1>15, <1>16

LEMMA GoodbyeKeeps ==
  ASSUME TreeInOrder, EmitInv, EmitGoodbye, UNCHANGED scanVars
  PROVE  EmitInv'
<1>1. UNCHANGED <<in, nodes>> /\ spc' = spc /\ spc = "done" /\ epc = "run"
  BY DEF scanVars, EmitInv, EmitGoodbye
<1>2. /\ Frames(frames, at) /\ Written(frames, at - 1, Len(cells)) /\ Paid(at - 1, Len(pay), 1)
      /\ frames \in Seq(FrameType) /\ IsSeq(pay) /\ Len(cells) \in Nat /\ Len(pay) \in Nat
  BY <1>1, Running
<1>3. PICK a \in 2 .. N + 1 : a = at
  BY GoodbyeWritten
<1>4. PICK d \in Nat : d = Len(frames)
  BY GoodbyeWritten
<1>5. PICK fs : fs = frames
  OBVIOUS
<1>6. PICK c \in Nat : c = Len(cells)
  BY <1>2
<1>7. PICK p \in Nat : p = Len(pay)
  BY <1>2
<1>8. PICK k \in Nat : k = SizeGoodbye(ChildCount(fs[d].path))
  BY <1>4, <1>5, GoodbyeWritten
<1>9. IsSeq(cells') /\ Len(cells') = c + k
  BY <1>4, <1>5, <1>6, <1>8, GoodbyeWritten
<1>10. /\ a <= N => Front(nodes[a].path) # fs[d].path
       /\ d >= 1 /\ Last(frames) = fs[d] /\ (d = 1 => a = N + 1) /\ at' = a
  BY <1>3, <1>4, <1>5, GoodbyeWritten
<1>11. PICK m \in Nat : m = a - 1
  OBVIOUS
<1>12. fs \in Seq(FrameType) /\ Frames(fs, a) /\ Written(fs, m, c) /\ Paid(m, p, 1) /\ d = Len(fs)
  BY <1>2, <1>3, <1>4, <1>5, <1>6, <1>7, <1>11
<1>13. CASE d = 1
  <2>1. epc' = "done" /\ pay' = IF V2 THEN Append(pay, Cell("end", 0)) ELSE pay
    BY <1>4, <1>13 DEF EmitGoodbye
  <2>2. PICK gs : gs = Front(fs)
    OBVIOUS
  <2>3. SamePaths(Front(fs), gs)
    BY <2>2 DEF SamePaths
  <2>4. Sized(m, c + k) /\ m = N
    <3>1. m = N
      BY <1>10, <1>11, <1>13, NodeTypes
    <3>2. Sized(m, c + k)
      BY <1>8, <1>10, <1>12, <1>13, <2>3, WrittenTable
    <3> QED
      BY <3>1, <3>2
  <2>5. IsSeq(pay') /\ (V2 => Len(pay') = p + 1)
    <3>1. PICK T : pay \in Seq(T)
      BY <1>2 DEF IsSeq
    <3>2. PICK x : x = Cell("end", 0)
      OBVIOUS
    <3>3. CASE V2
      <4>1. pay' = Append(pay, x)
        BY <2>1, <3>2, <3>3
      <4>2. pay \in Seq(T \union {x})
        BY <3>1
      <4>3. pay' \in Seq(T \union {x}) /\ Len(pay') = Len(pay) + 1
        BY <4>1, <4>2, AppendType, AppendAt
      <4> QED
        BY <1>7, <4>3 DEF IsSeq
    <3>4. CASE ~V2
      BY <1>2, <2>1, <3>4
    <3> QED
      BY <3>3, <3>4
  <2>6. PICK q : q = Len(pay')
    OBVIOUS
  <2>7. Paid(N, q, 2)
    <3> SUFFICES ASSUME V2 PROVE \E P : IsSums(P, N, PayloadSizes) /\ q = 2 + P[N]
      BY DEF Paid
    <3>1. PICK P : IsSums(P, N, PayloadSizes) /\ p = 1 + P[N]
      BY <1>12, <2>4 DEF Paid
    <3>2. P[N] \in Nat
      BY <3>1, NodeTypes DEF IsSums
    <3>3. q = 2 + P[N]
      BY <2>5, <2>6, <3>1, <3>2
    <3> QED
      BY <3>1, <3>3
  <2>8. PICK e : e = c + k
    OBVIOUS
  <2>9. Sized(m, e)' /\ Paid(m, q, 2)'
    BY <1>1, <2>4, <2>7, <2>8, InvariantStays
  <2>10. N' = m /\ e = Len(cells')
    BY <1>1, <1>9, <2>4, <2>8, TreeStays
  <2> QED
    BY <1>1, <1>9, <2>1, <2>5, <2>6, <2>9, <2>10 DEF EmitInv
<1>14. CASE d # 1
  <2>1. PICK l \in Int : l = Len(cells) + Len(Goodbye(fs[d].items, fs[d].entry, Len(cells))) - fs[d].start
    <3>1. PICK f : f = fs[d]
      OBVIOUS
    <3>2. f \in FrameType
      <4>1. d \in 1 .. Len(fs)
        BY <1>10, <1>12
      <4> QED
        BY <1>12, <3>1, <4>1, ElementType
    <3>3. f.start \in Nat /\ f.items \in Seq(ItemType)
      BY <3>2 DEF FrameType
    <3>4. Len(Goodbye(f.items, f.entry, Len(cells))) = Len(f.items) + 2
      BY <3>3, GoodbyeLen
    <3>5. Len(f.items) \in Nat
      BY <3>3, LenType
    <3> QED
      BY <1>2, <3>1, <3>3, <3>4, <3>5
  <2>2. PICK b \in Nat : b = fs[d].start
    <3>1. d \in 1 .. Len(fs)
      BY <1>10, <1>12
    <3>2. fs[d] \in FrameType
      BY <1>12, <3>1, ElementType
    <3> QED
      BY <3>2 DEF FrameType
  <2>3. PICK gs : gs = WithItem(Front(fs), fs[d], b, l)
    OBVIOUS
  <2>4. gs = frames' /\ epc' = "run" /\ pay' = pay
    BY <1>4, <1>5, <1>10, <1>14, <2>1, <2>2, <2>3 DEF EmitGoodbye
  <2>5. Frames(gs, a) /\ SamePaths(Front(fs), gs)
    <3>1. d > 1
      BY <1>10, <1>14
    <3> QED
      BY <1>10, <1>12, <2>3, <3>1, Ascend
  <2>6. Written(gs, m, c + k)
    BY <1>8, <1>10, <1>12, <2>5, WrittenTable
  <2>7. m + 1 = a /\ m = at' - 1 /\ at' = m + 1
    BY <1>10, <1>11
  <2>8. Frames(gs, m + 1)
    BY <2>5, <2>7
  <2>9. IsSeq(pay') /\ p = Len(pay')
    BY <1>2, <1>7, <2>4
  <2> QED
    BY <1>1, <1>9, <1>12, <2>4, <2>6, <2>7, <2>8, <2>9, WalkKeeps
<1> QED
  BY <1>13, <1>14

-----------------------------------------------------------------------------
(* The estimates *)

LEMMA SizesSum ==
  ASSUME TreeInOrder, NEW S, IsSums(S, N, Sizes)
  PROVE  SumOver(NodeSize, nodes) = S[N]
<1> DEFINE step(it) == [s \in SUBSET DOMAIN nodes |->
                          IF s = {} THEN 0 ELSE it[s \ {Max(s)}] + NodeSize(nodes[Max(s)])]
           iter == CHOOSE it : it = step(it)
<1>1. N \in Nat /\ DOMAIN nodes = 1 .. N /\ Sizes \in [1 .. N -> Nat]
  BY NodeTypes, SizeTypes
<1>2. ASSUME NEW s \in SUBSET (1 .. N), s # {} PROVE Sizes[Max(s)] = NodeSize(nodes[Max(s)])
  <2>1. Max(s) \in 1 .. N
    BY <1>1, <1>2, Greatest
  <2> QED
    BY <2>1 DEF Sizes
<1>3. ASSUME NEW it PROVE Folds(it, N, Sizes) <=> it = step(it)
  <2>1. step(it) = [s \in SUBSET (1 .. N) |-> IF s = {} THEN 0 ELSE it[s \ {Max(s)}] + Sizes[Max(s)]]
    BY <1>1, <1>2
  <2> HIDE DEF step
  <2> QED
    BY <2>1 DEF Folds
<1>4. SumOver(NodeSize, nodes) = iter[DOMAIN nodes]
  BY DEF SumOver, FoldLeft, MapThenFoldSet
<1>5. PICK it : Folds(it, N, Sizes)
  BY <1>1, FoldExists
<1> HIDE DEF step
<1>6. iter = step(iter)
  <2>1. it = step(it)
    BY <1>3, <1>5
  <2> QED
    BY <2>1, Zenon
<1> HIDE DEF iter
<1>7. Folds(iter, N, Sizes)
  BY <1>3, <1>6
<1>8. iter[1 .. N] = S[N]
  BY <1>1, <1>7, FoldIsSum
<1> QED
  BY <1>1, <1>4, <1>8

LEMMA PayloadSum ==
  ASSUME TreeInOrder, NEW S, IsSums(S, N, PayloadSizes)
  PROVE  SumOver(LAMBDA n : IF n.kind = "file" THEN 1 + n.size ELSE 0, nodes) = S[N]
<1> DEFINE step(it) == [s \in SUBSET DOMAIN nodes |->
                          IF s = {} THEN 0 ELSE it[s \ {Max(s)}] + (IF nodes[Max(s)].kind = "file" THEN 1 + nodes[Max(s)].size ELSE 0)]
           iter == CHOOSE it : it = step(it)
<1>1. N \in Nat /\ DOMAIN nodes = 1 .. N /\ PayloadSizes \in [1 .. N -> Nat]
  BY NodeTypes, SizeTypes
<1>2. ASSUME NEW s \in SUBSET (1 .. N), s # {} PROVE PayloadSizes[Max(s)] = (IF nodes[Max(s)].kind = "file" THEN 1 + nodes[Max(s)].size ELSE 0)
  <2>1. Max(s) \in 1 .. N
    BY <1>1, <1>2, Greatest
  <2> QED
    BY <2>1 DEF PayloadSizes, PayloadSize
<1>3. ASSUME NEW it PROVE Folds(it, N, PayloadSizes) <=> it = step(it)
  <2>1. step(it) = [s \in SUBSET (1 .. N) |-> IF s = {} THEN 0 ELSE it[s \ {Max(s)}] + PayloadSizes[Max(s)]]
    BY <1>1, <1>2
  <2> HIDE DEF step
  <2> QED
    BY <2>1 DEF Folds
<1>4. SumOver(LAMBDA n : IF n.kind = "file" THEN 1 + n.size ELSE 0, nodes) = iter[DOMAIN nodes]
  BY DEF SumOver, FoldLeft, MapThenFoldSet
<1>5. PICK it : Folds(it, N, PayloadSizes)
  BY <1>1, FoldExists
<1> HIDE DEF step
<1>6. iter = step(iter)
  <2>1. it = step(it)
    BY <1>3, <1>5
  <2> QED
    BY <2>1, Zenon
<1> HIDE DEF iter
<1>7. Folds(iter, N, PayloadSizes)
  BY <1>3, <1>6
<1>8. iter[1 .. N] = S[N]
  BY <1>1, <1>7, FoldIsSum
<1> QED
  BY <1>1, <1>4, <1>8

LEMMA EstimatesMeet == TreeInOrder /\ EmitInv => EstimateExact
<1> SUFFICES ASSUME TreeInOrder, EmitInv, epc = "done"
             PROVE  IF V2 THEN Len(cells) = EstimateMeta /\ Len(pay) = EstimatePayload ELSE Len(cells) = EstimateArchive
  BY DEF EstimateExact
<1>1. PICK S : IsSums(S, N, Sizes) /\ Len(cells) = HeaderSize + S[N]
  BY DEF EmitInv, Sized
<1>2. PICK z \in Nat : z = S[N]
  BY <1>1, NodeTypes DEF IsSums
<1>3. SumOver(NodeSize, nodes) = z
  BY <1>1, <1>2, SizesSum
<1>4. CASE V2
  <2>1. Len(cells) = EstimateMeta
    BY <1>1, <1>2, <1>3, <1>4 DEF EstimateMeta, HeaderSize
  <2>2. PICK P : IsSums(P, N, PayloadSizes) /\ Len(pay) = 2 + P[N]
    BY <1>4 DEF EmitInv, Paid
  <2>3. EstimatePayload = 2 + P[N]
    <3>1. SumOver(LAMBDA n : IF n.kind = "file" THEN 1 + n.size ELSE 0, nodes) = P[N]
      BY <2>2, PayloadSum
    <3> QED
      BY <3>1 DEF EstimatePayload
  <2> QED
    BY <1>4, <2>1, <2>2, <2>3
<1>5. CASE ~V2
  BY <1>1, <1>2, <1>3, <1>5 DEF EstimateArchive, HeaderSize
<1> QED
  BY <1>4, <1>5

-----------------------------------------------------------------------------
(* The specification: a tree is scanned, then written *)

writeVars == <<scanVars, emitVars>>
WriteNext == (ScanNext /\ UNCHANGED emitVars) \/ (EmitNext /\ UNCHANGED scanVars)
WriteSpec == ScanInit /\ EmitInit /\ [][WriteNext]_writeVars

LEMMA EmitKeeps == TreeInOrder /\ EmitInv /\ EmitNext /\ UNCHANGED scanVars => EmitInv'
  BY StartKeeps, DirKeeps, LeafKeeps, HardlinkKeeps, UnresolvedKeeps, GoodbyeKeeps DEF EmitNext

\* A scan that is done takes no step, and before that nothing is written.
LEMMA ScanKeeps == EmitInv /\ ScanNext /\ UNCHANGED emitVars => EmitInv'
<1> SUFFICES ASSUME EmitInv, ScanNext, UNCHANGED emitVars PROVE EmitInv'
  OBVIOUS
<1>1. spc # "done"
  BY DEF ScanNext, AddDirectoryAs, AddFile, AddStream, AddTree, Calling, StartScan, ScanRoot, ScanChild, OmitChild,
         SkipChild, ScanFails, LeaveDir, BuildTree, AtChild
<1>2. epc = "off"
  BY <1>1 DEF EmitInv
<1> QED
  BY <1>2 DEF EmitInv, emitVars

LEMMA WriteKeeps == KeptExactly /\ EmitInv /\ [WriteNext]_writeVars => EmitInv'
<1> SUFFICES ASSUME KeptExactly, EmitInv, [WriteNext]_writeVars PROVE EmitInv'
  OBVIOUS
<1>1. CASE ScanNext /\ UNCHANGED emitVars
  BY <1>1, ScanKeeps
<1>2. CASE EmitNext /\ UNCHANGED scanVars
  <2>1. spc = "done"
    BY <1>2 DEF EmitNext, EmitStart, EmitDir, EmitLeaf, EmitHardlink, EmitUnresolved, EmitGoodbye, EmitInv
  <2>2. TreeInOrder
    BY <2>1 DEF KeptExactly
  <2> QED
    BY <1>2, <2>2, EmitKeeps
<1>3. CASE UNCHANGED writeVars
  <2>1. UNCHANGED <<in, nodes, spc, cells, pay, at, frames, linkTargets, epc>>
    BY <1>3 DEF writeVars, scanVars, emitVars
  <2>2. CASE epc = "run"
    <3>1. PICK fs : fs = frames
      OBVIOUS
    <3>2. PICK a : a = at
      OBVIOUS
    <3>3. PICK c : c = Len(cells)
      OBVIOUS
    <3>4. PICK p : p = Len(pay)
      OBVIOUS
    <3>5. Frames(fs, a) /\ Written(fs, a - 1, c) /\ Paid(a - 1, p, 1)
      BY <2>2, <3>1, <3>2, <3>3, <3>4 DEF EmitInv
    <3>6. Frames(fs, a)' /\ Written(fs, a - 1, c)' /\ Paid(a - 1, p, 1)'
      BY <2>1, <3>5, InvariantStays
    <3> QED
      BY <2>1, <2>2, <3>1, <3>2, <3>3, <3>4, <3>6 DEF EmitInv, IsSeq
  <2>3. CASE epc = "done"
    <3>1. PICK m : m = N
      OBVIOUS
    <3>2. PICK c : c = Len(cells)
      OBVIOUS
    <3>3. PICK p : p = Len(pay)
      OBVIOUS
    <3>4. Sized(m, c) /\ Paid(m, p, 2)
      BY <2>3, <3>1, <3>2, <3>3 DEF EmitInv
    <3>5. Sized(m, c)' /\ Paid(m, p, 2)' /\ N' = m
      BY <2>1, <3>1, <3>4, InvariantStays, TreeStays
    <3> QED
      BY <2>1, <2>3, <3>2, <3>3, <3>5 DEF EmitInv, IsSeq
  <2>4. CASE epc \notin {"run", "done"}
    BY <2>1, <2>4 DEF EmitInv, IsSeq
  <2> QED
    BY <2>2, <2>3, <2>4
<1> QED
  BY <1>1, <1>2, <1>3 DEF WriteNext

\* The sizes announced for a tree are the sizes of the streams that the emitter writes for it, in
\* both formats (EstimatedSizeV1, EstimatedSizeV2), for any inputs, any hash of names and any tree
\* that the scan can leave in archive order, as it does whenever it keeps exactly what it should.
THEOREM SizesAnnounced == WriteSpec /\ []KeptExactly => []EstimateExact
<1>1. ScanInit /\ EmitInit => EmitInv
  BY DEF EmitInit, EmitInv
<1>2. KeptExactly /\ EmitInv => EstimateExact
  <2> SUFFICES ASSUME KeptExactly, EmitInv, epc = "done" PROVE EstimateExact
    BY DEF EstimateExact
  <2>1. TreeInOrder
    BY DEF KeptExactly, EmitInv
  <2> QED
    BY <2>1, EstimatesMeet
<1> QED
  BY <1>1, <1>2, WriteKeeps, PTL DEF WriteSpec
=============================================================================
