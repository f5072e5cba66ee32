--------------------------- MODULE SequenceLemmas ---------------------------
(***************************************************************************)
(* What the queue operations of the standard module Sequences keep and     *)
(* where they put each element, for the proofs about the pipelines, and    *)
(* what follows step by step along an interval of the integers.            *)
(***************************************************************************)
EXTENDS Integers, Sequences, WellFoundedInduction, TLAPS

LEMMA EmptyType == ASSUME NEW S PROVE <<>> \in Seq(S)
  OBVIOUS

LEMMA LenType == ASSUME NEW S, NEW s \in Seq(S) PROVE Len(s) \in Nat
  OBVIOUS

LEMMA AppendType ==
  ASSUME NEW S, NEW s \in Seq(S), NEW x \in S
  PROVE  Append(s, x) \in Seq(S)
  OBVIOUS

LEMMA HeadTailType ==
  ASSUME NEW S, NEW s \in Seq(S), s # <<>>
  PROVE  Head(s) \in S /\ Tail(s) \in Seq(S)
  OBVIOUS

LEMMA AppendAt ==
  ASSUME NEW S, NEW s \in Seq(S), NEW x \in S
  PROVE  /\ Len(Append(s, x)) = Len(s) + 1 /\ Append(s, x)[Len(s) + 1] = x
         /\ \A i \in 1 .. Len(Append(s, x)) : Append(s, x)[i] = x \/ (i \in 1 .. Len(s) /\ Append(s, x)[i] = s[i])
         /\ \A i \in 1 .. Len(s) : Append(s, x)[i] = s[i]
  OBVIOUS

LEMMA TailAt ==
  ASSUME NEW S, NEW s \in Seq(S), s # <<>>
  PROVE  /\ Len(Tail(s)) = Len(s) - 1
         /\ \A i \in 1 .. Len(Tail(s)) : i+1 \in 1 .. Len(s) /\ Tail(s)[i] = s[i+1]
  OBVIOUS

LEMMA HeadAt ==
  ASSUME NEW S, NEW s \in Seq(S), s # <<>>
  PROVE  1 \in 1 .. Len(s) /\ Head(s) = s[1]
  OBVIOUS

LEMMA ElementType ==
  ASSUME NEW S, NEW s \in Seq(S), NEW i \in 1 .. Len(s)
  PROVE  s[i] \in S
  OBVIOUS

LEMMA ConcatAt ==
  ASSUME NEW S, NEW e \in Seq(S), NEW b \in Seq(S)
  PROVE  /\ Len(e \o b) = Len(e) + Len(b)
         /\ \A i \in 1 .. Len(e) : (e \o b)[i] = e[i]
         /\ \A i \in 1 .. Len(e) + Len(b) : i > Len(e) => (e \o b)[i] = b[i - Len(e)]
  OBVIOUS

LEMMA SubSeqAt ==
  ASSUME NEW S, NEW s \in Seq(S), NEW i \in Nat, NEW j \in Nat, i >= 1, i <= j + 1, j <= Len(s)
  PROVE  /\ SubSeq(s, i, j) \in Seq(S) /\ Len(SubSeq(s, i, j)) = j - i + 1
         /\ \A x \in 1 .. j - i + 1 : SubSeq(s, i, j)[x] = s[i + x - 1]
  OBVIOUS

LEMMA ButLast == ASSUME NEW n \in Nat, NEW i PROVE i \in 1 .. n - 1 <=> i \in 1 .. n /\ i # n
  OBVIOUS

LEMMA EmptyLen == ASSUME NEW S, NEW s \in Seq(S) PROVE s = <<>> <=> Len(s) = 0
  OBVIOUS

LEMMA SequenceOf ==
  ASSUME NEW S, NEW n \in Nat, NEW f \in [1 .. n -> S]
  PROVE  f \in Seq(S) /\ Len(f) = n
  OBVIOUS

LEMMA Least ==
  ASSUME NEW T, T \subseteq Nat, T # {}
  PROVE  \E x \in T : \A y \in T : x <= y
<1>1. PICK x \in T : \A y \in T : ~(<<y, x>> \in OpToRel(<, Nat))
  BY NatLessThanWellFounded, WFMin
<1>2. \A y \in T : ~(y < x)
  BY <1>1 DEF OpToRel
<1>3. \A y \in T : x <= y
  BY <1>2
<1> QED
  BY <1>3

LEMMA Climbs ==
  ASSUME NEW f, NEW a \in Nat, NEW b \in Int, \A j \in a .. b : f[j] \in Int,
         \A j \in a .. b - 1 : f[j] <= f[j + 1]
  PROVE  \A i, j \in a .. b : i <= j => f[i] <= f[j]
<1> SUFFICES ASSUME NEW i \in a .. b, NEW k \in a .. b, i <= k, ~(f[i] <= f[k])
             PROVE  FALSE
  OBVIOUS
<1> DEFINE T == {j \in a .. b : i <= j /\ ~(f[i] <= f[j])}
<1>1. T \subseteq Nat /\ T # {}
  OBVIOUS
<1>2. PICK x \in T : \A y \in T : x <= y
  BY <1>1, Least
<1>3. x # i
  OBVIOUS
<1>4. x - 1 \in a .. b /\ x - 1 \in a .. b - 1 /\ i <= x - 1
  BY <1>3
<1>5. x - 1 \notin T
  BY <1>1, <1>2
<1>6. f[i] <= f[x - 1] /\ f[x - 1] <= f[(x - 1) + 1]
  BY <1>4, <1>5
<1>7. (x - 1) + 1 = x
  BY <1>1
<1> QED
  BY <1>4, <1>6, <1>7

LEMMA Steady ==
  ASSUME NEW f, NEW a \in Nat, NEW b \in Int, \A j \in a .. b - 1 : f[j] = f[j + 1]
  PROVE  \A j \in a .. b : f[j] = f[a]
<1> SUFFICES ASSUME NEW k \in a .. b, f[k] # f[a]
             PROVE  FALSE
  OBVIOUS
<1> DEFINE T == {j \in a .. b : f[j] # f[a]}
<1>1. T \subseteq Nat /\ T # {}
  OBVIOUS
<1>2. PICK x \in T : \A y \in T : x <= y
  BY <1>1, Least
<1>3. x - 1 \in a .. b /\ x - 1 \in a .. b - 1
  OBVIOUS
<1>4. x - 1 \notin T
  BY <1>1, <1>2
<1>5. f[x - 1] = f[a] /\ f[x - 1] = f[(x - 1) + 1]
  BY <1>3, <1>4
<1>6. (x - 1) + 1 = x
  BY <1>1
<1> QED
  BY <1>5, <1>6

\* The partial sums of the weights w along 1 .. n.
IsSums(f, n, w) == f \in [0 .. n -> Nat] /\ f[0] = 0 /\ \A k \in 1 .. n : f[k] = f[k - 1] + w[k]

\* There are some; that the recursion has a solution is an induction.
LEMMA PartialSums ==
  ASSUME NEW n \in Nat, NEW w \in [1 .. n -> Nat]
  PROVE  \E f : IsSums(f, n, w)
<1> DEFINE Solves(f, m) == f[0] = 0 /\ \A k \in 1 .. m : f[k] = f[k - 1] + w[k]
           T == {m \in Nat : m <= n /\ ~\E f \in [0 .. m -> Nat] : Solves(f, m)}
<1>1. SUFFICES ASSUME T # {} PROVE FALSE
  <2>1. n \notin T
    BY <1>1
  <2>2. PICK f \in [0 .. n -> Nat] : Solves(f, n)
    <3> HIDE DEF Solves
    <3>1. n <= n
      OBVIOUS
    <3> QED
      BY <2>1, <3>1
  <2> QED
    BY <2>2 DEF IsSums
<1>2. PICK m \in T : \A y \in T : m <= y
  BY <1>1, Least
<1>3. m \in Nat /\ m <= n /\ ~\E f \in [0 .. m -> Nat] : Solves(f, m)
  OBVIOUS
<1>4. m # 0
  <2> DEFINE e == [k \in 0 .. 0 |-> 0]
  <2>1. e \in [0 .. 0 -> Nat] /\ Solves(e, 0)
    OBVIOUS
  <2> HIDE DEF e, Solves
  <2> QED
    BY <1>3, <2>1
<1>5. m - 1 \in Nat /\ m - 1 <= n /\ m - 1 \notin T
  <2>1. m - 1 \in Nat /\ m - 1 <= n /\ ~(m <= m - 1)
    BY <1>3, <1>4
  <2> HIDE DEF T
  <2> QED
    BY <1>2, <2>1
<1>6. PICK f \in [0 .. m - 1 -> Nat] : Solves(f, m - 1)
  BY <1>5
<1> DEFINE v == f[m - 1] + w[m]
           g == [k \in 0 .. m |-> IF k = m THEN v ELSE f[k]]
<1>7. v \in Nat
  <2>1. m - 1 \in 0 .. m - 1 /\ m \in 1 .. n
    BY <1>3, <1>4
  <2> QED
    BY <2>1
<1>8. g \in [0 .. m -> Nat]
  <2>1. \A k \in 0 .. m : k # m => k \in 0 .. m - 1
    BY <1>3
  <2> HIDE DEF v
  <2> QED
    BY <1>7, <2>1
<1>9. Solves(g, m)
  <2>1. g[0] = 0
    BY <1>3, <1>4, <1>6
  <2>2. ASSUME NEW k \in 1 .. m PROVE g[k] = g[k - 1] + w[k]
    <3>1. k - 1 \in 0 .. m /\ k - 1 # m /\ k \in 0 .. m
      BY <1>3
    <3>2. g[k - 1] = f[k - 1]
      BY <3>1
    <3>3. CASE k = m
      BY <3>1, <3>2, <3>3
    <3>4. CASE k # m
      <4>1. k \in 1 .. m - 1
        BY <1>3, <3>4
      <4> QED
        BY <1>6, <3>1, <3>2, <3>4, <4>1
    <3> QED
      BY <3>3, <3>4
  <2> QED
    BY <2>1, <2>2
<1> HIDE DEF g, Solves
<1> QED
  BY <1>3, <1>8, <1>9

\* Partial sums whose weights differ only at m differ at the end by as much.
DifferAt(u, v, n, m, c) ==
  /\ u \in [1 .. n -> Nat] /\ v \in [1 .. n -> Nat] /\ m \in 1 .. n /\ c \in Nat
  /\ u[m] = v[m] + c /\ \A k \in 1 .. n : k # m => u[k] = v[k]

LEMMA OneMore ==
  ASSUME NEW n \in Nat, NEW u, NEW v, NEW m, NEW c, DifferAt(u, v, n, m, c),
         NEW f, NEW g, IsSums(f, n, u), IsSums(g, n, v)
  PROVE  f[n] = g[n] + c
<1>0. /\ u \in [1 .. n -> Nat] /\ v \in [1 .. n -> Nat] /\ m \in 1 .. n /\ c \in Nat
      /\ u[m] = v[m] + c /\ \A k \in 1 .. n : k # m => u[k] = v[k]
  BY DEF DifferAt
<1> DEFINE d == [j \in 0 .. n |-> f[j] - g[j]]
<1>1. ASSUME NEW j \in 0 .. n - 1
      PROVE  /\ d[j] \in Int /\ u[j + 1] \in Nat /\ v[j + 1] \in Nat
             /\ d[j + 1] = d[j] + (u[j + 1] - v[j + 1])
  <2>1. j + 1 \in 1 .. n /\ (j + 1) - 1 = j /\ j \in 0 .. n /\ j + 1 \in 0 .. n
    OBVIOUS
  <2>2. f[j + 1] = f[j] + u[j + 1] /\ g[j + 1] = g[j] + v[j + 1]
    BY <2>1 DEF IsSums
  <2>3. f[j] \in Nat /\ g[j] \in Nat /\ u[j + 1] \in Nat /\ v[j + 1] \in Nat
    BY <1>0, <2>1 DEF IsSums
  <2>4. d[j] = f[j] - g[j] /\ d[j + 1] = f[j + 1] - g[j + 1]
    BY <2>1
  <2> HIDE DEF d
  <2>5. PICK a \in Nat : a = f[j]
    BY <2>3
  <2>6. PICK b \in Nat : b = g[j]
    BY <2>3
  <2>7. PICK x \in Nat : x = u[j + 1]
    BY <2>3
  <2>8. PICK y \in Nat : y = v[j + 1]
    BY <2>3
  <2>9. d[j] = a - b /\ d[j + 1] = (a + x) - (b + y)
    BY <2>2, <2>4, <2>5, <2>6, <2>7, <2>8
  <2>10. (a + x) - (b + y) = (a - b) + (x - y)
    OBVIOUS
  <2> QED
    BY <2>7, <2>8, <2>9, <2>10
<1>2. /\ d[0] = 0 /\ d[n] = f[n] - g[n] /\ f[n] \in Nat /\ g[n] \in Nat
      /\ m \in Nat /\ m - 1 \in 0 .. n - 1 /\ (m - 1) + 1 = m
  BY <1>0 DEF IsSums
<1> HIDE DEF d
<1>3. ASSUME NEW j \in 0 .. n - 1, j + 1 # m PROVE d[j] = d[j + 1]
  <2>1. j + 1 \in 1 .. n
    OBVIOUS
  <2>2. u[j + 1] = v[j + 1]
    BY <1>0, <1>3, <2>1
  <2> QED
    BY <1>1, <2>2
<1>4. d[m - 1] = d[0]
  <2>1. \A j \in 0 .. (m - 1) - 1 : j \in 0 .. n - 1 /\ j + 1 # m
    BY <1>0
  <2>2. \A j \in 0 .. (m - 1) - 1 : d[j] = d[j + 1]
    BY <1>3, <2>1
  <2>3. 0 \in Nat /\ m - 1 \in Int /\ m - 1 \in 0 .. m - 1
    BY <1>0
  <2>4. \A j \in 0 .. m - 1 : d[j] = d[0]
    BY <2>2, <2>3, Steady
  <2> QED
    BY <2>3, <2>4
<1>5. d[n] = d[m]
  <2>1. \A j \in m .. n - 1 : j \in 0 .. n - 1 /\ j + 1 # m
    BY <1>0
  <2>2. \A j \in m .. n - 1 : d[j] = d[j + 1]
    BY <1>3, <2>1
  <2>3. m \in Nat /\ n \in Int /\ n \in m .. n
    BY <1>0
  <2>4. \A j \in m .. n : d[j] = d[m]
    BY <2>2, <2>3, Steady
  <2> QED
    BY <2>3, <2>4
<1>6. d[m] = d[m - 1] + (u[m] - v[m]) /\ u[m] \in Nat /\ v[m] \in Nat /\ d[m - 1] \in Int
  BY <1>1, <1>2
<1> QED
  BY <1>0, <1>2, <1>4, <1>5, <1>6

LEMMA NothingToSum ==
  ASSUME NEW n \in Nat, NEW w, NEW f, IsSums(f, n, w), \A k \in 1 .. n : w[k] = 0
  PROVE  f[n] = 0
<1>1. \A j \in 0 .. n - 1 : f[j] = f[j + 1]
  <2> SUFFICES ASSUME NEW j \in 0 .. n - 1 PROVE f[j] = f[j + 1]
    OBVIOUS
  <2>1. j + 1 \in 1 .. n /\ (j + 1) - 1 = j /\ j \in 0 .. n
    OBVIOUS
  <2>2. f[j + 1] = f[j] + 0 /\ f[j] \in Nat
    BY <2>1 DEF IsSums
  <2> QED
    BY <2>2
<1>2. 0 \in Nat /\ n \in Int /\ n \in 0 .. n
  OBVIOUS
<1>3. \A j \in 0 .. n : f[j] = f[0]
  BY <1>1, <1>2, Steady
<1> QED
  BY <1>2, <1>3 DEF IsSums
=============================================================================
