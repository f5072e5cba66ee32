-------------------------- MODULE IndexFileProofs --------------------------
(***************************************************************************)
(* Proofs about IndexFile, for every index, cache size and read-ahead and  *)
(* any number of readers: a chunk is never downloaded twice at a time, a   *)
(* failure is not cached, and a read returns the stream from its offset    *)
(* on.                                                                     *)
(***************************************************************************)
EXTENDS IndexFile, SequenceLemmas

States == {"free", "flight", "ok", "failed", "gone"}

\* The parts of TypeOK.
TypeFile ==
  /\ cache \in [Entries -> Ids \union {None}]
  /\ clock \in Nat /\ last \in Entries \union {0} /\ run \in 0 .. Ahead
  /\ state \in [Ids -> States]
  /\ used \in [Ids -> 0 .. clock]
TypeReads ==
  /\ reads \in 0 .. MaxReads
  /\ pc \in [Readers -> {"idle", "next", "wait"}]
  /\ off \in [Readers -> Offsets \union {0}] /\ want \in [Readers -> Nat]
  /\ got \in [Readers -> Seq(0 .. Size)]
  /\ handle \in [Readers -> Ids \union {None}] /\ missed \in [Readers -> BOOLEAN]
  /\ err \in [Readers -> {"none", "nil", "EOF", "failed"}]

\* The cache holds handles of the chunk they are cached for, and every download in flight:
\* it is the only one of its chunk.
Keyed == \A i \in Entries : cache[i] # None => ChunkOf(cache[i]) = i
InFlight == \A h \in Ids : state[h] = "flight" => cache[ChunkOf(h)] = h

\* A call that has not returned, and the handle it waits for.
ReadOf(r) ==
  /\ \A x \in 1 .. Len(got[r]) : got[r][x] = off[r] + x - 1
  /\ err[r] = "nil" => Len(got[r]) = want[r]
  /\ err[r] = "EOF" => Len(got[r]) < want[r] /\ Position(r) >= Size
  /\ pc[r] \in {"next", "wait"} => err[r] = "none" /\ off[r] >= 0 /\ Len(got[r]) <= want[r]
  /\ pc[r] = "wait" => /\ More(r) /\ handle[r] \in Ids
                       /\ ChunkOf(handle[r]) \in Entries /\ Ends[ChunkOf(handle[r])] > Position(r)

FileInv == TypeFile /\ TypeReads /\ Keyed /\ InFlight /\ RetryIsFresh /\ \A r \in Readers : ReadOf(r)

-----------------------------------------------------------------------------
LEMMA MinNat ==
  ASSUME NEW T, T \subseteq Nat, T # {}
  PROVE  Min(T) \in T /\ \A y \in T : Min(T) <= y
  BY Least DEF Min

LEMMA IndexTypes ==
  /\ Len(Ends) \in Nat /\ Entries = 1 .. Len(Ends) /\ Size \in Nat
  /\ \A i \in Entries : i \in Nat /\ i # 0 /\ Ends[i] \in Nat
  /\ Ahead \in Nat /\ Ahead >= 1 /\ MaxReads \in Nat /\ Gens \in Nat
<1>1. Ends \in Seq(Nat) /\ Len(Ends) \in Nat
  BY IndexConstants, LenType
<1>2. \A i \in Entries : i \in Nat /\ i # 0 /\ Ends[i] \in Nat
  BY <1>1, ElementType DEF Entries
<1>3. Size \in Nat
  <2>1. CASE Ends = <<>>
    BY <2>1 DEF Size
  <2>2. CASE Ends # <<>>
    <3>1. Len(Ends) \in Entries
      BY <1>1, <2>2, EmptyLen DEF Entries
    <3> QED
      BY <1>2, <2>2, <3>1 DEF Size
  <2> QED
    BY <2>1, <2>2
<1> QED
  BY <1>1, <1>2, <1>3, IndexConstants DEF Entries

\* The end offsets ascend, so the last one is the size of the stream.
LEMMA EndsBelow == \A i \in Entries : Ends[i] <= Size
<1> DEFINE beyond == {d \in Nat : \E i \in Entries : d = Len(Ends) - i /\ Ends[i] > Size}
<1>1. SUFFICES ASSUME beyond # {} PROVE FALSE
  <2>1. TAKE i \in Entries
  <2>2. Len(Ends) - i \in Nat /\ Ends[i] \in Nat /\ Size \in Nat
    BY IndexTypes
  <2>3. Len(Ends) - i \notin beyond
    BY <1>1
  <2>4. ~(Ends[i] > Size)
    BY <2>2, <2>3
  <2> QED
    BY <2>2, <2>4
<1>2. Min(beyond) \in beyond /\ \A y \in beyond : Min(beyond) <= y
  BY <1>1, MinNat
<1>3. PICK i \in Entries : Min(beyond) = Len(Ends) - i /\ Ends[i] > Size
  BY <1>2
<1>4. Ends # <<>>
  BY IndexTypes, IndexConstants, EmptyLen
<1>5. i # Len(Ends)
  BY <1>3, <1>4, IndexTypes DEF Size
<1>6. i + 1 \in Entries
  BY <1>5, IndexTypes
<1>7. Ends[i] < Ends[i + 1]
  <2>1. StartOf(i + 1) = Ends[i]
    BY IndexTypes DEF StartOf
  <2> QED
    BY <1>6, <2>1, IndexConstants
<1>8. Ends[i + 1] > Size
  BY <1>3, <1>6, <1>7, IndexTypes
<1>9. Len(Ends) - (i + 1) \in beyond
  BY <1>6, <1>8, IndexTypes
<1>10. Min(beyond) <= Len(Ends) - (i + 1)
  BY <1>2, <1>9
<1> HIDE DEF beyond
<1> QED
  BY <1>3, <1>10, IndexTypes

\* Before the end of the stream there is a chunk that holds the position.
LEMMA ChunkFound ==
  ASSUME NEW o \in Nat, o < Size
  PROVE  ChunkAt(o) \in Entries /\ Ends[ChunkAt(o)] > o
<1> DEFINE holding == {i \in Entries : Ends[i] > o}
<1>1. Ends # <<>>
  BY DEF Size
<1>2. Len(Ends) \in Entries /\ Size = Ends[Len(Ends)]
  BY <1>1, IndexTypes, IndexConstants, EmptyLen DEF Size
<1>3. Len(Ends) \in holding
  BY <1>2, IndexTypes
<1>4. holding \subseteq Nat
  BY IndexTypes
<1>5. Min(holding) \in holding
  BY <1>3, <1>4, MinNat
<1>6. ChunkAt(o) = Min(holding)
  BY DEF ChunkAt
<1> QED
  BY <1>5, <1>6

LEMMA HandleTypes ==
  /\ \A h \in Ids : ChunkOf(h) \in Entries /\ h # None
  /\ \A j \in Entries, g \in 1 .. Gens : <<j, g>> \in Ids /\ ChunkOf(<<j, g>>) = j
<1>1. \A h \in Ids : h[1] \in Entries /\ h[1] # 0
  BY IndexTypes DEF Ids
<1>2. None[1] = 0
  BY DEF None
<1> QED
  BY <1>1, <1>2 DEF Ids, ChunkOf

\* The window stays within the read-ahead.
LEMMA WindowType ==
  ASSUME NEW i \in Entries, run \in 0 .. Ahead
  PROVE  Window(i) \in 0 .. Ahead
<1> DEFINE both == {run + 1, Ahead}
<1>1. both \subseteq Nat /\ both # {}
  BY IndexTypes
<1>2. Min(both) \in both /\ Min(both) <= Ahead
  BY <1>1, MinNat
<1>3. Min({run + 1, Ahead}) \in 0 .. Ahead
  BY <1>1, <1>2, IndexTypes
<1> QED
  BY <1>3, IndexTypes DEF Window

-----------------------------------------------------------------------------
LEMMA FileKept ==
  ASSUME TypeFile, Keyed, InFlight, RetryIsFresh, UNCHANGED <<fileVars, handleVars>>
  PROVE  TypeFile' /\ Keyed' /\ InFlight' /\ RetryIsFresh'
  BY DEF TypeFile, Keyed, InFlight, RetryIsFresh, fileVars, handleVars

LEMMA ReadKept ==
  ASSUME NEW q \in Readers, ReadOf(q), pc'[q] = pc[q], off'[q] = off[q], want'[q] = want[q], got'[q] = got[q],
         handle'[q] = handle[q], err'[q] = err[q]
  PROVE  ReadOf(q)'
  BY DEF ReadOf, Position, More

LEMMA ReadsKept ==
  ASSUME TypeReads, \A r \in Readers : ReadOf(r), UNCHANGED readVars
  PROVE  TypeReads' /\ \A r \in Readers : ReadOf(r)'
<1>1. TypeReads'
  BY DEF TypeReads, readVars
<1>2. \A r \in Readers : ReadOf(r)'
  BY ReadKept DEF readVars
<1> QED
  BY <1>1, <1>2

LEMMA FetchEndsKeeps ==
  ASSUME FileInv, NEW h \in Ids, FetchEnds(h)
  PROVE  FileInv'
<1>1. TypeFile /\ TypeReads /\ Keyed /\ InFlight /\ RetryIsFresh /\ \A r \in Readers : ReadOf(r)
  BY DEF FileInv
<1>2. PICK a \in {"ok", "failed"} : state' = [state EXCEPT ![h] = a]
  BY DEF FetchEnds
<1>3. state[h] = "flight" /\ UNCHANGED fileVars /\ used' = used /\ UNCHANGED readVars
  BY DEF FetchEnds
<1>4. state'[h] = a /\ (\A g \in Ids \ {h} : state'[g] = state[g]) /\ state' \in [Ids -> States]
  BY <1>1, <1>2 DEF TypeFile, States
<1>5. TypeFile'
  BY <1>1, <1>3, <1>4 DEF TypeFile, fileVars
<1>6. Keyed'
  BY <1>1, <1>3 DEF Keyed, fileVars
<1>7. InFlight'
  BY <1>1, <1>3, <1>4 DEF InFlight, fileVars
<1>8. RetryIsFresh'
  BY <1>1, <1>3, <1>4, HandleTypes DEF RetryIsFresh, fileVars, TypeFile
<1>9. TypeReads' /\ \A r \in Readers : ReadOf(r)'
  BY <1>1, <1>3, ReadsKept
<1> QED
  BY <1>5, <1>6, <1>7, <1>8, <1>9 DEF FileInv

LEMMA CleanUpKeeps ==
  ASSUME FileInv, NEW h \in Ids, CleanUp(h)
  PROVE  FileInv'
<1>1. TypeFile /\ TypeReads /\ Keyed /\ InFlight /\ RetryIsFresh /\ \A r \in Readers : ReadOf(r)
  BY DEF FileInv
<1>2. state[h] = "failed" /\ cache' = DropHandle(h) /\ UNCHANGED <<clock, last, run, used>> /\ UNCHANGED readVars
  BY DEF CleanUp
<1>3. state'[h] = "gone" /\ (\A g \in Ids \ {h} : state'[g] = state[g]) /\ state' \in [Ids -> States]
  BY <1>1 DEF TypeFile, States, CleanUp
<1>4. ChunkOf(h) \in Entries /\ h # None
  BY HandleTypes
<1>5. /\ cache' \in [Entries -> Ids \union {None}]
      /\ \A i \in Entries : cache'[i] # None => cache'[i] = cache[i]
      /\ \A i \in Entries : cache[i] # h => cache'[i] = cache[i]
      /\ cache'[ChunkOf(h)] # h
  <2>1. CASE cache[ChunkOf(h)] = h
    <3>1. cache' = [cache EXCEPT ![ChunkOf(h)] = None]
      BY <1>2, <2>1 DEF DropHandle
    <3> QED
      BY <1>1, <1>4, <2>1, <3>1 DEF TypeFile
  <2>2. CASE cache[ChunkOf(h)] # h
    <3>1. cache' = cache
      BY <1>2, <2>2 DEF DropHandle
    <3> QED
      BY <1>1, <2>2, <3>1 DEF TypeFile
  <2> QED
    BY <2>1, <2>2
<1>6. TypeFile'
  BY <1>1, <1>2, <1>3, <1>5 DEF TypeFile
<1>7. Keyed'
  BY <1>1, <1>5 DEF Keyed
<1>8. InFlight'
  BY <1>1, <1>3, <1>5, HandleTypes DEF InFlight
<1>9. RetryIsFresh'
  <2>1. ASSUME NEW i \in Entries, cache'[i] # None PROVE state'[cache'[i]] # "gone"
    <3>1. cache'[i] = cache[i] /\ cache[i] \in Ids /\ ChunkOf(cache[i]) = i /\ state[cache[i]] # "gone"
      BY <1>1, <1>5, <2>1 DEF TypeFile, Keyed, RetryIsFresh
    <3>2. cache[i] # h
      BY <1>5, <3>1
    <3> QED
      BY <1>3, <3>1, <3>2
  <2> QED
    BY <2>1 DEF RetryIsFresh
<1>10. TypeReads' /\ \A r \in Readers : ReadOf(r)'
  BY <1>1, <1>2, ReadsKept
<1> QED
  BY <1>6, <1>7, <1>8, <1>9, <1>10 DEF FileInv

LEMMA ReadTypes ==
  ASSUME TypeReads, NEW r \in Readers
  PROVE  off[r] \in Int /\ want[r] \in Nat /\ got[r] \in Seq(0 .. Size) /\ Len(got[r]) \in Nat
<1>1. off[r] \in Offsets \union {0} /\ want[r] \in Nat /\ got[r] \in Seq(0 .. Size)
  BY DEF TypeReads
<1>2. off[r] \in Int
  BY <1>1, IndexConstants
<1>3. Len(got[r]) \in Nat
  BY <1>1, LenType
<1> QED
  BY <1>1, <1>2, <1>3

LEMMA ReadAtKeeps ==
  ASSUME FileInv, NEW r \in Readers, ReadAt(r)
  PROVE  FileInv'
<1>1. TypeFile /\ TypeReads /\ Keyed /\ InFlight /\ RetryIsFresh /\ \A q \in Readers : ReadOf(q)
  BY DEF FileInv
<1>2. UNCHANGED <<fileVars, handleVars>> /\ handle' = handle /\ missed' = missed /\ reads' = reads + 1 /\ reads < MaxReads
  BY DEF ReadAt
<1>3. PICK o \in Offsets, n \in Lengths :
        /\ off' = [off EXCEPT ![r] = o] /\ want' = [want EXCEPT ![r] = n]
        /\ pc' = [pc EXCEPT ![r] = IF o < 0 THEN "idle" ELSE "next"]
        /\ err' = [err EXCEPT ![r] = IF o < 0 THEN "failed" ELSE "none"]
        /\ got' = [got EXCEPT ![r] = <<>>]
  BY DEF ReadAt
<1>4. o \in Int /\ n \in Nat
  BY IndexConstants
<1>5. /\ off'[r] = o /\ want'[r] = n /\ got'[r] = <<>> /\ pc'[r] = (IF o < 0 THEN "idle" ELSE "next")
      /\ err'[r] = (IF o < 0 THEN "failed" ELSE "none")
      /\ \A q \in Readers \ {r} : off'[q] = off[q] /\ want'[q] = want[q] /\ got'[q] = got[q] /\ pc'[q] = pc[q] /\ err'[q] = err[q]
  BY <1>1, <1>3 DEF TypeReads
<1>6. TypeReads'
  <2>1. <<>> \in Seq(0 .. Size)
    BY EmptyType
  <2>2. got' \in [Readers -> Seq(0 .. Size)]
    BY <1>1, <1>3, <2>1 DEF TypeReads
  <2>3. off' \in [Readers -> Offsets \union {0}] /\ want' \in [Readers -> Nat]
    BY <1>1, <1>3, <1>4 DEF TypeReads
  <2>4. pc' \in [Readers -> {"idle", "next", "wait"}] /\ err' \in [Readers -> {"none", "nil", "EOF", "failed"}]
    BY <1>1, <1>3 DEF TypeReads
  <2>5. reads' \in 0 .. MaxReads
    BY <1>1, <1>2, IndexTypes DEF TypeReads
  <2> QED
    BY <1>1, <1>2, <2>2, <2>3, <2>4, <2>5 DEF TypeReads
<1>7. ASSUME NEW q \in Readers PROVE ReadOf(q)'
  <2>1. CASE q = r
    <3>1. Len(got'[r]) = 0
      BY <1>5
    <3>2. \A x \in 1 .. Len(got'[r]) : FALSE
      BY <3>1
    <3> QED
      BY <1>4, <1>5, <2>1, <3>1, <3>2 DEF ReadOf
  <2>2. CASE q # r
    BY <1>1, <1>2, <1>5, <2>2, ReadKept
  <2> QED
    BY <2>1, <2>2
<1> QED
  BY <1>1, <1>2, <1>6, <1>7, FileKept DEF FileInv

LEMMA DoneKeeps ==
  ASSUME FileInv, NEW r \in Readers, Done(r)
  PROVE  FileInv'
<1>1. TypeFile /\ TypeReads /\ Keyed /\ InFlight /\ RetryIsFresh /\ \A q \in Readers : ReadOf(q)
  BY DEF FileInv
<1>2. /\ UNCHANGED <<fileVars, handleVars>> /\ UNCHANGED <<reads, off, want, got, handle, missed>>
      /\ pc[r] = "next" /\ ~More(r)
  BY DEF Done
<1>3. /\ pc'[r] = "idle" /\ err'[r] = (IF Len(got[r]) < want[r] THEN "EOF" ELSE "nil")
      /\ \A q \in Readers \ {r} : pc'[q] = pc[q] /\ err'[q] = err[q]
      /\ pc' \in [Readers -> {"idle", "next", "wait"}] /\ err' \in [Readers -> {"none", "nil", "EOF", "failed"}]
  BY <1>1 DEF TypeReads, Done
<1>4. TypeReads'
  BY <1>1, <1>2, <1>3 DEF TypeReads
<1>5. ASSUME NEW q \in Readers PROVE ReadOf(q)'
  <2>1. CASE q = r
    <3>1. PICK l : l = Len(got[r])
      OBVIOUS
    <3>2. l \in Nat /\ want[r] \in Nat /\ off[r] \in Int /\ Size \in Nat
      BY <1>1, <3>1, ReadTypes, IndexTypes
    <3>3. l <= want[r] /\ (l >= want[r] \/ Position(r) >= Size)
      BY <1>1, <1>2, <3>1, <3>2 DEF ReadOf, More, Position
    <3>4. Position(r)' = Position(r) /\ \A x \in 1 .. l : got[r][x] = off[r] + x - 1
      BY <1>1, <1>2, <3>1 DEF ReadOf, Position
    <3>5. CASE l < want[r]
      BY <1>2, <1>3, <2>1, <3>1, <3>2, <3>3, <3>4, <3>5 DEF ReadOf
    <3>6. CASE l = want[r]
      BY <1>2, <1>3, <2>1, <3>1, <3>2, <3>4, <3>6 DEF ReadOf
    <3> QED
      BY <3>2, <3>3, <3>5, <3>6
  <2>2. CASE q # r
    BY <1>1, <1>2, <1>3, <2>2, ReadKept
  <2> QED
    BY <2>1, <2>2
<1> QED
  BY <1>1, <1>2, <1>4, <1>5, FileKept DEF FileInv

\* The units copied continue the stream at o, and do not pass its end.
LEMMA CopiedUnits ==
  ASSUME NEW i \in Entries, NEW o \in Nat, NEW n \in Nat, n > 0, Ends[i] > o
  PROVE  /\ Copied(i, o, n) \in Seq(0 .. Size) /\ Len(Copied(i, o, n)) \in 1 .. n
         /\ \A x \in 1 .. Len(Copied(i, o, n)) : Copied(i, o, n)[x] = o + x - 1
<1> DEFINE both == {n, Ends[i] - o}
<1>1. Ends[i] \in Nat /\ Ends[i] <= Size /\ Size \in Nat
  BY IndexTypes, EndsBelow
<1>2. both \subseteq Nat /\ both # {}
  BY <1>1
<1>3. Min(both) \in both /\ Min(both) <= n /\ Min(both) <= Ends[i] - o
  BY <1>2, MinNat
<1>4. PICK k : k = Min(both)
  OBVIOUS
<1>5. k \in 1 .. n /\ k <= Ends[i] - o
  BY <1>1, <1>3, <1>4
<1>6. Copied(i, o, n) = [x \in 1 .. k |-> o + x - 1]
  BY <1>4 DEF Copied
<1> HIDE DEF both
<1>7. \A x \in 1 .. k : o + x - 1 \in 0 .. Size
  BY <1>1, <1>5
<1>8. PICK f : f = [x \in 1 .. k |-> o + x - 1]
  OBVIOUS
<1>9. f \in [1 .. k -> 0 .. Size] /\ k \in Nat
  <2>1. DOMAIN f = 1 .. k /\ f = [x \in 1 .. k |-> f[x]] /\ \A x \in 1 .. k : f[x] = o + x - 1
    BY <1>8
  <2>2. \A x \in 1 .. k : f[x] \in 0 .. Size
    BY <1>7, <2>1
  <2> QED
    BY <1>5, <2>1, <2>2
<1>10. f \in Seq(0 .. Size) /\ Len(f) = k
  BY <1>9, SequenceOf
<1>11. \A x \in 1 .. k : f[x] = o + x - 1
  BY <1>8
<1> QED
  BY <1>5, <1>6, <1>8, <1>10, <1>11

LEMMA ReceiveKeeps ==
  ASSUME FileInv, NEW r \in Readers, Receive(r)
  PROVE  FileInv'
<1>1. TypeFile /\ TypeReads /\ Keyed /\ InFlight /\ RetryIsFresh /\ \A q \in Readers : ReadOf(q)
  BY DEF FileInv
<1>2. UNCHANGED <<fileVars, handleVars>> /\ UNCHANGED <<reads, off, want, missed>> /\ pc[r] = "wait"
  BY DEF Receive
<1>3. handle' \in [Readers -> Ids \union {None}] /\ \A q \in Readers \ {r} : handle'[q] = handle[q]
  BY <1>1 DEF Receive, TypeReads
<1>4. PICK l : l = Len(got[r])
  OBVIOUS
<1>5. PICK o : o = Position(r)
  OBVIOUS
<1>6. PICK i : i = ChunkOf(handle[r])
  OBVIOUS
<1>7. /\ l \in Nat /\ want[r] \in Nat /\ off[r] \in Nat /\ o = off[r] + l /\ o \in Nat /\ l < want[r]
      /\ i \in Entries /\ Ends[i] > o /\ got[r] \in Seq(0 .. Size) /\ err[r] = "none"
      /\ \A x \in 1 .. l : got[r][x] = off[r] + x - 1
  <2>1. l \in Nat /\ want[r] \in Nat /\ off[r] \in Int /\ got[r] \in Seq(0 .. Size)
    BY <1>1, <1>4, ReadTypes
  <2> QED
    BY <1>1, <1>2, <1>4, <1>5, <1>6, <2>1 DEF ReadOf, More, Position
<1>8. CASE /\ got' = [got EXCEPT ![r] = @ \o Copied(ChunkOf(handle[r]), Position(r), want[r] - Len(got[r]))]
           /\ pc' = [pc EXCEPT ![r] = "next"] /\ UNCHANGED err
  <2>1. PICK n : n = want[r] - l
    OBVIOUS
  <2>2. n \in Nat /\ n > 0
    BY <1>7, <2>1
  <2>3. PICK u : u = Copied(i, o, n)
    OBVIOUS
  <2>4. u \in Seq(0 .. Size) /\ Len(u) \in 1 .. n /\ \A x \in 1 .. Len(u) : u[x] = o + x - 1
    BY <1>7, <2>2, <2>3, CopiedUnits
  <2>5. got'[r] = got[r] \o u /\ \A q \in Readers \ {r} : got'[q] = got[q]
    BY <1>1, <1>4, <1>5, <1>6, <1>8, <2>1, <2>3 DEF TypeReads
  <2>6. /\ Len(got'[r]) = l + Len(u) /\ got'[r] \in Seq(0 .. Size)
        /\ \A x \in 1 .. l : got'[r][x] = got[r][x]
        /\ \A x \in 1 .. l + Len(u) : x > l => got'[r][x] = u[x - l]
    BY <1>4, <1>7, <2>4, <2>5, ConcatAt
  <2>7. pc'[r] = "next" /\ (\A q \in Readers \ {r} : pc'[q] = pc[q]) /\ pc' \in [Readers -> {"idle", "next", "wait"}]
    BY <1>1, <1>8 DEF TypeReads
  <2>8. TypeReads'
    <3>1. got' \in [Readers -> Seq(0 .. Size)]
      BY <1>1, <1>8, <2>5, <2>6 DEF TypeReads
    <3> QED
      BY <1>1, <1>2, <1>3, <1>8, <2>7, <3>1 DEF TypeReads
  <2>9. \A x \in 1 .. Len(got'[r]) : got'[r][x] = off[r] + x - 1
    <3>1. TAKE x \in 1 .. Len(got'[r])
    <3>2. CASE x <= l
      BY <1>7, <2>4, <2>6, <3>2
    <3>3. CASE x > l
      <4>1. x - l \in 1 .. Len(u)
        BY <1>7, <2>4, <2>6, <3>3
      <4>2. got'[r][x] = o + (x - l) - 1
        BY <2>4, <2>6, <3>3, <4>1
      <4>3. x \in Nat /\ l \in Nat /\ off[r] \in Nat /\ o = off[r] + l
        BY <1>7, <2>4, <2>6
      <4>4. o + (x - l) - 1 = off[r] + x - 1
        BY <4>3
      <4> QED
        BY <4>2, <4>4
    <3> QED
      BY <1>7, <2>4, <2>6, <3>2, <3>3
  <2>10. Len(got'[r]) <= want[r]
    BY <1>7, <2>1, <2>4, <2>6
  <2>11. ASSUME NEW q \in Readers PROVE ReadOf(q)'
    <3>1. CASE q = r
      BY <1>2, <1>7, <1>8, <2>7, <2>9, <2>10, <3>1 DEF ReadOf
    <3>2. CASE q # r
      BY <1>1, <1>2, <1>3, <1>8, <2>5, <2>7, <3>2, ReadKept
    <3> QED
      BY <3>1, <3>2
  <2> QED
    BY <1>1, <1>2, <2>8, <2>11, FileKept DEF FileInv
<1>9. CASE pc' = [pc EXCEPT ![r] = "idle"] /\ err' = [err EXCEPT ![r] = "failed"] /\ UNCHANGED got
  <2>1. /\ pc'[r] = "idle" /\ err'[r] = "failed" /\ \A q \in Readers \ {r} : pc'[q] = pc[q] /\ err'[q] = err[q]
        /\ pc' \in [Readers -> {"idle", "next", "wait"}] /\ err' \in [Readers -> {"none", "nil", "EOF", "failed"}]
    BY <1>1, <1>9 DEF TypeReads
  <2>2. TypeReads'
    BY <1>1, <1>2, <1>3, <1>9, <2>1 DEF TypeReads
  <2>3. ASSUME NEW q \in Readers PROVE ReadOf(q)'
    <3>1. CASE q = r
      BY <1>2, <1>4, <1>7, <1>9, <2>1, <3>1 DEF ReadOf
    <3>2. CASE q # r
      BY <1>1, <1>2, <1>3, <1>9, <2>1, <3>2, ReadKept
    <3> QED
      BY <3>1, <3>2
  <2> QED
    BY <1>1, <1>2, <2>2, <2>3, FileKept DEF FileInv
<1> QED
  BY <1>8, <1>9 DEF Receive

LEMMA LookupKeeps ==
  ASSUME FileInv, NEW r \in Readers, Lookup(r)
  PROVE  FileInv'
<1>1. TypeFile /\ TypeReads /\ Keyed /\ InFlight /\ RetryIsFresh /\ \A q \in Readers : ReadOf(q)
  BY DEF FileInv
<1>2. PICK i : i = ChunkAt(Position(r))
  OBVIOUS
<1>3. PICK new : new = Added(i, Prefetch(i))
  OBVIOUS
<1>4. PICK c : c = Registered(new)
  OBVIOUS
<1>5. /\ pc[r] = "next" /\ More(r) /\ \A j \in new : Unused(j) # {}
      /\ clock' = clock + 1 /\ run' = Window(i) /\ last' = i
      /\ state' = [h \in Ids |-> IF ChunkOf(h) \in new /\ h = c[ChunkOf(h)] THEN "flight" ELSE state[h]]
      /\ used' = [h \in Ids |-> IF ChunkOf(h) \in new \union {i} /\ h = c[ChunkOf(h)] THEN clock + 1 ELSE used[h]]
      /\ handle' = [handle EXCEPT ![r] = c[i]]
      /\ missed' = [missed EXCEPT ![r] = i \in new]
      /\ cache' \in Evicted(c, state', used')
      /\ pc' = [pc EXCEPT ![r] = "wait"]
      /\ UNCHANGED <<reads, off, want, got, err>>
  BY <1>2, <1>3, <1>4 DEF Lookup
<1>6. i \in Entries /\ Ends[i] > Position(r) /\ Position(r) \in Nat
  <2>1. off[r] \in Int /\ Len(got[r]) \in Nat /\ off[r] >= 0
    BY <1>1, <1>5, ReadTypes DEF ReadOf
  <2>2. Position(r) \in Nat /\ Position(r) < Size
    BY <1>5, <2>1 DEF Position, More
  <2> QED
    BY <1>2, <2>2, ChunkFound
<1>7. (\A j \in new : j \in Entries /\ cache[j] = None) /\ (i \in new <=> cache[i] = None)
  BY <1>3, <1>6 DEF Added
\* The handles after add, before evict.
<1>8. /\ \A j \in new : c[j] \in Ids /\ ChunkOf(c[j]) = j
      /\ \A j \in Entries : j \notin new => c[j] = cache[j]
  <2>1. \A j \in Entries : c[j] = IF j \in new THEN <<j, Min(Unused(j))>> ELSE cache[j]
    BY <1>4 DEF Registered
  <2>2. ASSUME NEW j \in new PROVE Min(Unused(j)) \in 1 .. Gens
    <3>1. Unused(j) \subseteq 1 .. Gens /\ Unused(j) # {}
      BY <1>5 DEF Unused
    <3>2. Unused(j) \subseteq Nat
      BY <3>1
    <3> QED
      BY <3>1, <3>2, MinNat
  <2>3. \A j \in new : c[j] = <<j, Min(Unused(j))>> /\ j \in Entries
    BY <1>7, <2>1
  <2> QED
    BY <2>1, <2>2, <2>3, HandleTypes
<1>9. \A j \in Entries : c[j] \in Ids \union {None} /\ (c[j] # None => ChunkOf(c[j]) = j)
  BY <1>1, <1>8 DEF TypeFile, Keyed
<1>10. c[i] \in Ids
  BY <1>1, <1>6, <1>7, <1>8 DEF TypeFile
\* Only finished handles are evicted.
<1>11. PICK v : /\ cache' = [j \in Entries |-> IF j \in v THEN None ELSE c[j]]
                /\ \A j \in v : c[j] # None /\ state'[c[j]] \in {"ok", "failed", "gone"}
  <2>1. PICK v \in SUBSET Evictable(c, state') : cache' = [j \in Entries |-> IF j \in v THEN None ELSE c[j]]
    BY <1>5 DEF Evicted, kSubset
  <2> QED
    BY <2>1 DEF Evictable, Cached, Finished
<1>12. \A h \in Ids : state'[h] = IF ChunkOf(h) \in new /\ h = c[ChunkOf(h)] THEN "flight" ELSE state[h]
  BY <1>5
<1>13. TypeFile'
  <2>1. cache' \in [Entries -> Ids \union {None}]
    BY <1>9, <1>11
  <2>2. state' \in [Ids -> States]
    <3>1. \A h \in Ids : state[h] \in States
      BY <1>1 DEF TypeFile
    <3> QED
      BY <1>5, <3>1 DEF States
  <2>3. used' \in [Ids -> 0 .. clock']
    <3>1. clock \in Nat /\ clock' = clock + 1 /\ \A h \in Ids : used[h] \in 0 .. clock
      BY <1>1, <1>5 DEF TypeFile
    <3>2. \A h \in Ids : used[h] \in 0 .. clock' /\ clock + 1 \in 0 .. clock'
      BY <3>1
    <3> QED
      BY <1>5, <3>2
  <2>4. clock' \in Nat /\ last' \in Entries \union {0} /\ run' \in 0 .. Ahead
    BY <1>1, <1>5, <1>6, WindowType DEF TypeFile
  <2> QED
    BY <2>1, <2>2, <2>3, <2>4 DEF TypeFile
<1>14. Keyed'
  BY <1>9, <1>11 DEF Keyed
<1>15. InFlight'
  <2>1. ASSUME NEW h \in Ids, state'[h] = "flight" PROVE cache'[ChunkOf(h)] = h
    <3>1. ChunkOf(h) \in Entries /\ h # None
      BY HandleTypes
    <3>2. c[ChunkOf(h)] = h
      <4>1. CASE ChunkOf(h) \in new /\ h = c[ChunkOf(h)]
        BY <4>1
      <4>2. CASE ~(ChunkOf(h) \in new /\ h = c[ChunkOf(h)])
        <5>1. state[h] = "flight"
          BY <1>12, <2>1, <4>2
        <5>2. cache[ChunkOf(h)] = h
          BY <1>1, <5>1 DEF InFlight
        <5> QED
          BY <1>7, <1>8, <3>1, <5>2
      <4> QED
        BY <4>1, <4>2
    <3>3. ChunkOf(h) \notin v
      BY <1>11, <2>1, <3>2
    <3> QED
      BY <1>11, <3>1, <3>2, <3>3
  <2> QED
    BY <2>1 DEF InFlight
<1>16. RetryIsFresh'
  <2>1. ASSUME NEW j \in Entries, cache'[j] # None PROVE state'[cache'[j]] # "gone"
    <3>1. cache'[j] = c[j] /\ c[j] # None /\ c[j] \in Ids /\ ChunkOf(c[j]) = j
      BY <1>9, <1>11, <2>1
    <3>2. CASE j \in new
      BY <1>12, <3>1, <3>2
    <3>3. CASE j \notin new
      <4>1. c[j] = cache[j] /\ state[c[j]] # "gone"
        BY <1>1, <1>8, <3>1, <3>3 DEF RetryIsFresh
      <4> QED
        BY <1>12, <3>1, <4>1
    <3> QED
      BY <3>2, <3>3
  <2> QED
    BY <2>1 DEF RetryIsFresh
<1>17. /\ handle'[r] = c[i] /\ pc'[r] = "wait" /\ \A q \in Readers \ {r} : handle'[q] = handle[q] /\ pc'[q] = pc[q]
       /\ handle' \in [Readers -> Ids \union {None}] /\ pc' \in [Readers -> {"idle", "next", "wait"}]
  BY <1>1, <1>5, <1>10 DEF TypeReads
<1>18. TypeReads'
  <2>1. missed' \in [Readers -> BOOLEAN]
    BY <1>1, <1>5 DEF TypeReads
  <2> QED
    BY <1>1, <1>5, <1>17, <2>1 DEF TypeReads
<1>19. ASSUME NEW q \in Readers PROVE ReadOf(q)'
  <2>1. CASE q = r
    <3>1. ChunkOf(c[i]) = i
      BY <1>6, <1>9, <1>10, HandleTypes
    <3>2. Position(r)' = Position(r) /\ More(r)'
      BY <1>5 DEF Position, More
    <3> QED
      BY <1>1, <1>5, <1>6, <1>10, <1>17, <2>1, <3>1, <3>2 DEF ReadOf
  <2>2. CASE q # r
    BY <1>1, <1>5, <1>17, <2>2, ReadKept
  <2> QED
    BY <2>1, <2>2
<1> QED
  BY <1>13, <1>14, <1>15, <1>16, <1>18, <1>19 DEF FileInv

-----------------------------------------------------------------------------
LEMMA FileInit ==
  ASSUME Init
  PROVE  FileInv
<1> USE DEF Init
<1>1. TypeFile
  <2>1. run \in 0 .. Ahead /\ clock \in Nat /\ used \in [Ids -> 0 .. clock]
    BY IndexTypes
  <2> QED
    BY <2>1 DEF TypeFile, States
<1>2. TypeReads
  <2>1. <<>> \in Seq(0 .. Size)
    BY EmptyType
  <2>2. got \in [Readers -> Seq(0 .. Size)]
    BY <2>1
  <2>3. reads \in 0 .. MaxReads
    BY IndexTypes
  <2> QED
    BY <2>2, <2>3 DEF TypeReads
<1>3. Keyed /\ InFlight /\ RetryIsFresh
  BY DEF Keyed, InFlight, RetryIsFresh
<1>4. ASSUME NEW r \in Readers PROVE ReadOf(r)
  <2>1. Len(got[r]) = 0 /\ err[r] = "none" /\ pc[r] = "idle"
    OBVIOUS
  <2>2. \A x \in 1 .. Len(got[r]) : FALSE
    BY <2>1
  <2> QED
    BY <2>1, <2>2 DEF ReadOf
<1> QED
  BY <1>1, <1>2, <1>3, <1>4 DEF FileInv

LEMMA FileStep ==
  ASSUME FileInv, [Next]_vars
  PROVE  FileInv'
<1>1. CASE UNCHANGED vars
  <2>1. UNCHANGED <<fileVars, handleVars>> /\ UNCHANGED readVars
    BY <1>1 DEF vars
  <2> QED
    BY <2>1, FileKept, ReadsKept DEF FileInv
<1>2. CASE \E r \in Readers : ReadAt(r) \/ Reader(r)
  BY <1>2, ReadAtKeeps, LookupKeeps, ReceiveKeeps, DoneKeeps DEF Reader
<1>3. CASE \E h \in Ids : Download(h)
  BY <1>3, FetchEndsKeeps, CleanUpKeeps DEF Download
<1> QED
  BY <1>1, <1>2, <1>3 DEF Next

LEMMA FileInvariant == Spec => []FileInv
<1>1. Init => FileInv
  BY FileInit
<1>2. FileInv /\ [Next]_vars => FileInv'
  BY FileStep
<1> QED
  BY <1>1, <1>2, PTL DEF Spec

LEMMA FileSound ==
  ASSUME FileInv
  PROVE  TypeOK /\ SharedDownload /\ ReadExact /\ RetryIsFresh
<1>1. TypeOK
  BY DEF FileInv, TypeFile, TypeReads, States, TypeOK
<1>2. SharedDownload
  BY DEF FileInv, InFlight, SharedDownload
<1>3. ReadExact
  BY DEF FileInv, ReadOf, Position, ReadExact
<1> QED
  BY <1>1, <1>2, <1>3 DEF FileInv

\* The reader's state stays well formed: handles are of chunks of the index, the window of
\* the read-ahead stays below Config.Workers, and no unit comes from beyond the stream.
THEOREM FileTypes == Spec => []TypeOK
<1>1. FileInv => TypeOK
  BY FileSound
<1> QED
  BY <1>1, FileInvariant, PTL

\* However reads, the read-ahead, failures and evictions interleave, a chunk has at most
\* one download in flight: whoever asks meanwhile finds its handle in the cache.
THEOREM DownloadsShared == Spec => []SharedDownload
<1>1. FileInv => SharedDownload
  BY FileSound
<1> QED
  BY <1>1, FileInvariant, PTL

\* ReadAt returns the units from its offset on: all it was asked for, or with io.EOF the
\* rest of the stream, whatever cache size, chunk boundaries and other readers.
THEOREM ReadsExact == Spec => []ReadExact
<1>1. FileInv => ReadExact
  BY FileSound
<1> QED
  BY <1>1, FileInvariant, PTL

\* A download that failed and was cleaned up is not in the cache: the next read of that
\* chunk asks the server again.
THEOREM RetriesFresh == Spec => []RetryIsFresh
<1>1. FileInv => RetryIsFresh
  BY FileSound
<1> QED
  BY <1>1, FileInvariant, PTL
=============================================================================
