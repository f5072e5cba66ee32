----------------------------- MODULE IndexFile -----------------------------
(***************************************************************************)
(* Random access to a dynamic index (src/pbs/indexat.go): concurrent       *)
(* ReadAt calls over a cache of chunks, with shared downloads, read-ahead  *)
(* and eviction of the least recently used finished chunks.                *)
(*                                                                         *)
(* A cachedChunk is a handle: a failed download removes itself from the    *)
(* cache only if the cache still holds that very handle, so handles have   *)
(* an identity: a chunk and a generation, reused when nobody holds it.  Content is counted in units; unit x of the stream is x.   *)
(***************************************************************************)
EXTENDS Integers, Sequences, FiniteSets, FiniteSetsExt

CONSTANTS
  Ends,       \* end offset of each chunk of the index
  Ahead,      \* largest read-ahead window (Config.Workers)
  CacheChunks, \* cache size beyond the read-ahead (indexCacheChunks)
  Readers,    \* goroutines that call ReadAt
  Offsets, Lengths, \* what they ask for
  Gens,       \* bound: handles of one chunk alive at the same time
  MaxReads,   \* bound: calls of ReadAt
  MayFail     \* downloads may fail

Entries == 1 .. Len(Ends)
Size == IF Ends = <<>> THEN 0 ELSE Ends[Len(Ends)]
StartOf(i) == IF i = 1 THEN 0 ELSE Ends[i-1]

\* loadIndex has verified that the end offsets ascend.
ASSUME IndexConstants ==
  /\ Ends \in Seq(Nat) /\ \A i \in Entries : StartOf(i) < Ends[i]
  /\ Ahead \in Nat \ {0} /\ CacheChunks \in Nat
  /\ Offsets \subseteq Int /\ Lengths \subseteq Nat
  /\ Gens \in Nat /\ MaxReads \in Nat /\ MayFail \in BOOLEAN

Ids == Entries \X (1 .. Gens)
None == <<0, 0>>
ChunkOf(h) == h[1]

VARIABLES
  cache,      \* handle of a chunk, or None
  clock, last, run,
  state,      \* of a handle: "free", "flight", "ok", "failed" (done, cleanup pending), "gone"
  used,
  reads, pc, off, want, got, handle, missed, err

fileVars == <<cache, clock, last, run>>
handleVars == <<state, used>>
readVars == <<reads, pc, off, want, got, handle, missed, err>>
vars == <<fileVars, handleVars, readVars>>

Init ==
  /\ cache = [i \in Entries |-> None]
  /\ clock = 0 /\ last = 0 /\ run = 0
  /\ state = [h \in Ids |-> "free"]
  /\ used = [h \in Ids |-> 0]
  /\ reads = 0 /\ pc = [r \in Readers |-> "idle"]
  /\ off = [r \in Readers |-> 0] /\ want = [r \in Readers |-> 0]
  /\ got = [r \in Readers |-> <<>>]
  /\ handle = [r \in Readers |-> None] /\ missed = [r \in Readers |-> FALSE]
  /\ err = [r \in Readers |-> "none"]

-----------------------------------------------------------------------------
(***************************************************************************)
(* The cache.                                                              *)
(***************************************************************************)
Finished(st, h) == st[h] \in {"ok", "failed", "gone"}
Cached(c) == {i \in Entries : c[i] # None}
Limit == CacheChunks + 2 * Ahead

\* A handle nobody holds any more can stand for a new cachedChunk.
Unused(i) == {g \in 1 .. Gens : /\ state[<<i, g>>] \in {"free", "ok", "gone"}
                                /\ cache[i] # <<i, g>>
                                /\ \A r \in Readers : handle[r] # <<i, g>>}

\* The chunks a lookup of chunk i adds: i itself if it is not cached, and the chunks of
\* the read-ahead window n that are not.
Added(i, n) == {j \in {i} \union (i + 1 .. i + n) : j \in Entries /\ cache[j] = None}

\* add, for each of them.
Registered(new) == [j \in Entries |-> IF j \in new THEN <<j, Min(Unused(j))>> ELSE cache[j]]

\* evict: beyond the limit, the finished handles used the longest ago go; handles of
\* equal age go in any order, and a cache full of downloads in flight stays too large.
Evictable(c, st) == {i \in Cached(c) : Finished(st, c[i])}

Evicted(c, st, us) ==
  LET able == Evictable(c, st)
      excess == Max({0, Cardinality(Cached(c)) - Limit})
      victims == {v \in kSubset(Min({excess, Cardinality(able)}), able) :
                    \A i \in v, j \in able \ v : us[c[i]] <= us[c[j]]} IN
  {[i \in Entries |-> IF i \in v THEN None ELSE c[i]] : v \in victims}

-----------------------------------------------------------------------------
(***************************************************************************)
(* ReadAt.                                                                 *)
(***************************************************************************)
\* A read of n units at offset o, which may lie past the end.
ReadAt(r) ==
  /\ pc[r] = "idle" /\ reads < MaxReads
  /\ reads' = reads + 1
  /\ \E o \in Offsets, n \in Lengths :
       /\ off' = [off EXCEPT ![r] = o]
       /\ want' = [want EXCEPT ![r] = n]
       /\ pc' = [pc EXCEPT ![r] = IF o < 0 THEN "idle" ELSE "next"]
       /\ err' = [err EXCEPT ![r] = IF o < 0 THEN "failed" ELSE "none"]
  /\ got' = [got EXCEPT ![r] = <<>>]
  /\ UNCHANGED <<fileVars, handleVars, handle, missed>>

Position(r) == off[r] + Len(got[r])
ChunkAt(o) == Min({i \in Entries : Ends[i] > o})
More(r) == Len(got[r]) < want[r] /\ Position(r) < Size

\* The read-ahead window after a lookup of chunk i.
WindowGrows(i) == IF last # 0 /\ i = last + 1 THEN run + 1 ELSE IF i # last THEN 0 ELSE run   \* a mutant
Window(i) == IF last # 0 /\ i = last + 1 THEN Min({run + 1, Ahead}) ELSE IF i # last THEN 0 ELSE run
Prefetch(i) == IF last # 0 /\ i = last + 1 THEN Window(i) ELSE 0

\* chunk, up to the unlock.
Lookup(r) ==
  LET i == ChunkAt(Position(r))
      new == Added(i, Prefetch(i)) IN
  /\ pc[r] = "next" /\ More(r)
  /\ \A j \in new : Unused(j) # {}
  /\ clock' = clock + 1
  /\ run' = Window(i) /\ last' = i
  /\ \E c \in {Registered(new)} :
     /\ state' = [h \in Ids |-> IF ChunkOf(h) \in new /\ h = c[ChunkOf(h)] THEN "flight" ELSE state[h]]
     /\ used' = [h \in Ids |-> IF ChunkOf(h) \in new \union {i} /\ h = c[ChunkOf(h)]
                             THEN clock + 1 ELSE used[h]]
     /\ handle' = [handle EXCEPT ![r] = c[i]]
     /\ missed' = [missed EXCEPT ![r] = i \in new]
     /\ cache' \in Evicted(c, state', used')
  /\ pc' = [pc EXCEPT ![r] = "wait"]
  /\ UNCHANGED <<reads, off, want, got, err>>

\* A download ends and close(done) wakes everyone; who asked for it matters only to the
\* reader that missed, which performs the cleanup itself before it goes on.
FetchEnds(h) ==
  /\ state[h] = "flight"
  /\ \/ state' = [state EXCEPT ![h] = "ok"]
     \/ MayFail /\ state' = [state EXCEPT ![h] = "failed"]
  /\ UNCHANGED <<fileVars, used, readVars>>

\* A failed download leaves the cache, unless another handle took its place.
DropChunk(h) == [cache EXCEPT ![ChunkOf(h)] = None]   \* a mutant: whichever handle is there
KeepFailed(h) == cache                 \* a mutant: the failure stays cached
DropHandle(h) == IF cache[ChunkOf(h)] = h THEN [cache EXCEPT ![ChunkOf(h)] = None] ELSE cache

CleanUp(h) ==
  /\ state[h] = "failed"
  /\ cache' = DropHandle(h)
  /\ state' = [state EXCEPT ![h] = "gone"]
  /\ UNCHANGED <<clock, last, run, used, readVars>>

\* The units of chunk i from position o on.
CopyFromStart(i, o, n) ==              \* a mutant: the offset inside the chunk is ignored
  LET k == Min({n, Ends[i] - StartOf(i)}) IN [x \in 1 .. k |-> StartOf(i) + x - 1]
Copied(i, o, n) == LET k == Min({n, Ends[i] - o}) IN [x \in 1 .. k |-> o + x - 1]

\* close(done) follows a failure too; the reader whose own download failed goes on after
\* the clean-up.
OpenOnError(r) == FALSE                \* a mutant: done is closed only with data
DoneWithError(r) == state[handle[r]] = "gone" \/ (state[handle[r]] = "failed" /\ ~missed[r])

\* chunk returns data or an error.
Receive(r) ==
  LET h == handle[r] IN
  /\ pc[r] = "wait"
  /\ \/ /\ state[h] = "ok"
        /\ got' = [got EXCEPT ![r] = @ \o Copied(ChunkOf(h), Position(r), want[r] - Len(got[r]))]
        /\ pc' = [pc EXCEPT ![r] = "next"]
        /\ UNCHANGED err
     \/ /\ DoneWithError(r)
        /\ pc' = [pc EXCEPT ![r] = "idle"]
        /\ err' = [err EXCEPT ![r] = "failed"]
        /\ UNCHANGED got
  /\ handle' = [handle EXCEPT ![r] = None]
  /\ UNCHANGED <<fileVars, handleVars, reads, off, want, missed>>

\* ReadAt returns all it was asked for, or what there is with io.EOF.
Done(r) ==
  /\ pc[r] = "next" /\ ~More(r)
  /\ pc' = [pc EXCEPT ![r] = "idle"]
  /\ err' = [err EXCEPT ![r] = IF Len(got[r]) < want[r] THEN "EOF" ELSE "nil"]
  /\ UNCHANGED <<fileVars, handleVars, reads, off, want, got, handle, missed>>

Reader(r) == Lookup(r) \/ Receive(r) \/ Done(r)
Download(h) == FetchEnds(h) \/ CleanUp(h)
Next == (\E r \in Readers : ReadAt(r) \/ Reader(r)) \/ \E h \in Ids : Download(h)

\* Every download ends and every goroutine goes on; nobody has to start another read.
Fairness == (\A r \in Readers : WF_vars(Reader(r))) /\ \A h \in Ids : WF_vars(Download(h))

Spec == Init /\ [][Next]_vars
FairSpec == Spec /\ Fairness

-----------------------------------------------------------------------------
\* The variables have their types.
TypeOK ==
  /\ cache \in [Entries -> Ids \union {None}]
  /\ clock \in Nat /\ reads \in 0 .. MaxReads /\ last \in Entries \union {0} /\ run \in 0 .. Ahead
  /\ state \in [Ids -> {"free", "flight", "ok", "failed", "gone"}]
  /\ used \in [Ids -> 0 .. clock]
  /\ pc \in [Readers -> {"idle", "next", "wait"}]
  /\ off \in [Readers -> Offsets \union {0}] /\ want \in [Readers -> Nat]
  /\ got \in [Readers -> Seq(0 .. Size)]
  /\ handle \in [Readers -> Ids \union {None}] /\ missed \in [Readers -> BOOLEAN]
  /\ err \in [Readers -> {"none", "nil", "EOF", "failed"}]

\* Concurrent reads of a chunk share one download: no chunk is being downloaded twice,
\* though a failed download may clean up after its chunk was evicted and requested again.
SharedDownload ==
  \A g, h \in Ids : state[g] = "flight" /\ state[h] = "flight" /\ ChunkOf(g) = ChunkOf(h) => g = h

\* What a read has returned is the stream from its offset on: everything asked for, or
\* the rest with io.EOF at the end of the stream and nowhere else.
ReadExact ==
  \A r \in Readers :
    /\ \A x \in 1 .. Len(got[r]) : got[r][x] = off[r] + x - 1
    /\ err[r] = "nil" => Len(got[r]) = want[r]
    /\ err[r] = "EOF" => Len(got[r]) < want[r] /\ off[r] + Len(got[r]) >= Size

\* After a read's own download has failed, the chunk is fetched anew by the next read:
\* the cache does not hold a failed chunk that was cleaned up, nor one it gave up on.
RetryIsFresh ==
  \A i \in Entries : cache[i] # None => state[cache[i]] # "gone"

\* Every ReadAt returns, whether it waits for its own download, for the read-ahead's or
\* for that of another reader.
ReadsReturn == \A r \in Readers : pc[r] # "idle" ~> pc[r] = "idle"
=============================================================================
