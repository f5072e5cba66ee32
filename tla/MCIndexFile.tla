---------------------------- MODULE MCIndexFile ----------------------------
(***************************************************************************)
(* Three chunks of one or two units, a cache of two chunks and a read-ahead *)
(* of one: a sequential read prefetches, and a third chunk evicts.         *)
(***************************************************************************)
EXTENDS IndexFile

ThreeChunks == <<1, 3, 4>>
SomeOffsets == {-1, 0, 2, 4}
SomeLengths == {0, 1, 5}
=============================================================================
