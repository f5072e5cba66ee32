---------------------------- MODULE MCRoundTrip ----------------------------
(***************************************************************************)
(* Two backups write the same reference, one in each format; four chunks   *)
(* and a queue of two, so that the producer can fall behind its queue.     *)
(***************************************************************************)
EXTENDS RoundTrip, TLC

CONSTANTS b1, b2

SameRef == [b \in Backups |-> "ref"]
BothFormats ==
  (b1 :> [indexes |-> <<"meta", "payload">>, parallel |-> TRUE, blob |-> FALSE, key |-> TRUE]) @@
  (b2 :> [indexes |-> <<"archive", "catalog">>, parallel |-> FALSE, blob |-> TRUE, key |-> FALSE])
FourChunks == <<2, 1, 1, 1>>
=============================================================================
