--------------------------- MODULE PayloadStream ---------------------------
(***************************************************************************)
(* What a payload source promises to the emitter (the payload interface of *)
(* src/archive/payload.go): payloads come out in plan order, each with the *)
(* size bound when it was opened, followed by exactly that many units of   *)
(* content, zero padding only after the last unit of real content; a       *)
(* padded payload is reported when it ends.  The stream may fail at any    *)
(* time, but a stream that ends without an error is complete.              *)
(***************************************************************************)
EXTENDS Integers

CONSTANT N              \* number of payloads in the plan

VARIABLES
  epos,     \* payloads completely emitted
  bound,    \* size of the payload being emitted, -1 between payloads
  written,  \* its units of content written so far
  padded,   \* how many of them are padding
  reported, \* payloads a size-changed warning was issued for
  result    \* "running", "ok" or "error"

streamVars == <<epos, bound, written, padded, reported, result>>

Init ==
  /\ epos = 0 /\ bound = -1 /\ written = 0 /\ padded = 0
  /\ reported = {}
  /\ result = "running"

\* open() and the payload header, which commits to the size.
Begin ==
  /\ result = "running" /\ bound = -1 /\ epos < N
  /\ bound' \in Nat
  /\ written' = 0 /\ padded' = 0
  /\ UNCHANGED <<epos, reported, result>>

\* Copy writes one buffer: content, or padding once the source ran dry.
Write ==
  /\ result = "running" /\ bound # -1
  /\ written' \in (written + 1) .. bound
  /\ \/ padded = 0 /\ padded' = 0
     \/ padded' = padded + (written' - written)
  /\ UNCHANGED <<epos, bound, reported, result>>

\* Copy returned without an error and the warnings were passed on.
End ==
  /\ result = "running" /\ bound # -1 /\ written = bound
  /\ padded > 0 => epos \in reported'
  /\ reported' \in {reported, reported \union {epos}}
  /\ epos' = epos + 1
  /\ bound' = -1 /\ written' = 0 /\ padded' = 0
  /\ UNCHANGED result

Complete ==
  /\ result = "running" /\ bound = -1 /\ epos = N
  /\ result' = "ok"
  /\ UNCHANGED <<epos, bound, written, padded, reported>>

Fail ==
  /\ result = "running"
  /\ result' = "error"
  /\ bound' = -1 /\ written' = 0 /\ padded' = 0
  /\ UNCHANGED <<epos, reported>>

Next == Begin \/ Write \/ End \/ Complete \/ Fail

Spec == Init /\ [][Next]_streamVars
=============================================================================
