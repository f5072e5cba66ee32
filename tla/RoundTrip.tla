----------------------------- MODULE RoundTrip -----------------------------
(***************************************************************************)
(* A snapshot is written by Session, with backups racing each other, and   *)
(* read back by IndexReader: what the reader verifies against the manifest *)
(* was recorded by another process, from answers to concurrent requests.   *)
(***************************************************************************)
EXTENDS Session

CONSTANTS Sizes, Workers, Buffers

ASSUME ReaderConstants ==
  /\ Sizes \in Seq(Nat \ {0}) /\ Workers \in Nat \ {0} /\ Buffers \subseteq Nat \ {0}

VARIABLES rpc, snap, name, verdict, ppc, queue, fetch, await, cur, consumed, got, err, canceled

R == INSTANCE IndexReader

readerVars == <<rpc, snap, name, verdict, ppc, queue, fetch, await, cur, consumed, got, err, canceled>>

\* Every backup has returned and the server has acted on all that was sent.
Settled ==
  \A b \in Backups : bpc[b] \in {"ok", "error"} /\ \A n \in Names : net[b][n] = "none"

\* Nothing of a session outlives it, on either side, except the snapshots.
SessionsEnd ==
  /\ Settled /\ indexes # <<>>
  /\ indexes' = <<>> /\ blobs' = [b \in Backups |-> <<>>]
  /\ files' = [b \in Backups |-> <<>>] /\ byWID' = [b \in Backups |-> <<>>]
  /\ upload' = [b \in Backups |-> [n \in IndexNames |-> "off"]]
  /\ answer' = [b \in Backups |-> [n \in Names |-> "none"]]
  /\ wid' = [b \in Backups |-> [n \in IndexNames |-> 0]]
  /\ UNCHANGED <<bpc, conn, net, snapshots>>

\* A committed snapshot never changes, so a reader that starts earlier finds the same.
MayRead == Settled /\ indexes = <<>>

RTInit == Init /\ R!Init
Write == (Next \/ SessionsEnd) /\ UNCHANGED readerVars
ReadBack == MayRead /\ (R!Calls(IndexNames, {"blob", "key"}) \/ R!Goroutines) /\ UNCHANGED vars

RTNext == Write \/ ReadBack

\* Requests are answered, goroutines run, and nobody has to read.
RTSpec ==
  /\ RTInit /\ [][RTNext]_<<vars, readerVars>>
  /\ WF_<<vars, readerVars>>(MayRead /\ R!Caller /\ UNCHANGED vars)
  /\ WF_<<vars, readerVars>>(MayRead /\ R!Producer /\ UNCHANGED vars)
  /\ \A k \in DOMAIN Sizes : WF_<<vars, readerVars>>(MayRead /\ R!FetchEnds(k) /\ UNCHANGED vars)

-----------------------------------------------------------------------------
\* Every file of a committed snapshot verifies: a reader never finds that a file, or its
\* entry, does not match what Backup recorded, and finds every file that was asked for.
Readable ==
  /\ verdict \notin {"missing", "mismatch"}
  /\ verdict = "not found" => name \notin DOMAIN snap.files

\* The reader's properties.
StreamExact == R!StreamExact
FetchBounded == R!FetchBounded
CallsReturn == R!CallsReturn
=============================================================================
