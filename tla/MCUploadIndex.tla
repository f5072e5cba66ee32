---------------------------- MODULE MCUploadIndex ----------------------------
EXTENDS UploadIndex, TLC
CONSTANTS a, b
MCSizeOf == [d \in Digests |-> IF d = a THEN 1 ELSE 2]
MCPrevious == [u \in Uploads |-> IF u = "payload" THEN Digests \ {a} ELSE {}]
TwoAndOne == [u \in Uploads |-> IF u = "payload" THEN 2 ELSE 1]
ThreeAndOne == [u \in Uploads |-> IF u = "payload" THEN 3 ELSE 1]
Symm == Permutations(Workers)
=============================================================================
