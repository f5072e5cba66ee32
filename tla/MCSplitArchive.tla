--------------------------- MODULE MCSplitArchive ---------------------------
EXTENDS SplitArchive

\* Two previous snapshots of two files: in the same order, with a foreign record between
\* them and as much padding as is allowed for both; and in the opposite order, with a cut
\* inside the second, and as much padding as is allowed for the first alone.
SameOrder == [off |-> <<1, 4>>, size |-> <<1, 1>>, cuts |-> <<2, 8>>]
OtherOrder == [off |-> <<4, 1>>, size |-> <<2, 2>>, cuts |-> <<3, 9>>]
BothOrders == {SameOrder, OtherOrder}
AllNew == {[off |-> [f \in Files |-> -1], size |-> [f \in Files |-> 0], cuts |-> <<>>]}
=============================================================================
