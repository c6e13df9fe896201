----------------------------- MODULE MCNatTable -----------------------------
(* Small instances of NatTable.                                              *)
EXTENDS NatTable, TLC

CONSTANTS i1, i2, i3, p1, p2

(* Enough to open a connection, establish it and close it from both sides.   *)
OpenAndClose == {{"SYN"}, {"SYN", "ACK"}, {"FIN", "ACK"}}
SynOnly == {{"SYN"}}
OpenOnly == {{"SYN"}, {"SYN", "ACK"}}

AllRouted == Inside \cup Peer
OnlyP1Routed == Inside \cup {p1}

InsideSymmetry == Permutations(Inside)
=============================================================================
