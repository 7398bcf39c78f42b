------------------------------ MODULE MCSmdPkt ------------------------------
(* Instances of SmdPkt for model checking.                                 *)
EXTENDS SmdPkt

\* A packet of one cell, then one that only fits into the empty ring.
MCLens == {1, 5}
MCBufLens == {1, 5}
MCOneFive == <<{1}, {5}>>

MCAnyLength == <<{1, 5}, {1, 5}>>
=============================================================================
