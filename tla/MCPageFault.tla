----------------------------- MODULE MCPageFault -----------------------------
(* Instances of PageFault for TLC.                                           *)
EXTENDS PageFault

CONSTANTS n1, n2

TwoNames == {n1, n2}
=============================================================================
