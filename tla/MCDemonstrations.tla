-------------------------- MODULE MCDemonstrations --------------------------
(* An instance of Demonstrations for TLC.                                  *)
EXTENDS Demonstrations

\* contents are terms here
FreshPages == <<"zero">>
FreshBuffer == <<"junk">>
Terms == {FreshPages}
=============================================================================
