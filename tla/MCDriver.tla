------------------------------- MODULE MCDriver -------------------------------
(* Bounds for Driver.                                                       *)
EXTENDS Driver
CONSTANTS b1, b2
MCBundle == {b1, b2}
=============================================================================
