----------------------------- MODULE MCCAManager -----------------------------
(* Bounds for CAManager.                                                    *)
EXTENDS CAManager
CONSTANTS b1, b2
MCBundle == {b1, b2}
=============================================================================
