--------------------------- MODULE MCCADistribution ---------------------------
(* Bounds for CADistribution.                                               *)
EXTENDS CADistribution, TLC
CONSTANTS b1, b2, v1, v2
MCBundle == {b1, b2}
OneVolume == {v1}
TwoVolumes == {v1, v2}
WithBundle == "source-ca-bundle" :> "ca.pem"
Renamed == WithBundle @@ ("file-name-ca" :> "bundle.crt")
=============================================================================
