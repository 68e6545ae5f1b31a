------------------------------ MODULE MCApprover ------------------------------
(* An instance of Approver: requests named for what they are.                 *)
EXTENDS Approver

\* "good" carries its own SPIFFE ID and is for issuer i1; "plain" carries none,
\* which Evaluate does not accept, and is for issuer i2.
MCIssuer == [r \in Request |-> IF r = "plain" THEN "i2" ELSE "i1"]
MCAccepted == Request \cap {"good"}
MCSpiffeSAN == Request \cap {"good"}
=============================================================================
