------------------------------- MODULE Renewal -------------------------------
(***************************************************************************)
(* The life of a volume's certificate: issued on an approved request,      *)
(* written to the volume with the time of the next issuance, renewed when  *)
(* that time has come, and all of it with a driver that can die at any     *)
(* point and start again.                                                  *)
(*                                                                         *)
(* The signer and the renewal loop of the csi-lib manager are external:    *)
(* the manager looks at NextIssuanceTime in the metadata of the volume and *)
(* begins an issuance when there is none or it has passed, again after an  *)
(* error, and for all volumes when the driver starts.                      *)
(***************************************************************************)
EXTENDS Issuance, Integers

CONSTANTS
  NoPEM, NoCertificate,  \* chains without a PEM block, and with one that is no certificate
  Lifetimes,             \* of certificates, besides the one requested
  Backdates,             \* how long before its issuance a certificate begins
  MaxDuration,           \* the longest time.Duration there is
  Step,                  \* the resolution of the clock
  Patience,              \* the time it takes to get a due renewal done
  MaxTime                \* bound on the clock

ASSUME RenewalAssumption ==
  /\ Lifetimes \subseteq Nat /\ Backdates \subseteq Nat
  /\ {MaxDuration, Step, Patience, MaxTime} \subseteq Nat \ {0}
  /\ 3 * Patience <= MaxDuration

VARIABLES
  now,
  chain,                 \* what the signer returned, until it is written
  pair,                  \* validity of the certificate on file, and since when it is there
  nextIssuance           \* NextIssuanceTime in the metadata, or None

volumeVars == <<now, chain, pair, nextIssuance>>
vars == <<issuanceVars, volumeVars>>

Init ==
  /\ IssuanceInit
  /\ now = 0
  /\ chain = None /\ pair = None /\ nextIssuance = None

-----------------------------------------------------------------------------
(* util.go *)

\* time.Time.Sub, which saturates.
Sub(t, u) == IF t - u > MaxDuration THEN MaxDuration ELSE t - u

\* Mutation: half of the lifetime.
HalfTime(crt) == crt.notAfter - Sub(crt.notAfter, crt.notBefore) \div 2

calculateNextIssuanceTime(crt) == crt.notAfter - Sub(crt.notAfter, crt.notBefore) \div 3

-----------------------------------------------------------------------------
\* The request is signed; the chain that comes back has no PEM block, or one
\* that is no certificate, or a certificate, not always of the duration wanted.
SignCertificate ==
  /\ pc = "created" /\ verdict = "approved"
  /\ pc' = "issued"
  /\ chain' \in {NoPEM, NoCertificate} \cup
       {[notBefore |-> now - b, notAfter |-> now - b + l] :
          b \in Backdates, l \in Lifetimes \cup {object.duration}}
  /\ UNCHANGED <<procs, token, config, requestVars, now, pair, nextIssuance>>

Parses == chain \notin {NoPEM, NoCertificate}

\* writeKeypair: the next issuance time is calculated before the files are
\* written; a chain without a PEM block is a nil dereference, after which there
\* is nothing but a crash.
WriteFiles ==
  /\ pc = "issued" /\ Parses
  /\ pair' = [notBefore |-> chain.notBefore, notAfter |-> chain.notAfter, at |-> now]
  /\ pc' = "meta"
  /\ UNCHANGED <<procs, token, config, requestVars, now, chain, nextIssuance>>

WriteMetadata ==
  /\ pc = "meta"
  /\ nextIssuance' = calculateNextIssuanceTime(chain)
  /\ pc' = "idle"
  /\ chain' = None /\ DropRequest
  /\ UNCHANGED <<procs, token, config, now, pair>>

\* Mutation: the metadata is written although the files could not be.
WriteKeypairFailsRecorded ==
  /\ pc \in {"issued", "meta"}
  /\ Parses
  /\ pc' = "failed"
  /\ chain' = None
  /\ nextIssuance' = calculateNextIssuanceTime(chain)
  /\ UNCHANGED <<procs, token, config, requestVars, now, pair>>

\* The chain is no certificate, or a write fails.
WriteKeypairFails ==
  /\ pc \in {"issued", "meta"}
  /\ chain # NoPEM
  /\ pc' = "failed"
  /\ chain' = None
  /\ UNCHANGED <<procs, token, config, requestVars, now, pair, nextIssuance>>

Renew ==
  /\ d # None /\ token # None
  /\ pc = "idle"
  /\ nextIssuance # None => now >= nextIssuance
  /\ pc' = "generate"
  /\ UNCHANGED <<procs, token, config, requestVars, volumeVars>>

\* The driver dies; the volume and its metadata stay.
Crash ==
  /\ d # None /\ pc # "foreign"
  /\ d' = None /\ config' = None
  /\ pc' = "idle"
  /\ chain' = None /\ DropRequest
  /\ UNCHANGED <<cmd, i, token, now, pair, nextIssuance>>

\* When the renewal of the certificate on file is due.
Due == IF nextIssuance = None \/ nextIssuance < pair.at THEN pair.at ELSE nextIssuance

\* Time passes; what is assumed of signer, manager and cluster is that a renewal
\* that is due is done with in time, its failures and restarts included.
Tick ==
  /\ pair # None
  /\ now + Step <= Due + Patience
  /\ now < MaxTime
  /\ now' = now + Step
  /\ UNCHANGED <<issuanceVars, chain, pair, nextIssuance>>

Next ==
  \/ IssuanceNext /\ UNCHANGED volumeVars
  \/ SignCertificate \/ WriteFiles \/ WriteMetadata \/ WriteKeypairFails
  \/ Renew \/ Crash \/ Tick

Spec == Init /\ [][Next]_vars

-----------------------------------------------------------------------------
(* Properties *)

Lifetime(crt) == crt.notAfter - crt.notBefore

\* The pod's certificate does not expire, whatever fails on the way and wherever
\* the driver dies, if a third of its lifetime is time enough for a renewal and
\* the certificate came before its last third.
RenewedInTime ==
  pair # None /\ 3 * Patience <= Lifetime(pair) /\ 3 * (pair.at - pair.notBefore) <= 2 * Lifetime(pair) =>
    now <= pair.notAfter

\* A renewal that is scheduled is scheduled for the certificate on file, whichever
\* attempts failed or died half way: for the moment at which two thirds of its
\* lifetime have passed, or for one later than that but before it expires if the
\* lifetime is too long for a Duration.
RenewalAtTwoThirds ==
  pc = "idle" /\ pair # None /\ nextIssuance # None /\ nextIssuance > now =>
    LET passed == nextIssuance - pair.notBefore IN
    /\ 3 * passed >= 2 * Lifetime(pair)
    /\ 3 * passed < 2 * Lifetime(pair) + 3 \/ Lifetime(pair) > MaxDuration
    /\ nextIssuance <= pair.notAfter
=============================================================================
