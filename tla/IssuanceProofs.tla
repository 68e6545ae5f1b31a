---------------------------- MODULE IssuanceProofs ----------------------------
(***************************************************************************)
(* From token to certificate, for all command lines, tokens, requests of   *)
(* others, lifetimes and times: the driver's requests carry and keep the   *)
(* pod's identity, an approver with the same flags approves them, whatever *)
(* it approves is acceptable, and renewals come in time.                   *)
(***************************************************************************)
EXTENDS Renewal, EvaluatorProofs

\* The fields of the driver and of the evaluator that the command lines make.
Drv == NewDriver(DriverOptions(cmd.driver))
Evl == NewEvaluator(ApproverOptions(cmd.approver))

\* The manager is at work on a request of the driver, or on its certificate.
Active == pc \notin {"idle", "foreign"}

ConfigMapName == DriverOptions(cmd.driver).CertManager.IssuanceConfigMapName

\* A driver that runs may be without an issuer only if it has a ConfigMap.
IssuerKnown == config.Name = "" => ConfigMapName # ""

\* The programs are what their command lines make of them.
ProgramInv ==
  /\ cmd \in CommandLines
  /\ d # None \/ Active => d = Drv /\ IssuerKnown
  /\ i # None => i = Evl
  /\ token \in {None} \cup Tokens
  /\ Active => token \in Tokens
  /\ pc = "refused" /\ token.parses /\ token.ns # "" /\ token.sa # "" =>
       ConfigMapName # "" \/ ParseFails(SpiffeID(Drv.trustDomain, token.ns, token.sa))

-----------------------------------------------------------------------------
(* The driver's request, at each stage of its making.                        *)

ID == SpiffeID(Drv.trustDomain, token.ns, token.sa)

DriverCSR ==
  [ wellFormed |-> DomainsAre("valid", <<Parse(ID)>>), signatureValid |-> TRUE, commonName |-> FALSE,
    names |-> SANs(<<Parse(ID)>>), keyUsage |-> None, extKeyUsage |-> None, otherExtensions |-> {},
    malformed |-> {} ]

DriverUsages == <<"digital signature", "key encipherment", "server auth", "client auth">>

DriverAnnotations ==
  [k \in Drv.certificateRequestAnnotations \cup {IdentityKey} |->
     IF k \in Drv.certificateRequestAnnotations THEN Custom ELSE ID]

DriverBundle(ref, csr) ==
  [ uris |-> <<Parse(ID)>>, csr |-> csr, isCA |-> FALSE, namespace |-> token.ns, issuer |-> ref,
    duration |-> Drv.certificateRequestDuration, usages |-> DriverUsages,
    annotations |-> DriverAnnotations ]

IsDriverRequest(req) ==
  /\ req.csr = DriverCSR /\ req.duration = Drv.certificateRequestDuration /\ req.isCA = FALSE
  /\ req.usages = DriverUsages /\ req.namespace = token.ns /\ req.annotations = DriverAnnotations
  /\ req.username = IF Drv.useOwnServiceAccount THEN DriverServiceAccount
                    ELSE ServiceAccount(token.ns, token.sa)

RequestInv ==
  /\ pc = "sign" => \E ref : bundle = DriverBundle(ref, None)
  /\ pc = "create" => \E ref : bundle = DriverBundle(ref, DriverCSR)
  /\ pc = "created" => IsDriverRequest(object)

\* A verdict is what Evaluate says of the request there is.
VerdictInv ==
  /\ pc \in {"idle", "generate", "refused", "sign", "create"} => verdict = "none"
  /\ pc = "foreign" => IsRequest(object)
  /\ verdict # "none" =>
       /\ i # None /\ IsRequest(object)
       /\ verdict = IF Evaluate(i, object) THEN "approved" ELSE "denied"

-----------------------------------------------------------------------------
(* The certificate on file and the time of its renewal.                      *)

Certs == {c \in [notBefore : Int, notAfter : Int] : c.notBefore <= c.notAfter}
Pairs == {p \in [notBefore : Int, notAfter : Int, at : Nat] : p.notBefore <= p.notAfter}

\* What was scheduled before the certificate on file was written is past.
TimeInv ==
  /\ now \in Nat
  /\ pc \in {"issued", "meta"} => chain \in {NoPEM, NoCertificate} \cup Certs
  /\ pc = "meta" =>
       chain \in Certs /\ pair.notBefore = chain.notBefore /\ pair.notAfter = chain.notAfter
  /\ pair # None => pair \in Pairs /\ pair.at <= now
  /\ nextIssuance # None => nextIssuance \in Int
  /\ token = None => nextIssuance = None
  /\ Active => nextIssuance = None \/ nextIssuance <= now
  /\ pair # None /\ nextIssuance # None =>
       nextIssuance <= pair.at \/ nextIssuance = calculateNextIssuanceTime(pair)

-----------------------------------------------------------------------------
(* What a step does to the programs and to the place of the manager.         *)

\* Steps of the manager, the signer and the clock change nothing of the programs.
LEMMA StartedPrograms ==
  ASSUME [Next]_vars
  PROVE  \/ RunDriver \/ RunApprover \/ ConfigChange \/ Crash
         \/ UNCHANGED <<cmd, d, i, config>>
<1>1. IssuanceNext => RunDriver \/ RunApprover \/ ConfigChange \/ UNCHANGED <<cmd, d, i, config>>
  BY DEF IssuanceNext, Publish, generateRequest, signRequest, CreateRequest, Retry, CreateForeign,
         Approve, procs
<1>2. SignCertificate \/ WriteFiles \/ WriteMetadata \/ WriteKeypairFails \/ Renew \/ Tick
        => UNCHANGED <<cmd, d, i, config>>
  BY DEF SignCertificate, WriteFiles, WriteMetadata, WriteKeypairFails, Renew, Tick, procs, issuanceVars
<1>3. UNCHANGED vars => UNCHANGED <<cmd, d, i, config>>
  BY DEF vars, issuanceVars, procs
<1> QED BY <1>1, <1>2, <1>3 DEF Next

\* The manager begins to work on a pod's certificate at two places only.
LEMMA Begins ==
  ASSUME [Next]_vars, Active'
  PROVE  (Active /\ token' = token) \/ Publish \/ Renew
<1>1. IssuanceNext => (Active /\ token' = token) \/ Publish
  BY DEF IssuanceNext, RunDriver, RunApprover, ConfigChange, Publish, generateRequest, signRequest,
         CreateRequest, Retry, CreateForeign, Approve, Active
<1>2. SignCertificate \/ WriteFiles \/ WriteMetadata \/ WriteKeypairFails \/ Crash \/ Tick
        => Active /\ token' = token
  BY DEF SignCertificate, WriteFiles, WriteMetadata, WriteKeypairFails, Crash, Tick, issuanceVars, Active
<1>3. UNCHANGED vars => Active /\ token' = token
  BY DEF vars, issuanceVars, Active
<1> QED BY <1>1, <1>2, <1>3 DEF Next

LEMMA TokenSteps == ASSUME [Next]_vars PROVE Publish \/ token' = token
<1>1. IssuanceNext => Publish \/ token' = token
  BY DEF IssuanceNext, RunDriver, RunApprover, ConfigChange, generateRequest, signRequest,
         CreateRequest, Retry, CreateForeign, Approve
<1>2. SignCertificate \/ WriteFiles \/ WriteMetadata \/ WriteKeypairFails \/ Renew \/ Crash \/ Tick
        => token' = token
  BY DEF SignCertificate, WriteFiles, WriteMetadata, WriteKeypairFails, Renew, Crash, Tick, issuanceVars
<1>3. UNCHANGED vars => token' = token
  BY DEF vars, issuanceVars
<1> QED BY <1>1, <1>2, <1>3 DEF Next

LEMMA RefusedSteps == ASSUME [Next]_vars, pc' = "refused" PROVE pc = "refused" \/ (generateRequest /\ CannotGenerate)
BY DEF Next, vars, issuanceVars, IssuanceNext, RunDriver, RunApprover, ConfigChange, Publish, generateRequest,
       signRequest, CreateRequest, Retry, CreateForeign, Approve, SignCertificate, WriteFiles,
       WriteMetadata, WriteKeypairFails, Renew, Crash, Tick

LEMMA ProgramInvariant == Spec => []ProgramInv
<1>1. Init => ProgramInv
  BY DEF Init, IssuanceInit, ProgramInv, Active
<1>2. ProgramInv /\ [Next]_vars => ProgramInv'
  <2> SUFFICES ASSUME ProgramInv, [Next]_vars PROVE ProgramInv'
    OBVIOUS
  <2>1. cmd' = cmd
    BY StartedPrograms DEF RunDriver, RunApprover, ConfigChange, Crash, procs
  <2>2. Drv' = Drv /\ Evl' = Evl /\ ConfigMapName' = ConfigMapName
    BY <2>1 DEF Drv, Evl, ConfigMapName
  <2>3. cmd' \in CommandLines
    BY <2>1 DEF ProgramInv
  <2>4. (i # None => i = Evl)'
    <3>1. RunApprover => i' = Evl
      BY DEF RunApprover, Evl
    <3>2. RunApprover \/ i' = i
      BY StartedPrograms DEF RunDriver, ConfigChange, Crash, procs
    <3> QED BY <2>2, <3>1, <3>2 DEF ProgramInv
  <2>5. token' \in {None} \cup Tokens
    BY TokenSteps DEF Publish, ProgramInv
  <2>6. Active' => token' \in Tokens
    BY Begins DEF Publish, Renew, ProgramInv
  <2>7. d' # None \/ Active' => d' = Drv /\ IssuerKnown'
    <3>0. Active' => Active \/ d # None
      BY Begins DEF Publish, Renew
    <3>1. CASE RunDriver
      <4>1. d' = Drv /\ config' = DriverOptions(cmd.driver).CertManager.IssuerRef
        BY <3>1 DEF RunDriver, Drv
      <4>2. RuntimeConfigOf(DriverOptions(cmd.driver).CertManager) # "error"
        BY <3>1 DEF RunDriver
      <4>3. DriverOptions(cmd.driver).CertManager.IssuerRef.Name = "" => ConfigMapName # ""
        BY <4>2 DEF RuntimeConfigOf, Source!New, ConfigMapName
      <4> QED BY <2>2, <4>1, <4>3 DEF IssuerKnown
    <3>2. CASE RunApprover
      BY <2>2, <3>0, <3>2 DEF RunApprover, ProgramInv, IssuerKnown
    <3>3. CASE ConfigChange
      <4>1. ConfigMapName # ""
        BY <3>3 DEF ConfigChange, RuntimeConfigOf, Source!New, ConfigMapName
      <4>2. d' = d
        BY <3>3 DEF ConfigChange, procs
      <4> QED BY <2>2, <3>0, <4>1, <4>2 DEF ProgramInv, IssuerKnown
    <3>4. CASE Crash
      BY <3>4 DEF Crash, Active
    <3>5. CASE UNCHANGED <<cmd, d, i, config>>
      BY <2>2, <3>0, <3>5 DEF ProgramInv, IssuerKnown
    <3> QED BY <3>1, <3>2, <3>3, <3>4, <3>5, StartedPrograms
  <2>8. (pc = "refused" /\ token.parses /\ token.ns # "" /\ token.sa # "" =>
           ConfigMapName # "" \/ ParseFails(SpiffeID(Drv.trustDomain, token.ns, token.sa)))'
    <3> SUFFICES ASSUME pc' = "refused", token'.parses, token'.ns # "", token'.sa # ""
                 PROVE  ConfigMapName # "" \/ ParseFails(SpiffeID(Drv.trustDomain, token'.ns, token'.sa))
      BY <2>2
    <3>1. CASE pc = "refused"
      <4>1. token' = token
        BY <3>1, TokenSteps DEF Publish
      <4> QED BY <3>1, <4>1 DEF ProgramInv
    <3>2. CASE generateRequest /\ CannotGenerate
      <4>1. token' = token /\ Active
        BY <3>2 DEF generateRequest, Active
      <4>2. config.Name = "" \/ ParseFails(SpiffeID(d.trustDomain, token.ns, token.sa))
        BY <3>2, <4>1 DEF CannotGenerate
      <4> QED BY <4>1, <4>2 DEF ProgramInv, IssuerKnown
    <3> QED BY <3>1, <3>2, RefusedSteps
  <2> QED BY <2>2, <2>3, <2>4, <2>5, <2>6, <2>7, <2>8 DEF ProgramInv
<1> QED BY <1>1, <1>2, PTL DEF Spec

\* A driver refuses a request to a pod with a proper token only if it has a
\* ConfigMap in which it may still find an issuer, whatever the command line and
\* whatever the ConfigMap was changed to, or if url.Parse refuses the SPIFFE ID.
THEOREM RefusalsPass == Spec => []RefusesForNow
<1>1. ProgramInv => RefusesForNow
  BY DEF ProgramInv, RefusesForNow, ConfigMapName, Active
<1> QED BY <1>1, ProgramInvariant, PTL

-----------------------------------------------------------------------------
(* The making of a request                                                   *)

\* How the stages of a request are reached.
LEMMA RequestSteps ==
  ASSUME [Next]_vars
  PROVE  /\ pc' = "sign" => (pc = "sign" /\ bundle' = bundle) \/ (generateRequest /\ ~CannotGenerate)
         /\ pc' = "create" => (pc = "create" /\ bundle' = bundle) \/ signRequest
         /\ pc' = "created" => (pc = "created" /\ object' = object) \/ CreateRequest
<1>1. CASE IssuanceNext
  <2>1. RunDriver \/ RunApprover \/ ConfigChange \/ Approve => pc' = pc /\ bundle' = bundle /\ object' = object
    BY DEF RunDriver, RunApprover, ConfigChange, Approve, requestVars
  <2>2. Publish \/ Retry \/ CreateForeign => pc' \in {"generate", "foreign"}
    BY DEF Publish, Retry, CreateForeign
  <2>3. generateRequest => pc' = "refused" \/ (pc' = "sign" /\ ~CannotGenerate)
    BY DEF generateRequest
  <2>4. signRequest \/ CreateRequest =>
          \/ (pc' = "create" /\ signRequest) \/ pc' = "failed"
          \/ (pc' = "created" /\ CreateRequest)
    BY DEF signRequest, CreateRequest
  <2> QED BY <1>1, <2>1, <2>2, <2>3, <2>4 DEF IssuanceNext
<1>2. SignCertificate \/ WriteFiles \/ WriteMetadata \/ WriteKeypairFails \/ Renew \/ Crash
        => pc' \in {"issued", "meta", "idle", "failed", "generate"}
  BY DEF SignCertificate, WriteFiles, WriteMetadata, WriteKeypairFails, Renew, Crash
<1>3. Tick \/ UNCHANGED vars => pc' = pc /\ bundle' = bundle /\ object' = object
  BY DEF Tick, vars, issuanceVars, requestVars
<1> QED BY <1>1, <1>2, <1>3 DEF Next

\* While the manager is at work, what a request is made of does not change.
LEMMA Ingredients ==
  ASSUME ProgramInv, [Next]_vars, Active
  PROVE  cmd' = cmd /\ token' = token /\ d = Drv
<1>1. cmd' = cmd
  BY StartedPrograms DEF RunDriver, RunApprover, ConfigChange, Crash, procs
<1>2. token' = token
  BY TokenSteps DEF Publish, Active
<1> QED BY <1>1, <1>2 DEF ProgramInv

LEMMA RequestInvariant == Spec => []RequestInv
<1>1. Init => RequestInv
  BY DEF Init, IssuanceInit, RequestInv
<1>2. ProgramInv /\ RequestInv /\ [Next]_vars => RequestInv'
  <2> SUFFICES ASSUME ProgramInv, RequestInv, [Next]_vars PROVE RequestInv'
    OBVIOUS
  <2>1. ASSUME Active
        PROVE  /\ DriverCSR' = DriverCSR
               /\ \A ref, csr : DriverBundle(ref, csr)' = DriverBundle(ref, csr)
               /\ \A req : IsDriverRequest(req)' <=> IsDriverRequest(req)
    <3>1. cmd' = cmd /\ token' = token
      BY <2>1, Ingredients
    <3> QED BY <3>1 DEF DriverCSR, DriverBundle, IsDriverRequest, DriverAnnotations, ID, Drv
  <2>2. ASSUME pc' = "sign" PROVE \E ref : bundle' = DriverBundle(ref, None)'
    <3>1. CASE pc = "sign" /\ bundle' = bundle
      BY <2>1, <3>1 DEF RequestInv, Active
    <3>2. CASE generateRequest /\ ~CannotGenerate
      <4>1. Active
        BY <3>2 DEF generateRequest, Active
      <4>2. bundle' = DriverBundle(config, None)
        BY <3>2, <4>1, Ingredients DEF generateRequest, DriverBundle, DriverUsages, DriverAnnotations, ID
      <4> QED BY <2>1, <4>1, <4>2
    <3> QED BY <2>2, <3>1, <3>2, RequestSteps
  <2>3. ASSUME pc' = "create" PROVE \E ref : bundle' = DriverBundle(ref, DriverCSR)'
    <3>1. CASE pc = "create" /\ bundle' = bundle
      BY <2>1, <3>1 DEF RequestInv, Active
    <3>2. CASE signRequest
      <4>1. Active
        BY <3>2 DEF signRequest, Active
      <4>2. PICK ref : bundle = DriverBundle(ref, None)
        BY <3>2 DEF signRequest, RequestInv
      <4>3. bundle.uris = <<Parse(ID)>>
        BY <4>2 DEF DriverBundle
      <4>4. bundle' = [bundle EXCEPT !.csr = DriverCSR]
        BY <2>3, <3>2, <4>3 DEF signRequest, DriverCSR
      <4>5. bundle' = DriverBundle(ref, DriverCSR)
        BY <4>2, <4>4 DEF DriverBundle
      <4> QED BY <2>1, <4>1, <4>5
    <3> QED BY <2>3, <3>1, <3>2, RequestSteps
  <2>4. ASSUME pc' = "created" PROVE IsDriverRequest(object)'
    <3>1. CASE pc = "created" /\ object' = object
      <4>1. IsDriverRequest(object) /\ Active
        BY <3>1 DEF RequestInv, Active
      <4>2. cmd' = cmd /\ token' = token
        BY <4>1, Ingredients
      <4> QED BY <3>1, <4>1, <4>2 DEF IsDriverRequest, DriverCSR, DriverAnnotations, ID, Drv
    <3>2. CASE CreateRequest
      <4>1. Active
        BY <3>2 DEF CreateRequest, Active
      <4>2. cmd' = cmd /\ token' = token /\ d = Drv
        BY <4>1, Ingredients
      <4>3. PICK ref : bundle = DriverBundle(ref, DriverCSR)
        BY <3>2 DEF CreateRequest, RequestInv
      <4>4. /\ object'.csr = DriverCSR /\ object'.duration = Drv.certificateRequestDuration
            /\ object'.isCA = FALSE /\ object'.usages = DriverUsages
            /\ object'.namespace = token.ns /\ object'.annotations = DriverAnnotations
        BY <3>2, <4>3 DEF CreateRequest, DriverBundle
      <4>5. object'.username = IF Drv.useOwnServiceAccount THEN DriverServiceAccount
                               ELSE ServiceAccount(token.ns, token.sa)
        BY <3>2, <4>2 DEF CreateRequest
      <4>6. DriverCSR' = DriverCSR /\ DriverAnnotations' = DriverAnnotations /\ Drv' = Drv
        BY <4>2 DEF DriverCSR, DriverAnnotations, ID, Drv
      <4> QED BY <4>2, <4>4, <4>5, <4>6 DEF IsDriverRequest, DriverUsages
    <3> QED BY <2>4, <3>1, <3>2, RequestSteps
  <2> QED BY <2>2, <2>3, <2>4 DEF RequestInv
<1> QED BY <1>1, <1>2, ProgramInvariant, PTL DEF Spec

\* The one name in the driver's request is the pod's.
LEMMA DriverNames ==
  /\ IsSeq(SANs(<<Parse(ID)>>)) /\ DOMAIN SANs(<<Parse(ID)>>) = {1} /\ Len(SANs(<<Parse(ID)>>)) = 1
  /\ SANs(<<Parse(ID)>>)[1] = [tag |-> "uri", proper |-> TRUE, uri |-> Parse(Parse(ID).string)]
<1> DEFINE url == Parse(ID)
           name == [tag |-> "uri", proper |-> TRUE, uri |-> Parse(url.string)]
<1>1. Len(<<url>>) = 1 /\ <<url>>[1] = url
  OBVIOUS
<1> HIDE DEF url
<1>2. SANs(<<url>>) = [n \in 1..1 |-> name]
  <2>1. \A n \in 1..1 : n = 1
    OBVIOUS
  <2> QED BY <1>1, <2>1 DEF SANs
<1> HIDE DEF name
<1>3. [n \in 1..1 |-> name] = <<name>>
  OBVIOUS
<1>4. IsSeq(<<name>>)
  BY DEF IsSeq
<1>5. DOMAIN <<name>> = {1} /\ Len(<<name>>) = 1 /\ <<name>>[1] = name
  OBVIOUS
<1>6. SANs(<<url>>) = <<name>>
  BY <1>2, <1>3
<1>7. IsSeq(SANs(<<url>>)) /\ DOMAIN SANs(<<url>>) = {1} /\ Len(SANs(<<url>>)) = 1 /\ SANs(<<url>>)[1] = name
  BY <1>4, <1>5, <1>6
<1> QED BY <1>7 DEF name, url

\* A trust domain that survives is in the CSR as the driver knows it.
LEMMA Survived ==
  ASSUME Survives(Drv.trustDomain)
  PROVE  /\ Parse(ID) = [scheme |-> "spiffe", host |-> Drv.trustDomain, string |-> ID]
         /\ DomainsAre("valid", <<Parse(ID)>>)
<1>1. ID.trustDomain = Drv.trustDomain /\ ID = SpiffeID(ID.trustDomain, ID.ns, ID.sa)
  BY DEF ID, SpiffeID
<1>2. Domain(ID.trustDomain).host = Drv.trustDomain /\ Domain(ID.trustDomain).printed = Drv.trustDomain
  BY <1>1 DEF Survives
<1>3. Domain(ID.trustDomain)["valid"] = TRUE
  BY <1>1 DEF Survives
<1>4. Parse(ID) = [scheme |-> "spiffe", host |-> Drv.trustDomain, string |-> ID]
  BY <1>1, <1>2 DEF Parse
<1>5. \A n \in 1..Len(<<Parse(ID)>>) : <<Parse(ID)>>[n].string = ID
  BY <1>4
<1> QED BY <1>3, <1>4, <1>5 DEF DomainsAre

\* Every request the driver creates is annotated with the pod's SPIFFE ID and for
\* one name, which is that ID if the trust domain survives, whatever custom
\* annotations the command line names and whatever happens between the steps.
THEOREM RequestsAnnotated == Spec => []IdentityAnnotated
<1>1. ProgramInv /\ RequestInv => IdentityAnnotated
  <2> SUFFICES ASSUME ProgramInv, RequestInv, pc = "created"
               PROVE  /\ IdentityKey \in DOMAIN object.annotations
                      /\ object.annotations[IdentityKey] = SpiffeID(d.trustDomain, object.namespace, token.sa)
                      /\ Len(object.csr.names) = 1
                      /\ Survives(d.trustDomain) =>
                           object.csr.names[1].uri.string = object.annotations[IdentityKey]
    BY DEF IdentityAnnotated
  <2>1. IsDriverRequest(object) /\ d = Drv
    BY DEF RequestInv, ProgramInv, Active
  <2>2. IdentityKey \notin Drv.certificateRequestAnnotations
    BY DEF Drv, NewDriver, sanitizeAnnotations, Reserved
  <2>3. IdentityKey \in DOMAIN object.annotations /\ object.annotations[IdentityKey] = ID
    BY <2>1, <2>2 DEF IsDriverRequest, DriverAnnotations
  <2>4. Len(object.csr.names) = 1 /\ object.csr.names[1].uri = Parse(Parse(ID).string)
    BY <2>1, DriverNames DEF IsDriverRequest, DriverCSR
  <2>5. ID = SpiffeID(d.trustDomain, object.namespace, token.sa)
    BY <2>1 DEF ID, IsDriverRequest
  <2>6. Survives(Drv.trustDomain) => Parse(Parse(ID).string).string = ID
    BY Survived
  <2> QED BY <2>1, <2>3, <2>4, <2>5, <2>6
<1> QED BY <1>1, ProgramInvariant, RequestInvariant, PTL

-----------------------------------------------------------------------------
(* Verdicts                                                                  *)

LEMMA DriverRequestTyped == ASSUME NEW req, IsDriverRequest(req) PROVE IsRequest(req)
<1>1. IsSeq(req.csr.names)
  BY DriverNames DEF IsDriverRequest, DriverCSR
<1>2. IsSeq(req.usages)
  BY FourIsSeq DEF IsDriverRequest, DriverUsages
<1>3. IsSeq(req.username)
  <2>1. IsSeq(DriverServiceAccount)
    BY RequestAssumption
  <2>2. IsSeq(ServiceAccount(token.ns, token.sa))
    BY FourIsSeq DEF ServiceAccount
  <2> QED BY <2>1, <2>2 DEF IsDriverRequest
<1>4. req.csr.keyUsage = None
  BY DEF IsDriverRequest, DriverCSR
<1> QED BY <1>1, <1>2, <1>3, <1>4 DEF IsRequest

\* The steps that a verdict depends on.
LEMMA VerdictSteps ==
  ASSUME [Next]_vars
  PROVE  \/ RunApprover \/ CreateRequest \/ CreateForeign \/ Approve
         \/ pc' # "foreign" /\ verdict' = "none"
         \/ /\ UNCHANGED <<i, object, verdict>>
            /\ pc' = "foreign" => pc = "foreign"
            /\ pc' \in {"idle", "generate", "refused", "sign", "create"} =>
                 pc \in {"idle", "generate", "refused", "sign", "create"}
<1> DEFINE Kept == /\ UNCHANGED <<i, object, verdict>>
                   /\ pc' = "foreign" => pc = "foreign"
                   /\ pc' \in {"idle", "generate", "refused", "sign", "create"} =>
                        pc \in {"idle", "generate", "refused", "sign", "create"}
<1>1. RunDriver \/ ConfigChange \/ Tick \/ UNCHANGED vars => Kept
  BY DEF RunDriver, ConfigChange, Tick, vars, issuanceVars, procs, requestVars
<1>2. Publish \/ generateRequest \/ signRequest \/ Renew => Kept
  BY DEF Publish, generateRequest, signRequest, Renew, procs, requestVars
<1>3. SignCertificate \/ WriteFiles \/ WriteKeypairFails => Kept
  BY DEF SignCertificate, WriteFiles, WriteKeypairFails, procs, requestVars
<1>4. Retry \/ WriteMetadata \/ Crash => pc' # "foreign" /\ verdict' = "none"
  BY DEF Retry, WriteMetadata, Crash, DropRequest
<1> QED BY <1>1, <1>2, <1>3, <1>4 DEF Next, IssuanceNext

LEMMA VerdictInvariant == Spec => []VerdictInv
<1>1. Init => VerdictInv
  BY DEF Init, IssuanceInit, VerdictInv
<1>2. RequestInv /\ VerdictInv /\ [Next]_vars => VerdictInv'
  <2> SUFFICES ASSUME RequestInv, VerdictInv, [Next]_vars PROVE VerdictInv'
    OBVIOUS
  <2>1. CASE RunApprover
    <3>1. verdict = "none"
      BY <2>1 DEF RunApprover, VerdictInv
    <3> QED BY <2>1, <3>1 DEF RunApprover, VerdictInv, requestVars
  <2>2. CASE CreateRequest
    BY <2>2 DEF CreateRequest, VerdictInv
  <2>3. CASE CreateForeign
    <3>1. \A req \in Foreign : IsRequest(req)
      BY RequestAssumption
    <3> QED BY <2>3, <3>1 DEF CreateForeign, VerdictInv
  <2>4. CASE Approve
    <3>1. IsRequest(object)
      BY <2>4, DriverRequestTyped DEF Approve, RequestInv, VerdictInv
    <3>2. /\ i' = i /\ i # None /\ object' = object /\ pc' = pc /\ pc \in {"created", "foreign"}
          /\ verdict' = IF Evaluate(i, object) THEN "approved" ELSE "denied"
      BY <2>4 DEF Approve, procs
    <3> QED BY <3>1, <3>2 DEF VerdictInv
  <2>5. CASE pc' # "foreign" /\ verdict' = "none"
    BY <2>5 DEF VerdictInv
  <2>6. CASE /\ UNCHANGED <<i, object, verdict>>
             /\ pc' = "foreign" => pc = "foreign"
             /\ pc' \in {"idle", "generate", "refused", "sign", "create"} =>
                  pc \in {"idle", "generate", "refused", "sign", "create"}
    BY <2>6 DEF VerdictInv
  <2> QED BY <2>1, <2>2, <2>3, <2>4, <2>5, <2>6, VerdictSteps
<1> QED BY <1>1, <1>2, RequestInvariant, PTL DEF Spec

\* Whoever made a request, the approver approves it only if it is acceptable, and
\* denies it, if it is encoded as usual, only if it is not.
THEOREM AcceptableApproved == Spec => []ApprovesAcceptable
<1>1. VerdictInv => ApprovesAcceptable
  <2> SUFFICES ASSUME VerdictInv, verdict # "none"
               PROVE  /\ verdict = "approved" => Acceptable(i, object)
                      /\ verdict = "denied" /\ Canonical(object.csr) => ~Acceptable(i, object)
    BY DEF ApprovesAcceptable
  <2>1. IsRequest(object) /\ verdict = IF Evaluate(i, object) THEN "approved" ELSE "denied"
    BY DEF VerdictInv
  <2>2. Evaluate(i, object) => Acceptable(i, object)
    BY <2>1, EvaluateIsSound
  <2>3. Acceptable(i, object) /\ Canonical(object.csr) => Evaluate(i, object)
    BY <2>1, EvaluateIsComplete
  <2> QED BY <2>1, <2>2, <2>3
<1> QED BY <1>1, VerdictInvariant, PTL

\* Flags that agree have one value in both programs, given or by default.
LEMMA SameFlag ==
  ASSUME NEW c \in CommandLines, NEW f, NEW default, Flag(c.driver, f, None) = Flag(c.approver, f, None)
  PROVE  Flag(c.driver, f, default) = Flag(c.approver, f, default)
BY CommandLineAssumption DEF Flag

\* A request of the driver is acceptable to an approver with the same flags.
LEMMA DriverRequestAcceptable ==
  ASSUME ProgramInv, i # None, d = Drv, Agree, i.certificateRequestDuration # 0,
         Survives(d.trustDomain), NEW req, IsDriverRequest(req)
  PROVE  Acceptable(i, req)
<1>1. cmd \in CommandLines /\ i = Evl
  BY DEF ProgramInv
<1>2. i.trustDomain = Drv.trustDomain
  <2>1. Flag(cmd.driver, "trust-domain", "cluster.local") = Flag(cmd.approver, "trust-domain", "cluster.local")
    BY <1>1, SameFlag DEF Agree
  <2> QED BY <1>1, <2>1 DEF Evl, Drv, NewEvaluator, NewDriver, ApproverOptions, DriverOptions, addCertManagerFlags
<1>3. i.useOwnServiceAccount = Drv.useOwnServiceAccount
  <2>1. Flag(cmd.driver, "use-own-service-account", FALSE) = Flag(cmd.approver, "use-own-service-account", FALSE)
    BY <1>1, SameFlag DEF Agree
  <2> QED BY <1>1, <2>1 DEF Evl, Drv, NewEvaluator, NewDriver, ApproverOptions, DriverOptions, addDriverFlags
<1>4. i.certificateRequestDuration = Drv.certificateRequestDuration
  <2>1. Flag(cmd.driver, "certificate-request-duration", Hour) = Flag(cmd.approver, "certificate-request-duration", Hour)
    BY <1>1, SameFlag DEF Agree
  <2>2. i.certificateRequestDuration = Flag(cmd.approver, "certificate-request-duration", Hour)
    BY <1>1 DEF Evl, NewEvaluator, ApproverOptions, DurationFlag
  <2>3. Drv.certificateRequestDuration =
          certificateRequestDuration(Flag(cmd.driver, "certificate-request-duration", Hour))
    BY DEF Drv, NewDriver, DriverOptions, addCertManagerFlags
  <2> QED BY <2>1, <2>2, <2>3 DEF certificateRequestDuration
<1>5. UsagesAllowed(req)
  <2>1. req.usages = DriverUsages /\ req.csr.keyUsage = None /\ req.csr.extKeyUsage = None
    BY DEF IsDriverRequest, DriverCSR
  <2>2. IsSeq(DriverUsages) /\ Len(DriverUsages) = 4
    BY FourIsSeq DEF DriverUsages
  <2>3. /\ DriverUsages[1] = "digital signature" /\ DriverUsages[2] = "key encipherment"
        /\ DriverUsages[3] = "server auth" /\ DriverUsages[4] = "client auth"
    BY DEF DriverUsages
  <2>4. 1..4 = {1, 2, 3, 4}
    OBVIOUS
  <2>5. /\ Once(DriverUsages, "digital signature", 1) /\ Once(DriverUsages, "key encipherment", 2)
        /\ Once(DriverUsages, "server auth", 3) /\ Once(DriverUsages, "client auth", 4)
    BY <2>2, <2>3, <2>4 DEF Once
  <2>6. \A u \in {"key encipherment", "digital signature", "client auth", "server auth"} : Count(DriverUsages, u) = 1
    BY <2>2, <2>5, CountOnce
  <2> QED BY <2>1, <2>2, <2>6 DEF UsagesAllowed
<1>6. NamesRequester(i, req)
  <2>1. /\ DOMAIN req.csr.names = {1} /\ req.csr.names[1].tag = "uri" /\ req.csr.names[1].proper
        /\ req.csr.names[1].uri = Parse(Parse(ID).string)
    BY DriverNames DEF IsDriverRequest, DriverCSR
  <2>0. LET u == req.csr.names[1].uri IN u.scheme = "spiffe" /\ u.host = i.trustDomain /\ u.string = ID
    BY <1>2, <2>1, Survived
  <2>4. SUFFICES IF i.useOwnServiceAccount
                   THEN req.username = i.driverServiceAccount
                   ELSE \E ns, sa \in {req.username[j] : j \in 1..Len(req.username)} :
                          req.username = ServiceAccount(ns, sa) /\ ID = SpiffeID(i.trustDomain, ns, sa)
    <3>1. {m \in DOMAIN req.csr.names : req.csr.names[m].proper} = {1}
      BY <2>1
    <3> QED BY <2>0, <2>1, <2>4, <3>1 DEF NamesRequester
  <2>2. CASE i.useOwnServiceAccount
    <3>1. req.username = i.driverServiceAccount
      BY <1>3, <2>2 DEF IsDriverRequest, Agree
    <3> QED BY <2>2, <3>1
  <2>3. CASE ~i.useOwnServiceAccount
    <3>1. req.username = ServiceAccount(token.ns, token.sa)
      BY <1>3, <2>3 DEF IsDriverRequest
    <3>2. /\ Len(req.username) = 4 /\ req.username[3] = token.ns /\ req.username[4] = token.sa
      BY <3>1 DEF ServiceAccount
    <3>3. token.ns \in {req.username[j] : j \in 1..Len(req.username)} /\ token.sa \in {req.username[j] : j \in 1..Len(req.username)}
      BY <3>2
    <3>4. ID = SpiffeID(i.trustDomain, token.ns, token.sa)
      BY <1>2 DEF ID
    <3> QED BY <2>3, <3>1, <3>3, <3>4
  <2> QED BY <2>2, <2>3
<1>7. req.csr.wellFormed
  BY Survived DEF IsDriverRequest, DriverCSR
<1> QED BY <1>4, <1>5, <1>6, <1>7 DEF Acceptable, IsDriverRequest, DriverCSR

LEMMA DriverRequestCanonical == ASSUME NEW req, IsDriverRequest(req) PROVE Canonical(req.csr)
BY DriverNames DEF IsDriverRequest, DriverCSR, Canonical

\* An approver with the same flags never denies a request of the driver, for any
\* trust domain that survives, duration but zero, accounts, pods and annotations.
THEOREM DriverRequestsApproved == Spec => []DriverRequestApproved
<1>1. ProgramInv /\ RequestInv /\ VerdictInv => DriverRequestApproved
  <2> SUFFICES ASSUME ProgramInv, RequestInv, VerdictInv, pc = "created", i # None, Agree,
                      i.certificateRequestDuration # 0, Survives(d.trustDomain), verdict = "denied"
               PROVE  FALSE
    BY DEF DriverRequestApproved
  <2>1. d = Drv /\ IsDriverRequest(object)
    BY DEF ProgramInv, Active, RequestInv
  <2>2. Acceptable(i, object)
    BY <2>1, DriverRequestAcceptable
  <2>3. Evaluate(i, object)
    BY <2>1, <2>2, DriverRequestTyped, DriverRequestCanonical, EvaluateIsComplete
  <2> QED BY <2>3 DEF VerdictInv
<1> QED BY <1>1, ProgramInvariant, RequestInvariant, VerdictInvariant, PTL

-----------------------------------------------------------------------------
(* Renewals                                                                  *)

\* The lifetimes the driver asks for.
LEMMA DurationNat == ASSUME cmd \in CommandLines PROVE Drv.certificateRequestDuration \in Nat
BY CommandLineAssumption DEF Drv, NewDriver, certificateRequestDuration, Hour

\* A time in the past or the two thirds of a certificate: with the Duration's
\* limit the third that is left is at most one, and at least the Patience.
LEMMA NextIssuance ==
  ASSUME NEW crt, crt.notBefore \in Int, crt.notAfter \in Int, crt.notBefore <= crt.notAfter
  PROVE  LET next == calculateNextIssuanceTime(crt)
             passed == next - crt.notBefore
             life == crt.notAfter - crt.notBefore
         IN  /\ next \in Int /\ next <= crt.notAfter
             /\ 3 * passed >= 2 * life
             /\ life <= MaxDuration => 3 * passed < 2 * life + 3
             /\ 3 * Patience <= life => next + Patience <= crt.notAfter
<1> DEFINE life == crt.notAfter - crt.notBefore
           sub == Sub(crt.notAfter, crt.notBefore)
           third == sub \div 3
           next == calculateNextIssuanceTime(crt)
<1>1. life \in Nat /\ MaxDuration \in Nat /\ Patience \in Nat /\ 3 * Patience <= MaxDuration
  BY RenewalAssumption
<1>2. sub \in Nat /\ sub <= life /\ (life <= MaxDuration => sub = life) /\ (sub = life \/ sub = MaxDuration)
  BY <1>1 DEF Sub
<1> HIDE DEF sub
<1>3. third \in Nat /\ 3 * third <= sub /\ sub < 3 * third + 3
  BY <1>2
<1>4. next = crt.notAfter - third
  BY DEF calculateNextIssuanceTime, sub
<1> HIDE DEF third, next
<1>5. next \in Int /\ next <= crt.notAfter /\ 3 * (next - crt.notBefore) >= 2 * life
  BY <1>1, <1>2, <1>3, <1>4
<1>6. life <= MaxDuration => 3 * (next - crt.notBefore) < 2 * life + 3
  BY <1>1, <1>2, <1>3, <1>4
<1>7. 3 * Patience <= life => Patience <= third
  BY <1>1, <1>2, <1>3
<1>8. 3 * Patience <= life => next + Patience <= crt.notAfter
  BY <1>1, <1>3, <1>4, <1>7
<1> QED BY <1>5, <1>6, <1>8 DEF next

LEMMA TimeInvariant == Spec => []TimeInv
<1>1. Init => TimeInv
  BY DEF Init, IssuanceInit, TimeInv, Active
<1>2. ProgramInv /\ RequestInv /\ TimeInv /\ [Next]_vars => TimeInv'
  <2> SUFFICES ASSUME ProgramInv, RequestInv, TimeInv, [Next]_vars PROVE TimeInv'
    OBVIOUS
  <2>0. None \notin Tokens
    BY RequestAssumption
  <2>1. CASE IssuanceNext /\ UNCHANGED volumeVars
    <3>1. pc' \in {"issued", "meta"} => pc' = pc
      BY <2>1 DEF IssuanceNext, RunDriver, RunApprover, ConfigChange, Publish, generateRequest, signRequest,
                  CreateRequest, Retry, CreateForeign, Approve
    <3>2. now' = now /\ chain' = chain /\ pair' = pair /\ nextIssuance' = nextIssuance
      BY <2>1 DEF volumeVars
    <3>3. Active' => nextIssuance = None \/ nextIssuance <= now
      BY Begins DEF Publish, Renew, TimeInv
    <3>4. token' = None => token = None
      BY <2>0, TokenSteps DEF Publish
    <3>5. calculateNextIssuanceTime(pair)' = calculateNextIssuanceTime(pair)
      BY <3>2 DEF calculateNextIssuanceTime, Sub
    <3> QED BY <3>1, <3>2, <3>3, <3>4, <3>5 DEF TimeInv
  <2>2. CASE SignCertificate
    <3>1. chain' \in {NoPEM, NoCertificate} \cup Certs
      <4>1. object.duration \in Nat
        BY <2>2, DurationNat DEF SignCertificate, ProgramInv, RequestInv, IsDriverRequest
      <4>2. Lifetimes \subseteq Nat /\ Backdates \subseteq Nat
        BY RenewalAssumption
      <4>3. ASSUME NEW b \in Backdates, NEW l \in Lifetimes \cup {object.duration}
            PROVE  [notBefore |-> now - b, notAfter |-> now - b + l] \in Certs
        BY <4>1, <4>2 DEF Certs, TimeInv
      <4> QED BY <2>2, <4>3 DEF SignCertificate
    <3>2. /\ now' = now /\ pair' = pair /\ nextIssuance' = nextIssuance /\ token' = token
          /\ pc' = "issued" /\ Active
      BY <2>2 DEF SignCertificate, Active
    <3>3. calculateNextIssuanceTime(pair)' = calculateNextIssuanceTime(pair)
      BY <3>2 DEF calculateNextIssuanceTime, Sub
    <3> QED BY <3>1, <3>2, <3>3 DEF TimeInv
  <2>3. CASE WriteFiles
    <3>1. chain \in Certs /\ chain' = chain
      BY <2>3 DEF WriteFiles, Parses, TimeInv
    <3>2. /\ pair' \in Pairs /\ pair'.at = now
          /\ pair'.notBefore = chain.notBefore /\ pair'.notAfter = chain.notAfter
      BY <2>3, <3>1 DEF WriteFiles, Certs, Pairs, TimeInv
    <3>3. now' = now /\ nextIssuance' = nextIssuance /\ token' = token /\ pc' = "meta" /\ Active
      BY <2>3 DEF WriteFiles, Active
    <3>4. nextIssuance = None \/ nextIssuance <= now
      BY <3>3 DEF TimeInv
    <3> QED BY <3>1, <3>2, <3>3, <3>4 DEF TimeInv
  <2>4. CASE WriteMetadata
    <3>1. /\ chain \in Certs /\ pair.notBefore = chain.notBefore /\ pair.notAfter = chain.notAfter
          /\ token \in Tokens
      BY <2>4 DEF WriteMetadata, TimeInv, ProgramInv, Active
    <3>2. now' = now /\ pair' = pair /\ token' = token /\ pc' = "idle" /\ ~Active'
      BY <2>4 DEF WriteMetadata, Active
    <3>3. nextIssuance' = calculateNextIssuanceTime(chain)
      BY <2>4 DEF WriteMetadata
    <3>4. nextIssuance' \in Int
      BY <3>1, <3>3, NextIssuance DEF Certs
    <3>5. nextIssuance' = calculateNextIssuanceTime(pair)'
      BY <3>1, <3>2, <3>3 DEF calculateNextIssuanceTime, Sub
    <3> QED BY <2>0, <3>1, <3>2, <3>4, <3>5 DEF TimeInv
  <2>5. CASE WriteKeypairFails \/ Crash
    <3>1. /\ now' = now /\ pair' = pair /\ token' = token /\ nextIssuance' = nextIssuance
          /\ pc' \in {"failed", "idle"} /\ (Active' => Active)
      BY <2>5 DEF WriteKeypairFails, Crash, Active
    <3>2. calculateNextIssuanceTime(pair)' = calculateNextIssuanceTime(pair)
      BY <3>1 DEF calculateNextIssuanceTime, Sub
    <3> QED BY <3>1, <3>2 DEF TimeInv
  <2>6. CASE Renew
    <3>1. /\ now' = now /\ pair' = pair /\ token' = token /\ nextIssuance' = nextIssuance
          /\ pc' = "generate" /\ (nextIssuance # None => now >= nextIssuance)
      BY <2>6 DEF Renew, volumeVars
    <3>2. calculateNextIssuanceTime(pair)' = calculateNextIssuanceTime(pair)
      BY <3>1 DEF calculateNextIssuanceTime, Sub
    <3> QED BY <3>1, <3>2 DEF TimeInv
  <2>7. CASE Tick
    <3>1. /\ now' = now + Step /\ pair' = pair /\ token' = token /\ nextIssuance' = nextIssuance
          /\ chain' = chain /\ pc' = pc
      BY <2>7 DEF Tick, issuanceVars
    <3>2. now' \in Nat /\ now <= now'
      BY <3>1, RenewalAssumption DEF TimeInv
    <3>3. Active' <=> Active
      BY <3>1 DEF Active
    <3>4. calculateNextIssuanceTime(pair)' = calculateNextIssuanceTime(pair)
      BY <3>1 DEF calculateNextIssuanceTime, Sub
    <3>5. pair # None => pair \in Pairs /\ pair.at <= now'
      BY <3>2 DEF TimeInv, Pairs
    <3>6. Active => nextIssuance = None \/ nextIssuance <= now'
      BY <3>2 DEF TimeInv
    <3> QED BY <3>1, <3>2, <3>3, <3>4, <3>5, <3>6 DEF TimeInv
  <2>8. CASE UNCHANGED vars
    BY <2>8 DEF vars, issuanceVars, volumeVars, TimeInv, Active, calculateNextIssuanceTime, Sub
  <2> QED BY <2>1, <2>2, <2>3, <2>4, <2>5, <2>6, <2>7, <2>8 DEF Next
<1> QED BY <1>1, <1>2, ProgramInvariant, RequestInvariant, PTL DEF Spec

\* What calculateNextIssuanceTime schedules, and no failed or interrupted renewal
\* displaces, is the end of the second third of the life of the certificate on
\* file, rounded, or a later moment of it if the Duration saturates.
THEOREM RenewalsAtTwoThirds == Spec => []RenewalAtTwoThirds
<1>1. TimeInv => RenewalAtTwoThirds
  <2> SUFFICES ASSUME TimeInv, pair # None, nextIssuance # None, nextIssuance > now
               PROVE  LET passed == nextIssuance - pair.notBefore IN
                      /\ 3 * passed >= 2 * Lifetime(pair)
                      /\ 3 * passed < 2 * Lifetime(pair) + 3 \/ Lifetime(pair) > MaxDuration
                      /\ nextIssuance <= pair.notAfter
    BY DEF RenewalAtTwoThirds
  <2>1. pair \in Pairs /\ pair.at <= now /\ now \in Nat /\ nextIssuance \in Int
    BY DEF TimeInv
  <2>2. nextIssuance = calculateNextIssuanceTime(pair)
    BY <2>1 DEF TimeInv, Pairs
  <2>3. pair.notBefore \in Int /\ pair.notAfter \in Int /\ pair.notBefore <= pair.notAfter /\ MaxDuration \in Nat
    BY <2>1, RenewalAssumption DEF Pairs
  <2> QED BY <2>2, <2>3, NextIssuance DEF Lifetime
<1> QED BY <1>1, TimeInvariant, PTL

\* The certificate on file has not expired, for any lifetimes, failures and
\* crashes, if a renewal that is due is done within the Patience and that is a
\* third of the lifetime at most; and the certificate was not old when it came.
THEOREM CertificatesRenewedInTime == Spec => []RenewedInTime
<1>1. Init => RenewedInTime
  BY DEF Init, RenewedInTime
<1>2. TimeInv /\ TimeInv' /\ RenewedInTime /\ [Next]_vars => RenewedInTime'
  <2> SUFFICES ASSUME TimeInv, TimeInv', RenewedInTime, [Next]_vars,
                      pair' # None, 3 * Patience <= Lifetime(pair)',
                      3 * (pair'.at - pair'.notBefore) <= 2 * Lifetime(pair)'
               PROVE  now' <= pair'.notAfter
    BY DEF RenewedInTime
  <2>1. Patience \in Nat /\ now \in Nat /\ now' \in Nat
    BY RenewalAssumption DEF TimeInv
  <2>2. /\ pair' \in Pairs /\ pair'.notBefore \in Int /\ pair'.notAfter \in Int /\ pair'.at \in Nat
        /\ pair'.notBefore <= pair'.notAfter
    BY DEF TimeInv, Pairs
  <2>3. 3 * Patience <= pair'.notAfter - pair'.notBefore
    BY DEF Lifetime
  <2>4. 3 * (pair'.at - pair'.notBefore) <= 2 * (pair'.notAfter - pair'.notBefore)
    BY DEF Lifetime
  <2>5. pair'.at + Patience <= pair'.notAfter
    BY <2>1, <2>2, <2>3, <2>4
  <2>6. CASE WriteFiles
    <3>1. pair'.at = now /\ now' = now
      BY <2>6 DEF WriteFiles
    <3> QED BY <2>1, <2>2, <2>5, <3>1
  <2>7. CASE Tick
    <3>1. pair' = pair /\ nextIssuance' = nextIssuance /\ now' = now + Step /\ now + Step <= Due + Patience
      BY <2>7 DEF Tick
    <3>2. CASE Due = pair.at
      BY <2>1, <2>2, <2>5, <3>1, <3>2
    <3>3. CASE Due # pair.at
      <4>1. nextIssuance # None /\ ~(nextIssuance < pair.at) /\ Due = nextIssuance
        BY <3>3 DEF Due
      <4>2. nextIssuance \in Int /\ nextIssuance # pair.at
        BY <3>3, <4>1 DEF TimeInv
      <4>3. nextIssuance = calculateNextIssuanceTime(pair)
        BY <2>2, <3>1, <4>1, <4>2 DEF TimeInv
      <4>4. nextIssuance + Patience <= pair.notAfter
        BY <2>2, <2>3, <3>1, <4>3, NextIssuance
      <4> QED BY <2>1, <2>2, <3>1, <4>1, <4>2, <4>4
    <3> QED BY <3>2, <3>3
  <2>8. CASE pair' = pair /\ now' = now
    BY <2>8 DEF RenewedInTime, Lifetime
  <2> QED BY <2>6, <2>7, <2>8 DEF Next, volumeVars, vars, SignCertificate, WriteMetadata, WriteKeypairFails, Renew, Crash
<1> QED BY <1>1, <1>2, TimeInvariant, PTL DEF Spec
=============================================================================
