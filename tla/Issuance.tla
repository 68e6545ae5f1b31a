------------------------------- MODULE Issuance -------------------------------
(***************************************************************************)
(* From the service account token of a pod to the CertificateRequest that  *)
(* the approver evaluates: both programs are started with a command line   *)
(* each, the driver generates and signs a request, and the approver takes  *)
(* it up, besides requests that others create with the same annotation.    *)
(*                                                                         *)
(* The csi-lib manager (external) calls generateRequest and signRequest,   *)
(* creates the CertificateRequest with the pod's token or as the driver,   *)
(* and tries again after an error.  The API server fills in who created    *)
(* it.                                                                     *)
(***************************************************************************)
EXTENDS Evaluator, Options

CONSTANTS
  CommandLines,          \* pairs of command lines, [driver, approver]
  DriverServiceAccount,  \* the user name of the driver
  Tokens,                \* of pods: [parses, ns, sa]
  IssuerRefs,            \* what a ConfigMap can make the active issuer
  Custom,                \* a value of a custom annotation
  Foreign                \* requests that others create

\* A flag that is given has a value; no negative duration is asked for.
ASSUME CommandLineAssumption ==
  \A c \in CommandLines :
    /\ \A f \in DOMAIN c.driver : c.driver[f] # None
    /\ \A f \in DOMAIN c.approver : c.approver[f] # None
    /\ DriverOptions(c.driver).CertManager.CertificateRequestDuration \in Nat

ASSUME RequestAssumption ==
  /\ None \notin Tokens
  /\ IsSeq(DriverServiceAccount)
  /\ \A req \in Foreign : IsRequest(req)

IdentityKey == "spiffe.csi.cert-manager.io/identity"

\* The keys that begin with annotations.Prefix.
Reserved == {IdentityKey, "spiffe.csi.cert-manager.io/other"}

VARIABLES
  cmd,                   \* the command lines
  d, i,                  \* the fields of the Driver and of the evaluator, or None
  pc,                    \* "idle", "generate", "refused" (by generateRequest), "sign",
                         \* "create", "created", "failed" (later than that), or
                         \* "foreign": somebody else created the request
  token,                 \* of the pod: can it be parsed, and its claims; None: no pod
  config,                \* the driver's runtime configuration: its active issuer
  bundle,                \* the manager.CertificateRequestBundle, or None
  object,                \* the CertificateRequest, or None
  verdict

procs == <<cmd, d, i>>
requestVars == <<bundle, object, verdict>>
issuanceVars == <<procs, pc, token, config, requestVars>>

IssuanceInit ==
  /\ cmd \in CommandLines
  /\ d = None /\ i = None
  /\ pc = "idle" /\ token = None
  /\ config = None
  /\ bundle = None /\ object = None /\ verdict = "none"

-----------------------------------------------------------------------------
(* The two programs start. *)

\* Mutation: the bad annotations are reported but not removed.
SanitizeReports(in) == in

sanitizeAnnotations(in) == {k \in in : k \notin Reserved}

certificateRequestDuration(duration) == IF duration = 0 THEN Hour ELSE duration

NewDriver(opts) ==
  [ trustDomain |-> opts.CertManager.TrustDomain,
    certificateRequestDuration |-> certificateRequestDuration(opts.CertManager.CertificateRequestDuration),
    certificateRequestAnnotations |-> sanitizeAnnotations(opts.CertManager.CertificateRequestAnnotations),
    useOwnServiceAccount |-> opts.Driver.UseOwnServiceAccount ]

Source == INSTANCE ConfigSource WITH
  Configs <- IssuerRefs, initial <- None, active <- config, running <- d # None

\* Which runtime configuration a program with these options builds; it makes a
\* client for a ConfigMap when one is named.
RuntimeConfigOf(opts) ==
  Source!New(opts.IssuanceConfigMapName # "", opts.IssuanceConfigMapName, opts.IssuerRef.Name)

\* Mutation: the program starts with what it has.
RunDriverUnchecked ==
  LET opts == DriverOptions(cmd.driver) IN
  /\ d = None
  /\ d' = NewDriver(opts)
  /\ config' = opts.CertManager.IssuerRef
  /\ UNCHANGED <<cmd, i, pc, token, requestVars>>

\* The driver starts, if it finds a runtime configuration.
RunDriver ==
  LET opts == DriverOptions(cmd.driver) IN
  /\ d = None
  /\ RuntimeConfigOf(opts.CertManager) # "error"
  /\ d' = NewDriver(opts)
  /\ config' = opts.CertManager.IssuerRef
  /\ UNCHANGED <<cmd, i, pc, token, requestVars>>

RunApprover ==
  LET opts == ApproverOptions(cmd.approver) IN
  /\ i = None
  /\ RuntimeConfigOf(opts) # "error"
  /\ i' = NewEvaluator(opts)
  /\ UNCHANGED <<cmd, d, pc, token, config, requestVars>>

\* A driver that watches a ConfigMap finds another issuer in it.
ConfigChange ==
  /\ d # None
  /\ RuntimeConfigOf(DriverOptions(cmd.driver).CertManager) = "configmap"
  /\ UNCHANGED <<procs, pc, token, requestVars>>
  /\ \E ref \in IssuerRefs \ {config} : Source!Update(ref)

-----------------------------------------------------------------------------
(* The requests of the driver *)

\* A pod mounts a volume.
Publish ==
  /\ d # None
  /\ pc = "idle" /\ token = None
  /\ token' \in Tokens
  /\ pc' = "generate"
  /\ UNCHANGED <<procs, config, requestVars>>

\* generateRequest gives up without an issuer or a token with an identity, or if no
\* URL can be made of that.
CannotGenerate ==
  \/ config.Name = ""
  \/ ~token.parses \/ token.ns = "" \/ token.sa = ""
  \/ ParseFails(SpiffeID(d.trustDomain, token.ns, token.sa))

\* Custom annotations are copied over those of the driver.
generateRequest ==
  /\ pc = "generate"
  /\ IF CannotGenerate
       THEN pc' = "refused" /\ UNCHANGED bundle
       ELSE /\ pc' = "sign"
            /\ LET spiffeID == SpiffeID(d.trustDomain, token.ns, token.sa) IN
               bundle' =
                 [ uris |-> <<Parse(spiffeID)>>, csr |-> None,
                   isCA |-> FALSE, namespace |-> token.ns, issuer |-> config,
                   duration |-> d.certificateRequestDuration,
                   usages |-> <<"digital signature", "key encipherment", "server auth", "client auth">>,
                   annotations |-> [k \in d.certificateRequestAnnotations \cup {IdentityKey} |->
                                      IF k \in d.certificateRequestAnnotations THEN Custom ELSE spiffeID] ]
  /\ UNCHANGED <<procs, token, config, object, verdict>>

\* The names in the CSR: those in the SAN extension that signRequest makes of the
\* URIs, which it clears, and nothing of crypto/x509's own.  A reader parses the
\* strings again.
SANs(uris) == [n \in 1..Len(uris) |-> [tag |-> "uri", proper |-> TRUE, uri |-> Parse(uris[n].string)]]

\* The domains of the URLs are encodable, or valid for who parses the CSR.
DomainsAre(field, uris) == \A n \in 1..Len(uris) : Domain(uris[n].string.trustDomain)[field]

\* MarshalSANs refuses a string that is not ASCII.
signRequest ==
  /\ pc = "sign"
  /\ IF DomainsAre("encodable", bundle.uris)
       THEN /\ pc' = "create"
            /\ bundle' = [bundle EXCEPT !.csr =
                 [ wellFormed |-> DomainsAre("valid", bundle.uris), signatureValid |-> TRUE,
                   commonName |-> FALSE, names |-> SANs(bundle.uris), keyUsage |-> None,
                   extKeyUsage |-> None, otherExtensions |-> {}, malformed |-> {} ]]
       ELSE pc' = "failed" /\ UNCHANGED bundle
  /\ UNCHANGED <<procs, token, config, object, verdict>>

\* The manager creates the request, with the pod's token or its own.
CreateRequest ==
  /\ pc = "create"
  /\ pc' = "created"
  /\ object' = [ csr |-> bundle.csr, duration |-> bundle.duration, isCA |-> bundle.isCA,
                 usages |-> bundle.usages, namespace |-> bundle.namespace,
                 issuer |-> bundle.issuer, annotations |-> bundle.annotations,
                 username |-> IF d.useOwnServiceAccount THEN DriverServiceAccount
                              ELSE ServiceAccount(token.ns, token.sa) ]
  /\ UNCHANGED <<procs, token, config, bundle, verdict>>

DropRequest == bundle' = None /\ object' = None /\ verdict' = "none"

\* After an error or a denial the manager begins again, with a new request.
Retry ==
  /\ pc \in {"refused", "failed"} \/ (pc = "created" /\ verdict = "denied")
  /\ pc' = "generate"
  /\ DropRequest
  /\ UNCHANGED <<procs, token, config>>

\* Somebody else creates a request with the annotation.
CreateForeign ==
  /\ pc = "idle" /\ token = None
  /\ pc' = "foreign"
  /\ object' \in Foreign
  /\ UNCHANGED <<procs, token, config, bundle, verdict>>

\* The approver takes the request up.
Approve ==
  /\ i # None
  /\ pc \in {"created", "foreign"} /\ verdict = "none"
  /\ pc = "created" => IdentityKey \in DOMAIN object.annotations
  /\ verdict' = IF Evaluate(i, object) THEN "approved" ELSE "denied"
  /\ UNCHANGED <<procs, pc, token, config, bundle, object>>

IssuanceNext ==
  \/ RunDriver \/ RunApprover \/ ConfigChange
  \/ Publish \/ generateRequest \/ signRequest \/ CreateRequest \/ Retry
  \/ CreateForeign \/ Approve

-----------------------------------------------------------------------------
(* Driver and approver together *)

\* The flags that both programs have and that decide how a request is made and
\* judged are given to both with one value or to neither, and the approver knows
\* the driver's account if that is used.
Agree ==
  /\ \A f \in {"trust-domain", "certificate-request-duration", "use-own-service-account"} :
       Flag(cmd.driver, f, None) = Flag(cmd.approver, f, None)
  /\ d.useOwnServiceAccount => i.driverServiceAccount = DriverServiceAccount

\* An approver that was given the same flags as the driver denies no request the
\* driver makes, whether flags are given or left to the defaults of the two
\* programs, whichever account the driver uses, whatever the pod, the issuer and
\* the custom annotations; but for a duration of zero, which to the driver means
\* an hour, and a trust domain that net/url or crypto/x509 changes or refuses.
DriverRequestApproved ==
  pc = "created" /\ i # None /\ Agree /\ i.certificateRequestDuration # 0 /\ Survives(d.trustDomain)
    => verdict # "denied"

\* Evaluate approves nothing that is not acceptable, however its extensions are
\* encoded: its checks of the parts of a CSR, the bit masks of the key usages and
\* the comparison of sorted usages together mean that the certificate names its
\* requester, once.  Of what is encoded as usual it denies nothing acceptable.
ApprovesAcceptable ==
  /\ verdict = "approved" => Acceptable(i, object)
  /\ verdict = "denied" /\ Canonical(object.csr) => ~Acceptable(i, object)

\* Every request is annotated with the pod's SPIFFE ID, for which the approver
\* looks, and its CSR is for that ID and nothing else: no custom annotation takes
\* its place, and only a trust domain that String() prints differently makes the
\* CSR differ from the annotation.
IdentityAnnotated ==
  pc = "created" =>
    /\ IdentityKey \in DOMAIN object.annotations
    /\ object.annotations[IdentityKey] = SpiffeID(d.trustDomain, object.namespace, token.sa)
    /\ Len(object.csr.names) = 1
    /\ Survives(d.trustDomain) => object.csr.names[1].uri.string = object.annotations[IdentityKey]

\* A pod with a proper token is refused a request only by a driver that has a
\* ConfigMap to find an issuer in, or of whose trust domain no URL can be made: one
\* that can never have an issuer does not start, but the trust domain is not tried
\* at the start.
RefusesForNow ==
  pc = "refused" /\ token.parses /\ token.ns # "" /\ token.sa # "" =>
    \/ DriverOptions(cmd.driver).CertManager.IssuanceConfigMapName # ""
    \/ ParseFails(SpiffeID(d.trustDomain, token.ns, token.sa))
=============================================================================
