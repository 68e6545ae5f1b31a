------------------------------- MODULE Evaluator -------------------------------
(***************************************************************************)
(* approver/evaluator: may a CertificateRequest that claims a SPIFFE       *)
(* identity be approved?                                                   *)
(*                                                                         *)
(* A request is a record of what Evaluate looks at.  The general names of  *)
(* the SAN extension are a sequence (empty: no such extension): each has a *)
(* tag number, and is proper if its class and form are those of a general  *)
(* name.  crypto/x509 hands out the proper URIs, DNS names, addresses and  *)
(* e-mail addresses in fields of their own.  The value of the key usage    *)
(* extension is the bytes that came; a byte is the set of the bits set in  *)
(* it, so that masks are set differences.  The other two extensions may be *)
(* malformed.  A URL is its scheme, its host and what String() prints.  A  *)
(* user name is the sequence of its parts between colons.                  *)
(***************************************************************************)
EXTENDS Naturals, Sequences, FiniteSets

CONSTANTS
  None,                        \* an extension or field that is not there
  Unparsable,                  \* strings that url.Parse refuses in a SPIFFE ID
  OddDomains                   \* what becomes of trust domains that are not simply a
                               \* host: [host, printed, encodable, valid]

\* The fields of the evaluator, which the operators below take as i.
NewEvaluator(opts) ==
  [ trustDomain |-> opts.TrustDomain,
    certificateRequestDuration |-> opts.CertificateRequestDuration,
    useOwnServiceAccount |-> opts.UseOwnServiceAccount,
    driverServiceAccount |-> opts.DriverServiceAccount ]

requiredUsages == <<"key encipherment", "digital signature", "client auth", "server auth">>

-----------------------------------------------------------------------------
(* SPIFFE IDs and their URLs (external: net/url, crypto/x509). *)

\* The string spiffe://<trustDomain>/ns/<ns>/sa/<sa>.
SpiffeID(trustDomain, ns, sa) == [trustDomain |-> trustDomain, ns |-> ns, sa |-> sa]

ParseFails(id) == {id.trustDomain, id.ns, id.sa} \cap Unparsable # {}

\* What url.Parse takes for the host, how String() prints the trust domain, and
\* whether a SAN extension can be made of that and crypto/x509 accepts its host.
Domain(td) ==
  IF td \in DOMAIN OddDomains THEN OddDomains[td]
  ELSE [host |-> td, printed |-> td, encodable |-> TRUE, valid |-> TRUE]

\* The trust domain is the same on either side of a CSR.
Survives(td) == Domain(td) = [host |-> td, printed |-> td, encodable |-> TRUE, valid |-> TRUE]

Parse(id) ==
  [ scheme |-> "spiffe", host |-> Domain(id.trustDomain).host,
    string |-> SpiffeID(Domain(id.trustDomain).printed, id.ns, id.sa) ]

-----------------------------------------------------------------------------
(* The decoded certificate signing request (external: crypto/x509). *)

IsSeq(s) == s \in Seq({s[n] : n \in DOMAIN s})

\* What any CertificateRequest is, whoever made it.
IsRequest(req) ==
  /\ IsSeq(req.csr.names) /\ IsSeq(req.usages) /\ IsSeq(req.username)
  /\ req.csr.keyUsage # None => req.csr.keyUsage \in Seq(SUBSET (0..7))

\* The names that crypto/x509 puts into the field for the tag, by position.
Fields(csr, tag) == {n \in DOMAIN csr.names : csr.names[n].tag = tag /\ csr.names[n].proper}

URIs(csr) == Fields(csr, "uri")

\* The byte that holds the number n.
Bits(n) == {b \in 0..7 : (n \div 2^b) % 2 = 1}

\* How crypto/x509 encodes a key usage extension: tag and length of a bit string,
\* the number of its unused bits, and the bits, the first usage in the highest.
EncodeKeyUsage(usages) ==
  LET last == CHOOSE u \in usages : \A w \in usages : w <= u IN
  CASE usages = {}    -> <<Bits(3), Bits(2), Bits(0), {}>>
    [] 8 \in usages   -> <<Bits(3), Bits(3), Bits(7), {7 - u : u \in usages \ {8}}, {7}>>
    [] OTHER          -> <<Bits(3), Bits(2), Bits(7 - last), {7 - u : u \in usages}>>

-----------------------------------------------------------------------------
(* extensions.go *)

allowedKeyUsages ==
  << <<Bits(3), Bits(2), Bits(7), Bits(128)>>,   \* digital signature
     <<Bits(3), Bits(2), Bits(5), Bits(32)>> >>  \* key encipherment

validateKeyUsageExtension(value) ==
  /\ Len(value) = 4
  /\ \A i \in 1..4 : value[i] \ UNION {allowedKeyUsages[u][i] : u \in 1..2} = {}

\* The value can be unmarshalled, and every usage is one of the two.
validateExtendedKeyUsageExtension(csr) ==
  /\ "extended key usage" \notin csr.malformed
  /\ \A u \in csr.extKeyUsage : u \in {"client auth", "server auth"}

\* The value is a sequence of names and no more, and every one of them has the tag
\* number of a URI; its class and form are not looked at.
validateSubjectAltNameExtension(csr) ==
  /\ "san" \notin csr.malformed
  /\ \A n \in 1..Len(csr.names) : csr.names[n].tag = "uri"

validateCSRExtentions(csr) ==
  /\ validateSubjectAltNameExtension(csr)
  /\ csr.keyUsage # None => validateKeyUsageExtension(csr.keyUsage)
  /\ csr.extKeyUsage # None => validateExtendedKeyUsageExtension(csr)
  /\ csr.otherExtensions = {}

-----------------------------------------------------------------------------
(* identity.go *)

validateDriverServiceAccount(i, csr, username) ==
  /\ \E n \in DOMAIN csr.names :
       /\ URIs(csr) = {n}
       /\ csr.names[n].uri.scheme = "spiffe"
       /\ csr.names[n].uri.host = i.trustDomain
  /\ username = i.driverServiceAccount

\* Mutation: one of the URIs is enough.
IdentityOfSomeURI(i, csr, username) ==
  /\ Len(username) = 4 /\ username[1] = "system" /\ username[2] = "serviceaccount"
  /\ \E n \in URIs(csr) : csr.names[n].uri.string = SpiffeID(i.trustDomain, username[3], username[4])

validateIdentity(i, csr, username) ==
  /\ Len(username) = 4 /\ username[1] = "system" /\ username[2] = "serviceaccount"
  /\ \E n \in DOMAIN csr.names :
       /\ URIs(csr) = {n}
       /\ csr.names[n].uri.scheme = "spiffe"
       /\ csr.names[n].uri.string = SpiffeID(i.trustDomain, username[3], username[4])

-----------------------------------------------------------------------------
(* evaluator.go *)

Count(s, u) == Cardinality({i \in 1..Len(s) : s[i] = u})

\* util.EqualKeyUsagesUnsorted: the same usages, each as often.
EqualKeyUsagesUnsorted(a, b) ==
  /\ Len(a) = Len(b)
  /\ \A i \in 1..Len(a) : Count(a, a[i]) = Count(b, a[i])

\* nil (TRUE) or an error (FALSE).
Evaluate(i, req) ==
  LET csr == req.csr IN
  /\ csr.wellFormed
  /\ req.duration = i.certificateRequestDuration
  /\ csr.signatureValid
  /\ ~csr.commonName
  /\ \A tag \in {"dns", "ip", "email"} : Fields(csr, tag) = {}
  /\ validateCSRExtentions(csr)
  /\ ~req.isCA
  /\ EqualKeyUsagesUnsorted(req.usages, requiredUsages)
  /\ IF i.useOwnServiceAccount
       THEN validateDriverServiceAccount(i, csr, req.username)
       ELSE validateIdentity(i, csr, req.username)

-----------------------------------------------------------------------------
(* What an approved request is, without a view to how that is found out. *)

ServiceAccount(ns, sa) == <<"system", "serviceaccount", ns, sa>>

\* The one name the CSR asks for, as general names are read, is a SPIFFE ID that
\* belongs to the requester, or the requester is the driver and answers for it.
NamesRequester(i, req) ==
  \E n \in DOMAIN req.csr.names :
    /\ {m \in DOMAIN req.csr.names : req.csr.names[m].proper} = {n}
    /\ req.csr.names[n].tag = "uri"
    /\ LET u == req.csr.names[n].uri IN
       /\ u.scheme = "spiffe"
       /\ IF i.useOwnServiceAccount
            THEN req.username = i.driverServiceAccount /\ u.host = i.trustDomain
            ELSE \E ns, sa \in {req.username[j] : j \in 1..Len(req.username)} :
                   req.username = ServiceAccount(ns, sa) /\ u.string = SpiffeID(i.trustDomain, ns, sa)

\* The usages that a key usage extension asserts: digital signature is 0, key
\* encipherment 2.
Asserted(value) ==
  {u \in 0..8 : 4 + (u \div 8) \in DOMAIN value /\ 7 - (u % 8) \in value[4 + (u \div 8)]}

UsagesAllowed(req) ==
  /\ req.csr.keyUsage # None => Asserted(req.csr.keyUsage) \subseteq {0, 2}
  /\ req.csr.extKeyUsage # None => req.csr.extKeyUsage \subseteq {"client auth", "server auth"}
  /\ \A u \in {"key encipherment", "digital signature", "client auth", "server auth"} : Count(req.usages, u) = 1
  /\ Len(req.usages) = 4

Acceptable(i, req) ==
  /\ req.csr.wellFormed /\ req.csr.signatureValid
  /\ ~req.csr.commonName /\ req.csr.otherExtensions = {}
  /\ req.duration = i.certificateRequestDuration
  /\ ~req.isCA
  /\ UsagesAllowed(req)
  /\ NamesRequester(i, req)

\* The extensions are encoded as crypto/x509 and cert-manager encode them.
Canonical(csr) ==
  /\ csr.malformed = {}
  /\ \A n \in DOMAIN csr.names : csr.names[n].proper
  /\ csr.keyUsage # None => \E usages \in SUBSET (0..8) : csr.keyUsage = EncodeKeyUsage(usages)
=============================================================================
