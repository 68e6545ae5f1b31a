------------------------------ MODULE MCIssuance ------------------------------
(* Command lines and tokens, and requests of others that differ from an       *)
(* acceptable one in some of their parts.                                     *)
EXTENDS Renewal, TLC

MCDriver == ServiceAccount("cert-manager", "csi-driver-spiffe")

Own == "use-own-service-account" :> TRUE
FooBar == "trust-domain" :> "foo.bar"
Duration(t) == "certificate-request-duration" :> t

\* Flags that both programs are given, or neither.
Shared == {<<>>, FooBar, FooBar @@ Own, Duration(30) @@ Own, Duration(0)}

\* Trust domains that make no URL, or one that is something else, or that can not
\* be encoded, or that crypto/x509 refuses.
TrustDomain(td) == "trust-domain" :> td
MCUnparsable == {"foo bar"}
MCOddDomains ==
  ("foo.bar/a" :> [host |-> "foo.bar", printed |-> "foo.bar/a", encodable |-> TRUE, valid |-> TRUE]) @@
  ("foo.bar/a b" :> [host |-> "foo.bar", printed |-> "foo.bar/a%20b", encodable |-> TRUE, valid |-> TRUE]) @@
  ("foo.bar/a%20b" :> [host |-> "foo.bar", printed |-> "foo.bar/a%20b", encodable |-> TRUE, valid |-> TRUE]) @@
  ("foo.bar?NOT-ASCII" :> [host |-> "foo.bar", printed |-> "foo.bar?NOT-ASCII", encodable |-> FALSE, valid |-> FALSE]) @@
  ("foo..bar" :> [host |-> "foo..bar", printed |-> "foo..bar", encodable |-> TRUE, valid |-> FALSE])
Odd == {TrustDomain(td) : td \in MCUnparsable \cup {"foo.bar/a", "foo.bar/a b", "foo.bar?NOT-ASCII", "foo..bar"}}

Annotated ==
  "extra-certificate-request-annotations" :>
    {"spiffe.csi.cert-manager.io/identity", "spiffe.csi.cert-manager.io/other", "example.com/team"}
NoIssuer == "issuer-name" :> ""
Watching == NoIssuer @@ ("runtime-issuance-config-map-name" :> "issuance")

MCCommandLines ==
  {[driver |-> s @@ Annotated, approver |-> s @@ ("driver-service-account" :> MCDriver)] : s \in Shared}
  \cup {[driver |-> o, approver |-> o] : o \in Odd}
  \cup {[driver |-> Watching, approver |-> Watching],
        [driver |-> NoIssuer, approver |-> NoIssuer],
        [driver |-> Own, approver |-> Own],
        [driver |-> TrustDomain("foo.bar/a") @@ Own, approver |-> TrustDomain("foo.bar/a") @@ Own],
        [driver |-> Duration(30), approver |-> <<>>]}

MCIssuerRefs == {[Name |-> n, Kind |-> "Issuer", Group |-> "cert-manager.io"] : n \in {"", "i1"}}

Token(p, ns, sa) == [parses |-> p, ns |-> ns, sa |-> sa]
MCTokens == {Token(TRUE, "a", "b"), Token(FALSE, "a", "b"), Token(TRUE, "", "b"), Token(TRUE, "a", "")}

Name(t) == [tag |-> t, proper |-> TRUE]
Uri(u) == [tag |-> "uri", proper |-> TRUE, uri |-> u]

\* A URI, others that differ from it in one part, names of other types, and one
\* with the number of a URI but of another class.
Good == Parse(SpiffeID("foo.bar", "ns1", "sa1"))
Prints(s) == [Good EXCEPT !.string = s]
Names ==
  {Uri(u) : u \in {Good, Parse(SpiffeID("foo.bar", "ns1", "sa2")), Parse(SpiffeID("other.domain", "ns1", "sa1")),
                   Parse(SpiffeID("foo.bar/a", "ns1", "sa1")),
                   [Prints([https |-> "foo.bar"]) EXCEPT !.scheme = "https"], Prints([query |-> "x"])}}
  \cup {Name(t) : t \in {"dns", "ip", "email", "other"}}
  \cup {[tag |-> "uri", proper |-> FALSE]}
NameLists == {<<>>} \cup {<<n>> : n \in Names} \cup {<<n, m>> : n, m \in Names}

Requester == ServiceAccount("ns1", "sa1")
Usernames == {Requester, ServiceAccount("ns1", "sa2"), MCDriver, <<"system", "node", "ns1", "sa1">>,
              <<"admin">>, Append(Requester, "x")}

Usages == {requiredUsages, <<"server auth", "client auth", "digital signature", "key encipherment">>,
           Tail(requiredUsages), Append(requiredUsages, "signing"),
           Append(requiredUsages, "server auth"),
           <<"key encipherment", "digital signature", "client auth", "client auth">>, <<>>}

Base ==
  [ csr |-> [ wellFormed |-> TRUE, signatureValid |-> TRUE, commonName |-> FALSE,
              names |-> <<Uri(Good)>>, keyUsage |-> None, extKeyUsage |-> None,
              otherExtensions |-> {}, malformed |-> {} ],
    duration |-> 60, isCA |-> FALSE, usages |-> requiredUsages, username |-> Requester ]

\* Who asks for which names.
Identities ==
  {[Base EXCEPT !.csr.names = n, !.username = u] : n \in NameLists, u \in Usernames}

\* All key usages there are, encoded as usual, and all bytes of four that differ
\* from what is allowed in one or two bits.
Allowed == <<Bits(3), Bits(2), Bits(7), {5, 7}>>
Values ==
  {EncodeKeyUsage(k) : k \in SUBSET (0..8)}
  \cup {[Allowed EXCEPT ![p] = (@ \ {b, c}) \cup ({b, c} \ @)] : p \in 1..4, b, c \in 0..7}
  \cup {<<>>, <<Bits(3), Bits(1), Bits(0)>>, Append(Allowed, {})}

\* Key usages, and some with extended ones, other extensions and malformed ones.
Extensions ==
  {[Base EXCEPT !.csr.keyUsage = k] : k \in Values}
  \cup
  {[Base EXCEPT !.csr.keyUsage = k, !.csr.extKeyUsage = x, !.csr.otherExtensions = o, !.csr.malformed = m] :
     k \in {None} \cup {EncodeKeyUsage(us) : us \in {{}, {0, 2}, {5}}},
     x \in {None, {}, {"client auth", "server auth"}, {"server auth", "any"}},
     o \in {{}, {"basic constraints"}},
     m \in {{}, {"san"}, {"extended key usage"}}}

\* The fields of the CertificateRequest, and the rest of the CSR.
Specs ==
  {[Base EXCEPT !.duration = d0, !.isCA = ca, !.usages = s] :
     d0 \in {None, 0, 30, 60, 61}, ca \in BOOLEAN, s \in Usages}
  \cup
  {[Base EXCEPT !.csr.wellFormed = w, !.csr.signatureValid = s, !.csr.commonName = c] :
     w, s, c \in BOOLEAN}

MCForeign == Identities \cup Extensions \cup Specs
=============================================================================
