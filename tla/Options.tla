-------------------------------- MODULE Options --------------------------------
(***************************************************************************)
(* The command lines of the driver and the approver and what their options *)
(* packages make of them.                                                  *)
(*                                                                         *)
(* A command line is a function from the flags given to their values; a    *)
(* flag that is not given has its default, which each program declares for *)
(* itself.  Flags that only say where to listen, store or log are left     *)
(* out.  Durations are in minutes, custom annotations the set of keys.     *)
(* auto-approve-non-spiffe is a constant of Approver, the only reader.     *)
(***************************************************************************)
EXTENDS Naturals

Hour == 60

\* The value of a flag once the command line has been parsed.
Flag(cl, name, default) == IF name \in DOMAIN cl THEN cl[name] ELSE default

-----------------------------------------------------------------------------
(* csi/app/options *)

addDriverFlags(cl) ==
  [ UseOwnServiceAccount |-> Flag(cl, "use-own-service-account", FALSE) ]

addCertManagerFlags(cl) ==
  [ IssuanceConfigMapName         |-> Flag(cl, "runtime-issuance-config-map-name", ""),
    TrustDomain                   |-> Flag(cl, "trust-domain", "cluster.local"),
    CertificateRequestDuration    |-> Flag(cl, "certificate-request-duration", Hour),
    CertificateRequestAnnotations |-> Flag(cl, "extra-certificate-request-annotations", {}),
    IssuerRef |-> [ Name  |-> Flag(cl, "issuer-name", "my-spiffe-ca"),
                    Kind  |-> Flag(cl, "issuer-kind", "ClusterIssuer"),
                    Group |-> Flag(cl, "issuer-group", "cert-manager.io") ] ]

addVolumeFlags(cl) ==
  [ CertificateFileName |-> Flag(cl, "file-name-certificate", "tls.crt"),
    KeyFileName         |-> Flag(cl, "file-name-key", "tls.key"),
    CAFileName          |-> Flag(cl, "file-name-ca", "ca.crt"),
    SourceCABundleFile  |-> Flag(cl, "source-ca-bundle", "") ]

DriverOptions(cl) ==
  [ Driver      |-> addDriverFlags(cl),
    CertManager |-> addCertManagerFlags(cl),
    Volume      |-> addVolumeFlags(cl) ]

-----------------------------------------------------------------------------
(* approver/app/options *)

\* Mutation: the approver's default is not the driver's.
DurationFlagHalfHour(cl) == Flag(cl, "certificate-request-duration", Hour \div 2)

DurationFlag(cl) == Flag(cl, "certificate-request-duration", Hour)

\* A user name, here that of the driver, is the sequence of its parts.
ApproverOptions(cl) ==
  [ IssuanceConfigMapName      |-> Flag(cl, "runtime-issuance-config-map-name", ""),
    TrustDomain                |-> Flag(cl, "trust-domain", "cluster.local"),
    CertificateRequestDuration |-> DurationFlag(cl),
    UseOwnServiceAccount       |-> Flag(cl, "use-own-service-account", FALSE),
    DriverServiceAccount       |-> Flag(cl, "driver-service-account", <<>>),
    IssuerRef |-> [ Name  |-> Flag(cl, "issuer-name", "my-spiffe-ca"),
                    Kind  |-> Flag(cl, "issuer-kind", "ClusterIssuer"),
                    Group |-> Flag(cl, "issuer-group", "cert-manager.io") ] ]
=============================================================================
