---------------------------- MODULE CADistribution ----------------------------
(***************************************************************************)
(* The two writers of a volume of csi-driver-spiffe and the store they     *)
(* share: driver.writeKeypair, called by the csi-lib manager with a newly  *)
(* issued certificate, and camanager.updateRootCAFiles, the update pass of *)
(* CAManager.  Nothing orders the two; every call of the store below is a  *)
(* step of its own.                                                        *)
(*                                                                         *)
(* The store (csi-lib storage.Filesystem) is external.  WriteFiles         *)
(* replaces the contents of a volume by the given files in one step, which *)
(* is why updateRootCAFiles writes back a certificate and key it has read; *)
(* operations on a volume that is gone fail.                               *)
(***************************************************************************)
EXTENDS CAManager, Options

CONSTANTS
  Volume,
  CommandLine,           \* of the driver
  Absent,                \* there is no such file
  IOErrors,              \* may calls of the store fail for no reason seen here?
  MaxIssue               \* bound on the certificates issued to a volume

\* driver.Options: the file names
VolumeOptions == addVolumeFlags(CommandLine)
OptCertFile == VolumeOptions.CertificateFileName
OptKeyFile  == VolumeOptions.KeyFileName
OptCAFile   == VolumeOptions.CAFileName

-----------------------------------------------------------------------------
(* File names as New sets them: the Driver has defaults, the camanager gets  *)
(* the options as they are, and nothing assigns the Driver's CA file name.   *)

OrDefault(name, default) == IF name = "" THEN default ELSE name

drvCertFile == OrDefault(OptCertFile, "tls.crt")
drvKeyFile  == OrDefault(OptKeyFile, "tls.key")
drvCAFile   == "ca.crt"

FileName == {drvCertFile, drvKeyFile, drvCAFile, OptCertFile, OptKeyFile, OptCAFile}

\* The certificate or key that volume v was issued with its n-th request.
Data(kind, v, n) == [kind |-> kind, vol |-> v, gen |-> n]
KeyData == {Data(k, v, n) : k \in {"cert", "key"}, v \in Volume, n \in 1..MaxIssue}
Content == KeyData \cup Bundle \cup {Absent}

ASSUME DistAssumption ==
  /\ HasRootCAs <=> VolumeOptions.SourceCABundleFile # ""
  /\ IOErrors \in BOOLEAN
  /\ MaxIssue \in Nat
  /\ Absent \notin KeyData \cup Bundle

Empty == [f \in FileName |-> Absent]

\* The contents WriteFiles leaves behind.
WriteFiles(cert, certData, key, keyData, ca, caData) ==
  [f \in FileName |-> CASE f = cert -> certData
                        [] f = key  -> keyData
                        [] f = ca   -> caData
                        [] OTHER    -> Absent]

VARIABLES
  life,                  \* of a volume: "new", "registered" or "gone"
  files,                 \* what each volume holds
  issuer,                \* where writeKeypair is, for each volume
  gen,                   \* the last certificate issued to each volume
  heldCA,                \* the bundle writeKeypair has read and will write
  nextIssuance,          \* NextIssuanceTime in the metadata: of which certificate
  upd,                   \* the running update pass
  raced,                 \* volumes renewed while the pass was rewriting them
  late                   \* volumes renewed with a bundle replaced meanwhile

volVars == <<life, files, gen, nextIssuance>>
issuerVars == <<issuer, heldCA>>
watchVars == <<raced, late>>
distVars == <<volVars, issuerVars, watchVars, upd>>
vars == <<mgrVars, distVars>>

NoPass == [step |-> "none", todo |-> {}, vol |-> Absent, cert |-> Absent, key |-> Absent, ca |-> Absent]

TypeOK ==
  /\ MgrTypeOK
  /\ life \in [Volume -> {"new", "registered", "gone"}]
  /\ files \in [Volume -> [FileName -> Content]]
  /\ issuer \in [Volume -> {"idle", "write", "meta"}]
  /\ gen \in [Volume -> 0..MaxIssue]
  /\ heldCA \in [Volume -> Bundle \cup {Absent}]
  /\ nextIssuance \in [Volume -> 0..MaxIssue]
  /\ upd \in [step : {"none", "list", "meta", "cert", "key", "ca", "capture", "write"},
              todo : SUBSET Volume, vol : Volume \cup {Absent},
              cert : Content, key : Content, ca : Content]
  /\ upd.step = "none" <=> pc # "update"
  /\ raced \subseteq Volume /\ late \subseteq Volume

Init ==
  /\ MgrInit
  /\ life = [v \in Volume |-> "new"]
  /\ files = [v \in Volume |-> Empty]
  /\ issuer = [v \in Volume |-> "idle"]
  /\ gen = [v \in Volume |-> 0]
  /\ heldCA = [v \in Volume |-> Absent]
  /\ nextIssuance = [v \in Volume |-> 0]
  /\ upd = NoPass
  /\ raced = {} /\ late = {}

Registered(v) == life[v] = "registered"
Issued(v) == \E f \in FileName : files[v][f] # Absent

-----------------------------------------------------------------------------
(* csi-lib: a pod's volume is published, and unpublished (external).         *)

Register(v) ==
  /\ life[v] = "new"
  /\ life' = [life EXCEPT ![v] = "registered"]
  /\ UNCHANGED <<mgrVars, files, gen, nextIssuance, issuerVars, watchVars, upd>>

Unpublish(v) ==
  /\ Registered(v)
  /\ issuer[v] = "idle"
  /\ life' = [life EXCEPT ![v] = "gone"]
  /\ files' = [files EXCEPT ![v] = Empty]
  /\ UNCHANGED <<mgrVars, gen, nextIssuance, issuerVars, watchVars, upd>>

-----------------------------------------------------------------------------
(* driver.writeKeypair *)

\* Mutation: the next issuance time is recorded before the files are written.
IssueRecordsFirst(v) ==
  /\ Registered(v)
  /\ issuer[v] = "idle"
  /\ gen[v] < MaxIssue
  /\ gen' = [gen EXCEPT ![v] = @ + 1]
  /\ nextIssuance' = [nextIssuance EXCEPT ![v] = @ + 1]
  /\ issuer' = [issuer EXCEPT ![v] = "write"]
  /\ heldCA' = [heldCA EXCEPT ![v] = IF HasRootCAs THEN certificatesPEM ELSE Absent]
  /\ UNCHANGED <<mgrVars, life, files, watchVars, upd>>

\* Mutation: the root CAs are left out.
IssueWithoutCA(v) ==
  /\ Registered(v)
  /\ issuer[v] = "idle"
  /\ gen[v] < MaxIssue
  /\ gen' = [gen EXCEPT ![v] = @ + 1]
  /\ issuer' = [issuer EXCEPT ![v] = "write"]
  /\ UNCHANGED <<mgrVars, life, files, heldCA, nextIssuance, watchVars, upd>>

\* The manager has a new certificate for the volume and calls writeKeypair,
\* which computes the next issuance time and reads the root CAs.
Issue(v) ==
  /\ Registered(v)
  /\ issuer[v] = "idle"
  /\ gen[v] < MaxIssue
  /\ gen' = [gen EXCEPT ![v] = @ + 1]
  /\ issuer' = [issuer EXCEPT ![v] = "write"]
  /\ heldCA' = [heldCA EXCEPT ![v] = IF HasRootCAs THEN certificatesPEM ELSE Absent]
  /\ UNCHANGED <<mgrVars, life, files, nextIssuance, watchVars, upd>>

\* The update pass has read the volume's certificate and will write it back.
Rewriting(v) == upd.step \in {"key", "ca", "capture", "write"} /\ upd.vol = v

\* Mutation: the key of the previous certificate is written.
WriteKeypairOldKey(v) ==
  /\ issuer[v] = "write"
  /\ files' = [files EXCEPT ![v] =
       WriteFiles(drvCertFile, Data("cert", v, gen[v]), drvKeyFile,
                  Data("key", v, IF gen[v] = 1 THEN 1 ELSE gen[v] - 1), drvCAFile, heldCA[v])]
  /\ issuer' = [issuer EXCEPT ![v] = "meta"]
  /\ UNCHANGED <<mgrVars, life, gen, heldCA, nextIssuance, watchVars, upd>>

WriteKeypair(v) ==
  /\ issuer[v] = "write"
  /\ files' = [files EXCEPT ![v] =
       WriteFiles(drvCertFile, Data("cert", v, gen[v]), drvKeyFile, Data("key", v, gen[v]),
                  drvCAFile, heldCA[v])]
  /\ issuer' = [issuer EXCEPT ![v] = "meta"]
  /\ raced' = IF Rewriting(v) THEN raced \cup {v} ELSE raced \ {v}
  /\ late' = IF Issued(v) /\ heldCA[v] # certificatesPEM THEN late \cup {v} ELSE late \ {v}
  /\ UNCHANGED <<mgrVars, life, gen, heldCA, nextIssuance, upd>>

WriteMetadata(v) ==
  /\ issuer[v] = "meta"
  /\ nextIssuance' = [nextIssuance EXCEPT ![v] = gen[v]]
  /\ issuer' = [issuer EXCEPT ![v] = "idle"]
  /\ heldCA' = [heldCA EXCEPT ![v] = Absent]
  /\ UNCHANGED <<mgrVars, life, files, gen, watchVars, upd>>

\* WriteFiles or WriteMetadata fails: writeKeypair returns the error.
IssueFails(v) ==
  /\ IOErrors
  /\ issuer[v] # "idle"
  /\ issuer' = [issuer EXCEPT ![v] = "idle"]
  /\ heldCA' = [heldCA EXCEPT ![v] = Absent]
  /\ UNCHANGED <<mgrVars, volVars, watchVars, upd>>

-----------------------------------------------------------------------------
(* camanager.updateRootCAFiles: the pass is at volume upd.vol, and has not    *)
(* been at those in upd.todo.  Nothing relies on the order of ListVolumes.    *)

\* A step inside the pass.
InPass(step) == upd.step = step /\ UNCHANGED <<mgrVars, life, gen, nextIssuance, issuerVars>>

BeginPass ==
  /\ RecvUpdate
  /\ upd' = [NoPass EXCEPT !.step = "list"]
  /\ UNCHANGED <<volVars, issuerVars, watchVars>>

ListVolumes ==
  /\ InPass("list")
  /\ upd' = [upd EXCEPT !.step = "meta", !.todo = {v \in Volume : Registered(v)}]
  /\ UNCHANGED <<files, watchVars>>

\* ReadMetadata of the next volume.
NextVolume ==
  /\ InPass("meta")
  /\ \E v \in upd.todo :
       Registered(v) /\ upd' = [upd EXCEPT !.step = "cert", !.vol = v, !.todo = @ \ {v}]
  /\ UNCHANGED <<files, watchVars>>

\* ReadFile of the certificate, then of the key.
ReadCert ==
  /\ InPass("cert")
  /\ files[upd.vol][OptCertFile] # Absent
  /\ upd' = [upd EXCEPT !.step = "key", !.cert = files[upd.vol][OptCertFile]]
  /\ UNCHANGED <<files, watchVars>>

ReadKey ==
  /\ InPass("key")
  /\ files[upd.vol][OptKeyFile] # Absent
  /\ upd' = [upd EXCEPT !.step = "ca", !.key = files[upd.vol][OptKeyFile]]
  /\ UNCHANGED <<files, watchVars>>

\* On to the next volume.
Advance == upd' = [NoPass EXCEPT !.step = "meta", !.todo = upd.todo]

\* Mutation: a volume that has any root CAs is left alone.
CompareAnyCA ==
  /\ InPass("ca")
  /\ \/ files[upd.vol][OptCAFile] # Absent /\ Advance
     \/ /\ files[upd.vol][OptCAFile] = Absent \/ IOErrors
        /\ upd' = [upd EXCEPT !.step = "capture"]
  /\ UNCHANGED <<files, watchVars>>

\* ReadFile of the root CAs: a volume that has the current ones is left alone, and
\* one whose file can not be read is written.
CompareCA ==
  /\ InPass("ca")
  /\ \/ files[upd.vol][OptCAFile] = certificatesPEM /\ Advance
     \/ /\ files[upd.vol][OptCAFile] # certificatesPEM \/ IOErrors
        /\ upd' = [upd EXCEPT !.step = "capture"]
  /\ UNCHANGED <<files, watchVars>>

CaptureCA ==
  /\ InPass("capture")
  /\ upd' = [upd EXCEPT !.step = "write", !.ca = certificatesPEM]
  /\ UNCHANGED <<files, watchVars>>

\* Mutation: the certificate and key are not written back.
WriteOnlyCA ==
  /\ InPass("write")
  /\ Registered(upd.vol)
  /\ files' = [files EXCEPT ![upd.vol] = [Empty EXCEPT ![OptCAFile] = upd.ca]]
  /\ late' = late \ {upd.vol}
  /\ Advance
  /\ UNCHANGED raced

\* WriteFiles with the certificate and key read before.
WriteCA ==
  /\ InPass("write")
  /\ Registered(upd.vol)
  /\ files' = [files EXCEPT ![upd.vol] =
       WriteFiles(OptCertFile, upd.cert, OptKeyFile, upd.key, OptCAFile, upd.ca)]
  /\ late' = late \ {upd.vol}
  /\ Advance
  /\ UNCHANGED raced

EndPass ==
  /\ upd.step = "meta" /\ upd.todo = {}
  /\ UpdateOK
  /\ upd' = NoPass
  /\ UNCHANGED <<volVars, issuerVars, watchVars>>

\* What makes the pass stop with an error: the volume is gone, or it has not
\* been issued a certificate yet.
CannotGoOn ==
  \/ upd.step = "meta" /\ \E v \in upd.todo : ~Registered(v)
  \/ upd.step = "cert" /\ files[upd.vol][OptCertFile] = Absent
  \/ upd.step = "key" /\ files[upd.vol][OptKeyFile] = Absent
  \/ upd.step = "write" /\ ~Registered(upd.vol)

\* The next step of the pass is a call of the store whose error ends it.
CallsStore ==
  \/ upd.step \in {"list", "cert", "key", "write"}
  \/ upd.step = "meta" /\ upd.todo # {}

\* Mutation: a pass that stops early counts as a success.
AbandonPass ==
  /\ CannotGoOn
  /\ UpdateOK
  /\ upd' = NoPass
  /\ UNCHANGED <<volVars, issuerVars, watchVars>>

\* Mutation: the error is reported but the pass goes on.
AbortPassGoesOn ==
  /\ CannotGoOn \/ (IOErrors /\ CallsStore)
  /\ UpdateFail
  /\ UNCHANGED <<upd, volVars, issuerVars, watchVars>>

\* Mutation: the pass is given up without a retry.
AbortPassNoRetry ==
  /\ CannotGoOn \/ (IOErrors /\ CallsStore)
  /\ UpdateFailNoRetry
  /\ upd' = NoPass
  /\ UNCHANGED <<volVars, issuerVars, watchVars>>

\* The first error ends the whole pass.
AbortPass ==
  /\ CannotGoOn \/ (IOErrors /\ CallsStore)
  /\ UpdateFail
  /\ upd' = NoPass
  /\ UNCHANGED <<volVars, issuerVars, watchVars>>

-----------------------------------------------------------------------------
\* The steps of run() outside a pass, its retries and the provider.
LoopStep ==
  /\ \/ Start \/ RecvWatcher \/ Send \/ Done
     \/ RetryStep \/ Cancel
     \/ \E b \in Bundle : Rotate(b)
  /\ UNCHANGED distVars

\* The process dies; the volumes stay as they are.
Restart(b) ==
  /\ MgrRestart(b)
  /\ issuer' = [v \in Volume |-> "idle"]
  /\ heldCA' = [v \in Volume |-> Absent]
  /\ upd' = NoPass
  /\ UNCHANGED <<volVars, watchVars>>

PassStep ==
  \/ BeginPass \/ ListVolumes \/ NextVolume \/ ReadCert \/ ReadKey
  \/ CompareCA \/ CaptureCA \/ WriteCA \/ EndPass \/ AbortPass

IssuerStep(v) == Issue(v) \/ WriteKeypair(v) \/ WriteMetadata(v) \/ IssueFails(v)

Next ==
  \/ LoopStep
  \/ PassStep
  \/ \E v \in Volume : IssuerStep(v) \/ Register(v) \/ Unpublish(v)
  \/ \E b \in Bundle : Restart(b)

Spec == Init /\ [][Next]_vars

\* The goroutines of the process keep running, as in MgrFairness; a call of
\* writeKeypair that has begun ends.
ProcessFairness ==
  /\ WF_vars(PassStep)
  /\ WF_vars((Start \/ Send) /\ UNCHANGED distVars)
  /\ SF_vars(RecvWatcher /\ UNCHANGED distVars)
  /\ SF_vars(BeginPass)
  /\ SF_vars(Done /\ UNCHANGED distVars)
  /\ WF_vars(TimerFires /\ UNCHANGED distVars)
  /\ SF_vars(RetrySend /\ UNCHANGED distVars)
  /\ \A v \in Volume : WF_vars(WriteKeypair(v) \/ WriteMetadata(v))

FairSpec == Spec /\ ProcessFairness

\* In addition every volume is issued a certificate in the end.
IssuedSpec == FairSpec /\ \A v \in Volume : WF_vars(Issue(v))

-----------------------------------------------------------------------------
(* Properties *)

IsPair(v) ==
  \E n \in 1..MaxIssue :
    /\ files[v][drvCertFile] = Data("cert", v, n)
    /\ files[v][drvKeyFile] = Data("key", v, n)

\* A pod finds a private key that belongs to its certificate, its own and not
\* another volume's, unless it was renewed while updateRootCAFiles was between
\* reading its certificate and writing it back.
PairIntact == \A v \in Volume : Issued(v) /\ v \notin raced => IsPair(v)

\* A pod always finds a private key that belongs to its certificate.
AlwaysPair == \A v \in Volume : Issued(v) => IsPair(v)

\* The certificate on file is the one that the next issuance time was computed
\* for, or a newer one.
RenewalKnown(v) ==
  Issued(v) => \E n \in nextIssuance[v]..MaxIssue :
                  files[v][drvCertFile] = Data("cert", v, n)

\* Whatever fails in between, a renewal is scheduled for the certificate on
\* file, with the exception that PairIntact names.
RenewalScheduled == \A v \in Volume : v \notin raced => RenewalKnown(v)

\* A volume that has been written has its certificate, key and root CAs under
\* the names configured, whoever wrote it last.
FilesComplete ==
  \A v \in Volume : Issued(v) =>
    /\ files[v][drvCertFile] # Absent
    /\ files[v][drvKeyFile] # Absent
    /\ HasRootCAs => files[v][OptCAFile] # Absent

\* Nothing is under way that would write a volume's root CAs.
AtRest ==
  /\ pc = "select" /\ ~cancelled /\ InFlight = 0
  /\ \A v \in Volume : issuer[v] = "idle"

HasCurrentCA(v) == files[v][OptCAFile] = certificatesPEM

\* At rest every issued volume has the root CAs served, however rotations,
\* issuances, failures and retries were interleaved.  Two exceptions: a
\* rotation that no pass follows because run() was not there to hear of it, and
\* a volume renewed with a bundle that was replaced between writeKeypair's
\* reading it and writing it.
CurrentAtRest ==
  AtRest /\ ~unheard => \A v \in Volume : Issued(v) /\ v \notin late => HasCurrentCA(v)

\* A volume with outdated root CAs gets the current ones, with the exceptions of
\* CurrentAtRest, and unless run() is shut down or waits for itself.
VolumesFollow ==
  \A v \in Volume :
    (Issued(v) /\ ~HasCurrentCA(v)) ~>
      (~Issued(v) \/ HasCurrentCA(v) \/ v \in late \/ unheard \/ cancelled \/ SelfBlocked)

\* Seen from run(), the passes over the volumes are those of CAManager.
ImplementsManager == MgrSpec
=============================================================================
