------------------------ MODULE CADistributionProofs ------------------------
(***************************************************************************)
(* Theorems about the two writers of a volume, for every set of volumes    *)
(* and bundles, any number of issuances, and any interleaving of           *)
(* writeKeypair, the steps of updateRootCAFiles, failures and restarts.    *)
(***************************************************************************)
EXTENDS CADistribution, CAManagerProofs

\* The certificate and key have names of their own, which both writers use.
\* OptCertFile and OptKeyFile are empty only if the flags are set to "".
PairNames ==
  /\ OptCertFile # "" /\ OptKeyFile # "" /\ OptCertFile # OptKeyFile
  /\ {drvCAFile, OptCAFile} \cap {OptCertFile, OptKeyFile} = {}

\* file-name-ca has its default: CADistFileName shows what happens otherwise.
CAName == OptCAFile = drvCAFile

-----------------------------------------------------------------------------
(* Volumes: what issuing, unpublishing and the update pass keep.             *)

\* The certificate and key on file were issued together, and the next issuance
\* time is not that of a later certificate.
Paired(v) ==
  \E n \in 1..MaxIssue :
    /\ files[v][drvCertFile] = Data("cert", v, n)
    /\ files[v][drvKeyFile] = Data("key", v, n)
    /\ nextIssuance[v] <= n

IssuerInv ==
  \A v \in Volume :
    /\ issuer[v] # "idle" => Registered(v)
    /\ issuer[v] = "write" /\ HasRootCAs => heldCA[v] \in Bundle
    /\ nextIssuance[v] <= gen[v]

\* What the pass has read: nothing is missing, and unless the volume was renewed
\* meanwhile it is still what the volume holds.
PassInv ==
  /\ upd.step \in {"cert", "key", "ca", "capture", "write"} => life[upd.vol] # "new"
  /\ upd.step \in {"key", "ca", "capture", "write"} =>
       /\ upd.cert # Absent
       /\ Registered(upd.vol) /\ upd.vol \notin raced => upd.cert = files[upd.vol][drvCertFile]
  /\ upd.step \in {"ca", "capture", "write"} =>
       /\ upd.key # Absent
       /\ Registered(upd.vol) /\ upd.vol \notin raced => upd.key = files[upd.vol][drvKeyFile]
  /\ upd.step = "write" => upd.ca \in Bundle

WellKept(v) ==
  /\ Issued(v) => Registered(v) /\ files[v][drvCertFile] # Absent /\ files[v][drvKeyFile] # Absent
  /\ Issued(v) /\ v \notin raced => Paired(v)
  /\ issuer[v] = "meta" /\ v \notin raced => files[v][drvCertFile] = Data("cert", v, gen[v])

FilesInv == \A v \in Volume : WellKept(v)

\* Every volume written has root CAs.
HasCA == HasRootCAs => \A v \in Volume : Issued(v) => files[v][OptCAFile] # Absent

-----------------------------------------------------------------------------
(* The root CAs on the volumes.                                              *)

\* The volume has the root CAs served, or gets them with its first certificate.
Fresh(v) ==
  /\ Issued(v) /\ v \notin late => HasCurrentCA(v)
  /\ issuer[v] = "write" /\ ~Issued(v) => heldCA[v] = certificatesPEM

\* The pass still has to come to v, or is at it.
Ahead(v) == v \in upd.todo \/ (upd.step # "meta" /\ v = upd.vol)

\* Unless a bundle went unheard: volumes are fresh when no notified bundle waits
\* to be distributed, and those behind a pass that no rotation has overtaken
\* are fresh in any case.
CAInv ==
  HasRootCAs /\ ~unheard =>
    /\ ~stale => \A v \in Volume : Fresh(v)
    /\ pc = "update" /\ ~passStale /\ upd.step # "list" =>
         \A v \in Volume : Fresh(v) \/ Ahead(v)
    /\ upd.step = "write" /\ ~passStale => upd.ca = certificatesPEM

-----------------------------------------------------------------------------
(* Every step is a step of the manager or leaves it alone.                   *)

LEMMA StepOfManager == [Next]_vars => [MgrNext]_mgrVars
<1> SUFFICES ASSUME [Next]_vars PROVE [MgrNext]_mgrVars
  OBVIOUS
<1>1. CASE LoopStep
  BY <1>1 DEF LoopStep, MgrNext, RunStep
<1>2. CASE PassStep
  <2>1. CASE BeginPass \/ EndPass \/ AbortPass
    BY <2>1 DEF BeginPass, EndPass, AbortPass, MgrNext, RunStep
  <2>2. CASE ListVolumes \/ NextVolume \/ ReadCert \/ ReadKey \/ CompareCA \/ CaptureCA \/ WriteCA
    BY <2>2 DEF ListVolumes, NextVolume, ReadCert, ReadKey, CompareCA, CaptureCA, WriteCA, InPass
  <2> QED BY <1>2, <2>1, <2>2 DEF PassStep
<1>3. ASSUME NEW v \in Volume, IssuerStep(v) \/ Register(v) \/ Unpublish(v)
      PROVE  UNCHANGED mgrVars
  BY <1>3 DEF IssuerStep, Issue, WriteKeypair, WriteMetadata, IssueFails, Register, Unpublish
<1>4. CASE \E b \in Bundle : Restart(b)
  BY <1>4 DEF Restart, MgrNext
<1>5. CASE UNCHANGED vars
  BY <1>5 DEF vars
<1> QED BY <1>1, <1>2, <1>3, <1>4, <1>5 DEF Next

\* Seen from run(), the passes over the volumes with their many steps are those
\* of CAManager: what is proved about run() holds of the whole.
THEOREM ManagerImplemented == Spec => ImplementsManager
<1>1. Init => MgrInit
  BY DEF Init
<1> QED BY <1>1, StepOfManager, PTL DEF Spec, MgrSpec, ImplementsManager

LEMMA ManagerInvariants == Spec => [](MgrTypeOK /\ Listening /\ TriggerInv /\ InLoop)
BY ManagerImplemented, MgrTypeCorrect, ListeningInvariant, TriggerInvariant, InLoopInvariant, PTL
   DEF ImplementsManager

-----------------------------------------------------------------------------
LEMMA WriteFilesType ==
  ASSUME NEW cert \in Content, NEW key \in Content, NEW ca \in Content, NEW c, NEW k, NEW a
  PROVE  WriteFiles(c, cert, k, key, a, ca) \in [FileName -> Content]
BY DEF WriteFiles, Content

LEMMA EmptyType == Empty \in [FileName -> Content]
BY DEF Empty, Content

LEMMA OptionNames ==
  {OptCertFile, OptKeyFile, OptCAFile, drvCertFile, drvKeyFile, drvCAFile} \subseteq FileName
BY DEF FileName

\* The conjuncts of TypeOK, with what keeps them inductive: the pass is at a
\* volume, and a running writeKeypair has a certificate.
VolumeTypes ==
  /\ life \in [Volume -> {"new", "registered", "gone"}]
  /\ files \in [Volume -> [FileName -> Content]]
  /\ nextIssuance \in [Volume -> 0..MaxIssue]
  /\ raced \subseteq Volume /\ late \subseteq Volume

IssuerTypes ==
  /\ issuer \in [Volume -> {"idle", "write", "meta"}]
  /\ gen \in [Volume -> 0..MaxIssue]
  /\ heldCA \in [Volume -> Bundle \cup {Absent}]
  /\ \A v \in Volume : issuer[v] # "idle" => gen[v] \in 1..MaxIssue

PassTypes ==
  /\ upd \in [step : {"none", "list", "meta", "cert", "key", "ca", "capture", "write"},
              todo : SUBSET Volume, vol : Volume \cup {Absent},
              cert : Content, key : Content, ca : Content]
  /\ upd.step \in {"cert", "key", "ca", "capture", "write"} => upd.vol \in Volume

Busy == upd.step = "none" <=> pc # "update"

DistTypes == VolumeTypes /\ IssuerTypes /\ PassTypes /\ Busy

LEMMA MaxIssueNat == MaxIssue \in Nat
BY DistAssumption DEF DistAssumption

\* What a step of run() outside a pass leaves alone.
LEMMA LoopSteps == LoopStep => UNCHANGED distVars /\ (pc' = "update" <=> pc = "update")
BY DEF LoopStep, Start, RecvWatcher, Send, Done, RetryStep, TimerFires, RetrySend,
       RetryCancelled, Cancel, Rotate, loopVars

\* What a step inside a pass leaves alone.
InsidePass == ListVolumes \/ NextVolume \/ ReadCert \/ ReadKey \/ CompareCA \/ CaptureCA \/ WriteCA

LEMMA InsideSteps ==
  InsidePass => UNCHANGED <<mgrVars, pc, certificatesPEM, life, gen, nextIssuance, issuer, heldCA,
                            raced>>
BY DEF InsidePass, ListVolumes, NextVolume, ReadCert, ReadKey, CompareCA, CaptureCA, WriteCA,
       InPass, issuerVars, watchVars, mgrVars, loopVars, rootVars

LEMMA PassEnds ==
  BeginPass \/ EndPass \/ AbortPass =>
    UNCHANGED <<life, files, gen, nextIssuance, issuer, heldCA, raced, late, certificatesPEM>>
BY DEF BeginPass, EndPass, AbortPass, RecvUpdate, UpdateOK, UpdateFail, volVars, issuerVars,
       watchVars, rootVars

LEMMA IssuerSteps ==
  ASSUME NEW v \in Volume, IssuerStep(v) \/ Register(v) \/ Unpublish(v)
  PROVE  UNCHANGED <<mgrVars, pc, certificatesPEM, upd>>
BY DEF IssuerStep, Issue, WriteKeypair, WriteMetadata, IssueFails, Register, Unpublish,
       mgrVars, loopVars, rootVars

LEMMA DistTypesInvariant == Spec => []DistTypes
<1>1. Init /\ MgrTypeOK => DistTypes
  <2> SUFFICES ASSUME Init PROVE DistTypes
    OBVIOUS
  <2>1. VolumeTypes
    BY EmptyType, MaxIssueNat DEF Init, VolumeTypes
  <2>2. IssuerTypes
    BY MaxIssueNat DEF Init, IssuerTypes
  <2>3. PassTypes /\ Busy
    BY DEF Init, MgrInit, PassTypes, Busy, NoPass, Content
  <2> QED BY <2>1, <2>2, <2>3 DEF DistTypes
<1>2. MgrTypeOK /\ DistTypes /\ [Next]_vars => DistTypes'
  <2> SUFFICES ASSUME MgrTypeOK, VolumeTypes, IssuerTypes, PassTypes, Busy, [Next]_vars
               PROVE  VolumeTypes' /\ IssuerTypes' /\ PassTypes' /\ Busy'
    BY DEF DistTypes
  <2>0. certificatesPEM \in Bundle
    BY DEF MgrTypeOK, RootTypeOK
  <2>1. CASE LoopStep
    BY <2>1, LoopSteps DEF VolumeTypes, IssuerTypes, PassTypes, Busy, distVars, volVars,
                           issuerVars, watchVars
  <2>2. CASE BeginPass \/ EndPass \/ AbortPass
    <3>1. VolumeTypes' /\ IssuerTypes'
      BY <2>2, PassEnds DEF VolumeTypes, IssuerTypes
    <3>2. CASE BeginPass
      BY <3>1, <3>2 DEF BeginPass, RecvUpdate, PassTypes, Busy, NoPass, Content
    <3>3. CASE EndPass \/ AbortPass
      BY <3>1, <3>3 DEF EndPass, AbortPass, UpdateOK, UpdateFail, PassTypes, Busy, NoPass, Content
    <3> QED BY <2>2, <3>2, <3>3
  <2>3. CASE InsidePass
    <3>1. IssuerTypes'
      BY <2>3, InsideSteps DEF IssuerTypes
    <3>2. CASE ~WriteCA
      <4>1. VolumeTypes'
        BY <2>3, <3>2, InsideSteps
           DEF InsidePass, ListVolumes, NextVolume, ReadCert, ReadKey, CompareCA, CaptureCA,
               VolumeTypes, watchVars
      <4>2. PassTypes' /\ upd'.step # "none" /\ upd.step # "none"
        <5>1. CASE ListVolumes
          BY <5>1 DEF ListVolumes, InPass, PassTypes
        <5>2. CASE NextVolume
          BY <5>2 DEF NextVolume, InPass, PassTypes
        <5>3. CASE ReadCert \/ ReadKey
          <6>1. files[upd.vol][OptCertFile] \in Content /\ files[upd.vol][OptKeyFile] \in Content
            BY <5>3, OptionNames DEF ReadCert, ReadKey, InPass, PassTypes, VolumeTypes
          <6> QED BY <5>3, <6>1 DEF ReadCert, ReadKey, InPass, PassTypes
        <5>4. CASE CompareCA
          BY <5>4 DEF CompareCA, InPass, Advance, NoPass, PassTypes, Content
        <5>5. CASE CaptureCA
          BY <2>0, <5>5 DEF CaptureCA, InPass, PassTypes, Content
        <5> QED BY <2>3, <3>2, <5>1, <5>2, <5>3, <5>4, <5>5 DEF InsidePass
      <4> QED BY <2>3, <3>1, <4>1, <4>2, InsideSteps DEF Busy
    <3>3. CASE WriteCA
      <4>1. files' \in [Volume -> [FileName -> Content]]
        <5> DEFINE w == WriteFiles(OptCertFile, upd.cert, OptKeyFile, upd.key, OptCAFile, upd.ca)
        <5>1. w \in [FileName -> Content]
          BY WriteFilesType DEF PassTypes
        <5>2. files' = [files EXCEPT ![upd.vol] = w]
          BY <3>3 DEF WriteCA
        <5> HIDE DEF w
        <5> QED BY <5>1, <5>2 DEF VolumeTypes
      <4>2. VolumeTypes'
        BY <2>3, <3>3, <4>1, InsideSteps DEF WriteCA, VolumeTypes
      <4>3. PassTypes' /\ upd'.step # "none" /\ upd.step # "none"
        BY <3>3 DEF WriteCA, InPass, Advance, NoPass, PassTypes, Content
      <4> QED BY <2>3, <3>1, <4>2, <4>3, InsideSteps DEF Busy
    <3> QED BY <3>2, <3>3
  <2>4. ASSUME NEW v \in Volume, Register(v) \/ Unpublish(v)
        PROVE  VolumeTypes' /\ IssuerTypes' /\ PassTypes' /\ Busy'
    <3>1. VolumeTypes'
      BY <2>4, EmptyType DEF Register, Unpublish, VolumeTypes, watchVars
    <3>2. IssuerTypes'
      BY <2>4 DEF Register, Unpublish, IssuerTypes, issuerVars
    <3> QED BY <2>4, <3>1, <3>2, IssuerSteps DEF PassTypes, Busy
  <2>5. ASSUME NEW v \in Volume, IssuerStep(v)
        PROVE  VolumeTypes' /\ IssuerTypes' /\ PassTypes' /\ Busy'
    <3>1. PassTypes' /\ Busy'
      BY <2>5, IssuerSteps DEF PassTypes, Busy
    <3>2. CASE Issue(v)
      <4>1. gen[v] + 1 \in 1..MaxIssue
        BY <3>2, MaxIssueNat DEF Issue, IssuerTypes
      <4>2. heldCA' \in [Volume -> Bundle \cup {Absent}]
        BY <2>0, <3>2 DEF Issue, IssuerTypes
      <4>3. IssuerTypes'
        BY <3>2, <4>1, <4>2 DEF Issue, IssuerTypes
      <4> QED BY <3>1, <3>2, <4>3 DEF Issue, VolumeTypes, watchVars
    <3>3. CASE WriteMetadata(v) \/ IssueFails(v)
      BY <3>1, <3>3 DEF WriteMetadata, IssueFails, VolumeTypes, IssuerTypes, volVars, watchVars
    <3>4. CASE WriteKeypair(v)
      <4>0. gen[v] \in 1..MaxIssue
        BY <3>4 DEF WriteKeypair, IssuerTypes
      <4>1. Data("cert", v, gen[v]) \in Content /\ Data("key", v, gen[v]) \in Content
        BY <4>0 DEF Content, KeyData
      <4>2. heldCA[v] \in Content
        BY DEF IssuerTypes, Content
      <4>3. files' \in [Volume -> [FileName -> Content]]
        <5> DEFINE w == WriteFiles(drvCertFile, Data("cert", v, gen[v]), drvKeyFile,
                                   Data("key", v, gen[v]), drvCAFile, heldCA[v])
        <5>1. w \in [FileName -> Content]
          BY <4>1, <4>2, WriteFilesType
        <5>2. files' = [files EXCEPT ![v] = w]
          BY <3>4 DEF WriteKeypair
        <5> HIDE DEF w
        <5> QED BY <5>1, <5>2 DEF VolumeTypes
      <4>4. VolumeTypes'
        BY <3>4, <4>3 DEF WriteKeypair, VolumeTypes
      <4> QED BY <3>1, <3>4, <4>4 DEF WriteKeypair, IssuerTypes
    <3> QED BY <2>5, <3>2, <3>3, <3>4 DEF IssuerStep
  <2>6. ASSUME NEW b \in Bundle, Restart(b)
        PROVE  VolumeTypes' /\ IssuerTypes' /\ PassTypes' /\ Busy'
    <3>1. VolumeTypes'
      BY <2>6 DEF Restart, VolumeTypes, volVars, watchVars
    <3>2. IssuerTypes'
      BY <2>6 DEF Restart, IssuerTypes, volVars
    <3> QED BY <2>6, <3>1, <3>2 DEF Restart, MgrRestart, PassTypes, Busy, NoPass, Content
  <2>7. CASE UNCHANGED vars
    BY <2>7 DEF vars, mgrVars, loopVars, distVars, volVars, issuerVars, watchVars, VolumeTypes,
                IssuerTypes, PassTypes, Busy
  <2> QED BY <2>1, <2>2, <2>3, <2>4, <2>5, <2>6, <2>7 DEF Next, PassStep, InsidePass
<1> QED BY <1>1, <1>2, ManagerInvariants, PTL DEF Spec

\* The type invariant of the volumes' model.
THEOREM DistTypeCorrect == Spec => []TypeOK
<1>1. MgrTypeOK /\ DistTypes => TypeOK
  BY DEF DistTypes, VolumeTypes, IssuerTypes, PassTypes, Busy, TypeOK
<1> QED BY <1>1, DistTypesInvariant, ManagerInvariants, PTL

-----------------------------------------------------------------------------
LEMMA IssuerInvariant == Spec => []IssuerInv
<1>1. Init => IssuerInv
  BY DEF Init, IssuerInv
<1>2. MgrTypeOK /\ DistTypes /\ IssuerInv /\ [Next]_vars => IssuerInv'
  <2> SUFFICES ASSUME MgrTypeOK, VolumeTypes, IssuerTypes, IssuerInv, [Next]_vars
               PROVE  IssuerInv'
    BY DEF DistTypes
  <2>1. CASE LoopStep
    BY <2>1, LoopSteps DEF IssuerInv, Registered, distVars, volVars, issuerVars
  <2>2. CASE BeginPass \/ EndPass \/ AbortPass
    BY <2>2, PassEnds DEF IssuerInv, Registered
  <2>3. CASE InsidePass
    BY <2>3, InsideSteps DEF IssuerInv, Registered
  <2>4. ASSUME NEW v \in Volume, Register(v) \/ Unpublish(v) PROVE IssuerInv'
    BY <2>4 DEF Register, Unpublish, IssuerInv, Registered, VolumeTypes, issuerVars
  <2>5. ASSUME NEW v \in Volume, IssuerStep(v) PROVE IssuerInv'
    <3>1. CASE Issue(v)
      <4>1. certificatesPEM \in Bundle
        BY DEF MgrTypeOK, RootTypeOK
      <4> QED BY <3>1, <4>1, MaxIssueNat DEF Issue, IssuerInv, Registered, VolumeTypes, IssuerTypes
    <3>2. CASE WriteKeypair(v)
      BY <3>2 DEF WriteKeypair, IssuerInv, Registered, IssuerTypes
    <3>3. CASE WriteMetadata(v)
      BY <3>3, MaxIssueNat DEF WriteMetadata, IssuerInv, Registered, VolumeTypes, IssuerTypes
    <3>4. CASE IssueFails(v)
      BY <3>4 DEF IssueFails, IssuerInv, Registered, IssuerTypes, volVars
    <3> QED BY <2>5, <3>1, <3>2, <3>3, <3>4 DEF IssuerStep
  <2>6. ASSUME NEW b \in Bundle, Restart(b) PROVE IssuerInv'
    BY <2>6 DEF Restart, IssuerInv, Registered, volVars
  <2>7. CASE UNCHANGED vars
    BY <2>7 DEF vars, distVars, volVars, issuerVars, IssuerInv, Registered
  <2> QED BY <2>1, <2>2, <2>3, <2>4, <2>5, <2>6, <2>7 DEF Next, PassStep, InsidePass
<1> QED BY <1>1, <1>2, ManagerInvariants, DistTypesInvariant, PTL DEF Spec

\* What WriteFiles leaves behind, read back by name.
LEMMA Written ==
  ASSUME NEW c \in FileName, NEW k \in FileName, NEW a \in FileName,
         NEW cert, NEW key, NEW ca, c # k, a # c, a # k
  PROVE  /\ WriteFiles(c, cert, k, key, a, ca)[c] = cert
         /\ WriteFiles(c, cert, k, key, a, ca)[k] = key
         /\ WriteFiles(c, cert, k, key, a, ca)[a] = ca
BY DEF WriteFiles

LEMMA SameNames ==
  PairNames => /\ drvCertFile = OptCertFile /\ drvKeyFile = OptKeyFile
               /\ drvCertFile # drvKeyFile
               /\ drvCAFile \notin {drvCertFile, drvKeyFile}
               /\ OptCAFile \notin {drvCertFile, drvKeyFile}
BY DEF PairNames, drvCertFile, drvKeyFile, OrDefault

\* Certificates and keys are not the absence of a file.
LEMMA DataPresent ==
  ASSUME NEW v \in Volume, NEW n \in 1..MaxIssue
  PROVE  Data("cert", v, n) # Absent /\ Data("key", v, n) # Absent
<1>1. Data("cert", v, n) \in KeyData /\ Data("key", v, n) \in KeyData
  BY DEF KeyData
<1> QED BY <1>1, DistAssumption DEF DistAssumption

\* Files that did not change are as issued as before.
LEMMA IssuedKept ==
  ASSUME NEW v \in Volume, files'[v] = files[v]
  PROVE  Issued(v)' <=> Issued(v)
BY DEF Issued

LEMMA EmptyNotIssued == ASSUME NEW v \in Volume, files'[v] = Empty PROVE ~Issued(v)'
BY DEF Issued, Empty

-----------------------------------------------------------------------------
\* How the steps that write no files keep PassInv and FilesInv.
LEMMA FilesKept ==
  ASSUME FilesInv, UNCHANGED <<files, life, raced, nextIssuance>>,
         \A v \in Volume : issuer'[v] = "meta" => issuer[v] = "meta" /\ gen'[v] = gen[v]
  PROVE  FilesInv'
BY DEF FilesInv, WellKept, Issued, Registered, Paired

LEMMA PassKept ==
  ASSUME PassInv, UNCHANGED <<files, life, raced, upd>>
  PROVE  PassInv'
BY DEF PassInv, Registered

LEMMA VolumeInvariant == ASSUME PairNames PROVE Spec => [](PassInv /\ FilesInv)
<1>1. Init => PassInv /\ FilesInv
  BY DEF Init, PassInv, FilesInv, WellKept, NoPass, Issued, Empty
<1>2. MgrTypeOK /\ DistTypes /\ IssuerInv /\ PassInv /\ FilesInv /\ [Next]_vars
        => PassInv' /\ FilesInv'
  <2> SUFFICES ASSUME MgrTypeOK, VolumeTypes, IssuerTypes, PassTypes, IssuerInv, PassInv,
                      FilesInv, [Next]_vars
               PROVE  PassInv' /\ FilesInv'
    BY DEF DistTypes
  <2>1. CASE LoopStep
    <3>1. UNCHANGED distVars
      BY <2>1, LoopSteps
    <3>2. UNCHANGED <<files, life, raced, nextIssuance, issuer, gen, upd>>
      BY <3>1 DEF distVars, volVars, issuerVars, watchVars
    <3> QED BY <3>2, FilesKept, PassKept
  <2>2. CASE BeginPass \/ EndPass \/ AbortPass
    <3>1. FilesInv'
      BY <2>2, PassEnds, FilesKept
    <3>2. upd'.step \in {"none", "list"}
      BY <2>2 DEF BeginPass, EndPass, AbortPass, NoPass
    <3> QED BY <3>1, <3>2 DEF PassInv
  <2>3. CASE InsidePass /\ ~WriteCA
    <3>0. UNCHANGED <<files, life, raced>>
      BY <2>3, InsideSteps DEF InsidePass, ListVolumes, NextVolume, ReadCert, ReadKey, CompareCA,
                               CaptureCA
    <3>1. FilesInv'
      BY <2>3, <3>0, InsideSteps, FilesKept
    <3>2. CASE ListVolumes
      BY <3>2, <3>1 DEF ListVolumes, PassInv, PassTypes
    <3>3. CASE NextVolume
      BY <3>0, <3>1, <3>3 DEF NextVolume, PassInv, PassTypes, Registered
    <3>4. CASE ReadCert
      <4>1. /\ upd.step = "cert" /\ upd'.step = "key" /\ upd'.vol = upd.vol
            /\ upd'.cert = files[upd.vol][OptCertFile] /\ upd'.cert # Absent
        BY <3>4 DEF ReadCert, InPass, PassTypes
      <4> QED BY <3>0, <3>1, <4>1, SameNames DEF PassInv
    <3>5. CASE ReadKey
      <4>1. /\ upd'.step = "ca" /\ upd'.vol = upd.vol /\ upd'.cert = upd.cert /\ upd.step = "key"
            /\ upd'.key = files[upd.vol][OptKeyFile] /\ upd'.key # Absent
        BY <3>5 DEF ReadKey, InPass, PassTypes
      <4> QED BY <3>0, <3>1, <4>1, SameNames DEF PassInv, Registered
    <3>6. CASE CompareCA
      <4>1. \/ upd'.step = "meta"
            \/ upd'.step = "capture" /\ upd.step = "ca" /\ upd'.vol = upd.vol
               /\ upd'.cert = upd.cert /\ upd'.key = upd.key
        BY <3>6 DEF CompareCA, InPass, Advance, NoPass, PassTypes
      <4> QED BY <3>0, <3>1, <4>1 DEF PassInv, Registered
    <3>7. CASE CaptureCA
      <4>1. /\ upd'.step = "write" /\ upd.step = "capture" /\ upd'.vol = upd.vol
            /\ upd'.cert = upd.cert /\ upd'.key = upd.key /\ upd'.ca = certificatesPEM
        BY <3>7 DEF CaptureCA, InPass, PassTypes
      <4> QED BY <3>0, <3>1, <4>1 DEF PassInv, Registered, MgrTypeOK, RootTypeOK
    <3> QED BY <2>3, <3>2, <3>3, <3>4, <3>5, <3>6, <3>7 DEF InsidePass
  <2>4. CASE WriteCA
    <3>0. PICK w \in Volume : w = upd.vol
      BY <2>4 DEF WriteCA, InPass, PassTypes
    <3>1. /\ upd.step = "write" /\ Registered(w)
          /\ UNCHANGED <<life, raced, issuer, gen, nextIssuance>>
      BY <2>4, <3>0, InsideSteps DEF WriteCA, InPass, InsidePass
    <3>2. PassInv'
      BY <2>4 DEF WriteCA, Advance, NoPass, PassInv
    <3>3. files'[w][drvCertFile] = upd.cert /\ files'[w][drvKeyFile] = upd.key
      <4>1. files'[w] = WriteFiles(OptCertFile, upd.cert, OptKeyFile, upd.key, OptCAFile, upd.ca)
        BY <2>4, <3>0 DEF WriteCA, VolumeTypes
      <4> QED BY <4>1, Written, SameNames, OptionNames
    <3>4. upd.cert # Absent /\ upd.key # Absent
      BY <3>1 DEF PassInv
    <3>5. w \notin raced => files'[w][drvCertFile] = files[w][drvCertFile]
                            /\ files'[w][drvKeyFile] = files[w][drvKeyFile]
      BY <3>0, <3>1, <3>3 DEF PassInv
    <3>6. w \notin raced => Paired(w)'
      <4> SUFFICES ASSUME w \notin raced PROVE Paired(w)'
        OBVIOUS
      <4>1. Issued(w)
        BY <3>3, <3>4, <3>5, OptionNames DEF Issued
      <4>2. Paired(w)
        BY <4>1 DEF FilesInv, WellKept
      <4> QED BY <3>1, <3>5, <4>2 DEF Paired
    <3>7. \A v \in Volume \ {w} : files'[v] = files[v]
      BY <2>4, <3>0 DEF WriteCA, VolumeTypes
    <3>8. ASSUME NEW v \in Volume PROVE WellKept(v)'
      <4>1. CASE v = w
        BY <3>1, <3>3, <3>4, <3>5, <3>6, <4>1 DEF FilesInv, WellKept, Registered
      <4>2. CASE v # w
        <5>1. files'[v] = files[v]
          BY <3>7, <4>2
        <5>2. Paired(v)' <=> Paired(v)
          BY <3>1, <5>1 DEF Paired
        <5> QED BY <3>1, <5>1, <5>2, IssuedKept DEF FilesInv, WellKept, Registered
      <4> QED BY <4>1, <4>2
    <3> QED BY <3>2, <3>8 DEF FilesInv, WellKept
  <2>5. ASSUME NEW u \in Volume, Register(u) PROVE PassInv' /\ FilesInv'
    <3>1. /\ life[u] = "new" /\ life' = [life EXCEPT ![u] = "registered"]
          /\ UNCHANGED <<files, issuer, gen, nextIssuance, raced, upd>>
      BY <2>5 DEF Register, issuerVars, watchVars
    <3>2. PassInv'
      BY <3>1 DEF PassInv, Registered, VolumeTypes, PassTypes
    <3>3. FilesInv'
      <4>1. \A v \in Volume : Registered(v) => Registered(v)'
        BY <3>1 DEF Registered, VolumeTypes
      <4> QED BY <3>1, <4>1 DEF FilesInv, WellKept, Issued, Paired
    <3> QED BY <3>2, <3>3
  <2>6. ASSUME NEW u \in Volume, Unpublish(u) PROVE PassInv' /\ FilesInv'
    <3>1. /\ issuer[u] = "idle" /\ life' = [life EXCEPT ![u] = "gone"]
          /\ files' = [files EXCEPT ![u] = Empty]
          /\ UNCHANGED <<issuer, gen, nextIssuance, raced, upd>>
      BY <2>6 DEF Unpublish, issuerVars, watchVars
    <3>2. PassInv'
      BY <3>1 DEF PassInv, Registered, VolumeTypes, PassTypes
    <3>3. ASSUME NEW v \in Volume PROVE WellKept(v)'
      <4>1. CASE v = u
        <5>1. ~Issued(v)'
          BY <3>1, <4>1, EmptyNotIssued DEF VolumeTypes
        <5> QED BY <3>1, <4>1, <5>1 DEF WellKept
      <4>2. CASE v # u
        <5>1. files'[v] = files[v] /\ life'[v] = life[v]
          BY <3>1, <4>2 DEF VolumeTypes
        <5>2. Paired(v)' <=> Paired(v)
          BY <3>1, <5>1 DEF Paired
        <5> QED BY <3>1, <5>1, <5>2, IssuedKept DEF FilesInv, WellKept, Registered
      <4> QED BY <4>1, <4>2
    <3> QED BY <3>2, <3>3 DEF FilesInv, WellKept
  <2>7. ASSUME NEW u \in Volume, Issue(u) \/ IssueFails(u) PROVE PassInv' /\ FilesInv'
    <3>1. UNCHANGED <<files, life, raced, nextIssuance, upd>>
      BY <2>7 DEF Issue, IssueFails, volVars, watchVars
    <3>2. \A v \in Volume : issuer'[v] = "meta" => issuer[v] = "meta" /\ gen'[v] = gen[v]
      BY <2>7 DEF Issue, IssueFails, IssuerTypes, volVars
    <3> QED BY <3>1, <3>2, FilesKept, PassKept
  <2>8. ASSUME NEW u \in Volume, WriteMetadata(u) PROVE PassInv' /\ FilesInv'
    <3>1. /\ issuer[u] = "meta" /\ nextIssuance' = [nextIssuance EXCEPT ![u] = gen[u]]
          /\ issuer' = [issuer EXCEPT ![u] = "idle"]
          /\ UNCHANGED <<files, life, gen, raced, upd>>
      BY <2>8 DEF WriteMetadata, watchVars
    <3>2. PassInv'
      BY <3>1, PassKept
    <3>3. ASSUME NEW v \in Volume, Issued(v), v \notin raced PROVE Paired(v)'
      <4>1. PICK n \in 1..MaxIssue : /\ files[v][drvCertFile] = Data("cert", v, n)
                                     /\ files[v][drvKeyFile] = Data("key", v, n)
                                     /\ nextIssuance[v] <= n
        BY <3>3 DEF FilesInv, WellKept, Paired
      <4>2. nextIssuance'[v] <= n
        <5>1. CASE v = u
          <6>1. files[v][drvCertFile] = Data("cert", v, gen[v])
            BY <3>1, <3>3, <5>1 DEF FilesInv, WellKept
          <6>2. n = gen[v]
            BY <4>1, <6>1 DEF Data
          <6> QED BY <3>1, <5>1, <6>2, MaxIssueNat DEF VolumeTypes
        <5>2. CASE v # u
          BY <3>1, <4>1, <5>2 DEF VolumeTypes
        <5> QED BY <5>1, <5>2
      <4> QED BY <3>1, <4>1, <4>2 DEF Paired
    <3>4. FilesInv'
      BY <3>1, <3>3 DEF FilesInv, WellKept, Issued, Registered, IssuerTypes
    <3> QED BY <3>2, <3>4
  <2>9. ASSUME NEW u \in Volume, WriteKeypair(u) PROVE PassInv' /\ FilesInv'
    <3>1. /\ issuer[u] = "write" /\ issuer' = [issuer EXCEPT ![u] = "meta"]
          /\ raced' = IF Rewriting(u) THEN raced \cup {u} ELSE raced \ {u}
          /\ UNCHANGED <<life, gen, nextIssuance, upd>>
      BY <2>9 DEF WriteKeypair
    <3>2. gen[u] \in 1..MaxIssue /\ Registered(u) /\ nextIssuance[u] <= gen[u]
      BY <3>1 DEF IssuerTypes, IssuerInv
    <3>3. /\ files'[u][drvCertFile] = Data("cert", u, gen[u])
          /\ files'[u][drvKeyFile] = Data("key", u, gen[u])
      <4>1. files'[u] = WriteFiles(drvCertFile, Data("cert", u, gen[u]), drvKeyFile,
                                   Data("key", u, gen[u]), drvCAFile, heldCA[u])
        BY <2>9 DEF WriteKeypair, VolumeTypes
      <4> QED BY <4>1, Written, SameNames, OptionNames
    <3>4. \A v \in Volume \ {u} : files'[v] = files[v] /\ (v \in raced' <=> v \in raced)
      BY <2>9, <3>1 DEF WriteKeypair, VolumeTypes
    <3>5. PassInv'
      <4>1. CASE upd.vol = u /\ upd.step \in {"key", "ca", "capture", "write"}
        <5>1. u \in raced'
          BY <3>1, <4>1 DEF Rewriting
        <5> QED BY <3>1, <4>1, <5>1 DEF PassInv, Registered
      <4>2. CASE ~(upd.vol = u /\ upd.step \in {"key", "ca", "capture", "write"})
        BY <3>1, <3>4, <4>2 DEF PassInv, PassTypes, Registered
      <4> QED BY <4>1, <4>2
    <3>6. ASSUME NEW v \in Volume PROVE WellKept(v)'
      <4>1. CASE v = u
        <5>1. Paired(v)'
          BY <3>1, <3>2, <3>3, <4>1 DEF Paired
        <5>2. files'[v][drvCertFile] # Absent /\ files'[v][drvKeyFile] # Absent
          BY <3>2, <3>3, <4>1, DataPresent
        <5> QED BY <3>1, <3>2, <3>3, <4>1, <5>1, <5>2 DEF WellKept, Registered
      <4>2. CASE v # u
        <5>1. files'[v] = files[v] /\ (v \in raced' <=> v \in raced) /\ issuer'[v] = issuer[v]
          BY <3>1, <3>4, <4>2 DEF IssuerTypes
        <5>2. Paired(v)' <=> Paired(v)
          BY <3>1, <5>1 DEF Paired
        <5> QED BY <3>1, <5>1, <5>2, IssuedKept DEF FilesInv, WellKept, Registered
      <4> QED BY <4>1, <4>2
    <3> QED BY <3>5, <3>6 DEF FilesInv, WellKept
  <2>10. ASSUME NEW b \in Bundle, Restart(b) PROVE PassInv' /\ FilesInv'
    <3>1. UNCHANGED <<files, life, raced, nextIssuance, gen>> /\ issuer' = [v \in Volume |-> "idle"]
      BY <2>10 DEF Restart, volVars, watchVars
    <3>2. FilesInv'
      BY <3>1, FilesKept
    <3> QED BY <2>10, <3>2 DEF Restart, NoPass, PassInv
  <2>11. CASE UNCHANGED vars
    <3>1. UNCHANGED <<files, life, raced, nextIssuance, issuer, gen, upd>>
      BY <2>11 DEF vars, distVars, volVars, issuerVars, watchVars
    <3> QED BY <3>1, FilesKept, PassKept
  <2> QED BY <2>1, <2>2, <2>3, <2>4, <2>5, <2>6, <2>7, <2>8, <2>9, <2>10, <2>11
             DEF Next, PassStep, IssuerStep, InsidePass
<1> QED BY <1>1, <1>2, ManagerInvariants, DistTypesInvariant, IssuerInvariant, PTL DEF Spec

\* The certificate and key of a volume belong together and are its own, for any
\* interleaving of renewals, update passes, failures and restarts, except after
\* a renewal that fell into a pass's rewriting of that volume.
THEOREM PairsIntact == ASSUME PairNames PROVE Spec => []PairIntact
<1>1. FilesInv => PairIntact
  BY DEF FilesInv, WellKept, PairIntact, Paired, IsPair
<1> QED BY <1>1, VolumeInvariant, PTL

\* Whatever fails between the writes of writeKeypair, the next issuance time in
\* the metadata is never that of a certificate newer than the one on file.
THEOREM RenewalsScheduled == ASSUME PairNames PROVE Spec => []RenewalScheduled
<1>1. VolumeTypes /\ FilesInv => RenewalScheduled
  BY MaxIssueNat DEF VolumeTypes, FilesInv, WellKept, RenewalScheduled, RenewalKnown, Paired
<1>2. DistTypes => VolumeTypes
  BY DEF DistTypes
<1> QED BY <1>1, <1>2, VolumeInvariant, DistTypesInvariant, PTL

-----------------------------------------------------------------------------
(* The root CAs on the volumes.                                              *)

\* Who changes the files of a volume.
LEMMA FileSteps ==
  ASSUME VolumeTypes, [Next]_vars, NEW v \in Volume
  PROVE  \/ files'[v] = files[v]
         \/ files'[v] = Empty
         \/ WriteKeypair(v)
         \/ WriteCA /\ upd.vol = v
<1>1. CASE LoopStep \/ (\E b \in Bundle : Restart(b)) \/ UNCHANGED vars
  BY <1>1, LoopSteps DEF Restart, vars, distVars, volVars
<1>2. CASE PassStep /\ ~WriteCA
  BY <1>2, PassEnds DEF PassStep, ListVolumes, NextVolume, ReadCert, ReadKey, CompareCA, CaptureCA
<1>3. CASE WriteCA
  BY <1>3 DEF WriteCA, VolumeTypes
<1>4. ASSUME NEW u \in Volume, IssuerStep(u) \/ Register(u) \/ Unpublish(u), ~WriteKeypair(v)
      PROVE  files'[v] \in {files[v], Empty}
  BY <1>4 DEF IssuerStep, Issue, WriteKeypair, WriteMetadata, IssueFails, Register, Unpublish,
              VolumeTypes, volVars
<1> QED BY <1>1, <1>2, <1>3, <1>4 DEF Next

\* What the two writers leave behind when file-name-ca has its default.
LEMMA WrittenCA ==
  ASSUME PairNames, CAName, VolumeTypes, NEW v \in Volume
  PROVE  /\ WriteKeypair(v) => files'[v][OptCAFile] = heldCA[v]
         /\ WriteCA /\ upd.vol = v => files'[v][OptCAFile] = upd.ca
<1>1. ASSUME WriteKeypair(v) PROVE files'[v][OptCAFile] = heldCA[v]
  <2>1. files'[v] = WriteFiles(drvCertFile, Data("cert", v, gen[v]), drvKeyFile,
                               Data("key", v, gen[v]), drvCAFile, heldCA[v])
    BY <1>1 DEF WriteKeypair, VolumeTypes
  <2> QED BY <2>1, Written, SameNames, OptionNames DEF CAName
<1>2. ASSUME WriteCA, upd.vol = v PROVE files'[v][OptCAFile] = upd.ca
  <2>1. files'[v] = WriteFiles(OptCertFile, upd.cert, OptKeyFile, upd.key, OptCAFile, upd.ca)
    BY <1>2 DEF WriteCA, VolumeTypes
  <2> QED BY <2>1, Written, SameNames, OptionNames
<1> QED BY <1>1, <1>2

LEMMA BundlePresent == ASSUME NEW b \in Bundle PROVE b # Absent
BY DistAssumption DEF DistAssumption

LEMMA HasCAInvariant == ASSUME PairNames, CAName PROVE Spec => []HasCA
<1>1. Init => HasCA
  BY DEF Init, HasCA, Issued, Empty
<1>2. DistTypes /\ IssuerInv /\ PassInv /\ HasCA /\ [Next]_vars => HasCA'
  <2> SUFFICES ASSUME DistTypes, IssuerInv, PassInv, HasCA, [Next]_vars, HasRootCAs,
                      NEW v \in Volume, Issued(v)'
               PROVE  files'[v][OptCAFile] # Absent
    BY DEF HasCA
  <2>0. VolumeTypes
    BY DEF DistTypes
  <2>1. CASE files'[v] = files[v]
    BY <2>1, IssuedKept DEF HasCA
  <2>2. CASE files'[v] = Empty
    BY <2>2, EmptyNotIssued
  <2>3. CASE WriteKeypair(v)
    <3>1. heldCA[v] \in Bundle
      BY <2>3 DEF WriteKeypair, IssuerInv
    <3> QED BY <2>0, <2>3, <3>1, WrittenCA, BundlePresent
  <2>4. CASE WriteCA /\ upd.vol = v
    <3>1. upd.ca \in Bundle
      BY <2>4 DEF WriteCA, InPass, PassInv
    <3> QED BY <2>0, <2>4, <3>1, WrittenCA, BundlePresent
  <2> QED BY <2>0, <2>1, <2>2, <2>3, <2>4, FileSteps
<1> QED BY <1>1, <1>2, DistTypesInvariant, IssuerInvariant, VolumeInvariant, PTL DEF Spec

\* Whoever wrote a volume last, its certificate, key and root CAs are all there:
\* neither writer drops a file of the other.
THEOREM FilesAlwaysComplete == ASSUME PairNames, CAName PROVE Spec => []FilesComplete
<1>1. FilesInv /\ HasCA => FilesComplete
  BY DEF FilesInv, WellKept, HasCA, FilesComplete
<1> QED BY <1>1, VolumeInvariant, HasCAInvariant, PTL

\* The hypotheses on the names hold when the flags are not given.
LEMMA DefaultNames ==
  ASSUME {"file-name-certificate", "file-name-key", "file-name-ca"} \cap DOMAIN CommandLine = {}
  PROVE  PairNames /\ CAName
BY DEF PairNames, CAName, OptCertFile, OptKeyFile, OptCAFile, drvCAFile, VolumeOptions,
       addVolumeFlags, Flag

-----------------------------------------------------------------------------
\* A volume stays fresh when its files and the bundle served stay as they are
\* and a call of writeKeypair that begins reads that bundle.
LEMMA FreshKept ==
  ASSUME NEW v \in Volume, Fresh(v), files'[v] = files[v], certificatesPEM' = certificatesPEM,
         v \in late => v \in late',
         issuer'[v] = "write" => (issuer[v] = "write" /\ heldCA'[v] = heldCA[v])
                                 \/ heldCA'[v] = certificatesPEM
  PROVE  Fresh(v)'
BY IssuedKept DEF Fresh, HasCurrentCA

\* A volume without a certificate is fresh unless one is being issued to it.
LEMMA FreshIdle ==
  ASSUME NEW v \in Volume, ~Issued(v), issuer[v] # "write"
  PROVE  Fresh(v)
BY DEF Fresh

LEMMA FreshCurrent == ASSUME NEW v \in Volume, Issued(v), HasCurrentCA(v) PROVE Fresh(v)
BY DEF Fresh

LEMMA CAInvariant == ASSUME PairNames, CAName PROVE Spec => []CAInv
<1>1. Init => CAInv
  BY DEF Init, MgrInit, CAInv, Fresh, Issued, Empty, NoPass
<1>2. MgrTypeOK /\ TriggerInv /\ DistTypes /\ IssuerInv /\ PassInv /\ FilesInv /\ CAInv
        /\ [Next]_vars => CAInv'
  <2> SUFFICES ASSUME MgrTypeOK, TriggerInv, VolumeTypes, IssuerTypes, PassTypes, Busy,
                      IssuerInv, PassInv, FilesInv, CAInv, [Next]_vars, HasRootCAs
               PROVE  CAInv'
    BY DEF DistTypes, CAInv
  <2>1. CASE LoopStep
    <3>1. /\ pc' = "update" <=> pc = "update"
          /\ UNCHANGED <<files, issuer, heldCA, late, upd>>
      BY <2>1, LoopSteps DEF distVars, volVars, issuerVars, watchVars
    <3>2. CASE UNCHANGED <<certificatesPEM, stale, passStale, unheard>>
      <4>1. \A v \in Volume : (Fresh(v)' <=> Fresh(v)) /\ (Ahead(v)' <=> Ahead(v))
        BY <3>1, <3>2 DEF Fresh, Ahead, Issued, HasCurrentCA
      <4> QED BY <3>1, <3>2, <4>1 DEF CAInv
    <3>3. ASSUME NEW b \in Bundle, Rotate(b) PROVE CAInv'
      <4>1. ~unheard' => stale' /\ (pc' = "update" => passStale')
        BY <3>3 DEF Rotate, loopVars
      <4>2. upd'.step = "write" => pc' = "update"
        BY <3>1 DEF Busy
      <4> QED BY <4>1, <4>2 DEF CAInv
    <3> QED BY <2>1, <3>2, <3>3
               DEF LoopStep, Start, Subscribe, RecvWatcher, Receive, Send, Done, RetryStep,
                   TimerFires, RetrySend, RetryCancelled, Cancel, historyVars, rootVars
  <2>2. CASE BeginPass
    <3>1. \A v \in Volume : Fresh(v)' <=> Fresh(v)
      BY <2>2, PassEnds DEF Fresh, Issued, HasCurrentCA
    <3>2. upd'.step = "list" /\ UNCHANGED <<stale, unheard>>
      BY <2>2 DEF BeginPass, RecvUpdate, NoPass
    <3> QED BY <3>1, <3>2 DEF CAInv
  <2>3. CASE EndPass
    <3>1. \A v \in Volume : Fresh(v)' <=> Fresh(v)
      BY <2>3, PassEnds DEF Fresh, Issued, HasCurrentCA
    <3>2. /\ upd.step = "meta" /\ upd.todo = {} /\ pc = "update" /\ pc' = "select"
          /\ stale' = passStale /\ unheard' = unheard /\ upd'.step = "none"
      BY <2>3 DEF EndPass, UpdateOK, NoPass
    <3>3. \A v \in Volume : ~Ahead(v)
      BY <3>2 DEF Ahead
    <3> QED BY <3>1, <3>2, <3>3 DEF CAInv
  <2>4. CASE AbortPass
    <3>1. \A v \in Volume : Fresh(v)' <=> Fresh(v)
      BY <2>4, PassEnds DEF Fresh, Issued, HasCurrentCA
    <3>2. pc' = "select" /\ UNCHANGED <<stale, unheard>> /\ upd'.step = "none"
      BY <2>4 DEF AbortPass, UpdateFail, NoPass
    <3> QED BY <3>1, <3>2 DEF CAInv
  <2>5. CASE InsidePass /\ ~WriteCA
    <3>0. UNCHANGED <<pc, stale, passStale, unheard, certificatesPEM>>
      BY <2>5, InsideSteps DEF mgrVars, historyVars
    <3>1. UNCHANGED <<files, late, issuer, heldCA>>
      BY <2>5, InsideSteps DEF InsidePass, ListVolumes, NextVolume, ReadCert, ReadKey, CompareCA,
                               CaptureCA, watchVars
    <3>2. \A v \in Volume : Fresh(v)' <=> Fresh(v)
      BY <3>0, <3>1 DEF Fresh, Issued, HasCurrentCA
    <3>3. CASE ListVolumes
      <4>1. upd'.step = "meta" /\ upd'.todo = {v \in Volume : Registered(v)}
        BY <3>3 DEF ListVolumes, PassTypes
      <4>2. \A v \in Volume : Registered(v) => Ahead(v)'
        BY <4>1 DEF Ahead
      <4>3. \A v \in Volume : ~Registered(v) => Fresh(v)
        BY DEF FilesInv, WellKept, IssuerInv, Fresh
      <4> QED BY <3>0, <3>2, <4>1, <4>2, <4>3 DEF CAInv
    <3>4. CASE NextVolume
      <4>1. PICK u \in upd.todo : upd' = [upd EXCEPT !.step = "cert", !.vol = u, !.todo = @ \ {u}]
        BY <3>4 DEF NextVolume
      <4>2. upd.step = "meta" /\ upd'.step = "cert" /\ upd'.vol = u /\ upd'.todo = upd.todo \ {u}
        BY <3>4, <4>1 DEF NextVolume, InPass, PassTypes
      <4>3. \A v \in Volume : Ahead(v) => Ahead(v)'
        BY <4>2 DEF Ahead
      <4> QED BY <3>0, <3>2, <4>2, <4>3 DEF CAInv
    <3>5. CASE ReadCert \/ ReadKey
      <4>1. /\ upd.step \in {"cert", "key"} /\ upd'.step \in {"key", "ca"}
            /\ upd'.vol = upd.vol /\ upd'.todo = upd.todo
        BY <3>5 DEF ReadCert, ReadKey, InPass, PassTypes
      <4>2. \A v \in Volume : Ahead(v) => Ahead(v)'
        BY <4>1 DEF Ahead
      <4> QED BY <3>0, <3>2, <4>1, <4>2 DEF CAInv
    <3>6. CASE CompareCA
      <4>1. upd.step = "ca" /\ upd.vol \in Volume
        BY <3>6 DEF CompareCA, InPass, PassTypes
      <4>2. CASE files[upd.vol][OptCAFile] = certificatesPEM /\ Advance
        <5>1. upd'.step = "meta" /\ upd'.todo = upd.todo
          BY <4>2 DEF Advance, NoPass
        <5>2. Issued(upd.vol) /\ HasCurrentCA(upd.vol)
          <6>1. certificatesPEM # Absent
            BY BundlePresent DEF MgrTypeOK, RootTypeOK
          <6> QED BY <4>2, <6>1, OptionNames DEF Issued, HasCurrentCA
        <5>3. Fresh(upd.vol)
          BY <4>1, <5>2, FreshCurrent
        <5>4. \A v \in Volume : Ahead(v) => Ahead(v)' \/ Fresh(v)
          BY <5>1, <5>3 DEF Ahead
        <5> QED BY <3>0, <3>2, <4>1, <5>1, <5>4 DEF CAInv
      <4>3. CASE upd' = [upd EXCEPT !.step = "capture"]
        <5>1. upd'.step = "capture" /\ upd'.vol = upd.vol /\ upd'.todo = upd.todo
          BY <4>3 DEF PassTypes
        <5>2. \A v \in Volume : Ahead(v) => Ahead(v)'
          BY <5>1 DEF Ahead
        <5> QED BY <3>0, <3>2, <4>1, <5>1, <5>2 DEF CAInv
      <4> QED BY <3>6, <4>2, <4>3 DEF CompareCA
    <3>7. CASE CaptureCA
      <4>1. /\ upd.step = "capture" /\ upd'.step = "write" /\ upd'.ca = certificatesPEM
            /\ upd'.vol = upd.vol /\ upd'.todo = upd.todo
        BY <3>7 DEF CaptureCA, InPass, PassTypes
      <4>2. \A v \in Volume : Ahead(v) => Ahead(v)'
        BY <4>1 DEF Ahead
      <4> QED BY <3>0, <3>2, <4>1, <4>2 DEF CAInv
    <3> QED BY <2>5, <3>3, <3>4, <3>5, <3>6, <3>7 DEF InsidePass
  <2>6. CASE WriteCA
    <3>0. UNCHANGED <<pc, stale, passStale, unheard, certificatesPEM, issuer, heldCA>>
      BY <2>6, InsideSteps DEF mgrVars, historyVars, InsidePass
    <3>1. PICK w \in Volume : w = upd.vol
      BY <2>6 DEF WriteCA, InPass, PassTypes
    <3>2. /\ upd.step = "write" /\ upd'.step = "meta" /\ upd'.todo = upd.todo
          /\ late' = late \ {w}
      BY <2>6, <3>1 DEF WriteCA, InPass, Advance, NoPass
    <3>3. ASSUME ~unheard, ~passStale
          PROVE  Fresh(w)'
      <4>1. upd.ca = certificatesPEM
        BY <3>2, <3>3 DEF CAInv
      <4>2. files'[w][OptCAFile] = certificatesPEM
        BY <2>6, <3>1, <4>1, WrittenCA
      <4>3. HasCurrentCA(w)'
        BY <3>0, <4>2 DEF HasCurrentCA
      <4>4. Issued(w)'
        <5>1. certificatesPEM # Absent
          BY BundlePresent DEF MgrTypeOK, RootTypeOK
        <5> QED BY <4>2, <5>1, OptionNames DEF Issued
      <4> QED BY <4>3, <4>4 DEF Fresh
    <3>4. ASSUME NEW v \in Volume \ {w}, Fresh(v) PROVE Fresh(v)'
      <4>1. files'[v] = files[v]
        BY <2>6, <3>1 DEF WriteCA, VolumeTypes
      <4> QED BY <3>0, <3>2, <3>4, <4>1, FreshKept
    <3>5. \A v \in Volume \ {w} : Ahead(v) => Ahead(v)'
      BY <3>1, <3>2 DEF Ahead
    <3>6. passStale => stale
      BY DEF TriggerInv
    <3>7. ~unheard /\ ~stale => \A v \in Volume : Fresh(v)'
      BY <3>3, <3>4, <3>6 DEF CAInv
    <3>8. ~unheard /\ pc = "update" /\ ~passStale => \A v \in Volume : Fresh(v)' \/ Ahead(v)'
      BY <3>2, <3>3, <3>4, <3>5 DEF CAInv
    <3> QED BY <3>0, <3>2, <3>7, <3>8 DEF CAInv
  <2>7. ASSUME NEW u \in Volume, IssuerStep(u) \/ Register(u) \/ Unpublish(u) PROVE CAInv'
    <3>0. UNCHANGED <<pc, stale, passStale, unheard, certificatesPEM, upd>>
      BY <2>7, IssuerSteps DEF mgrVars, historyVars
    <3>1. \A v \in Volume : Ahead(v)' <=> Ahead(v)
      BY <3>0 DEF Ahead
    <3>2. ASSUME NEW v \in Volume, Fresh(v) PROVE Fresh(v)'
      <4>1. CASE Register(u)
        BY <3>0, <3>2, <4>1, FreshKept DEF Register, issuerVars, watchVars
      <4>2. CASE Unpublish(u)
        <5>1. CASE v = u
          <6>1. ~Issued(v)' /\ issuer'[v] = "idle"
            BY <4>2, <5>1, EmptyNotIssued DEF Unpublish, VolumeTypes, issuerVars
          <6> QED BY <6>1 DEF Fresh
        <5>2. CASE v # u
          <6>1. files'[v] = files[v]
            BY <4>2, <5>2 DEF Unpublish, VolumeTypes
          <6> QED BY <3>0, <3>2, <4>2, <6>1, FreshKept DEF Unpublish, issuerVars, watchVars
        <5> QED BY <5>1, <5>2
      <4>3. CASE Issue(u)
        <5>1. issuer'[v] = "write" => (issuer[v] = "write" /\ heldCA'[v] = heldCA[v])
                                      \/ heldCA'[v] = certificatesPEM
          BY <4>3 DEF Issue, IssuerTypes
        <5>2. files'[v] = files[v] /\ (v \in late => v \in late')
          BY <4>3 DEF Issue, watchVars
        <5> QED BY <3>0, <3>2, <5>1, <5>2, FreshKept
      <4>4. CASE WriteMetadata(u) \/ IssueFails(u)
        <5>1. issuer'[v] = "write" => issuer[v] = "write" /\ heldCA'[v] = heldCA[v]
          BY <4>4 DEF WriteMetadata, IssueFails, IssuerTypes
        <5>2. files'[v] = files[v] /\ (v \in late => v \in late')
          BY <4>4 DEF WriteMetadata, IssueFails, watchVars, volVars
        <5> QED BY <3>0, <3>2, <5>1, <5>2, FreshKept
      <4>5. CASE WriteKeypair(u)
        <5>1. CASE v = u
          <6>1. issuer[v] = "write" /\ issuer'[v] = "meta"
            BY <4>5, <5>1 DEF WriteKeypair, IssuerTypes
          <6>2. v \notin late' => heldCA[v] = certificatesPEM
            BY <3>2, <4>5, <5>1, <6>1 DEF WriteKeypair, Fresh
          <6>3. v \notin late' => HasCurrentCA(v)'
            BY <3>0, <4>5, <5>1, <6>2, WrittenCA DEF HasCurrentCA
          <6> QED BY <6>1, <6>3 DEF Fresh
        <5>2. CASE v # u
          <6>1. files'[v] = files[v] /\ (v \in late => v \in late')
            BY <4>5, <5>2 DEF WriteKeypair, VolumeTypes
          <6>2. issuer'[v] = issuer[v] /\ heldCA'[v] = heldCA[v]
            BY <4>5, <5>2 DEF WriteKeypair, IssuerTypes
          <6> QED BY <3>0, <3>2, <6>1, <6>2, FreshKept
        <5> QED BY <5>1, <5>2
      <4> QED BY <2>7, <4>1, <4>2, <4>3, <4>4, <4>5 DEF IssuerStep
    <3> QED BY <3>0, <3>1, <3>2 DEF CAInv
  <2>8. ASSUME NEW b \in Bundle, Restart(b) PROVE CAInv'
    <3>1. /\ ~unheard' => ~unheard /\ ~stale /\ certificatesPEM' = certificatesPEM
          /\ pc' = "init" /\ upd'.step = "none"
          /\ UNCHANGED <<files, late>> /\ issuer' = [v \in Volume |-> "idle"]
      BY <2>8 DEF Restart, MgrRestart, RootRestart, NoPass, volVars, watchVars
    <3>2. ~unheard' => \A v \in Volume : Fresh(v) => Fresh(v)'
      BY <3>1, FreshKept
    <3> QED BY <3>1, <3>2 DEF CAInv
  <2>9. CASE UNCHANGED vars
    <3>1. /\ UNCHANGED <<pc, stale, passStale, unheard, certificatesPEM, upd>>
          /\ UNCHANGED <<files, issuer, heldCA, late>>
      BY <2>9 DEF vars, mgrVars, rootVars, loopVars, historyVars, distVars, volVars, issuerVars,
                  watchVars
    <3>2. \A v \in Volume : (Fresh(v)' <=> Fresh(v)) /\ (Ahead(v)' <=> Ahead(v))
      BY <3>1 DEF Fresh, Ahead, Issued, HasCurrentCA
    <3> QED BY <3>1, <3>2 DEF CAInv
  <2> QED BY <2>1, <2>2, <2>3, <2>4, <2>5, <2>6, <2>7, <2>8, <2>9 DEF Next, PassStep, InsidePass
<1> QED BY <1>1, <1>2, ManagerInvariants, DistTypesInvariant, IssuerInvariant, VolumeInvariant,
           PTL DEF Spec

\* When nothing is under way any more, every volume has the root CAs served,
\* however rotations, issuances, failed passes, retries and restarts were
\* interleaved, with the two exceptions that CurrentAtRest names.
THEOREM VolumesCurrentAtRest == ASSUME PairNames, CAName PROVE Spec => []CurrentAtRest
<1>1. TriggerInv /\ InLoop /\ CAInv => CurrentAtRest
  <2> SUFFICES ASSUME TriggerInv, InLoop, CAInv, AtRest, ~unheard
               PROVE  \A v \in Volume : Issued(v) /\ v \notin late => HasCurrentCA(v)
    BY DEF CurrentAtRest
  <2>1. HasRootCAs
    BY DEF AtRest, InLoop
  <2>2. ~stale
    BY DEF AtRest, TriggerInv, NoLostTrigger
  <2> QED BY <2>1, <2>2 DEF CAInv, Fresh
<1> QED BY <1>1, ManagerInvariants, CAInvariant, PTL
=============================================================================
