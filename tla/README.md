# A TLA+ model of csi-driver-spiffe

csi-driver-spiffe is a CSI driver that gives every pod an X.509 SVID: a key pair
whose certificate carries the SPIFFE ID of the pod's service account, issued
through cert-manager, renewed, and accompanied by the root CAs of the trust
domain. A second program, the approver, decides which CertificateRequests may be
signed. This directory models the parts of both that hold state, checks them
with TLC on small instances, and proves the main safety properties with TLAPS
for every value of the constants.

## The system

| Component | Code | State | Operations |
|---|---|---|---|
| Root CA providers | `internal/csi/rootca` | the bundle served, subscribers, goroutines that notify them; for the file: the watch and its event queue | `NewMemory`, `NewFile`, `start`, `reloadCertificatesPEM`, `Subscribe`, `CertificatesPEM` |
| CA manager | `internal/csi/driver/camanager.go` | trigger channel (buffer of one), retrying goroutines | `run`: take a notification, run a pass, retry, return |
| Volume contents | `camanager.go` `updateRootCAFiles`, `driver.go` `writeKeypair` | files and metadata of each volume | the two writers of a volume |
| Runtime configuration | `internal/csi/runtimeconfig` | active issuer, the watch on a ConfigMap | `New`, `NewMemory`, `start`, `handleChange`, `handleDeletion`, `Config` |
| Requests of the driver | `driver.go` `New`, `generateRequest`; `util.go` `signRequest` | options, a request in the making | token to CertificateRequest |
| Renewal | `driver.go` `writeKeypair`; `util.go` `calculateNextIssuanceTime` | the certificate on file, the next issuance time | issue, write files, write metadata, renew |
| Approver controller | `internal/approver/controller` | informer cache, work queue | event filter, `Reconcile` |
| Evaluator | `internal/approver/evaluator` | none | `Evaluate` and the checks it calls |
| Driver process | `internal/csi/app`, `cmd/csi`, `driver.go` `Run` | stage of the start-up, server, context | start, fail to, run, stop |
| Approver process | `internal/approver/app` | who is leader | start, take over |
| Options | `internal/*/app/options`, `internal/flags` | none | command line to options, with defaults |

How they interact. The provider tells its subscriber, the CA manager, of every
new bundle by a goroutine that sends on an unbuffered channel. The CA manager
answers with a pass over all volumes. The csi-lib manager, a library, calls
`generateRequest` and `signRequest`, creates the CertificateRequest and, when a
certificate has been issued, calls `writeKeypair`; nothing orders those calls and
the passes, and they share one store. Driver and approver each read the active
issuer from a runtime configuration that follows a ConfigMap. The approver sees
requests through an informer, and writes verdicts with optimistic updates.

What is hard here: two writers of a volume that read and write in separate
calls; a loop that sends on the channel it receives from; notifications and
retries that pile up; watches, on a file and on the API server, that break or
report late; decisions made on a cache, and written after another replica has
taken over; signals and restarts at any point; renewal times computed from
whatever chain comes back; two programs with defaults of their own; key usages
compared by bit masks on DER bytes; a trust domain that is printed and parsed several times before
it is compared. `PROJECT.json` lists each of these hazards at
its line with the properties that cover it.

## Modules

| Module | Models | Builds on |
|---|---|---|
| `RootCA` | the abstract provider; also `memory.go` | |
| `RootCAFile` | `file.go`, shown to implement `RootCA` | `RootCA` |
| `CAManager` | `camanager.run`; a pass is an interval with a result | `RootCA` |
| `Driver` | the process: start-up, `Driver.Run`, signals, restarts, around the loop of `CAManager` | `CAManager` |
| `CADistribution` | both writers, every store call a step, shown to implement `CAManager` | `CAManager`, `Options` |
| `ConfigSource` | the abstract runtime configuration; also `memory.go`, and `New` | |
| `RuntimeConfig` | `configmap.go`, shown to implement `ConfigSource` | `ConfigSource` |
| `Approver` | `controller.go` with informer, queue and API server | |
| `Evaluator` | `evaluator.go`, `extensions.go`, `identity.go` as operators | |
| `Options` | flags and defaults of both programs | |
| `Issuance` | both programs started, the driver's request, evaluated by the approver | `Evaluator`, `Options`, `ConfigSource` |
| `Renewal` | the certificate of a volume over time, with failures and crashes | `Issuance` |

`MC*` modules hold the values of constants for TLC; `*Proofs` modules hold
theorems: one for each of `RootCAFile`, `CAManager`, `Driver`, `CADistribution`, `RuntimeConfig`, `Approver`
and `Evaluator`, and `IssuanceProofs` for `Issuance` and `Renewal`. Definitions whose comment begins with "Mutation" are variants of the
definition that follows, each a plausible slip in the code; they show that the
property they belong to can fail.

### From code to model

*RootCA.* A publication stores the bundle and starts one goroutine per
subscriber, under a lock: one step. `notifiers` counts the goroutines that have
not been received from. Subscribers do not interact, so there is one.

*RootCAFile.* `pc` is where `NewFile` and then `start` are: after the first read,
after adding the watch, in the select, between noticing a removal and adding the
watch again, before the reload. The inotify watch follows a file and not a path:
a symlink swap is silent until the kubelet removes the old file. The queue has a
limit, merges equal neighbours, and reports an overflow as an error the code
logs. `logged` remembers which errors were logged, since "unless an error was
logged" is what the code can be held to; `missed` holds "early" if the file changed
between the first read and the watch, and no reload has followed, and "moved" if the
watched file was renamed to another place, and no watch was added since. For a rename
fsnotify reports an event that `start` does not act on, and drops the watch.

*CAManager.* `run` is at its select, in the send on `updateChan`, or in a pass.
A failed pass starts a goroutine, counted in `sleeping` and then `sending`.
`stale`, `passStale` and `unheard` are history: they say whether a published
bundle still needs a pass, and whether one was published when nobody listened.
A restart may happen anywhere.

*Driver.* `stage` is what the command is doing: `Complete` of the options, loading the
root CAs, the runtime configuration, `driver.New`, `Driver.Run`. Each can fail, and none
looks at the context, so a signal during the start-up is seen in `Run`. `Run` has three
goroutines: the loop of `CAManager`, the server, and one that stops the server when the
context ends; it waits for the first two. The first signal ends the context, the second
the process. A server that returns by itself ends nothing: the process stays until the
loop returns, as in the code, and only a probe from outside would notice (`ExitsOnSignalOnly`).

*CADistribution.* The file names come from a command line. `issuer[v]` is where `writeKeypair` is for a volume: the bundle
has been read, the files written, the metadata written. `upd` is where the pass
is: the volume it is at, those still to do, the certificate and key it holds. Each store call of a pass can fail and
ends it, but for the read of the CA file, after whose failure the files are written anew. `ListVolumes` promises no
order, so the next volume is any of those. Certificates and keys are records of
volume and generation, so that a mixed pair is visible. File names are those of
`New`. The store replaces all files of a volume in one step, as the code relies
on. `raced` and `late` name the volumes to which the two known races happened, so
that everything else can be required of the others.

*RuntimeConfig.* A watch opened without a resource version starts with an Added
event for an existing ConfigMap and says nothing about one that is gone. A break
may lose events that were not read. `handleChange` accepts a ConfigMap with all
three keys and ignores an incomplete one. To its users this is `ConfigSource`, whose
goroutine runs until `start` has returned.

*Approver.* A request is its existence, version, annotation and conditions; what
`Evaluate` says of it is a constant, because the spec of a CertificateRequest does
not change. Its watch is a sequence per request, since the order between
requests does not matter. `Filter` reads the cache as the code does. `Reconcile`
is one step up to its status update, the update another, with four outcomes:
stored, stored but unanswered, refused for its version, failed. A retried key
goes back to `queued`, and the delay of a retry is not modelled. Exiting on a
failed lookup is a restart. With leader election another replica may take over at any
time (`TakeOver`): it lists all requests anew, and the status update that the former
leader was about to send is kept in `late`, to arrive later or never.

*Evaluator.* `validateKeyUsageExtension` is translated at the level of bytes, as
sets of bits, and gets whatever bytes came, encoded as usual (`EncodeKeyUsage`) or not. A SAN is a
sequence of names, each with a tag number and "proper" if class and form are those of a
general name: the check of the extension looks at the tag number only, while
crypto/x509 puts proper names into `URIs`, `DNSNames` and so on, which are here the
positions of such names, so that "exactly one URI" is a set with one element. The SAN and the
extended key usages may also be malformed, as far as the code here finds that out. A SPIFFE ID is the
string with its three parts; `Parse` makes a URL of it, whose host and
`String()` are those of the string for a trust domain that is a plain host name. What
net/url, `MarshalSANs` and crypto/x509 make of other trust domains is a constant, `OddDomains`, and
`Unparsable` are the strings url.Parse refuses. `Acceptable` says what an approved request is
without these detours: the usages its key usage extension asserts, the names a reader
of the CSR would see.

*Options.* A command line is a function from flags to values; what is not given has the
default that each program declares for itself. Addresses, paths, log settings and the
kubeconfig are left out.

*Issuance.* `cmd` is a pair of command lines. `RunDriver` and `RunApprover` parse them and
turn the options into the fields `d` and `i`, if `runtimeconfig.New` finds something to
work with. `generateRequest`, `signRequest` and the creation of the request are steps
between which the active issuer may change, if it comes from a ConfigMap. `generateRequest` refuses
if there is no issuer, no proper token, or no URL to be made of the ID; `signRequest` fails if
the URL cannot be encoded; the names of the CSR are parsed from the strings again. Others create
requests too (`CreateForeign`), and `Approve` calls `Evaluate` of the module above on either.

*Renewal.* An approved request is signed: the chain may have no PEM block, or one that is no
certificate, or a certificate that begins earlier and lives longer or shorter than
asked. `calculateNextIssuanceTime` is computed before the files are written, as in the code,
with the saturation of `time.Duration`; with no PEM block it dereferences nil, after
which only `Crash` is possible. Files and metadata are two steps, either of which can
fail. The renewal loop of csi-lib (external) begins an issuance when the recorded time has passed
or there is none. Time passes in steps, and never further than `Patience` beyond the
moment a renewal is due: that signer, cluster and restarts together take no
longer is an assumption about the surroundings, and what is checked is what the driver makes of it.

## Runs

* `RootCAFile`: swaps, writes in place, permissions, deletion, renaming and re-creation of the file, four changes, a queue of two events.
  The provider never goes stale (`NoSilentLoss`) or deaf (`WatchKept`) without
  logging an error, follows the file in the end (`Converges`), and implements
  `RootCA`. The exceptions in these properties, `missed`, are real: a change between
  the first read and the watch is not noticed until another change is, and after the
  watched file was renamed nothing is noticed any more, although nothing was logged.
  A failure to add the watch again, after a deletion, is logged and final.
* `Driver`: a process that starts or fails to, four rotations, failing passes, signals and server
  failures at any moment, a restart. Triggers are not multiplied (`TriggerBound`) or
  lost (`NoLostTrigger`); the loop comes to wait for itself only after two rotations, and
  nothing but that keeps a bundle from the volumes (`DistributedUnlessBlocked`) or the process
  from ending after a signal (`SignalEndsProcess`). A process with root CAs whose server has failed does not end without a
  signal (`ExitsOnSignalOnly`): `Run` waits for the loop before it returns the error.
* `CADistOne`: one volume with I/O errors, restart and unpublication at every point.
  Pairs stay intact, renewals are scheduled for what is on file, files are complete
  and current at rest; the passes are those of `CAManager`. The exceptions the
  properties name are real: `raced`, a renewal while a pass rewrites the volume (see
  `CADistTornPair`; it can also bring back the older pair under the newer renewal
  time); `late`, a renewal that read the bundle before a rotation and writes it after the pass;
  `unheard`, a bundle that changed while the driver was down or before `run` subscribed, since no
  pass follows a start.
* `CADistTwo`: two volumes. Keys are not mixed up, and outdated volumes are brought up
  to date (`VolumesFollow`) if every registered volume is issued a certificate. That
  condition is needed: a pass ends at the first volume whose certificate cannot be read, at every retry.
* `RuntimeConfig`: three changes, two faults. A watcher that has caught up uses a
  complete ConfigMap, and gets there in the end; no issuer is a mixture of two versions;
  and the whole implements `ConfigSource` (`ImplementsSource`).
* `Approver`: two requests, any two incidents: edits, annotations, deletion and
  re-creation, another approver, lost answers, errors, a new issuer, a restart or a change of leader with
  a write still on its way. No undecided
  request is forgotten, approvals are justified by the state they are stored on,
  reconciling again contradicts nothing unless annotation or issuer changed, and a
  waiting request is decided in the end.
* `Issuance`: fifteen pairs of command lines and about 1600 requests of others: all 512 key usages as they are usually
  encoded, all four-byte values that differ from an allowed one in up to two bits of one byte, names up to two, proper or not,
  malformed extensions, users, usages, durations. If both programs are given the same flags, or
  neither is, the driver's requests are approved (`DriverRequestApproved`), except under a duration
  of zero, which to the driver means an hour and to the approver zero, and under trust domains that are not
  the same after `url.Parse`, `String()` and the parsing of the CSR; custom
  annotations never displace the identity. `Evaluate` approves nothing that is not `Acceptable`,
  and denies nothing acceptable that is encoded as usual (`ApprovesAcceptable`). A driver that can
  never have an issuer does not start, so that a pod with a proper token is refused for the time being
  only (`RefusesForNow`). There is one other reason: the trust domain is not parsed at the start, and a driver
  given one of which no URL can be made starts and refuses every pod. The same run has the time: a certificate does not expire on the pod
  (`RenewedInTime`), although chains are malformed, writes fail and the driver dies between any two
  steps, if a third of its lifetime is time enough for a renewal; and what is scheduled is scheduled
  at two thirds of the life of the certificate on file (`RenewalAtTwoThirds`), later for lifetimes
  longer than a `time.Duration` can say. A crash between the two writes leaves a time in the
  past, which means a renewal at once.

### What the code does not do

Each of these runs ends in a counterexample to something a comment, a document
or a test says; `findings` in `PROJECT.json` quotes it.

* `CAManagerSelfBlock`: two notifications taken in a row leave `run` sending to
  itself; the bundle is not distributed, and `Driver.Run`, which waits for `run`,
  does not return. Two notifications close together need no unusual input: a file
  written in place is truncated and then filled, and each half can be broadcast.
* `CADistTornPair`: a renewal between the two reads of a pass leaves a key that does
  not fit the certificate.
* `CADistFileName`: `New` does not assign the driver's CA file name.
* `RuntimeConfigMissedDelete`: a deletion while the watch is down is never noticed.
* `ApproverTwice`: another approver approves a request whose first event is still at the filter; the
  filter's cache does not show that yet and lets the event pass; the cache catches up, and `Reconcile`, which does not
  repeat the filter's tests, reads the approved request and stores the opposite condition, under the current
  version. cert-manager's webhook, which is
  not in this repository, may refuse that; the key is then retried until the request is gone.

One more disagreement is visible in the model without a run of its own: the comment on
`start` in `configmap.go` says that it returns when the context is cancelled, but a
`start` that is sleeping then, or sees the closed watch first, goes on opening watches that fail.
The process exits without waiting for it.

### Bounds

Counters cap what the surroundings may do (changes, rotations, issues, errors,
restarts, edits); the processes themselves are not bounded. Two rotations are
needed for the self-block, and four let notifications, buffer and retries all be
non-empty at once. Two issues per volume are needed for a renewal, two bundles
for a rotation and back. Two volumes are enough for a pass that has handled one
and not the other. Two faults allow a break and a failure to reconnect. Two
incidents allow deleting and re-creating a request that is being reconciled, or a lost
answer followed by a new issuer. With a queue of two the overflow happens. In `Issuance` the
clock goes to 140 minutes in steps of 10: enough for a certificate of 40 or 60 minutes to be renewed
twice and one of 120 to reach its last third; the longest `Duration` is 90, so that 120 saturates; a
certificate may begin 20 minutes before it is issued, which for 40 is half its life. The command
lines give each flag that matters to both programs, to neither, or to one, with trust domains that are plain, have a path, are
printed differently, cannot be parsed, encoded or accepted by crypto/x509. Deadlock checking is off
where the bounded surroundings, a shutdown, or a driver that cannot start really end the behaviour.

### Fairness

Goroutines that can run do run: weak fairness of each process. Go's select
chooses at random among ready cases, hence strong fairness of each of its cases.
Timers fire. A command that starts goes on, or fails; a server that was stopped
returns, and one that was not need not. Signals and restarts are never fair. A failed pass succeeds
at last if it is tried again and again: this is an assumption of `CAManager` and `Driver` only; `CADistTwo`, whose pass is made of store calls, needs
instead that each registered volume is issued a certificate (`IssuedSpec`). The work queue is first in, first
out, so every key has its turn whenever the worker is free: strong fairness of
`Reconcile(r)`. The API server answers. Errors, restarts and edits are never fair.

## Proofs

Every invariant that a passing run checks, and every refinement, is proved. The theorems hold for any sets of
volumes, bundles, requests, command lines, tokens or ConfigMap data and for any bounds; the assumptions are the
named `ASSUME`s of the modules, which TLC evaluates in every run, and hypotheses stated with the theorem.

* `RootCAFileProofs`: type correctness; `WatchIsKept`; `NothingLostSilently`;
  `FileImplementsRootCA`. `WatchKept` is not inductive: `WatchInv` adds that a watch that is gone
  or old has a removal event on its way, or is about to be added again, or an error was logged, or the file was renamed. `ContentInv` adds
  the same for contents that differ from what is served. Refinement:
  only `ReadInitial` and `Reload` publish, only `Consume` subscribes and receives.
* `CAManagerProofs`: type correctness; `TriggersBounded`; `OneRotationNeverBlocks`, which follows from it,
  since a self-block holds two triggers; `RotationsNotForgotten`, from
  `Listening` (a bundle that is stale was published to a subscriber) and `TriggerInv`.
* `DriverProofs`: by the lemma `DriverImplementsLoop` every step of the process is one of `CAManager` or leaves it
  alone, so that the safety theorems of `CAManagerProofs` follow for every process; type correctness; `DriverExitsOnSignal`.
* `CADistributionProofs`: `ManagerImplemented`, every store call of the two writers is a step of `CAManager` or
  leaves it alone, so that its invariants hold here too; type correctness; and the four properties of the volumes.
  `PairsIntact` and `RenewalsScheduled` rest on `FilesInv` (the pair on file was issued together and no
  later one is scheduled, unless the volume `raced`), which needs `PassInv`: what a pass has read of a volume is
  still there, or the volume was renewed or unpublished meanwhile. `FilesAlwaysComplete` adds `HasCA`.
  `VolumesCurrentAtRest` rests on `CAInv`: unless a bundle went unheard, all volumes are fresh when no bundle waits to be
  distributed, and during a pass that no rotation has overtaken those it has done are. The hypotheses are about file names (`PairNames`: certificate, key
  and root CAs have different ones; `CAName`: the driver and the pass use one name for the root CAs). `DefaultNames`
  shows that they hold if the flags are not given; without `CAName` the conclusion is false, as `CADistFileName` shows.
* `RuntimeConfigProofs`: type correctness; `IssuerNeverMixed`; `ConfigMapUsed`; `ConfigMapFollowed`; `ConfigMapImplementsSource`.
  `StreamInv` says that handling the rest of an open stream ends with the ConfigMap as it is: its last
  event that carries data carries the current data. `FollowInv` says the same of the issuer: unless a change was
  missed, the last event of the stream that matters leads to the issuer that is wanted, and if none matters it is active.
* `ApproverProofs`: type correctness; `InvHolds`; `VerdictsAreCurrent`; `VerdictsStand`;
  `NoRequestForgotten`. `Inv` says that what cache and watch hold of a request are
  earlier states of it, the newest being the current one, that a state with the
  current version is the current state, and that a verdict about to be written
  was reached on the state it was read with. With that, a write under the current
  version writes a verdict on the current state. What a former leader may still write
  is held to the same (`Founded`), and stays so whatever happens meanwhile (`StaysFounded`). `VerdictInv`
  adds that as long as no annotation and no issuer changed, every condition of ours, stored or about to be, is
  the one that the request's annotation and issuer lead to.
* `EvaluatorProofs`: `EvaluateIsSound`, for every request and every evaluator, if `Evaluate` says yes
  the request is `Acceptable`; `EvaluateIsComplete`, the converse for requests that are `Canonical`: encoded as usual, and no name
  improper. The two differ because the code is stricter than `Acceptable` on padding bits and on malformed
  extensions. The lemmas are the parts: what the masks let pass asserts digital signature and key encipherment
  at most (`MaskedUsages`), and all that asserts no more passes if it is encoded as usual (`AllowedUsagesPass`; both from the bits of the bytes 128, 32 and of the padding
  byte); the comparison of usages holds for the orderings of the four required ones only (`UsagesCompared`, by counting); the SAN
  check, which looks at tag numbers, and the identity checks, which look at proper names, together mean that the one proper name
  is a URI and the requester's (`IdentityChecked`).
  A request is assumed to be no more than `IsRequest` says: three sequences, and key usages that are bytes.
* `IssuanceProofs`: all properties of the `Issuance` run. `ProgramInv` says that both programs are what their
  command lines make of them and that a running driver without an issuer has a ConfigMap; what is left of the reasons
  to refuse is a trust domain that cannot be parsed (`RefusalsPass`).
  `RequestInv` follows the request through its making: at each stage it is a function of command line and token
  alone (`RequestsAnnotated`). `VerdictInv` says that a verdict is what `Evaluate` says of the object there is; with
  `EvaluateIsSound` and `EvaluateIsComplete` that is `AcceptableApproved`, and with the acceptability of whatever `RequestInv` describes, when
  the flags agree and the trust domain survives, `DriverRequestsApproved`. `TimeInv` says that while an issuance is under
  way the recorded time has passed, so that after the files were replaced the recorded time is either past or that of the
  certificate on file; `RenewalsAtTwoThirds` and `CertificatesRenewedInTime` follow by the arithmetic of
  `NextIssuance`. Assumed: a flag that is given has a value, durations are not negative
  (`CommandLineAssumption`), and `Patience` is at most a third of the longest `Duration`, 97 years (`RenewalAssumption`).

Only model-checked: the liveness properties (`Converges` of both watchers, `DistributedUnlessBlocked`,
`SignalEndsProcess`, `VolumesFollow`, `EventuallyDecided`), since fairness is out of the prover's reach.

## Not modelled

* csi-lib, cert-manager, controller-runtime, client-go, fsnotify and the API server,
  beyond what the code here relies on; their definitions are marked external in the map.
* The time in `CADistribution`: metadata there holds which certificate it was computed for; `Renewal` has the
  time, for one volume.
* The gRPC server beyond its being started, stopped and failing; sockets, probes, metrics, readiness;
  building Kubernetes clients beyond its failing; usage texts, log settings, version information.
* The ways in which a CSR or an extension can fail to be decoded, beyond its being so: each leads to the
  same error. What a trust domain or a name becomes in net/url is a constant, character by character nothing is modelled.
* Namespaces and service accounts are taken to be what Kubernetes allows in their names, except that they may be unparsable:
  net/url does not change them.
* Other things that can happen to the watched file: its directory or a symlink in the path renamed, the volume unmounted.
* The fake evaluator and the integration suite are tests; the Helm chart and Makefiles hold no logic of the program.
* A driver without root CAs is in the model (`HasRootCAs = FALSE`) but has nothing to check.

## Plan

All components with state of their own are modelled, and their safety properties are proved. What remains:

1. `Approver` with an issuer that changes as `ConfigSource` makes it, instead of freely.
2. Theorems across components: what `ConfigSource` guarantees of the configuration that `Issuance` reads.
3. The safety part of the liveness properties, such as what a state in which `VolumesFollow` waits must look like.
