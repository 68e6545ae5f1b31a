------------------------------- MODULE Approver -------------------------------
(***************************************************************************)
(* approver/controller: CertificateRequests are approved or denied.        *)
(*                                                                         *)
(* The API server holds the requests; every change of one is sent to the   *)
(* informer, which changes its cache and then tells the controller.  The   *)
(* event filter drops or queues the key, and one worker runs Reconcile,    *)
(* which reads the cache, decides and writes the status back under the     *)
(* version it read.  Filter, Reconcile and write each see the request at a *)
(* different moment.  Several replicas elect a leader, which is the one    *)
(* that works; when another takes over, a write of the old leader may      *)
(* still be on its way.                                                    *)
(*                                                                         *)
(* What Evaluate says of a request, its URI SANs and its issuer come from  *)
(* its spec, which does not change; the annotations do.                    *)
(***************************************************************************)
EXTENDS Naturals, Sequences

CONSTANTS
  Request,               \* names of CertificateRequests
  Accepted,              \* those for which Evaluate returns no error
  SpiffeSAN,             \* those whose CSR has a URI with scheme spiffe
  IssuerRefs, Issuer,    \* the issuers, and which one a request is for
  AutoApproveNonSPIFFE,
  MaxIncidents           \* bound on what the surroundings do, errors and restarts

ASSUME ApproverAssumption ==
  /\ Accepted \subseteq Request /\ SpiffeSAN \subseteq Request
  /\ Issuer \in [Request -> IssuerRefs]
  /\ AutoApproveNonSPIFFE \in BOOLEAN
  /\ MaxIncidents \in Nat

VARIABLES
  api,       \* the requests in the API server
  watch,     \* per request, the states of it on their way to the informer
  cache,     \* the requests in the informer's cache
  events,    \* per request, how many events the controller is yet to filter
  queued,    \* the work queue, with what waits there to be retried
  work,      \* what Reconcile is about to write, <<>> or one record
  late,      \* likewise, what a former leader was about to write
  config,    \* runtimeConfig.Config().IssuerRef
  count      \* the incidents so far, and those that change what a verdict rests on

vars == <<api, watch, cache, events, queued, work, late, config, count>>

Kinds == {"Approved", "Denied"}
Reasons == {"none", "spiffe.csi.cert-manager.io", "other"}
Us == "spiffe.csi.cert-manager.io"

Objects == [exists : BOOLEAN, rv : Nat, annotated : BOOLEAN, conds : [Kinds -> Reasons]]

NoConds == [k \in Kinds |-> "none"]
Fresh(e, a) == [exists |-> e, rv |-> 0, annotated |-> a, conds |-> NoConds]
Decided(o) == \E k \in Kinds : o.conds[k] # "none"

\* The filter's test of a request it can read.
Matches(o) == o.exists /\ ~Decided(o) /\ (o.annotated \/ AutoApproveNonSPIFFE)

\* Something happens that the bound counts; an InputIncident changes the issuer
\* configured or an annotation.
Incident == count.all < MaxIncidents /\ count' = [count EXCEPT !.all = @ + 1]
InputIncident == count.all < MaxIncidents /\ count' = [all |-> count.all + 1, inputs |-> count.inputs + 1]

TypeOK ==
  /\ api \in [Request -> Objects]
  /\ watch \in [Request -> Seq(Objects)]
  /\ cache \in [Request -> Objects]
  /\ events \in [Request -> Nat]
  /\ queued \subseteq Request
  /\ \A w \in {work, late} : w \in Seq([r : Request, read : Objects, kind : Kinds]) /\ Len(w) <= 1
  /\ config \in IssuerRefs
  /\ count \in [all : Nat, inputs : Nat]

Init ==
  /\ api \in [Request -> {Fresh(FALSE, FALSE), Fresh(TRUE, FALSE), Fresh(TRUE, TRUE)}]
  /\ watch = [r \in Request |-> <<>>]
  /\ cache = api
  /\ events = [r \in Request |-> IF api[r].exists THEN 1 ELSE 0]
  /\ queued = {}
  /\ work = <<>> /\ late = <<>>
  /\ config \in IssuerRefs
  /\ count = [all |-> 0, inputs |-> 0]

-----------------------------------------------------------------------------
(* The API server, its other users and the informer (external). *)

\* Request r is now o, a new version of it, and the informer will hear of it.
Store(r, o) ==
  LET new == [o EXCEPT !.rv = api[r].rv + 1] IN
  /\ api' = [api EXCEPT ![r] = new]
  /\ watch' = [watch EXCEPT ![r] = Append(@, new)]

Create(r) ==
  /\ ~api[r].exists
  /\ \E a \in BOOLEAN : Store(r, Fresh(TRUE, a))
  /\ Incident
  /\ UNCHANGED <<cache, events, queued, work, config>>

\* An edit of something the approver does not look at.
Touch(r) ==
  /\ api[r].exists
  /\ Store(r, api[r])
  /\ Incident
  /\ UNCHANGED <<cache, events, queued, work, config>>

Annotate(r) ==
  /\ api[r].exists
  /\ Store(r, [api[r] EXCEPT !.annotated = ~@])
  /\ InputIncident
  /\ UNCHANGED <<cache, events, queued, work, config>>

Delete(r) ==
  /\ api[r].exists
  /\ Store(r, Fresh(FALSE, FALSE))
  /\ Incident
  /\ UNCHANGED <<cache, events, queued, work, config>>

\* Another approver decides.
Decide(r) ==
  /\ api[r].exists /\ ~Decided(api[r])
  /\ \E k \in Kinds : Store(r, [api[r] EXCEPT !.conds[k] = "other"])
  /\ Incident
  /\ UNCHANGED <<cache, events, queued, work, config>>

\* The informer gets the next state of r, and there is an event for it.
Deliver(r) ==
  /\ watch[r] # <<>>
  /\ cache' = [cache EXCEPT ![r] = Head(watch[r])]
  /\ watch' = [watch EXCEPT ![r] = Tail(@)]
  /\ events' = [events EXCEPT ![r] = @ + 1]
  /\ UNCHANGED <<api, queued, work, config, count>>

\* The runtime configuration names another issuer.
ConfigChange ==
  /\ config' \in IssuerRefs \ {config}
  /\ InputIncident
  /\ UNCHANGED <<api, watch, cache, events, queued, work>>

-----------------------------------------------------------------------------
(* controller.go *)

\* Mutation: only annotated requests pass.
FilterAnnotated(r) ==
  /\ events[r] > 0
  /\ events' = [events EXCEPT ![r] = @ - 1]
  /\ queued' = IF Matches(cache[r]) /\ cache[r].annotated THEN queued \cup {r} ELSE queued
  /\ UNCHANGED <<api, watch, cache, work, config, count>>

\* The event filter of AddApprover looks the request of an event up.
Filter(r) ==
  /\ events[r] > 0
  /\ events' = [events EXCEPT ![r] = @ - 1]
  /\ queued' = IF Matches(cache[r]) THEN queued \cup {r} ELSE queued
  /\ UNCHANGED <<api, watch, cache, work, config, count>>

\* Another replica takes over, or the process is started again: the informer
\* lists all requests before anything else.
Relisted ==
  /\ watch' = [r \in Request |-> <<>>]
  /\ cache' = api
  /\ events' = [r \in Request |-> IF api[r].exists THEN 1 ELSE 0]
  /\ queued' = {} /\ work' = <<>>
  /\ config' \in IssuerRefs
  /\ IF config' = config THEN Incident ELSE InputIncident
  /\ UNCHANGED api

\* The filter cannot look it up, and exits.
FilterExits ==
  /\ \E r \in Request : events[r] > 0
  /\ Relisted

\* Mutation: a request that is decided already is denied.
VerdictDeniesDecided(r, read) ==
  IF Decided(read) \/ (IF read.annotated THEN r \notin Accepted ELSE r \in SpiffeSAN \/ Issuer[r] = config)
    THEN "Denied" ELSE "Approved"

\* The condition Reconcile sets on a request it has read.
Verdict(r, read) ==
  CASE read.annotated /\ r \in Accepted     -> "Approved"
    [] read.annotated /\ r \notin Accepted  -> "Denied"
    [] ~read.annotated /\ (r \in SpiffeSAN \/ Issuer[r] = config) -> "Denied"
    [] OTHER                                -> "Approved"

\* Mutation: a worker does not wait for another.
ReconcileConcurrent(r) ==
  /\ r \in queued
  /\ queued' = queued \ {r}
  /\ work' = Append(work, [r |-> r, read |-> cache[r], kind |-> Verdict(r, cache[r])])
  /\ UNCHANGED <<api, watch, cache, events, config, count>>

\* Reconcile up to its status update; a request that is gone is ignored.
Reconcile(r) ==
  /\ work = <<>> /\ r \in queued
  /\ queued' = queued \ {r}
  /\ work' = IF cache[r].exists
               THEN <<[r |-> r, read |-> cache[r], kind |-> Verdict(r, cache[r])]>>
               ELSE <<>>
  /\ UNCHANGED <<api, watch, cache, events, config, count>>

\* Reconcile cannot read the cache: the key is queued again.
ReconcileFails(r) ==
  /\ work = <<>> /\ r \in queued
  /\ Incident
  /\ UNCHANGED <<api, watch, cache, events, queued, work, config>>

\* The status with the condition set (apiutil.SetCertificateRequestCondition).
SetCondition(w) == [w.read.conds EXCEPT ![w.kind] = Us]

\* The API server takes a status under the current version only, and a status
\* that changes nothing is no new version.
Written(w) ==
  /\ api[w.r].exists /\ api[w.r].rv = w.read.rv
  /\ IF SetCondition(w) = api[w.r].conds
       THEN UNCHANGED <<api, watch>>
       ELSE Store(w.r, [api[w.r] EXCEPT !.conds = SetCondition(w)])

Update ==
  /\ work # <<>>
  /\ Written(work[1])
  /\ work' = <<>>
  /\ UNCHANGED <<cache, events, queued, config, count>>

\* The status is written but the answer is lost.
UpdateUnanswered ==
  /\ work # <<>> /\ Incident
  /\ Written(work[1])
  /\ work' = <<>>
  /\ queued' = queued \cup {work[1].r}
  /\ UNCHANGED <<cache, events, config>>

\* The request has changed or is gone: the error makes the queue try again.
UpdateConflicts ==
  /\ work # <<>>
  /\ ~(api[work[1].r].exists /\ api[work[1].r].rv = work[1].read.rv)
  /\ work' = <<>>
  /\ queued' = queued \cup {work[1].r}
  /\ UNCHANGED <<api, watch, cache, events, config, count>>

\* Mutation: the error is logged and not returned.
UpdateFailsDropped ==
  /\ work # <<>> /\ Incident
  /\ work' = <<>>
  /\ UNCHANGED <<api, watch, cache, events, queued, config>>

UpdateFails ==
  /\ work # <<>> /\ Incident
  /\ work' = <<>>
  /\ queued' = queued \cup {work[1].r}
  /\ UNCHANGED <<api, watch, cache, events, config>>

-----------------------------------------------------------------------------
\* The steps with one leader.
LeaderNext ==
  \/ \E r \in Request :
       Create(r) \/ Touch(r) \/ Annotate(r) \/ Delete(r) \/ Decide(r) \/ Deliver(r)
       \/ Filter(r) \/ Reconcile(r) \/ ReconcileFails(r)
  \/ ConfigChange
  \/ Update \/ UpdateUnanswered \/ UpdateConflicts \/ UpdateFails

\* The leader is gone; what it was about to write is not.
TakeOver ==
  /\ FilterExits \/ Relisted
  /\ late' = IF work = <<>> THEN late ELSE work

\* Mutation: the write does not say which version it is for.
LateWriteForced ==
  /\ late # <<>> /\ api[late[1].r].exists
  /\ Store(late[1].r, [api[late[1].r] EXCEPT !.conds = SetCondition(late[1])])
  /\ late' = <<>>
  /\ UNCHANGED <<cache, events, queued, work, config, count>>

\* The write of a former leader arrives, if ever.
LateWrite ==
  /\ late # <<>>
  /\ Written(late[1])
  /\ late' = <<>>
  /\ UNCHANGED <<cache, events, queued, work, config, count>>

Next == (LeaderNext /\ UNCHANGED late) \/ TakeOver \/ LateWrite

Spec == Init /\ [][Next]_vars

-----------------------------------------------------------------------------
(* What the approver promises. *)

\* No request is forgotten: one that waits for a decision is on its way to the
\* worker, however filtering, conflicts, errors and restarts fall together.
NoneForgotten ==
  \A r \in Request :
    Matches(api[r]) =>
      watch[r] # <<>> \/ events[r] > 0 \/ r \in queued \/ (work # <<>> /\ work[1].r = r)

\* A request is approved on what it is when the approval is stored, never on an
\* older state of it that the cache held, or that a former leader read.
VerdictIsCurrent ==
  [][\A r \in Request :
       api'[r].conds["Approved"] = Us /\ api[r].conds["Approved"] # Us =>
         r \in (IF api[r].annotated THEN Accepted ELSE Request \ SpiffeSAN)]_vars

\* Reconciling again, after a lost answer, an extra event or a restart, does not
\* contradict the first verdict unless what it depends on has changed.
VerdictStands ==
  \A r \in Request :
    api[r].conds["Approved"] = Us /\ api[r].conds["Denied"] = Us =>
      count.inputs > 0


-----------------------------------------------------------------------------
(* Fairness: the informer and the filter go on, the queue hands out each key in *)
(* its turn whenever the worker is free, and the API server answers.           *)

Fairness ==
  /\ \A r \in Request : WF_vars(Deliver(r) /\ UNCHANGED late) /\ WF_vars(Filter(r) /\ UNCHANGED late)
                       /\ SF_vars(Reconcile(r) /\ UNCHANGED late)
  /\ WF_vars(Update /\ UNCHANGED late) /\ WF_vars(UpdateConflicts /\ UNCHANGED late)

FairSpec == Spec /\ Fairness

\* A request that waits for a decision gets one, if it keeps waiting.
EventuallyDecided == \A r \in Request : Matches(api[r]) ~> ~Matches(api[r])
=============================================================================
