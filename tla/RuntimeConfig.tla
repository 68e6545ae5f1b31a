----------------------------- MODULE RuntimeConfig -----------------------------
(***************************************************************************)
(* runtimeconfig/configmap.go: the issuer that requests are made to,       *)
(* taken from a ConfigMap that is watched, with a static fallback.         *)
(*                                                                         *)
(* The API server is external.  A watch is opened without a resource       *)
(* version: its stream begins with an Added event for a ConfigMap that     *)
(* exists, and then reports every change until it breaks, when events that *)
(* were not read yet may be lost.  The data of a ConfigMap is a function   *)
(* from the keys it has to their values.                                   *)
(***************************************************************************)
EXTENDS Naturals, Sequences

CONSTANTS
  Data,                  \* what the ConfigMap can hold
  Empty,                 \* the empty string, as a value of a key
  Static,                \* the fallback, from the command line
  Absent,                \* there is no ConfigMap
  MaxChanges,            \* bound on the changes of the ConfigMap
  MaxFaults              \* bound on failed and broken watches

issuerNameKey == "issuer-name"
issuerKindKey == "issuer-kind"
issuerGroupKey == "issuer-group"
Keys == {issuerNameKey, issuerKindKey, issuerGroupKey}

\* The data that handleChange accepts, key by key.
Complete(d) == \A k \in Keys : k \in DOMAIN d /\ d[k] # Empty

\* The Config made of it: the three keys, whatever else the ConfigMap has.
ConfigOf(d) == [k \in Keys |-> d[k]]

ASSUME ConfigAssumption ==
  /\ Absent \notin Data
  /\ DOMAIN Static = Keys
  /\ MaxChanges \in Nat
  /\ MaxFaults \in Nat

VARIABLES
  cm,                    \* the ConfigMap at the API server, or Absent
  open,                  \* does the API server feed the watch?
  stream,                \* events on their way to watcher.ResultChan()
  pc,                    \* where start() is
  active,                \* what Config() returns
  cancelled,             \* ctx is done
  changes, faults,       \* counted for the bounds
  held,                  \* the complete data the ConfigMap has ever held
  want,                  \* the last of it since the ConfigMap was deleted
  gap                    \* has a change been missed?

apiVars == <<cm, changes, held, want>>
vars == <<apiVars, open, stream, pc, active, cancelled, faults, gap>>

\* "Other" stands for the events start() only logs: Bookmark, Error, unknown.
Event == [type : {"Added", "Modified"}, data : Data] \cup [type : {"Deleted", "Other"}]

TypeOK ==
  /\ cm \in Data \cup {Absent}
  /\ open \in BOOLEAN
  /\ stream \in Seq(Event)
  /\ pc \in {"watch", "sleep", "select", "stopped"}
  /\ DOMAIN active = Keys
  /\ held \subseteq {d \in Data : Complete(d)}
  /\ cancelled \in BOOLEAN /\ gap \in BOOLEAN
  /\ changes \in 0..MaxChanges /\ faults \in 0..MaxFaults

\* handleChange's view of an existing ConfigMap.
Wanted(d, old) == IF Complete(d) THEN ConfigOf(d) ELSE old

Init ==
  /\ cm \in Data \cup {Absent}
  /\ open = FALSE /\ stream = <<>>
  /\ pc = "watch"
  /\ active = Static
  /\ cancelled = FALSE
  /\ changes = 0 /\ faults = 0
  /\ held = {d \in Data : d = cm /\ Complete(d)}
  /\ want = IF cm = Absent THEN Static ELSE Wanted(cm, Static)
  /\ gap = FALSE

-----------------------------------------------------------------------------
(* start() *)

\* k8sClient.Watch succeeds; it cannot with a context that is done.
Watch ==
  /\ pc = "watch"
  /\ ~cancelled
  /\ pc' = "select"
  /\ open' = TRUE
  /\ stream' = IF cm = Absent THEN <<>> ELSE <<[type |-> "Added", data |-> cm]>>
  /\ UNCHANGED <<apiVars, active, cancelled, faults, gap>>

\* k8sClient.Watch fails: sleep, whether or not the context is done.
WatchFails ==
  /\ pc = "watch"
  /\ pc' = "sleep"
  /\ \/ cancelled /\ UNCHANGED faults
     \/ ~cancelled /\ faults < MaxFaults /\ faults' = faults + 1
  /\ UNCHANGED <<apiVars, open, stream, active, cancelled, gap>>

Wake ==
  /\ pc = "sleep"
  /\ pc' = "watch"
  /\ UNCHANGED <<apiVars, open, stream, active, cancelled, faults, gap>>

\* Mutation: Added events are taken for the list that precedes a watch.
ActiveAfterIgnoringAdded(e) ==
  CASE e.type = "Deleted"  -> Static
    [] e.type = "Modified" -> Wanted(e.data, active)
    [] OTHER               -> active

\* Mutation: the data is kept with all the keys it has.
ActiveAfterRaw(e) ==
  CASE e.type = "Deleted" -> Static
    [] e.type \in {"Added", "Modified"} -> IF Complete(e.data) THEN e.data ELSE active
    [] OTHER -> active

\* Mutation: an incomplete ConfigMap is taken as it is, key by key.
ActiveAfterUnchecked(e) ==
  CASE e.type = "Deleted" -> Static
    [] e.type \in {"Added", "Modified"} ->
         [k \in Keys |-> IF k \in DOMAIN e.data THEN e.data[k] ELSE Empty]
    [] OTHER -> active

\* Mutation: the deletion of the ConfigMap is only logged.
ActiveAfterKeepingDeleted(e) ==
  IF e.type \in {"Added", "Modified"} THEN Wanted(e.data, active) ELSE active

\* Mutation: a deletion leaves no issuer, whatever the static one.
ActiveAfterCleared(e) ==
  CASE e.type = "Deleted"               -> [k \in Keys |-> Empty]
    [] e.type \in {"Added", "Modified"} -> Wanted(e.data, active)
    [] OTHER                            -> active

\* handleDeletion and handleChange; an incomplete ConfigMap changes nothing.
ActiveAfter(e) ==
  CASE e.type = "Deleted"               -> Static
    [] e.type \in {"Added", "Modified"} -> Wanted(e.data, active)
    [] e.type = "Other"                 -> active

Handle ==
  /\ pc = "select"
  /\ stream # <<>>
  /\ active' = ActiveAfter(Head(stream))
  /\ stream' = Tail(stream)
  /\ UNCHANGED <<apiVars, open, pc, cancelled, faults, gap>>

\* Mutation: the channel is closed and start() gives up.
ClosedStops ==
  /\ pc = "select"
  /\ ~open /\ stream = <<>>
  /\ pc' = "stopped"
  /\ UNCHANGED <<apiVars, open, stream, active, cancelled, faults, gap>>

\* The channel is closed and drained: watch again.
Closed ==
  /\ pc = "select"
  /\ ~open /\ stream = <<>>
  /\ pc' = "watch"
  /\ UNCHANGED <<apiVars, open, stream, active, cancelled, faults, gap>>

CtxDone ==
  /\ pc = "select"
  /\ cancelled
  /\ pc' = "stopped"
  /\ open' = FALSE
  /\ stream' = <<>>
  /\ UNCHANGED <<apiVars, active, cancelled, faults, gap>>

Cancel ==
  /\ ~cancelled
  /\ cancelled' = TRUE
  /\ UNCHANGED <<apiVars, open, stream, pc, active, faults, gap>>

-----------------------------------------------------------------------------
(* The API server (external). *)

Notify(e) == stream' = IF open THEN Append(stream, e) ELSE stream

ApiChange(c, e) ==
  /\ changes < MaxChanges
  /\ changes' = changes + 1
  /\ cm' = c
  /\ Notify(e)
  /\ gap' = (gap \/ ~open)
  /\ UNCHANGED <<open, pc, active, cancelled, faults>>

Put(d) ==
  /\ d # cm
  /\ ApiChange(d, [type |-> IF cm = Absent THEN "Added" ELSE "Modified", data |-> d])
  /\ held' = held \cup (IF Complete(d) THEN {d} ELSE {})
  /\ want' = Wanted(d, want)

Delete ==
  /\ cm # Absent
  /\ ApiChange(Absent, [type |-> "Deleted"])
  /\ want' = Static
  /\ UNCHANGED held

OtherEvent ==
  /\ changes < MaxChanges
  /\ changes' = changes + 1
  /\ open
  /\ Notify([type |-> "Other"])
  /\ UNCHANGED <<cm, held, want, open, pc, active, cancelled, faults, gap>>

\* The connection breaks after the first n of the events on their way; that of
\* a context that is done is closed by the client.
Break(n) ==
  /\ open
  /\ open' = FALSE
  /\ n <= Len(stream)
  /\ stream' = SubSeq(stream, 1, n)
  /\ gap' = (gap \/ n < Len(stream))
  /\ \/ cancelled /\ UNCHANGED faults
     \/ ~cancelled /\ faults < MaxFaults /\ faults' = faults + 1
  /\ UNCHANGED <<apiVars, pc, active, cancelled>>

-----------------------------------------------------------------------------
Start == Watch \/ WatchFails \/ Wake \/ Handle \/ Closed \/ CtxDone
Api == Delete \/ OtherEvent \/ \E d \in Data : Put(d)
BreakSome == \E n \in 0..(MaxChanges + 1) : Break(n)

Next == Start \/ Cancel \/ Api \/ BreakSome

Spec == Init /\ [][Next]_vars

\* The goroutine keeps running, its select takes every case that is ready again
\* and again, and the client closes the watch of a context that is done.
FairSpec ==
  /\ Spec
  /\ WF_vars(Start)
  /\ SF_vars(Handle) /\ SF_vars(CtxDone)
  /\ WF_vars(cancelled /\ BreakSome)

-----------------------------------------------------------------------------
(* Properties *)

\* start() has seen everything the API server has for it.
Settled == pc = "select" /\ open /\ stream = <<>>

\* Once start() has caught up with a complete ConfigMap it uses it, whatever
\* watches failed or broke and whatever was missed.
UsesConfigMap == Settled /\ cm # Absent /\ Complete(cm) => active = ConfigOf(cm)

\* As long as no change was missed, catching up means using the last complete
\* contents since the ConfigMap was deleted: the static configuration after a
\* deletion, and the one before while the ConfigMap is incomplete.
FollowsConfigMap == Settled /\ ~gap => active = want

\* No issuer is ever made up of the parts of different versions of the
\* ConfigMap: the active one is the static one or was complete at one time.
NeverMixed == active = Static \/ \E d \in held : active = ConfigOf(d)

\* The configuration as users of runtimeconfig.Interface see it.
Source == INSTANCE ConfigSource WITH
  Configs <- {Static} \cup {ConfigOf(d) : d \in {c \in Data : Complete(c)}},
  initial <- Static,
  running <- pc # "stopped"

\* A watched ConfigMap is a runtimeconfig.Interface like the one in memory: what
\* it adopts is a whole configuration, in one step, and nothing once start() has
\* returned.
ImplementsSource == Source!Spec

\* When the ConfigMap stays complete it is used in the end.
Converges == <>[](cancelled \/ (cm # Absent /\ Complete(cm) => active = ConfigOf(cm)))

\* With the ConfigMap deleted, the active configuration is the static one.
RevertsWhenDeleted == Settled /\ cm = Absent => active = Static
=============================================================================
