---------------------------- MODULE ApproverProofs ----------------------------
(***************************************************************************)
(* Theorems about approver/controller for any set of requests, any edits,  *)
(* decisions of others, configurations, errors and restarts.               *)
(***************************************************************************)
EXTENDS Approver, TLAPS

WorkItem == [r : Request, read : Objects, kind : Kinds]

-----------------------------------------------------------------------------
(* What a step does to the API server, the watch and the cache. *)

EditStep == \E r \in Request, o \in Objects : Store(r, o) /\ cache' = cache
QuietStep == UNCHANGED <<api, watch, cache>>
DeliverStep == \E r \in Request : Deliver(r)

LEMMA StoredConds ==
  ASSUME TypeOK, NEW r \in Request, NEW o \in Objects, Store(r, o)
  PROVE  api'[r].conds = o.conds /\ \A q \in Request \ {r} : api'[q] = api[q]
<1>1. api' = [api EXCEPT ![r] = [o EXCEPT !.rv = api[r].rv + 1]]
  BY DEF Store
<1>2. [o EXCEPT !.rv = api[r].rv + 1].conds = o.conds
  BY DEF Objects
<1> QED BY <1>1, <1>2 DEF TypeOK

LEMMA TailFacts ==
  ASSUME NEW S, NEW s \in Seq(S), s # <<>>
  PROVE  /\ Head(s) = s[1] /\ Head(s) \in S /\ Len(s) \in Nat /\ Len(s) > 0
         /\ Tail(s) \in Seq(S) /\ Len(Tail(s)) = Len(s) - 1
         /\ Tail(s) = <<>> <=> Len(s) = 1
         /\ \A i \in 1..(Len(s) - 1) : Tail(s)[i] = s[i + 1]
<1>1. Len(s) \in Nat /\ Len(s) > 0
  OBVIOUS
<1>2. Tail(s) \in Seq(S) /\ Len(Tail(s)) = Len(s) - 1
  OBVIOUS
<1>3. Head(s) = s[1] /\ Head(s) \in S
  BY <1>1
<1>4. \A i \in 1..(Len(s) - 1) : Tail(s)[i] = s[i + 1]
  BY <1>1
<1>5. Tail(s) = <<>> <=> Len(s) = 1
  <2>1. \A t \in Seq(S) : t = <<>> <=> Len(t) = 0
    OBVIOUS
  <2>2. Tail(s) = <<>> <=> Len(Tail(s)) = 0
    BY <1>2, <2>1
  <2> QED BY <1>1, <1>2, <2>2
<1> QED BY <1>1, <1>2, <1>3, <1>4, <1>5

LEMMA FreshType == \A e, a \in BOOLEAN : Fresh(e, a) \in Objects
BY DEF Fresh, Objects, NoConds, Kinds, Reasons

LEMMA SetConditionType == \A w \in WorkItem : SetCondition(w) \in [Kinds -> Reasons]
BY DEF SetCondition, WorkItem, Objects, Us, Reasons

LEMMA WorkType ==
  ASSUME TypeOK
  PROVE  (work # <<>> => work[1] \in WorkItem) /\ (late # <<>> => late[1] \in WorkItem)
<1>1. ASSUME NEW s \in Seq(WorkItem), s # <<>> PROVE s[1] \in WorkItem
  BY <1>1, TailFacts
<1>2. work \in Seq(WorkItem) /\ late \in Seq(WorkItem)
  BY DEF TypeOK, WorkItem
<1> QED BY <1>1, <1>2

\* A status update stores a new state of the request, or changes nothing.
LEMMA WrittenEffect ==
  ASSUME TypeOK, NEW w \in WorkItem, Written(w), cache' = cache
  PROVE  EditStep \/ QuietStep
<1>2. CASE SetCondition(w) = api[w.r].conds
  BY <1>2 DEF Written, QuietStep
<1>3. CASE SetCondition(w) # api[w.r].conds
  <2>1. [api[w.r] EXCEPT !.conds = SetCondition(w)] \in Objects
    BY SetConditionType DEF TypeOK, Objects, WorkItem
  <2> QED BY <1>3, <2>1 DEF Written, EditStep, WorkItem
<1> QED BY <1>2, <1>3

LEMMA Effect == TypeOK /\ [Next]_vars => EditStep \/ QuietStep \/ DeliverStep \/ Relisted
<1> SUFFICES ASSUME TypeOK, [Next]_vars PROVE EditStep \/ QuietStep \/ DeliverStep \/ Relisted
  OBVIOUS
<1>1. ASSUME NEW r \in Request, Create(r) PROVE EditStep
  BY <1>1, FreshType DEF Create, EditStep
<1>2. ASSUME NEW r \in Request, Touch(r) PROVE EditStep
  BY <1>2 DEF Touch, EditStep, TypeOK
<1>3. ASSUME NEW r \in Request, Annotate(r) PROVE EditStep
  <2>1. [api[r] EXCEPT !.annotated = ~@] \in Objects
    BY DEF TypeOK, Objects
  <2> QED BY <1>3, <2>1 DEF Annotate, EditStep
<1>4. ASSUME NEW r \in Request, Delete(r) PROVE EditStep
  BY <1>4, FreshType DEF Delete, EditStep
<1>5. ASSUME NEW r \in Request, Decide(r) PROVE EditStep
  <2>1. ASSUME NEW k \in Kinds PROVE [api[r] EXCEPT !.conds[k] = "other"] \in Objects
    BY <2>1 DEF TypeOK, Objects, Reasons
  <2> QED BY <1>5, <2>1 DEF Decide, EditStep
<1>6. CASE Update \/ UpdateUnanswered
  BY <1>6, WorkType, WrittenEffect DEF Update, UpdateUnanswered
<1>7. CASE LateWrite
  BY <1>7, WorkType, WrittenEffect DEF LateWrite
<1>8. CASE ConfigChange \/ UpdateConflicts \/ UpdateFails \/ UNCHANGED vars
  BY <1>8 DEF ConfigChange, UpdateConflicts, UpdateFails, vars, QuietStep
<1>9. ASSUME NEW r \in Request, Filter(r) \/ Reconcile(r) \/ ReconcileFails(r) PROVE QuietStep
  BY <1>9 DEF Filter, Reconcile, ReconcileFails, QuietStep
<1> QED BY <1>1, <1>2, <1>3, <1>4, <1>5, <1>6, <1>7, <1>8, <1>9 DEF Next, LeaderNext, TakeOver, FilterExits, DeliverStep

LEMMA StoreType ==
  ASSUME TypeOK, NEW r \in Request, NEW o \in Objects, Store(r, o)
  PROVE  /\ api' \in [Request -> Objects]
         /\ watch' \in [Request -> Seq(Objects)]
         /\ api'[r].rv = api[r].rv + 1
         /\ \A q \in Request \ {r} : api'[q] = api[q] /\ watch'[q] = watch[q]
         /\ watch'[r] = Append(watch[r], api'[r])
<1> DEFINE new == [o EXCEPT !.rv = api[r].rv + 1]
<1>0. api[r] \in Objects
  BY DEF TypeOK
<1>1. new \in Objects /\ new.rv = api[r].rv + 1
  <2>1. api[r].rv + 1 \in Nat
    BY <1>0 DEF Objects
  <2> QED BY <2>1 DEF Objects
<1>2. api' = [api EXCEPT ![r] = new] /\ watch' = [watch EXCEPT ![r] = Append(@, new)]
  BY DEF Store
<1>3. Append(watch[r], new) \in Seq(Objects)
  BY <1>1 DEF TypeOK
<1> HIDE DEF new
<1> QED BY <1>1, <1>2, <1>3 DEF TypeOK

-----------------------------------------------------------------------------
\* The type invariant of the approver's model.
THEOREM TypeCorrect == Spec => []TypeOK
<1>1. Init => TypeOK
  <2> SUFFICES ASSUME Init PROVE TypeOK
    OBVIOUS
  <2>1. api \in [Request -> Objects]
    BY FreshType DEF Init
  <2>2. <<>> \in Seq(Objects) /\ <<>> \in Seq(WorkItem) /\ Len(<<>>) = 0
    OBVIOUS
  <2> QED BY <2>1, <2>2 DEF Init, TypeOK, WorkItem
<1>2. TypeOK /\ [Next]_vars => TypeOK'
  <2> SUFFICES ASSUME TypeOK, [Next]_vars PROVE TypeOK'
    OBVIOUS
  <2>1. /\ api' \in [Request -> Objects]
        /\ watch' \in [Request -> Seq(Objects)]
        /\ cache' \in [Request -> Objects]
    <3>1. CASE EditStep
      BY <3>1, StoreType DEF EditStep, TypeOK
    <3>2. CASE QuietStep
      BY <3>2 DEF QuietStep, TypeOK
    <3>3. CASE DeliverStep
      <4>1. PICK r \in Request : Deliver(r)
        BY <3>3 DEF DeliverStep
      <4>2. Head(watch[r]) \in Objects /\ Tail(watch[r]) \in Seq(Objects)
        BY <4>1, TailFacts DEF Deliver, TypeOK
      <4> QED BY <4>1, <4>2 DEF Deliver, TypeOK
    <3>4. CASE Relisted
      <4>1. <<>> \in Seq(Objects)
        OBVIOUS
      <4> QED BY <3>4, <4>1 DEF Relisted, TypeOK
    <3> QED BY <3>1, <3>2, <3>3, <3>4, Effect
  <2>2. events' \in [Request -> Nat]
    <3>1. ASSUME NEW r \in Request, Filter(r) PROVE events' \in [Request -> Nat]
      BY <3>1 DEF Filter, TypeOK
    <3>2. ASSUME NEW r \in Request, Deliver(r) PROVE events' \in [Request -> Nat]
      BY <3>2 DEF Deliver, TypeOK
    <3>3. CASE Relisted
      BY <3>3 DEF Relisted
    <3>4. CASE UNCHANGED events
      BY <3>4 DEF TypeOK
    <3> QED BY <3>1, <3>2, <3>3, <3>4
         DEF Next, LeaderNext, TakeOver, LateWrite, vars, Create, Touch, Annotate, Delete, Decide, Reconcile, ReconcileFails, ConfigChange,
             FilterExits, Update, UpdateUnanswered, UpdateConflicts, UpdateFails
  <2>3. queued' \subseteq Request
    <3>1. work # <<>> => work[1].r \in Request
      BY WorkType DEF WorkItem
    <3>2. queued \subseteq Request
      BY DEF TypeOK
    <3>3. ASSUME NEW r \in Request, Filter(r) \/ Reconcile(r) PROVE queued' \subseteq Request
      BY <3>2, <3>3 DEF Filter, Reconcile
    <3>4. CASE UpdateUnanswered \/ UpdateConflicts \/ UpdateFails
      BY <3>1, <3>2, <3>4 DEF UpdateUnanswered, UpdateConflicts, UpdateFails
    <3>5. CASE Relisted \/ UNCHANGED queued
      BY <3>2, <3>5 DEF Relisted
    <3> QED BY <3>3, <3>4, <3>5
         DEF Next, LeaderNext, TakeOver, LateWrite, vars, Create, Touch, Annotate, Delete, Decide, Deliver, ReconcileFails, ConfigChange,
             FilterExits, Update
  <2>4. work' \in Seq(WorkItem) /\ Len(work') <= 1
    <3>0. work \in Seq(WorkItem) /\ Len(work) <= 1
      BY DEF TypeOK, WorkItem
    <3>1. <<>> \in Seq(WorkItem) /\ Len(<<>>) <= 1
      OBVIOUS
    <3>2. ASSUME NEW r \in Request, Reconcile(r) PROVE work' \in Seq(WorkItem) /\ Len(work') <= 1
      <4>1. [r |-> r, read |-> cache[r], kind |-> Verdict(r, cache[r])] \in WorkItem
        BY DEF WorkItem, TypeOK, Verdict, Kinds
      <4> QED BY <3>1, <3>2, <4>1 DEF Reconcile
    <3>3. CASE work' = <<>> \/ UNCHANGED work
      BY <3>0, <3>1, <3>3
    <3> QED BY <3>2, <3>3
         DEF Next, LeaderNext, TakeOver, LateWrite, vars, Create, Touch, Annotate, Delete, Decide, Deliver, Filter, ReconcileFails,
             ConfigChange, FilterExits, Relisted, Update, UpdateUnanswered, UpdateConflicts, UpdateFails
  <2>7. late' \in Seq(WorkItem) /\ Len(late') <= 1
    <3>1. /\ <<>> \in Seq(WorkItem) /\ Len(<<>>) <= 1
          /\ work \in Seq(WorkItem) /\ Len(work) <= 1
          /\ late \in Seq(WorkItem) /\ Len(late) <= 1
      BY DEF TypeOK, WorkItem
    <3>2. late' = late \/ late' = work \/ late' = <<>>
      BY DEF Next, TakeOver, LateWrite, vars
    <3> QED BY <3>1, <3>2
  <2>5. config' \in IssuerRefs
    BY DEF TypeOK, Next, LeaderNext, TakeOver, LateWrite, vars, Create, Touch, Annotate, Delete, Decide, Deliver, Filter, Reconcile,
           ReconcileFails, ConfigChange, FilterExits, Relisted, Update, UpdateUnanswered, UpdateConflicts,
           UpdateFails
  <2>6. count' \in [all : Nat, inputs : Nat]
    <3>1. count \in [all : Nat, inputs : Nat]
      BY DEF TypeOK
    <3>2. CASE Incident \/ InputIncident
      BY <3>1, <3>2 DEF Incident, InputIncident
    <3>3. CASE UNCHANGED count
      BY <3>1, <3>3
    <3> QED BY <3>2, <3>3
         DEF Next, LeaderNext, TakeOver, LateWrite, vars, Create, Touch, Annotate, Delete, Decide, Deliver, Filter, Reconcile, ReconcileFails,
             ConfigChange, FilterExits, Relisted, Update, UpdateUnanswered, UpdateConflicts, UpdateFails
  <2> QED BY <2>1, <2>2, <2>3, <2>4, <2>5, <2>6, <2>7 DEF TypeOK, WorkItem
<1> QED BY <1>1, <1>2, PTL DEF Spec

-----------------------------------------------------------------------------
(* The informer: what is not on its way is in the cache, and a version of a    *)
(* request is one state of it.                                                *)

Latest(r) == IF watch[r] = <<>> THEN cache[r] ELSE watch[r][Len(watch[r])]

\* Object o is a state of r, and the current one if it has the current version.
StateOf(o, r) == o.rv <= api[r].rv /\ (o.rv = api[r].rv => o = api[r])

InformerInv ==
  \A r \in Request :
    /\ Latest(r) = api[r]
    /\ StateOf(cache[r], r)
    /\ \A i \in 1..Len(watch[r]) : StateOf(watch[r][i], r)

LEMMA StoreKeepsStates ==
  ASSUME TypeOK, NEW r \in Request, NEW o \in Objects, Store(r, o),
         NEW q \in Request, NEW x \in Objects, StateOf(x, q)
  PROVE  StateOf(x, q)'
<1>1. api[q].rv \in Nat /\ x.rv \in Nat
  BY DEF TypeOK, Objects
<1>2. CASE q = r
  <2>1. api'[q].rv = api[q].rv + 1
    BY <1>2, StoreType
  <2> QED BY <1>1, <2>1 DEF StateOf
<1>3. CASE q # r
  BY <1>3, StoreType DEF StateOf
<1> QED BY <1>2, <1>3

LEMMA InformerStep == TypeOK /\ InformerInv /\ [Next]_vars => InformerInv'
<1> SUFFICES ASSUME TypeOK, InformerInv, [Next]_vars PROVE InformerInv'
  OBVIOUS
<1>1. CASE EditStep
  <2>1. PICK r \in Request, o \in Objects : Store(r, o) /\ cache' = cache
    BY <1>1 DEF EditStep
  <2> SUFFICES ASSUME NEW q \in Request
      PROVE /\ Latest(q)' = api'[q]
            /\ StateOf(cache[q], q)'
            /\ \A i \in 1..Len(watch'[q]) : StateOf(watch[q][i], q)'
    BY DEF InformerInv
  <2>2. StateOf(cache[q], q)'
    <3>1. StateOf(cache[q], q) /\ cache[q] \in Objects
      BY DEF InformerInv, TypeOK
    <3>2. ASSUME NEW x \in Objects, StateOf(x, q) PROVE StateOf(x, q)'
      BY <2>1, <3>2, StoreKeepsStates
    <3> QED BY <2>1, <3>1, <3>2 DEF StateOf
  <2>3. \A i \in 1..Len(watch[q]) : watch[q][i] \in Objects /\ watch[q][i].rv <= api'[q].rv
                                    /\ (watch[q][i].rv = api'[q].rv => watch[q][i] = api'[q])
    <3>1. TAKE i \in 1..Len(watch[q])
    <3>2. watch[q][i] \in Objects /\ StateOf(watch[q][i], q)
      BY DEF InformerInv, TypeOK
    <3>3. ASSUME NEW x \in Objects, StateOf(x, q) PROVE x.rv <= api'[q].rv /\ (x.rv = api'[q].rv => x = api'[q])
      BY <2>1, <3>3, StoreKeepsStates DEF StateOf
    <3> QED BY <3>2, <3>3
  <2>4. CASE q = r
    <3>1. watch'[q] = Append(watch[q], api'[q]) /\ watch[q] \in Seq(Objects) /\ api'[q] \in Objects
      BY <2>1, <2>4, StoreType DEF TypeOK
    <3>2. /\ Len(watch'[q]) = Len(watch[q]) + 1
          /\ watch'[q] # <<>>
          /\ watch'[q][Len(watch[q]) + 1] = api'[q]
          /\ \A i \in 1..Len(watch[q]) : watch'[q][i] = watch[q][i]
          /\ Len(watch[q]) \in Nat
      BY <3>1
    <3>3. Latest(q)' = api'[q]
      BY <3>2 DEF Latest
    <3>4. ASSUME NEW i \in 1..Len(watch'[q]) PROVE StateOf(watch[q][i], q)'
      <4>1. CASE i \in 1..Len(watch[q])
        BY <2>3, <3>2, <4>1 DEF StateOf
      <4>2. CASE i = Len(watch[q]) + 1
        <5>1. api'[q].rv \in Nat
          BY <3>1 DEF Objects
        <5> QED BY <3>2, <4>2, <5>1 DEF StateOf
      <4> QED BY <3>2, <3>4, <4>1, <4>2
    <3> QED BY <2>2, <3>3, <3>4
  <2>5. CASE q # r
    <3>1. watch'[q] = watch[q] /\ api'[q] = api[q]
      BY <2>1, <2>5, StoreType
    <3> QED BY <2>1, <2>2, <2>3, <3>1 DEF InformerInv, Latest, StateOf
  <2> QED BY <2>4, <2>5
<1>2. CASE QuietStep
  BY <1>2 DEF QuietStep, InformerInv, Latest, StateOf
<1>3. CASE DeliverStep
  <2>1. PICK r \in Request : Deliver(r)
    BY <1>3 DEF DeliverStep
  <2>2. /\ watch[r] \in Seq(Objects) /\ watch[r] # <<>> /\ api' = api
        /\ cache'[r] = Head(watch[r]) /\ watch'[r] = Tail(watch[r])
        /\ \A q \in Request \ {r} : cache'[q] = cache[q] /\ watch'[q] = watch[q]
    BY <2>1 DEF Deliver, TypeOK
  <2> SUFFICES ASSUME NEW q \in Request
      PROVE /\ Latest(q)' = api'[q]
            /\ StateOf(cache[q], q)'
            /\ \A i \in 1..Len(watch'[q]) : StateOf(watch[q][i], q)'
    BY DEF InformerInv
  <2>3. CASE q = r
    <3> DEFINE s == watch[r]
    <3>1. /\ Head(s) = s[1] /\ Len(s) \in Nat /\ Len(s) > 0
          /\ Len(Tail(s)) = Len(s) - 1
          /\ Tail(s) = <<>> <=> Len(s) = 1
          /\ \A i \in 1..(Len(s) - 1) : Tail(s)[i] = s[i + 1]
      BY <2>2, TailFacts
    <3>2. s[Len(s)] = api[r] /\ \A i \in 1..Len(s) : StateOf(s[i], r)
      BY <2>2 DEF InformerInv, Latest
    <3>0. watch'[q] = Tail(s) /\ cache'[q] = Head(s)
      BY <2>2, <2>3
    <3> HIDE DEF s
    <3>3. CASE Len(s) = 1
      <4>1. watch'[q] = <<>> /\ cache'[q] = s[1] /\ 1 \in 1..Len(s)
        BY <3>0, <3>1, <3>3
      <4>2. Len(watch'[q]) = 0
        BY <4>1
      <4>3. cache'[q] = api'[q]
        BY <2>2, <2>3, <3>2, <3>3, <4>1
      <4>4. StateOf(cache[q], q)'
        BY <2>2, <2>3, <3>2, <4>1 DEF StateOf
      <4> QED BY <4>1, <4>2, <4>3, <4>4 DEF Latest
    <3>4. CASE Len(s) > 1
      <4>1. Len(s) - 1 \in 1..(Len(s) - 1) /\ Tail(s)[Len(s) - 1] = s[Len(s)]
        BY <3>1, <3>4
      <4>2. Latest(q)' = api'[q]
        BY <2>2, <2>3, <3>0, <3>1, <3>2, <3>4, <4>1 DEF Latest
      <4>3. ASSUME NEW i \in 1..Len(watch'[q]) PROVE StateOf(watch[q][i], q)'
        <5>0. i \in 1..(Len(s) - 1)
          BY <3>0, <3>1, <4>3
        <5>1. i + 1 \in 1..Len(s) /\ watch'[q][i] = s[i + 1]
          BY <3>0, <3>1, <5>0
        <5> QED BY <2>2, <2>3, <3>2, <5>1 DEF StateOf
      <4>4. StateOf(cache[q], q)'
        <5>1. 1 \in 1..Len(s)
          BY <3>1
        <5> QED BY <2>2, <2>3, <3>0, <3>1, <3>2, <5>1 DEF StateOf
      <4> QED BY <4>2, <4>3, <4>4
    <3> QED BY <3>1, <3>3, <3>4
  <2>4. CASE q # r
    BY <2>2, <2>4 DEF InformerInv, Latest, StateOf
  <2> QED BY <2>3, <2>4
<1>4. CASE Relisted
  <2> SUFFICES ASSUME NEW q \in Request
      PROVE /\ Latest(q)' = api'[q]
            /\ StateOf(cache[q], q)'
            /\ \A i \in 1..Len(watch'[q]) : StateOf(watch[q][i], q)'
    BY DEF InformerInv
  <2>1. watch'[q] = <<>> /\ cache'[q] = api[q] /\ api' = api
    BY <1>4 DEF Relisted
  <2>2. api[q].rv \in Nat
    BY DEF TypeOK, Objects
  <2> QED BY <2>1, <2>2 DEF Latest, StateOf
<1> QED BY <1>1, <1>2, <1>3, <1>4, Effect

-----------------------------------------------------------------------------
\* What Reconcile is about to write is justified by what it has read.
Justified(w) == w.kind = "Approved" => w.r \in (IF w.read.annotated THEN Accepted ELSE Request \ SpiffeSAN)

\* It rests on a state of the request; it may not be the current one any more.
Founded(s) == s # <<>> => StateOf(s[1].read, s[1].r) /\ Justified(s[1])

WorkInv == Founded(work) /\ Founded(late)

Inv == TypeOK /\ InformerInv /\ WorkInv

\* No step takes the ground from under a write that is under way.
LEMMA StaysFounded ==
  ASSUME TypeOK, [Next]_vars, NEW w \in WorkItem, StateOf(w.read, w.r)
  PROVE  w.read.rv <= api'[w.r].rv /\ (w.read.rv = api'[w.r].rv => w.read = api'[w.r])
<1>1. w.r \in Request /\ w.read \in Objects
  BY DEF WorkItem
<1>2. CASE EditStep
  <2>1. PICK r \in Request, o \in Objects : Store(r, o)
    BY <1>2 DEF EditStep
  <2>2. ASSUME NEW q \in Request, NEW x \in Objects, StateOf(x, q) PROVE StateOf(x, q)'
    BY <2>1, <2>2, StoreKeepsStates
  <2> QED BY <1>1, <2>2 DEF StateOf
<1>3. CASE QuietStep \/ DeliverStep \/ Relisted
  <2>1. api' = api
    BY <1>3 DEF QuietStep, DeliverStep, Deliver, Relisted
  <2> QED BY <2>1 DEF StateOf
<1> QED BY <1>2, <1>3, Effect

LEMMA WorkStep == Inv /\ [Next]_vars => WorkInv'
<1> SUFFICES ASSUME Inv, [Next]_vars PROVE WorkInv'
  OBVIOUS
<1> DEFINE Still(w) ==
      /\ w.read.rv <= api'[w.r].rv /\ (w.read.rv = api'[w.r].rv => w.read = api'[w.r])
      /\ Justified(w)
<1>0. TypeOK /\ InformerInv /\ Founded(work) /\ Founded(late)
  BY DEF Inv, WorkInv
<1>1. (work # <<>> => Still(work[1])) /\ (late # <<>> => Still(late[1]))
  <2>1. ASSUME NEW w \in WorkItem, StateOf(w.read, w.r), Justified(w) PROVE Still(w)
    BY <1>0, <2>1, StaysFounded
  <2> HIDE DEF Still
  <2> QED BY <1>0, <2>1, WorkType DEF Founded
<1>2. late' # <<>> => Still(late'[1])
  <2>1. late' = late \/ late' = work \/ late' = <<>>
    BY DEF Next, TakeOver, LateWrite, vars
  <2> HIDE DEF Still
  <2> QED BY <1>1, <2>1
<1>3. work' # <<>> => Still(work'[1])
  <2>1. ASSUME NEW r \in Request, Reconcile(r), work' # <<>> PROVE Still(work'[1])
    <3> DEFINE w == [r |-> r, read |-> cache[r], kind |-> Verdict(r, cache[r])]
    <3>1. work' = <<w>> /\ api' = api
      BY <2>1 DEF Reconcile
    <3>2. StateOf(cache[r], r)
      BY <1>0 DEF InformerInv
    <3>3. Justified(w)
      BY ApproverAssumption DEF ApproverAssumption, Justified, Verdict
    <3>4. work'[1] = w /\ w.r = r /\ w.read = cache[r]
      BY <3>1
    <3> HIDE DEF w
    <3> QED BY <3>1, <3>2, <3>3, <3>4 DEF StateOf
  <2>2. (\E r \in Request : Reconcile(r)) \/ work' = work \/ work' = <<>>
    BY DEF Next, LeaderNext, TakeOver, LateWrite, vars, Create, Touch, Annotate, Delete, Decide, Deliver,
           Filter, ReconcileFails, ConfigChange, FilterExits, Relisted, Update, UpdateUnanswered,
           UpdateConflicts, UpdateFails
  <2> HIDE DEF Still
  <2> QED BY <1>1, <2>1, <2>2
<1> QED BY <1>2, <1>3 DEF WorkInv, Founded, StateOf, Justified

\* The inductive invariant: the informer's cache is behind the API server but
\* not wrong, and what is about to be written rests on what has been read.
THEOREM InvHolds == Spec => []Inv
<1>1. Init => InformerInv /\ WorkInv
  <2> SUFFICES ASSUME Init PROVE InformerInv /\ WorkInv
    OBVIOUS
  <2>1. \A r \in Request : api[r] \in Objects /\ watch[r] = <<>> /\ cache[r] = api[r]
    BY FreshType DEF Init
  <2>2. \A r \in Request : api[r].rv \in Nat
    BY <2>1 DEF Objects
  <2>3. InformerInv
    <3> SUFFICES ASSUME NEW r \in Request
                 PROVE  /\ Latest(r) = api[r]
                        /\ StateOf(cache[r], r)
                        /\ \A i \in 1..Len(watch[r]) : StateOf(watch[r][i], r)
      BY DEF InformerInv
    <3>1. watch[r] = <<>> /\ cache[r] = api[r] /\ api[r].rv \in Nat
      BY <2>1, <2>2
    <3>2. Len(watch[r]) = 0
      BY <3>1
    <3> QED BY <3>1, <3>2 DEF Latest, StateOf
  <2> QED BY <2>3 DEF Init, WorkInv, Founded
<1>2. TypeOK /\ InformerInv /\ WorkInv /\ [Next]_vars => InformerInv' /\ WorkInv'
  BY InformerStep, WorkStep DEF Inv
<1> QED BY <1>1, <1>2, TypeCorrect, PTL DEF Spec, Inv

\* What a stored verdict rests on, for a status update that succeeds.
LEMMA WrittenVerdict ==
  ASSUME Inv, NEW w \in WorkItem, StateOf(w.read, w.r), Justified(w), Written(w), NEW r \in Request,
         api'[r].conds["Approved"] = Us, api[r].conds["Approved"] # Us
  PROVE  r \in (IF api[r].annotated THEN Accepted ELSE Request \ SpiffeSAN)
<1>1. w.r \in Request /\ w.read = api[w.r] /\ w.read \in Objects /\ w.kind \in Kinds
  BY DEF Written, StateOf, WorkItem
<1>2. Store(w.r, [api[w.r] EXCEPT !.conds = SetCondition(w)])
  BY DEF Written
<1>3. w.r = r
  BY <1>2 DEF Store, Inv, TypeOK
<1>4. api'[r].conds = SetCondition(w)
  BY <1>1, <1>2, <1>3 DEF Store, Inv, TypeOK, Objects
<1>5. w.kind = "Approved"
  BY <1>1, <1>3, <1>4 DEF SetCondition, Objects, Kinds
<1> QED BY <1>1, <1>3, <1>5 DEF Justified

\* Whenever the approver approves a request, Evaluate accepts it if it carries
\* the annotation and its CSR has no SPIFFE URI if it does not, although filter,
\* decision and status update see the request at different moments.
THEOREM VerdictsAreCurrent == Spec => VerdictIsCurrent
<1> DEFINE Current ==
      \A r \in Request :
        api'[r].conds["Approved"] = Us /\ api[r].conds["Approved"] # Us =>
          r \in (IF api[r].annotated THEN Accepted ELSE Request \ SpiffeSAN)
<1>1. Inv /\ [Next]_vars => Current
  <2> SUFFICES ASSUME Inv, [Next]_vars, NEW r \in Request,
                      api'[r].conds["Approved"] = Us, api[r].conds["Approved"] # Us
               PROVE  r \in (IF api[r].annotated THEN Accepted ELSE Request \ SpiffeSAN)
    OBVIOUS
  <2>0. api \in [Request -> Objects]
    BY DEF Inv, TypeOK
  <2>1. CASE Update \/ UpdateUnanswered \/ LateWrite
    <3>1. \/ work # <<>> /\ Written(work[1])
          \/ late # <<>> /\ Written(late[1])
      BY <2>1 DEF Update, UpdateUnanswered, LateWrite
    <3> QED BY <3>1, WorkType, WrittenVerdict DEF Inv, WorkInv, Founded
  <2>a. ASSUME NEW q \in Request, NEW o \in Objects, Store(q, o)
        PROVE  q = r /\ o.conds["Approved"] = Us
    BY <2>a, StoredConds DEF Inv
  <2>2. ASSUME NEW q \in Request, Create(q) \/ Delete(q) PROVE FALSE
    <3>1. \A e, a \in BOOLEAN : Fresh(e, a).conds["Approved"] # Us
      BY DEF Fresh, NoConds, Kinds, Us
    <3> QED BY <2>2, <2>a, <3>1, FreshType DEF Create, Delete
  <2>3. ASSUME NEW q \in Request, Touch(q) \/ Annotate(q) PROVE FALSE
    <3>1. [api[q] EXCEPT !.annotated = ~@] \in Objects /\ [api[q] EXCEPT !.annotated = ~@].conds = api[q].conds
      BY <2>0 DEF Objects
    <3> QED BY <2>0, <2>3, <2>a, <3>1 DEF Touch, Annotate
  <2>4. ASSUME NEW q \in Request, Decide(q) PROVE FALSE
    <3>1. PICK k \in Kinds : Store(q, [api[q] EXCEPT !.conds[k] = "other"])
      BY <2>4 DEF Decide
    <3>2. [api[q] EXCEPT !.conds[k] = "other"] \in Objects
      BY <2>0 DEF Objects, Reasons
    <3>3. q = r /\ [api[q] EXCEPT !.conds[k] = "other"].conds["Approved"] = Us
      BY <2>a, <3>1, <3>2
    <3> QED BY <2>0, <3>3 DEF Objects, Kinds, Us
  <2>5. CASE UNCHANGED api
    BY <2>5
  <2> QED BY <2>1, <2>2, <2>3, <2>4, <2>5
       DEF Next, LeaderNext, TakeOver, vars, Deliver, Filter, Reconcile, ReconcileFails, ConfigChange,
           FilterExits, Relisted, UpdateConflicts, UpdateFails
<1> QED BY <1>1, InvHolds, PTL DEF Spec, VerdictIsCurrent

-----------------------------------------------------------------------------
\* Request r is on its way to the worker.
Waiting(r) == watch[r] # <<>> \/ events[r] > 0 \/ r \in queued \/ (work # <<>> /\ work[1].r = r)

\* Once a status update has gone through, the request is decided, or the
\* informer will hear of it.
LEMMA WrittenDecides ==
  ASSUME TypeOK, NEW w \in WorkItem, Written(w), Matches(api'[w.r])
  PROVE  watch'[w.r] # <<>>
<1>1. SetCondition(w)[w.kind] # "none"
  BY DEF WorkItem, SetCondition, Objects, Us
<1>2. CASE SetCondition(w) = api[w.r].conds
  <2>1. api' = api
    BY <1>2 DEF Written
  <2>2. Decided(api[w.r])
    BY <1>1, <1>2 DEF Decided, WorkItem
  <2> QED BY <2>1, <2>2 DEF Matches
<1>3. CASE SetCondition(w) # api[w.r].conds
  <2>1. [api[w.r] EXCEPT !.conds = SetCondition(w)] \in Objects /\ w.r \in Request
    BY SetConditionType DEF TypeOK, Objects, WorkItem
  <2>2. Store(w.r, [api[w.r] EXCEPT !.conds = SetCondition(w)])
    BY <1>3 DEF Written
  <2>3. /\ watch'[w.r] = Append(watch[w.r], api'[w.r])
        /\ watch[w.r] \in Seq(Objects) /\ api'[w.r] \in Objects
    BY <2>1, <2>2, StoreType DEF TypeOK
  <2>4. \A s \in Seq(Objects), o \in Objects : Append(s, o) # <<>>
    OBVIOUS
  <2> QED BY <2>3, <2>4
<1> QED BY <1>2, <1>3

\* An edit of one request leaves the others alone and is on its way itself.
LEMMA EditWaits ==
  ASSUME TypeOK, EditStep, NEW r \in Request, Matches(api'[r])
  PROVE  watch'[r] # <<>> \/ (api'[r] = api[r] /\ watch'[r] = watch[r])
<1>1. PICK q \in Request, o \in Objects : Store(q, o)
  BY DEF EditStep
<1>2. CASE q = r
  <2>1. watch'[r] = Append(watch[r], api'[r]) /\ watch[r] \in Seq(Objects)
    BY <1>1, <1>2, StoreType DEF TypeOK
  <2> QED BY <2>1
<1>3. CASE q # r
  BY <1>1, <1>3, StoreType
<1> QED BY <1>2, <1>3

\* A request that waits for a decision is always on its way to the worker:
\* no order of events, conflicts, errors and restarts loses it.
THEOREM NoRequestForgotten == Spec => []NoneForgotten
<1>1. Init => NoneForgotten
  BY DEF Init, NoneForgotten, Matches
<1>2. Inv /\ NoneForgotten /\ [Next]_vars => NoneForgotten'
  <2> SUFFICES ASSUME Inv, NoneForgotten, [Next]_vars, NEW r \in Request, Matches(api'[r])
               PROVE  Waiting(r)'
    BY DEF NoneForgotten, Waiting
  <2>0. TypeOK /\ InformerInv /\ (Matches(api[r]) => Waiting(r))
    BY DEF Inv, NoneForgotten, Waiting
  <2>1. CASE EditStep /\ UNCHANGED <<events, queued, work>>
    <3>1. watch'[r] # <<>> \/ (api'[r] = api[r] /\ watch'[r] = watch[r])
      BY <2>0, <2>1, EditWaits
    <3> QED BY <2>0, <2>1, <3>1 DEF Waiting
  <2>10. CASE LateWrite
    <3>1. /\ late[1] \in WorkItem /\ Written(late[1]) /\ cache' = cache
          /\ UNCHANGED <<events, queued, work>>
      BY <2>0, <2>10, WorkType DEF LateWrite
    <3> QED BY <2>0, <2>1, <3>1, WrittenEffect DEF QuietStep, Waiting
  <2>2. CASE Update \/ UpdateUnanswered
    <3>1. /\ work # <<>> /\ Written(work[1]) /\ cache' = cache
          /\ events' = events /\ queued \subseteq queued' /\ work[1] \in WorkItem
      BY <2>0, <2>2, WorkType DEF Update, UpdateUnanswered
    <3>2. CASE work[1].r = r
      BY <2>0, <3>1, <3>2, WrittenDecides DEF Waiting
    <3>3. CASE work[1].r # r
      <4>1. watch'[r] # <<>> \/ (api'[r] = api[r] /\ watch'[r] = watch[r])
        BY <2>0, <3>1, WrittenEffect, EditWaits DEF QuietStep
      <4> QED BY <2>0, <3>1, <3>3, <4>1 DEF Waiting
    <3> QED BY <3>2, <3>3
  <2>3. ASSUME NEW q \in Request, Deliver(q) PROVE Waiting(r)'
    <3>1. api' = api /\ queued' = queued /\ work' = work
      BY <2>3 DEF Deliver
    <3>2. CASE q = r
      <4>1. events'[r] > 0
        BY <2>0, <2>3, <3>2 DEF Deliver, TypeOK
      <4> QED BY <4>1 DEF Waiting
    <3>3. CASE q # r
      <4>1. watch'[r] = watch[r] /\ events'[r] = events[r]
        BY <2>0, <2>3, <3>3 DEF Deliver, TypeOK
      <4> QED BY <2>0, <3>1, <4>1 DEF Waiting
    <3> QED BY <3>2, <3>3
  <2>4. ASSUME NEW q \in Request, Filter(q) PROVE Waiting(r)'
    <3>1. api' = api /\ watch' = watch /\ work' = work /\ queued \subseteq queued'
      BY <2>4 DEF Filter
    <3>2. CASE q = r /\ watch[r] = <<>>
      <4>1. cache[r] = api[r]
        BY <2>0, <3>2 DEF InformerInv, Latest
      <4>2. r \in queued'
        BY <2>4, <3>1, <3>2, <4>1 DEF Filter
      <4> QED BY <4>2 DEF Waiting
    <3>3. CASE q = r /\ watch[r] # <<>>
      BY <3>1, <3>3 DEF Waiting
    <3>4. CASE q # r
      <4>1. events'[r] = events[r]
        BY <2>0, <2>4, <3>4 DEF Filter, TypeOK
      <4> QED BY <2>0, <3>1, <4>1 DEF Waiting
    <3> QED BY <3>2, <3>3, <3>4
  <2>5. ASSUME NEW q \in Request, Reconcile(q) PROVE Waiting(r)'
    <3>1. /\ api' = api /\ watch' = watch /\ events' = events
          /\ work = <<>> /\ queued' = queued \ {q}
      BY <2>5 DEF Reconcile
    <3>2. CASE q = r /\ watch[r] = <<>>
      <4>1. cache[r].exists
        BY <2>0, <3>1, <3>2 DEF InformerInv, Latest, Matches
      <4>2. work' = <<[r |-> r, read |-> cache[r], kind |-> Verdict(r, cache[r])]>>
        BY <2>5, <3>2, <4>1 DEF Reconcile
      <4>3. work' # <<>> /\ work'[1].r = r
        BY <4>2
      <4> QED BY <4>3 DEF Waiting
    <3>3. CASE q # r \/ watch[r] # <<>>
      BY <2>0, <3>1, <3>3 DEF Waiting
    <3> QED BY <3>2, <3>3
  <2>6. CASE Relisted
    <3>1. events'[r] = 1
      BY <2>6 DEF Relisted, Matches
    <3> QED BY <3>1 DEF Waiting
  <2>7. CASE UpdateConflicts \/ UpdateFails
    BY <2>0, <2>7 DEF UpdateConflicts, UpdateFails, Waiting
  <2>8. CASE UNCHANGED <<api, watch, events, queued, work>>
    BY <2>0, <2>8 DEF Waiting
  <2>9. ASSUME NEW q \in Request, Create(q) \/ Touch(q) \/ Annotate(q) \/ Delete(q) \/ Decide(q)
        PROVE  Waiting(r)'
    <3>1. UNCHANGED <<events, queued, work>> /\ cache' = cache
      BY <2>9 DEF Create, Touch, Annotate, Delete, Decide
    <3> QED BY <2>0, <2>1, <2>6, <2>8, <2>3, <3>1, Effect DEF QuietStep, DeliverStep
  <2> QED BY <2>2, <2>3, <2>4, <2>5, <2>6, <2>7, <2>8, <2>9, <2>10
       DEF Next, LeaderNext, TakeOver, vars, ReconcileFails, ConfigChange, FilterExits
<1> QED BY <1>1, <1>2, InvHolds, PTL DEF Spec

-----------------------------------------------------------------------------
\* What is to be written is the verdict on what was read, under the issuer
\* configured now.
Rests(s) == s # <<>> => s[1].kind = Verdict(s[1].r, s[1].read)

\* While neither an annotation nor the issuer configured has changed, the
\* approver's verdict on a request is the one it would give again.
VerdictInv ==
  count.inputs = 0 =>
    /\ \A r \in Request, k \in Kinds : api[r].conds[k] = Us => k = Verdict(r, api[r])
    /\ Rests(work) /\ Rests(late)

\* Steps that change neither annotations nor the issuer are all there is while
\* no InputIncident is counted.
LEMMA InputsKept ==
  ASSUME TypeOK, [Next]_vars, count'.inputs = 0
  PROVE  count.inputs = 0 /\ config' = config /\ \A r \in Request : ~Annotate(r)
<1>0. count.inputs \in Nat /\ count \in [all : Nat, inputs : Nat]
  BY DEF TypeOK
<1>1. ~InputIncident
  BY <1>0 DEF InputIncident
<1>2. Incident => count'.inputs = count.inputs
  BY <1>0 DEF Incident
<1>3. \A r \in Request : ~Annotate(r)
  BY <1>1 DEF Annotate
<1>4. config' = config /\ (Incident \/ count' = count)
  BY <1>1, <1>3 DEF Next, LeaderNext, TakeOver, LateWrite, vars, Create, Touch, Delete, Decide,
       Deliver, Filter, Reconcile, ReconcileFails, ConfigChange, FilterExits, Relisted, Update,
       UpdateUnanswered, UpdateConflicts, UpdateFails
<1> QED BY <1>2, <1>3, <1>4

LEMMA VerdictInvariant == Spec => []VerdictInv
<1>1. Init => VerdictInv
  <2>1. \A e, a \in BOOLEAN : \A k \in Kinds : Fresh(e, a).conds[k] # Us
    BY DEF Fresh, NoConds, Kinds, Us
  <2> QED BY <2>1 DEF Init, VerdictInv, Rests
<1>2. Inv /\ VerdictInv /\ [Next]_vars => VerdictInv'
  <2> SUFFICES ASSUME Inv, VerdictInv, [Next]_vars, count'.inputs = 0
               PROVE  /\ \A r \in Request, k \in Kinds : api'[r].conds[k] = Us => k = Verdict(r, api[r])'
                      /\ Rests(work)' /\ Rests(late)'
    BY DEF VerdictInv
  <2>0. /\ TypeOK /\ count.inputs = 0 /\ config' = config
        /\ \A r \in Request : ~Annotate(r)
    BY InputsKept DEF Inv
  <2>1. /\ \A r \in Request, k \in Kinds : api[r].conds[k] = Us => k = Verdict(r, api[r])
        /\ Rests(work) /\ Rests(late)
    BY <2>0 DEF VerdictInv
  <2>2. ASSUME NEW q \in Request, NEW o \in Objects, Store(q, o),
               \A k \in Kinds : o.conds[k] = Us => k = Verdict(q, o)
        PROVE  \A r \in Request, k \in Kinds : api'[r].conds[k] = Us => k = Verdict(r, api[r])'
    <3>1. api' = [api EXCEPT ![q] = [o EXCEPT !.rv = api[q].rv + 1]]
      BY <2>2 DEF Store
    <3>2. api'[q].conds = o.conds /\ api'[q].annotated = o.annotated
      BY <2>0, <3>1 DEF TypeOK, Objects
    <3>3. \A r \in Request \ {q} : api'[r] = api[r]
      BY <2>0, <3>1 DEF TypeOK
    <3>4. Verdict(q, api[q])' = Verdict(q, o)
      BY <2>0, <3>2 DEF Verdict
    <3>5. \A r \in Request \ {q} : Verdict(r, api[r])' = Verdict(r, api[r])
      BY <2>0, <3>3 DEF Verdict
    <3> QED BY <2>1, <2>2, <3>2, <3>3, <3>4, <3>5
  <2>3. ASSUME api' = api
        PROVE  \A r \in Request, k \in Kinds : api'[r].conds[k] = Us => k = Verdict(r, api[r])'
    <3>1. \A r \in Request : Verdict(r, api[r])' = Verdict(r, api[r])
      BY <2>0, <2>3 DEF Verdict
    <3> QED BY <2>1, <2>3, <3>1
  <2>4. ASSUME NEW w \in WorkItem, Written(w), StateOf(w.read, w.r), w.kind = Verdict(w.r, w.read)
        PROVE  \A r \in Request, k \in Kinds : api'[r].conds[k] = Us => k = Verdict(r, api[r])'
    <3>1. CASE SetCondition(w) = api[w.r].conds
      BY <2>3, <2>4, <3>1 DEF Written
    <3>2. CASE SetCondition(w) # api[w.r].conds
      <4> DEFINE o == [api[w.r] EXCEPT !.conds = SetCondition(w)]
      <4>1. w.r \in Request /\ w.read = api[w.r] /\ api[w.r] \in Objects
        BY <2>0, <2>4 DEF Written, StateOf, WorkItem, TypeOK
      <4>2. o \in Objects /\ o.annotated = api[w.r].annotated /\ o.conds = SetCondition(w)
        BY <4>1, SetConditionType DEF Objects
      <4>3. Store(w.r, o)
        BY <2>4, <3>2 DEF Written
      <4>4. \A k \in Kinds : o.conds[k] = Us => k = w.kind \/ api[w.r].conds[k] = Us
        BY <4>1, <4>2 DEF SetCondition, Objects
      <4>5. Verdict(w.r, o) = Verdict(w.r, api[w.r])
        BY <4>2 DEF Verdict
      <4>6. \A k \in Kinds : o.conds[k] = Us => k = Verdict(w.r, o)
        BY <2>1, <2>4, <4>1, <4>4, <4>5
      <4> HIDE DEF o
      <4> QED BY <2>2, <4>1, <4>2, <4>3, <4>6
    <3> QED BY <3>1, <3>2
  <2>5. \A r \in Request, k \in Kinds : api'[r].conds[k] = Us => k = Verdict(r, api[r])'
    <3>1. CASE Update \/ UpdateUnanswered \/ LateWrite
      <4>1. \/ work # <<>> /\ Written(work[1])
            \/ late # <<>> /\ Written(late[1])
        BY <3>1 DEF Update, UpdateUnanswered, LateWrite
      <4> QED BY <2>0, <2>1, <2>4, <4>1, WorkType DEF Inv, WorkInv, Founded, Rests
    <3>2. ASSUME NEW q \in Request, Create(q) \/ Delete(q)
          PROVE  \A r \in Request, k \in Kinds : api'[r].conds[k] = Us => k = Verdict(r, api[r])'
      <4>1. \A e, a \in BOOLEAN : \A k \in Kinds : Fresh(e, a).conds[k] # Us
        BY DEF Fresh, NoConds, Kinds, Us
      <4> QED BY <2>2, <3>2, <4>1, FreshType DEF Create, Delete
    <3>3. ASSUME NEW q \in Request, Touch(q)
          PROVE  \A r \in Request, k \in Kinds : api'[r].conds[k] = Us => k = Verdict(r, api[r])'
      BY <2>0, <2>1, <2>2, <3>3 DEF Touch, TypeOK
    <3>4. ASSUME NEW q \in Request, Decide(q)
          PROVE  \A r \in Request, k \in Kinds : api'[r].conds[k] = Us => k = Verdict(r, api[r])'
      <4>1. PICK k \in Kinds : Store(q, [api[q] EXCEPT !.conds[k] = "other"])
        BY <3>4 DEF Decide
      <4> DEFINE o == [api[q] EXCEPT !.conds[k] = "other"]
      <4>2. api[q] \in Objects /\ o \in Objects /\ o.annotated = api[q].annotated
        BY <2>0 DEF TypeOK, Objects, Reasons
      <4>3. \A j \in Kinds : o.conds[j] = Us => api[q].conds[j] = Us
        BY <4>2 DEF Objects, Us
      <4>4. Verdict(q, o) = Verdict(q, api[q])
        BY <4>2 DEF Verdict
      <4>5. Store(q, o)
        BY <4>1
      <4> HIDE DEF o
      <4> QED BY <2>1, <2>2, <4>2, <4>3, <4>4, <4>5
    <3>5. CASE UNCHANGED api
      BY <2>3, <3>5
    <3> QED BY <2>0, <3>1, <3>2, <3>3, <3>4, <3>5
         DEF Next, LeaderNext, TakeOver, vars, Deliver, Filter, Reconcile, ReconcileFails, ConfigChange,
             FilterExits, Relisted, UpdateConflicts, UpdateFails
  <2>6. late' # <<>> => late'[1].kind = Verdict(late[1].r, late[1].read)'
    <3>1. late' = late \/ late' = work \/ late' = <<>>
      BY DEF Next, TakeOver, LateWrite, vars
    <3> QED BY <2>0, <2>1, <3>1 DEF Rests, Verdict
  <2>7. work' # <<>> => work'[1].kind = Verdict(work[1].r, work[1].read)'
    <3>1. ASSUME NEW r \in Request, Reconcile(r), work' # <<>>
          PROVE  work'[1].kind = Verdict(work[1].r, work[1].read)'
      <4>1. work' = <<[r |-> r, read |-> cache[r], kind |-> Verdict(r, cache[r])]>>
        BY <3>1 DEF Reconcile
      <4>2. work'[1].r = r /\ work'[1].read = cache[r] /\ work'[1].kind = Verdict(r, cache[r])
        BY <4>1
      <4> QED BY <2>0, <4>2 DEF Verdict
    <3>2. (\E r \in Request : Reconcile(r)) \/ work' = work \/ work' = <<>>
      BY DEF Next, LeaderNext, TakeOver, LateWrite, vars, Create, Touch, Annotate, Delete, Decide, Deliver,
             Filter, ReconcileFails, ConfigChange, FilterExits, Relisted, Update, UpdateUnanswered,
             UpdateConflicts, UpdateFails
    <3>3. ASSUME work' = work, work' # <<>>
          PROVE  work'[1].kind = Verdict(work[1].r, work[1].read)'
      BY <2>0, <2>1, <3>3 DEF Rests, Verdict
    <3> QED BY <3>1, <3>2, <3>3
  <2> QED BY <2>5, <2>6, <2>7 DEF Rests
<1> QED BY <1>1, <1>2, InvHolds, PTL DEF Spec

\* A request the approver has approved is not denied later by it, nor the other
\* way round, by extra events, retries after a lost answer, restarts or the late
\* write of a former leader, unless an annotation or the issuer has changed.
THEOREM VerdictsStand == Spec => []VerdictStands
<1>1. TypeOK /\ VerdictInv => VerdictStands
  <2> SUFFICES ASSUME TypeOK, VerdictInv, NEW r \in Request,
                      api[r].conds["Approved"] = Us, api[r].conds["Denied"] = Us,
                      ~(count.inputs > 0)
               PROVE  FALSE
    BY DEF VerdictStands
  <2>1. count.inputs = 0
    BY DEF TypeOK
  <2> QED BY <2>1 DEF VerdictInv, Kinds
<1> QED BY <1>1, TypeCorrect, VerdictInvariant, PTL
=============================================================================
