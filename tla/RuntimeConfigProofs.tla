-------------------------- MODULE RuntimeConfigProofs --------------------------
(***************************************************************************)
(* Theorems about runtimeconfig/configmap.go for any ConfigMap data, any   *)
(* number of changes and any number of failed or broken watches.           *)
(***************************************************************************)
EXTENDS RuntimeConfig, TLAPS

\* Event e makes handleChange adopt the ConfigMap as it is now.
Brings(e) == e.type \in {"Added", "Modified"} /\ e.data = cm

OnlyOther(s, i) == \A j \in i..Len(s) : s[j].type = "Other"

\* While a watch is open and the ConfigMap complete, it is active and nothing on
\* its way changes that, or the last event on its way that matters brings it.
StreamInv ==
  /\ open => pc = "select"
  /\ open /\ cm # Absent /\ Complete(cm) =>
       \/ active = ConfigOf(cm) /\ OnlyOther(stream, 1)
       \/ \E i \in 1..Len(stream) : Brings(stream[i]) /\ OnlyOther(stream, i + 1)

\* What the events of the API server and the watch are made of.
StreamType == cm \in Data \cup {Absent} /\ stream \in Seq(Event)

LEMMA StreamTypeStep == TypeOK /\ [Next]_vars => StreamType'
<1> SUFFICES ASSUME TypeOK, [Next]_vars PROVE StreamType'
  OBVIOUS
<1>0. StreamType
  BY DEF TypeOK, StreamType
<1>1. CASE Watch
  <2>1. cm # Absent => [type |-> "Added", data |-> cm] \in Event
    BY <1>0 DEF Event, StreamType
  <2>2. stream' \in Seq(Event)
    BY <1>1, <2>1 DEF Watch
  <2> QED BY <1>0, <1>1, <2>2 DEF Watch, StreamType, apiVars
<1>2. CASE Handle
  <2>1. stream' = Tail(stream) /\ stream # <<>> /\ cm' = cm
    BY <1>2 DEF Handle, apiVars
  <2> QED BY <1>0, <2>1 DEF StreamType
<1>3. CASE WatchFails \/ Wake \/ Closed \/ CtxDone \/ Cancel
  <2>1. cm' = cm /\ (stream' = stream \/ stream' = <<>>)
    BY <1>3 DEF WatchFails, Wake, Closed, CtxDone, Cancel, apiVars
  <2>2. CASE stream' = stream
    BY <1>0, <2>1, <2>2 DEF StreamType
  <2>3. CASE stream' = <<>>
    <3>1. stream' \in Seq(Event)
      BY <2>3
    <3> QED BY <1>0, <2>1, <3>1 DEF StreamType
  <2> QED BY <2>1, <2>2, <2>3
<1>4. CASE Delete
  <2>1. [type |-> "Deleted"] \in Event
    BY DEF Event
  <2> QED BY <1>0, <1>4, <2>1 DEF Delete, ApiChange, Notify, StreamType
<1>5. CASE OtherEvent
  <2>1. [type |-> "Other"] \in Event
    BY DEF Event
  <2> QED BY <1>0, <1>5, <2>1 DEF OtherEvent, Notify, StreamType
<1>6. ASSUME NEW d \in Data, Put(d) PROVE StreamType'
  <2>1. [type |-> IF cm = Absent THEN "Added" ELSE "Modified", data |-> d] \in Event
    BY DEF Event
  <2> QED BY <1>0, <1>6, <2>1 DEF Put, ApiChange, Notify, StreamType
<1>7. ASSUME NEW n \in 0..(MaxChanges + 1), Break(n) PROVE StreamType'
  <2>1. n \in Nat /\ n <= Len(stream)
    BY <1>7, ConfigAssumption DEF Break, ConfigAssumption
  <2>2. SubSeq(stream, 1, n) \in Seq(Event)
    BY <1>0, <2>1 DEF StreamType
  <2> QED BY <1>0, <1>7, <2>2 DEF Break, StreamType, apiVars
<1>8. CASE UNCHANGED vars
  BY <1>0, <1>8 DEF vars, apiVars, StreamType
<1> QED BY <1>1, <1>2, <1>3, <1>4, <1>5, <1>6, <1>7, <1>8 DEF Next, Start, Api, BreakSome

\* The type invariant of the watcher's model.
THEOREM TypeCorrect == Spec => []TypeOK
<1> USE ConfigAssumption DEF ConfigAssumption
<1>1. Init => TypeOK
  <2> SUFFICES ASSUME Init PROVE TypeOK
    OBVIOUS
  <2>1. open \in BOOLEAN /\ cancelled \in BOOLEAN /\ gap \in BOOLEAN
    BY DEF Init
  <2>2. stream \in Seq(Event)
    BY DEF Init
  <2> QED BY <2>1, <2>2 DEF Init, TypeOK
<1>2. TypeOK /\ [Next]_vars => TypeOK'
  <2> SUFFICES ASSUME TypeOK, [Next]_vars PROVE TypeOK'
    OBVIOUS
  <2>1. cm' \in Data \cup {Absent} /\ stream' \in Seq(Event)
    BY StreamTypeStep DEF StreamType
  <2>2. pc' \in {"watch", "sleep", "select", "stopped"}
    BY DEF TypeOK, Next, Start, Api, BreakSome, Watch, WatchFails, Wake, Handle, Closed, CtxDone, Cancel,
           Delete, OtherEvent, Put, ApiChange, Break, vars, apiVars
  <2>3. open' \in BOOLEAN /\ cancelled' \in BOOLEAN /\ gap' \in BOOLEAN
    BY DEF TypeOK, Next, Start, Api, BreakSome, Watch, WatchFails, Wake, Handle, Closed, CtxDone, Cancel,
           Delete, OtherEvent, Put, ApiChange, Break, vars, apiVars
  <2>4. changes' \in 0..MaxChanges /\ faults' \in 0..MaxFaults
    <3>1. CASE Start \/ Cancel
      <4>1. changes' = changes
        BY <3>1 DEF Start, Watch, WatchFails, Wake, Handle, Closed, CtxDone, Cancel, apiVars
      <4>2. faults' = faults \/ (faults < MaxFaults /\ faults' = faults + 1)
        BY <3>1 DEF Start, Watch, WatchFails, Wake, Handle, Closed, CtxDone, Cancel
      <4>3. faults' \in 0..MaxFaults
        BY <4>2 DEF TypeOK
      <4> QED BY <4>1, <4>3 DEF TypeOK
    <3>2. CASE Api
      <4>1. changes < MaxChanges /\ changes' = changes + 1 /\ faults' = faults
        <5>1. CASE Delete
          BY <5>1 DEF Delete, ApiChange
        <5>2. CASE OtherEvent
          BY <5>2 DEF OtherEvent
        <5>3. ASSUME NEW d \in Data, Put(d)
              PROVE  changes < MaxChanges /\ changes' = changes + 1 /\ faults' = faults
          BY <5>3 DEF Put, ApiChange
        <5> QED BY <3>2, <5>1, <5>2, <5>3 DEF Api
      <4> QED BY <4>1 DEF TypeOK
    <3>3. CASE BreakSome
      <4>1. changes' = changes
        BY <3>3 DEF BreakSome, Break, apiVars
      <4>2. faults' = faults \/ (faults < MaxFaults /\ faults' = faults + 1)
        BY <3>3 DEF BreakSome, Break
      <4>3. faults' \in 0..MaxFaults
        BY <4>2 DEF TypeOK
      <4> QED BY <4>1, <4>3 DEF TypeOK
    <3>4. CASE UNCHANGED vars
      BY <3>4 DEF TypeOK, vars, apiVars
    <3> QED BY <3>1, <3>2, <3>3, <3>4 DEF Next
  <2>5. DOMAIN active' = Keys
    <3>1. CASE Handle
      <4>1. PICK e \in Event : active' = ActiveAfter(e)
        BY <3>1 DEF Handle, TypeOK
      <4>2. active' \in {Static, active} \cup {ConfigOf(d) : d \in Data}
        BY <4>1 DEF ActiveAfter, Wanted, Event
      <4> QED BY <4>2 DEF TypeOK, ConfigOf
    <3>2. CASE ~Handle
      BY <3>2 DEF TypeOK, Next, Start, Api, BreakSome, Watch, WatchFails, Wake, Handle, Closed, CtxDone, Cancel,
           Delete, OtherEvent, Put, ApiChange, Break, vars, apiVars
    <3> QED BY <3>1, <3>2
  <2>6. held' \subseteq {d \in Data : Complete(d)}
    BY DEF TypeOK, Next, Start, Api, BreakSome, Watch, WatchFails, Wake, Handle, Closed, CtxDone, Cancel,
           Delete, OtherEvent, Put, ApiChange, Break, vars, apiVars
  <2> QED BY <2>1, <2>2, <2>3, <2>4, <2>5, <2>6 DEF TypeOK
<1> QED BY <1>1, <1>2, PTL DEF Spec

-----------------------------------------------------------------------------
\* The active configuration is the static one or one the ConfigMap held whole.
THEOREM IssuerNeverMixed == Spec => []NeverMixed
<1> DEFINE FromHeld(e) == e.type \in {"Added", "Modified"} /\ Complete(e.data) => e.data \in held
           HeldInv == /\ cm # Absent /\ Complete(cm) => cm \in held
                      /\ \A i \in 1..Len(stream) : FromHeld(stream[i])
<1>1. Init => HeldInv /\ NeverMixed
  BY DEF Init, NeverMixed
<1>2. TypeOK /\ HeldInv /\ NeverMixed /\ [Next]_vars => HeldInv' /\ NeverMixed'
  <2> SUFFICES ASSUME TypeOK, HeldInv, NeverMixed, [Next]_vars
               PROVE  HeldInv' /\ NeverMixed'
    OBVIOUS
  <2>1. CASE Watch
    BY <2>1 DEF Watch, NeverMixed, apiVars
  <2>2. CASE Handle
    <3>1. stream # <<>> /\ stream' = Tail(stream) /\ UNCHANGED apiVars
          /\ active' = ActiveAfter(Head(stream))
      BY <2>2 DEF Handle
    <3>2. \A i \in 1..Len(stream') : stream'[i] = stream[i + 1] /\ i + 1 \in 1..Len(stream)
      BY <3>1 DEF TypeOK
    <3>3. HeldInv'
      BY <3>1, <3>2 DEF apiVars
    <3>4. FromHeld(Head(stream)) /\ Head(stream) \in Event
      BY <3>1 DEF TypeOK
    <3>5. NeverMixed'
      BY <3>1, <3>4 DEF ActiveAfter, Wanted, NeverMixed, apiVars, Event
    <3> QED BY <3>3, <3>5
  <2>3. CASE WatchFails \/ Wake \/ Closed \/ CtxDone \/ Cancel
    <3>1. UNCHANGED <<apiVars, active>> /\ (stream' = stream \/ stream' = <<>>)
      BY <2>3 DEF WatchFails, Wake, Closed, CtxDone, Cancel
    <3> QED BY <3>1 DEF NeverMixed, apiVars
  <2>4. ASSUME NEW e \in Event, Notify(e), FromHeld(e)', held \subseteq held',
               (cm # Absent /\ Complete(cm) => cm \in held)', UNCHANGED active
        PROVE  HeldInv' /\ NeverMixed'
    <3>1. \A i \in 1..Len(stream') :
             \/ stream'[i] = e
             \/ i \in 1..Len(stream) /\ stream'[i] = stream[i]
      BY <2>4 DEF Notify, TypeOK
    <3>2. \A i \in 1..Len(stream') : FromHeld(stream[i])'
      BY <2>4, <3>1
    <3> QED BY <2>4, <3>2 DEF NeverMixed
  <2>5. CASE Delete
    <3>1. [type |-> "Deleted"] \in Event
      BY DEF Event
    <3> QED BY <2>4, <2>5, <3>1 DEF Delete, ApiChange
  <2>6. CASE OtherEvent
    <3>1. [type |-> "Other"] \in Event
      BY DEF Event
    <3> QED BY <2>4, <2>6, <3>1 DEF OtherEvent
  <2>7. ASSUME NEW d \in Data, Put(d) PROVE HeldInv' /\ NeverMixed'
    <3> DEFINE e == [type |-> IF cm = Absent THEN "Added" ELSE "Modified", data |-> d]
    <3>1. e \in Event /\ e.data = d
      BY DEF Event
    <3>2. held \subseteq held' /\ cm' = d /\ (Complete(d) => d \in held') /\ UNCHANGED active
      BY <2>7 DEF Put, ApiChange
    <3>3. Notify(e)
      BY <2>7 DEF Put, ApiChange
    <3> HIDE DEF e
    <3> QED BY <2>4, <3>1, <3>2, <3>3
  <2>8. ASSUME NEW n \in 0..(MaxChanges + 1), Break(n) PROVE HeldInv' /\ NeverMixed'
    <3>1. n \in Nat /\ n <= Len(stream) /\ stream' = SubSeq(stream, 1, n)
          /\ UNCHANGED <<apiVars, active>>
      BY <2>8, ConfigAssumption DEF Break, ConfigAssumption
    <3>2. \A i \in 1..Len(stream') : stream'[i] = stream[i] /\ i \in 1..Len(stream)
      BY <3>1 DEF TypeOK
    <3> QED BY <3>1, <3>2 DEF NeverMixed, apiVars
  <2>9. CASE UNCHANGED vars
    BY <2>9 DEF vars, apiVars, NeverMixed
  <2> QED BY <2>1, <2>2, <2>3, <2>5, <2>6, <2>7, <2>8, <2>9 DEF Next, Start, Api, BreakSome
<1> QED BY <1>1, <1>2, TypeCorrect, PTL DEF Spec

-----------------------------------------------------------------------------
LEMMA StreamInvariant == Spec => []StreamInv
<1>1. Init => StreamInv
  BY DEF Init, StreamInv
<1>2. TypeOK /\ StreamInv /\ [Next]_vars => StreamInv'
  <2> SUFFICES ASSUME TypeOK, StreamInv, [Next]_vars PROVE StreamInv'
    OBVIOUS
  <2>1. CASE Watch
    <3>1. cm' = cm /\ open' /\ pc' = "select"
      BY <2>1 DEF Watch, apiVars
    <3>2. ASSUME cm # Absent
          PROVE  Brings(stream[1])' /\ OnlyOther(stream, 2)' /\ Len(stream') = 1
      <4>1. stream' = <<[type |-> "Added", data |-> cm]>>
        BY <2>1, <3>2 DEF Watch
      <4> QED BY <3>1, <4>1 DEF Brings, OnlyOther
    <3> QED BY <3>1, <3>2 DEF StreamInv
  <2>2. CASE Handle
    <3>1. stream # <<>> /\ stream' = Tail(stream) /\ UNCHANGED <<cm, open, pc>>
          /\ active' = ActiveAfter(Head(stream))
      BY <2>2 DEF Handle, apiVars
    <3>2. /\ Len(stream') = Len(stream) - 1 /\ Head(stream) = stream[1]
          /\ \A i \in 1..Len(stream') : stream'[i] = stream[i + 1]
      BY <3>1 DEF TypeOK
    <3>3. Len(stream) \in Nat /\ Len(stream') \in Nat /\ 1 \in 1..Len(stream)
      BY <3>1, <3>2 DEF TypeOK
    <3>4. ASSUME open, cm # Absent, Complete(cm)
          PROVE  \/ active' = ConfigOf(cm) /\ OnlyOther(stream, 1)'
                 \/ \E i \in 1..Len(stream') : Brings(stream[i])' /\ OnlyOther(stream, i + 1)'
      <4>1. CASE active = ConfigOf(cm) /\ OnlyOther(stream, 1)
        <5>1. Head(stream).type = "Other" /\ active' = active
          BY <3>1, <3>2, <3>3, <4>1 DEF OnlyOther, ActiveAfter
        <5>2. OnlyOther(stream, 1)'
          BY <3>2, <3>3, <4>1 DEF OnlyOther
        <5> QED BY <4>1, <5>1, <5>2
      <4>2. ASSUME NEW i \in 1..Len(stream), Brings(stream[i]), OnlyOther(stream, i + 1)
            PROVE  \/ active' = ConfigOf(cm) /\ OnlyOther(stream, 1)'
                   \/ \E k \in 1..Len(stream') : Brings(stream[k])' /\ OnlyOther(stream, k + 1)'
        <5>1. CASE i = 1
          <6>1. active' = ConfigOf(cm)
            BY <3>1, <3>2, <3>4, <4>2, <5>1 DEF Brings, ActiveAfter, Wanted
          <6>2. OnlyOther(stream, 1)'
            BY <3>2, <3>3, <4>2, <5>1 DEF OnlyOther
          <6> QED BY <6>1, <6>2
        <5>2. CASE i > 1
          <6>1. i - 1 \in 1..Len(stream') /\ stream'[i - 1] = stream[i]
            BY <3>2, <3>3, <5>2
          <6>2. Brings(stream[i - 1])'
            BY <3>1, <4>2, <6>1 DEF Brings
          <6>3. OnlyOther(stream, i - 1 + 1)'
            BY <3>2, <3>3, <4>2, <5>2 DEF OnlyOther
          <6> QED BY <6>1, <6>2, <6>3
        <5> QED BY <5>1, <5>2
      <4> QED BY <3>4, <4>1, <4>2 DEF StreamInv
    <3> QED BY <3>1, <3>4 DEF StreamInv
  <2>3. CASE WatchFails \/ Wake \/ Closed
    <3>1. UNCHANGED <<cm, active, stream, open>> /\ (pc = "select" => ~open)
      BY <2>3 DEF WatchFails, Wake, Closed, apiVars
    <3>2. ~open
      BY <2>3, <3>1 DEF StreamInv, WatchFails, Wake, Closed
    <3> QED BY <3>1, <3>2 DEF StreamInv
  <2>4. CASE CtxDone \/ BreakSome
    <3>1. ~open'
      BY <2>4 DEF CtxDone, BreakSome, Break
    <3> QED BY <3>1 DEF StreamInv
  <2>5. CASE Cancel
    BY <2>5 DEF Cancel, apiVars, StreamInv, Brings, OnlyOther
  <2>6. CASE Delete
    <3>1. cm' = Absent /\ UNCHANGED <<open, pc>>
      BY <2>6 DEF Delete, ApiChange
    <3> QED BY <3>1 DEF StreamInv
  <2>7. CASE OtherEvent
    <3>1. /\ UNCHANGED <<cm, open, pc, active>> /\ open
          /\ stream' = Append(stream, [type |-> "Other"])
      BY <2>7 DEF OtherEvent, Notify
    <3>2. /\ Len(stream') = Len(stream) + 1 /\ Len(stream) \in Nat
          /\ \A i \in 1..Len(stream) : stream'[i] = stream[i]
          /\ stream'[Len(stream) + 1].type = "Other"
      BY <3>1 DEF TypeOK
    <3>3. \A k \in Nat \ {0} : OnlyOther(stream, k) => OnlyOther(stream, k)'
      BY <3>2 DEF OnlyOther
    <3>4. \A i \in 1..Len(stream) : Brings(stream[i]) => Brings(stream[i])' /\ i \in 1..Len(stream')
      BY <3>1, <3>2 DEF Brings
    <3>5. \A i \in 1..Len(stream) : OnlyOther(stream, i + 1) => OnlyOther(stream, i + 1)'
      BY <3>2, <3>3
    <3> QED BY <3>1, <3>3, <3>4, <3>5 DEF StreamInv
  <2>8. ASSUME NEW d \in Data, Put(d) PROVE StreamInv'
    <3> DEFINE e == [type |-> IF cm = Absent THEN "Added" ELSE "Modified", data |-> d]
    <3>1. cm' = d /\ UNCHANGED <<open, pc>> /\ (open => stream' = Append(stream, e))
      BY <2>8 DEF Put, ApiChange, Notify
    <3>2. e.type \in {"Added", "Modified"} /\ e.data = d
      OBVIOUS
    <3> HIDE DEF e
    <3>3. CASE open
      <4>1. /\ Len(stream') = Len(stream) + 1 /\ Len(stream) \in Nat
            /\ stream'[Len(stream) + 1] = e
        BY <3>1, <3>3 DEF TypeOK
      <4>2. Brings(stream[Len(stream)])'
        BY <3>1, <3>2, <4>1 DEF Brings
      <4>3. OnlyOther(stream, Len(stream) + 1)' /\ Len(stream') \in 1..Len(stream')
        BY <4>1 DEF OnlyOther
      <4> QED BY <3>1, <4>1, <4>2, <4>3 DEF StreamInv
    <3>4. CASE ~open
      BY <3>1, <3>4 DEF StreamInv
    <3> QED BY <3>3, <3>4
  <2>9. CASE UNCHANGED vars
    BY <2>9 DEF vars, apiVars, StreamInv, Brings, OnlyOther
  <2> QED BY <2>1, <2>2, <2>3, <2>4, <2>5, <2>6, <2>7, <2>8, <2>9 DEF Next, Start, Api
<1> QED BY <1>1, <1>2, TypeCorrect, PTL DEF Spec

\* Once caught up with a complete ConfigMap start() uses it, whatever watches
\* failed or broke before and whatever changes were missed.
THEOREM ConfigMapUsed == Spec => []UsesConfigMap
<1>1. StreamInv => UsesConfigMap
  BY DEF StreamInv, UsesConfigMap, Settled
<1> QED BY <1>1, StreamInvariant, PTL

-----------------------------------------------------------------------------
\* Event e makes start() replace the active configuration, and by what.
Matters(e) == e.type = "Deleted" \/ (e.type \in {"Added", "Modified"} /\ Complete(e.data))
Leaves(e) == IF e.type = "Deleted" THEN Static ELSE ConfigOf(e.data)

NoneMatters(s, i) == \A j \in i..Len(s) : ~Matters(s[j])

\* The last event on its way that matters leaves c, which is active if none does.
LeadsTo(s, c) ==
  \/ active = c /\ NoneMatters(s, 1)
  \/ \E i \in 1..Len(s) : Matters(s[i]) /\ Leaves(s[i]) = c /\ NoneMatters(s, i + 1)

\* As long as no change was missed, what is on its way leads to want; between two
\* watches it is active already, unless the next watch is going to bring it.
FollowInv ==
  /\ cm # Absent /\ Complete(cm) => want = ConfigOf(cm)
  /\ ~gap /\ pc \in {"watch", "sleep"} => active = want \/ (cm # Absent /\ Complete(cm))
  /\ ~gap /\ pc = "select" => LeadsTo(stream, want)

\* An event that arrives decides what is going to be active if it matters.
LEMMA Arrives ==
  ASSUME TypeOK, NEW e \in Event, stream' = Append(stream, e), UNCHANGED active
  PROVE  /\ \A c : ~Matters(e) /\ LeadsTo(stream, c) => LeadsTo(stream, c)'
         /\ Matters(e) => LeadsTo(stream, Leaves(e))'
<1>1. /\ Len(stream') = Len(stream) + 1 /\ Len(stream) \in Nat
      /\ \A i \in 1..Len(stream) : stream'[i] = stream[i]
      /\ stream'[Len(stream) + 1] = e
  BY DEF TypeOK
<1>2. ASSUME NEW c, ~Matters(e), LeadsTo(stream, c) PROVE LeadsTo(stream, c)'
  <2>1. \A k \in Nat \ {0} : NoneMatters(stream, k) => NoneMatters(stream, k)'
    BY <1>1, <1>2 DEF NoneMatters, Matters
  <2>2. CASE active = c /\ NoneMatters(stream, 1)
    BY <2>1, <2>2 DEF LeadsTo
  <2>3. ASSUME NEW i \in 1..Len(stream),
               Matters(stream[i]) /\ Leaves(stream[i]) = c /\ NoneMatters(stream, i + 1)
        PROVE  LeadsTo(stream, c)'
    <3>1. NoneMatters(stream, i + 1)' /\ i \in 1..Len(stream')
      BY <1>1, <2>1, <2>3
    <3>2. Matters(stream[i])' /\ Leaves(stream[i])' = c
      BY <1>1, <2>3 DEF Matters, Leaves
    <3> QED BY <3>1, <3>2 DEF LeadsTo
  <2> QED BY <1>2, <2>2, <2>3 DEF LeadsTo
<1>3. ASSUME Matters(e) PROVE LeadsTo(stream, Leaves(e))'
  <2>1. Matters(stream[Len(stream)])' /\ Leaves(stream[Len(stream)])' = Leaves(e)
    BY <1>1, <1>3 DEF Matters, Leaves
  <2>2. NoneMatters(stream, Len(stream) + 1)' /\ Len(stream') \in 1..Len(stream')
    BY <1>1 DEF NoneMatters
  <2> QED BY <2>1, <2>2 DEF LeadsTo
<1> QED BY <1>2, <1>3

LEMMA FollowInvariant == Spec => []FollowInv
<1> USE ConfigAssumption DEF ConfigAssumption
<1>1. Init => FollowInv
  BY DEF Init, FollowInv, Wanted
<1>2. TypeOK /\ StreamInv /\ FollowInv /\ [Next]_vars => FollowInv'
  <2> SUFFICES ASSUME TypeOK, StreamInv, FollowInv, [Next]_vars PROVE FollowInv'
    OBVIOUS
  <2>1. CASE Watch
    <3>1. pc = "watch" /\ pc' = "select" /\ UNCHANGED <<cm, want, active, gap>>
      BY <2>1 DEF Watch, apiVars
    <3>2. CASE cm = Absent
      <4>1. stream' = <<>>
        BY <2>1, <3>2 DEF Watch
      <4>2. NoneMatters(stream, 1)'
        BY <4>1 DEF NoneMatters
      <4> QED BY <3>1, <3>2, <4>2 DEF FollowInv, LeadsTo
    <3>3. CASE cm # Absent
      <4>1. stream' = <<[type |-> "Added", data |-> cm]>>
        BY <2>1, <3>3 DEF Watch
      <4>2. Len(stream') = 1 /\ stream'[1].type = "Added" /\ stream'[1].data = cm
        BY <4>1
      <4>3. CASE Complete(cm)
        <5>1. Matters(stream[1])' /\ Leaves(stream[1])' = want
          BY <3>3, <4>2, <4>3 DEF Matters, Leaves, FollowInv
        <5>2. NoneMatters(stream, 1 + 1)'
          BY <4>2 DEF NoneMatters
        <5> QED BY <3>1, <4>2, <5>1, <5>2 DEF FollowInv, LeadsTo
      <4>4. CASE ~Complete(cm)
        <5>1. NoneMatters(stream, 1)'
          BY <4>2, <4>4 DEF NoneMatters, Matters
        <5> QED BY <3>1, <4>4, <5>1 DEF FollowInv, LeadsTo
      <4> QED BY <4>3, <4>4
    <3> QED BY <3>2, <3>3
  <2>2. CASE Handle
    <3>1. /\ stream # <<>> /\ stream' = Tail(stream) /\ pc = "select"
          /\ UNCHANGED <<cm, pc, want, gap>> /\ active' = ActiveAfter(Head(stream))
      BY <2>2 DEF Handle, apiVars
    <3>2. /\ Len(stream') = Len(stream) - 1 /\ Head(stream) = stream[1]
          /\ Len(stream) \in Nat /\ 1 \in 1..Len(stream) /\ stream[1] \in Event
          /\ \A i \in 1..Len(stream') : stream'[i] = stream[i + 1]
      BY <3>1 DEF TypeOK
    <3>3. active' = IF Matters(stream[1]) THEN Leaves(stream[1]) ELSE active
      BY <3>1, <3>2 DEF ActiveAfter, Wanted, Matters, Leaves, Event
    <3>4. ASSUME NoneMatters(stream, 2) PROVE NoneMatters(stream, 1)'
      BY <3>2, <3>4 DEF NoneMatters, Matters
    <3>5. ASSUME LeadsTo(stream, want) PROVE LeadsTo(stream, want)'
      <4>1. CASE active = want /\ NoneMatters(stream, 1)
        <5>1. ~Matters(stream[1]) /\ NoneMatters(stream, 2)
          BY <3>2, <4>1 DEF NoneMatters
        <5> QED BY <3>1, <3>3, <3>4, <4>1, <5>1 DEF LeadsTo
      <4>2. ASSUME NEW i \in 1..Len(stream),
                   Matters(stream[i]) /\ Leaves(stream[i]) = want /\ NoneMatters(stream, i + 1)
            PROVE  LeadsTo(stream, want)'
        <5>1. CASE i = 1
          BY <3>1, <3>3, <3>4, <4>2, <5>1 DEF LeadsTo
        <5>2. CASE i > 1
          <6>1. i - 1 \in 1..Len(stream') /\ stream'[i - 1] = stream[i]
            BY <3>2, <5>2
          <6>2. Matters(stream[i - 1])' /\ Leaves(stream[i - 1])' = want
            BY <4>2, <6>1 DEF Matters, Leaves
          <6>3. NoneMatters(stream, i - 1 + 1)'
            <7>1. \A j \in i..Len(stream') : j + 1 \in (i + 1)..Len(stream) /\ stream'[j] = stream[j + 1]
              BY <3>2, <5>2
            <7>2. \A j \in i..Len(stream') : ~Matters(stream[j])'
              BY <4>2, <7>1 DEF NoneMatters, Matters
            <7>3. i - 1 + 1 = i
              OBVIOUS
            <7> QED BY <7>2, <7>3 DEF NoneMatters
          <6> QED BY <3>1, <6>1, <6>2, <6>3 DEF LeadsTo
        <5> QED BY <5>1, <5>2
      <4> QED BY <3>5, <4>1, <4>2 DEF LeadsTo
    <3> QED BY <3>1, <3>5 DEF FollowInv
  <2>3. CASE WatchFails \/ Wake
    <3>1. /\ UNCHANGED <<cm, want, active, gap>>
          /\ pc \in {"watch", "sleep"} /\ pc' \in {"watch", "sleep"}
      BY <2>3 DEF WatchFails, Wake, apiVars
    <3> QED BY <3>1 DEF FollowInv
  <2>4. CASE Closed
    <3>1. /\ UNCHANGED <<cm, want, active, gap>> /\ pc = "select" /\ pc' = "watch" /\ Len(stream) = 0
      BY <2>4 DEF Closed, apiVars
    <3>2. LeadsTo(stream, want) => active = want
      BY <3>1 DEF LeadsTo
    <3> QED BY <3>1, <3>2 DEF FollowInv
  <2>5. CASE CtxDone
    BY <2>5 DEF CtxDone, FollowInv, apiVars
  <2>6. CASE Cancel \/ UNCHANGED vars
    <3>1. UNCHANGED <<cm, want, active, gap, pc, stream>>
      BY <2>6 DEF Cancel, vars, apiVars
    <3> QED BY <3>1 DEF FollowInv, LeadsTo, NoneMatters
  <2>7. CASE Delete
    <3>1. /\ cm' = Absent /\ want' = Static /\ UNCHANGED <<pc, active>> /\ gap' = (gap \/ ~open)
          /\ Notify([type |-> "Deleted"])
      BY <2>7 DEF Delete, ApiChange
    <3>2. CASE open
      <4>1. LeadsTo(stream, Static)'
        <5> DEFINE e == [type |-> "Deleted"]
        <5>1. e \in Event /\ Matters(e) /\ Leaves(e) = Static
          BY DEF Event, Matters, Leaves
        <5>2. stream' = Append(stream, e)
          BY <3>1, <3>2 DEF Notify
        <5> HIDE DEF e
        <5> QED BY <3>1, <5>1, <5>2, Arrives
      <4> QED BY <3>1, <3>2, <4>1 DEF FollowInv, StreamInv
    <3>3. CASE ~open
      BY <3>1, <3>3 DEF FollowInv
    <3> QED BY <3>2, <3>3
  <2>8. CASE OtherEvent
    <3>1. /\ UNCHANGED <<cm, want, active, gap, pc>> /\ open
          /\ stream' = Append(stream, [type |-> "Other"])
      BY <2>8 DEF OtherEvent, Notify
    <3>2. [type |-> "Other"] \in Event /\ ~Matters([type |-> "Other"])
      BY DEF Event, Matters
    <3>3. LeadsTo(stream, want) => LeadsTo(stream, want)'
      BY <3>1, <3>2, Arrives
    <3> QED BY <3>1, <3>3 DEF FollowInv, StreamInv
  <2>9. ASSUME NEW d \in Data, Put(d) PROVE FollowInv'
    <3> DEFINE e == [type |-> IF cm = Absent THEN "Added" ELSE "Modified", data |-> d]
    <3>1. /\ cm' = d /\ want' = Wanted(d, want) /\ UNCHANGED <<pc, active>>
          /\ gap' = (gap \/ ~open) /\ (open => stream' = Append(stream, e))
      BY <2>9 DEF Put, ApiChange, Notify
    <3>2. e \in Event /\ (Matters(e) <=> Complete(d)) /\ Leaves(e) = ConfigOf(d)
      BY DEF Event, Matters, Leaves
    <3> HIDE DEF e
    <3>3. CASE open
      <4>1. LeadsTo(stream, want) => LeadsTo(stream, Wanted(d, want))'
        BY <3>1, <3>2, <3>3, Arrives DEF Wanted
      <4> QED BY <3>1, <3>3, <4>1 DEF FollowInv, StreamInv, Wanted
    <3>4. CASE ~open
      BY <3>1, <3>4 DEF FollowInv, Wanted
    <3> QED BY <3>3, <3>4
  <2>10. ASSUME NEW n \in 0..(MaxChanges + 1), Break(n) PROVE FollowInv'
    <3>1. /\ open /\ n \in Nat /\ n <= Len(stream) /\ stream' = SubSeq(stream, 1, n)
          /\ gap' = (gap \/ n < Len(stream)) /\ UNCHANGED <<cm, want, pc, active>>
      BY <2>10 DEF Break, apiVars
    <3>2. CASE n = Len(stream)
      <4>1. Len(stream') = Len(stream) /\ \A i \in 1..Len(stream) : stream'[i] = stream[i]
        BY <3>1, <3>2 DEF TypeOK
      <4>2. LeadsTo(stream, want) => LeadsTo(stream, want)'
        BY <3>1, <4>1 DEF LeadsTo, NoneMatters, Matters, Leaves
      <4> QED BY <3>1, <4>2 DEF FollowInv, StreamInv
    <3>3. CASE n < Len(stream)
      BY <3>1, <3>3 DEF FollowInv
    <3>4. n = Len(stream) \/ n < Len(stream)
      BY <3>1 DEF TypeOK
    <3> QED BY <3>2, <3>3, <3>4
  <2> QED BY <2>1, <2>2, <2>3, <2>4, <2>5, <2>6, <2>7, <2>8, <2>9, <2>10
             DEF Next, Start, Api, BreakSome
<1> QED BY <1>1, <1>2, TypeCorrect, StreamInvariant, PTL DEF Spec

\* As long as no change of the ConfigMap was missed, a start() that has caught up
\* uses the last complete contents since the ConfigMap was last deleted, whatever
\* incomplete ones came after, and the static configuration after a deletion.
THEOREM ConfigMapFollowed == Spec => []FollowsConfigMap
<1>1. TypeOK /\ FollowInv => FollowsConfigMap
  BY DEF FollowInv, FollowsConfigMap, Settled, LeadsTo
<1> QED BY <1>1, TypeCorrect, FollowInvariant, PTL

\* configmap.go implements runtimeconfig.Interface as memory.go does: only Handle
\* changes what Config() returns, to the static configuration or to that of a
\* complete ConfigMap, and only while start() runs.
THEOREM ConfigMapImplementsSource == Spec => ImplementsSource
<1>1. Init => Source!Init
  BY DEF Init, Source!Init
<1>2. TypeOK /\ [Next]_vars => [Source!Next]_(Source!sourceVars)
  <2> SUFFICES ASSUME TypeOK, [Next]_vars PROVE [Source!Next]_(Source!sourceVars)
    OBVIOUS
  <2>1. CASE Handle
    <3>1. pc = "select" /\ pc' = pc
      BY <2>1 DEF Handle
    <3>2. PICK e \in Event : active' = ActiveAfter(e)
      BY <2>1 DEF Handle, TypeOK
    <3>3. CASE e.type = "Deleted"
      <4>1. Source!Update(Static)
        BY <3>1, <3>2, <3>3 DEF ActiveAfter, Source!Update
      <4> QED BY <4>1 DEF Source!Next
    <3>4. CASE e.type \in {"Added", "Modified"} /\ Complete(e.data)
      <4>1. Source!Update(ConfigOf(e.data))
        BY <3>1, <3>2, <3>4 DEF ActiveAfter, Wanted, Source!Update
      <4>2. e.data \in Data
        BY <3>4 DEF Event
      <4> QED BY <3>4, <4>1, <4>2 DEF Source!Next
    <3>5. CASE e.type = "Other" \/ (e.type \in {"Added", "Modified"} /\ ~Complete(e.data))
      BY <3>1, <3>2, <3>5 DEF ActiveAfter, Wanted, Source!sourceVars
    <3> QED BY <3>3, <3>4, <3>5 DEF Event
  <2>2. CASE CtxDone
    <3>1. Source!Stop
      BY <2>2 DEF CtxDone, Source!Stop
    <3> QED BY <3>1 DEF Source!Next
  <2>3. CASE Watch \/ WatchFails \/ Wake \/ Closed
    BY <2>3 DEF Watch, WatchFails, Wake, Closed, Source!sourceVars
  <2>4. CASE Cancel \/ OtherEvent \/ Delete \/ (\E d \in Data : Put(d)) \/ BreakSome
    BY <2>4 DEF Cancel, OtherEvent, Delete, Put, ApiChange, BreakSome, Break, Source!sourceVars
  <2>5. CASE UNCHANGED vars
    BY <2>5 DEF vars, Source!sourceVars
  <2> QED BY <2>1, <2>2, <2>3, <2>4, <2>5 DEF Next, Start, Api
<1> QED BY <1>1, <1>2, TypeCorrect, PTL DEF Spec, ImplementsSource, Source!Spec
=============================================================================
