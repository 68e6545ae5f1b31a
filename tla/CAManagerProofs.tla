--------------------------- MODULE CAManagerProofs ---------------------------
(***************************************************************************)
(* Theorems about camanager.run() for every set of bundles and any number  *)
(* of rotations, failed passes and retries.                                *)
(***************************************************************************)
EXTENDS CAManager, TLAPS

\* The state InFlight is made of, with its types.
Counters ==
  /\ notifiers \in Nat /\ sleeping \in Nat /\ sending \in Nat
  /\ updateChan \in 0..1
  /\ pc \in {"init", "select", "send", "update", "exited"}

LEMMA CountersType == MgrTypeOK => Counters
BY DEF MgrTypeOK, RootTypeOK, Counters

\* The type invariant of run()'s model.
THEOREM MgrTypeCorrect == MgrSpec => []MgrTypeOK
<1> USE MgrAssumption DEF MgrAssumption
<1>1. MgrInit => MgrTypeOK
  <2> SUFFICES ASSUME MgrInit PROVE MgrTypeOK
    OBVIOUS
  <2>1. RootTypeOK
    <3>1. subscribed \in BOOLEAN
      BY DEF MgrInit, RootInit
    <3> QED BY <3>1 DEF MgrInit, RootInit, RootTypeOK
  <2>2. cancelled \in BOOLEAN /\ stale \in BOOLEAN /\ passStale \in BOOLEAN /\ unheard \in BOOLEAN
    BY DEF MgrInit
  <2> QED BY <2>1, <2>2 DEF MgrInit, MgrTypeOK
<1>2. MgrTypeOK /\ [MgrNext]_mgrVars => MgrTypeOK'
  <2> SUFFICES ASSUME MgrTypeOK, [MgrNext]_mgrVars PROVE MgrTypeOK'
    OBVIOUS
  <2>1. RootTypeOK' /\ pc' \in {"init", "select", "send", "update", "exited"}
    <3>1. UNCHANGED rootVars => RootTypeOK'
      BY DEF rootVars, MgrTypeOK, RootTypeOK
    <3>2. CASE RunStep
      <4>1. CASE Start
        <5>1. Subscribe => RootTypeOK'
          BY Zenon DEF Subscribe, MgrTypeOK, RootTypeOK
        <5> QED BY <3>1, <4>1, <5>1 DEF Start
      <4>2. CASE RecvWatcher
        <5>1. notifiers' \in Nat
          BY <4>2 DEF RecvWatcher, Receive, MgrTypeOK, RootTypeOK
        <5>2. RootTypeOK'
          BY <4>2, <5>1 DEF RecvWatcher, Receive, MgrTypeOK, RootTypeOK
        <5> QED BY <4>2, <5>2 DEF RecvWatcher
      <4>3. CASE Send \/ RecvUpdate \/ UpdateOK \/ UpdateFail \/ Done
        BY <3>1, <4>3 DEF Send, RecvUpdate, UpdateOK, UpdateFail, Done
      <4> QED BY <3>2, <4>1, <4>2, <4>3 DEF RunStep
    <3>3. CASE RetryStep \/ Cancel
      BY <3>1, <3>3 DEF RetryStep, TimerFires, RetrySend, RetryCancelled, Cancel, MgrTypeOK
    <3>4. ASSUME NEW b \in Bundle, Rotate(b)
          PROVE  RootTypeOK' /\ pc' \in {"init", "select", "send", "update", "exited"}
      <4>1. notifiers' \in Nat
        <5>1. notifiers \in Nat
          BY DEF MgrTypeOK, RootTypeOK
        <5>2. notifiers' = notifiers + 1 \/ notifiers' = notifiers
          BY <3>4 DEF Rotate, Publish, Broadcast
        <5> QED BY <5>1, <5>2
      <4>2. certificatesPEM' \in Bundle /\ subscribed' = subscribed
        BY <3>4 DEF Rotate, Publish
      <4>3. pc' = pc
        BY <3>4 DEF Rotate, loopVars
      <4> QED BY <4>1, <4>2, <4>3 DEF MgrTypeOK, RootTypeOK
    <3>5. ASSUME NEW b \in Bundle, MgrRestart(b)
          PROVE  RootTypeOK' /\ pc' \in {"init", "select", "send", "update", "exited"}
      <4>1. subscribed' \in BOOLEAN
        BY <3>5 DEF MgrRestart, RootRestart
      <4> QED BY <3>5, <4>1 DEF MgrRestart, RootRestart, RootTypeOK
    <3>6. CASE UNCHANGED mgrVars
      BY <3>1, <3>6 DEF mgrVars, loopVars, MgrTypeOK
    <3> QED BY <3>2, <3>3, <3>4, <3>5, <3>6 DEF MgrNext
  <2>2. updateChan' \in 0..1 /\ sleeping' \in Nat /\ sending' \in Nat
    BY DEF MgrTypeOK, MgrNext, RunStep, RetryStep, Start, RecvWatcher, Send, RecvUpdate,
           UpdateOK, UpdateFail, Done, TimerFires, RetrySend, RetryCancelled, Cancel,
           Rotate, MgrRestart, mgrVars, loopVars
  <2>3. cancelled' \in BOOLEAN
    BY DEF MgrTypeOK, MgrNext, RunStep, RetryStep, Start, RecvWatcher, Send, RecvUpdate,
           UpdateOK, UpdateFail, Done, TimerFires, RetrySend, RetryCancelled, Cancel,
           Rotate, MgrRestart, mgrVars, loopVars
  <2>4. rotations' \in 0..MaxRotation /\ restarts' \in 0..MaxRestart
    BY DEF MgrTypeOK, MgrNext, RunStep, RetryStep, Start, RecvWatcher, Send, RecvUpdate,
           UpdateOK, UpdateFail, Done, TimerFires, RetrySend, RetryCancelled, Cancel,
           Rotate, MgrRestart, mgrVars, historyVars
  <2>5. stale' \in BOOLEAN /\ passStale' \in BOOLEAN /\ unheard' \in BOOLEAN
    BY DEF MgrTypeOK, MgrNext, RunStep, RetryStep, Start, RecvWatcher, Send, RecvUpdate,
           UpdateOK, UpdateFail, Done, TimerFires, RetrySend, RetryCancelled, Cancel,
           Rotate, MgrRestart, mgrVars, historyVars
  <2> QED BY <2>1, <2>2, <2>3, <2>4, <2>5 DEF MgrTypeOK
<1> QED BY <1>1, <1>2, PTL DEF MgrSpec

\* What each step does to the triggers on their way.
LEMMA InFlightLemma ==
  ASSUME MgrTypeOK
  PROVE  /\ InFlight \in Nat
         /\ Start => InFlight' = InFlight
         /\ RecvWatcher => InFlight' = InFlight
         /\ Send => InFlight' = InFlight
         /\ RecvUpdate => InFlight' = InFlight - 1
         /\ UpdateOK => InFlight' = InFlight
         /\ UpdateFail => InFlight' = InFlight + 1
         /\ Done => InFlight' = InFlight
         /\ TimerFires => InFlight' = InFlight
         /\ RetrySend => InFlight' = InFlight
         /\ RetryCancelled => InFlight' = InFlight - 1
         /\ Cancel => InFlight' = InFlight
         /\ \A b \in Bundle : Rotate(b) => InFlight' = InFlight + (IF subscribed THEN 1 ELSE 0)
         /\ \A b \in Bundle : MgrRestart(b) => InFlight' = 0
         /\ UNCHANGED mgrVars => InFlight' = InFlight
<1> USE CountersType DEF Counters, InFlight
<1>1. InFlight \in Nat
  OBVIOUS
<1>2. Start => InFlight' = InFlight
  BY DEF Start, Subscribe, rootVars
<1>3. RecvWatcher => InFlight' = InFlight
  BY DEF RecvWatcher, Receive
<1>4. Send => InFlight' = InFlight
  BY DEF Send, rootVars
<1>5. RecvUpdate => InFlight' = InFlight - 1
  BY DEF RecvUpdate, rootVars
<1>6. UpdateOK => InFlight' = InFlight
  BY DEF UpdateOK, rootVars
<1>7. UpdateFail => InFlight' = InFlight + 1
  BY DEF UpdateFail, rootVars
<1>8. Done => InFlight' = InFlight
  BY DEF Done, rootVars
<1>9. TimerFires => InFlight' = InFlight
  BY DEF TimerFires, rootVars
<1>10. RetrySend => InFlight' = InFlight
  BY DEF RetrySend, rootVars
<1>11. RetryCancelled => InFlight' = InFlight - 1
  BY DEF RetryCancelled, rootVars
<1>12. Cancel => InFlight' = InFlight
  BY DEF Cancel, rootVars
<1>13. ASSUME NEW b \in Bundle, Rotate(b)
       PROVE  InFlight' = InFlight + (IF subscribed THEN 1 ELSE 0)
  <2>1. notifiers' = notifiers + (IF subscribed THEN 1 ELSE 0)
    BY <1>13 DEF Rotate, Publish, Broadcast
  <2> QED BY <1>13, <2>1 DEF Rotate, loopVars
<1>14. \A b \in Bundle : MgrRestart(b) => InFlight' = 0
  BY DEF MgrRestart, RootRestart
<1>15. UNCHANGED mgrVars => InFlight' = InFlight
  BY DEF mgrVars, rootVars, loopVars
<1> QED BY <1>1, <1>2, <1>3, <1>4, <1>5, <1>6, <1>7, <1>8, <1>9, <1>10, <1>11,
           <1>12, <1>13, <1>14, <1>15

-----------------------------------------------------------------------------
\* Triggers of update passes are conserved: a notification becomes a trigger,
\* a trigger a pass, a failed pass a retry, and nothing becomes two.
THEOREM TriggersBounded == MgrSpec => []TriggerBound
<1>1. MgrInit => TriggerBound
  BY DEF MgrInit, RootInit, TriggerBound, InFlight
<1>2. MgrTypeOK /\ TriggerBound /\ [MgrNext]_mgrVars => TriggerBound'
  <2> SUFFICES ASSUME MgrTypeOK, TriggerBound, [MgrNext]_mgrVars PROVE TriggerBound'
    OBVIOUS
  <2>0. rotations \in Nat /\ InFlight \in Nat
    BY MgrAssumption, InFlightLemma DEF MgrTypeOK, MgrAssumption
  <2>1. CASE RunStep
    <3>1. CASE Start \/ RecvWatcher \/ Send \/ Done
      BY <2>0, <3>1, InFlightLemma
         DEF TriggerBound, Start, RecvWatcher, Send, Done, historyVars
    <3>2. CASE RecvUpdate
      <4>1. InFlight' = InFlight - 1
        BY <3>2, InFlightLemma
      <4> QED BY <2>0, <3>2, <4>1 DEF TriggerBound, RecvUpdate
    <3>3. CASE UpdateOK
      <4>1. InFlight' = InFlight
        BY <3>3, InFlightLemma
      <4> QED BY <2>0, <3>3, <4>1 DEF TriggerBound, UpdateOK
    <3>4. CASE UpdateFail
      <4>1. InFlight' = InFlight + 1
        BY <3>4, InFlightLemma
      <4> QED BY <2>0, <3>4, <4>1 DEF TriggerBound, UpdateFail
    <3> QED BY <2>1, <3>1, <3>2, <3>3, <3>4 DEF RunStep
  <2>2. CASE RetryStep \/ Cancel
    <3>1. CASE TimerFires \/ RetrySend \/ Cancel
      BY <2>0, <3>1, InFlightLemma DEF TriggerBound, TimerFires, RetrySend, Cancel, historyVars
    <3>2. CASE RetryCancelled
      <4>1. InFlight' = InFlight - 1
        BY <3>2, InFlightLemma
      <4> QED BY <2>0, <3>2, <4>1 DEF TriggerBound, RetryCancelled, historyVars
    <3> QED BY <2>2, <3>1, <3>2 DEF RetryStep
  <2>3. ASSUME NEW b \in Bundle, Rotate(b) PROVE TriggerBound'
    <3>1. InFlight' = InFlight + (IF subscribed THEN 1 ELSE 0)
      BY <2>3, InFlightLemma
    <3>2. rotations' = rotations + 1 /\ pc' = pc
      BY <2>3 DEF Rotate, loopVars
    <3> QED BY <2>0, <3>1, <3>2 DEF TriggerBound
  <2>4. ASSUME NEW b \in Bundle, MgrRestart(b) PROVE TriggerBound'
    <3>1. InFlight' = 0
      BY <2>4, InFlightLemma
    <3> QED BY <2>0, <2>4, <3>1 DEF TriggerBound, MgrRestart
  <2>5. CASE UNCHANGED mgrVars
    BY <2>5, InFlightLemma DEF TriggerBound, mgrVars, loopVars, historyVars
  <2> QED BY <2>1, <2>2, <2>3, <2>4, <2>5 DEF MgrNext
<1> QED BY <1>1, <1>2, MgrTypeCorrect, PTL DEF MgrSpec

\* run() can come to wait for itself only after two rotations: its own trigger
\* and the one in the buffer each stem from a published bundle.
THEOREM OneRotationNeverBlocks == MgrSpec => []BlockNeedsTwoRotations
<1>1. MgrTypeOK /\ TriggerBound => BlockNeedsTwoRotations
  BY CountersType, MgrAssumption
     DEF Counters, MgrTypeOK, MgrAssumption, TriggerBound, InFlight, SelfBlocked,
         BlockNeedsTwoRotations
<1> QED BY <1>1, MgrTypeCorrect, TriggersBounded, PTL

-----------------------------------------------------------------------------
\* run() has subscribed before it enters its loop.
Listening == pc \in {"select", "send", "update"} => subscribed

LEMMA ListeningInvariant == MgrSpec => []Listening
<1>1. MgrInit => Listening
  BY DEF MgrInit, Listening
<1>2. MgrTypeOK /\ Listening /\ [MgrNext]_mgrVars => Listening'
  <2> SUFFICES ASSUME MgrTypeOK, Listening, [MgrNext]_mgrVars PROVE Listening'
    OBVIOUS
  <2>1. CASE Start
    BY <2>1 DEF Start, Subscribe, Listening
  <2>2. CASE RecvWatcher
    BY <2>2 DEF RecvWatcher, Receive, Listening
  <2>3. CASE Send \/ RecvUpdate \/ UpdateOK \/ UpdateFail \/ Done
    BY <2>3 DEF Send, RecvUpdate, UpdateOK, UpdateFail, Done, Listening, rootVars
  <2>4. CASE RetryStep \/ Cancel
    BY <2>4 DEF RetryStep, TimerFires, RetrySend, RetryCancelled, Cancel, Listening, rootVars
  <2>5. CASE \E b \in Bundle : Rotate(b) \/ MgrRestart(b)
    BY <2>5 DEF Rotate, MgrRestart, Publish, Listening, loopVars
  <2>6. CASE UNCHANGED mgrVars
    BY <2>6 DEF mgrVars, rootVars, loopVars, Listening
  <2> QED BY <2>1, <2>2, <2>3, <2>4, <2>5, <2>6 DEF MgrNext, RunStep
<1> QED BY <1>1, <1>2, MgrTypeCorrect, PTL DEF MgrSpec

\* NoLostTrigger with what keeps it inductive: a bundle published during a pass
\* is one that no pass has distributed yet.
TriggerInv ==
  /\ passStale => stale /\ pc = "update"
  /\ NoLostTrigger

LEMMA TriggerInvariant == MgrSpec => []TriggerInv
<1>1. MgrInit => TriggerInv
  BY DEF MgrInit, TriggerInv, NoLostTrigger
<1>2. MgrTypeOK /\ Listening /\ TriggerInv /\ [MgrNext]_mgrVars => TriggerInv'
  <2> SUFFICES ASSUME MgrTypeOK, Listening, TriggerInv, [MgrNext]_mgrVars
               PROVE  TriggerInv'
    OBVIOUS
  <2>0. InFlight \in Nat
    BY InFlightLemma
  <2> USE DEF TriggerInv, NoLostTrigger
  <2>1. CASE Start \/ RecvWatcher \/ Send \/ Done
    BY <2>0, <2>1, InFlightLemma DEF Start, RecvWatcher, Send, Done, historyVars
  <2>2. CASE RecvUpdate
    <3>1. pc' = "update" /\ ~passStale'
      BY <2>2 DEF RecvUpdate
    <3> QED BY <3>1
  <2>3. CASE UpdateOK
    BY <2>0, <2>3, InFlightLemma DEF UpdateOK
  <2>4. CASE UpdateFail
    <3>1. InFlight' = InFlight + 1
      BY <2>4, InFlightLemma
    <3>2. InFlight' > 0
      BY <2>0, <3>1
    <3>3. ~passStale'
      BY <2>4 DEF UpdateFail
    <3> QED BY <3>2, <3>3
  <2>5. CASE TimerFires \/ RetrySend \/ RetryCancelled \/ Cancel
    BY <2>0, <2>5, InFlightLemma DEF TimerFires, RetrySend, RetryCancelled, Cancel, historyVars
  <2>6. ASSUME NEW b \in Bundle, Rotate(b) PROVE TriggerInv'
    <3>1. pc' = pc /\ cancelled' = cancelled /\ (passStale' = (pc = "update"))
      BY <2>6 DEF Rotate, loopVars
    <3>2. CASE subscribed
      <4>1. InFlight' = InFlight + 1
        BY <2>6, <3>2, InFlightLemma
      <4>2. InFlight' > 0
        BY <2>0, <4>1
      <4>3. stale'
        BY <2>6, <3>2 DEF Rotate
      <4> QED BY <3>1, <4>2, <4>3
    <3>3. CASE ~subscribed
      <4>1. InFlight' = InFlight + 0
        BY <2>6, <3>3, InFlightLemma
      <4>2. InFlight' = InFlight
        BY <2>0, <4>1
      <4>3. (stale' => stale) /\ pc # "update"
        BY <2>6, <3>3 DEF Rotate, Listening
      <4> QED BY <3>1, <4>2, <4>3
    <3> QED BY <3>2, <3>3
  <2>7. ASSUME NEW b \in Bundle, MgrRestart(b) PROVE TriggerInv'
    <3>1. ~stale' /\ ~passStale'
      BY <2>7 DEF MgrRestart
    <3> QED BY <3>1
  <2>8. CASE UNCHANGED mgrVars
    BY <2>8, InFlightLemma DEF mgrVars, loopVars, historyVars
  <2> QED BY <2>1, <2>2, <2>3, <2>4, <2>5, <2>6, <2>7, <2>8 DEF MgrNext, RunStep, RetryStep
<1> QED BY <1>1, <1>2, MgrTypeCorrect, ListeningInvariant, PTL DEF MgrSpec

\* A published bundle is never forgotten before the shutdown, however passes
\* fail, retries overlap and rotations fall into a pass.
THEOREM RotationsNotForgotten == MgrSpec => []NoLostTrigger
<1>1. TriggerInv => NoLostTrigger
  BY DEF TriggerInv
<1> QED BY <1>1, TriggerInvariant, PTL

\* Only a driver with a root CA provider enters the loop.
InLoop == pc \in {"select", "send", "update"} => HasRootCAs

LEMMA InLoopInvariant == MgrSpec => []InLoop
<1>1. MgrInit => InLoop
  BY DEF MgrInit, InLoop
<1>2. InLoop /\ [MgrNext]_mgrVars => InLoop'
  <2> SUFFICES ASSUME InLoop, [MgrNext]_mgrVars PROVE InLoop'
    OBVIOUS
  <2> USE DEF InLoop
  <2>1. CASE Start
    BY <2>1 DEF Start
  <2>2. CASE RecvWatcher \/ Send \/ RecvUpdate \/ UpdateOK \/ UpdateFail \/ Done
    BY <2>2 DEF RecvWatcher, Send, RecvUpdate, UpdateOK, UpdateFail, Done
  <2>3. CASE RetryStep \/ Cancel
    BY <2>3 DEF RetryStep, TimerFires, RetrySend, RetryCancelled, Cancel
  <2>4. CASE \E b \in Bundle : Rotate(b) \/ MgrRestart(b)
    BY <2>4 DEF Rotate, MgrRestart, loopVars
  <2>5. CASE UNCHANGED mgrVars
    BY <2>5 DEF mgrVars, loopVars
  <2> QED BY <2>1, <2>2, <2>3, <2>4, <2>5 DEF MgrNext, RunStep
<1> QED BY <1>1, <1>2, PTL DEF MgrSpec
=============================================================================
