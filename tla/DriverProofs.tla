----------------------------- MODULE DriverProofs -----------------------------
(***************************************************************************)
(* What holds of camanager.run() holds of it in a process that starts, may *)
(* fail to, gets signals, loses its server, and is restarted: the process  *)
(* implements CAManager, and the theorems about CAManager follow for it.   *)
(***************************************************************************)
EXTENDS Driver, CAManagerProofs

LEMMA DriverStep == DriverNext => [MgrNext]_mgrVars
<1> SUFFICES ASSUME DriverNext PROVE [MgrNext]_mgrVars
  OBVIOUS
<1>1. CASE StartUp \/ StartUpFails
  BY <1>1 DEF StartUp, StartUpFails
<1>2. CASE Running(RunStep) \/ Running(RetryStep)
  BY <1>2 DEF Running, MgrNext
<1>3. CASE StopServer \/ ServerReturns \/ Return
  BY <1>3 DEF StopServer, ServerReturns, Return
<1>4. CASE Signal
  BY <1>4 DEF Signal, MgrNext
<1>5. CASE ProviderRotates
  BY <1>5 DEF ProviderRotates, MgrNext
<1>6. CASE DriverRestart
  BY <1>6 DEF DriverRestart, MgrNext
<1> QED BY <1>1, <1>2, <1>3, <1>4, <1>5, <1>6 DEF DriverNext

\* Every step of the process, whatever stage it is in, is a step of the loop as
\* CAManager describes it or leaves it alone.
LEMMA DriverImplementsLoop == DriverSpec => MgrSpec
<1>1. DriverInit => MgrInit
  BY DEF DriverInit
<1>2. [DriverNext]_driverVars => [MgrNext]_mgrVars
  BY DriverStep DEF driverVars
<1> QED BY <1>1, <1>2, PTL DEF DriverSpec, MgrSpec

\* The type invariant of the process.
THEOREM DriverTypeCorrect == DriverSpec => []DriverTypeOK
<1> DEFINE ProcTypeOK ==
      /\ stage \in {"complete", "rootca", "config", "driver", "run", "exited"}
      /\ server \in {"none", "serving", "returned"}
      /\ stopped \in BOOLEAN
<1>1. DriverInit => ProcTypeOK
  BY Zenon DEF DriverInit
<1>2. ProcTypeOK /\ [DriverNext]_driverVars => ProcTypeOK'
  <2> SUFFICES ASSUME ProcTypeOK, [DriverNext]_driverVars PROVE ProcTypeOK'
    OBVIOUS
  <2>1. UNCHANGED procVars => ProcTypeOK'
    BY DEF procVars
  <2>2. CASE StartUp
    <3>1. stage' \in {"rootca", "config", "driver", "run"}
      BY <2>2 DEF StartUp, After
    <3> QED BY <2>2, <3>1 DEF StartUp
  <2>3. CASE StartUpFails \/ StopServer \/ ServerReturns \/ Return
    BY Zenon, <2>3 DEF StartUpFails, StopServer, ServerReturns, Return
  <2>4. CASE DriverRestart
    BY Zenon, <2>4 DEF DriverRestart
  <2>5. CASE Signal
    BY <2>1, <2>5 DEF Signal
  <2>6. CASE Running(RunStep) \/ Running(RetryStep) \/ ProviderRotates
    BY <2>1, <2>6 DEF Running, ProviderRotates
  <2>7. CASE UNCHANGED driverVars
    BY <2>1, <2>7 DEF driverVars
  <2> QED BY <2>2, <2>3, <2>4, <2>5, <2>6, <2>7 DEF DriverNext
<1>3. MgrTypeOK /\ ProcTypeOK => DriverTypeOK
  BY DEF DriverTypeOK, After
<1>4. DriverSpec => []ProcTypeOK
  BY <1>1, <1>2, PTL DEF DriverSpec
<1>5. DriverSpec => []MgrTypeOK
  BY DriverImplementsLoop, MgrTypeCorrect, PTL
<1> QED BY <1>3, <1>4, <1>5, PTL

\* Triggers of update passes and the running pass never outnumber the bundles
\* published, in any process.
THEOREM DriverTriggersBounded == DriverSpec => []TriggerBound
BY DriverImplementsLoop, TriggersBounded, PTL

\* run() can come to wait for itself only after two bundles were published.
THEOREM DriverBlocksAfterTwo == DriverSpec => []BlockNeedsTwoRotations
BY DriverImplementsLoop, OneRotationNeverBlocks, PTL

\* Until a signal comes, a bundle that was announced to run() and that no pass
\* has distributed has a trigger under way.
THEOREM DriverForgetsNothing == DriverSpec => []NoLostTrigger
BY DriverImplementsLoop, RotationsNotForgotten, PTL

\* A process with root CAs that came as far as its server has got a signal when it
\* ends, although its server may have failed long before.
THEOREM DriverExitsOnSignal == DriverSpec => []ExitsOnSignalOnly
<1> DEFINE Inv == /\ HasRootCAs /\ pc = "exited" => cancelled
                  /\ stage \in {"complete", "rootca", "config", "driver"} => server = "none"
                  /\ ExitsOnSignalOnly
<1>1. DriverInit => Inv
  BY DEF DriverInit, MgrInit, ExitsOnSignalOnly
<1>2. Inv /\ [DriverNext]_driverVars => Inv'
  <2> SUFFICES ASSUME Inv, [DriverNext]_driverVars PROVE Inv'
    OBVIOUS
  <2>0. UNCHANGED mgrVars => pc' = pc /\ cancelled' = cancelled
    BY DEF mgrVars, loopVars
  <2>1. CASE StartUp
    <3>1. stage' \in {"rootca", "config", "driver", "run"} /\ (stage' # "run" => server' = server)
      BY <2>1 DEF StartUp, After
    <3>2. stage \in {"complete", "rootca", "config", "driver"}
      BY <2>1 DEF StartUp, After
    <3>3. pc' = pc /\ cancelled' = cancelled
      BY <2>0, <2>1 DEF StartUp
    <3> QED BY <3>1, <3>2, <3>3 DEF ExitsOnSignalOnly
  <2>2. CASE StartUpFails
    <3>1. stage \in {"complete", "rootca", "config", "driver"}
      BY <2>2 DEF StartUpFails, After
    <3>2. stage' = "exited" /\ server' = server /\ pc' = pc /\ cancelled' = cancelled
      BY <2>0, <2>2 DEF StartUpFails
    <3> QED BY <3>1, <3>2 DEF ExitsOnSignalOnly
  <2>3. CASE StopServer \/ ServerReturns \/ Return
    <3>1. /\ pc' = pc /\ cancelled' = cancelled /\ stage = "run"
          /\ stage' = "run" \/ (stage' = "exited" /\ pc = "exited")
      BY <2>0, <2>3 DEF StopServer, ServerReturns, Return
    <3> QED BY <3>1 DEF ExitsOnSignalOnly
  <2>4. CASE Signal
    <3>1. CASE Cancel /\ UNCHANGED procVars
      BY <3>1 DEF Cancel, procVars, ExitsOnSignalOnly
    <3>2. CASE cancelled /\ stage' = "exited" /\ UNCHANGED <<mgrVars, server, stopped>>
      BY <2>0, <3>2 DEF ExitsOnSignalOnly
    <3> QED BY <2>4, <3>1, <3>2 DEF Signal
  <2>5. CASE Running(RunStep)
    <3>1. RunStep /\ UNCHANGED procVars
      BY <2>5 DEF Running
    <3>2. Start => cancelled' = cancelled /\ (HasRootCAs => pc' # "exited")
      BY DEF Start
    <3>3. RecvWatcher \/ Send \/ RecvUpdate \/ UpdateOK \/ UpdateFail => cancelled' = cancelled /\ pc' # "exited"
      BY DEF RecvWatcher, Send, RecvUpdate, UpdateOK, UpdateFail
    <3>4. Done => cancelled' = cancelled /\ cancelled
      BY DEF Done
    <3> QED BY <3>1, <3>2, <3>3, <3>4 DEF RunStep, procVars, ExitsOnSignalOnly
  <2>6. CASE Running(RetryStep) \/ ProviderRotates
    <3>1. UNCHANGED procVars
      BY <2>6 DEF Running, ProviderRotates
    <3>2. RetryStep => pc' = pc /\ cancelled' = cancelled
      BY DEF RetryStep, TimerFires, RetrySend, RetryCancelled
    <3>3. ProviderRotates => pc' = pc /\ cancelled' = cancelled
      BY DEF ProviderRotates, Rotate, loopVars
    <3> QED BY <2>6, <3>1, <3>2, <3>3 DEF Running, procVars, ExitsOnSignalOnly
  <2>7. CASE DriverRestart
    <3>1. pc' = "init" /\ stage' = "complete" /\ server' = "none"
      BY <2>7 DEF DriverRestart, MgrRestart
    <3> QED BY <3>1 DEF ExitsOnSignalOnly
  <2>8. CASE UNCHANGED driverVars
    BY <2>0, <2>8 DEF driverVars, procVars, ExitsOnSignalOnly
  <2> QED BY <2>1, <2>2, <2>3, <2>4, <2>5, <2>6, <2>7, <2>8 DEF DriverNext
<1> QED BY <1>1, <1>2, PTL DEF DriverSpec
=============================================================================
