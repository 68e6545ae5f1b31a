-------------------------------- MODULE Driver --------------------------------
(***************************************************************************)
(* The process of the CSI driver, from main() to its exit: the command of  *)
(* csi/app, which builds what the driver needs, and Driver.Run, which runs *)
(* the loop of CAManager and the gRPC server until both have returned.     *)
(* Signals come at any time, the first ends the context, the second the    *)
(* process (controller-runtime's SetupSignalHandler, external).  The       *)
(* server of csi-lib is external too: its Run returns when it was stopped  *)
(* or fails.                                                               *)
(***************************************************************************)
EXTENDS CAManager

VARIABLES
  stage,                 \* what the command is doing, or "exited"
  server,                \* the gRPC server: "none", "serving" or "returned"
  stopped                \* has driver.Stop() been called?

procVars == <<stage, server, stopped>>
driverVars == <<mgrVars, procVars>>

\* What NewCommand's command goes through, in this order.
After == [complete |-> "rootca", rootca |-> "config", config |-> "driver", driver |-> "run"]

DriverTypeOK ==
  /\ MgrTypeOK
  /\ stage \in DOMAIN After \cup {"run", "exited"}
  /\ server \in {"none", "serving", "returned"}
  /\ stopped \in BOOLEAN

DriverInit ==
  /\ MgrInit
  /\ stage = "complete" /\ server = "none" /\ stopped = FALSE

-----------------------------------------------------------------------------
(* csi/app *)

\* One thing after the other is built; none of them looks whether the context
\* has ended.  At last Driver.Run starts its goroutines.
StartUp ==
  /\ stage \in DOMAIN After
  /\ stage' = After[stage]
  /\ server' = IF stage' = "run" THEN "serving" ELSE server
  /\ UNCHANGED <<mgrVars, stopped>>

\* The first error ends the command.  The root CAs are loaded if there are any.
StartUpFails ==
  /\ stage \in DOMAIN After
  /\ stage = "rootca" => HasRootCAs
  /\ stage' = "exited"
  /\ UNCHANGED <<mgrVars, server, stopped>>

-----------------------------------------------------------------------------
(* Driver.Run *)

\* camanager.run and its retries are steps of the process while it runs.
Running(A) == stage = "run" /\ A /\ UNCHANGED procVars

\* Mutation: the server is stopped when everything has returned.
StopAfterWait ==
  /\ stage = "run" /\ ~stopped
  /\ pc = "exited" /\ server = "returned"
  /\ stopped' = TRUE
  /\ UNCHANGED <<mgrVars, stage, server>>

\* The goroutine that waits for the end of the context.
StopServer ==
  /\ stage = "run" /\ ~stopped
  /\ cancelled
  /\ stopped' = TRUE
  /\ UNCHANGED <<mgrVars, stage, server>>

\* The server has been stopped, or cannot listen or accept.
ServerReturns ==
  /\ stage = "run" /\ server = "serving"
  /\ server' = "returned"
  /\ UNCHANGED <<mgrVars, stage, stopped>>

\* Mutation: Run returns with the first of its goroutines.
ReturnWithServer ==
  /\ stage = "run"
  /\ pc = "exited" \/ server = "returned"
  /\ stage' = "exited"
  /\ UNCHANGED <<mgrVars, server, stopped>>

\* wg.Wait() returns, then Run, the command and main().
Return ==
  /\ stage = "run"
  /\ pc = "exited" /\ server = "returned"
  /\ stage' = "exited"
  /\ UNCHANGED <<mgrVars, server, stopped>>

-----------------------------------------------------------------------------
\* A signal: the first cancels the context, the second exits at once.
Signal ==
  /\ stage # "exited"
  /\ \/ Cancel /\ UNCHANGED procVars
     \/ cancelled /\ stage' = "exited" /\ UNCHANGED <<mgrVars, server, stopped>>

\* The provider is there from the moment it was built.
ProviderRotates ==
  /\ stage \in {"config", "driver", "run"}
  /\ \E b \in Bundle : Rotate(b)
  /\ UNCHANGED procVars

\* The kubelet starts the process again, which has exited or is killed.
DriverRestart ==
  /\ \E b \in Bundle : MgrRestart(b)
  /\ stage' = "complete" /\ server' = "none" /\ stopped' = FALSE

DriverNext ==
  \/ StartUp \/ StartUpFails
  \/ Running(RunStep) \/ Running(RetryStep)
  \/ StopServer \/ ServerReturns \/ Return
  \/ Signal \/ ProviderRotates \/ DriverRestart

DriverSpec == DriverInit /\ [][DriverNext]_driverVars

\* The fairness of CAManager while the process runs; the command goes on with
\* its work, and so do the goroutines of Run.  A server need not return unless
\* it was stopped, and nothing has to send a signal or restart the process.
DriverFairness ==
  /\ WF_driverVars(StartUp \/ StartUpFails)
  /\ WF_driverVars(Running(RunStep))
  /\ SF_driverVars(Running(RecvWatcher)) /\ SF_driverVars(Running(RecvUpdate))
  /\ SF_driverVars(Running(Done)) /\ SF_driverVars(Running(UpdateOK))
  /\ WF_driverVars(Running(TimerFires)) /\ SF_driverVars(Running(RetrySend))
  /\ WF_driverVars(StopServer)
  /\ WF_driverVars(stopped /\ ServerReturns)
  /\ WF_driverVars(Return)

DriverFairSpec == DriverSpec /\ DriverFairness

-----------------------------------------------------------------------------
(* Properties *)

\* A signal ends the process in the end, whichever moment of the start-up, of an
\* update pass or of a server failure it comes at, if run() does not wait for
\* itself and the process is not restarted first.
SignalEndsProcess == cancelled ~> (stage = "exited" \/ SelfBlocked \/ ~cancelled)

\* With root CAs a process that came as far as its server ends by a signal only:
\* camanager.run holds wg.Wait(), and with it the error of a server that failed,
\* until the context ends, however long the process has been without a server.
ExitsOnSignalOnly == HasRootCAs /\ stage = "exited" /\ server # "none" => cancelled
=============================================================================
