------------------------------ MODULE CAManager ------------------------------
(***************************************************************************)
(* driver/camanager.go, run(): the loop that turns notifications of the    *)
(* root CA provider into update passes over the managed volumes, and       *)
(* retries a pass that failed.                                             *)
(*                                                                         *)
(* An update pass is the interval between its start (pc = "update") and    *)
(* its result; CADistribution says what happens in between.  A goroutine   *)
(* that retries is counted in "sleeping" while it waits for the retry      *)
(* period and in "sending" while it sends on updateChan.                   *)
(***************************************************************************)
EXTENDS RootCA

CONSTANTS
  HasRootCAs,            \* is a root CA provider configured?
  MaxRotation,           \* bound on the bundles published
  MaxRestart             \* bound on the restarts of the driver

ASSUME MgrAssumption ==
  /\ HasRootCAs \in BOOLEAN
  /\ MaxRotation \in Nat
  /\ MaxRestart \in Nat

VARIABLES
  pc,                    \* where run() is
  updateChan,            \* triggers in the channel, whose buffer holds one
  sleeping, sending,     \* retrying goroutines
  cancelled,             \* ctx is done
  rotations, restarts,   \* bundles published, restarts of the process
  stale,                 \* a bundle was notified, and no pass begun since succeeded
  passStale,             \* a bundle was published since this pass began
  unheard                \* a bundle was published that no pass is going to follow

loopVars == <<pc, updateChan, sleeping, sending, cancelled>>
historyVars == <<rotations, restarts, stale, passStale, unheard>>
mgrVars == <<rootVars, loopVars, historyVars>>

MgrTypeOK ==
  /\ RootTypeOK
  /\ pc \in {"init", "select", "send", "update", "exited"}
  /\ updateChan \in 0..1
  /\ sleeping \in Nat
  /\ sending \in Nat
  /\ cancelled \in BOOLEAN
  /\ rotations \in 0..MaxRotation
  /\ stale \in BOOLEAN
  /\ passStale \in BOOLEAN
  /\ restarts \in 0..MaxRestart
  /\ unheard \in BOOLEAN

MgrInit ==
  /\ RootInit
  /\ pc = "init"
  /\ updateChan = 0 /\ sleeping = 0 /\ sending = 0
  /\ cancelled = FALSE
  /\ rotations = 0 /\ restarts = 0
  /\ stale = FALSE /\ passStale = FALSE /\ unheard = FALSE

-----------------------------------------------------------------------------
(* run() *)

\* Without root CAs there is nothing to do; otherwise subscribe and loop.
Start ==
  /\ pc = "init"
  /\ IF HasRootCAs
       THEN pc' = "select" /\ Subscribe
       ELSE pc' = "exited" /\ UNCHANGED rootVars
  /\ UNCHANGED <<updateChan, sleeping, sending, cancelled, historyVars>>

\* case <-watcher: the notification is taken ...
RecvWatcher ==
  /\ pc = "select"
  /\ Receive
  /\ pc' = "send"
  /\ UNCHANGED <<updateChan, sleeping, sending, cancelled, historyVars>>

\* Mutation: updateChan takes any number of triggers.
SendUnbounded ==
  /\ pc = "send"
  /\ updateChan' = updateChan + 1
  /\ pc' = "select"
  /\ UNCHANGED <<rootVars, sleeping, sending, cancelled, historyVars>>

\* ... and a trigger sent.  The send has the loop to itself: while the buffer
\* is full it waits, and this loop is what empties the buffer.
Send ==
  /\ pc = "send"
  /\ updateChan = 0
  /\ updateChan' = 1
  /\ pc' = "select"
  /\ UNCHANGED <<rootVars, sleeping, sending, cancelled, historyVars>>

\* case <-updateChan: an update pass begins.
RecvUpdate ==
  /\ pc = "select"
  /\ updateChan = 1
  /\ updateChan' = 0
  /\ pc' = "update"
  /\ passStale' = FALSE
  /\ UNCHANGED <<rootVars, sleeping, sending, cancelled, rotations, restarts, stale, unheard>>

UpdateOK ==
  /\ pc = "update"
  /\ pc' = "select"
  /\ stale' = passStale
  /\ passStale' = FALSE
  /\ UNCHANGED <<rootVars, updateChan, sleeping, sending, cancelled, rotations, restarts, unheard>>

\* Mutation: a failed pass is not retried.
UpdateFailNoRetry ==
  /\ pc = "update"
  /\ pc' = "select"
  /\ passStale' = FALSE
  /\ UNCHANGED <<rootVars, updateChan, sleeping, sending, cancelled, rotations, restarts, stale, unheard>>

\* A failed pass is retried by a goroutine of its own.
UpdateFail ==
  /\ pc = "update"
  /\ pc' = "select"
  /\ sleeping' = sleeping + 1
  /\ passStale' = FALSE
  /\ UNCHANGED <<rootVars, updateChan, sending, cancelled, rotations, restarts, stale, unheard>>

\* Mutation: the retry waits on a ticker, which fires again and again.
TimerFiresAgain ==
  /\ sleeping > 0
  /\ sending' = sending + 1
  /\ UNCHANGED <<rootVars, pc, updateChan, sleeping, cancelled, historyVars>>

TimerFires ==
  /\ sleeping > 0
  /\ sleeping' = sleeping - 1
  /\ sending' = sending + 1
  /\ UNCHANGED <<rootVars, pc, updateChan, cancelled, historyVars>>

RetrySend ==
  /\ sending > 0
  /\ updateChan = 0
  /\ sending' = sending - 1
  /\ updateChan' = 1
  /\ UNCHANGED <<rootVars, pc, sleeping, cancelled, historyVars>>

\* A retry that waits gives up when the context ends; one that sends does not.
RetryCancelled ==
  /\ cancelled
  /\ sleeping > 0
  /\ sleeping' = sleeping - 1
  /\ UNCHANGED <<rootVars, pc, updateChan, sending, cancelled, historyVars>>

Cancel ==
  /\ ~cancelled
  /\ cancelled' = TRUE
  /\ UNCHANGED <<rootVars, pc, updateChan, sleeping, sending, historyVars>>

\* case <-ctx.Done()
Done ==
  /\ pc = "select"
  /\ cancelled
  /\ pc' = "exited"
  /\ UNCHANGED <<rootVars, updateChan, sleeping, sending, cancelled, historyVars>>

\* The provider publishes another bundle.
Rotate(b) ==
  /\ HasRootCAs
  /\ rotations < MaxRotation
  /\ Publish(b)
  /\ rotations' = rotations + 1
  /\ stale' = (stale \/ subscribed)
  /\ passStale' = (pc = "update")
  /\ unheard' = (unheard \/ ~subscribed)
  /\ UNCHANGED <<loopVars, restarts>>

\* The process dies and starts again; the bundle may have changed meanwhile.
MgrRestart(b) ==
  /\ restarts < MaxRestart
  /\ restarts' = restarts + 1
  /\ RootRestart(b)
  /\ pc' = "init"
  /\ updateChan' = 0 /\ sleeping' = 0 /\ sending' = 0
  /\ cancelled' = FALSE
  /\ stale' = FALSE /\ passStale' = FALSE
  /\ unheard' = (unheard \/ stale \/ b # certificatesPEM)
  /\ UNCHANGED rotations

-----------------------------------------------------------------------------
RunStep == Start \/ RecvWatcher \/ Send \/ RecvUpdate \/ UpdateOK \/ UpdateFail \/ Done
RetryStep == TimerFires \/ RetrySend \/ RetryCancelled

MgrNext == RunStep \/ RetryStep \/ Cancel \/ \E b \in Bundle : Rotate(b) \/ MgrRestart(b)

MgrSpec == MgrInit /\ [][MgrNext]_mgrVars

\* The goroutines keep running; select chooses at random among its ready cases,
\* so that each is taken if it is ready again and again; timers fire; and an
\* update that is tried again and again succeeds at last.
MgrFairness ==
  /\ WF_mgrVars(RunStep)
  /\ SF_mgrVars(RecvWatcher) /\ SF_mgrVars(RecvUpdate) /\ SF_mgrVars(Done)
  /\ SF_mgrVars(UpdateOK)
  /\ WF_mgrVars(TimerFires) /\ SF_mgrVars(RetrySend)

MgrFairSpec == MgrSpec /\ MgrFairness

-----------------------------------------------------------------------------
(* Properties *)

\* The triggers of an update pass on their way: notifications, the one run()
\* is about to send, the buffered one and the retries.
InFlight == notifiers + (IF pc = "send" THEN 1 ELSE 0) + updateChan + sleeping + sending

\* Triggers are not multiplied: those on their way and the pass that runs are
\* never more than the bundles published.
TriggerBound == InFlight + (IF pc = "update" THEN 1 ELSE 0) <= rotations

\* A published bundle is not forgotten before the shutdown: while no pass that
\* began since has succeeded, a trigger is on its way or such a pass runs.
NoLostTrigger ==
  stale /\ ~cancelled => InFlight > 0 \/ (pc = "update" /\ ~passStale)

\* run() waits for itself to empty the buffer of updateChan.
SelfBlocked == pc = "send" /\ updateChan = 1

\* run() can come to wait for itself only after two bundles were published.
BlockNeedsTwoRotations == SelfBlocked => rotations >= 2

\* Every published bundle reaches the volumes, or the driver shuts down.
EveryRotationDistributed == stale ~> (~stale \/ cancelled)

\* The only obstacle to the distribution of a published bundle is that run()
\* waits for itself: failures, retries and further bundles are none.
DistributedUnlessBlocked == stale ~> (~stale \/ cancelled \/ SelfBlocked)
=============================================================================
