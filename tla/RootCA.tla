------------------------------- MODULE RootCA -------------------------------
(***************************************************************************)
(* What a provider of root CAs promises its consumer (rootca.Interface),   *)
(* in the form of its simplest implementation, rootca/memory.go: the       *)
(* current bundle, and one notification for every bundle published after   *)
(* the consumer subscribed.                                                *)
(*                                                                         *)
(* One subscription is modelled.  Every subscriber has an unbuffered       *)
(* channel of its own and every publication starts one goroutine per       *)
(* subscriber that does nothing but send on that channel, so subscribers   *)
(* never interact.  "notifiers" counts the goroutines that have not yet    *)
(* been received from: the channel holds nothing, the goroutines do.       *)
(***************************************************************************)
EXTENDS Naturals

CONSTANT Bundle          \* the root CA bundles that can be published

VARIABLES
  certificatesPEM,       \* what CertificatesPEM() returns
  subscribed,            \* has the consumer called Subscribe()?
  notifiers              \* goroutines blocked in "subscribers[i] <- struct{}{}"

rootVars == <<certificatesPEM, subscribed, notifiers>>

RootTypeOK ==
  /\ certificatesPEM \in Bundle
  /\ subscribed \in BOOLEAN
  /\ notifiers \in Nat

RootInit ==
  /\ certificatesPEM \in Bundle
  /\ subscribed = FALSE
  /\ notifiers = 0

\* Mutation: the subscriber is in the list twice.
BroadcastTwice == notifiers' = IF subscribed THEN notifiers + 2 ELSE notifiers

\* The loop over the subscribers, each sent to from a goroutine of its own.
Broadcast == notifiers' = IF subscribed THEN notifiers + 1 ELSE notifiers

\* A new bundle is stored and broadcast under the write lock.
Publish(b) ==
  /\ certificatesPEM' = b
  /\ Broadcast
  /\ UNCHANGED subscribed

Subscribe ==
  /\ ~subscribed
  /\ subscribed' = TRUE
  /\ UNCHANGED <<certificatesPEM, notifiers>>

\* The consumer takes one notification off its channel.
Receive ==
  /\ notifiers > 0
  /\ notifiers' = notifiers - 1
  /\ UNCHANGED <<certificatesPEM, subscribed>>

\* The provider and its consumer live in one process: a restart loses the
\* subscription and the notifications and starts from a fresh bundle.
RootRestart(b) ==
  /\ certificatesPEM' = b
  /\ subscribed' = FALSE
  /\ notifiers' = 0

RootNext ==
  \/ \E b \in Bundle : Publish(b)
  \/ Subscribe
  \/ Receive

RootSpec == RootInit /\ [][RootNext]_rootVars
=============================================================================
