-------------------------- MODULE RootCAFileProofs --------------------------
(***************************************************************************)
(* Theorems about rootca/file.go for every set of bundles, every queue     *)
(* length and any number of changes of the file.                           *)
(***************************************************************************)
EXTENDS RootCAFile, TLAPS

\* There is an event of this kind in the queue.
Pending(e) == \E i \in 1..Len(events) : events[i] = e

\* Without a watch start() is about to add one, knows of the removal, has
\* logged an error, or the watched file was renamed.
WatchInv ==
  /\ pc \in {"read", "add"} => watch = "none"
  /\ disk = Absent => watch # "current"
  /\ watch = "none" /\ pc \in {"idle", "reload"} /\ logged = {} /\ "moved" \notin missed
       => Pending("Remove")

\* While start() waits, a watched file that differs from the bundle served has
\* an event in the queue that leads to a reload.
ContentInv ==
  /\ pc = "add" /\ "early" \notin missed => certificatesPEM = disk
  /\ pc = "idle" /\ watch = "current" /\ logged = {} /\ "early" \notin missed
       => certificatesPEM = disk \/ Pending("Write") \/ Pending("Remove")

\* What the kernel's queue does to the events start() has yet to see.
LEMMA EmitLemma ==
  ASSUME TypeOK, NEW e \in EventOp, Emit(e)
  PROVE  /\ events' \in Seq(EventOp)
         /\ logged' \subseteq {"add", "read", "overflow"}
         /\ logged' = {} => logged = {} /\ Pending(e)'
         /\ \A x \in EventOp : Pending(x) => Pending(x)'
<1> USE DEF TypeOK, Emit, Pending
<1>1. CASE events # <<>> /\ events[Len(events)] = e
  <2>1. Len(events) \in 1..Len(events)
    BY <1>1
  <2>2. UNCHANGED <<events, logged>>
    BY <1>1
  <2> QED BY <1>1, <2>1, <2>2
<1>2. CASE ~(events # <<>> /\ events[Len(events)] = e) /\ Len(events) >= QueueCap
  BY <1>2
<1>3. CASE ~(events # <<>> /\ events[Len(events)] = e) /\ ~(Len(events) >= QueueCap)
  <2>1. events' = Append(events, e) /\ logged' = logged
    BY <1>3
  <2>2. events'[Len(events)+1] = e /\ Len(events') = Len(events) + 1
    BY <2>1
  <2>3. \A i \in 1..Len(events) : events'[i] = events[i]
    BY <2>1
  <2> QED BY <2>1, <2>2, <2>3
<1> QED BY <1>1, <1>2, <1>3

LEMMA EmitIfWatchedLemma ==
  ASSUME TypeOK, NEW e \in EventOp, EmitIfWatched(e)
  PROVE  /\ events' \in Seq(EventOp)
         /\ logged' \subseteq {"add", "read", "overflow"}
         /\ logged' = {} => logged = {} /\ (watch = "current" => Pending(e)')
         /\ \A x \in EventOp : Pending(x) => Pending(x)'
<1>1. CASE watch = "current"
  BY <1>1, EmitLemma DEF EmitIfWatched
<1>2. CASE watch # "current"
  BY <1>2 DEF EmitIfWatched, TypeOK, Pending
<1> QED BY <1>1, <1>2

\* Taking the oldest event leaves all others pending.
LEMMA TailLemma ==
  ASSUME TypeOK, events # <<>>, events' = Tail(events)
  PROVE  /\ events' \in Seq(EventOp)
         /\ \A x \in EventOp : Pending(x) /\ Head(events) # x => Pending(x)'
<1>1. events' \in Seq(EventOp)
  BY DEF TypeOK
<1>2. ASSUME NEW x \in EventOp, Pending(x), Head(events) # x
      PROVE  Pending(x)'
  <2>1. PICK i \in 1..Len(events) : events[i] = x
    BY <1>2 DEF Pending
  <2>2. i - 1 \in 1..Len(events') /\ events'[i - 1] = x
    BY <1>2, <2>1 DEF TypeOK
  <2> QED BY <2>2 DEF Pending
<1> QED BY <1>1, <1>2

\* The operations of rootca.Interface keep its state well typed.
LEMMA RootTypes ==
  ASSUME RootTypeOK
  PROVE  /\ \A b \in Bundle : Publish(b) => RootTypeOK'
         /\ Subscribe => RootTypeOK'
         /\ Receive => RootTypeOK'
         /\ UNCHANGED rootVars => RootTypeOK'
<1>1. ASSUME NEW b \in Bundle, Publish(b) PROVE RootTypeOK'
  <2>1. notifiers' \in Nat
    <3>1. CASE subscribed
      BY <1>1, <3>1 DEF RootTypeOK, Publish, Broadcast
    <3>2. CASE ~subscribed
      BY <1>1, <3>2 DEF RootTypeOK, Publish, Broadcast
    <3> QED BY <3>1, <3>2
  <2>2. subscribed' \in BOOLEAN
    BY <1>1 DEF RootTypeOK, Publish
  <2> QED BY <1>1, <2>1, <2>2 DEF RootTypeOK, Publish
<1>2. ASSUME Subscribe PROVE RootTypeOK'
  BY <1>2, Zenon DEF RootTypeOK, Subscribe
<1>3. ASSUME Receive PROVE RootTypeOK'
  <2>1. notifiers' \in Nat
    BY <1>3 DEF RootTypeOK, Receive
  <2> QED BY <1>3, <2>1 DEF RootTypeOK, Receive
<1>4. ASSUME UNCHANGED rootVars PROVE RootTypeOK'
  BY <1>4 DEF RootTypeOK, rootVars
<1> QED BY <1>1, <1>2, <1>3, <1>4

-----------------------------------------------------------------------------
\* The type invariant of rootca/file.go's model.
THEOREM TypeCorrect == Spec => []TypeOK
<1> USE FileAssumption DEF FileAssumption
<1>1. Init => TypeOK
  <2> SUFFICES ASSUME Init PROVE TypeOK
    OBVIOUS
  <2>1. subscribed \in BOOLEAN
    BY DEF Init, RootInit
  <2>2. events \in Seq(EventOp)
    BY DEF Init
  <2>3. missed \subseteq {"early", "moved"}
    BY DEF Init
  <2> QED BY <2>1, <2>2, <2>3 DEF Init, TypeOK, RootInit, RootTypeOK
<1>2. TypeOK /\ [Next]_vars => TypeOK'
  <2> SUFFICES ASSUME TypeOK, [Next]_vars PROVE TypeOK'
    OBVIOUS
  <2>1. CASE ReadInitial
    <3>1. RootTypeOK'
      BY <2>1, RootTypes DEF TypeOK, ReadInitial
    <3> QED BY <2>1, <3>1 DEF TypeOK, ReadInitial
  <2>2. CASE AddInitial
    BY <2>2 DEF TypeOK, RootTypeOK, AddInitial, rootVars
  <2>3. CASE HandleEvent
    <3>1. events' \in Seq(EventOp)
      BY <2>3, TailLemma DEF HandleEvent
    <3> QED BY <2>3, <3>1 DEF TypeOK, RootTypeOK, HandleEvent, rootVars
  <2>4. CASE Readd
    BY <2>4 DEF TypeOK, RootTypeOK, Readd, rootVars
  <2>5. CASE Reload
    <3>1. RootTypeOK'
      BY <2>5, RootTypes DEF TypeOK, Reload
    <3> QED BY <2>5, <3>1 DEF TypeOK, Reload
  <2>6. CASE Stop
    BY <2>6 DEF TypeOK, RootTypeOK, Stop, rootVars
  <2>7. CASE Consume
    <3>1. RootTypeOK'
      BY <2>7, RootTypes DEF TypeOK, Consume
    <3> QED BY <2>7, <3>1 DEF TypeOK, Consume, fileVars
  <2>8. CASE \E b \in Bundle \ {Partial} : Swap(b) \/ FinishWrite(b) \/ Create(b)
    <3> PICK b \in Bundle \ {Partial} : Swap(b) \/ FinishWrite(b) \/ Create(b)
      BY <2>8
    <3>1. CASE Swap(b)
      BY <3>1 DEF TypeOK, RootTypeOK, Swap, Change, EarlyChange, rootVars
    <3>2. CASE FinishWrite(b)
      <4>1. events' \in Seq(EventOp) /\ logged' \subseteq {"add", "read", "overflow"}
        BY <3>2, EmitIfWatchedLemma DEF FinishWrite, EventOp
      <4> QED BY <3>2, <4>1 DEF TypeOK, RootTypeOK, FinishWrite, EarlyChange, rootVars
    <3>3. CASE Create(b)
      BY <3>3 DEF TypeOK, RootTypeOK, Create, Change, EarlyChange, rootVars
    <3> QED BY <3>1, <3>2, <3>3
  <2>9. CASE RemoveOld
    <3>1. events' \in Seq(EventOp) /\ logged' \subseteq {"add", "read", "overflow"}
      BY <2>9, EmitLemma DEF RemoveOld, EventOp
    <3> QED BY <2>9, <3>1 DEF TypeOK, RootTypeOK, RemoveOld, rootVars
  <2>10. CASE Truncate
    <3>1. events' \in Seq(EventOp) /\ logged' \subseteq {"add", "read", "overflow"}
      BY <2>10, EmitIfWatchedLemma DEF Truncate, EventOp
    <3> QED BY <2>10, <3>1 DEF TypeOK, RootTypeOK, Truncate, Change, EarlyChange, rootVars
  <2>11. CASE Chmod
    <3>1. events' \in Seq(EventOp) /\ logged' \subseteq {"add", "read", "overflow"}
      BY <2>11, EmitIfWatchedLemma DEF Chmod, EventOp
    <3> QED BY <2>11, <3>1 DEF TypeOK, RootTypeOK, Chmod, Change, EarlyChange, rootVars
  <2>12. CASE Delete
    <3>1. events' \in Seq(EventOp) /\ logged' \subseteq {"add", "read", "overflow"}
      BY <2>12, EmitIfWatchedLemma DEF Delete, EventOp
    <3> QED BY <2>12, <3>1 DEF TypeOK, RootTypeOK, Delete, Change, EarlyChange, rootVars
  <2>13. CASE Move
    <3>1. events' \in Seq(EventOp) /\ logged' \subseteq {"add", "read", "overflow"}
      BY <2>13, EmitIfWatchedLemma DEF Move, EventOp
    <3> QED BY <2>13, <3>1 DEF TypeOK, RootTypeOK, Move, Change, EarlyChange, rootVars
  <2>14. CASE UNCHANGED vars
    BY <2>14 DEF TypeOK, RootTypeOK, vars, rootVars, fileVars
  <2> QED BY <2>1, <2>2, <2>3, <2>4, <2>5, <2>6, <2>7, <2>8, <2>9, <2>10,
             <2>11, <2>12, <2>13, <2>14 DEF Next, FileProc, FileEnv
<1> QED BY <1>1, <1>2, PTL DEF Spec
-----------------------------------------------------------------------------
\* A step that emits an event with the watch in place, and leaves pc and the
\* watch alone, keeps WatchInv: shared by the writes and by chmod.
LEMMA QuietWatch ==
  ASSUME TypeOK, WatchInv, NEW e \in EventOp, EmitIfWatched(e),
         UNCHANGED <<pc, watch>>, disk' = Absent => disk = Absent,
         missed \subseteq missed'
  PROVE  WatchInv'
BY EmitIfWatchedLemma DEF WatchInv, EventOp

\* Without a watch, start() knows of the removal, is about to add a watch
\* again, or has logged an error.
LEMMA WatchInvariant == Spec => []WatchInv
<1>1. Init => WatchInv
  BY FileAssumption DEF Init, WatchInv
<1>2. TypeOK /\ WatchInv /\ [Next]_vars => WatchInv'
  <2> SUFFICES ASSUME TypeOK, WatchInv, [Next]_vars PROVE WatchInv'
    OBVIOUS
  <2>1. CASE ReadInitial
    BY <2>1 DEF ReadInitial, WatchInv, Pending
  <2>2. CASE AddInitial
    BY <2>2 DEF AddInitial, WatchInv, Pending
  <2>3. CASE HandleEvent
    <3>1. \A x \in EventOp : Pending(x) /\ Head(events) # x => Pending(x)'
      BY <2>3, TailLemma DEF HandleEvent
    <3> QED BY <2>3, <3>1 DEF HandleEvent, WatchInv, EventOp
  <2>4. CASE Readd
    BY <2>4 DEF Readd, WatchInv
  <2>5. CASE Reload
    BY <2>5 DEF Reload, WatchInv, Pending
  <2>6. CASE Stop
    BY <2>6 DEF Stop, WatchInv
  <2>7. CASE Consume
    BY <2>7 DEF Consume, WatchInv, Pending, fileVars
  <2>8. CASE \E b \in Bundle \ {Partial} : Swap(b) \/ FinishWrite(b) \/ Create(b)
    <3> PICK b \in Bundle \ {Partial} : Swap(b) \/ FinishWrite(b) \/ Create(b)
      BY <2>8
    <3>1. CASE Swap(b)
      BY <3>1, FileAssumption DEF Swap, Change, WatchInv, Pending
    <3>2. CASE FinishWrite(b)
      BY <3>2, QuietWatch, FileAssumption DEF FinishWrite, EventOp
    <3>3. CASE Create(b)
      BY <3>3, FileAssumption DEF Create, Change, WatchInv, Pending
    <3> QED BY <3>1, <3>2, <3>3
  <2>9. CASE RemoveOld
    BY <2>9, EmitLemma DEF RemoveOld, WatchInv, EventOp
  <2>10. CASE Truncate
    BY <2>10, QuietWatch, FileAssumption DEF Truncate, Change, EarlyChange, EventOp
  <2>11. CASE Chmod
    BY <2>11, QuietWatch DEF Chmod, Change, EventOp
  <2>12. CASE Delete
    BY <2>12, EmitIfWatchedLemma DEF Delete, Change, WatchInv, EventOp, TypeOK
  <2>13. CASE Move
    BY <2>13, EmitIfWatchedLemma DEF Move, Change, WatchInv, EventOp, TypeOK
  <2>14. CASE UNCHANGED vars
    BY <2>14 DEF WatchInv, Pending, vars, fileVars
  <2> QED BY <2>1, <2>2, <2>3, <2>4, <2>5, <2>6, <2>7, <2>8, <2>9, <2>10,
             <2>11, <2>12, <2>13, <2>14 DEF Next, FileProc, FileEnv
<1> QED BY <1>1, <1>2, TypeCorrect, PTL DEF Spec

\* WatchKept, for every number and order of changes: at rest start() watches
\* the file its path leads to, or it has logged an error.
THEOREM WatchIsKept == Spec => []WatchKept
<1>1. TypeOK /\ WatchInv => WatchKept
  BY DEF TypeOK, WatchInv, WatchKept, Settled, Pending
<1> QED BY <1>1, TypeCorrect, WatchInvariant, PTL

\* A write or chmod of the watched file keeps ContentInv if a change of the
\* contents comes with a Write event.
LEMMA QuietContent ==
  ASSUME TypeOK, ContentInv, NEW e \in EventOp, EmitIfWatched(e),
         UNCHANGED <<pc, watch, certificatesPEM>>,
         e = "Write" \/ disk' = disk,
         missed \subseteq missed', pc = "add" /\ e = "Write" => "early" \in missed'
  PROVE  ContentInv'
BY EmitIfWatchedLemma DEF ContentInv, EventOp

\* NoSilentLoss, for every number and order of changes: at rest the provider
\* serves what the file holds, or it has logged an error, or NewFile missed the
\* last change.
THEOREM NothingLostSilently == Spec => []NoSilentLoss
<1>1. Init => ContentInv
  BY DEF Init, ContentInv
<1>2. TypeOK /\ WatchInv /\ ContentInv /\ [Next]_vars => ContentInv'
  <2> SUFFICES ASSUME TypeOK, WatchInv, ContentInv, [Next]_vars
               PROVE  ContentInv'
    OBVIOUS
  <2>1. CASE ReadInitial
    BY <2>1 DEF ReadInitial, ContentInv, Publish
  <2>2. CASE AddInitial
    BY <2>2 DEF AddInitial, ContentInv, rootVars
  <2>3. CASE HandleEvent
    <3>1. \A x \in EventOp : Pending(x) /\ Head(events) # x => Pending(x)'
      BY <2>3, TailLemma DEF HandleEvent
    <3> QED BY <2>3, <3>1 DEF HandleEvent, ContentInv, EventOp, rootVars
  <2>4. CASE Readd
    BY <2>4 DEF Readd, ContentInv
  <2>5. CASE Reload
    BY <2>5 DEF Reload, ContentInv, WatchInv, Publish, rootVars
  <2>6. CASE Stop
    BY <2>6 DEF Stop, ContentInv
  <2>7. CASE Consume
    BY <2>7 DEF Consume, ContentInv, Pending, fileVars, Subscribe, Receive
  <2>8. CASE \E b \in Bundle \ {Partial} : Swap(b) \/ FinishWrite(b) \/ Create(b)
    <3> PICK b \in Bundle \ {Partial} : Swap(b) \/ FinishWrite(b) \/ Create(b)
      BY <2>8
    <3>1. CASE Swap(b)
      BY <3>1 DEF Swap, Change, EarlyChange, ContentInv
    <3>2. CASE FinishWrite(b)
      BY <3>2, QuietContent DEF FinishWrite, EarlyChange, EventOp, rootVars
    <3>3. CASE Create(b)
      BY <3>3 DEF Create, Change, EarlyChange, ContentInv, WatchInv
    <3> QED BY <3>1, <3>2, <3>3
  <2>9. CASE RemoveOld
    BY <2>9, EmitLemma DEF RemoveOld, ContentInv, EventOp, rootVars
  <2>10. CASE Truncate
    BY <2>10, QuietContent DEF Truncate, Change, EarlyChange, EventOp, rootVars
  <2>11. CASE Chmod
    BY <2>11, QuietContent DEF Chmod, Change, EventOp, rootVars
  <2>12. CASE Delete
    BY <2>12 DEF Delete, Change, EarlyChange, ContentInv
  <2>13. CASE Move
    BY <2>13 DEF Move, Change, EarlyChange, ContentInv
  <2>14. CASE UNCHANGED vars
    BY <2>14 DEF ContentInv, Pending, vars, fileVars, rootVars
  <2> QED BY <2>1, <2>2, <2>3, <2>4, <2>5, <2>6, <2>7, <2>8, <2>9, <2>10,
             <2>11, <2>12, <2>13, <2>14 DEF Next, FileProc, FileEnv
<1>3. WatchKept /\ ContentInv => NoSilentLoss
  BY DEF ContentInv, WatchKept, NoSilentLoss, Settled, Pending
<1> QED BY <1>1, <1>2, <1>3, TypeCorrect, WatchInvariant, WatchIsKept, PTL DEF Spec

-----------------------------------------------------------------------------
\* rootca/file.go implements rootca.Interface: every step that changes the
\* bundle or a notification is a step of RootCA.
THEOREM FileImplementsRootCA == Spec => ImplementsRootCA
<1>1. Init => RootInit
  BY DEF Init
<1>2. TypeOK /\ [Next]_vars => [RootNext]_rootVars
  <2> SUFFICES ASSUME TypeOK, [Next]_vars PROVE [RootNext]_rootVars
    OBVIOUS
  <2>1. CASE ReadInitial
    BY <2>1 DEF ReadInitial, TypeOK, RootNext
  <2>2. CASE Reload
    BY <2>2 DEF Reload, TypeOK, RootNext
  <2>3. CASE Consume
    BY <2>3 DEF Consume, RootNext
  <2>4. CASE AddInitial \/ HandleEvent \/ Readd \/ Stop
    BY <2>4 DEF AddInitial, HandleEvent, Readd, Stop
  <2>5. CASE FileEnv
    BY <2>5 DEF FileEnv, Swap, FinishWrite, Create, RemoveOld, Truncate, Chmod,
                Delete, Move, Change
  <2>6. CASE UNCHANGED vars
    BY <2>6 DEF vars
  <2> QED BY <2>1, <2>2, <2>3, <2>4, <2>5, <2>6 DEF Next, FileProc
<1> QED BY <1>1, <1>2, TypeCorrect, PTL DEF Spec, ImplementsRootCA, RootSpec
=============================================================================
