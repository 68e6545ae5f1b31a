----------------------------- MODULE RootCAFile -----------------------------
(***************************************************************************)
(* rootca/file.go: the provider of root CAs that reads them from a file    *)
(* and follows the file with an fsnotify watch.                            *)
(*                                                                         *)
(* The process is one goroutine after NewFile has returned; "pc" says      *)
(* where it is.  Its surroundings are external: the file, the inotify      *)
(* watch (which follows a file, not a path) and the event queue.  The file *)
(* changes in the ways the code provides for: the symlink swap of a        *)
(* mounted volume ("swap"), a write in place ("write", a truncation and    *)
(* then the contents), and in ways it meets anyway: permissions ("chmod"), *)
(* deletion and re-creation ("delete"), the file renamed to another place  *)
(* ("move").  "cancel" ends the context.                                   *)
(***************************************************************************)
EXTENDS RootCA, Sequences

CONSTANTS
  Partial,               \* what the file holds between truncation and write
  Absent,                \* there is no file
  EnvOps,                \* which of the ways above the surroundings use
  MaxChanges,            \* bound on the changes of the file
  QueueCap               \* events the kernel queues before it drops one

ASSUME FileAssumption ==
  /\ Partial \in Bundle
  /\ Absent \notin Bundle
  /\ EnvOps \subseteq {"swap", "write", "chmod", "delete", "move", "cancel"}
  /\ MaxChanges \in Nat
  /\ QueueCap \in Nat \ {0}

VARIABLES
  disk,                  \* contents at filepath, or Absent
  watch,                 \* the watched file: "current", "old" or "none"
  events,                \* watcher.Events, oldest first
  pc,                    \* where NewFile and then start() are
  logged,                \* the errors start() has logged
  missed,                \* the changes start() is not told of, or ignores: see Change
  changes                \* changes of the file so far

fileVars == <<disk, watch, events, pc, logged, missed, changes>>
vars == <<rootVars, fileVars>>

EventOp == {"Write", "Remove", "Chmod", "Rename"}

TypeOK ==
  /\ RootTypeOK
  /\ disk \in Bundle \cup {Absent}
  /\ watch \in {"current", "old", "none"}
  /\ events \in Seq(EventOp)
  /\ pc \in {"read", "add", "failed", "idle", "readd", "reload", "stopped"}
  /\ logged \subseteq {"add", "read", "overflow"}
  /\ missed \subseteq {"early", "moved"}
  /\ changes \in 0..MaxChanges

Init ==
  /\ RootInit
  /\ disk \in Bundle \cup {Absent}
  /\ watch = "none"
  /\ events = <<>>
  /\ pc = "read"
  /\ logged = {} /\ missed = {}
  /\ changes = 0

-----------------------------------------------------------------------------
(* NewFile *)

\* os.ReadFile: the bundle the provider starts with.
ReadInitial ==
  /\ pc = "read"
  /\ IF disk = Absent
       THEN pc' = "failed" /\ UNCHANGED rootVars
       ELSE pc' = "add" /\ Publish(disk)
  /\ UNCHANGED <<disk, watch, events, logged, missed, changes>>

\* watcher.Add, after the read.
AddInitial ==
  /\ pc = "add"
  /\ IF disk = Absent
       THEN pc' = "failed" /\ UNCHANGED watch
       ELSE pc' = "idle" /\ watch' = "current"
  /\ UNCHANGED <<rootVars, disk, events, logged, missed, changes>>

-----------------------------------------------------------------------------
(* start() *)

\* Mutation: only Remove events are acted on.
HandleEventIgnoresWrite ==
  /\ pc = "idle" /\ events # <<>>
  /\ events' = Tail(events)
  /\ pc' = IF Head(events) = "Remove" THEN "readd" ELSE "idle"
  /\ UNCHANGED <<rootVars, disk, watch, logged, missed, changes>>

\* One turn of the select loop with an event of the watcher.
HandleEvent ==
  /\ pc = "idle" /\ events # <<>>
  /\ events' = Tail(events)
  /\ pc' = CASE Head(events) = "Remove" -> "readd"
             [] Head(events) = "Write"  -> "reload"
             [] OTHER                   -> "idle"
  /\ UNCHANGED <<rootVars, disk, watch, logged, missed, changes>>

\* Mutation: the watch is not added again.
ReaddOmitted ==
  /\ pc = "readd"
  /\ pc' = "reload"
  /\ UNCHANGED <<rootVars, watch, logged, disk, events, missed, changes>>

\* Mutation: the watch is added again but the file is not reloaded.
ReaddWithoutReload ==
  /\ pc = "readd"
  /\ pc' = "idle"
  /\ IF disk = Absent
       THEN watch' = "none" /\ logged' = logged \cup {"add"} /\ UNCHANGED missed
       ELSE watch' = "current" /\ missed' = missed \ {"moved"} /\ UNCHANGED logged
  /\ UNCHANGED <<rootVars, disk, events, changes>>

\* watcher.Remove of the stale watch and watcher.Add of the path.  A failure
\* to add is logged, and nothing adds the watch later.
Readd ==
  /\ pc = "readd"
  /\ pc' = "reload"
  /\ IF disk = Absent
       THEN watch' = "none" /\ logged' = logged \cup {"add"} /\ UNCHANGED missed
       ELSE watch' = "current" /\ missed' = missed \ {"moved"} /\ UNCHANGED logged
  /\ UNCHANGED <<rootVars, disk, events, changes>>

\* Mutation: the new bundle is stored but the subscribers are not told.
ReloadSilent ==
  /\ pc = "reload"
  /\ pc' = "idle"
  /\ IF disk = Absent
       THEN logged' = logged \cup {"read"} /\ UNCHANGED <<rootVars, missed>>
       ELSE certificatesPEM' = disk /\ missed' = missed \ {"early"} /\ UNCHANGED <<logged, subscribed, notifiers>>
  /\ UNCHANGED <<disk, watch, events, changes>>

\* Mutation: the bundle is stored although the file could not be read.
ReloadUnchecked ==
  /\ pc = "reload"
  /\ pc' = "idle"
  /\ IF disk = certificatesPEM THEN UNCHANGED rootVars ELSE Publish(disk)
  /\ UNCHANGED <<disk, watch, events, logged, missed, changes>>

\* reloadCertificatesPEM: nothing is stored or broadcast when the file cannot
\* be read or holds what is known already.
Reload ==
  /\ pc = "reload"
  /\ pc' = "idle"
  /\ \/ /\ disk = Absent
        /\ logged' = logged \cup {"read"}
        /\ UNCHANGED <<rootVars, missed>>
     \/ /\ disk = certificatesPEM
        /\ missed' = missed \ {"early"}
        /\ UNCHANGED <<rootVars, logged>>
     \/ /\ disk \notin {Absent, certificatesPEM}
        /\ Publish(disk)
        /\ missed' = missed \ {"early"}
        /\ UNCHANGED logged
  /\ UNCHANGED <<disk, watch, events, changes>>

\* ctx.Done: the watcher is closed.
Stop ==
  /\ "cancel" \in EnvOps
  /\ pc = "idle"
  /\ pc' = "stopped"
  /\ watch' = "none"
  /\ UNCHANGED <<rootVars, disk, events, logged, missed, changes>>

\* The consumer: Subscribe() once the provider exists, and its receives.
Consume ==
  /\ \/ pc \notin {"read", "add", "failed"} /\ Subscribe
     \/ Receive
  /\ UNCHANGED fileVars

-----------------------------------------------------------------------------
(* The file, its watch and the event queue (external). *)

\* The kernel queues an event about the watched file.  It merges one equal to
\* the newest and drops one that finds the queue full, which the watcher
\* reports on watcher.Errors and start() only logs.
Emit(e) ==
  LET merged == events # <<>> /\ events[Len(events)] = e
      full   == Len(events) >= QueueCap
  IN  \/ merged /\ UNCHANGED <<events, logged>>
      \/ ~merged /\ full /\ logged' = logged \cup {"overflow"} /\ UNCHANGED events
      \/ ~merged /\ ~full /\ events' = Append(events, e) /\ UNCHANGED logged

EmitIfWatched(e) ==
  IF watch = "current" THEN Emit(e) ELSE UNCHANGED <<events, logged>>

\* A change between NewFile's read and its watch is known to nobody until a
\* later one leads to a reload.
EarlyChange == IF pc = "add" THEN {"early"} ELSE {}

\* A change of the file by somebody else.
Change(op) ==
  /\ op \in EnvOps
  /\ changes < MaxChanges
  /\ changes' = changes + 1
  /\ UNCHANGED <<rootVars, pc>>

\* The volume's symlink now leads to another file.  Nobody touched the watched
\* one: there is no event.
Swap(b) ==
  /\ Change("swap")
  /\ disk # Absent /\ disk' = b
  /\ missed' = missed \cup EarlyChange
  /\ watch' = IF watch = "current" THEN "old" ELSE watch
  /\ UNCHANGED <<events, logged>>

\* The swapped-out file is removed: its watch reports that and goes away.
RemoveOld ==
  /\ watch = "old"
  /\ watch' = "none"
  /\ Emit("Remove")
  /\ UNCHANGED <<rootVars, pc, disk, missed, changes>>

Truncate ==
  /\ Change("write")
  /\ disk \notin {Absent, Partial} /\ disk' = Partial
  /\ missed' = missed \cup EarlyChange
  /\ EmitIfWatched("Write")
  /\ UNCHANGED watch

FinishWrite(b) ==
  /\ disk = Partial /\ disk' = b
  /\ EmitIfWatched("Write")
  /\ missed' = missed \cup EarlyChange
  /\ UNCHANGED <<rootVars, pc, watch, changes>>

Chmod ==
  /\ Change("chmod")
  /\ disk # Absent
  /\ EmitIfWatched("Chmod")
  /\ UNCHANGED <<disk, watch, missed>>

Delete ==
  /\ Change("delete")
  /\ disk # Absent /\ disk' = Absent
  /\ missed' = missed \cup EarlyChange
  /\ EmitIfWatched("Remove")
  /\ watch' = IF watch = "current" THEN "none" ELSE watch

\* The file is renamed to another place.  fsnotify drops the watch with the
\* event, and start() acts on events of other kinds only.
Move ==
  /\ Change("move")
  /\ disk # Absent /\ disk' = Absent
  /\ missed' = missed \cup EarlyChange \cup (IF watch = "current" THEN {"moved"} ELSE {})
  /\ EmitIfWatched("Rename")
  /\ watch' = IF watch = "current" THEN "none" ELSE watch

Create(b) ==
  /\ Change("delete")
  /\ disk = Absent /\ disk' = b
  /\ missed' = missed \cup EarlyChange
  /\ UNCHANGED <<watch, events, logged>>

-----------------------------------------------------------------------------
FileProc == ReadInitial \/ AddInitial \/ HandleEvent \/ Readd \/ Reload

FileEnv ==
  \/ \E b \in Bundle \ {Partial} : Swap(b) \/ FinishWrite(b) \/ Create(b)
  \/ RemoveOld \/ Truncate \/ Chmod \/ Delete \/ Move

Next == FileProc \/ Stop \/ Consume \/ FileEnv

Spec == Init /\ [][Next]_vars

\* The goroutine keeps running, the kubelet removes what it swapped out, and a
\* write that has begun ends.
FairSpec ==
  /\ Spec
  /\ WF_vars(FileProc)
  /\ WF_vars(RemoveOld)
  /\ WF_vars(\E b \in Bundle \ {Partial} : FinishWrite(b))

-----------------------------------------------------------------------------
(* Properties *)

\* start() has nothing left to do and nothing will make it do more.
Settled == pc = "idle" /\ events = <<>> /\ watch # "old"

\* A change of the file is never missed silently: when the watcher is at rest
\* and no error has been logged, CertificatesPEM() is what the file holds.  There
\* are two exceptions: a change between NewFile's read and its watch, until a
\* later change leads to a reload, and a watched file that was renamed.
NoSilentLoss == Settled /\ logged = {} /\ missed = {} => certificatesPEM = disk

\* The watch is never lost silently either: at rest, start() watches the file
\* the path leads to unless the failure to add the watch, or events lost by
\* the kernel, have been logged, or the watched file was renamed.
WatchKept == Settled /\ logged = {} /\ "moved" \notin missed => watch = "current"

\* Whatever happens to the file, the provider comes to serve what it holds,
\* unless there is none, start() has logged an error, does not run, or the last
\* change is one of the exceptions of NoSilentLoss.
Converges ==
  <>[](\/ disk \in {Absent, certificatesPEM}
       \/ logged # {} \/ missed # {} \/ pc \in {"failed", "stopped"})

\* The provider is a rootca.Interface: it stores a bundle and notifies its
\* subscriber in one step, and never does one without the other.
ImplementsRootCA == RootSpec
=============================================================================
