------------------------------ MODULE ConfigSource ------------------------------
(***************************************************************************)
(* What a runtime configuration promises the driver and the approver       *)
(* (runtimeconfig.Interface), in the form of its simplest implementation,  *)
(* runtimeconfig/memory.go: Config() returns one whole configuration,      *)
(* which is replaced as a whole, and not any more once the goroutine that  *)
(* replaces it has seen the end of its context.                            *)
(***************************************************************************)
CONSTANTS
  Configs,               \* the configurations there can be
  initial                \* the one to begin with

VARIABLES
  active,                \* what Config() returns
  running                \* does the goroutine still listen for updates?

sourceVars == <<active, running>>

Init == active = initial /\ running = TRUE

\* case cfg := <-updates, under the write lock
Update(cfg) ==
  /\ running
  /\ active' = cfg
  /\ UNCHANGED running

\* case <-ctx.Done()
Stop ==
  /\ running
  /\ running' = FALSE
  /\ UNCHANGED active

Next == Stop \/ \E cfg \in Configs : Update(cfg)

Spec == Init /\ [][Next]_sourceVars

-----------------------------------------------------------------------------
\* runtimeconfig.New: a ConfigMap is watched if one is named, for which a client
\* is needed; a static issuer alone is kept in memory, with no updates.
New(hasClient, configMapName, staticName) ==
  CASE configMapName # "" /\ hasClient      -> "configmap"
    [] configMapName = "" /\ staticName # "" -> "memory"
    [] OTHER                                -> "error"
=============================================================================
