---------------------------- MODULE MCRuntimeConfig ----------------------------
(* Bounds for RuntimeConfig: two complete ConfigMaps (one with a key of its   *)
(* own besides), one that lacks a key and one with an empty value.            *)
EXTENDS RuntimeConfig

Full(n) == [k \in Keys |-> n]
MCStatic == Full("static")
MCData ==
  { Full("a"),
    [k \in Keys \cup {"note"} |-> "b"],
    [k \in Keys \ {issuerKindKey} |-> "c"],
    [Full("d") EXCEPT ![issuerNameKey] = ""] }
=============================================================================
