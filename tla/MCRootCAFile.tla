---------------------------- MODULE MCRootCAFile ----------------------------
(* Bounds for RootCAFile: two bundles and the half-written one.            *)
EXTENDS RootCAFile

CONSTANTS b1, b2

MCBundle == {b1, b2, Partial}
AllOps == {"swap", "write", "chmod", "delete", "move", "cancel"}
=============================================================================
