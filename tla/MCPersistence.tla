--------------------------- MODULE MCPersistence ---------------------------
(* Instances of Persistence: three bundles and two removals, in any order   *)
(* with two runs by hand and two cuts.                                      *)
EXTENDS Persistence
=============================================================================
