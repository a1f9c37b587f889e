---- MODULE MCPaneSession ----
(***************************************************************************)
(* Instances of PaneSession for TLC.                                       *)
(***************************************************************************)
EXTENDS PaneSession

CONSTANTS s1, s2
====
