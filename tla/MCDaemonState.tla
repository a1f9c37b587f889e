---- MODULE MCDaemonState ----
(***************************************************************************)
(* Instances of DaemonState for TLC.                                       *)
(***************************************************************************)
EXTENDS DaemonState, TLC

CONSTANTS p1, p2, p3, w1, w2, w3, n1, blank, d1, shell, agent, none

\* One size is no size: the daemon refuses it.
MCSizes == {DefaultSize, <<0, 24>>, <<120, 40>>}

MCSymmetry == Permutations(PaneIds) \cup Permutations(WorkspaceIds)
====
