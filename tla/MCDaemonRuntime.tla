---- MODULE MCDaemonRuntime ----
(***************************************************************************)
(* Instances of DaemonRuntime for TLC.                                     *)
(***************************************************************************)
EXTENDS DaemonRuntime, TLC

CONSTANTS p1, p2, p3, w1, n1, d1, d2, shell, agent, c1, c2, none

OneSize == {DefaultSize}
LargeSizes == {DefaultSize, <<32768, 24>>}

Budget(asked, seen, killed) == [requests |-> asked, reports |-> seen, crashes |-> killed]

\* A pane that is created and one more request, or a report, around a crash.
Few == {Budget(2, 0, 1), Budget(1, 1, 1)}
DiskBudgets == {Budget(3, 1, 0)}

RuntimeSymmetry == Permutations(PaneIds) \cup Permutations(Clients) \cup Permutations(Dirs)
====
