---- MODULE MCUiSession ----
(***************************************************************************)
(* Instances of UiSession for TLC.                                         *)
(***************************************************************************)
EXTENDS UiSession

CONSTANTS name, dir, shell, agent, none

\* The second size differs in its rows alone.
MCSizes == {DefaultSize, <<80, 40>>}
====
