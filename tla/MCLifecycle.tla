---- MODULE MCLifecycle ----
(***************************************************************************)
(* Instances of Lifecycle for TLC.                                         *)
(***************************************************************************)
EXTENDS Lifecycle

CONSTANTS c1, c2, d1, d2, none, waker
====
