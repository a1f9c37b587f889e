---- MODULE MCOutputHub ----
(***************************************************************************)
(* Instances of OutputHub for TLC.                                         *)
(***************************************************************************)
EXTENDS OutputHub

CONSTANTS p1, p2, c1, c2, noConn
====
