------------------------------ MODULE MCOprof ------------------------------
(***************************************************************************)
(* Instances of Oprof for TLC.                                             *)
(***************************************************************************)
EXTENDS Oprof

CONSTANTS c1, c2

MCCPUs == {c1, c2}
=============================================================================
