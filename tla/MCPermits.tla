------------------------------ MODULE MCPermits ------------------------------
(***************************************************************************)
(* An instance of Permits for TLC.                                         *)
(***************************************************************************)
EXTENDS Permits

CONSTANTS c1, c2, c3, t1, t2, t3
=============================================================================
