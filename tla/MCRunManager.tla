---------------------------- MODULE MCRunManager ----------------------------
(***************************************************************************)
(* Instances of RunManager for TLC.  The mock world is as the fault left   *)
(* it, or healthy.                                                         *)
(***************************************************************************)
EXTENDS RunManager

CONSTANTS o1, o2

=============================================================================
