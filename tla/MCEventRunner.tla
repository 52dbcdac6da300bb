---------------------------- MODULE MCEventRunner ----------------------------
(***************************************************************************)
(* Small instances of EventRunner for TLC.                                 *)
(***************************************************************************)
EXTENDS EventRunner, TLC

Symmetry == Permutations(Event)
=============================================================================
