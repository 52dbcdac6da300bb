------------------------------- MODULE MCFat16 -------------------------------
(***************************************************************************)
(* A device of three usable clusters, and a name that is cut to another.   *)
(***************************************************************************)
EXTENDS Fat16

MCStored == [n \in Name |-> IF n = "along" THEN "a" ELSE n]
=============================================================================
