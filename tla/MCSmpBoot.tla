------------------------------ MODULE MCSmpBoot ------------------------------
(***************************************************************************)
(* A small instance of SmpBoot for TLC.                                    *)
(***************************************************************************)
EXTENDS SmpBoot
=============================================================================
