--------------------------- MODULE MCTlbShootdown ---------------------------
(***************************************************************************)
(* Small instances of TlbShootdown for TLC.                                *)
(***************************************************************************)
EXTENDS TlbShootdown
=============================================================================
