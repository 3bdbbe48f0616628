------------------------------- MODULE MCFTL -------------------------------
(* Small instances of FTL for TLC; the geometry is given in the cfg files. *)
EXTENDS FTL
=============================================================================
