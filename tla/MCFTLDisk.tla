----------------------------- MODULE MCFTLDisk -----------------------------
(* A small instance of FTLDisk for TLC; the host's data are interchangeable. *)
EXTENDS FTLDisk, TLC

ValueSymmetry == Permutations(Values)
=============================================================================
