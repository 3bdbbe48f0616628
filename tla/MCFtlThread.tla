---------------------------- MODULE MCFtlThread ----------------------------
(* Small instances of FtlThread for TLC. *)
EXTENDS FtlThread, TLC

\* Requests are interchangeable in the safety runs.
ReqSymmetry == Permutations(Req)
=============================================================================
