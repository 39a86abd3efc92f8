------------------------------ MODULE MCFollowUp ------------------------------
(***************************************************************************)
(* Small instances of FollowUp for TLC.                                    *)
(***************************************************************************)
EXTENDS FollowUp, TLC

ScanSymmetry == Permutations(Scans)
=============================================================================
