-------------------------------- MODULE MCNri -------------------------------
(***************************************************************************)
(* Small instances of the NRI lifecycle for TLC.                           *)
(***************************************************************************)
EXTENDS NriContract, TLC

\* Two leaders at once are alike. Used for safety only.
RevokerSymmetry == Permutations(Revokers)
=============================================================================
