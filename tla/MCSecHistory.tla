---------------------------- MODULE MCSecHistory ----------------------------
(***************************************************************************)
(* Instances of SecHistory for TLC: two quarters, the archive of the first *)
(* of which is republished.                                                *)
(***************************************************************************)
EXTENDS SecHistory, TLC

CONSTANTS m, n

MCLatest == (1 :> 2) @@ (2 :> 1)
MCSize   == (1 :> 2) @@ (2 :> 3)
MCSymmetry == Permutations(Names)
=============================================================================
