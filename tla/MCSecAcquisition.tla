-------------------------- MODULE MCSecAcquisition --------------------------
(***************************************************************************)
(* Instances of SecAcquisition for TLC: a day of two filings, one of which *)
(* is quarantined, and a day of one.                                       *)
(***************************************************************************)
EXTENDS SecAcquisition, TLC

MCDay == (1 :> 1) @@ (2 :> 1) @@ (3 :> 2)
=============================================================================
