---------------------------- MODULE MCSecCursor ----------------------------
(***************************************************************************)
(* Instances of SecCursor for TLC: four entries of two issuers, two of     *)
(* them the same filing at the same instant.                               *)
(***************************************************************************)
EXTENDS SecCursor, TLC

CONSTANTS a, b, c

MCIssuer   == (1 :> 1) @@ (2 :> 2) @@ (3 :> 1) @@ (4 :> 2)
MCFiling   == (1 :> a) @@ (2 :> b) @@ (3 :> c) @@ (4 :> c)
MCAccepted == (1 :> 1) @@ (2 :> 1) @@ (3 :> 2) @@ (4 :> 2)
=============================================================================
