--------------------------- MODULE MCResearchState ---------------------------
(***************************************************************************)
(* An instance of ResearchState for TLC. The days: everything passes,      *)
(* nothing does, only the baseline and the first gate, and a new low.      *)
(***************************************************************************)
EXTENDS ResearchState, TLC

CONSTANTS m, n

MCFacts == {[low |-> FALSE, holds |-> Levels], [low |-> FALSE, holds |-> {}],
            [low |-> FALSE, holds |-> {0, 1}], [low |-> TRUE, holds |-> {0, 1}]}
MCSymmetry == Permutations(Runners)
==============================================================================
