------------------------------ MODULE MCOutbox ------------------------------
(***************************************************************************)
(* Instances of Outbox for TLC: candidates of one issuer and alert type,   *)
(* so that the cooldown relates them.                                      *)
(***************************************************************************)
EXTENDS Outbox, TLC

CONSTANTS k1, k2, k3

Alert(issuer, state, important, score) ==
  [issuer |-> issuer, type |-> "TURNING", state |-> state, severity |-> "INFO",
   important |-> important, score |-> score, delta |-> NoDelta]

\* k2 repeats k1; k3 is overriding news about the same issuer.
MCFacts ==
  (k1 :> Alert("A", "EARLY_TURN", FALSE, 80))
    @@ (k2 :> Alert("A", "EARLY_TURN", FALSE, 86))
    @@ (k3 :> Alert("A", "CONFIRMED_TURN", TRUE, 87))
=============================================================================
