------------------------- MODULE AtMostOnceDelivery -------------------------
(***************************************************************************)
(* What every claim-before-send ledger of the system promises, whatever    *)
(* database, Git branch or process holds it: a message has one permit; the *)
(* permit is reserved before the provider is reached, is used at most once *)
(* and never comes back; and a verdict, once settled, is never revised and *)
(* never reports a delivery the provider was not asked for.                *)
(*                                                                         *)
(* Outbox (the SQLite alert outbox) and StateLedger (the ledger kept on    *)
(* the Git state branch) are both shown to implement this module.          *)
(***************************************************************************)

CONSTANT Messages

VARIABLES
  permit,    \* permit[m]: "free", "held", "used" (provider reached) or "void"
  verdict    \* verdict[m]: what the ledger says of m

vars == <<permit, verdict>>

Permits  == {"free", "held", "used", "void"}
Settled  == {"SENT", "FAILED", "UNCERTAIN", "SUPPRESSED"}
Verdicts == {"NONE", "CLAIMED"} \cup Settled

TypeOK ==
  /\ permit \in [Messages -> Permits]
  /\ verdict \in [Messages -> Verdicts]

Init ==
  /\ permit = [m \in Messages |-> "free"]
  /\ verdict = [m \in Messages |-> "NONE"]

\* A durable claim: the one permit of m goes to the claimant.
Reserve(m) ==
  /\ permit[m] = "free"
  /\ verdict[m] = "NONE"
  /\ permit' = [permit EXCEPT ![m] = "held"]
  /\ verdict' = [verdict EXCEPT ![m] = "CLAIMED"]

\* The ledger decides without granting a permit, or the claimant never learns
\* of its claim: m is never sent.
Refuse(m) ==
  /\ permit[m] = "free"
  /\ verdict[m] = "NONE"
  /\ permit' = [permit EXCEPT ![m] = "void"]
  /\ \E v \in {"CLAIMED", "SUPPRESSED", "UNCERTAIN"} :
       verdict' = [verdict EXCEPT ![m] = v]

\* The provider is asked to deliver m.
Use(m) ==
  /\ permit[m] = "held"
  /\ permit' = [permit EXCEPT ![m] = "used"]
  /\ UNCHANGED verdict

\* The claimant gives the permit up (it declined, stopped or lost its result).
Drop(m) ==
  /\ permit[m] = "held"
  /\ permit' = [permit EXCEPT ![m] = "void"]
  /\ UNCHANGED verdict

\* The claimant of m withdraws it before sending and says so.
Withdraw(m) ==
  /\ permit[m] = "held"
  /\ verdict[m] = "CLAIMED"
  /\ permit' = [permit EXCEPT ![m] = "void"]
  /\ verdict' = [verdict EXCEPT ![m] = "SUPPRESSED"]

\* The provider's answer is recorded; only a used permit can end as SENT.
Report(m) ==
  /\ permit[m] \in {"used", "void"}
  /\ verdict[m] = "CLAIMED"
  /\ \E v \in {"SENT", "FAILED", "UNCERTAIN"} :
       /\ v = "SENT" => permit[m] = "used"
       /\ verdict' = [verdict EXCEPT ![m] = v]
  /\ UNCHANGED permit

\* Open claims are declared ambiguous, by anyone, at any time.
Abandon(S) ==
  /\ \A m \in S : verdict[m] = "CLAIMED"
  /\ verdict' = [m \in Messages |-> IF m \in S THEN "UNCERTAIN" ELSE verdict[m]]
  /\ UNCHANGED permit

Next ==
  \/ \E m \in Messages :
       \/ Reserve(m) \/ Refuse(m) \/ Use(m) \/ Drop(m) \/ Withdraw(m) \/ Report(m)
  \/ \E S \in SUBSET Messages : Abandon(S)

Spec == Init /\ [][Next]_vars
=============================================================================
