------------------------------ MODULE Hysteresis ------------------------------
(***************************************************************************)
(* What a persisted company state promises (docs/methodology.md, "State    *)
(* machine"; docs/daily-use-delivery.md): a company moves at most once per *)
(* market session, climbs one edge at a time, steps down one edge only     *)
(* when a session's evaluation fails and the one before it failed too, and *)
(* drops to FALLING at once on a new 52-week low.                          *)
(***************************************************************************)
EXTENDS Integers

CONSTANT Issuers

VARIABLES
  level,     \* the state: 0 is FALLING, 4 is CONFIRMED_TURN
  doubts,    \* failed evaluations since the last that passed
  session,   \* the session of the last evaluation, 0 when there is none
  since      \* the session of the last change of state, 0 when there is none

vars == <<level, doubts, session, since>>

Falling == 0
Confirmed == 4

Init ==
  /\ level = [c \in Issuers |-> Falling]
  /\ doubts = [c \in Issuers |-> 0]
  /\ session = [c \in Issuers |-> 0]
  /\ since = [c \in Issuers |-> 0]

Rise(c)  == level[c] < Confirmed /\ level'[c] = level[c] + 1 /\ doubts'[c] = 0
Hold(c)  == level'[c] = level[c] /\ doubts'[c] = 0
Doubt(c) == level[c] > Falling /\ doubts[c] = 0 /\ level'[c] = level[c] /\ doubts'[c] = 1
Fall(c)  == level[c] > Falling /\ doubts[c] = 1 /\ level'[c] = level[c] - 1 /\ doubts'[c] = 0
Reset(c) == level'[c] = Falling /\ doubts'[c] = 0

\* A change is dated by its session; the first evaluation may leave no date.
Dated(c) ==
  \/ level'[c] = level[c] /\ since'[c] = since[c]
  \/ level'[c] # level[c] /\ since'[c] = session'[c]
  \/ session[c] = 0 /\ since'[c] = since[c]

Evaluate(c) ==
  /\ session'[c] > session[c]
  /\ Rise(c) \/ Hold(c) \/ Doubt(c) \/ Fall(c) \/ Reset(c)
  /\ Dated(c)

Rest(c) ==
  /\ level'[c] = level[c] /\ doubts'[c] = doubts[c]
  /\ session'[c] = session[c] /\ since'[c] = since[c]

Next == \A c \in Issuers : Evaluate(c) \/ Rest(c)

Spec == Init /\ [][Next]_vars
===============================================================================
