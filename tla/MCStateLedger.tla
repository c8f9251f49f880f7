--------------------------- MODULE MCStateLedger ---------------------------
(***************************************************************************)
(* Two instances of StateLedger for TLC: digest jobs beside a daily        *)
(* pipeline, and recoveries beside every other kind of job.                *)
(***************************************************************************)
EXTENDS StateLedger, TLC

CONSTANTS d1, d2, d3, r1, r2, n1, daily, pages

\* Two jobs race for one day, a third claims the day after; two recoveries of
\* one run, beside the notice about it.
MCTask ==
  (d1 :> <<"digest", 1>>) @@ (d2 :> <<"digest", 1>>) @@ (d3 :> <<"digest", 2>>)
    @@ (r1 :> <<"recovery", 7>>) @@ (r2 :> <<"recovery", 7>>) @@ (n1 :> <<"notice", 7>>)

Scenarios == {{d1, d2, d3, daily}, {r1, r2, n1, daily}, {r1, n1, daily, pages}}

\* The jobs outside a scenario started and were lost at once: a state that Spec
\* reaches by Restore and Crash.
MCInit ==
  \E jobs \in Scenarios :
    /\ remote = <<>>
    /\ pc = [w \in Writers |-> IF w \in jobs THEN "start" ELSE "done"]
    /\ base = [w \in Writers |-> <<>>]
    /\ local = [w \in Writers |-> Empty]
    /\ answer = [w \in Writers |-> "UNCERTAIN"]
    /\ contacts = [m \in Messages |-> 0]

MCSpec == MCInit /\ [][Next]_vars
=============================================================================
