------------------------------- MODULE MCMarket -------------------------------
(***************************************************************************)
(* Two symbols, 1 a stock and 2 a benchmark, and two sources, 1 Stooq and  *)
(* 2 Yahoo.                                                                *)
(***************************************************************************)
EXTENDS Market

\* Of the stock, Stooq may send prices after a split that Yahoo does not know,
\* and Yahoo may lag by a session; the benchmark has one source.
MCAnswer(src, s, day) ==
    CASE s = 2 /\ src = 2 -> {}
      [] s = 2 /\ src = 1 -> {[d \in 1..day |-> 100]}
      [] s = 1 /\ src = 2 -> {[d \in 1..k |-> 100] : k \in 1..day}
      [] s = 1 /\ src = 1 -> {[d \in 1..day |-> c] : c \in {100, 90}}
===============================================================================
