-------------------------------- MODULE Orders --------------------------------
(***************************************************************************)
(* Days, instants and orders, as every point-in-time module counts them.   *)
(* A day is a number and an instant is 2 * day, at or before the close of  *)
(* that day, or 2 * day + 1, after it.                                     *)
(***************************************************************************)
EXTENDS Integers, Sequences, FiniteSets, SequencesExt

CONSTANT None    \* no value

CloseOf(day) == 2 * day
DayOf(instant) == instant \div 2
After(instant, limit) == instant # None /\ instant > limit

(* The members of a set in an order: SetToSortSeq would enumerate every sequence. *)
InOrderOf(S, Before(_, _)) ==
    [i \in 1..Cardinality(S) |-> CHOOSE x \in S : Cardinality({y \in S : Before(y, x)}) = i - 1]

(* The members of a sequence that are in a set: SelectSeq, as a function one can reason about. *)
Filtered(s, K) ==
    LET upTo[i \in 0..Len(s)] ==
            IF i = 0 THEN <<>> ELSE IF s[i] \in K THEN Append(upTo[i - 1], s[i]) ELSE upTo[i - 1]
    IN  upTo[Len(s)]

(* f @@ g, as a function one can reason about. *)
Joined(f, g) == [x \in DOMAIN f \union DOMAIN g |-> IF x \in DOMAIN f THEN f[x] ELSE g[x]]

Clamp(n) == IF n < 0 THEN 0 ELSE IF n > 100 THEN 100 ELSE n
Neutral(n) == IF n = None THEN 50 ELSE n
Points(condition, n) == IF condition THEN n ELSE 0
MinOf(S) == CHOOSE x \in S : \A y \in S : x <= y
MaxOf(S) == CHOOSE x \in S : \A y \in S : x >= y
=============================================================================
