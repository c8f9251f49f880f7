----------------------------- MODULE MCEvaluation -----------------------------
(***************************************************************************)
(* A small calendar for Evaluation: nine sessions, two horizons, three     *)
(* periods of three days, and a window of one session for duplicates.      *)
(***************************************************************************)
EXTENDS Evaluation

MCWindows == [development |-> [first |-> 1, last |-> 2],
              validation  |-> [first |-> 3, last |-> 5],
              oos         |-> [first |-> 6, last |-> 9]]

MCLocked == [hash |-> 1, status |-> "FROZEN", frozen |-> TRUE]

Bar(s, d, o, c) == [symbol |-> s, date |-> d, open |-> o, low |-> IF o < c THEN o ELSE c,
                    close |-> c, available |-> None]

(* SPY is flat; UP gains in a day, FLAT does not move, DOWN loses, HOLE misses a session. *)
SpyBars == {Bar("SPY", d, 100, 100) : d \in 1..9}
StockBars == {Bar("UP", d, 100, 120) : d \in 1..9} \union {Bar("FLAT", d, 100, 100) : d \in 1..9}
    \union {Bar("DOWN", d, 100, 90) : d \in 1..9} \union {Bar("LOSS", d, 100, 95) : d \in 1..9}
    \union {Bar("HOLE", d, 100, 130) : d \in (1..9) \ {5}}

Signal(n, ticker, known, family) ==
    [id |-> n, ticker |-> ticker, cik |-> IF ticker = "HOLE" THEN None ELSE ticker,
     type |-> "TURN", family |-> family, score |-> 50 + n, accepted |-> known - 1,
     knowledge |-> known, featureAsOf |-> known, featureAvailable |-> None,
     sector |-> None, provenance |-> MCLocked]

(* Late features: available only after the close of the session the signal falls in. *)
Pool == {Signal(1, "UP", 4, None), [Signal(2, "UP", 5, None) EXCEPT !.featureAsOf = None], Signal(3, "UP", 8, None),
         Signal(4, "HOLE", 6, None), Signal(5, "UP", 10, None), Signal(6, "UP", 12, None),
         [Signal(7, "DOWN", 6, None) EXCEPT !.featureAvailable = 8],
         Signal(8, "FLAT", 12, "FULL_ENGINE")}

Test(signals, bars, stage, complete) ==
    [signals |-> signals, bars |-> bars, stage |-> stage, complete |-> complete,
     evidence |-> [parse |-> "good", schema |-> "good"], lower |-> 1]

MCTests ==
    {Test(s, bars, stage, complete) :
        s \in {x \in SUBSET Pool : Cardinality(x) \in 1..3},
        bars \in {SpyBars \union StockBars, (SpyBars \ {Bar("SPY", 4, 100, 100)}) \union StockBars},
        stage \in {"dev-validation", "sealed-oos"}, complete \in {TRUE}}

(* The gate: the engine's signal loses, one benchmark is flat and another loses more. *)
GateTests ==
    {Test({Signal(1, full, 12, None), Signal(2, a, 12, "SIMPLE_PS"),
           Signal(3, b, 12, "LARGEST_BUYS"), Signal(4, full, 6, None)},
          SpyBars \union StockBars, "sealed-oos", complete) :
        full \in {"UP", "LOSS", "HOLE"}, a \in {"UP", "FLAT", "DOWN"},
        b \in {"DOWN", "LOSS", "HOLE"}, complete \in BOOLEAN}

MCEvaluationTests == MCTests \union GateTests

=============================================================================
