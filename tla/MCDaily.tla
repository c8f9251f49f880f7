-------------------------------- MODULE MCDaily --------------------------------
(***************************************************************************)
(* Two daily runs, days 9 and 10, over two companies, their sector and     *)
(* SPY, and the tests of MCEvaluation, three of which hand their report    *)
(* on.  Every span of the features is two or three bars long.              *)
(***************************************************************************)
EXTENDS MCEvaluation, Daily

MCSpan == [long |-> 3, short |-> 2, above |-> 2, quarter |-> 2, year |-> 4,
           mansfield |-> 2, slope |-> 2]
MCBounds == [least |-> 2, most |-> 4]
MCCadence == {2, 3, 4}

(* One change of the lock, and never back. *)
MCLocks == {[hash |-> 2, status |-> "FROZEN", frozen |-> TRUE]}

(* The reports handed on: of the sealed stage, where the engine gains and its  *)
(* benchmarks lose, where one of them gains as much, and of the other stage.    *)
Families(t) == {<<s.family, s.ticker>> : s \in t.signals}
MCHanded ==
    {t \in GateTests : t.complete /\ Families(t) \in
        {{<<None, "UP">>, <<"SIMPLE_PS", "DOWN">>, <<"LARGEST_BUYS", "DOWN">>},
         {<<None, "UP">>, <<"SIMPLE_PS", "UP">>, <<"LARGEST_BUYS", "DOWN">>}}}
    \union {t \in MCTests : t.stage = "dev-validation" /\ t.signals = {Signal(1, "UP", 4, None)}
                              /\ Bar("SPY", 4, 100, 100) \in t.bars}

DayBar(d, close, volume, known) ==
    [date |-> d, close |-> close, adj |-> close, volume |-> volume, adjusted |-> FALSE,
     provider |-> "stooq", known |-> known]
Series(closes) == [d \in DOMAIN closes |-> DayBar(d, closes[d], 100 + 10 * (d % 3), None)]

Flat == Series(<<100, 100, 101, 100, 100, 101, 100, 100, 101, 100>>)
(* It turns on shrinking volume. *)
Turning == LET s == Series(<<120, 110, 100, 96, 95, 94, 95, 97, 99, 104>>)
           IN  [d \in DOMAIN s |-> IF d > 7 THEN [s[d] EXCEPT !.volume = 70] ELSE s[d]]
Sinking == Series(<<120, 115, 112, 108, 104, 100, 98, 95, 92, 90>>)
(* Ahead of the turning company until day 7, behind it on day 9. *)
Fading == Series(<<120, 115, 112, 108, 104, 100, 110, 105, 104, 90>>)
Jumping == Series(<<120, 110, 100, 96, 95, 94, 95, 97, 99, 41>>)
(* The bar of day 9 is known a day late. *)
Tardy == [Turning EXCEPT ![9] = DayBar(9, 99, 70, 20)]

Trade(id, issuer, owner, date, known, code, value) ==
    [id |-> id, filing |-> id, issuer |-> issuer, owner |-> owner, date |-> date, accepted |-> known,
     known |-> known, status |-> "ACTIVE", from |-> known, to |-> None, code |-> code,
     ad |-> IF code = "P" THEN "A" ELSE "D", class |-> "OTHER", table |-> "NON_DERIVATIVE",
     value |-> value, shares |-> value \div 10, price |-> 10, post |-> None, roles |-> <<"CEO">>,
     told |-> {}, plan |-> FALSE]

BaseTrades == {Trade(1, 1, 1, 5, 10, "P", 600), Trade(2, 1, 2, 6, 12, "P", 400), Trade(3, 2, 3, 6, 12, "S", 100),
               Trade(4, 2, 4, 7, 14, "P", 200), Trade(9, 1, 5, 7, 15, "S", 50),
               Trade(11, 2, 6, 2, 4, "P", 50), Trade(12, 2, 6, 3, 6, "S", 40), Trade(13, 1, 7, 3, 6, "S", 30)}
(* A late filing, one that is superseded, an owner's second purchase and a new buyer. *)
MoreTrades == {{}, {Trade(5, 1, 1, 10, 20, "P", 900), Trade(8, 2, 3, 9, 18, "S", 70)},
               {Trade(6, 1, 3, 8, 20, "P", 300), Trade(10, 2, 3, 9, 20, "S", 10)},
               {[Trade(7, 1, 3, 7, 14, "P", 500) EXCEPT !.status = "SUPERSEDED", !.to = 20]}}

Mapping(issuer, ticker, sector) ==
    [issuer |-> issuer, ticker |-> ticker, rank |-> 1, eligible |-> TRUE, known |-> 2, from |-> None,
     to |-> None, sector |-> sector]
Moves == {Mapping(1, "AA", "XLK"), Mapping(2, "BB", "XLK")}

World(trades, a, b, benchmark, start) ==
    [trades |-> BaseTrades \union trades, market |-> [AA |-> a, BB |-> b, XLK |-> benchmark, SPY |-> Flat],
     identities |-> Moves, fresh |-> TRUE, core |-> 900, start |-> start]

NoStates == [c \in {} |-> NoPrior]
Started == [c \in {1, 2} |-> [level |-> 2, failed |-> 1]]

MCWorlds ==
    {World(trades, Turning, Fading, Flat, Started) : trades \in MoreTrades}
    \union {World({}, Tardy, Sinking, Flat, NoStates), World({}, Jumping, SubSeq(Sinking, 1, 1), Flat, NoStates),
            World({}, Sinking, Turning, SubSeq(Flat, 1, 9), Started)}
=============================================================================
