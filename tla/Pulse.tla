--------------------------------- MODULE Pulse ---------------------------------
(***************************************************************************)
(* The market pulse of a day: purchases against sales, in six ratios, each *)
(* ranked among the same ratio of the periods before it                    *)
(* (features/pulse.py, pipeline/dashboard_input.py).  A ratio is a record  *)
(* of purchases and sales, or None when nothing was sold.                  *)
(***************************************************************************)
EXTENDS Scores

CONSTANTS PulseDays    \* 3660 days of earlier periods

SideOf(r) ==
    IF r.code \in {"P", "S"} THEN r.code
    ELSE IF r.class = "OPEN_MARKET_PURCHASE" THEN "P"
    ELSE IF r.class = "OPEN_MARKET_SALE" THEN "S" ELSE None

Counts(r, at) ==
    /\ r.date # None /\ ~After(r.known, at) /\ ~After(r.accepted, at)
    /\ r.status # "VOID" /\ ~After(r.from, at) /\ (r.to # None => at < r.to)
    /\ r.table # "DERIVATIVE" /\ SideOf(r) # None

(* A period starts on the first day of its first week and ends on the day, or before it. *)
PeriodBounds(grain, day) ==
    LET monday == WeekDays * Week(day)
        back == [daily |-> 0, weekly |-> 0] @@ ("4w" :> 3 * WeekDays) @@ ("13w" :> 12 * WeekDays)
    IN  [first |-> IF grain = "daily" THEN day ELSE monday - back[grain], last |-> day]

(* Whole periods before a period, until one starts more than PulseDays before it. *)
EarlierPeriods(grain, first) ==
    LET long == first - PeriodBounds(grain, first - 1).first
    IN  [k \in 1..((PulseDays + 1) \div long + 1) |->
            [first |-> first - k * long, last |-> first - (k - 1) * long - 1]]

PulseRatio(bought, sold) == IF sold <= 0 THEN None ELSE [bought |-> bought, sold |-> sold]
RatioLess(a, b) == a.bought * b.sold < b.bought * a.sold
RatioSame(a, b) == a.bought * b.sold = b.bought * a.sold

(* Six ratios of the rows of a period; a row without conviction weighs one. *)
Aggregate(entries, period) ==
    LET in == {e \in entries : e.row.date \in period.first..period.last}
        of(side) == {e \in in : SideOf(e.row) = side}
        dollars(e) == Points(DollarsOf(e.row) # None, DollarsOf(e.row))
        shares(e) == Points(e.row.shares # None, e.row.shares)
        weighed(e) == dollars(e) * (IF e.conviction = None THEN 1 ELSE e.conviction)
        total(What(_), side) == MapThenSumSet(What, of(side))
        distinct(What(_), side) == Cardinality({What(e) : e \in of(side)} \ {0})
    IN  [transactions |-> PulseRatio(Cardinality(of("P")), Cardinality(of("S"))),
         insiders |-> PulseRatio(distinct(LAMBDA e : e.row.owner, "P"), distinct(LAMBDA e : e.row.owner, "S")),
         dollars |-> PulseRatio(total(dollars, "P"), total(dollars, "S")),
         volume |-> PulseRatio(total(shares, "P"), total(shares, "S")),
         breadth |-> PulseRatio(Cardinality({e.row.issuer : e \in of("P")}),
                                Cardinality({e.row.issuer : e \in of("S")})),
         conviction |-> PulseRatio(total(weighed, "P"), total(weighed, "S"))]

(* The place of a ratio among the earlier ones that are known. *)
PulsePercentile(ratio, earlier) ==
    LET known == {k \in DOMAIN earlier : earlier[k] # None}
        less == Cardinality({k \in known : RatioLess(earlier[k], ratio)})
        same == Cardinality({k \in known : RatioSame(earlier[k], ratio)})
    IN  IF ratio = None \/ known = {} THEN None
        ELSE Clamp((50 * (2 * less + same + 1)) \div Cardinality(known))

(* An earlier period counts only what was known at its own close. *)
KnownIn(entries, period) ==
    {e \in entries : e.row.known = None \/ e.row.known <= CloseOf(period.last)}

PulseScore(ratios, percentiles) ==
    [ratios |-> ratios, percentiles |-> percentiles,
     score |-> IF \A f \in DOMAIN percentiles : percentiles[f] # None
               THEN ScoreOf("market_pulse", percentiles) ELSE None]

PulseAmong(ratios, earlier) ==
    PulseScore(ratios, [f \in DOMAIN ratios |->
                          PulsePercentile(ratios[f], [k \in DOMAIN earlier |-> earlier[k][f]])])

PulseIn(entries, now, periods) ==
    PulseAmong(Aggregate(entries, now),
               [k \in DOMAIN periods |-> Aggregate(KnownIn(entries, periods[k]), periods[k])])

PulseOf(entries, grain, day) ==
    PulseIn(entries, PeriodBounds(grain, day), EarlierPeriods(grain, PeriodBounds(grain, day).first))

(* The pulse of the market, and of every sector that has a row. *)
MarketPulse(entries, sectorOf, grains, at) ==
    LET counted == {e \in entries : Counts(e.row, at)}
        sector(e) == IF e.row.issuer \in DOMAIN sectorOf THEN sectorOf[e.row.issuer] ELSE None
        scopes == {"market"} \union ({sector(e) : e \in counted} \ {None})
        within(scope) == {e \in counted : scope \in {"market", sector(e)}}
    IN  [grain \in grains |-> [scope \in scopes |-> PulseOf(within(scope), grain, DayOf(at))]]
=============================================================================
