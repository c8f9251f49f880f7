------------------------------ MODULE Technical ------------------------------
(***************************************************************************)
(* What the bars of a symbol say on a day: prices, relative strength and   *)
(* the technical scores (features/price.py, rs.py, technical.py).          *)
(*                                                                         *)
(* A market maps every symbol to its bars in the order of their dates; a   *)
(* bar has a date, a close, an adjusted close, a volume, whether it is     *)
(* adjusted, its provider and the instant at which it was available.  A    *)
(* row of a symbol is a place n in its bars s.  Returns, drawdowns and     *)
(* ratios are whole percents.                                              *)
(***************************************************************************)
EXTENDS Orders

CONSTANTS Span,         \* sessions: long 50, short 20, above 10, quarter 63, year 252;
                        \* weeks: mansfield 52, slope 4
          WeekDays,     \* days of a week
          WeeklyHistory, DailyHistory, \* [least, most] observations: 26..104 and 60..252
          Unstamped     \* providers whose bars may lack an instant

ASSUME SpanAssumption ==
    {Span.long, Span.short, Span.above, Span.quarter, Span.year} \subseteq Nat \ {0}

MarketAhead(market, day) ==
    \E x \in DOMAIN market : \E n \in DOMAIN market[x] : market[x][n].date > day

(* Only the bars that were available at the instant. *)
Prepared(s, at) ==
    Filtered(s, {b \in Range(s) : IF b.known = None THEN b.provider \in Unstamped ELSE b.known <= at})

(* The sum of the last w closes: w times their mean. *)
MeanSum(s, n, w) == IF n < w THEN None ELSE MapThenSumSet(LAMBDA k : s[k].close, (n - w + 1)..n)

Ratio(to, from) == (100 * to) \div from - 100

Return3m(s, n) ==
    IF n > Span.quarter /\ s[n - Span.quarter].close > 0
    THEN Ratio(s[n].close, s[n - Span.quarter].close) ELSE None

YearBefore(s, n) == {k \in DOMAIN s : k > n - Span.year /\ k <= n}

Drawdown(s, n) == Ratio(s[n].close, MaxOf({s[k].close : k \in YearBefore(s, n)}))

(* At or below every close of the year up to yesterday. *)
NewLow(s, n) ==
    IF n = 1 THEN None ELSE \A k \in YearBefore(s, n - 1) : s[n].close <= s[k].close

NoLow(s, n) ==
    IF n <= Span.short THEN None
    ELSE \A k \in (n - Span.short + 1)..n : NewLow(s, k) = FALSE

AboveLong(s, n) == Span.long * s[n].close > MeanSum(s, n, Span.long)
DaysAboveLong(s, n) ==
    IF n < Span.long + Span.above - 1 THEN None
    ELSE Cardinality({k \in (n - Span.above + 1)..n : AboveLong(s, k)})

(* The variance of the daily returns, times the square of their number. *)
Volatility(s, n) ==
    LET r(k) == (1000 * s[k].adj) \div s[k - 1].adj - 1000
        ks == (n - Span.short + 1)..n
        sum == MapThenSumSet(r, ks)
    IN  IF n <= Span.short \/ \E k \in ks \union {n - Span.short} : s[k].adj <= 0 THEN None
        ELSE Span.short * MapThenSumSet(LAMBDA k : r(k) * r(k), ks) - sum * sum

MedianVolume(s, n) ==
    LET seq == SortSeq([k \in 1..Span.short |-> s[n - Span.short + k].volume], <)
    IN  IF n < Span.short THEN None
        ELSE seq[(Span.short + 1) \div 2] + seq[(Span.short + 2) \div 2]

(* The slope of the short mean over five days, times ten times the span. *)
ShortSlope(s, n) ==
    LET m(k) == MeanSum(s, n - k, Span.short)
    IN  IF n < Span.short + 4 THEN None ELSE 2 * m(0) + m(1) - m(3) - 2 * m(4)

(* Volume of rising less that of falling sessions; a session without volume voids it. *)
SignedVolume(s, n) ==
    LET ks == (n - Span.short + 1)..n
        valid(k) == k > 1 /\ s[k].volume > 0 /\ s[k].adj > 0 /\ s[k - 1].adj > 0
        signed(k) == IF s[k].adj > s[k - 1].adj THEN s[k].volume
                     ELSE IF s[k].adj < s[k - 1].adj THEN -s[k].volume ELSE 0
    IN  IF n <= Span.short \/ ~(\A k \in ks : valid(k)) THEN None
        ELSE (100 * MapThenSumSet(signed, ks)) \div MapThenSumSet(LAMBDA k : s[k].volume, ks)

(* A jump that no adjustment explains voids every row of the symbol, the earlier ones too. *)
Broken(s) ==
    \E n \in 2..Len(s) :
        /\ s[n - 1].close > 0
        /\ 2 * s[n].close <= s[n - 1].close \/ s[n].close >= 2 * s[n - 1].close
        /\ ~(s[n].adjusted /\ s[n - 1].adjusted)

Unless(broken, n) == IF broken THEN None ELSE n

-----------------------------------------------------------------------------
(* Relative strength.  A symbol's week is its last row of the week.         *)

Week(day) == day \div WeekDays
WeekRows(s) == SelectSeq([n \in DOMAIN s |-> n],
                         LAMBDA n : n = Len(s) \/ Week(s[n + 1].date) # Week(s[n].date))

RowOn(s, day) == {n \in DOMAIN s : s[n].date = day}
ReturnOn(s, day) ==
    IF RowOn(s, day) = {} \/ Broken(s) THEN None ELSE Return3m(s, CHOOSE n \in RowOn(s, day) : TRUE)

(* The mid rank of the symbol's return among the universe on the day. *)
OrdinaryRS(market, universe, symbol, day) ==
    LET own == ReturnOn(market[symbol], day)
        others == {x \in universe : ReturnOn(market[x], day) # None}
        less == Cardinality({x \in others : ReturnOn(market[x], day) < own})
        same == Cardinality({x \in others : ReturnOn(market[x], day) = own})
        count == Cardinality(others)
    IN  IF own = None THEN None ELSE IF count <= 1 THEN 50
        ELSE (50 * (2 * less + same - 1)) \div (count - 1)

(* The benchmark's week must end on the same date, or the week has no ratio. *)
RatioIn(s, n, benchmark) ==
    LET b == WeekRows(benchmark)
        on == {i \in DOMAIN b : benchmark[b[i]].date = s[n].date /\ benchmark[b[i]].adj > 0}
    IN  IF on = {} \/ s[n].adj <= 0 THEN None
        ELSE (1000 * s[n].adj) \div benchmark[b[CHOOSE i \in on : TRUE]].adj

(* The ratio against its own mean of a year of weeks, none of them missing. *)
Mansfield(s, weeks, i, benchmark) ==
    LET ratio(j) == RatioIn(s, weeks[j], benchmark)
        js == (i - Span.mansfield + 1)..i
        sum == MapThenSumSet(ratio, js)
    IN  IF i < Span.mansfield \/ (\E j \in js : ratio(j) = None) \/ sum <= 0 THEN None
        ELSE (100 * Span.mansfield * ratio(i)) \div sum - 100

(* The sign and order of the least-squares slope of the last weeks. *)
WeekSlope(weekly, i) ==
    LET n == Span.slope
        xs == (n * (n - 1)) \div 2
        ks == 0..(n - 1)
    IN  IF i < n \/ \E k \in ks : weekly[i - k] = None THEN None
        ELSE MapThenSumSet(LAMBDA k : (n * (n - 1 - k) - xs) * weekly[i - k], ks)

(* The place of a value among the observations strictly before it. *)
MidRank(value, earlier, bounds) ==
    LET size == Len(earlier)
        kept == IF size <= bounds.most THEN earlier
                ELSE SubSeq(earlier, size - bounds.most + 1, size)
        less == Cardinality({i \in DOMAIN kept : kept[i] < value})
        same == Cardinality({i \in DOMAIN kept : kept[i] = value})
    IN  IF value = None THEN None ELSE IF Len(kept) < bounds.least THEN 50
        ELSE Clamp((50 * (2 * less + same)) \div Len(kept))

SlopePercentile(weekly, i) ==
    LET slopes == [j \in 1..(i - 1) |-> WeekSlope(weekly, j)]
    IN  MidRank(WeekSlope(weekly, i), SelectSeq(slopes, LAMBDA x : x # None), WeeklyHistory)

-----------------------------------------------------------------------------
(* The facts and the scores of a symbol on the day of its last row.          *)

(* A measure is at most num / den of what it was one span before. *)
Shrunk(now, num, then, den) == now # None /\ then # None /\ den * now <= num * then

PriceFacts(s, n, broken, mean, slope, signed) ==
    LET then == n - Span.short
    IN  [date |-> s[n].date, close |-> s[n].close,
         return |-> Unless(broken, Return3m(s, n)),
         drawdown |-> Unless(broken, Drawdown(s, n)),
         belowLong |-> ~broken /\ n >= Span.long /\ Span.long * s[n].close < MeanSum(s, n, Span.long),
         longKnown |-> ~broken /\ n >= Span.long,
         newLow |-> Unless(broken, NewLow(s, n)),
         noLow |-> Unless(broken, NoLow(s, n)),
         daysAbove |-> Unless(broken, DaysAboveLong(s, n)),
         contraction |-> ~broken /\ then > 0 /\ Shrunk(Volatility(s, n), 16, Volatility(s, then), 25),
         dryUp |-> ~broken /\ then > 0 /\ Shrunk(MedianVolume(s, n), 4, MedianVolume(s, then), 5),
         flat |-> /\ ~broken /\ slope # None /\ s[n].close > 0
                  /\ 100 * slope \in -(Span.short * s[n].close)..(Span.short * s[n].close),
         aboveShort |-> ~broken /\ mean # None /\ Span.short * s[n].close >= mean,
         volume |-> Unless(broken, signed[n]),
         volumePercentile |->
             IF broken THEN None
             ELSE MidRank(signed[n], SelectSeq(SubSeq(signed, 1, n - 1), LAMBDA x : x # None),
                          DailyHistory)]

PriceRow(s, n) ==
    PriceFacts(s, n, Broken(s), MeanSum(s, n, Span.short), ShortSlope(s, n),
               [k \in 1..n |-> SignedVolume(s, k)])

LevelsOver(ordinary, strength, i) ==
    [ordinary |-> ordinary[i], ordinarySlope |-> WeekSlope(ordinary, i),
     ordinaryPercentile |-> SlopePercentile(ordinary, i),
     mansfield |-> strength[i], mansfieldSlope |-> WeekSlope(strength, i),
     mansfieldPercentile |-> SlopePercentile(strength, i)]

LevelsIn(market, universe, symbol, benchmark, s, weeks) ==
    LevelsOver([j \in DOMAIN weeks |-> OrdinaryRS(market, universe, symbol, s[weeks[j]].date)],
               [j \in DOMAIN weeks |-> IF benchmark \in DOMAIN market
                                       THEN Mansfield(s, weeks, j, market[benchmark]) ELSE None],
               Len(weeks))

Levels(market, universe, symbol, benchmark, at) ==
    LevelsIn(market, universe, symbol, benchmark, market[symbol], WeekRows(market[symbol]))

Blend(a, wa, b, wb) == IF a = None \/ b = None THEN None
                       ELSE Clamp((wa * Clamp(a) + wb * Clamp(b)) \div 10)

BaseScore(f) ==
    IF f.noLow \notin BOOLEAN THEN None
    ELSE Points(f.noLow, 25) + Points(f.contraction, 20) + Points(f.dryUp, 20)
           + Points(f.flat, 20) + Points(f.aboveShort, 15)

OrdinaryScore(level, percentile) == Blend(level, 3, percentile, 7)
MansfieldScore(level, percentile) ==
    Blend(IF level = None THEN None ELSE Clamp(5 * (level + 10)), 3, percentile, 7)
VolumeScore(ratio, percentile) ==
    Blend(IF ratio = None THEN None ELSE Clamp((5 * (ratio + 10)) \div 2), 5, percentile, 5)

(* A fresh cross needs earlier observations of [price, basis], both at the same scale. *)
ReclaimScore(price, basis, history, sessions) ==
    LET rows == Append(history, [price |-> price, basis |-> basis])
        recent == {i \in 2..Len(rows) : i > Len(rows) - sessions}
        fresh == \E i \in recent : rows[i - 1].price < rows[i - 1].basis /\ rows[i].price >= rows[i].basis
    IN  IF price = None \/ basis = None THEN None
        ELSE IF price < basis THEN 0 ELSE IF fresh THEN 100 ELSE 50
=============================================================================
