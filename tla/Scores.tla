-------------------------------- MODULE Scores --------------------------------
(***************************************************************************)
(* The scores, the state and the alert candidates of every issuer on a day *)
(* (pipeline/scoring.py, scoring/components.py, engine.py,                 *)
(* state_machine.py, notifications/rules.py).                              *)
(***************************************************************************)
EXTENDS Insiders, Technical

CONSTANTS ComponentDays,   \* 90
          LatestDays,      \* 30: of a cluster, and the age of a purchase
          BigDollars,      \* 250,000
          HugeDollars      \* 1,000,000

-----------------------------------------------------------------------------
(* A row with what the insider features say of it.                          *)

\* The flag largest_buy looks for a reason that conviction never gives.
FlagReason == "HISTORICAL_LARGEST_BUY"

EntryWith(r, cluster, buyer, told) ==
    [row |-> r, cluster |-> cluster, opportunistic |-> buyer.score, conviction |-> told.score,
     flags |-> {f \in {"strong_cluster", "first_buy", "largest_buy"} :
                  \/ f = "strong_cluster" /\ cluster = 100
                  \/ f = "first_buy" /\ buyer.first
                  \/ f = "largest_buy" /\ FlagReason \in told.reasons}]

EnrichedAmong(rows, live, buys) ==
    {EntryWith(r,
        IF r \in buys THEN ClusterScore(buys, r) ELSE None,
        IF r \in buys THEN Opportunistic({x \in live : IsActive(x)}, r)
        ELSE [score |-> None, first |-> FALSE],
        IF r \in live /\ IsBuy(r)
        THEN Conviction(live, r, ClusterContext(buys, r.issuer), None, FALSE)
        ELSE [score |-> None, reasons |-> {}]) : r \in rows}

Enriched(rows, at) == EnrichedAmong(rows, Live(rows, at), ActiveBuys(rows, at))

WeightedMean(entries, Score(_), Weight(_)) ==
    LET counted == {e \in entries : Score(e) # None /\ Weight(e) > 0}
        total == MapThenSumSet(Weight, counted)
    IN  IF counted = {} THEN None
        ELSE MapThenSumSet(LAMBDA e : Score(e) * Weight(e), counted) \div total

\* No caller passes the dollars of earlier purchases, so none are capped.
InsiderComponents(entries, at) ==
    LET dollars(e) == LET d == DollarsOf(e.row) IN
                      IF d = None \/ d < 0 THEN 0 ELSE d
        chosen == {e \in entries : /\ e.row.table = "NON_DERIVATIVE" /\ IsActive(e.row)
                                   /\ e.row.date >= DayOf(at) - ComponentDays}
        buys == {e \in chosen : e.row.code = "P"}
        sales == {e \in chosen : e.row.code = "S"}
        clusters == {e.cluster : e \in {x \in buys : x.row.date >= DayOf(at) - LatestDays}} \ {None}
        bought == MapThenSumSet(dollars, buys)
        turnover == bought + MapThenSumSet(dollars, sales)
    IN  [conviction |-> WeightedMean(buys, LAMBDA e : e.conviction, dollars),
         cluster |-> IF clusters = {} THEN None ELSE MaxOf(clusters),
         opportunistic |-> WeightedMean(buys, LAMBDA e : e.opportunistic, dollars),
         net |-> IF turnover = 0 THEN None ELSE (100 * bought) \div turnover]

-----------------------------------------------------------------------------
(* The score engine: every weight, in hundredths, is of a known component.  *)

Weights ==
    [company_insider |-> [conviction |-> 45, cluster |-> 25, opportunistic |-> 20, net |-> 10],
     divergence |-> [weakness |-> 35, activity |-> 35, faster |-> 20, noSales |-> 10],
     turn |-> [base |-> 35, ordinary |-> 25, mansfieldMarket |-> 15, mansfieldSector |-> 10,
               volume |-> 10, reclaim |-> 5],
     total |-> [divergence |-> 25, conviction |-> 15, cluster |-> 10, opportunistic |-> 10,
                base |-> 10, ordinary |-> 10, mansfield |-> 10, volume |-> 5, fundamental |-> 5],
     market_pulse |-> [transactions |-> 15, insiders |-> 20, dollars |-> 20, volume |-> 10,
                       breadth |-> 15, conviction |-> 20]]

(* A missing optional component gives its weight to the others. *)
ScoreOf(model, values) ==
    LET of == {c \in DOMAIN values : values[c] # None}
        weight(c) == Weights[model][c]
    IN  MapThenSumSet(LAMBDA c : weight(c) * values[c], of) \div MapThenSumSet(weight, of)

-----------------------------------------------------------------------------
(* The state machine, 0 FALLING to 4 CONFIRMED_TURN.                        *)

Holds(level, f) ==
    CASE level = 0 -> f.return # None /\ f.return < 0 /\ f.belowLong
      [] level = 1 -> /\ f.drawdown # None /\ f.drawdown <= -20
                      /\ f.insider >= 65 /\ f.age # None /\ f.age <= LatestDays
      [] level = 2 -> f.noLow = TRUE /\ Points(f.contraction, 1) + Points(f.dryUp, 1) + Points(f.flat, 1) >= 2
      [] level = 3 -> /\ f.turn >= 60 /\ f.ordinarySlope # None /\ f.ordinarySlope > 0
                      /\ f.mansfieldSlope # None /\ f.mansfieldSlope > 0
      [] level = 4 -> /\ f.daysAbove # None /\ f.daysAbove >= Span.above \div 2
                      /\ (f.mansfield # None /\ f.mansfield >= 0) \/ f.reclaimed
      [] OTHER -> FALSE

NextState(prior, f) ==
    LET failed == prior.failed + 1
        step(level, n) == [level |-> level, failed |-> n]
    IN  IF f.newLow = TRUE THEN step(0, 0)
        ELSE IF prior.level = 0 /\ ~Holds(0, f) THEN prior
        ELSE IF Holds(prior.level + 1, f) THEN step(prior.level + 1, 0)
        ELSE IF Holds(prior.level, f) THEN step(prior.level, 0)
        ELSE IF failed < 2 THEN step(prior.level, failed)
        ELSE step(IF prior.level = 0 THEN 0 ELSE prior.level - 1, 0)

-----------------------------------------------------------------------------
(* Alert rules and the quality that lets an alert out.                      *)

(* Rates are counts out of a thousand; None is evidence that is not there. *)
QualityReasons(q, complete) ==
    LET rate(name, least) == IF q[name] = None THEN {<<"MISSING", name>>}
                             ELSE IF q[name] \in least..1000 THEN {} ELSE {<<"INSUFFICIENT", name>>}
        when(condition, reason) == IF condition THEN {reason} ELSE {}
    IN  UNION {when(q.stale = None, "MISSING_BENCHMARK"), when(q.stale = TRUE, "STALE_BENCHMARK"),
               when(q.canonical = None, "MISSING_CANONICAL_EVIDENCE"),
               when(q.canonical = FALSE, "CANONICAL_INVALID"),
               when(~complete, "SCORING_METHODOLOGY_INCOMPLETE"),
               rate("parse", 995), rate("coverage", 900), rate("core", 850),
               when(q.passed = None, "QUALITY_GATE_EVIDENCE_MISSING"),
               when(q.passed = FALSE, "QUALITY_GATE_FAILED")}

AtLeast(value, least) == value # None /\ value >= least

AlertTypes(s) ==
    {t \in {"MAJOR_INSIDER_BUY", "STEALTH_ACCUMULATION", "TURNING"} :
        \/ /\ t = "MAJOR_INSIDER_BUY"
           /\ \/ AtLeast(s.conviction, 80) /\ AtLeast(s.value, BigDollars)
              \/ AtLeast(s.value, HugeDollars)
              \/ s.flags # {}
        \/ /\ t = "STEALTH_ACCUMULATION"
           /\ s.insider >= 70 /\ s.divergence >= 75 /\ s.turn >= 45 /\ s.noLow = TRUE
           /\ AtLeast(s.ordinarySlope, 1) /\ AtLeast(s.mansfieldSlope, 1)
        \/ /\ t = "TURNING"
           /\ s.moved /\ s.level >= 3 /\ s.total >= 75 /\ s.insider >= 65 /\ s.divergence >= 65}

(* Every candidate carries the reasons that hold it back, or none at all. *)
Candidates(issuer, s, quality, complete) ==
    {[issuer |-> issuer, type |-> t, held |-> QualityReasons(quality, complete)] : t \in AlertTypes(s)}

-----------------------------------------------------------------------------
(* One issuer on one day.                                                    *)

NoPrior == [level |-> 0, failed |-> 0]
PriorOf(priors, issuer) == IF issuer \in DOMAIN priors THEN priors[issuer] ELSE NoPrior

(* Without its data an issuer keeps its state; the count of failures is not written. *)
Stale(prior) == [kind |-> "STALE", level |-> prior.level, previous |-> prior.level, failed |-> 0,
                 total |-> None, alerts |-> {}]

TechnicalScores(c, reclaim) ==
    [base |-> BaseScore(c), ordinary |-> OrdinaryScore(c.ordinary, c.ordinaryPercentile),
     mansfieldMarket |-> MansfieldScore(c.mansfield, c.mansfieldPercentile),
     mansfieldSector |-> MansfieldScore(c.sector, c.sectorPercentile),
     volume |-> VolumeScore(c.volume, c.volumePercentile), reclaim |-> reclaim]

(* The canonical window's basis against the close, compared as dollars of its shares. *)
ReclaimOf(rows, at, issuer, close) ==
    LET b == Basis(rows, at, BasisDays, issuer, None)
    IN  IF close <= 0 \/ b.shares = 0 THEN None
        ELSE ReclaimScore(close * b.shares, b.dollars, <<>>, 10)

(* The age of the last purchase counts rows of every status that are effective. *)
PurchaseAge(entries, at) ==
    LET days == {e.row.date : e \in {x \in entries : x.row.code = "P" /\ x.row.table = "NON_DERIVATIVE"}}
    IN  IF days = {} THEN None ELSE DayOf(at) - MaxOf(days)

(* The last purchase by date, then owner, then the first of them in the rows. *)
LatestPurchase(entries) ==
    LET buys == {e \in entries : e.row.code = "P"}
        above(e, x) == \/ e.row.date > x.row.date
                       \/ e.row.date = x.row.date
                            /\ (e.row.owner > x.row.owner
                                  \/ (e.row.owner = x.row.owner /\ e.row.id < x.row.id))
    IN  IF buys = {} THEN None ELSE CHOOSE e \in buys : \A x \in buys \ {e} : above(e, x)

TotalScore(divergence, company, technical) ==
    ScoreOf("total",
        [divergence |-> divergence, conviction |-> company.conviction, cluster |-> company.cluster,
         opportunistic |-> company.opportunistic, base |-> technical.base,
         ordinary |-> technical.ordinary, volume |-> technical.volume, fundamental |-> None,
         mansfield |-> (6 * technical.mansfieldMarket + 4 * technical.mansfieldSector) \div 10])

(* What the state machine and the rules read of a company whose data is whole. *)
FactsOf(c, entries, divergence, company, technical, at) ==
    c @@ [insider |-> ScoreOf("company_insider", company), divergence |-> divergence,
          turn |-> ScoreOf("turn", technical), age |-> PurchaseAge(entries, at),
          reclaimed |-> technical.reclaim >= 50,
          total |-> TotalScore(divergence, company, technical)]

Advanced(facts, new, latest, prior, issuer, quality, complete) ==
    [kind |-> "COMPLETE", level |-> new.level, previous |-> prior.level, failed |-> new.failed,
     total |-> facts.total,
     alerts |-> Candidates(issuer,
        facts @@ [level |-> new.level, moved |-> new.level # prior.level, flags |-> latest.flags,
                  value |-> latest.row.value, conviction |-> latest.conviction],
        quality, complete)]

Judged(facts, latest, prior, issuer, quality, complete) ==
    Advanced(facts, NextState(prior, facts), latest, prior, issuer, quality, complete)

CompleteResult(c, entries, company, divergence, technical, prior, at, issuer, quality, complete) ==
    Judged(FactsOf(c, entries, ScoreOf("divergence", divergence), company, technical, at),
           LatestPurchase(entries), prior, issuer, quality, complete)

Whole(f) == \A x \in DOMAIN f : f[x] # None

ResultOf(c, own, company, divergence, technical, prior, at, issuer, quality, complete) ==
    IF Whole(company) /\ Whole(divergence) /\ Whole(technical)
    THEN CompleteResult(c, own, company, divergence, technical, prior, at, issuer, quality, complete)
    ELSE Stale(prior)

(* An issuer without a ticker, a context or a component is stale; the others are scored. *)
IssuerResult(rows, entries, contexts, issuer, prior, at, quality, complete) ==
    LET c == contexts[issuer]
        own == {e \in entries : e.row.issuer = issuer}
    IN  IF issuer \notin DOMAIN contexts THEN Stale(prior)
        ELSE ResultOf(c, own, InsiderComponents(own, at),
                      Divergence(rows, at, issuer, Weakness(c.return, c.drawdown),
                                 ClusterContext(ActiveBuys(rows, at), issuer)),
                      TechnicalScores(c, ReclaimOf(rows, at, issuer, c.close)),
                      prior, at, issuer, quality, complete)

(* Only the issuers of the rows have a result, and only they are in the next state. *)
DailyScores(rows, contexts, priors, at, quality, complete) ==
    LET entries == Enriched(rows, at)
    IN  [issuer \in {r.issuer : r \in rows} |->
            IssuerResult(rows, entries, contexts, issuer, PriorOf(priors, issuer), at, quality, complete)]
=============================================================================
