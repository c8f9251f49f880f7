------------------------------- MODULE Backtest -------------------------------
(***************************************************************************)
(* The point-in-time event backtest, its report and its formal gate        *)
(* (backtest/models.py, backtest/engine.py, backtest/reporting.py).        *)
(*                                                                         *)
(* Prices are whole numbers and returns whole percents.                    *)
(* Bars are records with a symbol, a date, an                              *)
(* open, a low, a close and the instant at which they were available; the  *)
(* sessions are the dates of SPY's bars.  Signals are numbered, and the    *)
(* order of their (ticker, type, id) is the order of their numbers.        *)
(***************************************************************************)
EXTENDS Orders

CONSTANTS Horizons,          \* forward returns, in sessions
          GateHorizon,       \* the horizon of the formal gate (126 sessions)
          DedupSessions,     \* 20
          Windows,           \* period -> [first, last] day of the period
          Delisted,          \* tickers known to be delisted
          Locked,            \* the provenance of the scoring lock
          MinimumEvents      \* 200

Periods == {"development", "validation", "oos"}

(* What BacktestSignal refuses to hold. *)
SignalFault(s) ==
    \/ s.score \notin 0..100
    \/ s.accepted = None /\ s.knowledge = None
    \/ s.accepted # None /\ s.knowledge # None /\ s.knowledge < s.accepted
    \/ s.provenance # None /\ (s.provenance.status = "FROZEN") # s.provenance.frozen

Availability(s) == IF s.knowledge # None THEN s.knowledge ELSE s.accepted

PeriodOf(day) ==
    LET ps == {p \in Periods : Windows[p].first <= day /\ day <= Windows[p].last}
    IN  IF ps = {} THEN None ELSE CHOOSE p \in ps : TRUE

BarOn(bars, ticker, day) ==
    LET bs == {b \in bars : b.symbol = ticker /\ b.date = day}
    IN  IF bs = {} THEN None ELSE CHOOSE b \in bs : TRUE

(* Nothing that is given to a run may be later than the run itself. *)
Lookahead(signals, bars, asOf) ==
    \/ \E s \in signals : \/ Availability(s) > asOf
                          \/ After(s.featureAsOf, asOf)
                          \/ After(s.featureAvailable, asOf)
    \/ \E b \in bars : b.date > DayOf(asOf) \/ After(b.available, asOf)

(* Nor may the facts of a signal be later than the close of its own session. *)
SignalAhead(s, session, bars) ==
    \/ After(s.featureAsOf, CloseOf(session))
    \/ After(s.featureAvailable, CloseOf(session))
    \/ LET b == BarOn(bars, s.ticker, session)
       IN  b # None /\ After(b.available, CloseOf(session))

(* Every signal must carry the provenance of the one scoring lock. *)
ProvenanceFault(signals) == \E s \in signals : s.provenance # Locked

Sessions(bars) == InOrderOf({b.date : b \in {x \in bars : x.symbol = "SPY"}}, <)

\* Mutant: the session a signal falls in may have closed before it.
EventIndexOfDay(instant, sessions) ==
    LET later == {i \in DOMAIN sessions : sessions[i] >= DayOf(instant)}
    IN  IF later = {} THEN None ELSE CHOOSE i \in later : \A j \in later : i <= j

(* The first session whose close is not before the instant of the signal. *)
EventIndex(instant, sessions) ==
    LET later == {i \in DOMAIN sessions : CloseOf(sessions[i]) >= instant}
    IN  IF later = {} THEN None ELSE CHOOSE i \in later : \A j \in later : i <= j

Schedule(signals, sessions) ==
    LET dated == {[signal |-> s, index |-> EventIndex(Availability(s), sessions)] : s \in signals}
    IN  {[signal |-> d.signal, index |-> d.index, session |-> sessions[d.index],
          period |-> PeriodOf(sessions[d.index])] :
            d \in {x \in dated : x.index # None /\ PeriodOf(sessions[x.index]) # None}}

Earlier(d, e) == LET a == Availability(d.signal)  b == Availability(e.signal) IN
    \/ d.index < e.index
    \/ d.index = e.index /\ (a < b \/ (a = b /\ d.signal.id < e.signal.id))

IssuerIdentity(s) == IF s.cik # None THEN <<"CIK", s.cik>> ELSE <<"TICKER", s.ticker>>
ExposureOf(s) == IF s.family # None THEN s.family ELSE s.type    \* without ALERT and SIGNAL
Exposure(d) == <<IssuerIdentity(d.signal), ExposureOf(d.signal)>>

\* Mutant: a dropped signal extends the window that dropped it.
KeepChained(run, d) ==
    LET before == {e \in run.kept \union run.dropped : Exposure(e) = Exposure(d)}
    IN  IF \E e \in before : d.index - e.index <= DedupSessions
        THEN [run EXCEPT !.dropped = @ \union {d}]
        ELSE [run EXCEPT !.kept = @ \union {d}]

(* One signal per exposure in every DedupSessions sessions after the last one kept. *)
Keep(run, d) ==
    LET before == {e \in run.kept : Exposure(e) = Exposure(d)}
    IN  IF \E e \in before : d.index - e.index <= DedupSessions
        THEN [run EXCEPT !.dropped = @ \union {d}]
        ELSE [run EXCEPT !.kept = @ \union {d}]

Deduplicate(scheduled) ==
    LET inOrder == InOrderOf(scheduled, Earlier)
        after[i \in 0..Cardinality(scheduled)] ==
            IF i = 0 THEN [kept |-> {}, dropped |-> {}] ELSE Keep(after[i - 1], inOrder[i])
    IN  after[Cardinality(scheduled)]

Percent(to, from) == (100 * to) \div from - 100

Missing(ticker, kind, h) == <<IF ticker \in Delisted THEN "DELISTED" ELSE "MISSING", kind, h>>

NoReturn(exit, reason) == [exit |-> exit, stock |-> None, spy |-> None, excess |-> None,
                           mae |-> None, reason |-> reason, incomplete |-> FALSE]

ExitBar(ticker, bars, day) == BarOn(bars, ticker, day)

(* The return from the open of the entry to the close of the exit, against SPY's. *)
ForwardReturn(ticker, entry, h, sessions, bars) ==
    LET exit == entry + h
        day(i) == sessions[i]
        path == {day(i) : i \in entry..exit}
        first == BarOn(bars, ticker, day(entry))
        final == ExitBar(ticker, bars, day(exit))
        spy0 == BarOn(bars, "SPY", day(entry))
        spy1 == BarOn(bars, "SPY", day(exit))
        hole == \E d \in path : BarOn(bars, ticker, d) = None
        lows == {BarOn(bars, ticker, d).low : d \in path}
        stock == Percent(final.close, first.open)
        market == Percent(spy1.close, spy0.open)
    IN  IF exit > Len(sessions) THEN NoReturn(None, Missing(ticker, "RETURN", h))
        ELSE IF final = None THEN NoReturn(day(exit), Missing(ticker, "RETURN", h))
        ELSE [exit |-> day(exit), stock |-> stock, spy |-> market, excess |-> stock - market,
              mae |-> IF hole THEN None
                      ELSE Percent(CHOOSE l \in lows : \A m \in lows : l <= m, first.open),
              reason |-> None, incomplete |-> hole]

(* The outcome of a kept signal, entered at the open of the next session. *)
Outcome(d, sessions, bars) ==
    LET entry == d.index + 1
        bar == BarOn(bars, d.signal.ticker, sessions[entry])
        none(reason) == [h \in Horizons |-> NoReturn(None, reason)]
        lost == IF entry > Len(sessions) THEN <<"MISSING", "ENTRY_SESSION", 0>>
                ELSE IF bar = None THEN Missing(d.signal.ticker, "ENTRY", 0)
                ELSE None
    IN  [signal |-> d.signal, period |-> d.period, session |-> d.session, index |-> d.index,
         entry |-> IF entry > Len(sessions) THEN None ELSE sessions[entry],
         open |-> IF lost = None THEN bar.open ELSE None,
         returns |-> IF lost # None THEN none(lost)
                     ELSE [h \in Horizons |-> ForwardReturn(d.signal.ticker, entry, h, sessions, bars)]]

Reasons(e) == ({e.returns[h].reason : h \in Horizons} \ {None})
                \union {<<"MISSING", "INTERMEDIATE_BAR", h>> : h \in {x \in Horizons : e.returns[x].incomplete}}

Attrition(events) ==
    LET all == UNION {Reasons(e) : e \in events}
    IN  [total |-> Cardinality(events),
         attrited |-> Cardinality({e \in events : Reasons(e) # {}}),
         counts |-> [r \in all |-> Cardinality({e \in events : r \in Reasons(e)})]]

(* The best tenth of every session, rounded up, by score and then by number. *)
Ahead(e, f) == \/ e.signal.score > f.signal.score
               \/ e.signal.score = f.signal.score /\ e.signal.id < f.signal.id
TopDecile(events) ==
    LET peers(e) == {f \in events : f.session = e.session}
    IN  {e \in events : Cardinality({f \in peers(e) : Ahead(f, e)})
                          < (Cardinality(peers(e)) + 9) \div 10}

PeriodResults(events, p) ==
    LET es == {e \in events : e.period = p} IN [top |-> TopDecile(es), all |-> es]

VisibleDuplicates(dropped) == {d.signal.id : d \in {x \in dropped : x.period # "oos"}}

(* What a run lets everybody see, and what it seals. *)
Result(events, dropped) ==
    LET sealed == {e \in events : e.period = "oos"}
    IN  [visible |-> [development |-> PeriodResults(events, "development"),
                      validation |-> PeriodResults(events, "validation"),
                      attrition |-> Attrition(events \ sealed),
                      duplicates |-> VisibleDuplicates(dropped)],
         sealed |-> [results |-> PeriodResults(events, "oos"),
                     attrition |-> Attrition(sealed),
                     duplicates |-> {d.signal.id : d \in {x \in dropped : x.period = "oos"}}]]

(* Why a run is refused, or None. *)
RunFault(signals, bars, asOf) ==
    LET sessions == Sessions(bars)
    IN  IF \E s \in signals : SignalFault(s) THEN "signal"
        ELSE IF sessions = <<>> THEN "noSpy"
        ELSE IF Lookahead(signals, bars, asOf) THEN "lookahead"
        ELSE IF ProvenanceFault(signals) THEN "provenance"
        ELSE IF \E d \in Schedule(signals, sessions) : SignalAhead(d.signal, d.session, bars)
        THEN "lookahead" ELSE None

RunOver(unique, sessions, bars) ==
    Result({Outcome(d, sessions, bars) : d \in unique.kept}, unique.dropped)

Run(signals, bars) ==
    RunOver(Deduplicate(Schedule(signals, Sessions(bars))), Sessions(bars), bars)

(* The default instant of a run is the close of SPY's last session. *)
LastClose(bars) == LET s == Sessions(bars) IN IF s = <<>> THEN 0 ELSE CloseOf(s[Len(s)])

-----------------------------------------------------------------------------
(* The report.  Medians are doubled, so that they are whole numbers. *)
Eligible(e, h) ==
    LET r == e.returns[h]
    IN  IF r.excess = None \/ r.reason # None \/ r.incomplete THEN None ELSE r.excess

Median2(events, h) ==
    LET seq == InOrderOf({<<Eligible(e, h), e.signal.id>> : e \in events},
                            LAMBDA a, b : a[1] < b[1] \/ (a[1] = b[1] /\ a[2] < b[2]))
        n == Len(seq)
    IN  IF n = 0 THEN None
        ELSE seq[(n + 1) \div 2][1] + seq[(n + 2) \div 2][1]

Summary(events, h) ==
    LET seen == {e \in events : Eligible(e, h) # None}
    IN  [events |-> Cardinality(events), observed |-> Cardinality(seen),
         attrited |-> Cardinality(events \ seen), median |-> Median2(seen, h),
         wins |-> Cardinality({e \in seen : Eligible(e, h) > 0})]

SimpleBenchmarks == <<"simple_ps", "unique_buyer_ratio", "largest_buys", "cluster_buys">>

(* Evidence: every rate and flag is None, "malformed", "bad" or "good". *)
EvidenceStatus(evidence) ==
    IF evidence = None THEN "INCONCLUSIVE"
    ELSE LET values == {evidence[f] : f \in DOMAIN evidence}
         IN  IF "malformed" \in values THEN "FAIL"
             ELSE IF None \in values THEN "INCONCLUSIVE"
             ELSE IF "bad" \in values THEN "FAIL" ELSE "PASS"

(* A median of exactly zero counts as no median at all: (median or -inf). *)
RankOf(median) == IF median = 0 THEN -1000000 ELSE median

(* The first simple benchmark with the best rank. *)
BestOf(medians) ==
    LET candidates == {i \in DOMAIN medians : medians[i] # None}
        rank(i) == RankOf(medians[i])
    IN  IF candidates = {} THEN None
        ELSE SimpleBenchmarks[CHOOSE i \in candidates : \A j \in candidates :
                                 rank(i) > rank(j) \/ (rank(i) = rank(j) /\ i <= j)]

BestSimple(groups) ==
    BestOf([i \in DOMAIN SimpleBenchmarks |->
              IF SimpleBenchmarks[i] \notin DOMAIN groups THEN None
              ELSE Summary(groups[SimpleBenchmarks[i]], GateHorizon).median])

Verdict(best, full, simple, status, lower) ==
    LET eligible == IF full.observed < simple.observed THEN full.observed ELSE simple.observed
        gate(s) == [status |-> s, best |-> best, eligible |-> eligible]
    IN  IF status = "FAIL" \/ full.median - simple.median <= 0 THEN gate("FAIL")
        ELSE IF status = "INCONCLUSIVE" \/ lower <= 0 \/ eligible < MinimumEvents
        THEN gate("INCONCLUSIVE")
        ELSE gate("PASS")

GateAgainst(best, full, groups, evidence, lower) ==
    IF best = None \/ full.median = None
    THEN [status |-> "INCONCLUSIVE", best |-> None, eligible |-> 0]
    ELSE Verdict(best, full, Summary(groups[best], GateHorizon), EvidenceStatus(evidence), lower)

(* lower is the sign of the bootstrap's lower bound, which the sample decides. *)
GateOf(groups, evidence, complete, lower) ==
    IF ~complete THEN [status |-> "FAIL", best |-> None, eligible |-> 0]
    ELSE GateAgainst(BestSimple(groups), Summary(groups["full_engine"], GateHorizon),
                     groups, evidence, lower)

RegimeTable(events) ==
    LET keys == UNION {{<<"period", e.period>>, <<"sector", e.signal.sector>>,
                        <<"signal_type", e.signal.type>>} : e \in events}
        of(e, k) == k \in {<<"period", e.period>>, <<"sector", e.signal.sector>>,
                           <<"signal_type", e.signal.type>>}
    IN  [k \in keys |-> [h \in Horizons |-> Summary({e \in events : of(e, k)}, h)]]

DataQuality(events) ==
    LET with(P(_)) == Cardinality({e \in events : P(e)})
    IN  [delisted |-> with(LAMBDA e : \E r \in Reasons(e) : r[1] = "DELISTED"),
         unidentified |-> with(LAMBDA e : e.signal.cik = None),
         sectorless |-> with(LAMBDA e : e.signal.sector = None),
         holes |-> with(LAMBDA e : \E h \in Horizons : e.returns[h].incomplete)]

(* A report of the sealed period needs the sealed stage and a complete lock. *)
ReportFault(period, stage, complete, groups) ==
    \/ period = "oos" /\ stage # "sealed-oos"
    \/ stage = "sealed-oos" /\ ~complete
    \/ UNION {groups[g] : g \in DOMAIN groups} = {}

Report(period, stage, groups, all, evidence, complete, lower) ==
    [period |-> period, stage |-> stage, provenance |-> Locked,
     table |-> [g \in DOMAIN groups |-> [h \in Horizons |-> Summary(groups[g], h)]],
     regimes |-> RegimeTable(all), attrition |-> Attrition(all), quality |-> DataQuality(all),
     gate |-> IF period = "oos" THEN GateOf(groups, evidence, complete, lower) ELSE None]
=============================================================================
