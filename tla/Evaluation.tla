------------------------------ MODULE Evaluation ------------------------------
(***************************************************************************)
(* The command that backtests the engine and the simple benchmarks and     *)
(* writes one report (cli.py, backtest).  It runs the engine's signals,    *)
(* opens the sealed period only in the sealed stage, runs every benchmark  *)
(* family on the same bars, and reports the period that its stage may see. *)
(***************************************************************************)
EXTENDS Backtest

CONSTANTS Tests    \* the inputs: [signals, bars, stage, evidence, complete, lower]

\* Instants and days are numbers, prices are positive, and signals are numbered.
ASSUME TestsAssumption ==
    \A t \in Tests :
        /\ IsFiniteSet(t.signals) /\ IsFiniteSet(t.bars)
        /\ \A s \in t.signals :
              /\ s.id \in Int
              /\ {s.accepted, s.knowledge, s.featureAsOf, s.featureAvailable} \subseteq Nat \union {None}
        /\ \A s, u \in t.signals : s.id = u.id => s = u
        /\ \A b \in t.bars : b.date \in Nat /\ b.open \in Nat \ {0} /\ b.close \in Nat
\* The sealed period is the last one.
ASSUME CalendarAssumption ==
    /\ None \notin Int \union {"signal", "noSpy", "lookahead", "provenance"}
    /\ None \notin {"DELISTED", "MISSING"} \X {"RETURN", "ENTRY", "ENTRY_SESSION"} \X (Horizons \union {0})
    /\ DedupSessions \in Nat /\ Horizons \subseteq Nat
    /\ \A p \in Periods : Windows[p].first \in Int /\ Windows[p].last \in Int
    /\ \A p \in Periods \ {"oos"} : Windows[p].last < Windows["oos"].first

VARIABLES test, step, engine, families, opened, report

evaluationVars == <<test, step, engine, families, opened, report>>

FamilyNames == [SIMPLE_PS |-> "simple_ps", UNIQUE_BUYER_RATIO |-> "unique_buyer_ratio",
                LARGEST_BUYS |-> "largest_buys", CLUSTER_BUYS |-> "cluster_buys"]
FullSignals(signals) == {s \in signals : s.family \in {None, "FULL_ENGINE"}}
FamilySignals(signals, f) == {s \in signals : s.family = f}

Sealed == test.stage = "sealed-oos"
PeriodShown == IF Sealed THEN "oos" ELSE "validation"

EvaluationInit == /\ test \in Tests
                  /\ step = "start"
                  /\ engine = None
                  /\ families = [f \in {} |-> {}]
                  /\ opened = 0
                  /\ report = None

(* The engine's own signals; without any, or with an unknown family, the command stops. *)
RunEngine ==
    /\ step = "start"
    /\ LET signals == FullSignals(test.signals)
           known == \A s \in test.signals : s.family \in {None, "FULL_ENGINE"} \union DOMAIN FamilyNames
       IN  IF known /\ signals # {} /\ RunFault(signals, test.bars, LastClose(test.bars)) = None
           THEN step' = "ran" /\ engine' = Run(signals, test.bars)
           ELSE step' = "refused" /\ UNCHANGED engine
    /\ UNCHANGED <<test, families, opened, report>>

OpenSealed ==
    /\ step = "ran"
    /\ step' = "opened"
    /\ opened' = opened + (IF Sealed THEN 1 ELSE 0)
    /\ UNCHANGED <<test, engine, families, report>>

(* Every family that has signals is run on the same bars; its events of the period are its group. *)
RunFamilies ==
    /\ step = "opened"
    /\ LET present == {f \in DOMAIN FamilyNames : FamilySignals(test.signals, f) # {}}
           run(f) == Run(FamilySignals(test.signals, f), test.bars)
           shown(r) == IF Sealed THEN r.sealed.results.all ELSE r.visible.validation.all
           fault(f) == RunFault(FamilySignals(test.signals, f), test.bars, LastClose(test.bars))
       IN  IF \A f \in present : fault(f) = None
           THEN /\ families' = [g \in {FamilyNames[f] : f \in present} |->
                                  shown(run(CHOOSE f \in present : FamilyNames[f] = g))]
                /\ step' = "compared"
           ELSE step' = "refused" /\ UNCHANGED families
    /\ UNCHANGED <<test, engine, opened, report>>

Shown == IF Sealed THEN engine.sealed.results ELSE engine.visible[PeriodShown]
Groups == [g \in DOMAIN families \union {"full_engine", "simple_benchmark"} |->
              IF g = "full_engine" THEN Shown.top
              ELSE IF g = "simple_benchmark" THEN Shown.all ELSE families[g]]

WriteReport ==
    /\ step = "compared"
    /\ IF ReportFault(PeriodShown, test.stage, test.complete, Groups)
       THEN step' = "refused" /\ UNCHANGED report
       ELSE /\ report' = Report(PeriodShown, test.stage, Groups, Shown.all, test.evidence,
                                test.complete, test.lower)
            /\ step' = "reported"
    /\ UNCHANGED <<test, engine, families, opened>>

Evaluate == RunEngine \/ OpenSealed \/ RunFamilies \/ WriteReport

-----------------------------------------------------------------------------
EvaluationSessions == Sessions(test.bars)
EngineEvents == engine.visible.development.all \union engine.visible.validation.all
                  \union engine.sealed.results.all
(* A position is opened only in a session that follows a close at which the     *)
(* signal, its features and its bar were all known: no order is placed on       *)
(* anything that its own day could not have told (engine.py, _event_index,      *)
(* _validate_signal_at_event and _outcome).                                     *)
EnteredOnKnowledge ==
    engine # None => \A e \in EngineEvents : e.entry # None =>
        \E day \in {EvaluationSessions[i] : i \in DOMAIN EvaluationSessions} :
            /\ day < e.entry
            /\ {Availability(e.signal), e.signal.featureAsOf, e.signal.featureAvailable}
                  \subseteq (0..CloseOf(day)) \union {None}

(* What is kept and where it is entered, and every outcome that is known, is    *)
(* what a run on the bars and signals up to that exit would have said: nothing  *)
(* that happens later changes it.                                               *)
OutcomesStand ==
    engine # None => \A e \in EngineEvents : \A h \in Horizons :
        e.returns[h].excess # None =>
            LET exit == e.returns[h].exit
                then == Run({s \in FullSignals(test.signals) : Availability(s) <= CloseOf(exit)},
                            {b \in test.bars : b.date <= exit})
                events == then.visible.development.all \union then.visible.validation.all
                            \union then.sealed.results.all
            IN  \E f \in events : /\ f.signal = e.signal /\ f.entry = e.entry
                                  /\ f.returns[h] = e.returns[h]

(* Two signals of one exposure that are kept are more than DedupSessions apart, *)
(* and a signal is dropped only for a kept one that is not further before it:   *)
(* a chain of signals does not silence an exposure forever.                     *)
DuplicatesAreNear ==
    engine # None =>
        LET scheduled == Schedule(FullSignals(test.signals), EvaluationSessions)
            keeps(d) == d.signal \in {e.signal : e \in EngineEvents}
            near(d, e) == Exposure(d) = Exposure(e) /\ d.index - e.index \in 0..DedupSessions
        IN  \A d \in scheduled :
               keeps(d) # \E e \in scheduled \ {d} : keeps(e) /\ near(d, e) /\ Earlier(e, d)

(* Whoever may not open the sealed period learns nothing of it: without the     *)
(* signals of that period every visible group, attrition count and duplicate    *)
(* list would be the same, and the results were not opened.                     *)
SealHolds ==
    engine # None /\ ~Sealed =>
        /\ opened = 0
        /\ engine.visible = Run({s \in FullSignals(test.signals) :
                LET i == EventIndex(Availability(s), EvaluationSessions)
                IN  i # None => PeriodOf(EvaluationSessions[i]) # "oos"}, test.bars).visible

(* A return that enters a statistic was seen whole: every session from its      *)
(* entry to its exit has a bar.  What was not is counted as attrition.          *)
OnlyWholePathsCount ==
    report # None => \A h \in Horizons : \A g \in DOMAIN Groups :
        report.table[g][h].observed =
            Cardinality({e \in Groups[g] : /\ e.open # None /\ e.returns[h].exit # None
                /\ \A i \in DOMAIN EvaluationSessions :
                      EvaluationSessions[i] \in e.entry..e.returns[h].exit =>
                          BarOn(test.bars, e.signal.ticker, EvaluationSessions[i]) # None})

(* No number of a report looks ahead: not at when a signal is entered, not at   *)
(* what it earned, and not at the sealed period before it may be opened.        *)
BacktestIsBlind == EnteredOnKnowledge /\ OutcomesStand /\ SealHolds

(* Every exposure counts once, as long as it lasts, and only if it was seen.    *)
CountedFairly == DuplicatesAreNear /\ OnlyWholePathsCount
=============================================================================
