--------------------------------- MODULE Daily ---------------------------------
(***************************************************************************)
(* The daily run: inputs are prepared under a run id, computed from the    *)
(* prepared files alone, placed as an immutable snapshot and named by a    *)
(* manifest (pipeline/live_inputs.py, pipeline/daily.py,                   *)
(* pipeline/dashboard_input.py, domain/daily_manifest.py).  The backtest   *)
(* report it is handed is the one Evaluation wrote.                        *)
(*                                                                         *)
(* The run of a day has the day as its id and its close as its instant.    *)
(***************************************************************************)
EXTENDS Evaluation, Pulse

CONSTANTS Worlds,          \* what happens: [trades, market, identities, core, start]
          Handed,          \* the tests whose report goes on to the daily run
          FirstDay, LastDay,
          QualifyDays,     \* 365
          Locks            \* the scoring locks an operator may install

\* Rows are numbered; their days, instants and amounts are numbers where they are told.
ASSUME WorldsAssumption ==
    \A w \in Worlds :
        /\ IsFiniteSet(w.trades)
        /\ \A r \in w.trades :
              /\ {"id", "issuer", "owner", "date", "known", "from", "to", "status", "code", "class", "ad",
                  "table", "accepted", "value", "shares", "price", "post", "roles", "told", "plan"}
                    \subseteq DOMAIN r
              /\ {r.id, r.owner, r.date, r.known} \subseteq Int
              /\ {r.from, r.to, r.accepted, r.value, r.shares, r.price} \subseteq Int \union {None}
        /\ \A r, q \in w.trades : r.id = q.id => r = q
        /\ \A x \in DOMAIN w.market : w.market[x] \in Seq({w.market[x][n] : n \in DOMAIN w.market[x]})
ASSUME DaysAssumption == {FirstDay, LastDay, ClusterDays} \subseteq Nat

VARIABLES
  world,      \* the world
  day,        \* today
  lock,       \* the scoring lock installed
  inputs,     \* run -> its prepared files, or None
  work,       \* the process: [at, run, result]
  snapshots,  \* run -> snapshots/<run>, or None
  manifests   \* run -> what its manifest.json lists, or None

dailyVars == <<world, day, lock, inputs, work, snapshots, manifests>>

Runs == FirstDay..LastDay
Idle == [at |-> "idle", run |-> None, result |-> None]

-----------------------------------------------------------------------------
(* What is known at an instant of a world that is larger than what is known. *)

(* An effective record: what supersedes it later is not known yet, and it is valid already. *)
SeenAs(r, at) == IF After(r.to, at) THEN [r EXCEPT !.status = "ACTIVE", !.to = None] ELSE r
SeenRows(trades, at) == {SeenAs(r, at) : r \in {x \in trades : x.known <= at /\ ~After(x.from, at)}}

(* The market file of a day as it is written at an instant. *)
MarketFile(market, last, now) ==
    [x \in DOMAIN market |->
        Filtered(market[x], {b \in Range(market[x]) : b.date <= last /\ ~After(b.known, now)})]

-----------------------------------------------------------------------------
(* Identities, contexts and quality.                                        *)

ValidOn(i, at) == (i.from # None => i.from <= DayOf(at)) /\ (i.to # None => DayOf(at) < i.to)

(* The ticker known last, and of those the first in the alphabet. *)
TickerOf(identities, at) ==
    LET usable == {i \in identities : i.eligible /\ i.known # None /\ ValidOn(i, at)}
        of(c) == {i \in usable : i.issuer = c}
        best(c) == CHOOSE i \in of(c) : \A j \in of(c) :
                      i.known > j.known \/ (i.known = j.known /\ i.rank <= j.rank)
    IN  [c \in {i.issuer : i \in usable} |-> best(c).ticker]

(* The sector known last of whoever has a ticker. *)
SectorOf(identities, tickers, at) ==
    LET told == {i \in identities : i.issuer \in DOMAIN tickers /\ i.sector # None
                                      /\ i.known # None /\ i.known <= at /\ ValidOn(i, at)}
        of(c) == {i \in told : i.issuer = c}
    IN  [c \in {i.issuer : i \in told} |->
            (CHOOSE i \in of(c) : \A j \in of(c) : i.known >= j.known).sector]

IsQualified(r, at) ==
    /\ r.known # None /\ r.known <= at /\ r.date \in (DayOf(at) - QualifyDays)..DayOf(at)
    /\ r.code \in {"P", "S"} /\ r.table = "NON_DERIVATIVE" /\ IsActive(r)

Bars(market, symbol, at) == IF symbol \in DOMAIN market THEN Prepared(market[symbol], at) ELSE <<>>

ContextOf(row, market, sector) ==
    Joined(row, Joined(market, [sector |-> sector.mansfield, sectorPercentile |-> sector.mansfieldPercentile]))

ContextsIn(seen, tickers, sectors, at) ==
    LET universe == {tickers[c] : c \in DOMAIN tickers} \intersect DOMAIN seen
        sector(c) == IF c \in DOMAIN sectors THEN sectors[c] ELSE None
    IN  [c \in {x \in DOMAIN tickers : tickers[x] \in universe} |->
            ContextOf(PriceRow(seen[tickers[c]], Len(seen[tickers[c]])),
                      Levels(seen, universe, tickers[c], "SPY", at),
                      Levels(seen, universe, tickers[c], sector(c), at))]

(* The last row of every ticker that has bars, with its strength against SPY and its sector. *)
Contexts(market, tickers, sectors, at) ==
    ContextsIn([x \in {y \in DOMAIN market : Bars(market, y, at) # <<>>} |-> Bars(market, x, at)],
               tickers, sectors, at)

LastDate(market, symbol, at) ==
    LET s == Bars(market, symbol, at) IN IF s = <<>> THEN None ELSE s[Len(s)].date

(* SPY and every sector benchmark reach the last session of any candidate. *)
BenchmarkFresh(market, tickers, sectors, at) ==
    LET dates == {LastDate(market, tickers[c], at) : c \in DOMAIN tickers} \ {None}
    IN  /\ dates # {}
        /\ \A b \in {"SPY"} \union {sectors[c] : c \in DOMAIN sectors} :
              LastDate(market, b, at) # None /\ LastDate(market, b, at) >= MaxOf(dates)

(* A rate out of a thousand, None without anything to measure. *)
Measured(numerator, denominator) ==
    IF denominator = 0 THEN None ELSE (1000 * numerator) \div denominator

\* Mutant: any passing gate will do, of any stage, lock or sample.
LineageIgnored(told, locked) == told # None /\ told.gate # None

(* The gate counts only for the sealed period, under this very lock, with enough outcomes. *)
Lineage(told, locked) ==
    /\ told # None /\ told.gate # None
    /\ told.stage = "sealed-oos" /\ told.provenance = locked
    /\ locked.status = "FROZEN" /\ told.gate.eligible >= MinimumEvents

Assessed(in, parse, coverage, fresh, locked) ==
    LET operational == AtLeast(parse, 995) /\ AtLeast(coverage, 900) /\ AtLeast(in.core, 850) /\ fresh
        pass == operational /\ locked.frozen
                  /\ Lineage(in.report, locked) /\ in.report.gate.status = "PASS"
        zero(n) == IF n = None THEN 0 ELSE n
    IN  [alert |-> [stale |-> ~fresh, canonical |-> TRUE, parse |-> zero(parse),
                    coverage |-> zero(coverage), core |-> zero(in.core), passed |-> pass],
         disposition |-> IF pass THEN "PASS" ELSE IF operational THEN "DEGRADED" ELSE "BLOCKED"]

(* The evidence of a run and its disposition. *)
QualityOf(in, issuers, tickers, sectors, at, locked) ==
    LET mapped == issuers \intersect DOMAIN tickers
    IN  Assessed(in, Measured(in.records, in.records),
                 Measured(Cardinality({c \in mapped : Bars(in.market, tickers[c], at) # <<>>}),
                          Cardinality(mapped)),
                 BenchmarkFresh(in.market, tickers, sectors, at) /\ in.fresh # FALSE, locked)

-----------------------------------------------------------------------------
(* What the dashboard is given.                                             *)

(* One line for every filing, owner, ticker and side. *)
FilingLines(rows, tickers) ==
    LET shown == {r \in rows : /\ r.code \in {"P", "S"} /\ r.value # None /\ r.table = "NON_DERIVATIVE"
                               /\ r.issuer \in DOMAIN tickers /\ r.accepted # None}
        line(r) == [filing |-> r.filing, owner |-> r.owner, ticker |-> tickers[r.issuer], side |-> r.code]
    IN  [l \in {line(r) : r \in shown} |->
            MapThenSumSet(LAMBDA r : r.value, {r \in shown : line(r) = l})]

DashboardInput(rows, tickers, scores, quality, pulse, contexts) ==
    [status |-> IF quality.disposition = "PASS" THEN "VALIDATED"
                ELSE IF quality.alert.stale THEN "STALE" ELSE "EXPERIMENTAL",
     candidates |-> {c \in DOMAIN scores : scores[c].total # None /\ c \in DOMAIN tickers},
     filings |-> FilingLines(rows, tickers),
     pulse |-> pulse["weekly"]["market"].score,
     secThrough |-> MaxOf({0} \union ({r.accepted : r \in rows} \ {None})),
     marketThrough |-> MaxOf({0} \union {contexts[c].date : c \in DOMAIN contexts})]

-----------------------------------------------------------------------------
(* The run of a day on its prepared files.                                  *)

(* Why the run refuses its files. *)
InputsFault(in, at) ==
    \/ RowsAhead(in.canonical \union in.batch, at)
    \/ in.ambiguous
    \/ in.records # Cardinality(in.canonical \union in.batch)
    \/ \E i \in in.identities : After(i.known, at)
    \/ MarketAhead(in.market, DayOf(at))
    \/ \E x \in DOMAIN in.market : \E n \in DOMAIN in.market[x] : After(in.market[x][n].known, at)

Bundle(rows, tickers, scores, entries, contexts, pulse, quality, locked) ==
    [scores |-> scores, entries |-> entries, contexts |-> contexts, pulse |-> pulse,
     quality |-> quality, lock |-> locked,
     states |-> [c \in DOMAIN scores |-> [level |-> scores[c].level, failed |-> scores[c].failed]],
     dashboard |-> DashboardInput(rows, tickers, scores, quality, pulse, contexts)]

Scored(rows, active, tickers, sectors, entries, contexts, quality, prior, at, locked) ==
    Bundle(rows, tickers, DailyScores(active, contexts, prior, at, quality.alert, locked.frozen),
           entries, contexts, MarketPulse(entries, sectors, {"daily", "weekly"}, at), quality, locked)

OutputsOver(in, rows, issuers, tickers, sectors, at, locked) ==
    Scored(rows, {r \in rows : r.issuer \in issuers}, tickers, sectors, Enriched(rows, at),
           Contexts(in.market, tickers, sectors, at),
           QualityOf(in, issuers, tickers, sectors, at, locked), in.prior, at, locked)

Mapped(in, rows, tickers, at, locked) ==
    OutputsOver(in, rows, {r.issuer : r \in {x \in rows : IsQualified(x, at)}},
                tickers, SectorOf(in.identities, tickers, at), at, locked)

Outputs(in, at, locked) ==
    Mapped(in, in.canonical \union in.batch, TickerOf(in.identities, at), at, locked)

-----------------------------------------------------------------------------
DailyInit ==
    /\ EvaluationInit
    /\ world \in Worlds
    /\ (test \notin Handed => world = CHOOSE w \in Worlds : TRUE)
    /\ day = FirstDay
    /\ lock = Locked
    /\ inputs = [d \in Runs |-> None]
    /\ work = Idle
    /\ snapshots = [d \in Runs |-> None]
    /\ manifests = [d \in Runs |-> None]

Evaluated == step \in {"reported", "refused"} /\ test \in Handed

NextDay ==
    /\ Evaluated /\ work = Idle /\ day < LastDay
    /\ day' = day + 1
    /\ UNCHANGED <<world, lock, inputs, work, snapshots, manifests>>

(* The operator hands in an earlier snapshot's states, and the report or none. *)
Prepare(d) ==
    /\ Evaluated /\ work = Idle /\ d <= day /\ inputs[d] = None
    /\ \E prior \in {world.start} \union {snapshots[e].states : e \in {x \in Runs : x < d /\ snapshots[x] # None}},
          told \in {None, report} :
          LET rows == SeenRows(world.trades, CloseOf(d))
              batch == {r \in rows : DayOf(r.known) = d}
          IN  inputs' = [inputs EXCEPT ![d] =
                  [canonical |-> rows \ batch, batch |-> batch, records |-> Cardinality(rows),
                   ambiguous |-> FALSE, market |-> MarketFile(world.market, d, CloseOf(day)),
                   identities |-> {i \in world.identities : i.known <= CloseOf(d)},
                   fresh |-> world.fresh, core |-> world.core, prior |-> prior, report |-> told]]
    /\ UNCHANGED <<world, day, lock, work, snapshots, manifests>>

(* A run that refuses its files leaves nothing; another computes into a stage directory. *)
Compute(d) ==
    /\ Evaluated /\ work = Idle /\ inputs[d] # None
    /\ ~InputsFault(inputs[d], CloseOf(d))
    /\ work' = [at |-> "staged", run |-> d, result |-> Outputs(inputs[d], CloseOf(d), lock)]
    /\ UNCHANGED <<world, day, lock, inputs, snapshots, manifests>>

\* Mutant: the stage directory replaces a snapshot of the same run.
PlaceOver ==
    /\ work.at = "staged"
    /\ snapshots' = [snapshots EXCEPT ![work.run] = work.result]
    /\ work' = [work EXCEPT !.at = "placed"]
    /\ UNCHANGED <<world, day, lock, inputs, manifests>>

(* The stage becomes the snapshot; one that exists must have the same bytes. *)
Place ==
    /\ work.at = "staged"
    /\ IF snapshots[work.run] = None
       THEN /\ snapshots' = [snapshots EXCEPT ![work.run] = work.result]
            /\ work' = [work EXCEPT !.at = "placed"]
       ELSE /\ work' = IF snapshots[work.run] = work.result THEN [work EXCEPT !.at = "placed"] ELSE Idle
            /\ UNCHANGED snapshots
    /\ UNCHANGED <<world, day, lock, inputs, manifests>>

PublishManifest ==
    /\ work.at = "placed"
    /\ manifests' = [manifests EXCEPT ![work.run] = snapshots[work.run]]
    /\ work' = Idle
    /\ UNCHANGED <<world, day, lock, inputs, snapshots>>

CrashRun ==
    /\ work # Idle
    /\ work' = Idle
    /\ UNCHANGED <<world, day, lock, inputs, snapshots, manifests>>

(* The operator installs another scoring lock between runs. *)
Relock(l) ==
    /\ Evaluated /\ work = Idle /\ lock # l
    /\ lock' = l
    /\ UNCHANGED <<world, day, inputs, work, snapshots, manifests>>

Operate ==
    \/ NextDay \/ Place \/ PublishManifest \/ CrashRun
    \/ \E d \in Runs : Prepare(d) \/ Compute(d)
    \/ \E l \in Locks : Relock(l)

DailyNext ==
    \/ Evaluate /\ UNCHANGED dailyVars
    \/ Operate /\ UNCHANGED evaluationVars

DailySpec == DailyInit /\ [][DailyNext]_<<evaluationVars, dailyVars>>
-----------------------------------------------------------------------------
Done == {d \in Runs : snapshots[d] # None}
EntryOf(d, id) == {e \in snapshots[d].entries : e.row.id = id}

(* What a run said of a purchase stands: a later run says the same of its       *)
(* conviction, its cluster and its buyer unless it knows of another row of the  *)
(* issuer, no later than the purchase, or one of them is no longer effective.   *)
(* No score looks at what came after the purchase (features/conviction.py:410,  *)
(* features/cluster.py:61, features/opportunistic.py:60).                       *)
ScoresStand ==
    \A d, e \in Done : d < e =>
        \A x \in snapshots[d].entries : \A y \in EntryOf(e, x.row.id) :
            LET upTo(run) == {z.row : z \in {w \in snapshots[run].entries :
                                 w.row.issuer = x.row.issuer /\ w.row.date <= x.row.date}}
            IN  upTo(d) = upTo(e) =>
                    /\ x.conviction = y.conviction /\ x.cluster = y.cluster
                    /\ x.opportunistic = y.opportunistic /\ x.flags = y.flags

(* The facts of a company on a day stand: in a later run's frame the row of     *)
(* that day is the row the day's own run used, unless a bar came late or a      *)
(* jump without adjustment voids the whole symbol (features/price.py:246).      *)
FactsStand ==
    \A d, e \in Done : d < e =>
        LET then == TickerOf(inputs[d].identities, CloseOf(d))
            now == TickerOf(inputs[e].identities, CloseOf(e))
        IN  \A c \in DOMAIN snapshots[d].contexts \intersect DOMAIN now : then[c] = now[c] =>
                LET s == Bars(inputs[d].market, then[c], CloseOf(d))
                    t == Bars(inputs[e].market, now[c], CloseOf(e))
                    fact == snapshots[d].contexts[c]
                    row == PriceRow(t, Len(s))
                IN  Len(t) >= Len(s) /\ SubSeq(t, 1, Len(s)) = s /\ ~Broken(t) =>
                        \A f \in DOMAIN row : fact[f] = row[f]

(* A run compares its day with what earlier days themselves reported: the       *)
(* ratios it takes for an earlier day are those of that day's own run, as long  *)
(* as nothing of that day was superseded since (features/pulse.py:509).  The    *)
(* conviction ratio is left out: it takes the convictions of today.             *)
PulseAgrees ==
    \A d, e \in Done : d < e =>
        LET counted(run) == {x \in snapshots[run].entries : Counts(x.row, CloseOf(run))}
            of(run) == {x.row : x \in {y \in counted(run) : y.row.date = d /\ y.row.known <= CloseOf(d)}}
            again == Aggregate(KnownIn(counted(e), [first |-> d, last |-> d]), [first |-> d, last |-> d])
            said == snapshots[d].pulse["daily"]["market"].ratios
        IN  of(d) = of(e) => \A f \in DOMAIN said \ {"conviction"} : again[f] = said[f]

(* What a run says of a past purchase, day or period is what that day's own run  *)
(* said: nothing looks ahead of the day it is about.                            *)
RunsAgree == ScoresStand /\ FactsStand /\ PulseAgrees

(* manifest.json names the snapshot that is there: across crashes, runs that    *)
(* are repeated and a lock that changes between them, what a run published is   *)
(* never another run's bytes nor half of them (pipeline/daily.py:553).          *)
ManifestNamesSnapshot == \A d \in Runs : manifests[d] # None => manifests[d] = snapshots[d]

(* An alert that nothing holds back exists only in a run whose data passed and  *)
(* that was handed the report of the one evaluation that opened the sealed      *)
(* period, complete, with a gate passed on enough outcomes, and under the lock  *)
(* the run itself was scored with, whatever other reports there are, whatever   *)
(* lock was installed since and however often runs were repeated (daily.py:785).*)
AlertsNeedSealedGate ==
    \A d \in Done : \A c \in DOMAIN snapshots[d].scores :
        \A a \in snapshots[d].scores[c].alerts : a.held = {} =>
            /\ report # None /\ inputs[d].report = report
            /\ Sealed /\ opened = 1 /\ test.complete
            /\ report.gate.status = "PASS" /\ report.gate.eligible >= MinimumEvents
            /\ report.provenance = snapshots[d].lock
            /\ snapshots[d].dashboard.status = "VALIDATED"
=============================================================================
