------------------------------- MODULE Research -------------------------------
(***************************************************************************)
(* The facts a research snapshot publishes (pipeline/research_history.py,  *)
(* research_snapshot.py, sec_history.py): the economic events of the       *)
(* filings known at an instant, the purchase windows and the clusters.     *)
(* A checkpoint is the result of one SEC day: the filings parsed, the      *)
(* accessions that failed, and the number the index lists.                 *)
(***************************************************************************)
EXTENDS Amendments, Identity

CONSTANTS Window        \* the 30 days of the short window and of the clusters

(* research_history: an accession is taken from the earliest day that lists it. *)
Selected(checkpoints) ==
    {d \in UNION {c.filings : c \in checkpoints} :
        \A c \in checkpoints : \A q \in c.filings : q.accession = d.accession => d.day <= q.day}

(* What a checkpoint keeps of a document. *)
Parsed(d) == [accession |-> d.accession, day |-> d.day, records |-> Records(d),
              quarantined |-> Quarantines(d) # {}]

ParsedRows(filings) == UNION {f.records : f \in filings}

\* Mutant: a day counts as complete although a filing was quarantined in part.
DayEvidenceCounted(c) ==
    [day |-> c.day,
     complete |-> c.discovered = Cardinality(c.filings) /\ c.failed = {}]
DayEvidence(c) ==
    [day |-> c.day,
     complete |-> /\ c.discovered = Cardinality(c.filings)
                  /\ c.failed = {}
                  /\ \A f \in c.filings : ~f.quarantined]

(* Only a parsed row tells the issuer of a filing that was quarantined in part. *)
QuarantinedIssuers(filings) == {r.cik : r \in ParsedRows({f \in filings : f.quarantined})}

EventKey(r) == <<r.accession, r.table, r.seq>>
OwnerLocator(r) == <<r.accession, r.owner, r.table, r.seq>>

QualifiedTrade(r) ==
    /\ r.table = "NON_DERIVATIVE"
    /\ <<r.code, r.side>> \in {<<"P", "A">>, <<"S", "D">>}
    /\ r.shares \notin {None, 0} /\ r.price \notin {None, 0} /\ r.value # None

(* economic_events: the rows known at the instant, each delivery once. *)
AvailableRows(records, asOf) ==
    Distinct({r \in records :
                /\ r.accepted # None
                /\ Later(Later(r.knowledge, r.recorded), r.accepted) <= asOf
                /\ r.date <= asOf})

(* The rows whose amendment could not be linked stay visible and block the issuer. *)
UnresolvedOf(available, resolution) ==
    LET rejected == {OwnerLocator(q.row) : q \in resolution.rejected}
    IN  {r \in available : OwnerLocator(r) \in rejected}

\* Mutant: an amendment that could not be linked blocks nothing.
BlockedNever(unresolved) == {}
Blocked(unresolved) == {r.cik : r \in unresolved}

FirstKnown(rows) == CHOOSE r \in rows : \A q \in rows :
                       \/ r.knowledge < q.knowledge
                       \/ r.knowledge = q.knowledge /\ r.owner <= q.owner

EventOf(first, rows, unresolved, blocked) ==
    [key |-> EventKey(first), cik |-> first.cik, date |-> first.date,
     title |-> first.title, code |-> first.code, shares |-> first.shares,
     value |-> IF first.value = None THEN 0 ELSE first.value,
     owners |-> {r.owner : r \in rows},
     pending |-> rows \intersect unresolved # {},
     eligible |-> QualifiedTrade(first) /\ first.cik \notin blocked]

EventsOf(rows, unresolved, blocked) ==
    [events |-> {EventOf(FirstKnown(same), same, unresolved, blocked) :
                    same \in {{r \in rows : EventKey(r) = key} : key \in {EventKey(r) : r \in rows}}},
     blocked |-> blocked]

EventsWith(effective, unresolved) ==
    EventsOf(effective \union unresolved, unresolved, Blocked(unresolved))

EventsResolved(available, resolution, asOf) ==
    EventsWith(Effective(resolution, asOf), UnresolvedOf(available, resolution))

EventsAmong(available, asOf) == EventsResolved(available, Resolve(available, asOf), asOf)

EconomicEvents(records, asOf) == EventsAmong(AvailableRows(records, asOf), asOf)

(* build_research_snapshot narrows the events to resolved common stock. *)
Narrowed(events, resolved, quarantined) ==
    {[e EXCEPT !.eligible = /\ @ /\ e.cik \in resolved \ quarantined
                            /\ CommonTitle(e.title) /\ ~ExcludedTitle(e.title)] : e \in events}

TotalValue(events) == FoldSet(LAMBDA e, sum : e.value + sum, 0, events)

(* _basis: the purchases of a window; complete only when every SEC day in it is. *)
Basis(events, cik, days, asOf, barred, expected, evidence) ==
    LET start == asOf - days + 1
        buys == {e \in events : e.cik = cik /\ e.eligible /\ e.code = "P"
                                  /\ e.date >= start /\ e.date <= asOf}
        relevant == {day \in expected : day >= start /\ day <= asOf}
        complete == /\ relevant # {} /\ \E day \in expected : day <= start
                    /\ \A day \in relevant : \E e \in evidence : e.day = day /\ e.complete
    IN  [coverage |-> IF barred THEN "BLOCKED"
                      ELSE IF complete THEN "COMPLETE" ELSE "PARTIAL",
         value |-> IF barred \/ (buys = {} /\ ~complete) THEN None
                   ELSE TotalValue(buys),
         count |-> IF barred \/ (buys = {} /\ ~complete) THEN None ELSE Cardinality(buys)]

(* _clusters: two purchases in different filings by people who share none. *)
IsCluster(events, cik, asOf) ==
    \E a, b \in {e \in events : e.cik = cik /\ e.eligible /\ e.code = "P"
                                  /\ e.date >= asOf - Window + 1} :
        a.key[1] # b.key[1] /\ a.owners \intersect b.owners = {}

(* A score made over joint filings would weigh the same dollars twice. *)
ScoreReason(events, cik, blocked, quarantined, resolved) == First(<<
    Reason("UNRESOLVED_AMENDMENT", cik \in blocked),
    Reason("SOURCE_QUARANTINE", cik \in quarantined),
    Reason("UNRESOLVED_IDENTITY", cik \notin resolved),
    Reason("JOINT_OWNER_SCORE_NOT_RECOMPUTED",
           \E e \in events : e.cik = cik /\ Cardinality(e.owners) > 1) >>)

(* What the rows of the evidence say of each issuer that has an event. *)
SnapshotOf(events, blocked, quarantined, resolved, expected, evidence, asOf) ==
    LET issuers == {e.cik : e \in events}
        Barred(cik) == cik \in blocked \union quarantined \/ cik \notin resolved
    IN  [events |-> events,
         basis |-> [cik \in issuers |->
                      Basis(events, cik, Window, asOf, Barred(cik), expected, evidence)],
         clusters |-> {cik \in issuers : IsCluster(events, cik, asOf)},
         scores |-> [cik \in issuers |->
                      ScoreReason(events, cik, blocked, quarantined, resolved)],
         partial |-> \/ expected = {} \/ \E e \in evidence : ~e.complete
                     \/ expected # {e.day : e \in evidence}]

SnapshotOfFacts(facts, quarantined, resolved, expected, evidence, asOf) ==
    SnapshotOf(Narrowed(facts.events, resolved, quarantined), facts.blocked,
               quarantined, resolved, expected, evidence, asOf)

SnapshotOfRows(records, quarantined, expected, evidence, observations, asOf) ==
    SnapshotOfFacts(EconomicEvents(records, asOf), quarantined,
                    {i.cik : i \in MarketUniverse(records, observations, asOf).selected},
                    expected, evidence, asOf)

SnapshotOfFilings(filings, expected, evidence, observations, asOf) ==
    SnapshotOfRows(ParsedRows(filings), QuarantinedIssuers(filings),
                   expected, evidence, observations, asOf)

Snapshot(checkpoints, expected, observations, asOf) ==
    SnapshotOfFilings(Selected(checkpoints), expected, {DayEvidence(c) : c \in checkpoints},
                      observations, asOf)

(* assemble_history: why the days cannot be handed on as a history. *)
HistoryReasons(checkpoints, expected, asOf) ==
    LET known == {r \in ParsedRows(UNION {c.filings : c \in checkpoints}) :
                    Later(r.knowledge, r.recorded) <= asOf /\ r.date <= asOf}
    IN  Holding(<<
          Reason("MISSING_PUBLISHED_DAYS", expected # {c.day : c \in checkpoints}),
          Reason("INCOMPLETE_SEC_ACQUISITION", \E c \in checkpoints : c.failed # {}),
          Reason("SEC_ROW_QUARANTINE",
                 \E c \in checkpoints : \E f \in c.filings : f.quarantined),
          Reason("UNRESOLVED_AMENDMENTS", Resolve(known, asOf).rejected # {}) >>)

=============================================================================
