------------------------------- MODULE Evidence -------------------------------
(***************************************************************************)
(* How the evidence of the daily research run accumulates: the checkpoints *)
(* of the SEC days, and the public identity history kept as content-       *)
(* addressed releases (ingestion/sec/identity_store.py, the identity part  *)
(* of pipeline/daily_research.py).                                         *)
(*                                                                         *)
(* Acquisition and research share a concurrency group, so one job runs at  *)
(* a time; it may be lost between any two calls to the release service.    *)
(***************************************************************************)
EXTENDS Research

CONSTANTS Worlds,       \* the filings that may exist, several sets to choose from
          Answers,      \* what the ticker map and the submissions endpoint may say together
          MaxClock, MaxCrashes

\* Instants are numbers, and so are tickers: the order of the letters.
ASSUME FilingsAssumption ==
    \A w \in DOMAIN Worlds : \A d \in Worlds[w] :
        /\ {"payload", "accession", "day", "cik", "named", "ticker", "form", "url", "amends", "supersedes",
            "owners", "planBox", "planNotes", "rows", "hash", "accepted", "observed", "recorded",
            "corrects"} \subseteq DOMAIN d
        /\ d.day \in Nat /\ d.accepted \in Int \union {None}
        /\ \A table \in TableTypes :
              /\ Len(d.rows[table]) \in Nat
              /\ \A n \in 1..Len(d.rows[table]) :
                    /\ {d.rows[table][n].shares, d.rows[table][n].price} \subseteq Nat \union {None, Bad}
                    /\ d.rows[table][n].date \in Int \union {None, Bad}
ASSUME AnswersAssumption ==
    \A answer \in Answers : \A row \in answer.map : row.ticker \in Int \union {Bad, None}
ASSUME NoneAssumption ==
    /\ Bad \notin Int
    /\ None \notin Int \union
         {"INVALID_PAYLOAD", "PAYLOAD_TOO_LARGE", "UNSAFE_XML", "INVALID_XML", "UNSUPPORTED_DOCUMENT",
          "XML_NESTING_LIMIT", "INVALID_ACCESSION", "MISSING_ISSUER", "UNSUPPORTED_FORM",
          "INVALID_SOURCE_URL", "INVALID_AMENDMENT_LINK", "MISSING_OWNER", "TRANSACTION_ROW_LIMIT",
          "MISSING_OWNER_IDENTITY", "MISSING_OWNER_CIK",
          "UNRESOLVED_AMENDMENT", "AMENDMENT_IDENTITY_MISMATCH", "AMENDMENT_LINK_CONFLICT",
          "AMBIGUOUS_AMENDMENT", "AMENDMENT_CHAIN_FORK", "AMENDMENT_TIME_CONFLICT"}

\* The accession of the filing a revision id is from: that of a row as it was filed, or of
\* a row that replaces another.
RevisionOf(rid) == IF Len(rid) = 2 THEN rid[1][1] ELSE rid[2]

\* An accession is one filing, on whatever days it is listed (_filing_identity).  What
\* corrects a filing is an amendment, and what an amendment names is what it corrects.
ASSUME AccessionsAssumption ==
    \A w \in DOMAIN Worlds :
        /\ IsFiniteSet(Worlds[w])
        /\ \A c, d \in Worlds[w] : c.accession = d.accession => [c EXCEPT !.day = d.day] = d
        /\ \A d \in Worlds[w] :
              /\ d.accession \in Int \union {Bad} /\ d.hash \in Int /\ Len(d.owners) \in Nat
              /\ \A o \in 1..Len(d.owners) : d.owners[o].cik \in Int \union {Bad, None}
              /\ d.corrects # None => d.form \in {"3/A", "4/A", "5/A"}
              /\ d.form \in {"3/A", "4/A", "5/A"} =>
                    /\ d.amends \in {None, Bad, d.corrects}
                    /\ d.supersedes \in {None, Bad} \/ RevisionOf(d.supersedes) = d.corrects

VARIABLES clock, world, checkpoints, releases, job, crashes,
          journal       \* what was known when the clock left each instant

evidenceVars == <<clock, world, checkpoints, releases, job, crashes, journal>>

Idle == [pc |-> "idle", rows |-> {}]

EvidenceInit ==
    /\ clock = 1
    /\ world \in DOMAIN Worlds
    /\ checkpoints = {}
    /\ releases = <<>>
    /\ job = Idle
    /\ crashes = 0
    /\ journal = {}

-----------------------------------------------------------------------------
(* SEC days: every listed filing is stored or recorded as failed; a day is     *)
(* tried again until it has no failure.                                        *)

Stamped(d) == Parsed([d EXCEPT !.observed = clock, !.recorded = clock])

Filed == Worlds[world]
Published == {d.day : d \in Filed}       \* the days SEC has published an index for
ExpectedDays == {day \in Published : day < clock}

(* A submission without an acceptance instant, or one of the future, is an error. *)
Fetchable(d) == d.accepted # None /\ d.accepted <= clock

AcquireDay(day) ==
    LET listed == {d \in Filed : d.day = day}
        old == {c \in checkpoints : c.day = day}
        stored == UNION {c.filings : c \in old}
        missing == {d \in listed : \A s \in stored : s.accession # d.accession}
    IN  /\ job.pc = "idle" /\ day < clock
        /\ \A c \in old : c.failed # {}
        /\ \E good \in SUBSET {d \in missing : Fetchable(d)} :
              checkpoints' = (checkpoints \ old) \union
                 {[day |-> day, filings |-> stored \union {Stamped(d) : d \in good},
                   failed |-> {d.accession : d \in missing \ good},
                   discovered |-> Cardinality(listed)]}
        /\ UNCHANGED <<clock, world, releases, job, crashes, journal>>

-----------------------------------------------------------------------------
(* The identity history: encode_identity_bundle shards it by issuer.           *)

Manifest == 0           \* the asset that lists the shards
Shards(rows) == {r.cik : r \in rows}
Sharded(rows) == \E r, q \in rows : r.cik # q.cik
Assets(rows) == IF Sharded(rows) THEN Shards(rows) \union {Manifest} ELSE Shards(rows)

(* latest: the newest published release, a sharded one before any other; *)
(* nothing can be read from a release that lacks an asset.               *)
LatestOf(all) ==
    LET published == {i \in DOMAIN all : ~all[i].draft}
        newest == CHOOSE i \in published : \A j \in published :
                     \/ Sharded(all[i].rows) /\ ~Sharded(all[j].rows)
                     \/ Sharded(all[i].rows) = Sharded(all[j].rows) /\ j <= i
    IN  IF published = {} THEN {}
        ELSE IF all[newest].assets # Assets(all[newest].rows) THEN {}
        ELSE all[newest].rows
Latest == LatestOf(releases)

History == ParsedRows(Selected(checkpoints))
Requested == {r.cik : r \in {q \in History : q.code \in {"P", "S"}}}

(* daily_research.main: the previous history, then one observation per issuer. *)
Observe ==
    /\ job.pc = "idle" /\ Requested # {}
    /\ \A r \in Latest : r.known < clock          \* two observations never share an instant
    /\ \E answer \in Answers :
         LET rows == Latest \union {Observation(cik, answer.profiles[cik], answer.map, History, clock) :
                                      cik \in Requested}
         IN  /\ ~Conflicting(rows)
             /\ job' = [pc |-> "persist", rows |-> rows]
    /\ UNCHANGED <<clock, world, checkpoints, releases, crashes, journal>>

Mine == {i \in DOMAIN releases : releases[i].rows = job.rows}
Target == CHOOSE i \in Mine : TRUE

(* persist: refused when a row of the latest history would be lost.  A history *)
(* in one file is published as it is created, the others begin as a draft.     *)
\* Mutant: a sharded history is created published.
CreatePublished ==
    /\ job.pc = "persist" /\ Mine = {}
    /\ Latest \subseteq job.rows
    /\ releases' = Append(releases,
          [rows |-> job.rows, draft |-> FALSE,
           assets |-> IF Sharded(job.rows) THEN {Manifest} ELSE Assets(job.rows)])
    /\ UNCHANGED <<clock, world, checkpoints, job, crashes, journal>>
Create ==
    /\ job.pc = "persist" /\ Mine = {}
    /\ Latest \subseteq job.rows
    /\ releases' = Append(releases,
          [rows |-> job.rows, draft |-> Sharded(job.rows),
           assets |-> IF Sharded(job.rows) THEN {Manifest} ELSE Assets(job.rows)])
    /\ UNCHANGED <<clock, world, checkpoints, job, crashes, journal>>

Upload ==
    /\ job.pc = "persist" /\ Mine # {} /\ releases[Target].draft
    /\ \E asset \in Assets(job.rows) \ releases[Target].assets :
          releases' = [releases EXCEPT ![Target].assets = @ \union {asset}]
    /\ UNCHANGED <<clock, world, checkpoints, job, crashes, journal>>

PublishHistory ==
    /\ job.pc = "persist" /\ Mine # {} /\ releases[Target].draft
    /\ releases[Target].assets = Assets(job.rows)
    /\ releases' = [releases EXCEPT ![Target].draft = FALSE]
    /\ UNCHANGED <<clock, world, checkpoints, job, crashes, journal>>

(* The published bytes are read back before the run goes on to the market. *)
Verify ==
    /\ job.pc = "persist" /\ Mine # {} /\ ~releases[Target].draft
    /\ releases[Target].assets = Assets(job.rows)
    /\ job' = Idle
    /\ UNCHANGED <<clock, world, checkpoints, releases, crashes, journal>>

LoseJob ==
    /\ job.pc # "idle" /\ crashes < MaxCrashes
    /\ job' = Idle
    /\ crashes' = crashes + 1
    /\ UNCHANGED <<clock, world, checkpoints, releases, journal>>

(* A run reads its own observations as soon as it has made them. *)
Identities == IF job.pc = "persist" THEN job.rows ELSE Latest

FactsAt(t) == EconomicEvents(History, t).events
IdentitiesAt(t) == LatestObservations(Identities, t)

(* The tickers an index over the observations gives for an instant: the latest *)
(* observations are its current map, all of them its valid-time intervals.     *)
TickersAt(t) ==
    LET index == [current |-> {r \in LatestObservations(Identities, clock) : r.ticker # None},
                  intervals |-> {r \in Identities : r.ticker # None}]
    IN  {<<cik, ResolveTicker(index, cik, t, [ticker |-> None, known |-> None]).ticker>> :
            cik \in {d.cik : d \in Filed}}

Tick ==
    /\ clock < MaxClock /\ job.pc = "idle"     \* a job takes less than a day
    /\ clock' = clock + 1
    /\ journal' = journal \union
          {[at |-> clock, filings |-> Selected(checkpoints), facts |-> FactsAt(clock),
            identities |-> IdentitiesAt(clock), tickers |-> TickersAt(clock)]}
    /\ UNCHANGED <<world, checkpoints, releases, job, crashes>>

EvidenceNext ==
    \/ \E day \in Published : AcquireDay(day)
    \/ Observe \/ Create \/ Upload \/ PublishHistory \/ Verify
    \/ LoseJob \/ Tick

EvidenceSpec == EvidenceInit /\ [][EvidenceNext]_evidenceVars

-----------------------------------------------------------------------------
View == Snapshot(checkpoints, ExpectedDays, Identities, clock)

(* What was not known at an instant never enters the picture of that instant:  *)
(* as long as no filing of then was attributed to an earlier day since, the     *)
(* economic events of then are what they were, however checkpoints arrive, and  *)
(* the identities and tickers of then stay what they were as observations       *)
(* arrive (economic_events, resolve_amendments, _latest_identity_observations   *)
(* and resolve_ticker choose by knowledge time).                                *)
NoHindsight ==
    \A past \in journal :
        /\ past.filings \subseteq Selected(checkpoints) => FactsAt(past.at) = past.facts
        /\ IdentitiesAt(past.at) = past.identities
        /\ TickersAt(past.at) = past.tickers

(* A row and its correction never both count for an owner, whichever of them    *)
(* arrives first, and whether or not the amendment can be linked:              *)
(* economic_events supersedes the original or blocks the issuer.               *)
CountedOnce ==
    LET counted == {e \in View.events : e.eligible}
    IN  \A e, f \in counted :
            ~\E d \in Filed : /\ d.accession = f.key[1] /\ d.corrects = e.key[1]
                              /\ f.key[2] = e.key[2] /\ f.key[3] = e.key[3]
                              /\ e.owners \intersect f.owners # {}

(* A window labelled complete holds every priced purchase of common stock that  *)
(* the SEC days of the window list, but for the rows that an amendment known by *)
(* now replaces for every owner, and no purchase that one filed in the window   *)
(* replaces: a filing that failed, was quarantined in part or is an unlinked    *)
(* amendment takes the label away (_basis, DayEvidence).  So does a history     *)
(* that is handed on hold every row of every owner of its days.                 *)
Shares == "NON_DERIVATIVE"
CikOf(d) == {d.owners[o].cik : o \in 1..Len(d.owners)}
RowsFiled(d, table) == 1..Len(d.rows[table])

Dated(row) == row.date \notin {None, Bad} /\ row.date <= clock
Purchase(row) ==
    /\ Dated(row) /\ row.date >= clock - Window + 1
    /\ row.code = "P" /\ row.side = "A"
    /\ row.shares \notin {None, 0} /\ row.price \notin {None, 0}   \* a number, legible or not
    /\ CommonTitle(row.title) /\ ~ExcludedTitle(row.title)

Replaces(q, d, n, owner) ==
    /\ q.corrects = d.accession /\ q.cik = d.cik /\ owner \in CikOf(q)
    /\ n \in RowsFiled(q, Shares) /\ Dated(q.rows[Shares][n])

Standing(cik, listed, corrections) ==
    UNION {{<<d.accession, Shares, n>> :
              n \in {m \in RowsFiled(d, Shares) :
                       /\ Purchase(d.rows[Shares][m])
                       /\ \E owner \in CikOf(d) : ~\E q \in corrections : Replaces(q, d, m, owner)}} :
           d \in {f \in listed : f.cik = cik}}

CompleteIsComplete ==
    LET view == View
        start == clock - Window + 1
        filed == {d \in Filed : d.day \in ExpectedDays}
        lately == {d \in filed : d.day >= start}
        Counted(cik) == {e.key : e \in {q \in view.events :
                                          q.cik = cik /\ q.eligible /\ q.code = "P" /\ q.date >= start}}
    IN  /\ \A cik \in DOMAIN view.basis : view.basis[cik].coverage = "COMPLETE" =>
              /\ Standing(cik, lately, filed) \subseteq Counted(cik)
              /\ Counted(cik) \subseteq Standing(cik, filed, lately)
        /\ HistoryReasons(checkpoints, ExpectedDays, clock) = {} =>
              UNION {{<<d.accession, owner, table, n>> : owner \in CikOf(d), n \in RowsFiled(d, table)} :
                        d \in filed, table \in TableTypes}
                = {<<r.accession, r.owner, r.table, r.seq>> : r \in History}

(* The public identity history only grows: a run that is lost half-way through  *)
(* persist leaves the previous history the latest readable one.                 *)
IdentityHistoryGrows == [][Latest \subseteq Latest']_evidenceVars

=============================================================================
