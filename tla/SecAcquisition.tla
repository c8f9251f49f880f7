---------------------------- MODULE SecAcquisition ----------------------------
(***************************************************************************)
(* The durable acquisition of the SEC's daily indexes: acquire_range       *)
(* (pipeline/sec_acquisition.py) restores the newest checkpoint of a day   *)
(* from the GitHub releases, ingests what is missing within its budgets    *)
(* (ingestion/sec/daily_history.py) and publishes the result as one more   *)
(* immutable release (ingestion/sec/release_store.py). An operator may     *)
(* repair the quarantined filings of a day (repair_amounts.py).            *)
(*                                                                         *)
(* A checkpoint is a value and a release is identified by its content: its *)
(* tag is the hash. A run lists the releases once, so that what others     *)
(* publish meanwhile is not in its view.                                   *)
(***************************************************************************)
EXTENDS Integers, Sequences, FiniteSets

CONSTANTS
  Days,         \* published index days
  Filings,      \* accessions, in the order of the index
  Day,          \* Day[f], the day in whose index it is
  Malformed,    \* filings the parser quarantines
  Mendable,     \* those whose rows a repair recovers
  Runners,      \* processes that acquire or repair
  Group,        \* those of the workflow, never started beside one another
  None,         \* no checkpoint
  MaxDays,      \* --max-days
  MaxFilings,   \* --max-filings
  MaxTime,      \* bound on the clock
  MaxFaults,    \* bound on faults, see there
  MaxRevisions, \* bound on the revisions of one index
  MaxOld        \* bound on the old parser's uploads of one day

ASSUME DaysAssumption == Days \subseteq Nat \ {0}
ASSUME FilingsAssumption ==
  /\ Filings \subseteq Nat
  /\ Day \in [Filings -> Days]
  /\ Mendable \subseteq Malformed /\ Malformed \subseteq Filings
ASSUME RunnersAssumption == Group \subseteq Runners
ASSUME BudgetAssumption == MaxDays \in Nat \ {0} /\ MaxFilings \in Nat \ {0}
ASSUME BoundsAssumption ==
  /\ MaxTime \in Nat \ {0} /\ MaxFaults \in Nat /\ MaxRevisions \in Nat /\ MaxOld \in Nat

VARIABLES
  clock,     \* the instant a filing fetched now is observed at
  faults,    \* errors, deadlines, lost runs, revised indexes, old uploads so far
  index,     \* index[d]: the version the SEC serves
  releases,  \* releases[d]: those of the day in the order of their ids
  pc,        \* what a runner does next
  view,      \* of the releases of d its inventory has 1..view[r][d]
  newest,    \* newest_first
  todo,      \* days of its range it has not come to
  day,       \* the day it is at, 0 for none
  tried,     \* attempted_days
  base,      \* the checkpoint it restored
  work,      \* the checkpoint it is going to persist
  report     \* acquisition-status.json

local == <<pc, view, newest, todo, day, tried, base, work, report>>
vars  == <<clock, faults, index, releases, local>>

\* A stored filing keeps the instant it was observed at.
Kept     == {"CLEAN", "QUARANTINED", "REPAIRED"}
Failed   == {"PENDING", "ERROR"}
Statuses == {"ABSENT"} \cup Failed \cup Kept
Rows     == [Filings -> [status : Statuses, at : 0..MaxTime]]
Row(s, t) == [status |-> s, at |-> t]

\* `old`: the parser version of the namespace sec-day-v1.
Checkpoints == [day : Days, old : BOOLEAN, index : 0..MaxRevisions, rows : Rows]
Releases    == [of : Checkpoints, draft : BOOLEAN]

ASSUME NoneAssumption == None \notin Checkpoints

Of(d) == {f \in Filings : Day[f] = d}
Stored(c, f) == c.rows[f].status \in Kept
Whole(c) == \A f \in Of(c.day) : Stored(c, f)             \* no failures
Clean(c) == \A f \in Of(c.day) : c.rows[f].status \in {"CLEAN", "REPAIRED"}

Entries  == {"none", "DEFERRED", "FAILED", "STORED", "ACQUIRED"}
Verified == {"STORED", "ACQUIRED"}
Nothing  == [d \in Days |-> 0]
NoReport == [status |-> "INCOMPLETE", range |-> {}, entry |-> [d \in Days |-> "none"]]

TypeOK ==
  /\ clock \in 1..MaxTime
  /\ faults \in 0..MaxFaults
  /\ index \in [Days -> 0..MaxRevisions]
  /\ releases \in [Days -> Seq(Releases)]
  /\ pc \in [Runners -> {"idle", "day", "ingest", "replay", "persist"}]
  /\ view \in [Runners -> [Days -> Nat]]
  /\ \A r \in Runners, d \in Days : view[r][d] <= Len(releases[d])
  /\ newest \in [Runners -> BOOLEAN]
  /\ todo \in [Runners -> SUBSET Days]
  /\ day \in [Runners -> Days \cup {0}]
  /\ tried \in [Runners -> 0..MaxDays]
  /\ base \in [Runners -> Checkpoints \cup {None}]
  /\ work \in [Runners -> Checkpoints \cup {None}]
  /\ report \in [Runners -> [status : {"INCOMPLETE", "VERIFIED", "ACQUIRED"},
                             range : SUBSET Days, entry : [Days -> Entries]]]

Parsed(f) == IF f \in Malformed THEN "QUARANTINED" ELSE "CLEAN"

Init ==
  /\ clock = 1 /\ faults = 0
  /\ index = [d \in Days |-> 0]
  /\ releases = [d \in Days |-> <<>>]
  /\ pc = [r \in Runners |-> "idle"]
  /\ view = [r \in Runners |-> Nothing]
  /\ newest = [r \in Runners |-> FALSE]
  /\ todo = [r \in Runners |-> {}]
  /\ day = [r \in Runners |-> 0]
  /\ tried = [r \in Runners |-> 0]
  /\ base = [r \in Runners |-> None]
  /\ work = [r \in Runners |-> None]
  /\ report = [r \in Runners |-> NoReport]

Working(r) == pc[r] # "idle"

\* The runner stops: what the store has and the status of its report stay.
Stop(r, status, range) ==
  /\ report' = [report EXCEPT ![r] = [NoReport EXCEPT !.status = status, !.range = range]]
  /\ pc' = [pc EXCEPT ![r] = "idle"]
  /\ view' = [view EXCEPT ![r] = Nothing]
  /\ newest' = [newest EXCEPT ![r] = FALSE]
  /\ todo' = [todo EXCEPT ![r] = {}]
  /\ day' = [day EXCEPT ![r] = 0]
  /\ tried' = [tried EXCEPT ![r] = 0]
  /\ base' = [base EXCEPT ![r] = None]
  /\ work' = [work EXCEPT ![r] = None]

\* An error, a passed deadline, a lost run, a revised index or an upload of the
\* old parser, as long as there may be more.
Fault == faults < MaxFaults /\ faults' = faults + 1

-----------------------------------------------------------------------------
(* The release store *)

\* Mutant: the largest id, whatever its namespace.
LatestById(d, n) ==
  LET ids == {i \in 1..n : ~releases[d][i].draft}
  IN IF ids = {} THEN None
     ELSE releases[d][CHOOSE i \in ids : \A j \in ids : j <= i].of

\* latest: the newest published release of a day among the first n, those of
\* the old parser only when there is no other.
Latest(d, n) ==
  LET ids == {i \in 1..n : ~releases[d][i].draft}
      new == {i \in ids : ~releases[d][i].of.old}
      best == IF new # {} THEN new ELSE ids
  IN IF ids = {} THEN None
     ELSE releases[d][CHOOSE i \in best : \A j \in best : j <= i].of

Inventory == [d \in Days |-> Len(releases[d])]
Published(d) == Latest(d, Inventory[d])

Create(c, draft) ==
  releases' = [releases EXCEPT ![c.day] = Append(@, [of |-> c, draft |-> draft])]

Exists(c) == \E i \in 1..Inventory[c.day] :
               releases[c.day][i].of = c /\ ~releases[c.day][i].draft

\* The outcome of `gh release create`: a release with its asset, a draft
\* without, or nothing. A tag is published once.
Created(c) ==
  /\ ~Exists(c)
  /\ Create(c, FALSE)

\* The entry of the day the runner is at.
Note(r, e) ==
  /\ report' = [report EXCEPT ![r].entry[day[r]] = e]
  /\ pc' = [pc EXCEPT ![r] = "day"]
  /\ day' = [day EXCEPT ![r] = 0]
  /\ base' = [base EXCEPT ![r] = None]
  /\ work' = [work EXCEPT ![r] = None]

\* Mutant: a command that failed is not noticed.
LostUnheard(r) == Fault /\ Note(r, "ACQUIRED") /\ UNCHANGED releases

\* A command failed and nothing came of it: the day fails.
Lost(r) == Fault /\ Note(r, "FAILED") /\ UNCHANGED releases

\* persist: what the inventory has is verified again, a draft of it is an
\* error; otherwise it is created and read back. Any error fails the day.
Persist(r) ==
  LET c == work[r]
      known == {i \in 1..view[r][c.day] : releases[c.day][i].of = c}
  IN
  /\ pc[r] = "persist"
  /\ \/ /\ \E i \in known : ~releases[c.day][i].draft
        /\ Note(r, IF Clean(c) THEN "ACQUIRED" ELSE "STORED")
        /\ UNCHANGED <<releases, faults>>
     \/ /\ \E i \in known : releases[c.day][i].draft
        /\ Note(r, "FAILED") /\ UNCHANGED <<releases, faults>>
     \/ /\ known = {} /\ Created(c)
        /\ Note(r, IF Clean(c) THEN "ACQUIRED" ELSE "STORED")
        /\ UNCHANGED faults
     \/ /\ known = {}
        /\ Created(c) \/ (~Exists(c) /\ Create(c, TRUE))
        /\ Fault /\ Note(r, "FAILED")
     \/ /\ known = {} /\ Exists(c) /\ Note(r, "FAILED") /\ UNCHANGED <<releases, faults>>
     \/ Lost(r)
  /\ UNCHANGED <<clock, index, view, newest, todo, tried>>

-----------------------------------------------------------------------------
(* acquire_range *)

\* A run may begin when nobody of its group is at work.
MayBegin(r) == ~Working(r) /\ (r \in Group => \A s \in Group : ~Working(s))

\* The days of the range are discovered and the releases are listed; without
\* the SEC's directory the report stays INCOMPLETE.
Begin(r, range) ==
  /\ MayBegin(r)
  /\ \/ /\ pc' = [pc EXCEPT ![r] = "day"]
        /\ view' = [view EXCEPT ![r] = Inventory]
        /\ newest' \in {[newest EXCEPT ![r] = b] : b \in BOOLEAN}
        /\ todo' = [todo EXCEPT ![r] = range]
        /\ report' = [report EXCEPT ![r] = [NoReport EXCEPT !.range = range]]
        /\ UNCHANGED <<faults, day, tried, base, work>>
     \/ Fault /\ Stop(r, "INCOMPLETE", {})
  /\ UNCHANGED <<clock, index, releases>>

\* The next day, oldest or newest first.
IsNext(r, d) ==
  /\ d \in todo[r]
  /\ \A e \in todo[r] : IF newest[r] THEN e <= d ELSE d <= e

\* Mutant: a day with quarantined filings is acquired again.
ReusedClean(c) == c # None /\ Clean(c)

\* A day whose filings were all fetched needs no request, even if some of them
\* are quarantined.
Reused(c) == c # None /\ Whole(c)

Spent(r) == tried[r] >= MaxDays

\* The next day of the range: deferred, failed, reused as it is, or begun.
Look(r) ==
  /\ pc[r] = "day"
  /\ \E d \in todo[r] :
       LET c == Latest(d, view[r][d])
           skip(e) == /\ report' = [report EXCEPT ![r].entry[d] = e]
                      /\ UNCHANGED <<pc, day, tried, base, work>>
           revised == c # None /\ c.index # index[d]
       IN
       /\ IsNext(r, d)
       /\ todo' = [todo EXCEPT ![r] = @ \ {d}]
       /\ \/ Fault /\ \E e \in {"DEFERRED", "FAILED"} : skip(e)
          \/ revised /\ skip("FAILED") /\ UNCHANGED faults
          \/ ~revised /\ ~Reused(c) /\ Spent(r) /\ skip("DEFERRED") /\ UNCHANGED faults
          \/ /\ ~revised /\ Reused(c)
             /\ day' = [day EXCEPT ![r] = d]
             /\ work' = [work EXCEPT ![r] = c]
             /\ pc' = [pc EXCEPT ![r] = "persist"]
             /\ UNCHANGED <<faults, tried, base, report>>
          \/ /\ ~revised /\ ~Reused(c) /\ ~Spent(r)
             /\ day' = [day EXCEPT ![r] = d]
             /\ tried' = [tried EXCEPT ![r] = @ + 1]
             /\ base' = [base EXCEPT ![r] = c]
             /\ pc' = [pc EXCEPT ![r] = "ingest"]
             /\ UNCHANGED <<faults, work, report>>
  /\ UNCHANGED <<clock, index, releases, view, newest>>

\* The filings of a day that have to be fetched.
Missing(d, c) == {f \in Of(d) : c = None \/ ~Stored(c, f)}

\* The rows of a day after the filings of `batch` were requested: what was
\* stored keeps its instant, what was not requested is pending.
Ingested(d, c, batch, failed) ==
  [f \in Filings |->
     IF f \notin Of(d) THEN Row("ABSENT", 0)
     ELSE IF f \notin Missing(d, c) THEN c.rows[f]
     ELSE IF f \in failed THEN Row("ERROR", 0)
     ELSE IF f \in batch THEN Row(Parsed(f), clock) ELSE Row("PENDING", 0)]

\* The first of the missing filings, as many as the budget allows.
Batches(d, c) ==
  {batch \in SUBSET Missing(d, c) :
     /\ Cardinality(batch) <= MaxFilings
     /\ \A f \in batch, g \in Missing(d, c) \ batch : f < g}
Full(d, c, batch) == batch = Missing(d, c) \/ Cardinality(batch) = MaxFilings

\* restore_checkpoint, ingest_day and build_checkpoint.
Ingest(r) ==
  LET d == day[r]
      c == base[r]
  IN
  /\ pc[r] = "ingest"
  /\ \/ \E batch \in Batches(d, c) : \E failed \in SUBSET batch :
          /\ IF failed = {} /\ Full(d, c, batch) THEN UNCHANGED faults ELSE Fault
          /\ work' = [work EXCEPT ![r] =
               [day |-> d, old |-> FALSE, index |-> IF c = None THEN index[d] ELSE c.index,
                rows |-> Ingested(d, c, batch, failed)]]
          /\ pc' = [pc EXCEPT ![r] = "persist"]
          /\ UNCHANGED <<day, base, report>>
     \/ Fault /\ Note(r, "FAILED")
  /\ UNCHANGED <<clock, index, releases, view, newest, todo, tried>>

\* The status of the report: nothing was deferred, everything is stored.
Finish(r) ==
  LET rep == report[r]
      all(S) == \A d \in rep.range : rep.entry[d] \in S
  IN
  /\ pc[r] = "day" /\ todo[r] = {} /\ rep.range # {}
  /\ IF all({"ACQUIRED"}) THEN Stop(r, "ACQUIRED", rep.range)
     ELSE IF all(Verified) THEN Stop(r, "VERIFIED", rep.range)
     ELSE Stop(r, "INCOMPLETE", {})
  /\ UNCHANGED <<clock, faults, index, releases>>

-----------------------------------------------------------------------------
(* repair_amounts, by an operator *)

BeginRepair(r, d) ==
  /\ MayBegin(r)
  /\ Published(d) # None
  /\ pc' = [pc EXCEPT ![r] = "replay"]
  /\ day' = [day EXCEPT ![r] = d]
  /\ base' = [base EXCEPT ![r] = Published(d)]
  /\ view' = [view EXCEPT ![r] = Inventory]
  /\ report' = [report EXCEPT ![r] = NoReport]
  /\ UNCHANGED <<clock, faults, index, releases, newest, todo, tried, work>>

\* The rows of the quarantined filings a repair may recover are recovered, all
\* of them or none; the instant of the others is kept.
Replay(r) ==
  LET c == base[r]
      candidates == {f \in Mendable : c.rows[f].status = "QUARANTINED"}
  IN
  /\ pc[r] = "replay"
  /\ \/ /\ candidates # {} => c.index = index[day[r]]
        /\ work' = [work EXCEPT ![r] =
             IF candidates = {} THEN c
             ELSE [c EXCEPT !.old = FALSE,
                            !.rows = [f \in Filings |->
                              IF f \in candidates THEN Row("REPAIRED", c.rows[f].at)
                              ELSE c.rows[f]]]]
        /\ pc' = [pc EXCEPT ![r] = "persist"]
        /\ UNCHANGED <<faults, view, newest, todo, day, tried, base, report>>
     \/ candidates # {} /\ c.index # index[day[r]] /\ Stop(r, "INCOMPLETE", {}) /\ UNCHANGED faults
     \/ Fault /\ Stop(r, "INCOMPLETE", {})
  /\ UNCHANGED <<clock, index, releases>>

\* A repair has no report of its own.
FinishRepair(r) ==
  /\ pc[r] = "day" /\ report[r].range = {}
  /\ Stop(r, "INCOMPLETE", {})
  /\ UNCHANGED <<clock, faults, index, releases>>

-----------------------------------------------------------------------------
(* The rest of the world *)

\* The run is lost anywhere, between its writes of the report.
Crash(r) ==
  /\ Working(r)
  /\ Fault
  /\ Stop(r, "INCOMPLETE", {})
  /\ UNCHANGED <<clock, index, releases>>

\* The old parser, which knows of the old namespace only, extends a day.
OldUpload(d) ==
  LET old == {i \in 1..Len(releases[d]) : releases[d][i].of.old}
      c == IF old = {} THEN None
           ELSE releases[d][CHOOSE i \in old : \A j \in old : j <= i].of
  IN
  /\ \A r \in Group : ~Working(r)
  /\ Cardinality(old) < MaxOld
  /\ c # None => c.index = index[d]
  /\ \E batch \in Batches(d, c) \ {{}} :
       Create([day |-> d, old |-> TRUE, index |-> index[d],
               rows |-> Ingested(d, c, batch, {})], FALSE)
  /\ Fault
  /\ UNCHANGED <<clock, index, local>>

\* The SEC replaces an archived index.
Revise(d) ==
  /\ index[d] < MaxRevisions
  /\ index' = [index EXCEPT ![d] = @ + 1]
  /\ Fault
  /\ UNCHANGED <<clock, releases, local>>

Tick ==
  /\ clock < MaxTime
  /\ clock' = clock + 1
  /\ UNCHANGED <<faults, index, releases, local>>

-----------------------------------------------------------------------------
Step(r) == Look(r) \/ Ingest(r) \/ Replay(r) \/ Persist(r) \/ Finish(r) \/ FinishRepair(r)

Next ==
  \/ \E r \in Runners :
       \/ \E range \in SUBSET Days \ {{}} : Begin(r, range)
       \/ \E d \in Days : BeginRepair(r, d)
       \/ Step(r) \/ Crash(r)
  \/ \E d \in Days : OldUpload(d) \/ Revise(d)
  \/ Tick

Spec == Init /\ [][Next]_vars

\* A started run goes on, and the schedule comes to its turn again and again
\* (`queue: max`) with a range of all the days.
FairSpec ==
  /\ Spec
  /\ \A r \in Runners : WF_vars(Step(r)) /\ SF_vars(Begin(r, Days))

-----------------------------------------------------------------------------
(* What the acquisition promises *)

\* Progress is never lost: from one newest checkpoint of a day to the next, a
\* stored filing stays stored with the instant it was first observed at, a
\* repaired one stays repaired, and the version of the index stays the same,
\* whichever uploads fail, are not heard of or come from the old parser.
ProgressKept ==
  [][\A d \in Days : Published(d) # None =>
       /\ Published(d)' # None
       /\ Published(d)'.index = Published(d).index
       /\ \A f \in Of(d) : Stored(Published(d), f) =>
            /\ Published(d)'.rows[f].at = Published(d).rows[f].at
            /\ Published(d)'.rows[f].status \in {Published(d).rows[f].status, "REPAIRED"}]_vars

\* durable-sec-acquisition.md: "storageStatus: VERIFIED means every selected
\* day's checkpoint is durable and read-back verified. acquisitionStatus:
\* ACQUIRED additionally requires no pending, failed or quarantined rows."
\* Said of what the store has when the run is over.
ReportIsTrue ==
  LET clean(d) == Published(d) # None /\ Clean(Published(d)) IN
  \A r \in Runners :
    /\ report[r].status # "INCOMPLETE" =>
         report[r].range # {} /\ \A d \in report[r].range : Published(d) # None
    /\ report[r].status = "ACQUIRED" => \A d \in report[r].range : clean(d)
    /\ \A d \in Days : report[r].entry[d] = "ACQUIRED" => clean(d)

\* Once the faults cease, the scheduled runs, within their budgets, come to store
\* every filing of every day of their range, unless the index of the day was revised, a draft of it is in
\* the way, or so many days have such drafts that they use up the attempts of
\* every run (durable-sec-acquisition.md has an operator for the first two).
Blocked == {d \in Days : \E i \in 1..Len(releases[d]) : releases[d][i].draft}
EverythingStored ==
  \A f \in Filings :
    LET d == Day[f] IN
    <>[](\/ Published(d) # None /\ Stored(Published(d), f)
         \/ index[d] > 0
         \/ d \in Blocked
         \/ Cardinality(Blocked) >= MaxDays)

=============================================================================
