---------------------------- MODULE ResearchState ----------------------------
(***************************************************************************)
(* The daily research run and the company states it keeps: pages.yml       *)
(* restores the branch `state`, pipeline/daily_research.py scores every    *)
(* company that has SEC events, archives the snapshot as a release, and    *)
(* state_store sync pushes prior-states.json; then the site is deployed.   *)
(* A company's state moves by scoring/state_machine.py.                    *)
(*                                                                         *)
(* The workflows share one concurrency group, so one run holds the group   *)
(* at a time. A runner that GitHub gave up on no longer holds it, and may  *)
(* go on archiving and pushing beside the next run.                        *)
(***************************************************************************)
EXTENDS Integers, FiniteSets

CONSTANTS
  Issuers,      \* companies, by CIK
  Facts,        \* what a day's complete data may say of a company
  Runners,      \* machines that run the job
  Nobody,       \* no machine
  MaxSessions,  \* bound: market sessions that close
  MaxRuns,      \* bound: runs started
  MaxDisturbances \* bound: commits of other jobs, and machines lost

Falling   == 0
Confirmed == 4
Levels    == Falling..Confirmed     \* CompanyState, in ORDER
Unknown   == -1                     \* the published state "UNKNOWN"
Missing   == -2                     \* no row in the published snapshot

\* low: new_52_week_low. holds: the states whose predicate is true.
ASSUME FactsAssumption == Facts \subseteq [low : BOOLEAN, holds : SUBSET Levels]
ASSUME RunnersAssumption == Nobody \notin Runners
ASSUME BoundsAssumption ==
  MaxSessions \in Nat /\ MaxRuns \in Nat /\ MaxDisturbances \in Nat

VARIABLES
  now,       \* the latest closed session
  head,      \* number of commits on the branch `state`
  disturbed, \* commits of other jobs and machines lost, so far
  branch,    \* its prior-states.json and the snapshot watermarks.json names
  archive,   \* the archived snapshots: the run and its published rows
  site,      \* the deployed rows, with the session of each
  started,   \* number of runs started
  active,    \* the machine that holds the concurrency group
  pc,        \* what each machine does next
  run,       \* the run a machine works on
  expected,  \* the head it restored
  prior,     \* the states it restored
  result,    \* the states it computed
  rows       \* the rows it computed

vars == <<now, head, disturbed, branch, archive, site, started, active, pc, run,
          expected, prior, result, rows>>

\* A record of prior-states.json; `known` is FALSE when there is none.
Records == [known : BOOLEAN, level : Levels, failed : {0, 1}, established : BOOLEAN,
            last : Nat, changed : Nat]
NoRecord == [known |-> FALSE, level |-> Falling, failed |-> 0, established |-> FALSE,
             last |-> 0, changed |-> 0]

NoStates == [c \in Issuers |-> NoRecord]

Shown == Levels \cup {Unknown, Missing}

NoRows == [c \in Issuers |-> Missing]

\* What a run sees of a company: no event in the window; events, none of
\* which may be scored; a scoring row held for missing data; complete data.
Observations == [kind : {"ABSENT", "UNSCORED", "STALE", "COMPLETE"}, facts : Facts]

TypeOK ==
  /\ now \in Nat /\ head \in Nat /\ disturbed \in Nat /\ started \in Nat
  /\ branch \in [states : [Issuers -> Records], snapshot : Nat]
  /\ archive \subseteq [run : Nat, shown : [Issuers -> Shown]]
  /\ site \in [shown : [Issuers -> Shown], last : [Issuers -> Nat]]
  /\ active \in Runners \cup {Nobody}
  /\ pc \in [Runners -> {"idle", "restored", "scored", "archived", "pushed"}]
  /\ run \in [Runners -> Nat]
  /\ expected \in [Runners -> Nat]
  /\ prior \in [Runners -> [Issuers -> Records]]
  /\ result \in [Runners -> [Issuers -> Records]]
  /\ rows \in [Runners -> [Issuers -> Shown]]

Init ==
  /\ now = 1 /\ head = 0 /\ disturbed = 0 /\ started = 0
  /\ branch = [states |-> NoStates, snapshot |-> 0]
  /\ archive = {}
  /\ site = [shown |-> NoRows, last |-> [c \in Issuers |-> 0]]
  /\ active = Nobody
  /\ pc = [r \in Runners |-> "idle"]
  /\ run = [r \in Runners |-> 0]
  /\ expected = [r \in Runners |-> 0]
  /\ prior = [r \in Runners |-> NoStates]
  /\ result = [r \in Runners |-> NoStates]
  /\ rows = [r \in Runners |-> NoRows]

------------------------------------------------------------------------------
(* Scoring one company.                                                     *)

\* An evaluation that fails: the first is held, the second steps down.
Failed(prev) ==
  IF prev.failed + 1 < 2
  THEN [level |-> prev.level, failed |-> prev.failed + 1]
  ELSE [level |-> prev.level - 1, failed |-> 0]

\* StateMachine.evaluate: the new state and the count of failures. The
\* pipeline always supplies the baseline facts of FALLING, so FALLING is held
\* when its predicate fails and an evaluation fails in a higher state only.
Evaluated(prev, facts) ==
  IF facts.low
  THEN [level |-> Falling, failed |-> 0]
  ELSE IF prev.level = Falling /\ Falling \notin facts.holds
  THEN [level |-> prev.level, failed |-> prev.failed]
  ELSE IF prev.level + 1 \in facts.holds
  THEN [level |-> prev.level + 1, failed |-> 0]
  ELSE IF prev.level \in facts.holds
  THEN [level |-> prev.level, failed |-> 0]
  ELSE Failed(prev)

\* The record of a company with complete data: the evaluation merged into the
\* record before it, whether its state was ever observed, and its dates.
Updated(prev, facts, session) ==
  LET new == Evaluated(prev, facts) IN
  [known |-> TRUE, level |-> new.level, failed |-> new.failed,
   established |-> \/ prev.established
                   \/ new.level # Falling
                   \/ Falling \in facts.holds,
   last |-> session,
   changed |-> IF prev.known /\ prev.level # new.level THEN session ELSE prev.changed]

Reused(prev, o, session) == o.kind # "ABSENT" /\ prev.last = session
Withheld(o) == o.kind \in {"UNSCORED", "STALE"}

\* Mutant: a session that is run again is evaluated again.
NextRecordAgain(prev, o, session) ==
  IF Withheld(o) /\ prev.established THEN prev
  ELSE IF o.kind = "COMPLETE" THEN Updated(prev, o.facts, session)
  ELSE [prev EXCEPT !.known = (@ \/ o.kind = "STALE")]

\* The record the run leaves: a company evaluated in this session already, and
\* an established one without data, keep theirs as it is. A stale row is
\* merged into the record before it, which keeps the count of failures.
NextRecord(prev, o, session) ==
  IF Reused(prev, o, session) \/ (Withheld(o) /\ prev.established) THEN prev
  ELSE IF o.kind = "COMPLETE" THEN Updated(prev, o.facts, session)
  ELSE [prev EXCEPT !.known = (@ \/ o.kind = "STALE")]

\* The state the snapshot shows of a record.
Display(rec) == IF rec.established THEN rec.level ELSE Unknown

\* Mutant: the row of a session that is run again shows the new evaluation.
RowAgain(prev, o, session) ==
  IF o.kind = "ABSENT" THEN Missing
  ELSE IF Withheld(o) /\ prev.established THEN prev.level
  ELSE IF o.kind = "COMPLETE" THEN Display(Updated(prev, o.facts, session)) ELSE Unknown

\* The row of the snapshot, in the order the code overwrites it: the score's
\* state, then a reused session, then a hold.
Row(prev, o, session) ==
  LET scored == IF o.kind = "COMPLETE" THEN Display(Updated(prev, o.facts, session))
                ELSE Unknown
      again  == IF Reused(prev, o, session) THEN Display(prev) ELSE scored
  IN  IF o.kind = "ABSENT" THEN Missing
      ELSE IF Withheld(o) /\ prev.established THEN prev.level ELSE again

------------------------------------------------------------------------------
(* The job.                                                                 *)

\* A machine takes the group and restores the branch.
Start(r) ==
  /\ active = Nobody /\ pc[r] = "idle" /\ started < MaxRuns
  /\ active' = r
  /\ started' = started + 1
  /\ run' = [run EXCEPT ![r] = started']
  /\ expected' = [expected EXCEPT ![r] = head]
  /\ prior' = [prior EXCEPT ![r] = branch.states]
  /\ pc' = [pc EXCEPT ![r] = "restored"]
  /\ UNCHANGED <<now, head, disturbed, branch, archive, site, result, rows>>

\* materialize_research, at the session that is closed by then.
Score(r) ==
  /\ pc[r] = "restored"
  /\ \E seen \in [Issuers -> Observations] :
       /\ result' = [result EXCEPT ![r] =
            [c \in Issuers |-> NextRecord(prior[r][c], seen[c], now)]]
       /\ rows' = [rows EXCEPT ![r] = [c \in Issuers |-> Row(prior[r][c], seen[c], now)]]
  /\ pc' = [pc EXCEPT ![r] = "scored"]
  /\ UNCHANGED <<now, head, disturbed, branch, archive, site, started, active, run,
                 expected, prior>>

\* ResearchArchive.publish, release and read-back. A run that dies after the
\* release is created is Archive and then Fail.
Archive(r) ==
  /\ pc[r] = "scored"
  /\ archive' = archive \cup {[run |-> run[r], shown |-> rows[r]]}
  /\ pc' = [pc EXCEPT ![r] = "archived"]
  /\ UNCHANGED <<now, head, disturbed, branch, site, started, active, run, expected,
                 prior, result, rows>>

\* Mutant: the state is committed before the snapshot is archived.
PushUnarchived(r) ==
  /\ pc[r] \in {"scored", "archived"} /\ head = expected[r]
  /\ head' = head + 1
  /\ branch' = [states |-> result[r], snapshot |-> run[r]]
  /\ pc' = [pc EXCEPT ![r] = "pushed"]
  /\ UNCHANGED <<now, disturbed, archive, site, started, active, run, expected, prior,
                 result, rows>>

\* state_store sync commits the states and the watermarks on the restored head.
\* A push that is accepted while the job never learns of it is Push and Fail.
Push(r) ==
  /\ pc[r] = "archived" /\ head = expected[r]
  /\ head' = head + 1
  /\ branch' = [states |-> result[r], snapshot |-> run[r]]
  /\ pc' = [pc EXCEPT ![r] = "pushed"]
  /\ UNCHANGED <<now, disturbed, archive, site, started, active, run, expected, prior,
                 result, rows>>

\* The job ends: its working files go with the machine.
Clean(r) ==
  /\ pc' = [pc EXCEPT ![r] = "idle"]
  /\ run' = [run EXCEPT ![r] = 0]
  /\ expected' = [expected EXCEPT ![r] = 0]
  /\ prior' = [prior EXCEPT ![r] = NoStates]
  /\ result' = [result EXCEPT ![r] = NoStates]
  /\ rows' = [rows EXCEPT ![r] = NoRows]
  /\ active' = IF active = r THEN Nobody ELSE active

\* A step raises, the job times out, or sync refuses a branch that moved.
Fail(r) ==
  /\ pc[r] # "idle"
  /\ Clean(r)
  /\ UNCHANGED <<now, head, disturbed, branch, archive, site, started>>

\* GitHub loses the machine: the group is free, the machine goes on.
Lose(r) ==
  /\ active = r /\ disturbed < MaxDisturbances
  /\ disturbed' = disturbed + 1
  /\ active' = Nobody
  /\ UNCHANGED <<now, head, branch, archive, site, started, pc, run, expected,
                 prior, result, rows>>

\* The deploy job needs the build job, which ended in the group. An operator's
\* re-run of the deploy job of an older run is left out.
Deploy(r) ==
  /\ pc[r] = "pushed" /\ active = r
  /\ site' = [shown |-> rows[r], last |-> [c \in Issuers |-> result[r][c].last]]
  /\ Clean(r)
  /\ UNCHANGED <<now, head, disturbed, branch, archive, started>>

\* Another job commits its files: a claim, a receipt, a cursor.
OtherCommit ==
  /\ disturbed < MaxDisturbances
  /\ disturbed' = disturbed + 1
  /\ head' = head + 1
  /\ UNCHANGED <<now, branch, archive, site, started, active, pc, run, expected,
                 prior, result, rows>>

CloseSession ==
  /\ now < MaxSessions
  /\ now' = now + 1
  /\ UNCHANGED <<head, disturbed, branch, archive, site, started, active, pc, run,
                 expected, prior, result, rows>>

Next ==
  \/ \E r \in Runners : \/ Start(r) \/ Score(r) \/ Archive(r) \/ Push(r)
                        \/ Fail(r) \/ Lose(r) \/ Deploy(r)
  \/ OtherCommit
  \/ CloseSession

Spec == Init /\ [][Next]_vars

------------------------------------------------------------------------------
(* What the runs promise.                                                   *)

\* However often a session is run, whichever run dies where, and whatever a
\* lost machine still pushes, the states on the branch move as one evaluation
\* per session moves them: one edge up, or one down after two failed sessions
\* with no session that passed between them; a day without data changes
\* nothing (materialize_research, persist_operational).
H == INSTANCE Hysteresis WITH
       level   <- [c \in Issuers |-> branch.states[c].level],
       doubts  <- [c \in Issuers |-> branch.states[c].failed],
       session <- [c \in Issuers |-> branch.states[c].last],
       since   <- [c \in Issuers |-> branch.states[c].changed]
MovesOncePerSession == H!Spec

\* A reader of the site and the next run agree: a company whose last evaluation
\* is the same on the site and on the branch is shown in the branch's state,
\* or UNKNOWN while no state was ever observed.
SiteAgrees ==
  \A c \in Issuers :
    (site.last[c] = branch.states[c].last /\ site.shown[c] # Missing)
      => site.shown[c] = Display(branch.states[c])

\* A deployment never brings back an older evaluation: the group keeps the
\* deployments in the order of the pushes, and a lost machine deploys nothing.
SiteNeverGoesBack ==
  [][\A c \in Issuers : site'.last[c] >= site.last[c]]_vars

\* "The snapshot must be independently recoverable BEFORE committing score
\* state" (daily_research.main): the snapshot the branch names is archived and
\* shows the states the branch keeps.
StateIsRecoverable ==
  branch.snapshot # 0 =>
    \E a \in archive :
      /\ a.run = branch.snapshot
      /\ \A c \in Issuers : a.shown[c] \in {Missing, Display(branch.states[c])}
==============================================================================
