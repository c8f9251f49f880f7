# insider-turning-engine: specifications and proofs

The engine reads insider filings from the SEC and prices from market data providers, scores
companies by a five-level state machine, publishes a static site and notifies people. Much of its
code is straight-line conversion that unit tests reach well. What a test hardly reaches is
*history*: an alert that is sent twice because a process died at the wrong moment, a digest whose
claim another job's push took away, a filing the cursor passed by, a correction that arrives late
and counts twice, a backtest that knows tomorrow, a directory that disappears between two renames.
The modules here model the parts that keep such history, the jobs that race on it and the
algorithms that must agree with themselves from day to day. TLC checks them on small instances and
TLAPS proves nearly all of what they promise for every instance.

Paths in this file are relative to `src/insider_turning_engine/` in the repository, unless they
begin with `.github/`, `docs/`, `app/` or `scripts/`.

## 1. The system

There is no server. GitHub Actions start short-lived machines; everything durable is somewhere else.

```
  SEC  --daily index, submissions, quarterly archives-->  ingestion/sec
                       |                                      |
             releases of the repository  <---checkpoints------+      (immutable, content-addressed)
                       |        ^
                       v        +--- identity observations
  prices --> pipeline/daily_research --> snapshot release --> branch `state` --> GitHub Pages
                                                               |      ^
                    digest, notices, recovery, alerts ---------+------+--> Telegram, e-mail

  rows + prices --> features --> scoring --> pipeline/daily --> snapshots/<run>, manifest.json
                       \--> backtest --> sealed report --> gate of the alerts
```

| store | who writes it | who reads it |
| --- | --- | --- |
| SQLite file `alerts.sqlite` | outbox (`send-alerts`), digest, notices, recovery | the same |
| Git branch `state` | `notifications/state_store.py`, from several workflows | every workflow, by a fresh clone |
| releases of the repository | checkpoint, identity and snapshot archives | research runs, recovery |
| cursor file and its published copy | `update-sec`, `daily.yml` | `update-sec` |
| archive cache and partitions on disk | `backfill-sec-history` | candidates, research scripts |
| payload and manifest of each symbol and source | the price refresh | the next refresh |
| `snapshots/<run>` and `manifest.json` | `pipeline/daily.py` | dashboard export, alerts |
| published directory, its backup, the one being built | dashboard export and restore | deployment |
| the deployed site | `pages.yml`, `publication-watchdog.yml` | readers, UI restores, the next recovery |

### Components

**Alert outbox** (`notifications/outbox.py`, `models.py`, `rules.py`).
*State*: tables `candidates`, `deliveries`, `delivery_history`; the open claims of a process.
*Operations*: open and recover abandoned claims, quarantine a corrupt file, put a candidate, claim
(won, in cooldown, contended, settled, after a quarantine), suppress, send through a channel, record
the result, close. *Hard*: several processes on one file, a crash between the provider's answer and
its record, a file that is damaged. *Correct when*: one request per message and ledger, SENT is
true, outcomes are final, cooldowns hold, every claim is settled.

**State branch** (`notifications/state_store.py`) and the jobs on it: **factual digest**
(`digest.py`, `digest_cli.py`), **workflow notices** (`workflow_status.py`), **publication watchdog
and recovery** (`publication_recovery.py`, `publication_watchdog.py`). *State*: the commits of the
branch and each job's clone. *Operations*: restore, claim, push without force, send or authorise,
record, push the result; and the synchronisation of operational files by the daily pipelines.
*Hard*: two jobs from one head, a push that arrives while its answer is lost, stale files pushed
late. *Correct when*: a claim precedes its action and outlives it, days are claimed in order, the
branch only grows.

**SEC incremental ingestion** (`ingestion/sec/incremental.py`, `cli.py`, `.github/workflows/daily.yml`).
*State*: the pending and the published cursor, the run's output, the canonical store. *Operations*:
recover the cursor, list each issuer, select, fetch, write the output, write the cursor, commit,
publish. *Hard*: the SEC goes on listing; one cursor stands for all issuers; a crash between two
writes. *Correct when*: the cursor passes only what was delivered.

**SEC bulk history** (`ingestion/sec/history.py`, `historical.py`). *State*: partial and complete
archives, their manifests, the partitions, directories set aside. *Operations*: request, resume,
install, validate, extract, swap, recover, report. *Hard*: a kill at any point of the directory
swap, resumption over a republished archive. *Correct when*: no partition is lost, recovery is
never ambiguous, what is cached is complete, STAGED is true.

**SEC acquisition** (`pipeline/sec_acquisition.py`, `ingestion/sec/daily_history.py`,
`daily_index.py`, `checkpoint.py`, `release_store.py`, `repair_amounts.py`). *State*: the releases,
each a checkpoint of one day; the report of a run. *Operations*: list the releases, restore the
newest checkpoint, ingest within budgets, build, publish and read back, report; repair of
quarantined filings by an operator. *Hard*: half-failed uploads, revised indexes, old parsers,
operators beside the schedule, budgets. *Correct when*: progress is monotone, observations keep
their instant, reports are true, everything is stored in the end.

**SEC document parsing** (`ingestion/sec/parser.py`, `domain/models.py`) and **amendment
resolution** (`normalization/amendments.py`). *State*: none. *Operations*: refuse or accept a
document, make a canonical row or a quarantine of every row and owner; replay rows in the order
they became known. *Hard*: a document readable only in part, a joint filing that one owner corrects, an amendment before or without the
row it corrects, the same row delivered twice. *Correct when*: a trade and its correction never
both count and nothing unknown at an instant is part of the picture of that instant.

**Identity observations** (`normalization/identity.py`, `pipeline/identity_observations.py`,
`ingestion/sec/identity.py`, `identity_store.py`) and the **research history**
(`pipeline/research_history.py`, `research_snapshot.py`, `sec_history.py`). *State*: the releases
with sharded identity rows, the checkpoints of the SEC days. *Operations*: observe tickers and
submissions, create a draft, upload, publish, verify; choose filings, build events, windows and
clusters. *Hard*: a run lost between the assets of one release, observations that change their
mind, evidence that is incomplete. *Correct when*: the history only grows, a past picture never
changes, "complete" is true.

**Market data providers** (`ingestion/market/`, the price part of `pipeline/daily_research.py`).
*State*: a payload and a manifest per symbol and source, the shards and workers of a refresh.
*Operations*: look into the caches, request, certify, compare the sources, defer, pass again.
*Hard*: a crash between the two files, sources that lag or disagree, a budget that ends. *Correct
when*: what is served was sent and is of the session, a disagreement stands, the passes end.

**Features** (`features/`), **scoring** (`scoring/`, `pipeline/scoring.py`) and the **daily
pipeline** (`pipeline/daily.py`, `live_inputs.py`, `dashboard_input.py`). *State*: prepared inputs,
snapshots, manifests, the scoring lock. *Operations*: prepare, compute, place the snapshot, publish
the manifest, score, decide alerts. *Hard*: filings that arrive late, a run that dies before its
manifest and is repeated under another lock. *Correct when*: what a later run says of an earlier
day is what that day said, the manifest names its snapshot, alerts need a sealed gate.

**Backtest engine** (`backtest/models.py`, `engine.py`, `reporting.py`, `cli.py` backtest).
*State*: the stage and what was opened. *Operations*: enter, price, deduplicate, aggregate, gate.
*Correct when*: nothing looks ahead and every exposure counts once.

**Company states and the daily research run** (`scoring/state_machine.py`,
`pipeline/daily_research.py`, `pipeline/scoring.py`, `pipeline/research_archive.py`,
`.github/workflows/pages.yml`). *State*: `prior-states.json` and `watermarks.json` on the branch,
the archived snapshots, the deployed rows. *Operations*: restore, evaluate or reuse or withhold each
company, archive, push, deploy. *Hard*: a run that dies and is run again in the same session, a
machine GitHub gave up on, missing data. *Correct when*: a state moves once per session, the branch
can be recovered from an archived snapshot, the site agrees with the branch and never goes back.

**Dashboard export** (`export/dashboard.py`, `research_policy.py`, `restore.py`,
`notifications/settings.py`). *State*: the published directory, its backup, the directory being
built, the site, sealed artifacts. *Operations*: write file by file, validate, swap, recover,
restore, attach the settings, gate, deploy. *Hard*: a kill between the two renames, three kinds of
runs that deploy. *Correct when*: a whole publication is always there and the site gets no older.

**Not modelled**: the web application under `app/`, which renders what the export validated and
changes no state, and the one-off studies under `scripts/` and `data/`.

### How components meet

Workflows share the concurrency group `daily-research-pipeline` (`queue: max`, nothing is
cancelled): `daily.yml`, `pages.yml`, `publication-watchdog.yml`, `sec-daily-acquisition.yml`. It
orders their *machines*, not what a machine that was given up on still does, nor a command an
operator types. That is why the modules let a lost runner go on (`ResearchState!Lose`), let digest
jobs and recoveries interleave freely on the branch (`StateLedger`), and put deployments of another
run beside a local restore (`Publication!OtherDeploy`). What really excludes a second writer is the
unforced push, `BEGIN IMMEDIATE`, or the content address of a release, and each of these is
modelled by what it does. Data flows along the chains of `EXTENDS`: `Evidence` sees documents
through parsing, amendments and identities up to the published facts, and `Daily` sees trades
through features and scores up to the alerts, with the backtest report that gates them.

## 2. The modules

| module | models | builds on / refines |
| --- | --- | --- |
| `AtMostOnceDelivery` | the promise of every claim-before-send ledger: one permit per message, reserved before and spent by the request, and a verdict that is final | abstract |
| `Outbox` | `SQLiteOutbox` and the processes that share its file | implements `AtMostOnceDelivery` |
| `StateLedger` | the branch `state`, its claimants and its synchronisers | implements `AtMostOnceDelivery` |
| `SecCursor` | `update-sec` and the workflow around it | |
| `SecHistory` | `backfill-sec-history` | |
| `SecAcquisition` | `acquire_range`, the release store, `repair_amounts` | |
| `Hysteresis` | the promise of a company's state: one edge per session, down only after two failures | abstract |
| `ResearchState` | a research run from restore to deployment, with `StateMachine.evaluate` | implements `Hysteresis` |
| `Filings` | documents and the canonical rows made of them | |
| `Amendments` | `resolve_amendments`: amendment chains as of an instant | `Filings` |
| `Identity` | issuers, tickers, sectors and what is known of them when | `Filings` |
| `Research` | selected filings, economic events, windows, clusters, the snapshot's facts | `Amendments`, `Identity` |
| `Evidence` | acquisition, identity releases and their crashes, day by day | `Research` |
| `Orders` | days, instants and orders shared by the modules below | |
| `Backtest` | signals, entries, returns, deduplication, statistics, the formal gate | `Orders` |
| `Evaluation` | the `backtest` command: engine, sealed stage, benchmark families, report | `Backtest` |
| `Insiders` | conviction, clusters, opportunistic trades, cost basis, divergence | `Orders` |
| `Technical` | price features, relative strength, technical scores | `Orders` |
| `Scores` | company scores, component weights, the state machine, alert rules | `Insiders`, `Technical` |
| `Pulse` | the market pulse and its percentiles | `Scores` |
| `Daily` | the daily run: prepare, compute, place, publish; quality and the alert gate | `Evaluation`, `Pulse` |
| `Market` | the price refresh over redundant sources and their caches | |
| `Dashboard` | quality evidence, validation and policy of a publication | |
| `Publication` | the published directory, its swap, and the runs that deploy it | `Dashboard` |
| `OutboxProofs`, `StateLedgerProofs`, `SecHistoryProofs`, `SecAcquisitionProofs`, `ResearchStateProofs`, `PublicationProofs` | the theorems of the module they are named for | |
| `IntakeProofs` | the theorems of `Evidence` and `SecCursor` | |
| `DailyProofs` | the theorems of `Evaluation`, `Daily` and `Market` | |
| `MC*` | the instances TLC checks | |

One action is one step that others can come between: a SQLite transaction, a push, a rename, an HTTP
request, a write of a file. Everything a handler does within such a step is in the action. Process
memory is a variable only where a later step reads it. Names follow the code; `PROJECT.json` maps
every definition to its lines.

**Outbox.** A message is a candidate key on a channel. `OpenLedger`, `RecoverAbandonedClaims`,
`RecoverByRelease` and `QuarantineLedger` are `open`/`__init__`; `PutCandidate`, `Claim` (the
disjunction of what a claim transaction can find), `SuppressClaim`, `Send`, `RecordResult` are
`deliver`. `Replies(ch)` is what a channel may answer, `Lenient` the channels whose adapter reports
FAILED for a request that may have been accepted. `contacts` and `accepted` are ghosts: the provider's
side of the story (`accepted` since the ledger began, as its rows are; a quarantine begins it anew).
*Abstractions*: the instant a process uses for its claims is the clock when it
opened the ledger; a quarantining process in `send-alerts` stops with BLOCKED, while the model lets
it go on as the class allows (and shows it sends nothing); the test-delivery command
(outbox.py 226-278) is left out.

**StateLedger.** The branch is the sequence of its trees, and a commit *is* that sequence, so that
equal trees on equal parents make equal commits: exactly the accident the code's `claim_id` guards
against. `Task` gives each claimant its message; `Carriers` are synchronisers whose files include a
copy of the ledger. A lease is the row's `claim_id`; notices have none, so their rows may coincide
(`LeaseOf`), and what is said of single requests is said of the leased rows.

**SecCursor.** Entries are numbered in the order of the sort key `(accepted, accession, CIK)`.
`Late` entries are listed out of order; the document of a `Silent` filing has no record, so that it
gives the batch no instant. `CommitBatch` and the canonical store
are external, modelled from how `daily.yml` proves a batch. The universe is the file of CIKs.

**SecHistory.** The bytes of a file are a number of pieces and the set of versions they come from;
mixtures of the same versions are identified. Damage to an archive or a partition comes between
runs only. The catalog request, name checks inside an archive, the pacer and overlapping backfills
are left out.

**SecAcquisition.** A release is identified by its content, since its tag is the hash. A run lists
the releases once, so its `view` is a prefix of each day's releases; its own later additions are
never read by the same range. `Persist` has every outcome of `gh release create`: nothing, a draft
without its asset, a release whose creation is not heard of. `OldUpload` is a checkout of the
repository before the second parser, external, and only as careful as that parser was. A stored
filing keeps the instant it was observed at; that instant is the clock. The rolling window is
abstracted to a fixed set of days: a day that leaves the window unstored is the operator's
(durable-sec-acquisition.md says so), and `EverythingStored` is said of days that stay in it.

**ResearchState.** Dates are session numbers; what a company's facts say in a session is a new low
and the set of predicates that hold. `NextRecord` and `Row` are what scoring does to the record and
shows of it, in the order the code merges the fresh, the reused and the withheld rows. `Push` is
`persist_operational` with the head that was restored; a push accepted but unheard is `Push` then
`Fail`. `OtherCommit` is a digest's commit between restore and push. *Left out*: validation of the
restored files, deployments that refresh no data, the watchdog's redeployment, an operator's re-run
of an old deploy job. The baseline facts are always supplied, and prices one session old are
accepted by the code, so that two sessions may evaluate the same bar: a property of the data that
this module cannot see.

**Filings, Amendments, Identity, Research.** Pure operators over documents, rows and observations.
A document is a record of what the parser tells apart, `Bad` where a number cannot be read; the
reasons for a refusal stand in the order the parser asks (`First`). `Amendments` replays rows in
`OrderKey` order; a redelivered row is the one that was known first. `Research` chooses filings,
resolves them and computes the events, their eligibility, the windows and their coverage. A filing's
`corrects` is what it means to correct, which the code cannot see; its link (`amends`, `supersedes`)
is what it says. `AccessionsAssumption`: an accession is one filing on whatever days it is listed
(`_filing_identity`); what corrects is an amendment, and what an amendment names, as an accession or
as a revision (`RevisionOf`), is what it corrects, unless it names nothing or nothing legible. Of the
number of rows and owners and of the dates, nothing is assumed. Rows are linked owner
by owner and row by row (`_same_row`), and `CountedOnce` is said of an owner and a row number.

**Evidence.** `AcquireDay` stores a checkpoint of what could be fetched (`Fetchable`: a submission without
an acceptance instant, or with one of the future, fails its day); `Observe`, `Create`, `Upload`, `PublishHistory` and
`Verify` are one identity run, with a `LoseJob` between any two of its calls to the release service.
`journal` is a ghost: what the filings, facts, identities and tickers of an instant were when the
clock left it. A filing is attributed to the earliest *SEC day* that lists it, whenever that day is
acquired (research_history.py:104): acquired out of order, or listed on two days, it changes the
day, and so the instant, it counts as known at. `NoHindsight` is therefore an equality of identities
and tickers without condition, and of events as long as each filing selected at the time is
still attributed to the same day. *Abstractions*: `persist` checks and then acts, which the shared concurrency
group makes safe; the first asset format's draft left by a crash is not modelled;
`IssuerIdentityIndex` is a library the pipeline does not call.
`CompleteIsComplete` is said of filed rows, not of anything the parser or the replay computes: `Purchase` is a
row of the document that is dated in the window, priced and of common stock, `Replaces` what an amendment does to a row
and an owner of it, `Standing` the rows that keep an owner. Between what must be counted (not replaced by any
amendment of the known days) and what may be counted (not replaced by one of the window's days) lie the rows
replaced by an amendment of an older day that is stored or not: a window is judged by its own days.

**Backtest, Evaluation.** Returns are whole percents, medians are doubled, and the bootstrap's lower
bound is an input sign. The order of `(ticker, type, id)` is the order of ids. `MISSING_SPY_*`
reasons are unreachable, since the sessions are SPY's bars.

**Insiders, Technical, Scores, Pulse, Daily.** The run id is the day and its instant is the close
of the day. Rows come resolved (amendment chains are `Amendments`' subject); an unresolved chain is
the flag `ambiguous`, which refuses the inputs. `SeenRows` are the records effective at an instant: known
and valid by then, and active unless what supersedes them is. `Filtered` and `Joined` are
`SelectSeq` and `@@` written as functions, which the provers can expand. Preparing an existing run id changes nothing.
`Place` renames the snapshot directory, `PublishManifest` writes `manifest.json`, `CrashRun` comes
between; `Relock` is an operator who installs another scoring lock. *Left out*: row quarantine and
the `quality` of rows, errors of the price frame, fundamentals, `insiderCost`, deduplication by
`transaction_id`, the two longer grains of the pulse. Ties between sectors go by name.

**Market.** A history maps sessions to closes. The payload and the manifest of a cache are two
files; the manifest is identified with the payload whose digest it holds, and `genuine` tells a
payload as sent from one the disk changed. `Begin`, `Receive`, `Certify`, `Finish` are one worker's
symbol, `Expire` the end of a shard's budget, `EndPass` the recovery pass. *Left out*: retries of a
request, the TTL path (used without a required session only), the in-memory cache, the CSV provider,
the quality probe and `update_market`'s benchmark evidence. One refresh runs at a time, and the pair
of files is read in one step.

**Dashboard, Publication.** A publication is a record of what the rules tell apart; a directory is a
publication and the set of its written files. `StartExport`, `RemoveBackup`, `RecoverDirectory`,
`WriteFile`, `Validate`, `MoveOld`, `MoveNew`, `DropOld`, `Undone` are `export_dashboard` and
`_replace_directory`; `FetchFile`, `FetchedAll` are a restore of the deployed site file by file;
`Fault` is an operation that raises, `Kill` a process that ends. The workspace survives a kill, as a
local checkout does. *Abstractions*: a partly removed backup counts as a fault; the watchdog's guards
("main moved", a run repeated by hand) are the nondeterminism of not recovering; restoring under a
newer lock rewrites `methodologyComplete` as the code does.

## 3. What is checked

`CHECK_DEADLOCK FALSE` is said where the bounded system ends: jobs, clocks, days, refreshes, crashes
and runs are used up in `outbox_*`, `state`, `research_state`, `evidence`, `daily`, `market` and
`publication`. `SecCursor`, `SecHistory` and `SecAcquisition` start run after run, and their runs
check for deadlock.

| run | instance and bounds | shows |
| --- | --- | --- |
| `outbox_serial` | one process, three related keys (one override), one damage, clock 0..2, cooldown 1 | two SENT rows within a cooldown are an override (`CooldownHonoured`); a quarantining process sends nothing (`QuarantinerSendsNothing`) |
| `outbox_shared` | two processes, two keys, one crash, clock 0..1, no lenient channel | `AtMostOnce`, `SuppressedNeverSent`, `OutcomeIsFinal`, SENT was accepted and FAILED was not (`OutcomesAreTrue`), refinement (`ImplementsDelivery`), and under fairness `ClaimsResolve` |
| `state` | three mixes of jobs: three digest jobs over two days with a pipeline that carries the ledger; two recoveries of a run, its notice and that pipeline; one recovery, a notice and both synchronisers | `ClaimOutlivesSend`, `BranchKeepsEvidence`, `DaysClaimedInOrder`, `ImplementsDelivery` |
| `sec_cursor` | four entries of two issuers, one followed later, one entry late, one filing silent, `--through` 1 or 2 | `CursorMovesOverOutput`, `CursorNeverRetreats` (of the run's copy and of the published cursor), `PublishedIsCanonical` |
| `sec_cursor_loss` | two issuers, filings listed in order | *violated*: `NoLoss` |
| `sec_history` | two quarters, one republished, one flawed, two attempts each, kill anywhere | `PartitionSurvives`, `CachedIsComplete`, `StagedIsTrue` |
| `sec_acquisition` | two days, three filings (one quarantined), budgets of one, two faults of any kind, one revision, one old upload, clock 0..2 | `ReportIsTrue`, `ProgressKept`, and under fairness `EverythingStored` |
| `research_state` | one company, three sessions, four runs, two machines, one disturbance | `MovesOncePerSession` (refinement of `Hysteresis`), `SiteAgrees`, `StateIsRecoverable` |
| `evidence` | eleven sets of filings (linked and unlinked amendment, joint owners, a correction of one owner only or of one row of two, a correction that names a revision, an accession listed twice, a filing readable in part, a submission without an acceptance instant), three identity answers, clock 1..3, one crash, window 3 | what an instant knew stays as it was (`NoHindsight`, see section 2), `CountedOnce`, `CompleteIsComplete`, `IdentityHistoryGrows` |
| `daily` | two days of runs over two companies, their sector and SPY, seven worlds, the tests of `MCEvaluation` (three of them hand their report on: a sealed one that passes, a sealed one whose benchmark gains as much, one of the validation stage), one more lock, spans of two or three bars | `BacktestIsBlind`, `CountedFairly`, `RunsAgree`, `ManifestNamesSnapshot`, `AlertsNeedSealedGate` |
| `market` | a stock with two sources and a benchmark with one, one shard of two workers, two sessions, two refreshes, one damage | `ServedIsVerified`, `DisagreementStands`, and under fairness `RefreshEnds` |
| `publication` | three kinds of refresh, one machine, clock 0..1, one further run, one fault or kill | `DirectoryNeverLost`, `PublishedIsWhole`, `SiteNeverOlder`, and under fairness `Republished` |

`NoHindsight`, `RunsAgree` and `BacktestIsBlind` are the same promise at three places: what is said
of a past instant is what could be said then. The first compares snapshots of the growing evidence
with a journal of the past; the second compares the rows, scores and pulse of a later daily run with
those of the day's own run; the third changes, in effect, the future bars and the sealed period and
asks that no number moves.

**Why the bounds are enough.** Each was chosen so that the case a property is about occurs and can
be broken: for every property of a passing run there is a plausible bug (`PROJECT.json`, "mutants")
that TLC finds under the same configuration. In detail: a race needs two actors, and a third job or
key makes the order of three observable (an override that follows a suppressed alert; a later day's
digest). One crash or one disturbance puts the system into every intermediate state a crash can
leave; what follows is again the modelled code. The clock needs to pass the cooldown once. A cursor
is passed by with one entry before, one at and one after it. A resumed download needs two requests
and two versions. In `state` the jobs outside a mix start as already lost, a state the specification
reaches. In `sec_acquisition` two faults make every pair of an error, a draft, an unheard
upload, a lost run, a revised index and an old upload, with budgets of one so that days and filings
compete. In `research_state` three sessions let a company fail twice with one between, and four runs
let two sessions be run again. In `evidence` an amendment may become known on the day of its
original, a day later, or before it is linked, and three instants leave two pasts to compare. In
`market` the sources agree, lag or differ beyond the tolerance, in every order of two workers. In
`publication` a fault or kill falls between any two file operations of any kind of run. In `daily`
the worlds are chosen for late filings, corrections, first and repeated purchases, a company that
falls and one that holds, missing bars and failed gates: alerts, alerts that nothing holds back,
company levels up to 3 and a fall, a second failed evaluation's counter, and passing and failing
sealed reports all occur. TURNING and STEALTH alerts need longer price histories than the instance
has, and do not.
*Symmetry* is used for the directory names of `SecHistory` and the machines of `ResearchState`,
whose properties name none of them and are no liveness properties.

**Fairness.** `Outbox!FairSpec`: a started process goes on (`WF` of its work), and the ledger is
opened again by the daily schedule (`WF` of opening, by whichever of the two ways is enabled);
a crash is never fair. `SecAcquisition!FairSpec`: a started run goes on, and the
schedule gets its turn although operators and repairs keep the group busy in between (`SF` of
`Begin`), since `queue: max` keeps a waiting run in the queue. `Market`: the pool of workers and the
passes go on (`WF(Work)`). `Publication!FairSpec`: a command that was begun goes on, and a UI run is
begun again and again, as every push to the site's files does. Errors are bounded, so that
fairness is not asked to win against an SEC that never answers. Crashes, damage, revisions, the clock
and operators are never fair. The other specifications state safety only.

## 4. What the checks found

One documented promise does not hold of the code as it is, and has a run of its own:

- `sec_cursor_loss`: the contract test plan promises no loss across pages. Issuers are read one after
  the other and share one cursor, so that a filing accepted after its issuer was read, and before
  one of an issuer read later, falls below the cursor. Every entry the run *did* see is safe
  (`CursorMovesOverOutput`). The run lists filings in order and damages nothing.

What follows was seen while the code was translated. The models contain it as the code has it; no
property states the contrary.

- *Cooldown.* ADR 0004 promises that a new alert within the cooldown is emitted only on a change.
  `_latest_sent` (outbox.py:289) looks at SENT rows only; an alert the provider accepted but the
  ledger calls UNCERTAIN (or FAILED, by the e-mail adapter) starts no cooldown. Of the SENT rows the
  promise does hold, which is `CooldownHonoured`.
- *Republished filings.* The comment at research_history.py:101 says that a filing listed again is
  attributed to the first *observed* index, and durable-sec-acquisition.md:17 that filings keep their
  knowledge timestamps; line 104 keeps the earliest SEC day, also if that day is acquired last.
  `NoHindsight` states what remains true.
- *Joint filings.* An amendment replaces the rows of the owners it names, each by its number. If one
  owner of a joint filing corrects it, or the rows are numbered anew, the original row of the
  other owner, or of the other number, stays effective and both events are eligible
  (`economic_events`): their dollars count twice, where daily-research-ux-goal.md:62 promises that
  joint-owner USD is counted once. test_amendments.py:130 asks for the resolution by owner. The run
  `evidence` holds such a filing (`ForOne`); `CompleteIsComplete` therefore says of
  each row that it is counted as long as one of its owners is left.
- *Backfill.* sec-history.md promises that a failed quarter does not prevent later ones; `BadZipFile`
  and `zlib.error` are outside the exceptions the loop catches (history.py:149). What the next run
  does is nevertheless sound (`PartitionSurvives`, `CachedIsComplete`).
- *Acquisition.* An operator's command is in no concurrency group. It and a scheduled run can start
  from the same old checkpoint, and the later release wins (release_store.py:43): an observation may
  be replaced. Within the group the promise of durable-sec-acquisition.md holds, with faults
  (`ProgressKept`, proved under `Group = Runners`).
- *Outbox.* That a ledger was quarantined is known only to the process that did it (outbox.py:343).
- *Market.* A symbol refused because one source lagged and disagreed is priced by the next refresh of
  the same session, from the fresh source's cache alone (redundant.py:76-98).
- *Backtest.* reporting.py:676 reads `float(median or -math.inf)`: a benchmark whose median is 0.0
  ranks as minus infinity, so the gate may pass without beating it.
- *Scores.* The cluster score of a company is the one of its *earliest* purchase (conviction.py:316,
  divergence.py:96,120). The flag `largest_buy` looks for a reason that conviction spells otherwise
  (pipeline/scoring.py:312 against conviction.py:485) and is never true. A TURNING alert is raised
  when a company falls from CONFIRMED to EARLY_TURN (rules.py:324-331). A stale day resets the count
  of failed evaluations (pipeline/scoring.py:253). The state machine moves once per run, which
  `daily_research` makes once per session and `pipeline/daily` does not. Companies without current
  rows leave the prior states. A winsorising cap, the drawdown context and the ROUTINE penalty
  exist but no caller supplies their inputs.
- *Features.* One missing bar at the end of a week blanks the Mansfield strength for 52 weeks
  (rs.py:73). The pulse of a past period weighs its purchases with today's conviction
  (pulse.py:415), so that `PulseAgrees` leaves the conviction ratio out.

## 5. What is proved

The theorems hold for every value of the constants that satisfies the named assumptions of each
module (sets of processes, keys, filings, quarters, companies, symbols of any size, any bound).
tlapm checks them to the last leaf; nothing is assumed beyond the modules' ASSUMEs, each of which
TLC evaluates in a run, and the condition a theorem states itself: `Group = Runners` in
`SecAcquisitionProofs`, `MaxCorruptions = 0` in the refinement of `OutboxProofs` and one process at a
time in its cooldown.

**`OutboxProofs`**: `TypeCorrect`, `ProviderAskedAtMostOnce`, `SuppressedIsNeverSent`,
`OutcomesAreAlwaysTrue`, `OutcomesAreFinal`, `QuarantinersAreSilent`, `CooldownAlwaysHonoured`, and
the refinement `OutboxImplementsDelivery`. `AtMostOnce` is not inductive: a state with a row NONE and a
request already spent would break it in one step. `OwnershipInv` adds that a claim has one owner
whose row is in the ledger (`OneOwner`) and that a message without a row, or whose owner has not
sent, has cost this ledger nothing (`Unspent`); the generation counts the ledgers lost.
`SuppressionInv` ties the history to the requests, and `TruthInv` ties an unrecorded answer SENT
to the provider's side. `RefusalInv` does so for FAILED: a message can be accepted only while its owner
is at work, whose row is CLAIMED or was declared UNCERTAIN meanwhile, so that a FAILED row stays refused. On a
lenient channel it need not be (section 4), which `OutcomesAreTrue` leaves out.
`OutcomesAreFinal` follows from ownership: only an owner, or a recovery of
a row that is still CLAIMED, writes. The refinement is stated for `MaxCorruptions = 0`: a lost ledger
gives every message a new permit, which `AtMostOnceDelivery` does not know. Its invariant (`Sound`)
says that a message that is still free has cost nothing and that only the owner of a claim holds an
answer; one lemma per action then shows a step of the abstract ledger or a stutter.
`QuarantinerInv`: a process that quarantined never goes on with a claim. `CooldownInv`: every row has its
candidate, so that `_latest_sent` finds it, and a claim in hand was cleared against what was sent; with
one process nothing is sent between the claim and the record. Two processes may each clear their
claim against the other's absence, which is why the theorem is stated for one.

**`StateLedgerProofs`**: `TypeCorrect`, `BranchIsEvidence`, `DaysInOrder`, `ClaimsOutliveSends`,
`ActedOnAtMostOnce`, and the refinement `BranchImplementsDelivery`. The invariant says what a job's
copy can be: the tree it restored and at most its own claim or answer more. A push is accepted only
on the head that was restored, so that a claim on the branch stays there and a lease identifies the
one job that may call; jobs that have not pushed hold leases the branch does not know, which is what
a claim of the abstract ledger needs. `ActedOnAtMostOnce` concerns the leased messages (digests and
recoveries); it follows from the same invariant and is no property of a run.

**`IntakeProofs`**, of `Evidence`: `HistoryOnlyGrows`, `NothingInHindsight`, `EveryRowCountsOnce` and
`CompleteWindowsAreComplete`, for any filings, answers, clock and number of lost runs, under
`FilingsAssumption`, `AnswersAssumption` and `NoneAssumption` (days and instants are numbers, filings and
observations have their fields). `IdentityInv` says what an identity run has in hand
between two calls to the release service, and of the releases: every history occurs once, a later one
was observed no earlier, and of two that are published the later holds the earlier (`Chained`), so that
whichever is read as the latest holds them all. `JournalInv` says of every instant the clock has left
that its facts are what its own filings give, that a filing selected since is invisible to it
(`Unseen`), and that its identities and tickers are what is computed now. The events of an instant
are computed of the rows it knew, so that neither the replay of amendments nor the grouping of events need
be opened.

`EveryRowCountsOnce` states `CountedOnce`, for any worlds under `AccessionsAssumption`, and does open the
replay. Its invariant (`Replayed`) says of every prefix of the rows that what they leave is finite and that
every revision stems from a row of the prefix, keeps its accession, and is superseded only by an amendment of
the prefix that names it (`Revision`); and of every row of the prefix that it is settled (`Settled`): it was
rejected, or it has a revision, beside which, when it amends, the row it names stands superseded
(`ReplayStep`). An amendment that cannot be linked blocks its issuer, so that an eligible event has
effective rows only (`EligibleRows`), and what an effective correction names is not effective (`AmendedIsGone`). That the rows of
the history are finite, typed and of one document per accession follows from `StampsInv`: what is
stored is a listed filing, stamped with the instant it came. The order of the rows is proved total
(`BeforeIsOrder`), so that the replay visits each row once (`InOrderFacts`).

`CompleteWindowsAreComplete` states `CompleteIsComplete`, from the same two invariants. `StampsInv` says here that
a day without a failure holds every filing the SEC lists for it (`Covered`), and the label that no day
of the window failed and nothing of it is in quarantine (`CoverageIs`), so that each document is parsed whole
(`WholeIs`): every row of every owner is in the history (`WholeInHistory`) and says what was filed
(`Says`). A standing purchase is known by now and so replayed; as no amendment of the known days replaces it, its
revision stays effective (`StandsOrAmended`) and is counted (`StandingCounts`). Conversely a row that is counted was
filed, and a correction filed in the window would have superseded it (`CountedStands`).

Of `SecCursor`: `TypeCorrect`, `CursorMovesOnlyOverOutput`, `CursorOnlyAdvances`,
`PublishedOverCanonical`, over `Invariance`. `CursorInv` says that the pending cursor is the one
the run started from until it is written, that page and output together cover every row it may
select, and that what it moved over is covered by a complete output; `EvidenceInv` and `EvidenceLast`
carry that to the published cursor. `StartInv` says that a run starts from the published cursor or from
nothing and that nobody publishes beside it, so that `CursorOnlyAdvances` holds over all runs: only one
that gave up an unreadable copy may publish an earlier cursor. `LastOfFilingCovers` is the lemma about filings under two issuers.

**`SecHistoryProofs`**: `TypeCorrect`, `RecoveryAlwaysClear`, `PartitionNeverLost`, `CachedAlwaysComplete`,
`StagedAlwaysTrue`, over `Invariance`.
`RunInv` says what stands at each step of the swap: nothing is set aside while a partition is
built, and one is in place when what was set aside is deleted. Without it a second directory could
be set aside beside a missing partition. `ManifestInv` ties the cached bytes and their manifest to one
finished download; `SoundInv` says of every directory in a place where it may be read that it is
valid, and `EntryInv` that the quarters a run reported STAGED are behind it and still valid.

**`SecAcquisitionProofs`**: `TypeCorrect` for any runners; `NothingIsLost` and `ReportsAreTrue` under
`Group = Runners`, the condition the observation of section 4 shows to be needed. `AloneInv`: one
run is at work. `RunnerInv`: of the days still ahead of it its view *is* the store, what it builds
on is the newest checkpoint and what it builds extends that. `ChainInv`: releases of the current
parser extend one another in the order they were made, and a draft is never an old upload.
`TruthInv`: what the entries of a report say of a day the store has. The newest checkpoint is the
one of the largest id; that a nonempty prefix of numbers has a largest is proved by well-founded
induction.

**`ResearchStateProofs`**: `TypeCorrect`, `SiteAlwaysAgrees`, `StateAlwaysRecoverable`,
`DeploymentsInOrder`, and `ImplementsHysteresis`, the full refinement: the initial state maps to an
initial state, and every step to a step of `Hysteresis` or a stutter. The invariant says that the
records on the branch and in the machines' copies are sound and dated in the past (`SoundInv`), that
a machine which finds the head it restored has the branch's states and computed one evaluation of
them (`WorkInv`), that a machine which pushed and keeps the group pushed last (`GroupInv`), that the
rows of a machine past its archiving are in the archive (`ArchiveInv`), and that the site is not
ahead of the branch (`SiteInv`). A push under a stale head
is impossible, so that one push is one `Next` of `Hysteresis`. The lemmas `FailedMoves`,
`EvaluatedMoves` and `ScoringMoves` state what one evaluation does to a record.
`DeploymentsInOrder` (the site never goes back to an earlier session) is stated here only.

**`DailyProofs`**, of `Evaluation` (for any signals, bars and horizons, under `TestsAssumption` and
`CalendarAssumption`): `TheBacktestIsBlind` and `EverythingCountsFairly`. The state is small, and
`EvaluationInv` only says what was opened at each stage and that the results, families and report are
those computed of the test; the work is in the algorithm. Signals and sessions are enumerations in a strict order, whose
positions are proved to exist and to be unique by counting (`RankFacts`). Deduplication keeps a *kernel* of the
scheduled signals: one is kept if no kept one before it still runs. A kernel is unique, by a least
counterexample, and the kernel of an initial segment is the initial segment of the kernel.
Hence a run cut at an exit, or at the first sealed session, schedules, keeps and prices what lies before
the cut as the full run does; that is blindness. Fairness follows from the kernel and from what
an outcome asks of every session between entry and exit.

Of `Daily` (for any tests, worlds, days, cluster lengths, spans and locks, under `WorldsAssumption`,
`DaysAssumption` and `SpanAssumption`): `ManifestsAreTrue`, `AlertsAreGated`, `NothingLooksAhead`.
`ManifestInv` adds the shape of the files to the property, which is then inductive.
`GateInv`: what a run computed, in hand or in place, has an alert that nothing holds back only if the
report it was given is of the sealed stage and passes the gate under the lock the run used; that report is
the one the evaluation wrote, and an evaluation that got so far has opened the sealed period once
(`EvaluationInv` then says of which test it is). `RunsInv` is the invariant of the long theorem: the
inputs of a day are what the world showed at its close, and a result in hand or in place is what
`Outputs` makes of them. `RunsAgree` then compares two computations, on an earlier and a later view of one
world, and has three parts. `ScoresHold`: the rows a purchase's conviction looks at are those known at
its own instant (`KnownOf`), which both views tell alike (`TellsTheSame`); in the larger set the
members known at that instant still come first (`FirstStays`). `FactsHold`: a feature at a bar depends
on the bars up to it. One lemma for each feature says that it is the same over a sequence and over a
longer one that begins with it (`GoesOn`), and what is filtered from the later file does begin
with what was filtered from the earlier one. `PulseHolds`: the ratios of a period are sums over
its rows. A sum over a finite set is the same for two sets with a one-to-one correspondence that
keeps the summand (`Total`, `SameTotal`, by induction on the size of the set).

Of `Market`: `TypeCorrect`, `ServesWhatWasSent`, `DisagreementsStand`. `GenuineInv`: a manifest
and an open request hold what a source sent, whatever the payload beside it has become.
`PlacesInv`: a symbol is at one place (queued, in hand, done) of one shard. `OpenInv`: of a symbol
still to be refreshed nothing is known in this refresh, neither bars nor a disagreement; that is why
a recovery pass cannot look at a disagreement a second time. `ServedInv` joins the three.

**`PublicationProofs`**: `TypeCorrect`, `NeverLost`, `AlwaysWhole`, `NeverOlder`. `RunInv` says what the
run at each step holds, in particular that a directory under construction has been validated before
a swap begins; `DirInv` that the backup is valid whenever the directory is missing; `DatesInv` and
`NewerInv` follow the date of the facts through the run's input, the three directories, the pages
fetched so far and the failed artifact to the deployment.

**Only model-checked.** Liveness (`ClaimsResolve`, `EverythingStored`, `RefreshEnds`, `Republished`):
the prover has no fairness or ENABLED. The library's
induction theorems take an operator as a parameter, which the installed provers cannot instantiate; where
a proof needs induction, it takes the least counterexample of a set of numbers
(`NatLessThanWellFounded`), one statement at a time. The modules under proof declare no RECURSIVE operator.

## 6. Limits of the models

- Data is abstract wherever no property tells it apart: message bodies, XML, hashes (equal content
  is equal hash), file names, JSON, the wording of reasons. A conversion is a set of outcomes.
- Time is a bounded counter, and timeouts are faults that may come at any point.
- Scores are whole points and returns whole percents: rounding by `Decimal` contexts, and the
  statistics of the bootstrap, are outside the models.
- `daily.yml` sends its alerts before it pushes `alerts.sqlite`: a machine lost in between loses its
  rows with the file. No module joins `Outbox` and `StateLedger`; the hazard is listed.
- The coincidence of two notices (`LeaseOf`) needs two jobs that write the same row to the
  microsecond; the model allows it and claims nothing of notices but `ClaimOutlivesSend`.
- Filings and days that fail for good use up budgets in every run; `EverythingStored` exempts a day
  behind `MaxDays` blocked ones, and is not said of errors that never cease.
- `ResearchState` deploys rows and `Publication` deploys directories; that the directory of a
  research run shows the rows of its branch is the join of the two, and is not checked.
- The SEC's listing, the providers, GitHub's runners and the canonical store are external and are
  modelled from how the code uses them.

**Not modelled.** The web application (rendering of validated JSON) and the research studies under
`scripts/` keep no history and race with nothing. Of the modelled components these operations are
left out, and the components are called partly modelled for it: the `delivery_tests` table of the
outbox; the texts of alerts; HTTP pacing and retries of the
SEC and market clients; the CSV and TTL paths of the market cache; fundamentals, cost figures and
the longer pulse grains; the bootstrap of the report; the company facts of the SEC; the format and the rolling window of
checkpoints; the validation of restored research files; the watchdog's reading of GitHub's run list.

## 7. Hazards

`PROJECT.json` lists what a test of this code would hardly reach, each at its line, with the
properties that would catch it. Four have no property: the cooldown after an UNCERTAIN answer
(outbox.py:287) and the operator's command beside the schedule (release_store.py:43), where the code does what a property would have to forbid;
the order of sending and pushing (`daily.yml`:405), of which the code keeps no trace; and the market
day that two sessions evaluate (daily_research.py:149), which the code accepts.

## 8. What is left

In the order of their worth: a join of `ResearchState` and `Publication` over one site, so that a
directory and the branch's rows are compared; a join of `Outbox` and `StateLedger` for the order of
`daily.yml`; longer price histories in `daily`, which the time of a run does not allow now.
