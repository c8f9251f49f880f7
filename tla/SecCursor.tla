------------------------------ MODULE SecCursor ------------------------------
(***************************************************************************)
(* `update-sec --cik-file` (cli.py, ingestion/sec/incremental.py) and the  *)
(* cursor it leaves in the daily workflow: a run lists the ownership       *)
(* filings of every followed issuer, one request after the other, fetches  *)
(* those past its cursor, writes them and only then moves its pending copy *)
(* of the cursor; the published cursor on the state branch follows when    *)
(* the batch is proven to be in the canonical store (daily.yml).           *)
(*                                                                         *)
(* An entry is one row of one issuer's submissions; entries are numbered   *)
(* in the order of the sort key (accepted, accession, CIK), and 0 is no    *)
(* cursor.                                                                 *)
(***************************************************************************)
EXTENDS Integers

CONSTANTS
  Entries,     \* the entries the SEC may ever list
  Issuer,      \* Issuer[e], the CIK in whose submissions it is
  Filing,      \* Filing[e], its accession number
  Accepted,    \* Accepted[e], its instant of acceptance
  Followed,    \* the CIKs of the file when all begins
  Late,        \* entries the SEC may list after later ones
  Silent,      \* filings whose document has no record
  Sinces,      \* lower bounds a run may be given
  Throughs     \* upper bounds a run may be given

Issuers == {Issuer[e] : e \in Entries}
Filings == {Filing[e] : e \in Entries}

\* Whatever entries a page has, one of them is the last.
ASSUME EntriesAssumption ==
  /\ Entries \subseteq Nat \ {0}
  /\ \A S \in SUBSET Entries : S # {} => \E m \in S : \A e \in S : e <= m
ASSUME KeysAssumption ==
  /\ Issuer \in [Entries -> Nat]
  /\ DOMAIN Filing = Entries
  /\ Accepted \in [Entries -> Nat]
  /\ \A e, f \in Entries : e <= f => Accepted[e] <= Accepted[f]
ASSUME RunsAssumption ==
  /\ Followed \subseteq Issuers
  /\ Late \subseteq Entries
  /\ Silent \subseteq Filings
  /\ Sinces \subseteq Nat /\ Throughs \subseteq Nat

VARIABLES
  listed,      \* entries in the SEC's submissions
  universe,    \* CIKs in the cik file
  published,   \* sec.cursor on the state branch
  canonical,   \* filings in the canonical store
  pc,          \* what the run does next
  pending,     \* sec.cursor.pending in the run's workspace
  cursor,      \* the cursor the run started from
  window,      \* its --since and --through
  todo,        \* issuers whose submissions it has not read yet
  rows,        \* entries it has read
  flawed,      \* something was quarantined or failed
  page,        \* entries it has still to get
  output,      \* sec-incremental.json
  committed,   \* that file is the canonical store's evidence of a commit
  delivered    \* ghost: filings in any complete output so far

run  == <<cursor, window, todo, rows, flawed, page>>
sec  == <<listed, universe>>
vars == <<sec, published, canonical, pc, pending, run, output, committed, delivered>>

Cursors  == Entries \cup {0}
Corrupt  == -1          \* a cursor file nobody can read
NoOutput == [entries |-> {}, complete |-> FALSE]

TypeOK ==
  /\ listed \subseteq Entries /\ universe \subseteq Issuers
  /\ published \in Cursors
  /\ canonical \subseteq Filings
  /\ pc \in {"idle", "restored", "listing", "getting", "written", "done"}
  /\ pending \in Cursors \cup {Corrupt}
  /\ cursor \in Cursors
  /\ window \in [since : Sinces \cup {0}, through : Throughs \cup {0}]
  /\ todo \subseteq Issuers
  /\ rows \subseteq Entries /\ page \subseteq rows
  /\ flawed \in BOOLEAN /\ committed \in BOOLEAN
  /\ output \in [entries : SUBSET Entries, complete : BOOLEAN]
  /\ delivered \subseteq Filings

Init ==
  /\ listed = {} /\ universe = Followed
  /\ published = 0 /\ canonical = {}
  /\ pc = "idle" /\ pending = 0
  /\ cursor = 0 /\ window = [since |-> 0, through |-> 0]
  /\ todo = {} /\ rows = {} /\ flawed = FALSE /\ page = {}
  /\ output = NoOutput /\ committed = FALSE
  /\ delivered = {}

-----------------------------------------------------------------------------
(* The SEC and the operator *)

\* An entry appears in its issuer's submissions: in the order of acceptance,
\* or later for those the SEC lists late.
List(e) ==
  /\ e \in Entries \ listed
  /\ e \notin Late => \A f \in Entries \ Late : f < e => f \in listed
  /\ listed' = listed \cup {e}
  /\ UNCHANGED <<universe, published, canonical, pc, pending, run, output, committed, delivered>>

\* Another CIK is added to the file between two runs.
Follow(i) ==
  /\ pc = "idle"
  /\ i \in Issuers \ universe
  /\ universe' = universe \cup {i}
  /\ UNCHANGED <<listed, published, canonical, pc, pending, run, output, committed, delivered>>

-----------------------------------------------------------------------------
(* One run of update-sec *)

\* The workflow copies the published cursor into a fresh workspace.
Restore ==
  /\ pc = "idle"
  /\ pc' = "restored"
  /\ pending' = published
  /\ output' = NoOutput /\ committed' = FALSE
  /\ UNCHANGED <<sec, published, canonical, run, delivered>>

\* The cursor file is not readable.
DamageCursor ==
  /\ pc = "restored"
  /\ pending \in Entries
  /\ pending' = Corrupt
  /\ UNCHANGED <<sec, published, canonical, pc, run, output, committed, delivered>>

\* _recover_cursor: a malformed file is renamed and the run starts from nothing.
RecoverCursor ==
  /\ pc = "restored"
  /\ IF pending = Corrupt
     THEN cursor' = 0 /\ pending' = 0
     ELSE cursor' = pending /\ UNCHANGED pending
  /\ window' \in [since : Sinces, through : Throughs]
  /\ todo' = universe
  /\ rows' = {} /\ flawed' = FALSE /\ page' = {}
  /\ pc' = "listing"
  /\ UNCHANGED <<sec, published, canonical, output, committed, delivered>>

\* _read_submissions and _records_from_payload of the next issuer: the request
\* or the envelope fails, or some rows are not valid and the others are read.
ReadSubmissions(i) ==
  /\ pc = "listing"
  /\ i \in todo /\ \A j \in todo : i <= j
  /\ todo' = todo \ {i}
  /\ \/ flawed' = TRUE /\ UNCHANGED rows
     \/ \E bad \in SUBSET {e \in listed : Issuer[e] = i} :
          /\ rows' = rows \cup ({e \in listed : Issuer[e] = i} \ bad)
          /\ flawed' = (flawed \/ bad # {})
  /\ UNCHANGED <<sec, published, canonical, pc, pending, cursor, window, page,
                 output, committed, delivered>>

\* Mutant: the cursor is not compared.
FreshWithoutCursor ==
  {e \in rows : /\ Accepted[e] >= window.since
                /\ Accepted[e] <= window.through}

\* What a run may select: rows of its window past its cursor.
Fresh ==
  {e \in rows : /\ Accepted[e] >= window.since
                /\ Accepted[e] <= window.through
                /\ e > cursor}

\* One entry of each filing, the last.
LastOfFiling(entries) ==
  {e \in entries : \A f \in entries : Filing[f] = Filing[e] => f <= e}

\* fetch, once everything is listed.
Select ==
  /\ pc = "listing"
  /\ todo = {}
  /\ page' = LastOfFiling(Fresh)
  /\ pc' = "getting"
  /\ output' = NoOutput
  /\ UNCHANGED <<sec, published, canonical, pending, cursor, window, todo, rows, flawed,
                 committed, delivered>>

\* get and normalize of the next entry: its records, with quarantines or not,
\* or a failure.
Get(e) ==
  /\ pc = "getting"
  /\ e \in page /\ \A f \in page : e <= f
  /\ page' = page \ {e}
  /\ \/ /\ output' = [output EXCEPT !.entries = @ \cup {e}]
        /\ UNCHANGED flawed
     \/ flawed' = TRUE /\ output' \in {output, [output EXCEPT !.entries = @ \cup {e}]}
  /\ UNCHANGED <<sec, published, canonical, pc, pending, cursor, window, todo, rows,
                 committed, delivered>>

\* The output is written, and flushed, before the cursor.
WriteOutput ==
  /\ pc = "getting"
  /\ page = {}
  /\ output' = [output EXCEPT !.complete = ~flawed]
  /\ delivered' = IF flawed THEN delivered
                  ELSE delivered \cup {Filing[e] : e \in output.entries}
  /\ pc' = "written"
  /\ UNCHANGED <<sec, published, canonical, pending, run, committed>>

\* Page.next_cursor: the last selected entry.
IsNext(c) == IF Fresh = {} THEN c = cursor
             ELSE c \in Fresh /\ \A e \in Fresh : e <= c

\* Mutant: quarantines and failures do not keep the cursor back.
WriteCursorAnyway ==
  /\ pc = "written"
  /\ \E c \in Cursors : /\ IsNext(c)
                        /\ pending' = IF c # 0 THEN c ELSE pending
  /\ pc' = "done"
  /\ UNCHANGED <<sec, published, canonical, run, output, committed, delivered>>

\* The pending cursor moves, if nothing was quarantined and nothing failed.
WriteCursor ==
  /\ pc = "written"
  /\ \E c \in Cursors : /\ IsNext(c)
                        /\ pending' = IF ~flawed /\ c # 0 /\ c # cursor THEN c ELSE pending
  /\ pc' = "done"
  /\ UNCHANGED <<sec, published, canonical, run, output, committed, delivered>>

-----------------------------------------------------------------------------
(* The rest of the workflow *)

\* The producers of the canonical store take the staged batch and leave its
\* hash as evidence.
CommitBatch ==
  /\ pc = "done"
  /\ ~committed
  /\ committed' = TRUE
  /\ canonical' = canonical \cup {Filing[e] : e \in output.entries}
  /\ UNCHANGED <<sec, published, pc, pending, run, output, delivered>>

\* The acceptance instants of the batch's records.
BatchInstants == {Accepted[e] : e \in {f \in output.entries : Filing[f] \notin Silent}}

\* Mutant: no evidence of the commit is asked for.
BatchProvenByOutput ==
  /\ output.complete
  /\ \E t \in BatchInstants : t = Accepted[pending] /\ \A u \in BatchInstants : u <= t

\* The gate of a pending cursor that differs from the published one.
BatchProven ==
  /\ committed
  /\ output.complete
  /\ \E t \in BatchInstants : t = Accepted[pending] /\ \A u \in BatchInstants : u <= t

\* The cursor is published with the rest of the operational state, unless the
\* snapshot is not a PASS, the batch is not proven or the push is rejected.
Publish ==
  /\ pc = "done"
  /\ \/ pending \in Entries \ {published} /\ BatchProven /\ published' = pending
     \/ UNCHANGED published
  /\ pc' = "idle"
  /\ UNCHANGED <<sec, canonical, pending, run, output, committed, delivered>>

\* The run is lost anywhere, or ends without publishing.
Crash ==
  /\ pc # "idle"
  /\ pc' = "idle"
  /\ UNCHANGED <<sec, published, canonical, pending, run, output, committed, delivered>>

Next ==
  \/ \E e \in Entries : List(e) \/ Get(e)
  \/ \E i \in Issuers : Follow(i) \/ ReadSubmissions(i)
  \/ Restore \/ DamageCursor \/ RecoverCursor \/ Select \/ WriteOutput \/ WriteCursor
  \/ CommitBatch \/ Publish \/ Crash

Spec == Init /\ [][Next]_vars

-----------------------------------------------------------------------------
(* What the cursor promises *)

\* The cursor only moves over rows whose filings are in the complete output
\* that was written before: no quarantine, failure, crash or second entry of
\* the same filing lets it pass one (update_sec: "any fetch, normalization,
\* quarantine, or output problem leaves the old checkpoint intact").
CursorMovesOverOutput ==
  [][pc = "written" /\ pending' # pending =>
       /\ output.complete
       /\ \A e \in rows :
            cursor < e /\ e <= pending' /\ Accepted[e] >= window.since
              => \E f \in output.entries : Filing[f] = Filing[e]]_vars

\* Neither cursor moves back, whatever windows the runs were given: the cursor
\* file not within a run, unless it is damaged and given up (_recover_cursor),
\* and the published one not over any runs and interruptions, unless the run
\* that publishes it had given its copy up and started from nothing (daily.yml
\* publishes whatever differs from what it restored).
CursorNeverRetreats ==
  [][/\ pc # "idle" /\ pending \in Cursors /\ pending' \in Cursors => pending <= pending'
     /\ published' < published => cursor = 0]_vars

\* The published cursor only moves over rows whose filings are in the canonical
\* store (daily.yml: "proves that it includes the whole fetched batch").
PublishedIsCanonical ==
  [][published' # published =>
       \A e \in rows :
         cursor < e /\ e <= published' /\ Accepted[e] >= window.since
           => Filing[e] \in canonical]_vars

\* contract-test-plan.md: "opaque cursor pagination has no loss across page
\* boundaries". An entry of a followed issuer at or below the cursor has been
\* delivered.
NoLoss ==
  \A e \in listed :
    Issuer[e] \in universe /\ pending \in Cursors /\ e <= pending => Filing[e] \in delivered

-----------------------------------------------------------------------------
(* Why it keeps them: the inductive invariant *)

\* Every row a run may select has its filing among these entries.
Covers(entries) == \A e \in Fresh : \E f \in entries : Filing[f] = Filing[e]

\* The cursor file is the one the run started from until it is written, and
\* once it was moved, the run is complete and covers what it moved over.
CursorInv ==
  /\ pc \in {"listing", "getting", "written"} => pending = cursor
  /\ pc = "getting" /\ ~flawed => Covers(page \cup output.entries)
  /\ pc = "written" /\ ~flawed => output.complete /\ Covers(output.entries)
  /\ pc = "done" /\ pending # cursor =>
       pending \in Fresh /\ output.complete /\ Covers(output.entries)

\* A run starts from the published cursor, or from nothing, and nobody else
\* publishes one while it lasts.
StartInv ==
  /\ pc = "restored" => pending \in {published, Corrupt}
  /\ pc \in {"listing", "getting", "written", "done"} => cursor \in {0, published}

\* What the evidence says was committed is in the canonical store.
EvidenceInv == committed => \A e \in output.entries : Filing[e] \in canonical

\* There is evidence only after the batch was written.
EvidenceLast == committed => pc \in {"idle", "done"}

IInv == TypeOK /\ CursorInv /\ StartInv /\ EvidenceInv /\ EvidenceLast
=============================================================================
