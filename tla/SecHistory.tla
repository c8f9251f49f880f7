----------------------------- MODULE SecHistory -----------------------------
(***************************************************************************)
(* `backfill-sec-history` (ingestion/sec/history.py and historical.py):    *)
(* the quarterly archives of the SEC, downloaded one after the other into  *)
(* a cache that survives the run, resumed where a download stopped,        *)
(* extracted, and swapped in as the quarter's partition.                   *)
(*                                                                         *)
(* The bytes of a file are abstracted to their number, in pieces, and the  *)
(* versions of the archive they come from. The SEC may replace an archive  *)
(* by a newer version at any time.                                         *)
(***************************************************************************)
EXTENDS Integers

CONSTANTS
  Quarters,     \* the quarters, as numbers in their order
  Latest,       \* Latest[q], the last version the SEC publishes of q
  Size,         \* Size[v], the number of pieces of version v
  Flawed,       \* versions whose tables do not validate
  MaxAttempts,  \* requests of one download
  Names,        \* the suffixes of the backups (uuid4)
  None

Versions == UNION {1..Latest[q] : q \in Quarters}
Damage   == 0            \* the origin of bytes no server sent

ASSUME SizesAssumption ==
  /\ Quarters \subseteq Nat
  /\ Latest \in [Quarters -> Nat \ {0}]
  /\ Size \in [Versions -> Nat \ {0}]
  /\ MaxAttempts \in Nat \ {0}

\* What a file contains: so many pieces, of these versions.
Contents == [size : Nat, of : SUBSET (Versions \cup {Damage})]
Empty    == [size |-> 0, of |-> {}]

\* All of one version.
Whole(c) == \E v \in Versions : c = [size |-> Size[v], of |-> {v}]

\* The central directory is where the end of the file says: it may be found
\* in any file that ends where a version does, and must be found in a whole one.
MayOpen(c) == \E v \in c.of \cap Versions : c.size = Size[v]

\* A staged partition: the archive its manifest names, and whether
\* validate_partition accepts its tables.
Partitions == [archive : Contents, sound : BOOLEAN]

ASSUME NoneAssumption == None \notin Contents /\ None \notin Partitions

\* A directory set aside: its content, or what a deletion left of it.
Backups == [name : Names, dir : Partitions, intact : BOOLEAN]

VARIABLES
  server,     \* the version the SEC serves of each quarter
  part,       \* {year}q{quarter}.zip.part
  archive,    \* {year}q{quarter}.zip
  manifest,   \* the content whose sha256 is in {year}q{quarter}.manifest.json
  partition,  \* year={year}/quarter={quarter}
  backups,    \* .quarter={quarter}.previous-* beside it
  pc,         \* what the run does next
  periods,    \* its quarters
  cur,        \* the quarter it is at
  attempt,    \* requests already made for it
  staged,     \* the partition it has built in its temporary directory
  report      \* history-inventory.json

cache == <<part, archive, manifest>>
dirs  == <<partition, backups>>
run   == <<periods, cur, attempt, staged>>
vars  == <<server, cache, dirs, pc, run, report>>

Reports == [status : {"none", "INCOMPLETE", "STAGED"},
            entries : [Quarters -> {"none", "STAGED", "FAILED"}]]

TypeOK ==
  /\ server \in [Quarters -> Versions]
  /\ part \in [Quarters -> Contents]
  /\ archive \in [Quarters -> Contents \cup {None}]
  /\ manifest \in [Quarters -> Contents \cup {None}]
  /\ partition \in [Quarters -> Partitions \cup {None}]
  /\ backups \in [Quarters -> SUBSET Backups]
  /\ pc \in {"idle", "download", "received", "replaced", "validate", "recover", "extract",
             "aside", "place", "cleanup", "verify", "recorded", "finished", "aborted"}
  /\ periods \subseteq Quarters
  /\ cur \in Quarters \cup {None}
  /\ attempt \in 0..MaxAttempts
  /\ staged \in Partitions \cup {None}
  /\ report \in Reports

Init ==
  /\ server = [q \in Quarters |-> 1]
  /\ part = [q \in Quarters |-> Empty]
  /\ archive = [q \in Quarters |-> None]
  /\ manifest = [q \in Quarters |-> None]
  /\ partition = [q \in Quarters |-> None]
  /\ backups = [q \in Quarters |-> {}]
  /\ pc = "idle" /\ periods = {} /\ cur = None /\ attempt = 0 /\ staged = None
  /\ report = [status |-> "none", entries |-> [q \in Quarters |-> "none"]]

Running == pc \notin {"idle", "finished", "aborted"}

-----------------------------------------------------------------------------
(* Outside the run *)

\* The SEC republishes the archive of a quarter.
Republish(q) ==
  /\ server[q] < Latest[q]
  /\ server' = [server EXCEPT ![q] = @ + 1]
  /\ UNCHANGED <<cache, dirs, pc, run, report>>

\* Between two runs a cached archive or a table of a partition is damaged.
DamageArchive(q) ==
  /\ ~Running
  /\ archive[q] # None
  /\ archive' = [archive EXCEPT ![q].of = @ \cup {Damage}]
  /\ UNCHANGED <<server, part, manifest, dirs, pc, run, report>>

DamagePartition(q) ==
  /\ ~Running
  /\ partition[q] # None
  /\ partition' = [partition EXCEPT ![q].sound = FALSE]
  /\ UNCHANGED <<server, cache, backups, pc, run, report>>

-----------------------------------------------------------------------------
(* The loop over the quarters *)

\* quarter_range: all the quarters from one to another.
Ranges == {{q \in Quarters : from <= q /\ q <= to} : from, to \in Quarters} \ {{}}

\* A run starts with an INCOMPLETE report of no quarter.
Start ==
  /\ ~Running
  /\ periods' \in Ranges
  /\ \E q \in periods' : cur' = q /\ \A r \in periods' : q <= r
  /\ attempt' = 0 /\ staged' = None
  /\ pc' = "download"
  /\ report' = [status |-> "INCOMPLETE", entries |-> [q \in Quarters |-> "none"]]
  /\ UNCHANGED <<server, cache, dirs>>

\* The quarter's entry is appended, and the report written.
Record(status) ==
  /\ report' = [report EXCEPT !.entries[cur] = status]
  /\ pc' = "recorded"

\* A caught exception: the entry is FAILED and the loop goes on.
Fail == Record("FAILED")

Advance ==
  /\ pc = "recorded"
  /\ LET rest == {q \in periods : q > cur}
         done == \A q \in periods : report.entries[q] = "STAGED"
     IN IF rest # {}
        THEN /\ \E q \in rest : cur' = q /\ \A r \in rest : q <= r
             /\ pc' = "download" /\ UNCHANGED report
        ELSE /\ pc' = "finished" /\ UNCHANGED cur
             /\ report' = [report EXCEPT !.status = IF done THEN "STAGED" ELSE "INCOMPLETE"]
  /\ attempt' = 0 /\ staged' = None
  /\ UNCHANGED <<server, cache, dirs, periods>>

\* The process is killed, anywhere.
Crash ==
  /\ Running
  /\ pc' = "idle"
  /\ UNCHANGED <<server, cache, dirs, run, report>>

-----------------------------------------------------------------------------
(* download_quarter *)

\* The archive whose manifest has its hash is used again.
Cached(q) == archive[q] # None /\ archive[q] = manifest[q]

CacheHit ==
  /\ pc = "download" /\ attempt = 0
  /\ Cached(cur)
  /\ pc' = "validate"
  /\ UNCHANGED <<server, cache, dirs, run, report>>

\* Another request, or the last one has failed.
Again ==
  /\ attempt' = attempt + 1
  /\ IF attempt + 1 < MaxAttempts THEN UNCHANGED <<pc, report>> ELSE Fail

\* What the part is made of when k pieces of the served version follow.
Appended(c, k) == [size |-> c.size + k, of |-> c.of \cup {server[cur]}]

\* _write_response_to_part, of a 200: the part is truncated first. A body
\* without Content-Length that ends early is taken for a whole one.
FullResponse ==
  \E k \in 0..Size[server[cur]] :
    /\ part' = [part EXCEPT ![cur] = IF k = 0 THEN Empty ELSE Appended(Empty, k)]
    /\ \/ pc' = "received" /\ attempt' = attempt + 1 /\ UNCHANGED report
       \/ Again

\* Of a 206 to a request that resumes: the range starts where the part ends,
\* and may end before the archive does, or the body before its range.
PartialResponse ==
  /\ part[cur].size \in 1..(Size[server[cur]] - 1)
  /\ \E k \in 1..(Size[server[cur]] - part[cur].size) :
       /\ part' = [part EXCEPT ![cur] = Appended(@, k)]
       /\ \/ /\ part[cur].size + k = Size[server[cur]]
             /\ pc' = "received" /\ attempt' = attempt + 1 /\ UNCHANGED report
          \/ Again
          \/ /\ part[cur].size + k < Size[server[cur]]
             /\ Fail /\ attempt' = attempt + 1

\* Nothing is written: an HTTP error or a transport error before the body, to
\* be tried again; or a response that is refused at once.
NoBody ==
  /\ UNCHANGED part
  /\ Again \/ (Fail /\ attempt' = attempt + 1)

\* The part cannot be continued: 416, or a range or a length that contradicts
\* it. It is deleted; after a 416 the download is tried again.
PartRefused ==
  /\ part[cur].size > 0
  /\ part' = [part EXCEPT ![cur] = Empty]
  /\ Again \/ (Fail /\ attempt' = attempt + 1)

\* One attempt of _request_archive.
Request ==
  /\ pc = "download"
  /\ ~(attempt = 0 /\ Cached(cur))
  /\ FullResponse \/ PartialResponse \/ NoBody \/ PartRefused
  /\ UNCHANGED <<server, archive, manifest, dirs, periods, cur, staged>>

\* Mutant: the received file is not opened.
InstallUnopened ==
  /\ pc = "received"
  /\ archive' = [archive EXCEPT ![cur] = part[cur]]
  /\ part' = [part EXCEPT ![cur] = Empty]
  /\ pc' = "replaced"
  /\ UNCHANGED <<server, manifest, dirs, run, report>>

\* The received file opens and becomes the cached archive.
Install ==
  /\ pc = "received"
  /\ MayOpen(part[cur])
  /\ archive' = [archive EXCEPT ![cur] = part[cur]]
  /\ part' = [part EXCEPT ![cur] = Empty]
  /\ pc' = "replaced"
  /\ UNCHANGED <<server, manifest, dirs, run, report>>

\* It does not: it is deleted, and BadZipFile is none of the exceptions that
\* the loop over the quarters catches.
InstallFails ==
  /\ pc = "received"
  /\ ~Whole(part[cur])
  /\ part' = [part EXCEPT ![cur] = Empty]
  /\ pc' = "aborted"
  /\ UNCHANGED <<server, archive, manifest, dirs, run, report>>

WriteManifest ==
  /\ pc = "replaced"
  /\ manifest' = [manifest EXCEPT ![cur] = archive[cur]]
  /\ pc' = "validate"
  /\ UNCHANGED <<server, part, archive, dirs, run, report>>

-----------------------------------------------------------------------------
(* validate_partition and stage_quarter *)

\* The quarter's partition is of the cached archive and validates.
Valid(q) == /\ partition[q] # None
            /\ partition[q].sound
            /\ partition[q].archive = archive[q]

Validate ==
  /\ pc = "validate"
  /\ IF Valid(cur) THEN Record("STAGED") ELSE pc' = "recover" /\ UNCHANGED report
  /\ UNCHANGED <<server, cache, dirs, run>>

\* shutil.rmtree of a directory set aside: done, or stopped on the way, which
\* leaves some of its files.
Delete(q, b) == backups' = [backups EXCEPT ![q] = @ \ {b}]
HalfDelete(q, b) ==
  backups' = [backups EXCEPT ![q] = (@ \ {b}) \cup {[b EXCEPT !.intact = FALSE]}]

\* _recover_previous_directory: without a partition the only directory set
\* aside is put back, and two are an error; beside one, they are deleted one by
\* one.
Recover ==
  /\ pc = "recover"
  /\ \/ /\ backups[cur] = {}
        /\ pc' = "extract" /\ UNCHANGED <<dirs, report>>
     \/ /\ partition[cur] = None
        /\ \E b \in backups[cur] :
             IF backups[cur] = {b}
             THEN /\ partition' = [partition EXCEPT
                       ![cur] = [b.dir EXCEPT !.sound = @ /\ b.intact]]
                  /\ Delete(cur, b) /\ pc' = "extract" /\ UNCHANGED report
             ELSE Fail /\ UNCHANGED dirs
     \/ /\ partition[cur] # None
        /\ \E b \in backups[cur] : \/ Delete(cur, b) /\ UNCHANGED <<pc, report>>
                                   \/ HalfDelete(cur, b) /\ Fail
        /\ UNCHANGED partition
  /\ UNCHANGED <<server, cache, run>>

\* The archive is extracted and its tables are written beside the partition.
Extract ==
  /\ pc = "extract"
  /\ Whole(archive[cur])
  /\ staged' = [archive |-> archive[cur], sound |-> archive[cur].of \cap Flawed = {}]
  /\ pc' = "aside"
  /\ UNCHANGED <<server, cache, dirs, periods, cur, attempt, report>>

\* The pieces of several versions do not decompress: BadZipFile or zlib.error.
ExtractFails ==
  /\ pc = "extract"
  /\ ~Whole(archive[cur])
  /\ pc' = "aborted"
  /\ UNCHANGED <<server, cache, dirs, run, report>>

\* An OSError before anything was moved.
StageFails ==
  /\ pc \in {"extract", "aside"}
  /\ Fail
  /\ UNCHANGED <<server, cache, dirs, run>>

\* The old partition, if there is one, is set aside.
SetAside ==
  /\ pc = "aside"
  /\ IF partition[cur] = None
     THEN UNCHANGED dirs
     ELSE /\ partition' = [partition EXCEPT ![cur] = None]
          /\ \E n \in Names :
               /\ \A b \in backups[cur] : b.name # n
               /\ backups' = [backups EXCEPT
                    ![cur] = @ \cup {[name |-> n, dir |-> partition[cur], intact |-> TRUE]}]
  /\ pc' = "place"
  /\ UNCHANGED <<server, cache, run, report>>

\* The new one is put in its place.
Place ==
  /\ pc = "place"
  /\ partition' = [partition EXCEPT ![cur] = staged]
  /\ pc' = "cleanup"
  /\ UNCHANGED <<server, cache, backups, run, report>>

\* Mutant: the old partition is not put back.
PlaceFailsOpen ==
  /\ pc = "place"
  /\ backups' = [backups EXCEPT ![cur] = {}]
  /\ Fail
  /\ UNCHANGED <<server, cache, partition, run>>

\* It cannot be, and the old one is put back.
PlaceFails ==
  /\ pc = "place"
  /\ IF backups[cur] = {}
     THEN UNCHANGED dirs
     ELSE \E b \in backups[cur] :
            /\ partition' = [partition EXCEPT ![cur] = b.dir]
            /\ Delete(cur, b)
  /\ Fail
  /\ UNCHANGED <<server, cache, run>>

\* The directory set aside is deleted.
Cleanup ==
  /\ pc = "cleanup"
  /\ IF backups[cur] = {}
     THEN UNCHANGED backups /\ pc' = "verify" /\ UNCHANGED report
     ELSE \E b \in backups[cur] : \/ Delete(cur, b) /\ pc' = "verify" /\ UNCHANGED report
                                  \/ HalfDelete(cur, b) /\ Fail
  /\ UNCHANGED <<server, cache, partition, run>>

\* Mutant: the new partition is taken to be valid.
VerifyNothing ==
  /\ pc = "verify"
  /\ Record("STAGED")
  /\ UNCHANGED <<server, cache, dirs, run>>

\* The new partition must validate too.
Verify ==
  /\ pc = "verify"
  /\ Record(IF Valid(cur) THEN "STAGED" ELSE "FAILED")
  /\ UNCHANGED <<server, cache, dirs, run>>

Next ==
  \/ \E q \in Quarters : Republish(q) \/ DamageArchive(q) \/ DamagePartition(q)
  \/ Start \/ Advance \/ Crash
  \/ CacheHit \/ Request \/ Install \/ InstallFails \/ WriteManifest
  \/ Validate \/ Recover \/ Extract \/ ExtractFails \/ StageFails
  \/ SetAside \/ Place \/ PlaceFails \/ Cleanup \/ Verify

Spec == Init /\ [][Next]_vars

-----------------------------------------------------------------------------
(* What the acquisition promises *)

\* Whatever was interrupted, the next run can tell what to put back: beside a
\* missing partition there is at most one directory set aside, and a complete
\* one (_recover_previous_directory raises on "ambiguous interrupted directory
\* swap", which must never be reached).
RecoveryIsClear ==
  \A q \in Quarters : partition[q] = None =>
    \A b, c \in backups[q] : b = c /\ b.intact

\* A partition that was staged once is never lost, in whatever step of a swap
\* the process dies.
PartitionSurvives ==
  [][\A q \in Quarters :
       partition[q] # None \/ backups[q] # {} => partition'[q] # None \/ backups'[q] # {}]_vars

\* The report says STAGED only of quarters whose partition is that of a whole
\* archive, and validates (sec-history.md: "STAGED means these acquisition
\* checks passed").
StagedIsTrue ==
  [][report'.status = "STAGED" /\ report.status # "STAGED" =>
       \A q \in periods : Valid(q) /\ Whole(archive[q]) /\ archive[q].of \cap Flawed = {}]_vars

\* No shortened archive is used from the cache, however its download was
\* interrupted.
CachedIsComplete ==
  \A q \in Quarters : Cached(q) => \E v \in archive[q].of \cap Versions : archive[q].size = Size[v]

-----------------------------------------------------------------------------
(* Why it keeps them: the inductive invariant *)

\* The run has a quarter and a request left, nothing is set aside while it
\* builds a partition, and one stands when what was set aside is deleted.
RunInv ==
  /\ Running => cur \in Quarters
  /\ pc = "download" => attempt < MaxAttempts
  /\ pc \in {"extract", "aside"} => backups[cur] = {}
  /\ pc \in {"aside", "place"} => staged # None
  /\ pc = "cleanup" => partition[cur] # None

IInv == TypeOK /\ RunInv /\ RecoveryIsClear
=============================================================================
