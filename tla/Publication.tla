----------------------------- MODULE Publication -----------------------------
(***************************************************************************)
(* The published directory, the site and the runs that replace them        *)
(* (export/dashboard.py, restore.py, settings.py; publication_recovery.py, *)
(* pipeline_watchdog.py; .github/workflows/pages.yml and                   *)
(* publication-watchdog.yml).                                              *)
(*                                                                         *)
(* A workspace holds the directory, its backup during a swap, and the      *)
(* directory under construction.  A refresh exports new data, a UI run     *)
(* restores the deployed publication file by file; both attach the         *)
(* settings, pass the gate and deploy.  A local run is an operator's       *)
(* restore: no concurrency group keeps other deployments away from it.     *)
(* A run whose deployment failed leaves its sealed artifact, which the     *)
(* watchdog may deploy once.  A command may be killed at any point; the    *)
(* workspace survives and the next command starts in it.                   *)
(***************************************************************************)
EXTENDS Dashboard, Sequences

CONSTANTS Templates,    \* what the inputs of a refresh may look like
          Hosts,        \* delivery policy and secrets of a machine
          Initial,      \* the publication checked in, also the one first deployed
          MaxClock, MaxRuns, MaxCrashes

ASSUME BoundsAssumption == /\ MaxClock \in Nat /\ MaxRuns \in Nat /\ MaxCrashes \in Nat
ASSUME InitialAssumption == /\ Initial.run \in Nat /\ Initial.asOf \in Int /\ Initial.asOf <= 0
                            /\ DirectoryValid([of |-> Initial, written |-> Listed(Initial)
                                                                 \union {"manifest"}])

VARIABLES
    pub, prev, tmp,     \* the directory, .previous, the directory under construction, or None
    data,               \* the exporter's input, or None
    pc,                 \* where the exporter is
    run,                \* the run at work, or NoRun
    status,             \* settings-status.json in the workspace, or None
    seen, fetched,      \* the manifest a restore read, and the files it has of it
    site,               \* the deployed directory
    failed,             \* the last run whose deployment failed, with its artifact, or None
    claimed,            \* source runs whose recovery is claimed on the branch
    clock, runs, crashes

NoRun == [id |-> 0, kind |-> "none", step |-> "none"]

dirVars  == <<pub, prev, tmp, data, pc>>
siteVars == <<site, failed, claimed>>
envVars  == <<clock, runs, crashes>>
vars == <<dirVars, run, status, seen, fetched, siteVars, envVars>>

Complete(p) == [of |-> p, written |-> Listed(p) \union {"manifest"}]

Init ==
    /\ pub = Complete(Initial) /\ site = Complete(Initial)
    /\ prev = None /\ tmp = None /\ data = None /\ pc = "idle"
    /\ run = NoRun /\ status = None /\ seen = None /\ fetched = <<>>
    /\ failed = None /\ claimed = {}
    /\ clock = 0 /\ runs = 0 /\ crashes = 0

(* The exporter: export_dashboard. *)

StartExport(input) ==
    data' = input /\ pc' = "recover"

(* shutil.rmtree(ignore_errors=True): what cannot be removed stays. *)
RemoveBackup ==
    \/ prev' = None /\ UNCHANGED crashes
    \/ /\ prev # None /\ crashes < MaxCrashes
       /\ crashes' = crashes + 1
       /\ prev' = [prev EXCEPT !.written = {}]

\* Mutant: a backup that is there stops every export.
RecoverNothing == prev = None /\ UNCHANGED <<pub, prev, crashes>>

(* _recover_directory: what the backup says about the last swap. *)
RecoverDirectory ==
    \/ prev = None /\ UNCHANGED <<pub, prev, crashes>>
    \/ /\ prev # None /\ pub = None
       /\ pub' = prev /\ prev' = None /\ UNCHANGED crashes
    \/ /\ prev # None /\ pub # None
       /\ RemoveBackup /\ UNCHANGED pub

Recover ==
    /\ pc = "recover"
    /\ RecoverDirectory
    /\ pc' = "stage"
    /\ tmp' = [of |-> PublicationOf(data), written |-> {}]
    /\ seen' = None
    /\ UNCHANGED <<data, run, status, fetched, siteVars, clock, runs>>

(* One file after the other, the manifest last. *)
ToWrite(dir) == (Listed(dir.of) \union {"manifest"}) \ dir.written
NextFile(dir) == CHOOSE f \in ToWrite(dir) :
                   \A i, j \in 1..Len(FileOrder) :
                      FileOrder[i] = f /\ FileOrder[j] \in ToWrite(dir) => i <= j

WriteFile ==
    /\ pc = "stage" /\ ToWrite(tmp) # {}
    /\ tmp' = [tmp EXCEPT !.written = @ \union {NextFile(tmp)}]
    /\ UNCHANGED <<pub, prev, data, pc, run, status, seen, fetched, siteVars, envVars>>

\* Mutant: the staged directory is not validated before the swap.
ValidateNothing ==
    /\ pc = "stage" /\ ToWrite(tmp) = {}
    /\ RecoverDirectory
    /\ pc' = IF pub' = None THEN "moveNew" ELSE "moveOld"
    /\ UNCHANGED <<tmp, data, run, status, seen, fetched, siteVars, clock, runs>>

(* The staged directory is validated; _replace_directory recovers once more and swaps. *)
Validate ==
    /\ pc = "stage" /\ ToWrite(tmp) = {}
    /\ DirectoryValid(tmp)
    /\ RecoverDirectory
    /\ pc' = IF pub' = None THEN "moveNew" ELSE "moveOld"
    /\ UNCHANGED <<tmp, data, run, status, seen, fetched, siteVars, clock, runs>>

\* Mutant: the old directory is removed before the new one is moved in.
MoveOldDeleting ==
    /\ pc = "moveOld" /\ prev = None
    /\ pub' = None
    /\ pc' = "moveNew"
    /\ UNCHANGED <<prev, tmp, data, run, status, seen, fetched, siteVars, envVars>>

MoveOld ==
    /\ pc = "moveOld" /\ prev = None
    /\ prev' = pub /\ pub' = None
    /\ pc' = "moveNew"
    /\ UNCHANGED <<tmp, data, run, status, seen, fetched, siteVars, envVars>>

MoveNew ==
    /\ pc = "moveNew"
    /\ pub' = tmp /\ tmp' = None
    /\ pc' = "dropOld"
    /\ UNCHANGED <<prev, data, run, status, seen, fetched, siteVars, envVars>>

DropOld ==
    /\ pc = "dropOld"
    /\ RemoveBackup
    /\ pc' = "idle" /\ data' = None
    /\ run' = IF run.step # "attach" THEN [run EXCEPT !.step = "settings"]
              ELSE IF run.kind # "local" THEN [run EXCEPT !.step = "gate"] ELSE NoRun
    /\ UNCHANGED <<pub, tmp, status, seen, fetched, siteVars, clock, runs>>

(* An exception: the construction is removed, and a swap under way is undone. *)
Undone ==
    /\ tmp' = None /\ data' = None /\ pc' = "idle" /\ run' = NoRun
    /\ seen' = None /\ fetched' = <<>>
    /\ IF pc = "moveNew" /\ pub = None /\ prev # None
       THEN pub' = prev /\ prev' = None
       ELSE UNCHANGED <<pub, prev>>
    /\ UNCHANGED <<status, siteVars>>

Refused ==
    /\ \/ pc = "stage" /\ ToWrite(tmp) = {} /\ ~DirectoryValid(tmp)
       \/ pc = "moveOld" /\ prev # None
    /\ Undone
    /\ UNCHANGED envVars

Fault ==
    /\ pc \in {"recover", "stage", "moveOld", "moveNew"}
    /\ crashes < MaxCrashes /\ crashes' = crashes + 1
    /\ Undone
    /\ UNCHANGED <<clock, runs>>

(* A hard stop: nothing is undone, and what was under construction is never read again. *)
Kill ==
    /\ run # NoRun /\ crashes < MaxCrashes
    /\ crashes' = crashes + 1
    /\ tmp' = None /\ data' = None /\ pc' = "idle" /\ run' = NoRun
    /\ seen' = None /\ fetched' = <<>>
    /\ UNCHANGED <<pub, prev, status, siteVars, clock, runs>>

(* The runs of pages.yml and an operator's restore. *)

Input(t, id) ==
    [run |-> id, asOf |-> clock, status |-> t.status, quality |-> t.quality, rows |-> t.rows,
     signals |-> IF t.signals THEN id ELSE None,
     research |-> IF t.research = None THEN None
                  ELSE [run |-> id, asOf |-> clock, facts |-> t.research.facts,
                        dashboard |-> t.research.dashboard,
                        predictive |-> t.research.predictive],
     settings |-> None]

BeginRefresh ==
    /\ run = NoRun /\ runs < MaxRuns
    /\ runs' = runs + 1
    /\ run' = [id |-> runs + 1, kind |-> "refresh", step |-> "export"]
    /\ \E t \in Templates : StartExport(Input(t, runs + 1))
    /\ UNCHANGED <<pub, prev, tmp, status, seen, fetched, siteVars, clock, crashes>>

(* restore_publication reads the manifest, then every file it lists. *)
Part(p, f) ==
    CASE f = "dashboard" -> [asOf |-> p.asOf, status |-> p.status, rows |-> p.rows]
      [] f = "research"  -> p.research
      [] f = "settings"  -> p.settings
      [] f = "signals"   -> p.signals

BeginRestore(kind) ==
    /\ run = NoRun
    /\ run' = [id |-> site.of.run, kind |-> kind, step |-> "restore"]
    /\ seen' = site.of /\ fetched' = <<>>
    /\ UNCHANGED <<dirVars, status, siteVars, envVars>>

Intact(f) == f \in Listed(site.of) /\ Part(site.of, f) = Part(seen, f)    \* size and hash agree

FetchFile ==
    /\ seen # None /\ pc = "idle"
    /\ \E f \in Listed(seen) \ DOMAIN fetched :
          /\ Intact(f)
          /\ fetched' = [g \in DOMAIN fetched \union {f} |->
                            IF g = f THEN Part(site.of, f) ELSE fetched[g]]
    /\ UNCHANGED <<dirVars, run, status, seen, siteVars, envVars>>

FetchMismatch ==
    /\ seen # None /\ pc = "idle"
    /\ \E f \in Listed(seen) \ DOMAIN fetched : ~Intact(f)
    /\ Undone
    /\ UNCHANGED envVars

Assembled ==
    [run |-> seen.run, asOf |-> seen.asOf, quality |-> seen.quality,
     status |-> fetched["dashboard"].status, rows |-> fetched["dashboard"].rows,
     research |-> IF "research" \in DOMAIN fetched THEN fetched["research"] ELSE None,
     signals |-> IF "signals" \in DOMAIN fetched THEN fetched["signals"] ELSE None,
     settings |-> fetched["settings"]]

FetchedAll ==
    /\ seen # None /\ pc = "idle" /\ DOMAIN fetched = Listed(seen)
    /\ StartExport(Assembled)
    /\ fetched' = <<>>
    /\ UNCHANGED <<pub, prev, tmp, run, status, seen, siteVars, envVars>>

(* export-settings-status; an operator may instead keep the file that is there. *)
ExportSettings ==
    /\ run.step = "settings" /\ pc = "idle"
    /\ run' = [run EXCEPT !.step = "attach"]
    /\ \/ \E h \in Hosts :
             /\ DirectoryValid(pub)
             /\ status' = BuiltSettings(h, AlertsAllowed(pub.of) /\ h.delivery,
                                        pub.of.quality.issues)
       \/ run.kind = "local" /\ status # None /\ UNCHANGED status
    /\ UNCHANGED <<dirVars, seen, fetched, siteVars, envVars>>

(* attach_settings exports the directory again with the settings in it. *)
Attach ==
    /\ run.step = "attach" /\ pc = "idle"
    /\ DirectoryValid(pub)
    /\ StartExport(InputOf(pub.of, status))
    /\ UNCHANGED <<pub, prev, tmp, run, status, seen, fetched, siteVars, envVars>>

Gate ==
    /\ run.step = "gate"
    /\ run' = IF DeploymentAllowed(pub) THEN [run EXCEPT !.step = "deploy"] ELSE NoRun
    /\ UNCHANGED <<dirVars, status, seen, fetched, siteVars, envVars>>

(* Deployment, which may take effect although it is reported as failed. *)

Deploy ==
    /\ run.step = "deploy" /\ run.kind # "recovery"
    /\ run' = NoRun
    /\ \/ site' = pub /\ UNCHANGED failed
       \/ /\ failed' = [id |-> run.id, dir |-> pub, at |-> clock]
          /\ site' \in {pub, site}
    /\ UNCHANGED <<dirVars, status, seen, fetched, claimed, envVars>>

(* The watchdog: an artifact not older than the site, at most a day old, once. *)

\* Mutant: an artifact is deployed whatever its date.
NotOlderUnchecked(p) == TRUE
NotOlder(p) == \/ p.asOf > site.of.asOf
               \/ p.asOf = site.of.asOf /\ p.run = site.of.run

Eligible ==
    /\ failed # None
    /\ clock - failed.at <= 1
    /\ NotOlder(failed.dir.of)
    /\ DeploymentAllowed(failed.dir)
    /\ failed.dir # site

PrepareRecovery ==
    /\ run = NoRun
    /\ Eligible /\ <<failed.id, failed.at>> \notin claimed
    /\ claimed' = claimed \union {<<failed.id, failed.at>>}
    /\ run' \in {NoRun, [id |-> failed.id, kind |-> "recovery", step |-> "deploy"]}
    /\ UNCHANGED <<dirVars, status, seen, fetched, site, failed, envVars>>

(* Three attempts, of which the last may fail too. *)
DeployRecovered ==
    /\ run.kind = "recovery"
    /\ run' = NoRun
    /\ site' \in {failed.dir, site}
    /\ UNCHANGED <<dirVars, status, seen, fetched, failed, claimed, envVars>>

(* Another workflow of the group deploys fresh data, also beside an operator. *)
OtherDeploy ==
    /\ run.kind \in {"none", "local"}
    /\ site.of.asOf < clock
    /\ \E t \in Templates :
          LET dir == Complete(PublicationOf(Input(t, MaxRuns + clock)))
          IN  DeploymentAllowed(dir) /\ site' = dir
    /\ UNCHANGED <<dirVars, run, status, seen, fetched, failed, claimed, envVars>>

Tick ==
    /\ clock < MaxClock /\ clock' = clock + 1
    /\ UNCHANGED <<dirVars, run, status, seen, fetched, siteVars, runs, crashes>>

Export == \/ Recover \/ WriteFile \/ Validate \/ MoveOld \/ MoveNew
          \/ DropOld \/ Refused

Work == \/ Export
        \/ FetchFile \/ FetchMismatch \/ FetchedAll
        \/ ExportSettings \/ Attach \/ Gate
        \/ Deploy \/ DeployRecovered

Next == \/ Work
        \/ BeginRefresh \/ BeginRestore("ui") \/ BeginRestore("local")
        \/ PrepareRecovery \/ OtherDeploy
        \/ Fault \/ Kill \/ Tick

Spec == Init /\ [][Next]_vars

(* A started command goes on, and commands go on being given. *)
FairSpec == Spec /\ WF_vars(Work) /\ WF_vars(BeginRestore("ui"))

-----------------------------------------------------------------------------
(* Properties *)

(* Type correctness. *)
Runs == [id : Nat, kind : {"none", "refresh", "ui", "local", "recovery"},
         step : {"none", "export", "restore", "settings", "attach", "gate", "deploy"}]

TypeOK ==
    /\ pc \in {"idle", "recover", "stage", "moveOld", "moveNew", "dropOld"}
    /\ run \in Runs
    /\ clock \in 0..MaxClock /\ runs \in 0..MaxRuns /\ crashes \in 0..MaxCrashes

(***************************************************************************)
(* A publication is never lost: whenever the directory is missing, which   *)
(* is the moment between the two renames of _replace_directory or a hard   *)
(* stop there, the backup is a whole and valid publication that            *)
(* _recover_directory will put back.                                       *)
(***************************************************************************)
DirectoryNeverLost == pub = None => prev # None /\ DirectoryValid(prev)

(***************************************************************************)
(* What the dashboard reads, from the workspace or from the site, is a     *)
(* whole publication that passed validate_dashboard_directory: no part of  *)
(* one that was being built, removed or refused.                           *)
(***************************************************************************)
PublishedIsWhole == /\ pub # None => DirectoryValid(pub)
                    /\ DirectoryValid(site)

(***************************************************************************)
(* The site never goes back to older facts, whatever refresh, UI restore   *)
(* or recovered artifact is deployed.                                      *)
(***************************************************************************)
SiteNeverOlder == [][site'.of.asOf >= site.of.asOf]_vars

(***************************************************************************)
(* After a hard stop between the renames a publication is there again, as  *)
(* long as commands that were begun go on and commands are begun at all.   *)
(***************************************************************************)
Republished == pub = None ~> pub # None

=============================================================================
