-------------------------- MODULE PublicationProofs --------------------------
(***************************************************************************)
(* Proofs about Publication, for any templates, hosts, first publication   *)
(* and bounds: what survives a fault or a hard stop of the exporter, and   *)
(* that the site never goes back to older facts.                           *)
(***************************************************************************)
EXTENDS Publication, TLAPS

(* What is known of the run at work. *)

Dated(p) == p.run \in Nat /\ p.asOf \in Int /\ p.asOf <= clock

\* The exporter works for a run at one of three steps; a restore reads the site
\* only before the exporter does; a recovery has its artifact.
RunInv ==
  /\ pc # "idle" => run.step \in {"export", "restore", "attach"}
  /\ seen # None => /\ run.step = "restore" /\ pc \in {"idle", "recover"}
                    /\ Dated(seen)
  /\ run.kind = "none" => run.step = "none"
  /\ run.kind = "local" => run.step \notin {"gate", "deploy"}
  /\ run.kind = "recovery" => run.step = "deploy" /\ failed # None

\* Everything that can become the site has a run and a date of the past.
DatesInv ==
  /\ Dated(site.of)
  /\ pub # None => Dated(pub.of)
  /\ pub = None => Dated(prev.of)
  /\ pc = "recover" => Dated(data)
  /\ pc \in {"stage", "moveOld", "moveNew"} => Dated(tmp.of)
  /\ pc = "stage" => tmp = [of |-> tmp.of, written |-> tmp.written]
  /\ failed # None => failed.id \in Nat /\ Dated(failed.dir.of)

\* The directory through a swap.
DirInv ==
  /\ pub = None => prev # None /\ DirectoryValid(prev)
  /\ pub # None => DirectoryValid(pub)
  /\ DirectoryValid(site)
  /\ pc \in {"moveOld", "moveNew"} => DirectoryValid(tmp)
  /\ pc \in {"moveOld", "dropOld"} => pub # None
  /\ run.step = "deploy" /\ run.kind # "recovery" => pub # None
  /\ failed # None => DirectoryValid(failed.dir)

\* What a run is about to deploy is not older than the site.
Newer(p) == p.asOf >= site.of.asOf
Done == run.step \in {"settings", "gate", "deploy"} \/ (run.step = "attach" /\ pc = "idle")
NewerInv ==
  /\ run.kind \in {"refresh", "ui"} =>
       /\ seen # None => Newer(seen)
       /\ pc = "recover" => Newer(data)
       /\ pc \in {"stage", "moveOld", "moveNew"} => Newer(tmp.of)
       /\ pc = "dropOld" \/ Done => Newer(pub.of)
  /\ run.kind = "recovery" => Newer(failed.dir.of)

IInv == TypeOK /\ RunInv /\ DatesInv /\ DirInv /\ NewerInv

-----------------------------------------------------------------------------
(* Operators of the exporter and the gate *)

LEMMA ValidIsThere ==
  ASSUME NEW dir, DirectoryValid(dir)
  PROVE  dir # None
BY DEF DirectoryValid

LEMMA AllowedIsValid ==
  ASSUME NEW dir, DeploymentAllowed(dir)
  PROVE  DirectoryValid(dir)
BY DEF DeploymentAllowed

LEMMA PublishedDates ==
  ASSUME NEW d
  PROVE  PublicationOf(d).run = d.run /\ PublicationOf(d).asOf = d.asOf
BY DEF PublicationOf

LEMMA InputDates ==
  ASSUME NEW t, NEW id, NEW p, NEW s
  PROVE  /\ Input(t, id).run = id /\ Input(t, id).asOf = clock
         /\ InputOf(p, s).run = p.run /\ InputOf(p, s).asOf = p.asOf
         /\ Assembled.run = seen.run /\ Assembled.asOf = seen.asOf
         /\ Complete(p).of = p
BY DEF Input, InputOf, Assembled, Complete

LEMMA NoRunType == NoRun \in Runs /\ NoRun.kind = "none" /\ NoRun.step = "none" /\ NoRun.id = 0
BY DEF NoRun, Runs

LEMMA InitInv == Init => IInv
<1> SUFFICES ASSUME Init PROVE IInv
  OBVIOUS
<1>1. TypeOK /\ RunInv
  BY NoRunType, BoundsAssumption DEF Init, TypeOK, RunInv
<1>2. pub = Complete(Initial) /\ DirectoryValid(pub) /\ pub # None /\ site = pub
  <2>1. DirectoryValid(Complete(Initial))
    BY InitialAssumption DEF Complete
  <2> QED BY <2>1, ValidIsThere DEF Init
<1>3. Dated(pub.of)
  <2>1. Complete(Initial).of = Initial
    BY DEF Complete
  <2> QED BY <1>2, <2>1, InitialAssumption DEF Init, Dated
<1>4. DatesInv
  BY <1>2, <1>3 DEF Init, DatesInv
<1>5. DirInv /\ NewerInv
  BY <1>2, NoRunType DEF Init, DirInv, NewerInv
<1> QED BY <1>1, <1>4, <1>5 DEF IInv

-----------------------------------------------------------------------------
(* Steps *)

LEMMA RecoverKeeps ==
  ASSUME IInv, Recover
  PROVE  IInv'
<1>1. TypeOK'
  BY BoundsAssumption DEF IInv, TypeOK, Recover, RecoverDirectory, RemoveBackup
<1>2. RunInv'
  BY DEF IInv, RunInv, Recover
<1>3. DatesInv'
  BY PublishedDates DEF IInv, DatesInv, Dated, Recover, RecoverDirectory, siteVars
<1>4. DirInv'
  BY DEF IInv, DirInv, Recover, RecoverDirectory, siteVars
<1>5. NewerInv'
  BY PublishedDates DEF IInv, RunInv, NewerInv, Newer, Done, Recover, siteVars
<1> QED BY <1>1, <1>2, <1>3, <1>4, <1>5 DEF IInv

LEMMA WriteFileKeeps ==
  ASSUME IInv, WriteFile
  PROVE  IInv'
<1>1. TypeOK'
  BY DEF IInv, TypeOK, WriteFile, envVars
<1>2. RunInv'
  BY DEF IInv, RunInv, WriteFile
<1>3. DatesInv'
  BY DEF IInv, DatesInv, Dated, WriteFile, siteVars, envVars
<1>4. DirInv'
  BY DEF IInv, DirInv, WriteFile, siteVars
<1>5. NewerInv'
  BY DEF IInv, NewerInv, Newer, Done, WriteFile, siteVars
<1> QED BY <1>1, <1>2, <1>3, <1>4, <1>5 DEF IInv

LEMMA ValidateKeeps ==
  ASSUME IInv, Validate
  PROVE  IInv'
<1>1. TypeOK'
  BY BoundsAssumption DEF IInv, TypeOK, Validate, RecoverDirectory, RemoveBackup
<1>2. RunInv'
  BY DEF IInv, RunInv, Validate
<1>3. DatesInv'
  BY DEF IInv, DatesInv, Dated, Validate, RecoverDirectory, siteVars
<1>4. DirInv'
  BY DEF IInv, DirInv, Validate, RecoverDirectory, siteVars
<1>5. NewerInv'
  BY DEF IInv, RunInv, NewerInv, Newer, Done, Validate, siteVars
<1> QED BY <1>1, <1>2, <1>3, <1>4, <1>5 DEF IInv

LEMMA MoveOldKeeps ==
  ASSUME IInv, MoveOld
  PROVE  IInv'
<1>1. TypeOK'
  BY DEF IInv, TypeOK, MoveOld, envVars
<1>2. RunInv'
  BY DEF IInv, RunInv, MoveOld
<1>3. DatesInv'
  BY DEF IInv, DatesInv, Dated, MoveOld, siteVars, envVars
<1>4. DirInv'
  BY DEF IInv, RunInv, DirInv, MoveOld, siteVars
<1>5. NewerInv'
  BY DEF IInv, RunInv, NewerInv, Newer, Done, MoveOld, siteVars
<1> QED BY <1>1, <1>2, <1>3, <1>4, <1>5 DEF IInv

LEMMA MoveNewKeeps ==
  ASSUME IInv, MoveNew
  PROVE  IInv'
<1>1. TypeOK'
  BY DEF IInv, TypeOK, MoveNew, envVars
<1>2. RunInv'
  BY DEF IInv, RunInv, MoveNew
<1>3. DatesInv'
  BY ValidIsThere DEF IInv, DatesInv, DirInv, Dated, MoveNew, siteVars, envVars
<1>4. DirInv'
  BY ValidIsThere DEF IInv, DirInv, MoveNew, siteVars
<1>5. NewerInv'
  BY DEF IInv, NewerInv, Newer, MoveNew, siteVars
<1> QED BY <1>1, <1>2, <1>3, <1>4, <1>5 DEF IInv

LEMMA DropOldKeeps ==
  ASSUME IInv, DropOld
  PROVE  IInv'
<1>1. TypeOK'
  BY NoRunType, BoundsAssumption DEF IInv, TypeOK, Runs, DropOld, RemoveBackup
<1>2. RunInv'
  BY NoRunType DEF IInv, RunInv, DropOld
<1>3. DatesInv'
  BY DEF IInv, DatesInv, DirInv, Dated, DropOld, siteVars
<1>4. DirInv'
  BY DEF IInv, DirInv, DropOld, siteVars
<1>5. NewerInv'
  BY NoRunType DEF IInv, NewerInv, Newer, DropOld, siteVars
<1> QED BY <1>1, <1>2, <1>3, <1>4, <1>5 DEF IInv

LEMMA UndoneKeeps ==
  ASSUME IInv, Undone, clock' = clock, runs' = runs, crashes' \in 0..MaxCrashes
  PROVE  IInv'
<1>1. TypeOK'
  BY NoRunType DEF IInv, TypeOK, Undone
<1>2. RunInv'
  BY NoRunType DEF RunInv, Undone
<1>3. DatesInv'
  BY DEF IInv, DatesInv, Dated, Undone, siteVars
<1>4. DirInv'
  BY NoRunType DEF IInv, DirInv, Undone, siteVars
<1>5. NewerInv'
  BY NoRunType DEF NewerInv, Undone
<1> QED BY <1>1, <1>2, <1>3, <1>4, <1>5 DEF IInv

LEMMA FetchFileKeeps ==
  ASSUME IInv, FetchFile
  PROVE  IInv'
<1>1. TypeOK'
  BY DEF IInv, TypeOK, FetchFile, dirVars, envVars
<1>2. RunInv'
  BY DEF IInv, RunInv, Dated, FetchFile, dirVars, envVars
<1>3. DatesInv'
  BY DEF IInv, DatesInv, Dated, FetchFile, dirVars, siteVars, envVars
<1>4. DirInv'
  BY DEF IInv, DirInv, FetchFile, dirVars, siteVars
<1>5. NewerInv'
  BY DEF IInv, NewerInv, Newer, Done, FetchFile, dirVars, siteVars
<1> QED BY <1>1, <1>2, <1>3, <1>4, <1>5 DEF IInv

LEMMA FetchedAllKeeps ==
  ASSUME IInv, FetchedAll
  PROVE  IInv'
<1>1. TypeOK'
  BY DEF IInv, TypeOK, FetchedAll, StartExport, envVars
<1>2. RunInv'
  BY DEF IInv, RunInv, Dated, FetchedAll, StartExport, envVars
<1>3. DatesInv'
  BY InputDates DEF IInv, RunInv, DatesInv, Dated, FetchedAll, StartExport, siteVars, envVars
<1>4. DirInv'
  BY DEF IInv, DirInv, FetchedAll, StartExport, siteVars
<1>5. NewerInv'
  BY InputDates DEF IInv, NewerInv, Newer, Done, FetchedAll, StartExport, siteVars
<1> QED BY <1>1, <1>2, <1>3, <1>4, <1>5 DEF IInv

LEMMA ExportSettingsKeeps ==
  ASSUME IInv, ExportSettings
  PROVE  IInv'
<1>1. TypeOK'
  BY DEF IInv, TypeOK, Runs, ExportSettings, dirVars, envVars
<1>2. RunInv'
  BY DEF IInv, RunInv, ExportSettings
<1>3. DatesInv'
  BY DEF IInv, DatesInv, Dated, ExportSettings, dirVars, siteVars, envVars
<1>4. DirInv'
  BY DEF IInv, DirInv, ExportSettings, dirVars, siteVars
<1>5. NewerInv'
  BY DEF IInv, NewerInv, Newer, Done, ExportSettings, dirVars, siteVars
<1> QED BY <1>1, <1>2, <1>3, <1>4, <1>5 DEF IInv

LEMMA AttachKeeps ==
  ASSUME IInv, Attach
  PROVE  IInv'
<1>1. TypeOK'
  BY DEF IInv, TypeOK, Attach, StartExport, envVars
<1>2. RunInv'
  BY DEF IInv, RunInv, Attach
<1>3. DatesInv'
  BY InputDates, ValidIsThere DEF IInv, DatesInv, Dated, Attach, StartExport, siteVars, envVars
<1>4. DirInv'
  BY DEF IInv, DirInv, Attach, StartExport, siteVars
<1>5. NewerInv'
  BY InputDates DEF IInv, NewerInv, Newer, Done, Attach, StartExport, siteVars
<1> QED BY <1>1, <1>2, <1>3, <1>4, <1>5 DEF IInv

LEMMA GateKeeps ==
  ASSUME IInv, Gate
  PROVE  IInv'
<1>1. TypeOK'
  BY NoRunType DEF IInv, TypeOK, Runs, Gate, dirVars, envVars
<1>2. RunInv'
  BY NoRunType DEF IInv, RunInv, Gate, dirVars
<1>3. DatesInv'
  BY DEF IInv, DatesInv, Dated, Gate, dirVars, siteVars, envVars
<1>4. DirInv'
  BY AllowedIsValid, ValidIsThere, NoRunType DEF IInv, DirInv, Gate, dirVars, siteVars
<1>5. NewerInv'
  BY NoRunType DEF IInv, NewerInv, Newer, Done, Gate, dirVars, siteVars
<1> QED BY <1>1, <1>2, <1>3, <1>4, <1>5 DEF IInv

LEMMA DeployKeeps ==
  ASSUME IInv, Deploy
  PROVE  IInv'
<1>1. TypeOK'
  BY NoRunType DEF IInv, TypeOK, Deploy, dirVars, envVars
<1>2. RunInv'
  BY NoRunType DEF IInv, RunInv, Deploy, dirVars
<1>3. DatesInv'
  BY DEF IInv, TypeOK, Runs, DatesInv, DirInv, Dated, Deploy, dirVars, envVars
<1>4. DirInv'
  BY DEF IInv, DirInv, Deploy, dirVars
<1>5. NewerInv'
  BY NoRunType DEF NewerInv, Deploy
<1> QED BY <1>1, <1>2, <1>3, <1>4, <1>5 DEF IInv

LEMMA DeployRecoveredKeeps ==
  ASSUME IInv, DeployRecovered
  PROVE  IInv'
<1>1. TypeOK'
  BY NoRunType DEF IInv, TypeOK, DeployRecovered, dirVars, envVars
<1>2. RunInv'
  BY NoRunType DEF IInv, RunInv, DeployRecovered, dirVars
<1>3. DatesInv'
  BY DEF IInv, RunInv, DatesInv, Dated, DeployRecovered, dirVars, envVars
<1>4. DirInv'
  BY NoRunType DEF IInv, RunInv, DirInv, DeployRecovered, dirVars
<1>5. NewerInv'
  BY NoRunType DEF NewerInv, DeployRecovered
<1> QED BY <1>1, <1>2, <1>3, <1>4, <1>5 DEF IInv

LEMMA BeginRefreshKeeps ==
  ASSUME IInv, BeginRefresh
  PROVE  IInv'
<1>1. TypeOK'
  BY BoundsAssumption DEF IInv, TypeOK, Runs, BeginRefresh, StartExport
<1>2. RunInv'
  BY NoRunType DEF IInv, RunInv, BeginRefresh
<1>3. DatesInv'
  BY InputDates DEF IInv, TypeOK, DatesInv, Dated, BeginRefresh, StartExport, siteVars
<1>4. DirInv'
  BY DEF IInv, DirInv, BeginRefresh, StartExport, siteVars
<1>5. NewerInv'
  BY InputDates, NoRunType DEF IInv, RunInv, DatesInv, Dated, NewerInv, Newer, Done, BeginRefresh,
                               StartExport, siteVars
<1> QED BY <1>1, <1>2, <1>3, <1>4, <1>5 DEF IInv

LEMMA PrepareRecoveryKeeps ==
  ASSUME IInv, PrepareRecovery
  PROVE  IInv'
<1>1. TypeOK'
  BY DEF IInv, TypeOK, DatesInv, Runs, PrepareRecovery, Eligible, dirVars, envVars
<1>2. RunInv'
  BY NoRunType DEF IInv, RunInv, PrepareRecovery, Eligible, dirVars
<1>3. DatesInv'
  BY DEF IInv, DatesInv, Dated, PrepareRecovery, dirVars, envVars
<1>4. DirInv'
  BY DEF IInv, DirInv, PrepareRecovery, dirVars
<1>5. NewerInv'
  BY DEF IInv, DatesInv, Dated, NewerInv, Newer, Done, PrepareRecovery, Eligible, NotOlder, dirVars
<1> QED BY <1>1, <1>2, <1>3, <1>4, <1>5 DEF IInv

LEMMA OtherDeployKeeps ==
  ASSUME IInv, OtherDeploy
  PROVE  IInv'
<1>1. TypeOK'
  BY DEF IInv, TypeOK, OtherDeploy, dirVars, envVars
<1>2. RunInv'
  BY DEF IInv, RunInv, Dated, OtherDeploy, dirVars, envVars
<1>3. DatesInv'
  <2>1. PICK t \in Templates :
          site' = Complete(PublicationOf(Input(t, MaxRuns + clock)))
    BY DEF OtherDeploy
  <2>2. site'.of.run = MaxRuns + clock /\ site'.of.asOf = clock
    BY <2>1, InputDates, PublishedDates
  <2> QED BY <2>2, BoundsAssumption
          DEF IInv, TypeOK, DatesInv, Dated, OtherDeploy, dirVars, envVars
<1>4. DirInv'
  BY AllowedIsValid DEF IInv, DirInv, OtherDeploy, dirVars
<1>5. NewerInv'
  BY DEF NewerInv, OtherDeploy
<1> QED BY <1>1, <1>2, <1>3, <1>4, <1>5 DEF IInv

LEMMA RestoreKeeps ==
  ASSUME IInv, NEW kind \in {"ui", "local"}, BeginRestore(kind)
  PROVE  IInv'
<1>1. TypeOK'
  BY DEF IInv, TypeOK, DatesInv, Dated, Runs, BeginRestore, dirVars, envVars
<1>2. RunInv'
  BY NoRunType DEF IInv, RunInv, DatesInv, Dated, BeginRestore, dirVars, envVars
<1>3. DatesInv'
  BY DEF IInv, DatesInv, Dated, BeginRestore, dirVars, siteVars, envVars
<1>4. DirInv'
  BY DEF IInv, DirInv, BeginRestore, dirVars, siteVars
<1>5. NewerInv'
  BY NoRunType DEF IInv, RunInv, DatesInv, Dated, NewerInv, Newer, Done, BeginRestore, dirVars, siteVars
<1> QED BY <1>1, <1>2, <1>3, <1>4, <1>5 DEF IInv

LEMMA KillKeeps ==
  ASSUME IInv, Kill
  PROVE  IInv'
<1>1. TypeOK'
  BY NoRunType, BoundsAssumption DEF IInv, TypeOK, Kill
<1>2. RunInv'
  BY NoRunType DEF RunInv, Kill
<1>3. DatesInv'
  BY DEF IInv, DatesInv, Dated, Kill, siteVars
<1>4. DirInv'
  BY NoRunType DEF IInv, DirInv, Kill, siteVars
<1>5. NewerInv'
  BY NoRunType DEF NewerInv, Kill
<1> QED BY <1>1, <1>2, <1>3, <1>4, <1>5 DEF IInv

LEMMA TickKeeps ==
  ASSUME IInv, Tick
  PROVE  IInv'
<1>1. TypeOK'
  BY BoundsAssumption DEF IInv, TypeOK, Tick, dirVars
<1>2. RunInv'
  BY DEF IInv, TypeOK, RunInv, Dated, Tick, dirVars, siteVars
<1>3. DatesInv'
  BY DEF IInv, TypeOK, DatesInv, Dated, Tick, dirVars, siteVars
<1>4. DirInv'
  BY DEF IInv, DirInv, Tick, dirVars, siteVars
<1>5. NewerInv'
  BY DEF IInv, NewerInv, Newer, Done, Tick, dirVars, siteVars
<1> QED BY <1>1, <1>2, <1>3, <1>4, <1>5 DEF IInv

LEMMA NextKeeps ==
  ASSUME IInv, [Next]_vars
  PROVE  IInv'
<1>1. CASE UNCHANGED vars
  BY <1>1 DEF vars, dirVars, siteVars, envVars, IInv, TypeOK, RunInv, DatesInv, DirInv,
              NewerInv, Dated, Newer, Done
<1>2. ASSUME NEW kind \in {"ui", "local"}, BeginRestore(kind)
      PROVE  IInv'
  BY <1>2, RestoreKeeps
<1>3. CASE Refused \/ FetchMismatch
  <2>1. Undone /\ clock' = clock /\ runs' = runs /\ crashes' = crashes
    BY <1>3 DEF Refused, FetchMismatch, envVars
  <2> QED BY <2>1, UndoneKeeps DEF IInv, TypeOK
<1>4. CASE Fault
  <2>1. Undone /\ clock' = clock /\ runs' = runs /\ crashes' \in 0..MaxCrashes
    BY <1>4, BoundsAssumption DEF Fault, IInv, TypeOK
  <2> QED BY <2>1, UndoneKeeps
<1> QED
  BY <1>1, <1>2, <1>3, <1>4, RecoverKeeps, WriteFileKeeps, ValidateKeeps, MoveOldKeeps,
     MoveNewKeeps, DropOldKeeps, FetchFileKeeps, FetchedAllKeeps, ExportSettingsKeeps,
     AttachKeeps, GateKeeps, DeployKeeps, DeployRecoveredKeeps, BeginRefreshKeeps,
     PrepareRecoveryKeeps, OtherDeployKeeps, KillKeeps, TickKeeps
  DEF Next, Work, Export

LEMMA InvHolds == Spec => []IInv
BY InitInv, NextKeeps, PTL DEF Spec

-----------------------------------------------------------------------------
(* Theorems *)

\* Steps, runs and bounds are what they should be (export_dashboard, pages.yml).
THEOREM TypeCorrect == Spec => []TypeOK
<1>1. IInv => TypeOK
  BY DEF IInv
<1> QED BY <1>1, InvHolds, PTL

\* A publication survives every fault and hard stop: a missing directory has a
\* whole backup (_replace_directory, _recover_directory).
THEOREM NeverLost == Spec => []DirectoryNeverLost
<1>1. IInv => DirectoryNeverLost
  BY DEF IInv, DirInv, DirectoryNeverLost
<1> QED BY <1>1, InvHolds, PTL

\* What is read from the workspace or the site is a whole and valid publication
\* (validate_dashboard_directory before every swap and deployment).
THEOREM AlwaysWhole == Spec => []PublishedIsWhole
<1>1. IInv => PublishedIsWhole
  BY DEF IInv, DirInv, PublishedIsWhole
<1> QED BY <1>1, InvHolds, PTL

\* No deployment, of a refresh, a UI run or a recovered artifact, goes back to
\* older facts (publication_recovery's date rule, the concurrency group).
THEOREM NeverOlder == Spec => SiteNeverOlder
<1>1. IInv /\ [Next]_vars => [site'.of.asOf >= site.of.asOf]_vars
  <2> SUFFICES ASSUME IInv, [Next]_vars PROVE site'.of.asOf >= site.of.asOf
    OBVIOUS
  <2>0. site.of.asOf \in Int
    BY DEF IInv, DatesInv, Dated
  <2>1. CASE site' = site
    BY <2>0, <2>1
  <2>2. CASE Deploy
    <3>1. run.kind \in {"refresh", "ui"} => Newer(pub.of)
      BY <2>2 DEF Deploy, IInv, NewerInv, Done
    <3>2. run.kind \in {"refresh", "ui"}
      BY <2>2 DEF Deploy, IInv, TypeOK, Runs, RunInv
    <3> QED BY <2>0, <2>2, <3>1, <3>2 DEF Deploy, Newer
  <2>3. CASE DeployRecovered
    BY <2>0, <2>3 DEF DeployRecovered, IInv, NewerInv, Newer
  <2>4. CASE OtherDeploy
    <3>1. PICK t \in Templates :
            site' = Complete(PublicationOf(Input(t, MaxRuns + clock)))
      BY <2>4 DEF OtherDeploy
    <3>2. site'.of.asOf = clock
      BY <3>1, InputDates, PublishedDates
    <3> QED BY <3>2 DEF IInv, DatesInv, Dated, TypeOK
  <2> QED BY <2>1, <2>2, <2>3, <2>4
      DEF Next, Work, Export, vars, siteVars, dirVars, Recover, WriteFile, Validate, MoveOld,
          MoveNew, DropOld, Refused, Undone, FetchFile, FetchMismatch, FetchedAll,
          ExportSettings, Attach, Gate, BeginRefresh, BeginRestore, PrepareRecovery, Fault,
          Kill, Tick
<1> QED BY <1>1, InvHolds, PTL DEF SiteNeverOlder, Spec
=============================================================================
