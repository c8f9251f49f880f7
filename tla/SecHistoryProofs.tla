--------------------------- MODULE SecHistoryProofs ---------------------------
(***************************************************************************)
(* Proofs about SecHistory, for any quarters, versions and sizes.          *)
(***************************************************************************)
EXTENDS SecHistory, TLAPS

\* Which quarters and versions there are never changes.
LEMMA VersionsFacts ==
  /\ Versions \subseteq Nat \ {0}
  /\ \A q \in Quarters : 1 \in Versions /\ \A v \in Versions : v < Latest[q] => v + 1 \in Versions
BY SizesAssumption DEF Versions

\* A file that grows by pieces of the served version is a file.
LEMMA AppendedType ==
  ASSUME TypeOK, cur \in Quarters, NEW c \in Contents, NEW k \in Nat
  PROVE  Appended(c, k) \in Contents
BY DEF TypeOK, Contents, Appended

\* An empty directory is a content.
LEMMA EmptyType == Empty \in Contents
BY DEF Empty, Contents

\* The initial state satisfies the invariant.
LEMMA InitTyped == Init => IInv
<1> SUFFICES ASSUME Init PROVE IInv
  OBVIOUS
<1>1. TypeOK
  BY SizesAssumption, VersionsFacts, EmptyType DEF Init, TypeOK, Reports
<1>2. RunInv /\ RecoveryIsClear
  BY DEF Init, RunInv, RecoveryIsClear, Running
<1> QED BY <1>1, <1>2 DEF IInv

-----------------------------------------------------------------------------
(* Types *)

\* An entry leaves a report.
LEMMA RecordTyped ==
  ASSUME TypeOK, cur \in Quarters, NEW status \in {"STAGED", "FAILED"}, Record(status)
  PROVE  report' \in Reports /\ pc' = "recorded"
BY DEF TypeOK, Record, Reports

\* A request is counted, and either it was the last one or there is another.
LEMMA AgainTyped ==
  ASSUME TypeOK, RunInv, pc = "download", Again
  PROVE  /\ attempt' = attempt + 1 /\ report' \in Reports
         /\ pc' = "recorded" \/ (pc' = "download" /\ attempt' < MaxAttempts)
<1>1. cur \in Quarters
  BY DEF RunInv, Running
<1>2. CASE attempt + 1 < MaxAttempts
  BY <1>2 DEF Again, TypeOK
<1>3. CASE ~(attempt + 1 < MaxAttempts)
  BY <1>1, <1>3, RecordTyped DEF Again, Fail
<1> QED BY <1>2, <1>3

\* What one request leaves.
LEMMA RequestTyped ==
  ASSUME TypeOK, RunInv, Request
  PROVE  /\ part' \in [Quarters -> Contents]
         /\ attempt' \in 0..MaxAttempts
         /\ report' \in Reports
         /\ pc' \in {"received", "recorded"} \/ (pc' = "download" /\ attempt' < MaxAttempts)
<1>1. cur \in Quarters /\ pc = "download" /\ attempt \in Nat /\ attempt < MaxAttempts
  BY DEF RunInv, Running, Request, TypeOK
<1>2. part \in [Quarters -> Contents] /\ part[cur] \in Contents /\ Size[server[cur]] \in Nat
  BY <1>1, SizesAssumption DEF TypeOK
<1>3. \/ Again \/ (Fail /\ attempt' = attempt + 1)
      \/ (pc' = "received" /\ attempt' = attempt + 1 /\ UNCHANGED report)
  BY DEF Request, FullResponse, PartialResponse, NoBody, PartRefused
<1>4. /\ attempt' = attempt + 1 /\ report' \in Reports
      /\ pc' \in {"received", "recorded"} \/ (pc' = "download" /\ attempt' < MaxAttempts)
  <2>1. CASE Again
    BY <2>1, <1>1, AgainTyped
  <2>2. CASE Fail /\ attempt' = attempt + 1
    BY <2>2, <1>1, RecordTyped DEF Fail
  <2>3. CASE pc' = "received" /\ attempt' = attempt + 1 /\ UNCHANGED report
    BY <2>3 DEF TypeOK
  <2> QED BY <1>3, <2>1, <2>2, <2>3
<1>5. part' \in [Quarters -> Contents]
  <2>1. CASE FullResponse
    BY <2>1, <1>1, <1>2, EmptyType, AppendedType DEF FullResponse
  <2>2. CASE PartialResponse
    BY <2>2, <1>1, <1>2, AppendedType DEF PartialResponse
  <2>3. CASE NoBody \/ PartRefused
    BY <2>3, <1>1, <1>2, EmptyType DEF NoBody, PartRefused
  <2> QED BY <2>1, <2>2, <2>3 DEF Request
<1> QED BY <1>1, <1>4, <1>5, SizesAssumption

\* A directory put back keeps its type: a partition, sound or not.
LEMMA BackupFacts ==
  ASSUME TypeOK, cur \in Quarters, NEW b \in backups[cur]
  PROVE  /\ b \in Backups /\ b.dir \in Partitions /\ b.dir # None
         /\ [b EXCEPT !.intact = FALSE] \in Backups
         /\ [b.dir EXCEPT !.sound = @ /\ b.intact] \in Partitions
<1>1. b \in Backups
  BY DEF TypeOK
<1>2. b.dir \in Partitions /\ b.dir # None /\ [b EXCEPT !.intact = FALSE] \in Backups
  BY <1>1, NoneAssumption DEF Backups
<1>3. [b.dir EXCEPT !.sound = @ /\ b.intact] \in Partitions
  <2>1. (b.dir.sound /\ b.intact) \in BOOLEAN
    OBVIOUS
  <2> QED BY <1>2, <2>1 DEF Partitions
<1> QED BY <1>1, <1>2, <1>3

-----------------------------------------------------------------------------
(* The inductive invariant *)

\* Steps that move no directory keep what was said of directories.
LEMMA SameDirs ==
  ASSUME RecoveryIsClear, UNCHANGED dirs PROVE RecoveryIsClear'
BY DEF RecoveryIsClear, dirs

\* Outside the run.
LEMMA OutsideKeeps ==
  ASSUME IInv, NEW q \in Quarters, Republish(q) \/ DamageArchive(q) \/ DamagePartition(q)
  PROVE  IInv'
<1> USE DEF IInv
<1>1. CASE Republish(q)
  <2>1. server' \in [Quarters -> Versions]
    BY <1>1, VersionsFacts DEF Republish, TypeOK
  <2>2. TypeOK'
    BY <1>1, <2>1 DEF Republish, TypeOK, cache, dirs, run
  <2>3. RunInv'
    BY <1>1 DEF Republish, RunInv, Running, cache, dirs, run
  <2> QED BY <1>1, <2>2, <2>3, SameDirs DEF Republish
<1>2. CASE DamageArchive(q)
  <2>1. archive[q] \in Contents
    BY <1>2 DEF DamageArchive, TypeOK
  <2>2. [archive[q] EXCEPT !.of = @ \cup {Damage}] \in Contents
    BY <2>1 DEF Contents
  <2>3. TypeOK'
    BY <1>2, <2>2 DEF DamageArchive, TypeOK, dirs, run
  <2>4. RunInv'
    BY <1>2 DEF DamageArchive, RunInv, Running, dirs, run
  <2> QED BY <1>2, <2>3, <2>4, SameDirs DEF DamageArchive
<1>3. CASE DamagePartition(q)
  <2>1. partition[q] \in Partitions
    BY <1>3 DEF DamagePartition, TypeOK
  <2>2. [partition[q] EXCEPT !.sound = FALSE] \in Partitions
    BY <2>1 DEF Partitions
  <2>3. TypeOK'
    BY <1>3, <2>2 DEF DamagePartition, TypeOK, cache, run
  <2>4. RunInv'
    BY <1>3 DEF DamagePartition, RunInv, Running, cache, run
  <2>5. RecoveryIsClear'
    <3>1. \A r \in Quarters : partition'[r] = None => partition[r] = None
      BY <1>3, <2>2, NoneAssumption DEF DamagePartition, TypeOK
    <3> QED BY <1>3, <3>1 DEF DamagePartition, RecoveryIsClear
  <2> QED BY <2>3, <2>4, <2>5
<1> QED BY <1>1, <1>2, <1>3

\* The loop.
LEMMA LoopKeeps ==
  ASSUME IInv, Start \/ Advance \/ Crash PROVE IInv'
<1> USE DEF IInv
<1>1. CASE Start
  <2>1. periods' \subseteq Quarters /\ cur' \in Quarters /\ attempt' = 0 /\ pc' = "download"
    BY <1>1 DEF Start, Ranges
  <2>2. report' \in Reports
    BY <1>1 DEF Start, Reports
  <2>3. TypeOK'
    BY <1>1, <2>1, <2>2, SizesAssumption DEF Start, TypeOK, cache, dirs
  <2>4. RunInv'
    BY <2>1, SizesAssumption DEF RunInv, Running
  <2> QED BY <1>1, <2>3, <2>4, SameDirs DEF Start
<1>2. CASE Advance
  <2>1. cur \in Quarters
    BY <1>2 DEF Advance, RunInv, Running
  <2>2. cur' \in Quarters /\ attempt' = 0 /\ pc' \in {"download", "finished"}
    BY <1>2, <2>1 DEF Advance, TypeOK
  <2>3. report' \in Reports
    BY <1>2 DEF Advance, TypeOK, Reports
  <2>4. TypeOK'
    BY <1>2, <2>2, <2>3, SizesAssumption DEF Advance, TypeOK, cache, dirs
  <2>5. RunInv'
    BY <2>2, SizesAssumption DEF RunInv, Running
  <2> QED BY <1>2, <2>4, <2>5, SameDirs DEF Advance
<1>3. CASE Crash
  <2>1. TypeOK' /\ RunInv'
    BY <1>3 DEF Crash, TypeOK, RunInv, Running, cache, dirs, run
  <2> QED BY <1>3, <2>1, SameDirs DEF Crash
<1> QED BY <1>1, <1>2, <1>3

\* The download.
LEMMA DownloadKeeps ==
  ASSUME IInv, CacheHit \/ Request \/ Install \/ InstallFails \/ WriteManifest PROVE IInv'
<1> USE DEF IInv
<1>0. cur \in Quarters
  BY DEF CacheHit, Request, Install, InstallFails, WriteManifest, RunInv, Running
<1>1. CASE CacheHit
  BY <1>0, <1>1, SameDirs DEF CacheHit, TypeOK, RunInv, Running, cache, dirs, run
<1>2. CASE Request
  <2>1. TypeOK'
    BY <1>2, RequestTyped DEF Request, TypeOK, dirs
  <2>2. RunInv'
    BY <1>0, <1>2, RequestTyped DEF Request, RunInv, Running, dirs
  <2> QED BY <1>2, <2>1, <2>2, SameDirs DEF Request
<1>3. CASE Install
  BY <1>0, <1>3, SameDirs, EmptyType DEF Install, TypeOK, RunInv, Running, dirs, run
<1>4. CASE InstallFails
  BY <1>0, <1>4, SameDirs, EmptyType DEF InstallFails, TypeOK, RunInv, Running, dirs, run
<1>5. CASE WriteManifest
  BY <1>0, <1>5, SameDirs DEF WriteManifest, TypeOK, RunInv, Running, dirs, run
<1> QED BY <1>1, <1>2, <1>3, <1>4, <1>5

\* The entry of a quarter, and only that.
LEMMA EntryKeeps ==
  ASSUME IInv, cur \in Quarters, NEW status \in {"STAGED", "FAILED"}, Record(status),
         UNCHANGED <<server, cache, dirs, run>>
  PROVE  IInv'
<1>1. report' \in Reports /\ pc' = "recorded"
  BY RecordTyped DEF IInv
<1>2. TypeOK' /\ RunInv'
  BY <1>1 DEF IInv, TypeOK, RunInv, Running, cache, dirs, run
<1> QED BY <1>2, SameDirs DEF IInv

\* The swap of a partition.
LEMMA SwapKeeps ==
  ASSUME IInv, \/ Validate \/ Recover \/ Extract \/ ExtractFails \/ StageFails
               \/ SetAside \/ Place \/ PlaceFails \/ Cleanup \/ Verify
  PROVE  IInv'
<1> USE DEF IInv
<1>0. cur \in Quarters
  BY DEF Validate, Recover, Extract, ExtractFails, StageFails, SetAside, Place, PlaceFails,
         Cleanup, Verify, RunInv, Running
<1>1. CASE Validate
  <2>1. CASE Valid(cur)
    BY <1>0, <1>1, <2>1, EntryKeeps DEF Validate
  <2>2. CASE ~Valid(cur)
    BY <1>0, <1>1, <2>2, SameDirs DEF Validate, TypeOK, RunInv, Running, cache, dirs, run
  <2> QED BY <2>1, <2>2
<1>2. CASE Recover
  <2>1. CASE backups[cur] = {} /\ pc' = "extract" /\ UNCHANGED <<dirs, report>>
    BY <1>0, <1>2, <2>1, SameDirs DEF Recover, TypeOK, RunInv, Running, cache, dirs, run
  <2>2. ASSUME partition[cur] = None, NEW b \in backups[cur], backups[cur] = {b},
               partition' = [partition EXCEPT ![cur] = [b.dir EXCEPT !.sound = @ /\ b.intact]],
               Delete(cur, b), pc' = "extract", UNCHANGED report
        PROVE  IInv'
    <3>1. [b.dir EXCEPT !.sound = @ /\ b.intact] \in Partitions
      BY <1>0, <2>2, BackupFacts
    <3>2. partition' \in [Quarters -> Partitions \cup {None}] /\ partition'[cur] # None
      BY <1>0, <2>2, <3>1, NoneAssumption DEF TypeOK
    <3>3. backups' \in [Quarters -> SUBSET Backups] /\ backups'[cur] = {}
      BY <1>0, <2>2 DEF Delete, TypeOK
    <3>4. TypeOK'
      BY <1>2, <2>2, <3>2, <3>3 DEF Recover, TypeOK, cache, run
    <3>5. RunInv'
      BY <1>0, <1>2, <2>2, <3>3 DEF Recover, RunInv, Running, cache, run
    <3>6. RecoveryIsClear'
      BY <1>0, <2>2, <3>2 DEF RecoveryIsClear, Delete, TypeOK
    <3> QED BY <3>4, <3>5, <3>6
  <2>3. CASE Fail /\ UNCHANGED dirs
    BY <1>0, <1>2, <2>3, EntryKeeps DEF Recover, Fail
  <2>4. ASSUME partition[cur] # None, NEW b \in backups[cur], UNCHANGED partition,
               Delete(cur, b) /\ UNCHANGED <<pc, report>>
        PROVE  IInv'
    <3>1. TypeOK'
      BY <1>0, <1>2, <2>4 DEF Recover, Delete, TypeOK, cache, run
    <3>2. RunInv'
      BY <1>0, <1>2, <2>4 DEF Recover, RunInv, Running, cache, run
    <3>3. RecoveryIsClear'
      BY <1>0, <2>4 DEF RecoveryIsClear, Delete, TypeOK
    <3> QED BY <3>1, <3>2, <3>3
  <2>5. ASSUME partition[cur] # None, NEW b \in backups[cur], UNCHANGED partition,
               HalfDelete(cur, b), Fail
        PROVE  IInv'
    <3>1. backups' \in [Quarters -> SUBSET Backups]
      BY <1>0, <2>5, BackupFacts DEF HalfDelete, TypeOK
    <3>2. report' \in Reports /\ pc' = "recorded"
      BY <1>0, <2>5, RecordTyped DEF Fail
    <3>3. TypeOK'
      BY <1>2, <2>5, <3>1, <3>2 DEF Recover, TypeOK, cache, run
    <3>4. RunInv'
      BY <1>0, <1>2, <3>2 DEF Recover, RunInv, Running, cache, run
    <3>5. RecoveryIsClear'
      BY <1>0, <2>5 DEF RecoveryIsClear, HalfDelete, TypeOK
    <3> QED BY <3>3, <3>4, <3>5
  <2> QED BY <1>2, <2>1, <2>2, <2>3, <2>4, <2>5 DEF Recover
<1>3. CASE Extract
  <2>1. archive[cur] \in Contents
    <3>1. PICK v \in Versions : archive[cur] = [size |-> Size[v], of |-> {v}]
      BY <1>3 DEF Extract, Whole
    <3>2. Size[v] \in Nat /\ {v} \in SUBSET (Versions \cup {Damage})
      BY <3>1, SizesAssumption
    <3> QED BY <3>1, <3>2 DEF Contents
  <2>2. staged' \in Partitions /\ staged' # None
    <3>1. (archive[cur].of \cap Flawed = {}) \in BOOLEAN
      OBVIOUS
    <3>2. staged' \in Partitions
      BY <1>3, <2>1, <3>1 DEF Extract, Partitions
    <3> QED BY <3>2, NoneAssumption
  <2>3. TypeOK'
    BY <1>3, <2>2 DEF Extract, TypeOK, cache, dirs
  <2>4. RunInv'
    BY <1>0, <1>3, <2>2 DEF Extract, RunInv, Running, cache, dirs
  <2> QED BY <1>3, <2>3, <2>4, SameDirs DEF Extract
<1>4. CASE ExtractFails
  BY <1>0, <1>4, SameDirs DEF ExtractFails, TypeOK, RunInv, Running, cache, dirs, run
<1>5. CASE StageFails
  BY <1>0, <1>5, EntryKeeps DEF StageFails, Fail
<1>6. CASE SetAside
  <2>1. CASE partition[cur] = None
    <3>1. UNCHANGED dirs
      BY <1>6, <2>1 DEF SetAside
    <3>2. TypeOK' /\ RunInv'
      BY <1>0, <1>6, <3>1 DEF SetAside, TypeOK, RunInv, Running, cache, dirs, run
    <3> QED BY <3>1, <3>2, SameDirs
  <2>2. ASSUME partition[cur] # None, NEW n \in Names,
               partition' = [partition EXCEPT ![cur] = None],
               backups' = [backups EXCEPT
                 ![cur] = @ \cup {[name |-> n, dir |-> partition[cur], intact |-> TRUE]}]
        PROVE  IInv'
    <3>1. [name |-> n, dir |-> partition[cur], intact |-> TRUE] \in Backups
      BY <1>0, <2>2 DEF TypeOK, Backups
    <3>2. backups' \in [Quarters -> SUBSET Backups] /\ partition' \in [Quarters -> Partitions \cup {None}]
      BY <1>0, <2>2, <3>1 DEF TypeOK
    <3>3. TypeOK'
      BY <1>6, <3>2 DEF SetAside, TypeOK, cache, run
    <3>4. RunInv'
      BY <1>0, <1>6 DEF SetAside, RunInv, Running, cache, run
    <3>5. backups'[cur] = {[name |-> n, dir |-> partition[cur], intact |-> TRUE]}
      BY <1>0, <1>6, <2>2 DEF SetAside, RunInv, TypeOK
    <3>6. \A b, c \in backups'[cur] : b = c /\ b.intact
      <4> DEFINE aside == [name |-> n, dir |-> partition[cur], intact |-> TRUE]
      <4>1. aside.intact
        BY Zenon
      <4>2. backups'[cur] = {aside}
        BY <3>5
      <4> HIDE DEF aside
      <4> QED BY <4>1, <4>2, Zenon
    <3>7. \A q \in Quarters \ {cur} : partition'[q] = partition[q] /\ backups'[q] = backups[q]
      BY <1>0, <2>2 DEF TypeOK
    <3>8. RecoveryIsClear'
      <4>1. ASSUME NEW q \in Quarters, partition'[q] = None
            PROVE  \A b, c \in backups'[q] : b = c /\ b.intact
        <5>1. CASE q = cur
          BY <3>6, <5>1, Zenon
        <5>2. CASE q # cur
          BY <3>7, <4>1, <5>2 DEF RecoveryIsClear
        <5> QED BY <5>1, <5>2
      <4> QED BY <4>1, Zenon DEF RecoveryIsClear
    <3> QED BY <3>3, <3>4, <3>8
  <2> QED BY <1>6, <2>1, <2>2 DEF SetAside
<1>7. CASE Place
  <2>1. staged \in Partitions /\ staged # None
    BY <1>7 DEF Place, RunInv, TypeOK
  <2>2. partition' \in [Quarters -> Partitions \cup {None}] /\ partition'[cur] # None
    BY <1>0, <1>7, <2>1 DEF Place, TypeOK
  <2>3. TypeOK'
    BY <1>7, <2>2 DEF Place, TypeOK, cache, run
  <2>4. RunInv'
    BY <1>0, <1>7, <2>2 DEF Place, RunInv, Running, cache, run
  <2>5. RecoveryIsClear'
    BY <1>0, <1>7, <2>2 DEF Place, RecoveryIsClear, TypeOK
  <2> QED BY <2>3, <2>4, <2>5
<1>8. CASE PlaceFails
  <2>1. CASE backups[cur] = {}
    BY <1>0, <1>8, <2>1, EntryKeeps DEF PlaceFails, Fail
  <2>2. ASSUME NEW b \in backups[cur], Delete(cur, b),
               partition' = [partition EXCEPT ![cur] = b.dir]
        PROVE  IInv'
    <3>1. partition' \in [Quarters -> Partitions \cup {None}] /\ partition'[cur] # None
      BY <1>0, <2>2, BackupFacts DEF TypeOK
    <3>2. report' \in Reports /\ pc' = "recorded"
      BY <1>0, <1>8, RecordTyped DEF PlaceFails, Fail
    <3>3. TypeOK'
      BY <1>0, <1>8, <2>2, <3>1, <3>2 DEF PlaceFails, Delete, TypeOK, cache, run
    <3>4. RunInv'
      BY <1>0, <1>8, <3>2 DEF PlaceFails, RunInv, Running, cache, run
    <3>5. RecoveryIsClear'
      BY <1>0, <2>2, <3>1 DEF RecoveryIsClear, Delete, TypeOK
    <3> QED BY <3>3, <3>4, <3>5
  <2> QED BY <1>8, <2>1, <2>2 DEF PlaceFails
<1>9. CASE Cleanup
  <2>1. CASE backups[cur] = {} /\ UNCHANGED backups /\ pc' = "verify" /\ UNCHANGED report
    <3>1. UNCHANGED dirs
      BY <1>9, <2>1 DEF Cleanup, dirs
    <3>2. TypeOK' /\ RunInv'
      BY <1>0, <1>9, <2>1 DEF Cleanup, TypeOK, RunInv, Running, cache, run
    <3> QED BY <3>1, <3>2, SameDirs
  <2>2. ASSUME NEW b \in backups[cur], Delete(cur, b), pc' = "verify", UNCHANGED report
        PROVE  IInv'
    <3>1. TypeOK' /\ RunInv'
      BY <1>0, <1>9, <2>2 DEF Cleanup, Delete, TypeOK, RunInv, Running, cache, run
    <3>2. RecoveryIsClear'
      BY <1>0, <1>9, <2>2 DEF Cleanup, RecoveryIsClear, RunInv, Delete, TypeOK
    <3> QED BY <3>1, <3>2
  <2>3. ASSUME NEW b \in backups[cur], HalfDelete(cur, b), Fail PROVE IInv'
    <3>1. backups' \in [Quarters -> SUBSET Backups]
      BY <1>0, <2>3, BackupFacts DEF HalfDelete, TypeOK
    <3>2. report' \in Reports /\ pc' = "recorded"
      BY <1>0, <2>3, RecordTyped DEF Fail
    <3>3. TypeOK'
      BY <1>9, <3>1, <3>2 DEF Cleanup, TypeOK, cache, run
    <3>4. RunInv'
      BY <1>0, <1>9, <3>2 DEF Cleanup, RunInv, Running, cache, run
    <3>5. RecoveryIsClear'
      BY <1>0, <1>9, <2>3 DEF Cleanup, RecoveryIsClear, RunInv, HalfDelete, TypeOK
    <3> QED BY <3>3, <3>4, <3>5
  <2> QED BY <1>9, <2>1, <2>2, <2>3 DEF Cleanup
<1>10. CASE Verify
  <2>1. (IF Valid(cur) THEN "STAGED" ELSE "FAILED") \in {"STAGED", "FAILED"}
    OBVIOUS
  <2> QED BY <1>0, <1>10, <2>1, EntryKeeps DEF Verify
<1> QED BY <1>1, <1>2, <1>3, <1>4, <1>5, <1>6, <1>7, <1>8, <1>9, <1>10

\* Every step keeps the invariant.
LEMMA StepInvariant == IInv /\ [Next]_vars => IInv'
<1> SUFFICES ASSUME IInv, [Next]_vars PROVE IInv'
  OBVIOUS
<1>1. CASE Next
  BY <1>1, OutsideKeeps, LoopKeeps, DownloadKeeps, SwapKeeps DEF Next
<1>2. CASE UNCHANGED vars
  <2>1. TypeOK' /\ RunInv'
    BY <1>2 DEF vars, IInv, TypeOK, RunInv, Running, cache, dirs, run
  <2> QED BY <1>2, <2>1, SameDirs DEF vars, IInv
<1> QED BY <1>1, <1>2

\* The inductive invariant holds in every reachable state.
THEOREM Invariance == Spec => []IInv
<1>1. Init => IInv
  BY InitTyped
<1>2. IInv /\ [Next]_vars => IInv'
  BY StepInvariant
<1> QED BY <1>1, <1>2, PTL DEF Spec

\* Every reachable state is well typed.
THEOREM TypeCorrect == Spec => []TypeOK
<1>1. IInv => TypeOK
  BY DEF IInv
<1> QED BY <1>1, Invariance, PTL

\* No interrupted swap is ever ambiguous, nor is half a directory put back.
THEOREM RecoveryAlwaysClear == Spec => []RecoveryIsClear
<1>1. IInv => RecoveryIsClear
  BY DEF IInv
<1> QED BY <1>1, Invariance, PTL

\* A step that leaves the partition in its place loses nothing.
LEMMA StandingSurvives ==
  ASSUME TypeOK, cur \in Quarters, partition'[cur] # None,
         \A q \in Quarters \ {cur} : partition'[q] = partition[q] /\ backups'[q] = backups[q],
         NEW q \in Quarters, partition[q] # None \/ backups[q] # {}
  PROVE  partition'[q] # None \/ backups'[q] # {}
BY DEF TypeOK

\* A partition that was staged once stands, or is set aside, after every step.
THEOREM PartitionNeverLost == Spec => PartitionSurvives
<1>1. ASSUME IInv, [Next]_vars, NEW q \in Quarters, partition[q] # None \/ backups[q] # {}
      PROVE  partition'[q] # None \/ backups'[q] # {}
  <2> USE <1>1
  <2>0. TypeOK /\ RunInv
    BY DEF IInv
  <2>1. CASE UNCHANGED dirs
    BY <2>1 DEF dirs
  <2>2. ASSUME NEW r \in Quarters, DamagePartition(r)
        PROVE  partition'[q] # None \/ backups'[q] # {}
    <3>1. [partition[r] EXCEPT !.sound = FALSE] # None
      BY <2>0, <2>2, NoneAssumption DEF DamagePartition, TypeOK, Partitions
    <3> QED BY <2>0, <2>2, <3>1 DEF DamagePartition, TypeOK
  <2>3. CASE Recover
    <3>0. cur \in Quarters
      BY <2>0, <2>3 DEF Recover, RunInv, Running
    <3>1. ASSUME NEW b \in backups[cur], Delete(cur, b),
                 partition' = [partition EXCEPT ![cur] = [b.dir EXCEPT !.sound = @ /\ b.intact]]
          PROVE  partition'[q] # None \/ backups'[q] # {}
      <4>1. partition'[cur] # None
        BY <2>0, <3>0, <3>1, BackupFacts, NoneAssumption DEF TypeOK
      <4> QED BY <2>0, <3>0, <3>1, <4>1, StandingSurvives DEF Delete, TypeOK
    <3>2. ASSUME partition[cur] # None, NEW b \in backups[cur],
                 Delete(cur, b) \/ HalfDelete(cur, b), UNCHANGED partition
          PROVE  partition'[q] # None \/ backups'[q] # {}
      BY <2>0, <3>0, <3>2, StandingSurvives DEF Delete, HalfDelete, TypeOK
    <3> QED BY <2>1, <2>3, <3>1, <3>2 DEF Recover
  <2>4. CASE SetAside
    <3>0. cur \in Quarters
      BY <2>0, <2>4 DEF SetAside, RunInv, Running
    <3>1. ASSUME NEW n \in Names,
               backups' = [backups EXCEPT
                 ![cur] = @ \cup {[name |-> n, dir |-> partition[cur], intact |-> TRUE]}],
               partition' = [partition EXCEPT ![cur] = None]
          PROVE  partition'[q] # None \/ backups'[q] # {}
      <4>1. backups'[cur] # {} /\ \A r \in Quarters \ {cur} :
              partition'[r] = partition[r] /\ backups'[r] = backups[r]
        BY <2>0, <3>0, <3>1 DEF TypeOK
      <4> QED BY <4>1
    <3> QED BY <2>1, <2>4, <3>1 DEF SetAside
  <2>5. CASE Place
    BY <2>0, <2>5, StandingSurvives DEF Place, RunInv, Running, TypeOK
  <2>6. CASE PlaceFails
    <3>0. cur \in Quarters
      BY <2>0, <2>6 DEF PlaceFails, RunInv, Running
    <3>1. ASSUME NEW b \in backups[cur], Delete(cur, b),
                 partition' = [partition EXCEPT ![cur] = b.dir]
          PROVE  partition'[q] # None \/ backups'[q] # {}
      <4>1. b.dir # None
        BY <2>0, <3>0, <3>1, BackupFacts
      <4> QED BY <2>0, <3>0, <3>1, <4>1, StandingSurvives DEF Delete, TypeOK
    <3> QED BY <2>1, <2>6, <3>1 DEF PlaceFails
  <2>7. CASE Cleanup
    <3>0. cur \in Quarters /\ partition[cur] # None /\ UNCHANGED partition
      BY <2>0, <2>7 DEF Cleanup, RunInv, Running
    <3>1. ASSUME NEW b \in backups[cur], Delete(cur, b) \/ HalfDelete(cur, b)
          PROVE  partition'[q] # None \/ backups'[q] # {}
      BY <2>0, <3>0, <3>1, StandingSurvives DEF Delete, HalfDelete, TypeOK
    <3> QED BY <2>1, <2>7, <3>0, <3>1 DEF Cleanup, dirs
  <2>8. CASE \/ Start \/ Advance \/ Crash
             \/ CacheHit \/ Request \/ Install \/ InstallFails \/ WriteManifest
             \/ Validate \/ Extract \/ ExtractFails \/ StageFails \/ Verify
    BY <2>1, <2>8 DEF Start, Advance, Crash, CacheHit, Request, Install, InstallFails,
       WriteManifest, Validate, Extract, ExtractFails, StageFails, Verify
  <2>9. CASE \E r \in Quarters : Republish(r) \/ DamageArchive(r)
    BY <2>1, <2>9 DEF Republish, DamageArchive
  <2>10. CASE UNCHANGED vars
    BY <2>1, <2>10 DEF vars
  <2> QED BY <2>2, <2>3, <2>4, <2>5, <2>6, <2>7, <2>8, <2>9, <2>10 DEF Next
<1>2. IInv /\ [Next]_vars => [\A q \in Quarters :
        partition[q] # None \/ backups[q] # {} => partition'[q] # None \/ backups'[q] # {}]_vars
  BY <1>1
<1> QED BY <1>2, Invariance, PTL DEF PartitionSurvives, Spec
-----------------------------------------------------------------------------
(* What the cache and the report say *)

\* A manifest is written of a file that opened.
ManifestInv ==
  /\ \A q \in Quarters : manifest[q] # None => MayOpen(manifest[q])
  /\ pc = "replaced" => MayOpen(archive[cur])

\* Tables that validate come from a whole archive without flaws, wherever
\* their directory stands.
Good(p) == p.sound => Whole(p.archive) /\ p.archive.of \cap Flawed = {}

SoundInv ==
  /\ \A q \in Quarters : partition[q] # None => Good(partition[q])
  /\ \A q \in Quarters : \A b \in backups[q] : Good(b.dir)
  /\ staged # None => Good(staged)

\* While the run lasts its STAGED quarters are behind it, and still valid.
EntryInv ==
  Running => \A q \in Quarters : report.entries[q] = "STAGED" =>
    /\ Valid(q)
    /\ q < cur \/ (q = cur /\ pc = "recorded")

\* Every step keeps every manifest one of a file that opened.
LEMMA ManifestNext == IInv /\ ManifestInv /\ [Next]_vars => ManifestInv'
<1> SUFFICES ASSUME IInv, ManifestInv, [Next]_vars PROVE ManifestInv'
  OBVIOUS
<1> USE DEF IInv
<1>1. CASE WriteManifest
  <2>1. cur \in Quarters
    BY <1>1 DEF WriteManifest, RunInv, Running
  <2> QED BY <1>1, <2>1 DEF WriteManifest, ManifestInv, TypeOK
<1>2. CASE Install
  <2>1. cur \in Quarters /\ MayOpen(part[cur])
    BY <1>2 DEF Install, RunInv, Running
  <2> QED BY <1>2, <2>1 DEF Install, ManifestInv, TypeOK, run
<1>3. ASSUME UNCHANGED <<manifest, archive, cur>> \/ (UNCHANGED manifest /\ pc # "replaced"),
             pc' = "replaced" => pc = "replaced"
      PROVE  ManifestInv'
  BY <1>3 DEF ManifestInv
<1>4. ASSUME NEW q \in Quarters, Republish(q) \/ DamageArchive(q) \/ DamagePartition(q)
      PROVE  ManifestInv'
  BY <1>3, <1>4 DEF Republish, DamageArchive, DamagePartition, cache, run, Running
<1>5. CASE Start \/ Advance \/ Crash
  BY <1>3, <1>5 DEF Start, Advance, Crash, cache, run, Running
<1>6. CASE CacheHit \/ Request \/ InstallFails
  BY <1>3, <1>6, RequestTyped DEF CacheHit, Request, InstallFails, cache
<1>7. CASE Validate \/ Extract \/ ExtractFails \/ StageFails \/ Verify \/ Recover
  BY <1>3, <1>7 DEF Validate, Extract, ExtractFails, StageFails, Verify, Recover, Record, Fail,
     cache, run
<1>8. CASE SetAside \/ Place \/ PlaceFails \/ Cleanup
  BY <1>3, <1>8 DEF SetAside, Place, PlaceFails, Cleanup, Record, Fail, cache, run
<1>9. CASE UNCHANGED vars
  BY <1>3, <1>9 DEF vars, cache, run
<1> QED BY <1>1, <1>2, <1>4, <1>5, <1>6, <1>7, <1>8, <1>9 DEF Next

\* A cached archive is never a shortened one: its manifest was written of a
\* file that opened (download_quarter).
THEOREM CachedAlwaysComplete == Spec => []CachedIsComplete
<1>1. Init => ManifestInv
  BY DEF Init, ManifestInv
<1>2. Spec => []ManifestInv
  BY <1>1, ManifestNext, Invariance, PTL DEF Spec
<1>3. ManifestInv => CachedIsComplete
  BY DEF ManifestInv, CachedIsComplete, Cached, MayOpen
<1> QED BY <1>2, <1>3, PTL

\* Directories move, and only Extract makes a new one.
LEMMA SoundNext == IInv /\ SoundInv /\ [Next]_vars => SoundInv'
<1> SUFFICES ASSUME IInv, SoundInv, [Next]_vars PROVE SoundInv'
  OBVIOUS
<1> USE DEF IInv
<1>1. ASSUME UNCHANGED dirs, staged' \in {staged, None} PROVE SoundInv'
  BY <1>1 DEF SoundInv, dirs, Good, Whole
<1>2. CASE Extract
  <2>1. Good(staged')
    BY <1>2 DEF Extract, Good, Whole
  <2> QED BY <1>2, <2>1 DEF Extract, SoundInv, Good, Whole, dirs
<1>3. ASSUME NEW q \in Quarters, DamagePartition(q) PROVE SoundInv'
  <2>1. partition[q] \in Partitions
    BY <1>3 DEF DamagePartition, TypeOK
  <2>2. Good([partition[q] EXCEPT !.sound = FALSE])
    BY <2>1 DEF Good, Partitions
  <2> QED BY <1>3, <2>2 DEF DamagePartition, SoundInv, TypeOK, run, Good, Whole
<1>4. ASSUME cur \in Quarters, NEW p, Good(p), staged' = staged,
             partition' \in {partition, [partition EXCEPT ![cur] = p]},
             \A q \in Quarters : \A b \in backups'[q] : \E c \in backups[q] : b.dir = c.dir
      PROVE  SoundInv'
  <2>1. \A q \in Quarters : partition'[q] # None => Good(partition'[q])
    BY <1>4 DEF SoundInv, TypeOK
  <2>2. \A q \in Quarters : \A b \in backups'[q] : Good(b.dir)
    BY <1>4 DEF SoundInv
  <2>3. staged' # None => Good(staged')
    BY <1>4 DEF SoundInv
  <2> QED BY <2>1, <2>2, <2>3 DEF SoundInv
<1>5. ASSUME cur \in Quarters, NEW b \in backups[cur], Delete(cur, b) \/ HalfDelete(cur, b)
      PROVE  \A q \in Quarters : \A c \in backups'[q] : \E d \in backups[q] : c.dir = d.dir
  <2>1. [b EXCEPT !.intact = FALSE].dir = b.dir
    BY <1>5, BackupFacts DEF Backups
  <2>2. \A q \in Quarters \ {cur} : backups'[q] = backups[q]
    BY <1>5 DEF Delete, HalfDelete, TypeOK
  <2>3. backups'[cur] \subseteq backups[cur] \cup {[b EXCEPT !.intact = FALSE]}
    BY <1>5 DEF Delete, HalfDelete, TypeOK
  <2> QED BY <1>5, <2>1, <2>2, <2>3
<1>6. CASE Recover
  <2>0. cur \in Quarters /\ staged' = staged
    BY <1>6 DEF Recover, RunInv, Running, run
  <2>1. ASSUME NEW b \in backups[cur], Delete(cur, b),
               partition' = [partition EXCEPT ![cur] = [b.dir EXCEPT !.sound = @ /\ b.intact]]
        PROVE  SoundInv'
    <3>1. b.dir \in Partitions /\ Good(b.dir)
      BY <2>0, <2>1, BackupFacts DEF SoundInv
    <3>2. Good([b.dir EXCEPT !.sound = @ /\ b.intact])
      BY <3>1 DEF Good, Partitions, Whole
    <3> QED BY <1>4, <1>5, <2>0, <2>1, <3>2
  <2>2. ASSUME NEW b \in backups[cur], Delete(cur, b) \/ HalfDelete(cur, b), UNCHANGED partition
        PROVE  SoundInv'
    <3>1. Good(b.dir)
      BY <2>0, <2>2 DEF SoundInv
    <3> QED BY <1>4, <1>5, <2>0, <2>2, <3>1
  <2> QED BY <1>1, <1>6, <2>0, <2>1, <2>2 DEF Recover
<1>7. CASE SetAside
  <2>0. cur \in Quarters /\ staged' = staged
    BY <1>7 DEF SetAside, RunInv, Running, run
  <2>1. ASSUME NEW n \in Names, partition[cur] # None, partition' = [partition EXCEPT ![cur] = None],
               backups' = [backups EXCEPT
                 ![cur] = @ \cup {[name |-> n, dir |-> partition[cur], intact |-> TRUE]}]
        PROVE  SoundInv'
    <3>1. \A q \in Quarters : partition'[q] # None => Good(partition'[q])
      BY <2>0, <2>1 DEF SoundInv, TypeOK
    <3>2. \A q \in Quarters \ {cur} : backups'[q] = backups[q]
      BY <2>0, <2>1 DEF TypeOK
    <3>3. \A b \in backups'[cur] : b \in backups[cur] \/ b.dir = partition[cur]
      BY <2>0, <2>1 DEF TypeOK
    <3>4. \A q \in Quarters : \A b \in backups'[q] : Good(b.dir)
      BY <2>0, <2>1, <3>2, <3>3 DEF SoundInv
    <3> QED BY <2>0, <3>1, <3>4 DEF SoundInv
  <2> QED BY <1>1, <1>7, <2>0, <2>1 DEF SetAside
<1>8. CASE Place
  <2>0. cur \in Quarters /\ staged # None
    BY <1>8 DEF Place, RunInv, Running
  <2> QED BY <1>4, <1>8, <2>0 DEF Place, SoundInv, run
<1>9. CASE PlaceFails
  <2>0. cur \in Quarters /\ staged' = staged
    BY <1>9 DEF PlaceFails, RunInv, Running, run
  <2>1. ASSUME NEW b \in backups[cur], Delete(cur, b), partition' = [partition EXCEPT ![cur] = b.dir]
        PROVE  SoundInv'
    BY <1>4, <1>5, <2>0, <2>1 DEF SoundInv
  <2> QED BY <1>1, <1>9, <2>0, <2>1 DEF PlaceFails
<1>10. CASE Cleanup
  <2>0. cur \in Quarters /\ staged' = staged /\ partition' = partition
    BY <1>10 DEF Cleanup, RunInv, Running, run
  <2>1. ASSUME NEW b \in backups[cur], Delete(cur, b) \/ HalfDelete(cur, b) PROVE SoundInv'
    BY <1>4, <1>5, <2>0, <2>1 DEF SoundInv
  <2> QED BY <1>1, <1>10, <2>0, <2>1 DEF Cleanup, dirs
<1>11. CASE \/ Start \/ Advance \/ Crash
            \/ CacheHit \/ Request \/ Install \/ InstallFails \/ WriteManifest
            \/ Validate \/ ExtractFails \/ StageFails \/ Verify
  BY <1>1, <1>11 DEF Start, Advance, Crash, CacheHit, Request, Install, InstallFails,
     WriteManifest, Validate, ExtractFails, StageFails, Verify, run
<1>12. CASE \E q \in Quarters : Republish(q) \/ DamageArchive(q)
  BY <1>1, <1>12 DEF Republish, DamageArchive, run
<1>13. CASE UNCHANGED vars
  BY <1>1, <1>13 DEF vars, run
<1> QED BY <1>2, <1>3, <1>6, <1>7, <1>8, <1>9, <1>10, <1>11, <1>12, <1>13 DEF Next

\* A step of the run before it records its quarter touches that quarter alone.
LEMMA EntriesKept ==
  ASSUME TypeOK, EntryInv, Running, cur \in Quarters, pc # "recorded", cur' = cur,
         \A q \in Quarters \ {cur} : partition'[q] = partition[q] /\ archive'[q] = archive[q],
         UNCHANGED report \/ Fail
  PROVE  EntryInv'
<1>1. \A q \in Quarters : report.entries[q] = "STAGED" => q # cur /\ q < cur /\ Valid(q)
  BY SizesAssumption DEF EntryInv
<1>2. \A q \in Quarters : report'.entries[q] = "STAGED" => report.entries[q] = "STAGED"
  BY DEF Fail, Record, TypeOK, Reports
<1> QED BY <1>1, <1>2 DEF EntryInv, Valid

\* Its own STAGED is said of a valid partition.
LEMMA EntryRecorded ==
  ASSUME TypeOK, EntryInv, Running, cur \in Quarters, pc # "recorded",
         UNCHANGED <<cache, dirs, run>>, Valid(cur), Record("STAGED")
  PROVE  EntryInv'
<1>1. \A q \in Quarters : Valid(q)' <=> Valid(q)
  BY DEF Valid, cache, dirs
<1>2. \A q \in Quarters \ {cur} : report'.entries[q] = report.entries[q]
  BY DEF Record, TypeOK, Reports
<1>3. \A q \in Quarters : report.entries[q] = "STAGED" => q < cur /\ Valid(q)
  BY DEF EntryInv
<1>4. cur' = cur /\ pc' = "recorded"
  BY DEF Record, run
<1> QED BY <1>1, <1>2, <1>3, <1>4 DEF EntryInv

\* Every step keeps the staged quarters of a run behind it and valid.
LEMMA EntryNext == IInv /\ EntryInv /\ [Next]_vars => EntryInv'
<1> SUFFICES ASSUME IInv, EntryInv, [Next]_vars PROVE EntryInv'
  OBVIOUS
<1> USE DEF IInv
<1>1. ASSUME NEW q \in Quarters, Republish(q) PROVE EntryInv'
  BY <1>1 DEF Republish, EntryInv, Running, Valid, cache, dirs, run
<1>2. ASSUME NEW q \in Quarters, DamageArchive(q) \/ DamagePartition(q) PROVE EntryInv'
  BY <1>2 DEF DamageArchive, DamagePartition, EntryInv, Running
<1>3. CASE Start
  BY <1>3 DEF Start, EntryInv
<1>4. CASE Advance
  <2>1. cur \in Quarters
    BY <1>4 DEF Advance, RunInv, Running
  <2>2. CASE pc' = "finished"
    BY <2>2 DEF EntryInv, Running
  <2>3. CASE pc' # "finished"
    <3>1. UNCHANGED <<cache, dirs, report>> /\ cur' \in Quarters /\ cur < cur'
      BY <1>4, <2>1, <2>3, SizesAssumption DEF Advance, TypeOK
    <3>2. Running /\ \A q \in Quarters : report.entries[q] = "STAGED" => Valid(q) /\ q < cur'
      BY <1>4, <2>1, <3>1, SizesAssumption DEF Advance, Running, EntryInv
    <3> QED BY <3>1, <3>2 DEF EntryInv, Valid, cache, dirs
  <2> QED BY <2>2, <2>3
<1>5. CASE Crash \/ InstallFails \/ ExtractFails
  BY <1>5 DEF Crash, InstallFails, ExtractFails, EntryInv, Running
<1>6. CASE Request
  <2>1. Running /\ cur \in Quarters /\ pc = "download" /\ UNCHANGED <<archive, partition, cur>>
    BY <1>6 DEF Request, RunInv, Running, dirs
  <2>2. UNCHANGED report \/ Fail
    BY <1>6 DEF Request, FullResponse, PartialResponse, NoBody, PartRefused, Again
  <2> QED BY <2>1, <2>2, EntriesKept
<1>7. CASE CacheHit \/ Install \/ WriteManifest
  <2>1. Running /\ cur \in Quarters /\ pc # "recorded" /\ UNCHANGED <<partition, report, cur>>
    BY <1>7 DEF CacheHit, Install, WriteManifest, RunInv, Running, dirs, run
  <2>2. \A q \in Quarters \ {cur} : archive'[q] = archive[q]
    BY <1>7 DEF CacheHit, Install, WriteManifest, TypeOK, cache
  <2> QED BY <2>1, <2>2, EntriesKept
<1>8. CASE Validate \/ Verify
  <2>1. Running /\ cur \in Quarters /\ pc # "recorded" /\ UNCHANGED <<cache, dirs, run>>
    BY <1>8 DEF Validate, Verify, RunInv, Running
  <2>2. CASE Valid(cur)
    BY <1>8, <2>1, <2>2, EntryRecorded DEF Validate, Verify
  <2>3. CASE ~Valid(cur)
    BY <1>8, <2>1, <2>3, EntriesKept DEF Validate, Verify, Fail, cache, dirs, run
  <2> QED BY <2>2, <2>3
<1>9. CASE Recover \/ Extract \/ StageFails \/ SetAside \/ Place \/ PlaceFails \/ Cleanup
  <2>1. Running /\ cur \in Quarters /\ pc # "recorded" /\ UNCHANGED <<archive, cur>>
    BY <1>9 DEF Recover, Extract, StageFails, SetAside, Place, PlaceFails, Cleanup, RunInv,
       Running, cache, run
  <2>2. UNCHANGED report \/ Fail
    BY <1>9 DEF Recover, Extract, StageFails, SetAside, Place, PlaceFails, Cleanup
  <2>3. \A q \in Quarters \ {cur} : partition'[q] = partition[q]
    BY <1>9, <2>1 DEF Recover, Extract, StageFails, SetAside, Place, PlaceFails, Cleanup,
       TypeOK, dirs
  <2> QED BY <2>1, <2>2, <2>3, EntriesKept
<1>10. CASE UNCHANGED vars
  BY <1>10 DEF vars, cache, dirs, run, EntryInv, Running, Valid
<1> QED BY <1>1, <1>2, <1>3, <1>4, <1>5, <1>6, <1>7, <1>8, <1>9, <1>10 DEF Next

\* STAGED is said of whole archives and valid partitions only, at the moment
\* it is said: what the earlier quarters were found to be, they still are
\* (backfill_history, stage_quarter, validate_partition).
THEOREM StagedAlwaysTrue == Spec => StagedIsTrue
<1>1. Init => SoundInv /\ EntryInv
  BY DEF Init, SoundInv, EntryInv, Running
<1>2. Spec => [](SoundInv /\ EntryInv)
  BY <1>1, SoundNext, EntryNext, Invariance, PTL DEF Spec
<1>3. ASSUME IInv, SoundInv, EntryInv, Next, report'.status = "STAGED", report.status # "STAGED",
             NEW q \in periods
      PROVE  Valid(q) /\ Whole(archive[q]) /\ archive[q].of \cap Flawed = {}
  <2>1. Advance /\ \A r \in periods : report.entries[r] = "STAGED"
    <3>1. Fail \/ Record("STAGED") => report'.status = report.status
      BY <1>3 DEF IInv, TypeOK, Reports, Fail, Record
    <3>2. report' # report
      BY <1>3
    <3>3. ~(\E r \in Quarters : Republish(r) \/ DamageArchive(r) \/ DamagePartition(r))
      BY <3>2 DEF Republish, DamageArchive, DamagePartition
    <3>4. ~Start /\ ~Crash /\ ~CacheHit /\ ~Install /\ ~InstallFails /\ ~WriteManifest
      BY <1>3, <3>2 DEF Start, Crash, CacheHit, Install, InstallFails, WriteManifest
    <3>5. ~Request
      BY <1>3, <3>1 DEF Request, FullResponse, PartialResponse, NoBody, PartRefused, Again
    <3>6. ~Validate /\ ~Verify /\ ~Recover /\ ~Extract /\ ~ExtractFails /\ ~StageFails
      BY <1>3, <3>1 DEF Validate, Verify, Recover, Extract, ExtractFails, StageFails, Fail
    <3>7. ~SetAside /\ ~Place /\ ~PlaceFails /\ ~Cleanup
      BY <1>3, <3>1 DEF SetAside, Place, PlaceFails, Cleanup
    <3>8. Advance
      BY <1>3, <3>3, <3>4, <3>5, <3>6, <3>7 DEF Next
    <3> QED BY <1>3, <3>8 DEF Advance, IInv, TypeOK, Reports
  <2>2. q \in Quarters /\ Valid(q)
    BY <1>3, <2>1 DEF Advance, EntryInv, Running, IInv, TypeOK
  <2> QED BY <1>3, <2>2 DEF Valid, SoundInv, Good
<1>4. IInv /\ SoundInv /\ EntryInv /\ [Next]_vars =>
        [report'.status = "STAGED" /\ report.status # "STAGED" =>
           \A q \in periods : Valid(q) /\ Whole(archive[q]) /\ archive[q].of \cap Flawed = {}]_vars
  BY <1>3
<1> QED BY <1>2, <1>4, Invariance, PTL DEF StagedIsTrue, Spec

=============================================================================
