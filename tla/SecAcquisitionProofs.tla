-------------------------- MODULE SecAcquisitionProofs --------------------------
(***************************************************************************)
(* Proofs about SecAcquisition, for any days, filings, budgets and faults. *)
(* The types are proved for any runners; that progress is kept and reports *)
(* are true, of the runners of one group, which start one after the other. *)
(***************************************************************************)
EXTENDS SecAcquisition, SequenceTheorems, WellFoundedInduction, TLAPS

(* Lemmas about the operators *)

\* A non-empty set of numbers has a least one.
LEMMA LeastExists ==
  ASSUME NEW T, T \subseteq Nat, T # {}
  PROVE  \E x \in T : \A y \in T : x <= y
<1>1. PICK x \in T : \A y \in T : ~(<<y, x>> \in OpToRel(<, Nat))
  BY NatLessThanWellFounded, WFMin
<1>2. \A y \in T : ~(y < x)
  BY <1>1 DEF OpToRel
<1> QED BY <1>2

\* A set of ids has a largest one.
LEMMA LargestExists ==
  ASSUME NEW n \in Nat, NEW T, T \subseteq 1..n, T # {}
  PROVE  \E x \in T : \A y \in T : y <= x
<1> DEFINE D == {n - i : i \in T}
<1>1. D \subseteq Nat /\ D # {}
  <2>1. \A i \in T : n - i \in Nat
    <3>1. \A i \in 1..n : n - i \in Nat
      OBVIOUS
    <3> QED BY <3>1
  <2>2. \A m \in D : \E i \in T : m = n - i
    OBVIOUS
  <2>3. D # {}
    OBVIOUS
  <2> QED BY <2>1, <2>2, <2>3
<1>2. PICK m \in D : \A k \in D : m <= k
  <2> HIDE DEF D
  <2> QED BY <1>1, LeastExists
<1>3. PICK x \in T : m = n - x
  OBVIOUS
<1>4. \A y \in T : n - x <= n - y
  BY <1>2, <1>3
<1> QED BY <1>4

(* The newest of a sequence of releases *)

Top(S) == CHOOSE i \in S : \A j \in S : j <= i
Ids(rs) == {i \in 1..Len(rs) : ~rs[i].draft}
News(rs) == {i \in Ids(rs) : ~rs[i].of.old}

Newest(rs) ==
  IF News(rs) # {} THEN rs[Top(News(rs))].of
  ELSE IF Ids(rs) # {} THEN rs[Top(Ids(rs))].of ELSE None

\* A non-empty set of places has a last one, and Top is it.
LEMMA TopIs ==
  ASSUME NEW n \in Nat, NEW S, S \subseteq 1..n, S # {}
  PROVE  Top(S) \in S /\ \A j \in S : j <= Top(S)
BY LargestExists DEF Top

\* The release Latest finds is the newest of the day.
LEMMA LatestIsNewest ==
  ASSUME NEW d \in Days, NEW n, n = Len(releases[d])
  PROVE  Latest(d, n) = Newest(releases[d])
<1> DEFINE rs == releases[d]
           ids == {i \in 1..n : ~rs[i].draft}
           new == {i \in ids : ~rs[i].of.old}
<1>1. Latest(d, n) = IF ids = {} THEN None
                     ELSE rs[Top(IF new # {} THEN new ELSE ids)].of
  BY DEF Latest, Top
<1>2. ids = Ids(rs) /\ new = News(rs) /\ new \subseteq ids
  BY DEF Ids, News
<1> HIDE DEF rs, ids, new
<1>3. Latest(d, n) = Newest(rs)
  BY <1>1, <1>2 DEF Newest
<1> QED BY <1>3 DEF rs

\* What is published of a day is its newest release, before and after a step.
LEMMA PublishedIsNewest ==
  ASSUME NEW d \in Days
  PROVE  Published(d) = Newest(releases[d]) /\ Published(d)' = Newest(releases'[d])
<1>1. Published(d) = Newest(releases[d])
  <2>1. Published(d) = Latest(d, Len(releases[d]))
    BY DEF Published, Inventory
  <2> QED BY <2>1, LatestIsNewest
<1>2. Published(d)' = Newest(releases'[d])
  <2> DEFINE rs == releases'[d]
             ids == {i \in 1..Len(rs) : ~rs[i].draft}
             new == {i \in ids : ~rs[i].of.old}
  <2>1. Published(d)' = IF ids = {} THEN None
                        ELSE rs[Top(IF new # {} THEN new ELSE ids)].of
    BY DEF Published, Inventory, Latest, Top
  <2>2. ids = Ids(rs) /\ new = News(rs) /\ new \subseteq ids
    BY DEF Ids, News
  <2> HIDE DEF rs, ids, new
  <2>3. Published(d)' = Newest(rs)
    BY <2>1, <2>2 DEF Newest
  <2> QED BY <2>3 DEF rs
<1> QED BY <1>1, <1>2

\* The newest release is one that is not a draft, of the new parser where there is one.
LEMMA NewestType ==
  ASSUME NEW rs \in Seq(Releases)
  PROVE  /\ Newest(rs) \in Checkpoints \cup {None}
         /\ Newest(rs) = None <=> Ids(rs) = {}
         /\ News(rs) # {} => \E i \in News(rs) : Newest(rs) = rs[i].of
         /\ Ids(rs) # {} => \E i \in Ids(rs) : Newest(rs) = rs[i].of
<1>1. Len(rs) \in Nat /\ \A i \in 1..Len(rs) : rs[i] \in Releases
  OBVIOUS
<1>2. Ids(rs) \subseteq 1..Len(rs) /\ News(rs) \subseteq Ids(rs)
  BY DEF Ids, News
<1>3. News(rs) # {} => Top(News(rs)) \in News(rs)
  BY <1>1, <1>2, TopIs
<1>4. Ids(rs) # {} => Top(Ids(rs)) \in Ids(rs)
  BY <1>1, <1>2, TopIs
<1>5. \A i \in Ids(rs) : rs[i].of \in Checkpoints /\ rs[i].of # None
  BY <1>1, <1>2, NoneAssumption DEF Releases
<1> QED BY <1>2, <1>3, <1>4, <1>5 DEF Newest

\* The ids after a release was appended.
Appended(rs, x, qs) ==
  /\ qs \in Seq(Releases) /\ Len(qs) = Len(rs) + 1 /\ Len(rs) \in Nat
  /\ qs[Len(qs)] = x /\ \A i \in 1..Len(rs) : qs[i] = rs[i]
  /\ Ids(qs) = IF x.draft THEN Ids(rs) ELSE Ids(rs) \cup {Len(qs)}
  /\ News(qs) = IF x.draft \/ x.of.old THEN News(rs) ELSE News(rs) \cup {Len(qs)}

\* A release that is appended moves no other; it is the newest unless it is a draft or old.
LEMMA AppendFacts ==
  ASSUME NEW rs \in Seq(Releases), NEW x \in Releases, NEW qs, qs = Append(rs, x)
  PROVE  Appended(rs, x, qs)
<1>1. /\ qs \in Seq(Releases) /\ Len(qs) = Len(rs) + 1 /\ Len(rs) \in Nat
      /\ qs[Len(qs)] = x /\ \A i \in 1..Len(rs) : qs[i] = rs[i]
  OBVIOUS
<1>2. 1..Len(qs) = (1..Len(rs)) \cup {Len(qs)} /\ Len(qs) \notin 1..Len(rs)
  BY <1>1
<1>3. Ids(qs) = IF x.draft THEN Ids(rs) ELSE Ids(rs) \cup {Len(qs)}
  BY <1>1, <1>2 DEF Ids
<1>4. News(qs) = IF x.draft \/ x.of.old THEN News(rs) ELSE News(rs) \cup {Len(qs)}
  BY <1>1, <1>2, <1>3 DEF News, Ids
<1> QED BY <1>1, <1>3, <1>4 DEF Appended

\* A draft is nobody's newest release.
LEMMA AppendDraft ==
  ASSUME NEW rs \in Seq(Releases), NEW x \in Releases, x.draft
  PROVE  Newest(Append(rs, x)) = Newest(rs)
<1> DEFINE qs == Append(rs, x)
<1>0. qs = Append(rs, x)
  OBVIOUS
<1> HIDE DEF qs
<1>1. /\ Ids(qs) = Ids(rs) /\ News(qs) = News(rs) /\ Len(rs) \in Nat
      /\ \A i \in 1..Len(rs) : qs[i] = rs[i]
  <2>1. Appended(rs, x, qs)
    BY <1>0, AppendFacts
  <2> QED BY <2>1 DEF Appended, Releases
<1>2. Ids(rs) \subseteq 1..Len(rs) /\ News(rs) \subseteq 1..Len(rs)
  BY DEF Ids, News
<1>3. News(rs) # {} => qs[Top(News(rs))] = rs[Top(News(rs))]
  BY <1>1, <1>2, TopIs
<1>4. Ids(rs) # {} => qs[Top(Ids(rs))] = rs[Top(Ids(rs))]
  BY <1>1, <1>2, TopIs
<1>5. Newest(qs) = Newest(rs)
  BY <1>1, <1>3, <1>4 DEF Newest
<1> QED BY <1>0, <1>5

\* What the new parser publishes is the newest.
LEMMA AppendNew ==
  ASSUME NEW rs \in Seq(Releases), NEW x \in Releases, ~x.draft, ~x.of.old
  PROVE  Newest(Append(rs, x)) = x.of
<1> DEFINE qs == Append(rs, x)
<1>0. qs = Append(rs, x)
  OBVIOUS
<1> HIDE DEF qs
<1>1. /\ News(qs) = News(rs) \cup {Len(qs)} /\ qs[Len(qs)] = x
      /\ Len(qs) = Len(rs) + 1 /\ Len(rs) \in Nat
  <2>1. Appended(rs, x, qs)
    BY <1>0, AppendFacts
  <2> QED BY <2>1 DEF Appended, Releases
<1>2. News(rs) \subseteq 1..Len(rs)
  BY DEF Ids, News
<1>3. Len(qs) \in Nat /\ News(qs) \subseteq 1..Len(qs) /\ News(qs) # {} /\ \A j \in News(qs) : j <= Len(qs)
  BY <1>1, <1>2
<1>4. Top(News(qs)) = Len(qs)
  <2>1. Top(News(qs)) \in News(qs) /\ \A j \in News(qs) : j <= Top(News(qs))
    BY <1>1, <1>3, TopIs
  <2>2. Len(qs) \in News(qs) /\ Top(News(qs)) \in 1..Len(qs)
    BY <1>1, <1>3, <2>1
  <2> QED BY <1>3, <2>1, <2>2
<1>5. Newest(qs) = x.of
  BY <1>1, <1>3, <1>4 DEF Newest
<1> QED BY <1>0, <1>5

\* What the old parser publishes is the newest only of its own.
LEMMA AppendOld ==
  ASSUME NEW rs \in Seq(Releases), NEW x \in Releases, ~x.draft, x.of.old
  PROVE  Newest(Append(rs, x)) = IF News(rs) # {} THEN Newest(rs) ELSE x.of
<1> DEFINE qs == Append(rs, x)
<1>0. qs = Append(rs, x)
  OBVIOUS
<1> HIDE DEF qs
<1>1. /\ News(qs) = News(rs) /\ Ids(qs) = Ids(rs) \cup {Len(qs)} /\ qs[Len(qs)] = x
      /\ Len(qs) = Len(rs) + 1 /\ Len(rs) \in Nat /\ \A i \in 1..Len(rs) : qs[i] = rs[i]
  <2>1. Appended(rs, x, qs)
    BY <1>0, AppendFacts
  <2> QED BY <2>1 DEF Appended, Releases
<1>2. Ids(rs) \subseteq 1..Len(rs) /\ News(rs) \subseteq 1..Len(rs)
  BY DEF Ids, News
<1>3. Len(qs) \in Nat /\ Ids(qs) \subseteq 1..Len(qs) /\ Ids(qs) # {} /\ \A j \in Ids(qs) : j <= Len(qs)
  BY <1>1, <1>2
<1>4. Top(Ids(qs)) = Len(qs)
  <2>1. Top(Ids(qs)) \in Ids(qs) /\ \A j \in Ids(qs) : j <= Top(Ids(qs))
    BY <1>1, <1>3, TopIs
  <2>2. Len(qs) \in Ids(qs) /\ Top(Ids(qs)) \in 1..Len(qs)
    BY <1>1, <1>3, <2>1
  <2> QED BY <1>3, <2>1, <2>2
<1>5. News(rs) # {} => qs[Top(News(rs))] = rs[Top(News(rs))]
  BY <1>1, <1>2, TopIs
<1>6. Newest(qs) = IF News(rs) # {} THEN Newest(rs) ELSE x.of
  BY <1>1, <1>3, <1>4, <1>5 DEF Newest
<1> QED BY <1>0, <1>6

-----------------------------------------------------------------------------
(* Types *)

Reports == [status : {"INCOMPLETE", "VERIFIED", "ACQUIRED"}, range : SUBSET Days,
            entry : [Days -> Entries]]

StoreType == /\ clock \in 1..MaxTime /\ faults \in 0..MaxFaults
             /\ index \in [Days -> 0..MaxRevisions] /\ releases \in [Days -> Seq(Releases)]

ViewType == /\ view \in [Runners -> [Days -> Nat]]
            /\ \A r \in Runners, d \in Days : view[r][d] <= Len(releases[d])

LocalType == /\ pc \in [Runners -> {"idle", "day", "ingest", "replay", "persist"}]
             /\ newest \in [Runners -> BOOLEAN] /\ todo \in [Runners -> SUBSET Days]
             /\ day \in [Runners -> Days \cup {0}] /\ tried \in [Runners -> 0..MaxDays]
             /\ base \in [Runners -> Checkpoints \cup {None}]
             /\ work \in [Runners -> Checkpoints \cup {None}]
             /\ report \in [Runners -> Reports]

\* The type invariant is that of the store, of the views and of the runners.
LEMMA TypeParts == TypeOK <=> StoreType /\ ViewType /\ LocalType
BY DEF TypeOK, StoreType, ViewType, LocalType, Reports

\* So is the type invariant after a step.
LEMMA TypePartsNext == TypeOK' <=> StoreType' /\ ViewType' /\ LocalType'
BY DEF TypeOK, StoreType, ViewType, LocalType, Reports

\* A runner at a day has one, and what it persists is a checkpoint of it.
StageInv ==
  \A r \in Runners :
    /\ pc[r] \in {"ingest", "replay", "persist"} => day[r] \in Days
    /\ pc[r] = "replay" => base[r] \in Checkpoints
    /\ pc[r] = "persist" => work[r] \in Checkpoints /\ work[r].day = day[r]
    /\ pc[r] \in {"ingest", "replay"} /\ base[r] # None => base[r].day = day[r]

\* A release is of the day it is listed under.
StoreInv == \A d \in Days : \A i \in 1..Len(releases[d]) : releases[d][i].of.day = d

TInv == TypeOK /\ StageInv /\ StoreInv

\* The report of a run that has not begun is empty.
LEMMA NoReportType ==
  /\ NoReport \in Reports /\ NoReport.status = "INCOMPLETE" /\ NoReport.range = {}
  /\ \A d \in Days : NoReport.entry[d] = "none"
BY DEF NoReport, Reports, Entries

\* What a stop leaves of a runner.
Stopped(r, status, range) ==
  /\ \A s \in Runners : s # r => /\ pc'[s] = pc[s] /\ view'[s] = view[s] /\ todo'[s] = todo[s]
                                 /\ day'[s] = day[s] /\ base'[s] = base[s] /\ work'[s] = work[s]
                                 /\ report'[s] = report[s]
  /\ pc'[r] = "idle" /\ todo'[r] = {} /\ day'[r] = 0
  /\ report'[r].status = status /\ report'[r].range = range
  /\ \A d \in Days : report'[r].entry[d] = "none"

\* A runner that stops keeps the types and leaves the others alone.
LEMMA StopFacts ==
  ASSUME TypeOK, NEW r \in Runners, NEW status \in {"INCOMPLETE", "VERIFIED", "ACQUIRED"},
         NEW range \in SUBSET Days, Stop(r, status, range), UNCHANGED releases
  PROVE  LocalType' /\ ViewType' /\ Stopped(r, status, range)
<1> DEFINE x == [NoReport EXCEPT !.status = status, !.range = range]
<1>1. x \in Reports /\ x.status = status /\ x.range = range /\ \A d \in Days : x.entry[d] = "none"
  <2>1. x = [NoReport EXCEPT !.status = status, !.range = range]
    OBVIOUS
  <2> HIDE DEF x
  <2> QED BY <2>1 DEF NoReport, Reports, Entries
<1>2. report' = [report EXCEPT ![r] = x]
  BY DEF Stop
<1> HIDE DEF x
<1>3. LocalType /\ ViewType /\ releases \in [Days -> Seq(Releases)]
  BY TypeParts DEF StoreType
<1>4. report' \in [Runners -> Reports] /\ report'[r] = x
      /\ \A s \in Runners : s # r => report'[s] = report[s]
  BY <1>1, <1>2, <1>3 DEF LocalType
<1>5. ViewType'
  BY <1>3 DEF ViewType, Stop, Nothing
<1>6. /\ pc' \in [Runners -> {"idle", "day", "ingest", "replay", "persist"}]
      /\ newest' \in [Runners -> BOOLEAN] /\ todo' \in [Runners -> SUBSET Days]
      /\ day' \in [Runners -> Days \cup {0}]
  BY <1>3 DEF LocalType, Stop
<1>7. /\ tried' \in [Runners -> 0..MaxDays]
      /\ base' \in [Runners -> Checkpoints \cup {None}]
      /\ work' \in [Runners -> Checkpoints \cup {None}]
  BY <1>3, BudgetAssumption DEF LocalType, Stop
<1>8. LocalType'
  BY <1>4, <1>6, <1>7 DEF LocalType
<1>9. Stopped(r, status, range)
  <2>1. \A s \in Runners : s # r =>
           /\ pc'[s] = pc[s] /\ view'[s] = view[s] /\ todo'[s] = todo[s]
           /\ day'[s] = day[s] /\ base'[s] = base[s] /\ work'[s] = work[s]
    BY <1>3 DEF LocalType, ViewType, Stop
  <2>2. pc'[r] = "idle" /\ todo'[r] = {} /\ day'[r] = 0
    BY <1>3 DEF LocalType, Stop
  <2> QED BY <1>1, <1>4, <2>1, <2>2 DEF Stopped
<1> QED BY <1>5, <1>8, <1>9

\* What the entry of a day leaves of a runner.
Noted(r, e) ==
  /\ \A s \in Runners : s # r => /\ pc'[s] = pc[s] /\ day'[s] = day[s] /\ base'[s] = base[s]
                                 /\ work'[s] = work[s] /\ report'[s] = report[s]
  /\ pc'[r] = "day" /\ day'[r] = 0
  /\ report'[r].status = report[r].status /\ report'[r].range = report[r].range
  /\ report'[r].entry[day[r]] = e
  /\ \A d \in Days : d # day[r] => report'[r].entry[d] = report[r].entry[d]

\* An entry of a report changes.
Entered(r, d, e) ==
  /\ report' \in [Runners -> Reports]
  /\ \A s \in Runners : s # r => report'[s] = report[s]
  /\ report'[r].status = report[r].status /\ report'[r].range = report[r].range
  /\ report'[r].entry[d] = e
  /\ \A b \in Days : b # d => report'[r].entry[b] = report[r].entry[b]

\* An entry of a report changes no other.
LEMMA EntryFacts ==
  ASSUME TypeOK, NEW r \in Runners, NEW d \in Days, NEW e \in Entries,
         report' = [report EXCEPT ![r].entry[d] = e]
  PROVE  Entered(r, d, e)
<1> DEFINE y == [report[r] EXCEPT !.entry[d] = e]
<1>1. report \in [Runners -> Reports]
  BY TypeParts DEF LocalType
<1>2. /\ y \in Reports /\ y.status = report[r].status /\ y.range = report[r].range
      /\ y.entry[d] = e /\ \A b \in Days : b # d => y.entry[b] = report[r].entry[b]
  <2>1. report[r] \in Reports
    BY <1>1
  <2>2. y = [report[r] EXCEPT !.entry[d] = e]
    OBVIOUS
  <2> HIDE DEF y
  <2> QED BY <2>1, <2>2 DEF Reports
<1>3. report' = [report EXCEPT ![r] = y]
  BY <1>1
<1> HIDE DEF y
<1>4. report' \in [Runners -> Reports] /\ report'[r] = y
      /\ \A s \in Runners : s # r => report'[s] = report[s]
  BY <1>1, <1>2, <1>3
<1> QED BY <1>2, <1>4 DEF Entered

\* A runner that notes the entry of its day keeps the types.
LEMMA NoteFacts ==
  ASSUME TypeOK, NEW r \in Runners, day[r] \in Days, NEW e \in Entries, Note(r, e),
         UNCHANGED <<newest, todo, tried>>
  PROVE  LocalType' /\ Noted(r, e)
<1>1. LocalType
  BY TypeParts
<1>2. Entered(r, day[r], e)
  BY EntryFacts DEF Note
<1>5. /\ pc' \in [Runners -> {"idle", "day", "ingest", "replay", "persist"}]
      /\ day' \in [Runners -> Days \cup {0}]
      /\ base' \in [Runners -> Checkpoints \cup {None}]
      /\ work' \in [Runners -> Checkpoints \cup {None}]
  BY <1>1 DEF LocalType, Note
<1>6. LocalType'
  BY <1>1, <1>2, <1>5 DEF LocalType, Entered
<1>7. \A s \in Runners : s # r =>
        pc'[s] = pc[s] /\ day'[s] = day[s] /\ base'[s] = base[s] /\ work'[s] = work[s]
  BY <1>1 DEF LocalType, Note
<1>8. pc'[r] = "day" /\ day'[r] = 0
  BY <1>1 DEF LocalType, Note
<1> QED BY <1>2, <1>6, <1>7, <1>8 DEF Noted, Entered

\* A fault stays within the bound.
LEMMA FaultType == ASSUME TypeOK, Fault PROVE faults' \in 0..MaxFaults
<1>1. faults \in 0..MaxFaults
  BY DEF TypeOK
<1>2. faults < MaxFaults /\ faults' = faults + 1
  BY DEF Fault
<1> QED BY <1>1, <1>2, BoundsAssumption

\* The newest of the first n releases is one of them.
LEMMA LatestType ==
  ASSUME TInv, NEW d \in Days, NEW n \in Nat, n <= Len(releases[d]), Latest(d, n) # None
  PROVE  /\ Latest(d, n) \in Checkpoints /\ Latest(d, n).day = d
         /\ \E i \in 1..n : ~releases[d][i].draft /\ releases[d][i].of = Latest(d, n)
<1> DEFINE ids == {i \in 1..n : ~releases[d][i].draft}
           new == {i \in ids : ~releases[d][i].of.old}
           best == IF new # {} THEN new ELSE ids
<1>1. ids # {} /\ Latest(d, n) = releases[d][Top(best)].of
  BY DEF Latest, Top
<1>2. best \subseteq ids /\ best # {} /\ best \subseteq 1..n
  BY <1>1
<1>3. Top(best) \in ids
  <2> HIDE DEF best
  <2> QED BY <1>2, TopIs
<1>4. Top(best) \in 1..Len(releases[d]) /\ Top(best) \in 1..n /\ ~releases[d][Top(best)].draft
  <2>1. releases[d] \in Seq(Releases)
    BY DEF TInv, TypeOK
  <2>2. Len(releases[d]) \in Nat
    BY <2>1
  <2> HIDE DEF best
  <2> QED BY <1>3, <2>2
<1> HIDE DEF best
<1>5. releases[d][Top(best)] \in Releases
  BY <1>4 DEF TInv, TypeOK
<1> QED BY <1>1, <1>4, <1>5 DEF Releases, TInv, StoreInv

\* A runner that stops keeps the typed invariant.
LEMMA StopKeeps ==
  ASSUME TInv, NEW r \in Runners, NEW status \in {"INCOMPLETE", "VERIFIED", "ACQUIRED"},
         NEW range \in SUBSET Days, Stop(r, status, range), faults' \in 0..MaxFaults,
         UNCHANGED <<clock, index, releases>>
  PROVE  TInv' /\ Stopped(r, status, range)
<1>1. TypeOK /\ StoreType
  BY TypeParts DEF TInv
<1>2. LocalType' /\ ViewType' /\ Stopped(r, status, range)
  BY <1>1, StopFacts
<1>3. StoreType'
  BY <1>1 DEF StoreType
<1>4. TypeOK'
  BY <1>2, <1>3, TypePartsNext
<1>5. StoreInv'
  BY DEF TInv, StoreInv
<1>6. StageInv'
  <2> SUFFICES ASSUME NEW s \in Runners
               PROVE  /\ pc'[s] \in {"ingest", "replay", "persist"} => day'[s] \in Days
                      /\ pc'[s] = "replay" => base'[s] \in Checkpoints
                      /\ pc'[s] = "persist" => work'[s] \in Checkpoints /\ work'[s].day = day'[s]
                      /\ pc'[s] \in {"ingest", "replay"} /\ base'[s] # None
                           => base'[s].day = day'[s]
    BY DEF StageInv
  <2>1. CASE s = r
    BY <1>2, <2>1 DEF Stopped
  <2>2. CASE s # r
    BY <1>2, <2>2 DEF Stopped, TInv, StageInv
  <2> QED BY <2>1, <2>2
<1> QED BY <1>2, <1>4, <1>5, <1>6 DEF TInv

\* A release is added to its day.
Grown(c, b) ==
  /\ releases' \in [Days -> Seq(Releases)]
  /\ releases'[c.day] = Append(releases[c.day], [of |-> c, draft |-> b])
  /\ \A d \in Days : d # c.day => releases'[d] = releases[d]
  /\ \A d \in Days : Len(releases[d]) <= Len(releases'[d])

\* A created release is one more of its day.
LEMMA CreateFacts ==
  ASSUME TInv, NEW c \in Checkpoints, NEW b \in BOOLEAN, Create(c, b)
  PROVE  Grown(c, b) /\ StoreInv'
<1> DEFINE x == [of |-> c, draft |-> b]
           D == c.day
<1>1. D \in Days /\ x \in Releases /\ x.of = c /\ x.draft = b
  BY DEF Checkpoints, Releases
<1>2. releases \in [Days -> Seq(Releases)]
  BY DEF TInv, TypeOK
<1>3. releases' = [releases EXCEPT ![D] = Append(releases[D], x)]
  BY DEF Create
<1> HIDE DEF x, D
<1>4. Append(releases[D], x) \in Seq(Releases)
  BY <1>1, <1>2
<1>5. /\ releases' \in [Days -> Seq(Releases)] /\ releases'[D] = Append(releases[D], x)
      /\ \A d \in Days : d # D => releases'[d] = releases[d]
  BY <1>1, <1>2, <1>3, <1>4
<1>6. Appended(releases[D], x, releases'[D])
  BY <1>1, <1>2, <1>5, AppendFacts
<1>7. \A d \in Days : Len(releases[d]) \in Nat
  BY <1>2
<1>8. \A d \in Days : Len(releases[d]) <= Len(releases'[d])
  <2> SUFFICES ASSUME NEW d \in Days PROVE Len(releases[d]) <= Len(releases'[d])
    OBVIOUS
  <2>1. CASE d = D
    BY <1>6, <2>1 DEF Appended
  <2>2. CASE d # D
    BY <1>5, <1>7, <2>2
  <2> QED BY <2>1, <2>2
<1>9. StoreInv'
  <2> SUFFICES ASSUME NEW d \in Days, NEW i \in 1..Len(releases'[d])
               PROVE  releases'[d][i].of.day = d
    BY DEF StoreInv
  <2>1. CASE d # D
    BY <1>5, <2>1 DEF TInv, StoreInv
  <2>2. CASE d = D
    <3>1. CASE i = Len(releases'[d])
      BY <1>1, <1>6, <2>2, <3>1 DEF Appended, D
    <3>2. CASE i # Len(releases'[d])
      <4>1. Len(releases'[d]) = Len(releases[d]) + 1
        BY <1>6, <2>2 DEF Appended
      <4>2. i \in 1..Len(releases[d])
        BY <1>7, <3>2, <4>1
      <4>3. releases'[d][i] = releases[d][i]
        BY <1>6, <2>2, <4>2 DEF Appended
      <4> QED BY <4>2, <4>3 DEF TInv, StoreInv
    <3> QED BY <3>1, <3>2
  <2> QED BY <2>1, <2>2
<1> QED BY <1>5, <1>8, <1>9 DEF Grown, x, D

\* A runner that notes its entry, with or without a release, keeps the typed invariant.
LEMMA NoteKeeps ==
  ASSUME TInv, NEW r \in Runners, day[r] \in Days, NEW e \in Entries, Note(r, e),
         UNCHANGED <<clock, index, view, newest, todo, tried>>, faults' \in 0..MaxFaults,
         releases' = releases \/ \E c \in Checkpoints, b \in BOOLEAN : Create(c, b)
  PROVE  TInv' /\ Noted(r, e)
<1>1. TypeOK /\ StoreType /\ ViewType
  BY TypeParts DEF TInv
<1>2. LocalType' /\ Noted(r, e)
  BY <1>1, NoteFacts
<1>3. /\ releases' \in [Days -> Seq(Releases)] /\ StoreInv'
      /\ \A d \in Days : Len(releases[d]) <= Len(releases'[d])
  <2>1. CASE releases' = releases
    <3>1. \A d \in Days : Len(releases[d]) \in Nat
      BY <1>1 DEF StoreType
    <3> QED BY <1>1, <2>1, <3>1 DEF TInv, StoreInv, StoreType
  <2>2. CASE \E c \in Checkpoints, b \in BOOLEAN : Create(c, b)
    BY <2>2, CreateFacts DEF Grown
  <2> QED BY <2>1, <2>2
<1>4. StoreType'
  BY <1>1, <1>3 DEF StoreType
<1>5. ViewType'
  <2> SUFFICES ASSUME NEW s \in Runners, NEW d \in Days PROVE view[s][d] <= Len(releases'[d])
    BY <1>1 DEF ViewType
  <2>1. /\ view[s][d] \in Nat /\ Len(releases[d]) \in Nat /\ Len(releases'[d]) \in Nat
        /\ view[s][d] <= Len(releases[d])
    BY <1>1, <1>3 DEF ViewType, StoreType
  <2> QED BY <1>3, <2>1
<1>6. StageInv'
  <2> SUFFICES ASSUME NEW s \in Runners
               PROVE  /\ pc'[s] \in {"ingest", "replay", "persist"} => day'[s] \in Days
                      /\ pc'[s] = "replay" => base'[s] \in Checkpoints
                      /\ pc'[s] = "persist" => work'[s] \in Checkpoints /\ work'[s].day = day'[s]
                      /\ pc'[s] \in {"ingest", "replay"} /\ base'[s] # None
                           => base'[s].day = day'[s]
    BY DEF StageInv
  <2>1. CASE s = r
    BY <1>2, <2>1 DEF Noted
  <2>2. CASE s # r
    BY <1>2, <2>2 DEF Noted, TInv, StageInv
  <2> QED BY <2>1, <2>2
<1>7. TypeOK'
  BY <1>2, <1>4, <1>5, TypePartsNext
<1> QED BY <1>2, <1>3, <1>6, <1>7 DEF TInv

\* What persisting does to the store and the report.
LEMMA PersistSteps ==
  ASSUME TInv, NEW r \in Runners, Persist(r)
  PROVE  /\ \E e \in Entries : Note(r, e)
         /\ releases' = releases \/ \E b \in BOOLEAN : Create(work[r], b)
         /\ faults' \in 0..MaxFaults
         /\ UNCHANGED <<clock, index, view, newest, todo, tried>>
         /\ day[r] \in Days /\ work[r] \in Checkpoints /\ work[r].day = day[r]
<1>1. pc[r] = "persist" /\ UNCHANGED <<clock, index, view, newest, todo, tried>>
  BY DEF Persist
<1>2. day[r] \in Days /\ work[r] \in Checkpoints /\ work[r].day = day[r]
  BY <1>1 DEF TInv, StageInv
<1>3. (\E e \in {"FAILED", "STORED", "ACQUIRED"} : Note(r, e))
      /\ (releases' = releases \/ \E b \in BOOLEAN : Create(work[r], b))
      /\ (faults' = faults \/ Fault)
  BY DEF Persist, Created, Lost
<1>4. faults \in 0..MaxFaults /\ (Fault => faults' \in 0..MaxFaults)
  BY FaultType DEF TInv, TypeOK
<1> QED BY <1>1, <1>2, <1>3, <1>4 DEF Entries

\* Persist keeps the typed invariant.
LEMMA PersistTypes == ASSUME TInv, NEW r \in Runners, Persist(r) PROVE TInv'
<1>1. /\ releases' = releases \/ \E b \in BOOLEAN : Create(work[r], b)
      /\ faults' \in 0..MaxFaults
      /\ UNCHANGED <<clock, index, view, newest, todo, tried>>
      /\ day[r] \in Days /\ work[r] \in Checkpoints
  BY PersistSteps
<1>2. PICK e \in Entries : Note(r, e)
  BY PersistSteps
<1>3. releases' = releases \/ \E c \in Checkpoints, b \in BOOLEAN : Create(c, b)
  BY <1>1
<1> QED BY <1>1, <1>2, <1>3, NoteKeeps

\* What a runner holds at its next step.
StageOf(p, d, b, w) ==
  /\ p \in {"ingest", "replay", "persist"} => d \in Days
  /\ p = "replay" => b \in Checkpoints
  /\ p = "persist" => w \in Checkpoints /\ w.day = d
  /\ p \in {"ingest", "replay"} /\ b # None => b.day = d

\* A step of one runner that leaves the store alone.
LEMMA MoveKeeps ==
  ASSUME TInv, NEW r \in Runners, UNCHANGED <<clock, index, releases>>,
         faults' \in 0..MaxFaults, LocalType', ViewType',
         \A s \in Runners : s # r => /\ pc'[s] = pc[s] /\ day'[s] = day[s]
                                   /\ base'[s] = base[s] /\ work'[s] = work[s],
         StageOf(pc'[r], day'[r], base'[r], work'[r])
  PROVE  TInv'
<1>1. StoreType'
  BY TypeParts DEF TInv, StoreType
<1>2. TypeOK'
  BY <1>1, TypePartsNext
<1>3. StoreInv'
  BY DEF TInv, StoreInv
<1>4. StageInv'
  <2> SUFFICES ASSUME NEW s \in Runners PROVE StageOf(pc'[s], day'[s], base'[s], work'[s])
    BY DEF StageInv, StageOf
  <2>1. CASE s = r
    BY <2>1
  <2>2. CASE s # r
    BY <2>2 DEF TInv, StageInv, StageOf
  <2> QED BY <2>1, <2>2
<1> QED BY <1>2, <1>3, <1>4 DEF TInv

\* A step that may fault keeps the count within the bound.
LEMMA FaultOrNot == ASSUME TypeOK, Fault \/ UNCHANGED faults PROVE faults' \in 0..MaxFaults
<1>1. faults \in 0..MaxFaults /\ (Fault => faults' \in 0..MaxFaults)
  BY FaultType DEF TypeOK
<1> QED BY <1>1

\* A run that begins knows the releases of the moment.
Began(r, range) ==
  /\ \A s \in Runners : s # r => pc'[s] = pc[s] /\ view'[s] = view[s] /\ todo'[s] = todo[s]
                                /\ report'[s] = report[s]
  /\ pc'[r] = "day" /\ todo'[r] = range /\ \A d \in Days : view'[r][d] = Len(releases[d])
  /\ report'[r].status = "INCOMPLETE" /\ report'[r].range = range
  /\ \A d \in Days : report'[r].entry[d] = "none"
  /\ UNCHANGED <<faults, day, tried, base, work>>

\* The inventory has a number for each day.
LEMMA InventoryType == TypeOK => Inventory \in [Days -> Nat]
BY DEF TypeOK, Inventory

\* A run that begins keeps the typed invariant: it has read the releases or failed to.
LEMMA BeginTypes ==
  ASSUME TInv, NEW r \in Runners, NEW range \in SUBSET Days, Begin(r, range)
  PROVE  TInv' /\ (Began(r, range) \/ Stopped(r, "INCOMPLETE", {}))
<1>1. CASE Fault /\ Stop(r, "INCOMPLETE", {})
  <2>1. faults' \in 0..MaxFaults /\ UNCHANGED <<clock, index, releases>> /\ {} \in SUBSET Days
    BY <1>1, FaultOrNot DEF Begin, TInv
  <2> QED BY <1>1, <2>1, StopKeeps
<1>2. CASE /\ pc' = [pc EXCEPT ![r] = "day"]
           /\ view' = [view EXCEPT ![r] = Inventory]
           /\ newest' \in {[newest EXCEPT ![r] = b] : b \in BOOLEAN}
           /\ todo' = [todo EXCEPT ![r] = range]
           /\ report' = [report EXCEPT ![r] = [NoReport EXCEPT !.range = range]]
           /\ UNCHANGED <<faults, day, tried, base, work>>
  <2> DEFINE x == [NoReport EXCEPT !.range = range]
  <2>1. x \in Reports /\ x.status = "INCOMPLETE" /\ x.range = range
        /\ \A d \in Days : x.entry[d] = "none"
    BY DEF NoReport, Reports, Entries
  <2>2. report' = [report EXCEPT ![r] = x]
    BY <1>2
  <2> HIDE DEF x
  <2>3. LocalType /\ ViewType /\ Inventory \in [Days -> Nat] /\ releases' = releases
        /\ faults' \in 0..MaxFaults /\ UNCHANGED <<clock, index>>
    BY <1>2, TypeParts, InventoryType, FaultOrNot DEF TInv, Begin
  <2>4. newest' \in [Runners -> BOOLEAN]
    BY <1>2, <2>3 DEF LocalType
  <2>5. report' \in [Runners -> Reports] /\ report'[r] = x
        /\ \A s \in Runners : s # r => report'[s] = report[s]
    BY <2>1, <2>2, <2>3 DEF LocalType
  <2>6. LocalType'
    BY <1>2, <2>3, <2>4, <2>5 DEF LocalType
  <2>7. view' \in [Runners -> [Days -> Nat]] /\ view'[r] = Inventory
        /\ \A s \in Runners : s # r => view'[s] = view[s]
    BY <1>2, <2>3 DEF ViewType
  <2>8. \A d \in Days : Inventory[d] = Len(releases[d]) /\ Inventory[d] \in Nat
    BY <2>3 DEF Inventory
  <2>9. ViewType'
    <3> SUFFICES ASSUME NEW s \in Runners, NEW d \in Days PROVE view'[s][d] <= Len(releases'[d])
      BY <2>7 DEF ViewType
    <3>1. CASE s = r
      BY <2>3, <2>7, <2>8, <3>1
    <3>2. CASE s # r
      BY <2>3, <2>7, <3>2 DEF ViewType
    <3> QED BY <3>1, <3>2
  <2>10. /\ \A s \in Runners : s # r => pc'[s] = pc[s] /\ todo'[s] = todo[s]
         /\ pc'[r] = "day" /\ todo'[r] = range
    BY <1>2, <2>3 DEF LocalType
  <2>11. StageOf(pc'[r], day'[r], base'[r], work'[r])
    BY <2>10 DEF StageOf
  <2>12. TInv'
    BY <1>2, <2>3, <2>6, <2>9, <2>10, <2>11, MoveKeeps
  <2> QED BY <1>2, <2>1, <2>5, <2>7, <2>8, <2>10, <2>12 DEF Began
<1> QED BY <1>1, <1>2 DEF Begin

\* What the next day of a range comes to.
Skipped(r, d, e) ==
  /\ Entered(r, d, e) /\ todo'[r] = todo[r] \ {d}
  /\ \A s \in Runners : s # r => todo'[s] = todo[s]
  /\ UNCHANGED <<pc, day, tried, base, work, view>>

Taken(r, d, p, b, w) ==
  /\ todo'[r] = todo[r] \ {d}
  /\ \A s \in Runners : s # r => /\ pc'[s] = pc[s] /\ todo'[s] = todo[s] /\ day'[s] = day[s]
                                 /\ base'[s] = base[s] /\ work'[s] = work[s]
  /\ pc'[r] = p /\ day'[r] = d /\ base'[r] = b /\ work'[r] = w
  /\ UNCHANGED <<view, report>>

Looked(r, d) ==
  \/ \E e \in {"DEFERRED", "FAILED"} : Skipped(r, d, e)
  \/ /\ Latest(d, view[r][d]) # None
     /\ Taken(r, d, "persist", base[r], Latest(d, view[r][d]))
  \/ Taken(r, d, "ingest", Latest(d, view[r][d]), work[r])

\* Look keeps the typed invariant and takes a day off the range.
LEMMA LookTypes ==
  ASSUME TInv, NEW r \in Runners, Look(r)
  PROVE  /\ TInv' /\ UNCHANGED releases /\ pc[r] = "day"
         /\ \E d \in todo[r] : d \in Days /\ Looked(r, d)
<1>1. pc[r] = "day" /\ UNCHANGED <<clock, index, releases, view, newest>>
  BY DEF Look
<1>2. LocalType /\ ViewType /\ TypeOK
  BY TypeParts DEF TInv
<1> DEFINE c(d) == Latest(d, view[r][d])
           skip(d, e) == /\ report' = [report EXCEPT ![r].entry[d] = e]
                         /\ UNCHANGED <<pc, day, tried, base, work>>
           reuse(d) == /\ Reused(c(d)) /\ day' = [day EXCEPT ![r] = d]
                       /\ work' = [work EXCEPT ![r] = c(d)]
                       /\ pc' = [pc EXCEPT ![r] = "persist"]
                       /\ UNCHANGED <<faults, tried, base, report>>
           begin(d) == /\ ~Spent(r) /\ day' = [day EXCEPT ![r] = d]
                       /\ tried' = [tried EXCEPT ![r] = @ + 1]
                       /\ base' = [base EXCEPT ![r] = c(d)]
                       /\ pc' = [pc EXCEPT ![r] = "ingest"]
                       /\ UNCHANGED <<faults, work, report>>
<1>3. PICK d \in todo[r] :
        /\ todo' = [todo EXCEPT ![r] = @ \ {d}]
        /\ (Fault \/ UNCHANGED faults)
        /\ (\E e \in {"DEFERRED", "FAILED"} : skip(d, e)) \/ reuse(d) \/ begin(d)
  BY DEF Look
<1>4. d \in Days /\ todo' \in [Runners -> SUBSET Days] /\ todo'[r] = todo[r] \ {d}
      /\ \A s \in Runners : s # r => todo'[s] = todo[s]
  BY <1>2, <1>3 DEF LocalType
<1>5. faults' \in 0..MaxFaults
  BY <1>2, <1>3, FaultOrNot
<1>6. ViewType'
  BY <1>1, <1>2 DEF ViewType
<1>7. /\ c(d) \in Checkpoints \cup {None}
      /\ c(d) # None => c(d) \in Checkpoints /\ c(d).day = d
  <2>1. view[r][d] \in Nat /\ view[r][d] <= Len(releases[d])
    BY <1>2, <1>4 DEF ViewType
  <2> QED BY <1>4, <2>1, LatestType
<1>8. Looked(r, d) /\ TInv'
  <2>1. ASSUME NEW e \in {"DEFERRED", "FAILED"}, skip(d, e) PROVE Looked(r, d) /\ TInv'
    <3>1. Entered(r, d, e)
      BY <1>2, <1>4, <2>1, EntryFacts DEF Entries
    <3>2. Skipped(r, d, e)
      BY <1>1, <1>4, <2>1, <3>1 DEF Skipped
    <3>3. LocalType'
      BY <1>1, <1>2, <1>4, <2>1, <3>1 DEF LocalType, Entered
    <3>4. StageOf(pc'[r], day'[r], base'[r], work'[r])
      BY <1>1, <2>1 DEF StageOf
    <3>5. TInv'
      BY <1>1, <1>5, <1>6, <2>1, <3>3, <3>4, MoveKeeps
    <3> QED BY <3>2, <3>5 DEF Looked
  <2>2. CASE reuse(d)
    <3>1. c(d) # None
      BY <2>2 DEF Reused
    <3> HIDE DEF c
    <3>2. Taken(r, d, "persist", base[r], c(d))
      BY <1>1, <1>2, <1>4, <2>2 DEF Taken, LocalType
    <3>3. LocalType'
      BY <1>1, <1>2, <1>4, <1>7, <2>2 DEF LocalType
    <3>4. StageOf(pc'[r], day'[r], base'[r], work'[r])
      BY <1>4, <1>7, <3>1, <3>2 DEF StageOf, Taken
    <3>5. TInv'
      <4>1. \A s \in Runners : s # r => /\ pc'[s] = pc[s] /\ day'[s] = day[s]
                                        /\ base'[s] = base[s] /\ work'[s] = work[s]
        BY <3>2 DEF Taken
      <4> QED BY <1>1, <1>5, <1>6, <3>3, <3>4, <4>1, MoveKeeps
    <3> QED BY <3>1, <3>2, <3>5 DEF Looked, c
  <2>3. CASE begin(d)
    <3> HIDE DEF c
    <3>1. tried' \in [Runners -> 0..MaxDays]
      <4>1. tried[r] \in 0..MaxDays /\ ~(tried[r] >= MaxDays)
        BY <1>2, <2>3 DEF LocalType, Spent
      <4>2. tried[r] + 1 \in 0..MaxDays
        BY <4>1, BudgetAssumption
      <4> QED BY <1>2, <2>3, <4>2 DEF LocalType
    <3>2. Taken(r, d, "ingest", c(d), work[r])
      BY <1>1, <1>2, <1>4, <2>3 DEF Taken, LocalType
    <3>3. LocalType'
      BY <1>1, <1>2, <1>4, <1>7, <2>3, <3>1 DEF LocalType
    <3>4. StageOf(pc'[r], day'[r], base'[r], work'[r])
      BY <1>4, <1>7, <3>2 DEF StageOf, Taken
    <3>5. TInv'
      <4>1. \A s \in Runners : s # r => /\ pc'[s] = pc[s] /\ day'[s] = day[s]
                                        /\ base'[s] = base[s] /\ work'[s] = work[s]
        BY <3>2 DEF Taken
      <4> QED BY <1>1, <1>5, <1>6, <3>3, <3>4, <4>1, MoveKeeps
    <3> QED BY <3>2, <3>5 DEF Looked, c
  <2> HIDE DEF skip, reuse, begin
  <2> QED BY <1>3, <2>1, <2>2, <2>3
<1> QED BY <1>1, <1>4, <1>8

\* The rows that are ingested are rows.
LEMMA IngestedType ==
  ASSUME TypeOK, NEW d \in Days, NEW c \in Checkpoints \cup {None}, NEW batch, NEW failed
  PROVE  Ingested(d, c, batch, failed) \in Rows
<1> SUFFICES ASSUME NEW f \in Filings
             PROVE  Ingested(d, c, batch, failed)[f] \in [status : Statuses, at : 0..MaxTime]
  BY DEF Ingested, Rows
<1>1. clock \in 0..MaxTime /\ 0 \in 0..MaxTime
  BY BoundsAssumption DEF TypeOK
<1>2. \A s \in Statuses, at \in 0..MaxTime : Row(s, at) \in [status : Statuses, at : 0..MaxTime]
  BY DEF Row
<1>3. Parsed(f) \in Statuses /\ {"ABSENT", "ERROR", "PENDING"} \subseteq Statuses
  BY DEF Parsed, Statuses, Kept, Failed
<1>4. f \in Of(d) /\ f \notin Missing(d, c) => c.rows[f] \in [status : Statuses, at : 0..MaxTime]
  BY DEF Missing, Checkpoints, Rows
<1> QED BY <1>1, <1>2, <1>3, <1>4 DEF Ingested

IsCheckpoint(w, d, i, rows) ==
  w \in Checkpoints /\ w.day = d /\ w.index = i /\ w.rows = rows

\* The checkpoint a day's filings come to.
Extended(d, c, i, batch, failed) ==
  [day |-> d, old |-> FALSE, index |-> i, rows |-> Ingested(d, c, batch, failed)]

\* The checkpoint of the new parser is one of its day and index.
LEMMA ExtendedType ==
  ASSUME TypeOK, NEW d \in Days, NEW c \in Checkpoints \cup {None}, NEW i \in 0..MaxRevisions,
         NEW batch, NEW failed
  PROVE  /\ IsCheckpoint(Extended(d, c, i, batch, failed), d, i, Ingested(d, c, batch, failed))
         /\ ~Extended(d, c, i, batch, failed).old
<1>1. Ingested(d, c, batch, failed) \in Rows
  BY IngestedType
<1> DEFINE rows == Ingested(d, c, batch, failed)
<1>2. Extended(d, c, i, batch, failed) = [day |-> d, old |-> FALSE, index |-> i, rows |-> rows]
  BY DEF Extended
<1> HIDE DEF rows
<1>3. [day |-> d, old |-> FALSE, index |-> i, rows |-> rows] \in Checkpoints
  BY <1>1 DEF Checkpoints, rows
<1> QED BY <1>2, <1>3 DEF rows, IsCheckpoint

\* The one the old parser makes of them.
OldExtended(d, c, i, batch, failed) ==
  [day |-> d, old |-> TRUE, index |-> i, rows |-> Ingested(d, c, batch, failed)]

\* The checkpoint of the old parser is one of its day and index, and old.
LEMMA OldExtendedType ==
  ASSUME TypeOK, NEW d \in Days, NEW c \in Checkpoints \cup {None}, NEW i \in 0..MaxRevisions,
         NEW batch, NEW failed
  PROVE  /\ IsCheckpoint(OldExtended(d, c, i, batch, failed), d, i, Ingested(d, c, batch, failed))
         /\ OldExtended(d, c, i, batch, failed).old
<1>1. Ingested(d, c, batch, failed) \in Rows
  BY IngestedType
<1> DEFINE rows == Ingested(d, c, batch, failed)
<1>2. OldExtended(d, c, i, batch, failed) = [day |-> d, old |-> TRUE, index |-> i, rows |-> rows]
  BY DEF OldExtended
<1> HIDE DEF rows
<1>3. [day |-> d, old |-> TRUE, index |-> i, rows |-> rows] \in Checkpoints
  BY <1>1 DEF Checkpoints, rows
<1> QED BY <1>2, <1>3 DEF rows, IsCheckpoint

\* The runner goes on to persist w.
Prepared(r, w) ==
  /\ \A s \in Runners : s # r => pc'[s] = pc[s] /\ work'[s] = work[s]
  /\ pc'[r] = "persist" /\ work'[r] = w
  /\ UNCHANGED <<releases, view, todo, day, base, report>>

Restored(d, c) == IF c = None THEN index[d] ELSE c.index

IngestedBy(r, batch, failed) ==
  Prepared(r, Extended(day[r], base[r], Restored(day[r], base[r]), batch, failed))

\* A runner that goes on to persist keeps the typed invariant.
LEMMA PreparedKeeps ==
  ASSUME TInv, NEW r \in Runners, day[r] \in Days, NEW w \in Checkpoints, w.day = day[r],
         pc' = [pc EXCEPT ![r] = "persist"], work' = [work EXCEPT ![r] = w],
         UNCHANGED <<clock, index, releases, view, newest, todo, day, tried, base, report>>,
         Fault \/ UNCHANGED faults
  PROVE  TInv' /\ Prepared(r, w)
<1>1. LocalType /\ ViewType /\ TypeOK
  BY TypeParts DEF TInv
<1>2. LocalType'
  BY <1>1 DEF LocalType
<1>3. ViewType'
  BY <1>1 DEF ViewType
<1>4. Prepared(r, w)
  BY <1>1 DEF Prepared, LocalType
<1>5. StageOf(pc'[r], day'[r], base'[r], work'[r])
  BY <1>4 DEF StageOf, Prepared
<1>6. faults' \in 0..MaxFaults
  BY <1>1, FaultOrNot
<1>7. \A s \in Runners : s # r => /\ pc'[s] = pc[s] /\ day'[s] = day[s]
                               /\ base'[s] = base[s] /\ work'[s] = work[s]
  BY <1>4 DEF Prepared
<1>8. TInv'
  BY <1>2, <1>3, <1>5, <1>6, <1>7, MoveKeeps
<1> QED BY <1>4, <1>8

\* Ingest keeps the typed invariant: the day fails or a batch of it is ingested.
LEMMA IngestTypes ==
  ASSUME TInv, NEW r \in Runners, Ingest(r)
  PROVE  /\ TInv' /\ UNCHANGED <<releases, view, todo>> /\ pc[r] = "ingest" /\ day[r] \in Days
         /\ \/ Noted(r, "FAILED")
            \/ \E batch \in Batches(day[r], base[r]) : \E failed \in SUBSET batch :
                  IngestedBy(r, batch, failed)
<1>1. pc[r] = "ingest" /\ day[r] \in Days
  BY DEF Ingest, TInv, StageInv
<1>2. UNCHANGED <<clock, index, releases, view, newest, todo, tried>> /\ (Fault \/ UNCHANGED faults)
  BY DEF Ingest
<1>3. TypeOK /\ faults' \in 0..MaxFaults
  BY <1>2, FaultOrNot DEF TInv
<1>4. CASE Note(r, "FAILED")
  <2>1. "FAILED" \in Entries
    BY DEF Entries
  <2>2. TInv' /\ Noted(r, "FAILED")
    BY <1>1, <1>2, <1>3, <1>4, <2>1, NoteKeeps
  <2> QED BY <1>1, <1>2, <2>2
<1>5. ASSUME NEW batch \in Batches(day[r], base[r]), NEW failed \in SUBSET batch,
             work' = [work EXCEPT ![r] =
                        [day |-> day[r], old |-> FALSE,
                         index |-> IF base[r] = None THEN index[day[r]] ELSE base[r].index,
                         rows |-> Ingested(day[r], base[r], batch, failed)]],
             pc' = [pc EXCEPT ![r] = "persist"], UNCHANGED <<day, base, report>>
      PROVE  TInv' /\ IngestedBy(r, batch, failed)
  <2> DEFINE i == Restored(day[r], base[r])
             w == Extended(day[r], base[r], i, batch, failed)
  <2>1. base[r] \in Checkpoints \cup {None} /\ i \in 0..MaxRevisions
    BY <1>1, <1>3 DEF TypeOK, Checkpoints, Restored
  <2>2. work' = [work EXCEPT ![r] = w]
    BY <1>5 DEF Extended, Restored
  <2>3. w \in Checkpoints /\ w.day = day[r]
    <3> HIDE DEF i
    <3>1. IsCheckpoint(w, day[r], i, Ingested(day[r], base[r], batch, failed))
      BY <1>1, <1>3, <2>1, ExtendedType
    <3> QED BY <3>1 DEF IsCheckpoint
  <2> HIDE DEF w, i
  <2>4. TInv' /\ Prepared(r, w)
    BY <1>1, <1>2, <1>5, <2>2, <2>3, PreparedKeeps
  <2> QED BY <2>4 DEF IngestedBy, w, i
<1>6. \/ Note(r, "FAILED")
      \/ \E batch \in Batches(day[r], base[r]) : \E failed \in SUBSET batch :
           /\ work' = [work EXCEPT ![r] =
                        [day |-> day[r], old |-> FALSE,
                         index |-> IF base[r] = None THEN index[day[r]] ELSE base[r].index,
                         rows |-> Ingested(day[r], base[r], batch, failed)]]
           /\ pc' = [pc EXCEPT ![r] = "persist"] /\ UNCHANGED <<day, base, report>>
  BY DEF Ingest
<1> QED BY <1>1, <1>2, <1>4, <1>5, <1>6

\* The verdict of a finished range.
Concluded(r) ==
  LET rep == report[r]
      all(S) == \A d \in rep.range : rep.entry[d] \in S
  IN \/ all({"ACQUIRED"}) /\ rep.range # {} /\ Stopped(r, "ACQUIRED", rep.range)
     \/ all(Verified) /\ rep.range # {} /\ Stopped(r, "VERIFIED", rep.range)
     \/ Stopped(r, "INCOMPLETE", {})

\* Finish keeps the typed invariant and gives the range its verdict.
LEMMA FinishTypes ==
  ASSUME TInv, NEW r \in Runners, Finish(r)
  PROVE  TInv' /\ Concluded(r) /\ UNCHANGED releases
<1>1. report[r].range \in SUBSET Days /\ {} \in SUBSET Days
  BY TypeParts DEF TInv, LocalType, Reports
<1>2. UNCHANGED <<clock, faults, index, releases>> /\ faults' \in 0..MaxFaults /\ report[r].range # {}
  BY FaultOrNot DEF Finish, TInv
<1>3. CASE /\ \A d \in report[r].range : report[r].entry[d] \in {"ACQUIRED"}
           /\ Stop(r, "ACQUIRED", report[r].range)
  <2>1. TInv' /\ Stopped(r, "ACQUIRED", report[r].range)
    BY <1>1, <1>2, <1>3, StopKeeps
  <2> QED BY <1>2, <1>3, <2>1 DEF Concluded
<1>4. CASE /\ \A d \in report[r].range : report[r].entry[d] \in Verified
           /\ Stop(r, "VERIFIED", report[r].range)
  <2>1. TInv' /\ Stopped(r, "VERIFIED", report[r].range)
    BY <1>1, <1>2, <1>4, StopKeeps
  <2> QED BY <1>2, <1>4, <2>1 DEF Concluded
<1>5. CASE Stop(r, "INCOMPLETE", {})
  <2>1. TInv' /\ Stopped(r, "INCOMPLETE", {})
    BY <1>1, <1>2, <1>5, StopKeeps
  <2> QED BY <1>2, <2>1 DEF Concluded
<1> QED BY <1>3, <1>4, <1>5 DEF Finish

\* A repair that ends, and a lost runner, keep the typed invariant.
LEMMA StoppingTypes ==
  ASSUME TInv, NEW r \in Runners, FinishRepair(r) \/ Crash(r)
  PROVE  TInv' /\ Stopped(r, "INCOMPLETE", {}) /\ UNCHANGED releases
<1>1. /\ Stop(r, "INCOMPLETE", {}) /\ UNCHANGED <<clock, index, releases>>
      /\ Fault \/ UNCHANGED faults
  BY DEF FinishRepair, Crash
<1>2. faults' \in 0..MaxFaults /\ {} \in SUBSET Days
  BY <1>1, FaultOrNot DEF TInv
<1> QED BY <1>1, <1>2, StopKeeps

\* A repair begins with the newest checkpoint of its day.
Repairs(r, d) ==
  /\ \A s \in Runners : s # r => /\ pc'[s] = pc[s] /\ day'[s] = day[s] /\ base'[s] = base[s]
                                 /\ view'[s] = view[s] /\ report'[s] = report[s]
  /\ pc'[r] = "replay" /\ day'[r] = d /\ base'[r] = Published(d) /\ Published(d) # None
  /\ \A b \in Days : view'[r][b] = Len(releases[b])
  /\ report'[r].status = "INCOMPLETE" /\ report'[r].range = {}
  /\ \A b \in Days : report'[r].entry[b] = "none"
  /\ UNCHANGED <<todo, work, releases>>

\* What is published of a day is a checkpoint of that day, of a release that is no draft.
LEMMA PublishedType ==
  ASSUME TInv, NEW d \in Days, Published(d) # None
  PROVE  /\ Published(d) \in Checkpoints /\ Published(d).day = d
         /\ \E i \in 1..Len(releases[d]) : ~releases[d][i].draft /\ releases[d][i].of = Published(d)
<1>1. Published(d) = Latest(d, Len(releases[d]))
  BY DEF Published, Inventory
<1>2. Len(releases[d]) \in Nat /\ Len(releases[d]) <= Len(releases[d])
  <2>1. releases[d] \in Seq(Releases)
    BY DEF TInv, TypeOK
  <2> QED BY <2>1
<1> QED BY <1>1, <1>2, LatestType

\* A repair that begins keeps the typed invariant.
LEMMA BeginRepairTypes ==
  ASSUME TInv, NEW r \in Runners, NEW d \in Days, BeginRepair(r, d)
  PROVE  TInv' /\ Repairs(r, d)
<1>1. /\ Published(d) # None /\ pc' = [pc EXCEPT ![r] = "replay"] /\ day' = [day EXCEPT ![r] = d]
      /\ base' = [base EXCEPT ![r] = Published(d)] /\ view' = [view EXCEPT ![r] = Inventory]
      /\ report' = [report EXCEPT ![r] = NoReport]
      /\ UNCHANGED <<clock, faults, index, releases, newest, todo, tried, work>>
  BY DEF BeginRepair
<1>2. LocalType /\ ViewType /\ Inventory \in [Days -> Nat] /\ faults' \in 0..MaxFaults
  BY <1>1, TypeParts, InventoryType, FaultOrNot DEF TInv
<1>3. Published(d) \in Checkpoints /\ Published(d).day = d
  BY <1>1, PublishedType
<1>4. /\ report' \in [Runners -> Reports] /\ report'[r] = NoReport
      /\ \A s \in Runners : s # r => report'[s] = report[s]
  BY <1>1, <1>2, NoReportType DEF LocalType
<1>5. LocalType'
  <2>1. /\ pc' \in [Runners -> {"idle", "day", "ingest", "replay", "persist"}]
        /\ day' \in [Runners -> Days \cup {0}]
    BY <1>1, <1>2 DEF LocalType
  <2>2. base' \in [Runners -> Checkpoints \cup {None}]
    BY <1>1, <1>2, <1>3 DEF LocalType
  <2> QED BY <1>1, <1>2, <1>4, <2>1, <2>2 DEF LocalType
<1>6. /\ view' \in [Runners -> [Days -> Nat]] /\ view'[r] = Inventory
      /\ \A s \in Runners : s # r => view'[s] = view[s]
  BY <1>1, <1>2 DEF ViewType
<1>7. \A b \in Days : Inventory[b] = Len(releases[b]) /\ Inventory[b] \in Nat
  BY <1>2 DEF Inventory
<1>8. ViewType'
  <2> SUFFICES ASSUME NEW s \in Runners, NEW b \in Days PROVE view'[s][b] <= Len(releases'[b])
    BY <1>6 DEF ViewType
  <2>1. CASE s = r
    BY <1>1, <1>6, <1>7, <2>1
  <2>2. CASE s # r
    BY <1>1, <1>2, <1>6, <2>2 DEF ViewType
  <2> QED BY <2>1, <2>2
<1>9. /\ \A s \in Runners : s # r => pc'[s] = pc[s] /\ day'[s] = day[s] /\ base'[s] = base[s]
      /\ pc'[r] = "replay" /\ day'[r] = d /\ base'[r] = Published(d)
  BY <1>1, <1>2 DEF LocalType
<1>10. StageOf(pc'[r], day'[r], base'[r], work'[r])
  BY <1>3, <1>9 DEF StageOf
<1>11. TInv'
  BY <1>1, <1>2, <1>5, <1>8, <1>9, <1>10, MoveKeeps
<1>12. Repairs(r, d)
  BY <1>1, <1>4, <1>6, <1>7, <1>9, NoReportType DEF Repairs
<1> QED BY <1>11, <1>12

\* A repair recovers quarantined filings and keeps everything else.
RepairOf(c, w) ==
  /\ w \in Checkpoints /\ w.day = c.day /\ w.index = c.index /\ (w = c \/ ~w.old)
  /\ \A f \in Filings : /\ w.rows[f].at = c.rows[f].at
                        /\ \/ w.rows[f].status = c.rows[f].status
                           \/ c.rows[f].status = "QUARANTINED" /\ w.rows[f].status = "REPAIRED"

Candidates(c) == {f \in Mendable : c.rows[f].status = "QUARANTINED"}
Repaired(c) == [c EXCEPT !.old = FALSE,
                         !.rows = [f \in Filings |->
                           IF f \in Candidates(c) THEN Row("REPAIRED", c.rows[f].at)
                           ELSE c.rows[f]]]

\* A repaired checkpoint is a repair of it.
LEMMA RepairedType ==
  ASSUME NEW c \in Checkpoints
  PROVE  RepairOf(c, Repaired(c))
<1> DEFINE rows == [f \in Filings |-> IF f \in Candidates(c) THEN Row("REPAIRED", c.rows[f].at)
                                     ELSE c.rows[f]]
           w == [c EXCEPT !.old = FALSE, !.rows = rows]
<1>1. \A f \in Filings : c.rows[f] \in [status : Statuses, at : 0..MaxTime]
  BY DEF Checkpoints, Rows
<1>2. \A f \in Filings : /\ rows[f] \in [status : Statuses, at : 0..MaxTime]
                         /\ rows[f].at = c.rows[f].at
                         /\ \/ rows[f].status = c.rows[f].status
                            \/ c.rows[f].status = "QUARANTINED" /\ rows[f].status = "REPAIRED"
  BY <1>1 DEF Row, Statuses, Kept, Candidates
<1>3. rows \in Rows
  BY <1>2 DEF Rows
<1>4. w = Repaired(c)
  BY DEF Repaired
<1> HIDE DEF rows
<1>5. w \in Checkpoints /\ w.day = c.day /\ w.index = c.index /\ ~w.old /\ w.rows = rows
  BY <1>3 DEF Checkpoints
<1> HIDE DEF w
<1>6. RepairOf(c, w)
  BY <1>2, <1>5 DEF RepairOf
<1> QED BY <1>4, <1>6

\* Replay keeps the typed invariant: the repair stops or has a checkpoint to persist.
LEMMA ReplayTypes ==
  ASSUME TInv, NEW r \in Runners, Replay(r)
  PROVE  /\ TInv' /\ UNCHANGED releases /\ pc[r] = "replay" /\ day[r] \in Days
         /\ base[r] \in Checkpoints
         /\ \/ Stopped(r, "INCOMPLETE", {})
            \/ \E w \in Checkpoints : RepairOf(base[r], w) /\ Prepared(r, w)
<1>1. /\ pc[r] = "replay" /\ UNCHANGED <<clock, index, releases>>
      /\ Fault \/ UNCHANGED faults
  BY DEF Replay
<1>2. day[r] \in Days /\ base[r] \in Checkpoints /\ base[r].day = day[r]
  BY <1>1, NoneAssumption DEF TInv, StageInv
<1>3. faults' \in 0..MaxFaults /\ {} \in SUBSET Days
  BY <1>1, FaultOrNot DEF TInv
<1>4. CASE Stop(r, "INCOMPLETE", {})
  <2>1. TInv' /\ Stopped(r, "INCOMPLETE", {})
    BY <1>1, <1>3, <1>4, StopKeeps
  <2> QED BY <1>1, <1>2, <2>1
<1>5. CASE /\ work' = [work EXCEPT ![r] = IF Candidates(base[r]) = {} THEN base[r]
                                         ELSE Repaired(base[r])]
           /\ pc' = [pc EXCEPT ![r] = "persist"]
           /\ UNCHANGED <<faults, view, newest, todo, day, tried, base, report>>
  <2> DEFINE w == IF Candidates(base[r]) = {} THEN base[r] ELSE Repaired(base[r])
  <2>1. RepairOf(base[r], base[r])
    BY <1>2 DEF RepairOf
  <2>2. RepairOf(base[r], Repaired(base[r]))
    BY <1>2, RepairedType
  <2>3. RepairOf(base[r], w)
    BY <2>1, <2>2
  <2>4. work' = [work EXCEPT ![r] = w]
    BY <1>5
  <2> HIDE DEF w
  <2>5. w \in Checkpoints /\ w.day = day[r]
    BY <1>2, <2>3 DEF RepairOf
  <2>6. TInv' /\ Prepared(r, w)
    BY <1>1, <1>2, <1>5, <2>4, <2>5, PreparedKeeps
  <2> QED BY <1>1, <1>2, <2>3, <2>5, <2>6
<1>6. Stop(r, "INCOMPLETE", {}) \/
      /\ work' = [work EXCEPT ![r] = IF Candidates(base[r]) = {} THEN base[r]
                                    ELSE Repaired(base[r])]
      /\ pc' = [pc EXCEPT ![r] = "persist"]
      /\ UNCHANGED <<faults, view, newest, todo, day, tried, base, report>>
  BY DEF Replay, Candidates, Repaired
<1> QED BY <1>4, <1>5, <1>6

\* The old parser's checkpoint and what it extends.
Olds(d) == {i \in 1..Len(releases[d]) : releases[d][i].of.old}
OldLatest(d) == IF Olds(d) = {} THEN None ELSE releases[d][Top(Olds(d))].of

OldUploaded(d, batch) ==
  /\ Grown(OldExtended(d, OldLatest(d), index[d], batch, {}), FALSE)
  /\ OldLatest(d) # None => OldLatest(d).index = index[d]
  /\ \A r \in Group : pc[r] = "idle"
  /\ UNCHANGED local

\* The latest release of the old parser is a checkpoint, where there is one.
LEMMA OldLatestType ==
  ASSUME TypeOK, NEW d \in Days
  PROVE  OldLatest(d) \in Checkpoints \cup {None}
<1>1. releases[d] \in Seq(Releases) /\ Len(releases[d]) \in Nat
  BY DEF TypeOK
<1>2. Olds(d) # {} => Top(Olds(d)) \in Olds(d)
  <2>1. Olds(d) \subseteq 1..Len(releases[d])
    BY DEF Olds
  <2> QED BY <1>1, <2>1, TopIs
<1>3. \A i \in 1..Len(releases[d]) : releases[d][i].of \in Checkpoints
  <2>1. \A i \in 1..Len(releases[d]) : releases[d][i] \in Releases
    BY <1>1
  <2> QED BY <2>1 DEF Releases
<1> QED BY <1>2, <1>3 DEF OldLatest, Olds

\* Only the store and the clock change.
LEMMA WorldKeeps ==
  ASSUME TInv, StoreType', StoreInv', UNCHANGED local,
         \A d \in Days : Len(releases[d]) <= Len(releases'[d])
  PROVE  TInv'
<1>1. LocalType /\ ViewType /\ StoreType
  BY TypeParts DEF TInv
<1>2. LocalType'
  BY <1>1 DEF LocalType, local
<1>3. ViewType'
  <2> SUFFICES ASSUME NEW s \in Runners, NEW d \in Days PROVE view[s][d] <= Len(releases'[d])
    BY <1>1 DEF ViewType, local
  <2>1. /\ view[s][d] \in Nat /\ Len(releases[d]) \in Nat /\ Len(releases'[d]) \in Nat
        /\ view[s][d] <= Len(releases[d])
    BY <1>1 DEF ViewType, StoreType
  <2> QED BY <2>1
<1>4. StageInv'
  BY DEF TInv, StageInv, local
<1>5. TypeOK'
  BY <1>2, <1>3, TypePartsNext
<1> QED BY <1>4, <1>5 DEF TInv

\* An upload of the old parser keeps the typed invariant.
LEMMA OldUploadTypes ==
  ASSUME TInv, NEW d \in Days, OldUpload(d)
  PROVE  TInv' /\ \E batch \in Batches(d, OldLatest(d)) : OldUploaded(d, batch)
<1>1. /\ OldLatest(d) # None => OldLatest(d).index = index[d]
      /\ \A r \in Group : pc[r] = "idle"
      /\ \E batch \in Batches(d, OldLatest(d)) :
            Create(OldExtended(d, OldLatest(d), index[d], batch, {}), FALSE)
      /\ Fault /\ UNCHANGED <<clock, index, local>>
  BY DEF OldUpload, OldLatest, Olds, Top, OldExtended, Working
<1>2. PICK batch \in Batches(d, OldLatest(d)) :
            Create(OldExtended(d, OldLatest(d), index[d], batch, {}), FALSE)
  BY <1>1
<1> DEFINE w == OldExtended(d, OldLatest(d), index[d], batch, {})
<1>3. TypeOK /\ index[d] \in 0..MaxRevisions /\ OldLatest(d) \in Checkpoints \cup {None}
  BY OldLatestType DEF TInv, TypeOK
<1>4. IsCheckpoint(w, d, index[d], Ingested(d, OldLatest(d), batch, {}))
  BY <1>3, OldExtendedType
<1> HIDE DEF w
<1>5. Grown(w, FALSE) /\ StoreInv'
  BY <1>2, <1>4, CreateFacts DEF w, IsCheckpoint
<1>6. StoreType'
  BY <1>1, <1>3, <1>5, FaultType DEF StoreType, Grown, TypeOK
<1>7. TInv'
  BY <1>1, <1>5, <1>6, WorldKeeps DEF Grown
<1> QED BY <1>1, <1>5, <1>7 DEF OldUploaded, w

\* A revised index and the clock keep the typed invariant.
LEMMA ReviseTypes ==
  ASSUME TInv, (\E d \in Days : Revise(d)) \/ Tick
  PROVE  TInv' /\ UNCHANGED <<releases, local>>
<1>1. TypeOK /\ StoreType
  BY TypeParts DEF TInv
<1>2. \A d \in Days : Len(releases[d]) \in Nat
  BY <1>1 DEF StoreType
<1>3. UNCHANGED <<releases, local>>
  BY DEF Revise, Tick
<1>4. StoreType'
  <2>1. ASSUME NEW d \in Days, Revise(d) PROVE StoreType'
    <3>1. faults' \in 0..MaxFaults /\ index' \in [Days -> 0..MaxRevisions] /\ clock' = clock
      <4>1. index[d] < MaxRevisions /\ index[d] \in 0..MaxRevisions /\ index' = [index EXCEPT ![d] = index[d] + 1]
        BY <1>1, <2>1 DEF Revise, StoreType
      <4>2. index[d] + 1 \in 0..MaxRevisions
        BY <4>1, BoundsAssumption
      <4>3. faults' \in 0..MaxFaults /\ clock' = clock
        BY <1>1, <2>1, FaultType DEF Revise
      <4> QED BY <1>1, <4>1, <4>2, <4>3 DEF StoreType
    <3> QED BY <1>1, <1>3, <3>1 DEF StoreType
  <2>2. CASE Tick
    <3>1. clock < MaxTime /\ clock' = clock + 1 /\ clock \in 1..MaxTime
      BY <1>1, <2>2 DEF Tick, StoreType
    <3>2. clock' \in 1..MaxTime
      BY <3>1, BoundsAssumption
    <3>3. UNCHANGED <<faults, index>>
      BY <2>2 DEF Tick
    <3> QED BY <1>1, <1>3, <3>2, <3>3 DEF StoreType
  <2> QED BY <2>1, <2>2
<1>5. StoreInv' /\ \A d \in Days : Len(releases[d]) <= Len(releases'[d])
  BY <1>2, <1>3 DEF TInv, StoreInv
<1> QED BY <1>3, <1>4, <1>5, WorldKeeps

\* The initial state satisfies the typed invariant.
LEMMA InitTypes == Init => TInv
<1> SUFFICES ASSUME Init PROVE TInv
  OBVIOUS
<1>1. StoreType
  BY BoundsAssumption DEF Init, StoreType
<1>2. ViewType
  BY DEF Init, ViewType, Nothing
<1>3. LocalType
  BY BudgetAssumption, NoReportType DEF Init, LocalType
<1>4. StageInv /\ StoreInv
  BY DEF Init, StageInv, StoreInv
<1> QED BY <1>1, <1>2, <1>3, <1>4, TypeParts DEF TInv

\* Every step keeps the typed invariant.
LEMMA NextTypes == TInv /\ [Next]_vars => TInv'
<1> SUFFICES ASSUME TInv, [Next]_vars PROVE TInv'
  OBVIOUS
<1>1. CASE UNCHANGED vars
  BY <1>1 DEF vars, local, TInv, TypeOK, StageInv, StoreInv
<1>2. ASSUME NEW r \in Runners, NEW range \in SUBSET Days \ {{}}, Begin(r, range) PROVE TInv'
  BY <1>2, BeginTypes
<1>3. ASSUME NEW r \in Runners, NEW d \in Days, BeginRepair(r, d) PROVE TInv'
  BY <1>3, BeginRepairTypes
<1>4. ASSUME NEW r \in Runners, Step(r) \/ Crash(r) PROVE TInv'
  BY <1>4, LookTypes, IngestTypes, ReplayTypes, PersistTypes, FinishTypes, StoppingTypes DEF Step
<1>5. ASSUME NEW d \in Days, OldUpload(d) PROVE TInv'
  BY <1>5, OldUploadTypes
<1>6. (\E d \in Days : Revise(d)) \/ Tick => TInv'
  BY ReviseTypes
<1> QED BY <1>1, <1>2, <1>3, <1>4, <1>5, <1>6 DEF Next

\* The typed invariant holds at all times.
LEMMA Typed == Spec => []TInv
BY InitTypes, NextTypes, PTL DEF Spec

\* The store, the runners and their reports have their types, and a release is a checkpoint:
\* acquire_range, repair_amounts and release_store (TypeOK).
THEOREM TypeCorrect == Spec => []TypeOK
<1>1. TInv => TypeOK
  BY DEF TInv
<1> QED BY <1>1, Typed, PTL

-----------------------------------------------------------------------------
(* Progress, of runners that start one after the other *)

\* What one checkpoint of day d keeps of another.
Extends(d, c, e) ==
  /\ e.index = c.index
  /\ \A f \in Of(d) : Stored(c, f) => /\ e.rows[f].at = c.rows[f].at
                                      /\ e.rows[f].status \in {c.rows[f].status, "REPAIRED"}

\* What extends a checkpoint that extends a third extends the third.
LEMMA ExtendsTrans ==
  ASSUME NEW d, NEW c, NEW e, NEW g, Extends(d, c, e), Extends(d, e, g)
  PROVE  Extends(d, c, g)
BY DEF Extends, Stored, Kept

\* What extends a clean checkpoint of the day is clean.
LEMMA ExtendsClean ==
  ASSUME NEW d, NEW c, NEW e, Extends(d, c, e), c.day = d, e.day = d, Clean(c)
  PROVE  Clean(e)
BY DEF Extends, Stored, Kept, Clean

\* A checkpoint of the same index with more filings ingested extends the first.
LEMMA IngestedExtends ==
  ASSUME NEW d, NEW c, c # None, NEW w, NEW batch, NEW failed, w.index = c.index,
         w.rows = Ingested(d, c, batch, failed)
  PROVE  Extends(d, c, w)
<1> SUFFICES ASSUME NEW f \in Of(d), Stored(c, f) PROVE w.rows[f] = c.rows[f]
  BY DEF Extends
<1>1. f \in Filings /\ f \notin Missing(d, c)
  BY DEF Of, Missing
<1> QED BY <1>1 DEF Ingested

\* A repair extends what it repairs.
LEMMA RepairExtends ==
  ASSUME NEW d, NEW c, NEW w, RepairOf(c, w)
  PROVE  Extends(d, c, w)
BY DEF RepairOf, Extends, Of

\* No two runners work; the releases of the new parser extend one another.
AloneInv == \A r, s \in Runners : pc[r] # "idle" /\ pc[s] # "idle" => r = s

ChainInv ==
  \A d \in Days : \A i \in 1..Len(releases[d]) :
    /\ releases[d][i].draft => ~releases[d][i].of.old
    /\ ~releases[d][i].draft /\ ~releases[d][i].of.old
         => Extends(d, releases[d][i].of, Published(d))

\* What a runner knows of the days ahead of it is still so.
RunnerInv(r) ==
  /\ pc[r] = "idle" => todo[r] = {} /\ day[r] = 0
  /\ day[r] \notin todo[r]
  /\ \A d \in Days : d \in todo[r] \/ d = day[r] => view[r][d] = Len(releases[d])
  /\ pc[r] \in {"ingest", "replay"} => base[r] = Published(day[r])
  /\ pc[r] = "persist" =>
       /\ Published(day[r]) # None => Extends(day[r], Published(day[r]), work[r])
       /\ work[r].old => work[r] = Published(day[r]) /\ Published(day[r]) # None

Holds(d) == Published(d) # None
HoldsClean(d) == Published(d) # None /\ Clean(Published(d))

TruthInv(r) ==
  /\ \A d \in Days : /\ report[r].entry[d] \in Verified => Holds(d)
                     /\ report[r].entry[d] = "ACQUIRED" => HoldsClean(d)
  /\ report[r].status # "INCOMPLETE" => report[r].range # {} /\ \A d \in report[r].range : Holds(d)
  /\ report[r].status = "ACQUIRED" => \A d \in report[r].range : HoldsClean(d)

PInv == /\ AloneInv /\ ChainInv
        /\ \A r \in Runners : RunnerInv(r)
        /\ \A r \in Runners : TruthInv(r)

\* What a step must not do to the newest checkpoint of a day.
Progress ==
  \A d \in Days : Published(d) # None =>
    Published(d)' # None /\ Extends(d, Published(d), Published(d)')

\* A step without a release loses no progress.
LEMMA SameStore ==
  ASSUME TInv, UNCHANGED releases, ChainInv
  PROVE  /\ Progress /\ ChainInv' /\ \A d \in Days : Published(d)' = Published(d)
<1>1. \A d \in Days : Published(d)' = Published(d)
  BY PublishedIsNewest
<1>2. Progress
  BY <1>1 DEF Progress, Extends
<1>3. ChainInv'
  BY <1>1 DEF ChainInv, Extends, Stored
<1> QED BY <1>1, <1>2, <1>3

\* A day that is held, or held clean, stays so when progress is kept.
LEMMA HoldsKept ==
  ASSUME TInv, TInv', Progress, NEW d \in Days
  PROVE  /\ Holds(d) => Holds(d)'
         /\ HoldsClean(d) => HoldsClean(d)'
<1>1. Holds(d) => Holds(d)'
  BY DEF Progress, Holds
<1>2. HoldsClean(d) => HoldsClean(d)'
  <2> SUFFICES ASSUME HoldsClean(d) PROVE HoldsClean(d)'
    OBVIOUS
  <2>1. Published(d) # None /\ Clean(Published(d)) /\ Published(d)' # None
        /\ Extends(d, Published(d), Published(d)')
    BY DEF HoldsClean, Progress
  <2>2. Published(d).day = d
    BY <2>1, PublishedType
  <2>3. Published(d)'.day = d
    <3>1. releases' \in [Days -> Seq(Releases)] /\ Published(d)' = Newest(releases'[d])
      BY PublishedIsNewest DEF TInv, TypeOK
    <3>2. Ids(releases'[d]) # {}
      BY <2>1, <3>1, NewestType
    <3>3. PICK i \in Ids(releases'[d]) : Newest(releases'[d]) = releases'[d][i].of
      BY <3>1, <3>2, NewestType
    <3> QED BY <3>1, <3>3 DEF Ids, TInv, StoreInv
  <2> DEFINE c == Published(d)
             e == Published(d)'
  <2>4. Clean(e)
    <3>1. Extends(d, c, e) /\ c.day = d /\ e.day = d /\ Clean(c)
      BY <2>1, <2>2, <2>3
    <3> HIDE DEF c, e
    <3> QED BY <3>1, ExtendsClean
  <2> QED BY <2>1, <2>4 DEF HoldsClean, Clean
<1> QED BY <1>1, <1>2

\* A report that does not change stays true when progress is kept.
LEMMA TruthKept ==
  ASSUME TInv, TInv', Progress, NEW s \in Runners, TruthInv(s), report'[s] = report[s]
  PROVE  TruthInv(s)'
<1>1. \A d \in Days : (Holds(d) => Holds(d)') /\ (HoldsClean(d) => HoldsClean(d)')
  BY HoldsKept
<1>2. report[s].range \in SUBSET Days
  BY TypeParts DEF TInv, LocalType, Reports
<1> QED BY <1>1, <1>2 DEF TruthInv

\* The entry e of day d is true of the store after the step.
Borne(d, e) == /\ e \in Verified => Holds(d)
               /\ e = "ACQUIRED" => HoldsClean(d)

\* A report with one new entry that is true is true.
LEMMA TruthEntered ==
  ASSUME TInv, TInv', Progress, NEW r \in Runners, TruthInv(r), NEW D \in Days, NEW e \in Entries,
         report'[r].status = report[r].status, report'[r].range = report[r].range,
         report'[r].entry[D] = e, Borne(D, e)',
         \A d \in Days : d # D => report'[r].entry[d] = report[r].entry[d]
  PROVE  TruthInv(r)'
<1>1. \A d \in Days : (Holds(d) => Holds(d)') /\ (HoldsClean(d) => HoldsClean(d)')
  BY HoldsKept
<1>2. report[r].range \in SUBSET Days
  BY TypeParts DEF TInv, LocalType, Reports
<1>3. \A d \in Days : /\ report'[r].entry[d] \in Verified => Holds(d)'
                      /\ report'[r].entry[d] = "ACQUIRED" => HoldsClean(d)'
  <2> SUFFICES ASSUME NEW d \in Days
               PROVE  /\ report'[r].entry[d] \in Verified => Holds(d)'
                      /\ report'[r].entry[d] = "ACQUIRED" => HoldsClean(d)'
    OBVIOUS
  <2>1. CASE d = D
    BY <2>1 DEF Borne
  <2>2. CASE d # D
    BY <1>1, <2>2 DEF TruthInv
  <2> QED BY <2>1, <2>2
<1>4. /\ report'[r].status # "INCOMPLETE" => report'[r].range # {} /\ \A d \in report'[r].range : Holds(d)'
      /\ report'[r].status = "ACQUIRED" => \A d \in report'[r].range : HoldsClean(d)'
  <2>1. /\ report[r].status # "INCOMPLETE" => report[r].range # {} /\ \A d \in report[r].range : Holds(d)
        /\ report[r].status = "ACQUIRED" => \A d \in report[r].range : HoldsClean(d)
    BY DEF TruthInv
  <2>2. \A d \in report[r].range : (Holds(d) => Holds(d)') /\ (HoldsClean(d) => HoldsClean(d)')
    BY <1>1, <1>2
  <2>3. report'[r].range = report[r].range /\ report'[r].status = report[r].status
    OBVIOUS
  <2>4. report'[r].status # "INCOMPLETE" => report'[r].range # {}
    BY <2>1, <2>3
  <2>5. ASSUME report'[r].status # "INCOMPLETE", NEW d \in report'[r].range PROVE Holds(d)'
    BY <2>1, <2>2, <2>3, <2>5
  <2>6. ASSUME report'[r].status = "ACQUIRED", NEW d \in report'[r].range PROVE HoldsClean(d)'
    <3>1. d \in report[r].range /\ report[r].status = "ACQUIRED"
      BY <2>3, <2>6
    <3>2. HoldsClean(d)
      BY <2>1, <3>1
    <3> QED BY <2>2, <3>1, <3>2
  <2> QED BY <2>4, <2>5, <2>6
<1> QED BY <1>3, <1>4 DEF TruthInv

\* A report of nothing.
LEMMA TruthOfNone ==
  ASSUME NEW r \in Runners, \A d \in Days : report'[r].entry[d] = "none",
         report'[r].status = "INCOMPLETE"
  PROVE  TruthInv(r)'
BY DEF TruthInv, Verified

\* An idle runner knows nothing that could be stale.
LEMMA IdleRunner ==
  ASSUME NEW s \in Runners, pc'[s] = "idle", todo'[s] = {}, day'[s] = 0
  PROVE  RunnerInv(s)'
<1>1. 0 \notin Days
  BY DaysAssumption
<1> QED BY <1>1 DEF RunnerInv

\* A runner that a step leaves alone, with the store, knows what it knew.
LEMMA SameRunner ==
  ASSUME TInv, UNCHANGED releases, ChainInv, NEW s \in Runners, RunnerInv(s),
         pc'[s] = pc[s], view'[s] = view[s], todo'[s] = todo[s], day'[s] = day[s],
         base'[s] = base[s], work'[s] = work[s]
  PROVE  RunnerInv(s)'
<1>1. \A d \in Days : Published(d)' = Published(d)
  BY SameStore
<1>2. pc[s] \in {"ingest", "replay", "persist"} => day[s] \in Days
  BY DEF TInv, StageInv
<1>3. pc[s] \in {"ingest", "replay"} => base'[s] = Published(day[s])'
  BY <1>1, <1>2 DEF RunnerInv
<1>4. pc[s] = "persist" =>
       /\ Published(day[s])' # None => Extends(day[s], Published(day[s])', work[s])
       /\ work[s].old => work[s] = Published(day[s])' /\ Published(day[s])' # None
  <2> SUFFICES ASSUME pc[s] = "persist"
               PROVE  /\ Published(day[s])' # None => Extends(day[s], Published(day[s])', work[s])
                      /\ work[s].old => work[s] = Published(day[s])' /\ Published(day[s])' # None
    OBVIOUS
  <2> DEFINE P == Published(day[s])
             Q == Published(day[s])'
  <2>1. Q = P
    BY <1>1, <1>2
  <2>2. (P # None => Extends(day[s], P, work[s])) /\ (work[s].old => work[s] = P /\ P # None)
    BY DEF RunnerInv
  <2>3. (Q # None => Extends(day[s], Q, work[s])) /\ (work[s].old => work[s] = Q /\ Q # None)
    <3> HIDE DEF P, Q
    <3> QED BY <2>1, <2>2
  <2> QED BY <2>3
<1>6. /\ pc'[s] = "idle" => todo'[s] = {} /\ day'[s] = 0
      /\ day'[s] \notin todo'[s]
      /\ \A d \in Days : d \in todo'[s] \/ d = day'[s] => view'[s][d] = Len(releases'[d])
  BY DEF RunnerInv
<1>7. pc'[s] \in {"ingest", "replay"} => base'[s] = Published(day[s])'
  BY <1>3
<1>8. pc'[s] = "persist" =>
       /\ Published(day[s])' # None => Extends(day[s], Published(day[s])', work'[s])
       /\ work'[s].old => work'[s] = Published(day[s])' /\ Published(day[s])' # None
  BY <1>4
<1> QED BY <1>6, <1>7, <1>8 DEF RunnerInv, Extends

\* The checkpoint the new parser adds, or the draft that is left of it.
LEMMA GrowNew ==
  ASSUME TInv, ChainInv, NEW w \in Checkpoints, ~w.old, NEW b \in BOOLEAN, Grown(w, b),
         Published(w.day) # None => Extends(w.day, Published(w.day), w)
  PROVE  /\ Progress /\ ChainInv'
         /\ Published(w.day)' = IF b THEN Published(w.day) ELSE w
<1> DEFINE D == w.day
           x == [of |-> w, draft |-> b]
<1>1. D \in Days /\ x \in Releases /\ x.of = w /\ x.draft = b /\ w # None
  BY NoneAssumption DEF Checkpoints, Releases
<1>2. releases[D] \in Seq(Releases) /\ releases'[D] = Append(releases[D], x)
      /\ \A d \in Days : d # D => releases'[d] = releases[d]
  BY <1>1 DEF TInv, TypeOK, Grown
<1> HIDE DEF x
<1>3. Newest(releases'[D]) = IF b THEN Newest(releases[D]) ELSE w
  BY <1>1, <1>2, AppendDraft, AppendNew
<1>4. /\ Published(D) = Newest(releases[D]) /\ Published(D)' = Newest(releases'[D])
      /\ \A d \in Days : d # D => Published(d)' = Published(d)
  BY <1>1, <1>2, PublishedIsNewest
<1>5. Published(D)' = IF b THEN Published(D) ELSE w
  BY <1>3, <1>4
<1>6. Published(D) # None => Published(D)' # None /\ Extends(D, Published(D), Published(D)')
  BY <1>1, <1>5 DEF Extends
<1>7. Progress
  <2> SUFFICES ASSUME NEW d \in Days, Published(d) # None
               PROVE  Published(d)' # None /\ Extends(d, Published(d), Published(d)')
    BY DEF Progress
  <2>1. CASE d = D
    BY <1>6, <2>1
  <2>2. CASE d # D
    BY <1>4, <2>2 DEF Extends
  <2> QED BY <2>1, <2>2
<1>8. Appended(releases[D], x, releases'[D])
  BY <1>1, <1>2, AppendFacts
<1>9. ChainInv'
  <2> SUFFICES ASSUME NEW d \in Days, NEW i \in 1..Len(releases'[d])
               PROVE  /\ releases'[d][i].draft => ~releases'[d][i].of.old
                      /\ ~releases'[d][i].draft /\ ~releases'[d][i].of.old
                           => Extends(d, releases'[d][i].of, Published(d)')
    BY DEF ChainInv, Extends, Stored
  <2>1. CASE d # D
    BY <1>2, <1>4, <2>1 DEF ChainInv, Extends
  <2>2. CASE d = D /\ i = Len(releases'[d])
    <3>1. releases'[d][i] = x
      BY <1>8, <2>2 DEF Appended
    <3>2. ~b => Extends(d, w, Published(d)')
      BY <1>5, <2>2 DEF Extends
    <3> QED BY <1>1, <3>1, <3>2
  <2>3. CASE d = D /\ i # Len(releases'[d])
    <3>1. i \in 1..Len(releases[D]) /\ releases'[d][i] = releases[d][i]
      <4>1. Len(releases'[D]) = Len(releases[D]) + 1 /\ Len(releases[D]) \in Nat
        BY <1>8 DEF Appended
      <4>2. i \in 1..Len(releases[D])
        BY <2>3, <4>1
      <4> QED BY <1>8, <2>3, <4>2 DEF Appended
    <3>2. ~releases[d][i].draft /\ ~releases[d][i].of.old
            => Extends(d, releases[d][i].of, Published(d))
      BY <2>3, <3>1 DEF ChainInv
    <3>3. ~releases[d][i].draft => Published(d) # None
      <4>1. ~releases[d][i].draft => i \in Ids(releases[d])
        BY <2>3, <3>1 DEF Ids
      <4> QED BY <1>2, <1>4, <2>3, <4>1, NewestType
    <3>4. Published(d) # None => Extends(d, Published(d), Published(d)')
      BY <1>6, <2>3
    <3>5. ~releases[d][i].draft /\ ~releases[d][i].of.old
            => Extends(d, releases[d][i].of, Published(d)')
      BY <3>2, <3>3, <3>4, ExtendsTrans
    <3>6. releases[d][i].draft => ~releases[d][i].of.old
      BY <2>3, <3>1 DEF ChainInv
    <3> QED BY <3>1, <3>5, <3>6
  <2> QED BY <2>1, <2>2, <2>3
<1> QED BY <1>5, <1>7, <1>9

\* The one the old parser adds: it is the newest only when there is no other.
LEMMA GrowOld ==
  ASSUME TInv, ChainInv, NEW D \in Days, NEW batch, OldUploaded(D, batch)
  PROVE  Progress /\ ChainInv'
<1> DEFINE c == OldLatest(D)
           w == OldExtended(D, c, index[D], batch, {})
           x == [of |-> w, draft |-> FALSE]
<1>1. TypeOK /\ releases[D] \in Seq(Releases) /\ index[D] \in 0..MaxRevisions /\ c \in Checkpoints \cup {None}
  BY OldLatestType DEF TInv, TypeOK
<1>2. IsCheckpoint(w, D, index[D], Ingested(D, c, batch, {})) /\ w.old
  BY <1>1, OldExtendedType
<1>3. Grown(w, FALSE) /\ (c # None => c.index = index[D])
  BY DEF OldUploaded
<1>4. /\ c = IF Olds(D) = {} THEN None ELSE releases[D][Top(Olds(D))].of
  BY DEF OldLatest
<1>0. x = [of |-> w, draft |-> FALSE]
  OBVIOUS
<1> HIDE DEF w, c, x
<1>5. w \in Checkpoints /\ w.day = D /\ w.index = index[D] /\ w.rows = Ingested(D, c, batch, {}) /\ w # None
  BY <1>2, NoneAssumption DEF IsCheckpoint
<1>6. x \in Releases /\ ~x.draft /\ x.of = w /\ x.of.old
  BY <1>0, <1>2, <1>5 DEF Releases
<1>7. releases'[D] = Append(releases[D], x) /\ \A d \in Days : d # D => releases'[d] = releases[d]
  BY <1>0, <1>3, <1>5 DEF Grown
<1>8. Newest(releases'[D]) = IF News(releases[D]) # {} THEN Newest(releases[D]) ELSE w
  BY <1>1, <1>6, <1>7, AppendOld
<1>9. /\ Published(D) = Newest(releases[D]) /\ Published(D)' = Newest(releases'[D])
      /\ \A d \in Days : d # D => Published(d)' = Published(d)
  BY <1>7, PublishedIsNewest
<1>10. Published(D)' = IF News(releases[D]) # {} THEN Published(D) ELSE w
  BY <1>8, <1>9
<1>11. ASSUME News(releases[D]) = {}, Published(D) # None PROVE Published(D) = c
  <2>1. Olds(D) = Ids(releases[D])
    BY <1>11 DEF Olds, Ids, News, ChainInv
  <2>2. Ids(releases[D]) # {}
    BY <1>1, <1>9, <1>11, NewestType
  <2> QED BY <1>4, <1>9, <1>11, <2>1, <2>2 DEF Newest
<1>12. Published(D) # None => Published(D)' # None /\ Extends(D, Published(D), Published(D)')
  <2>1. CASE News(releases[D]) # {}
    BY <1>10, <2>1 DEF Extends
  <2>2. ASSUME News(releases[D]) = {}, Published(D) # None
        PROVE  Published(D)' # None /\ Extends(D, Published(D), Published(D)')
    <3>1. Published(D) = c /\ Published(D)' = w /\ c # None
      BY <1>10, <1>11, <2>2
    <3>2. Extends(D, c, w)
      BY <1>3, <1>5, <3>1, IngestedExtends
    <3> QED BY <1>5, <3>1, <3>2
  <2> QED BY <2>1, <2>2
<1>13. Progress
  <2> SUFFICES ASSUME NEW d \in Days, Published(d) # None
               PROVE  Published(d)' # None /\ Extends(d, Published(d), Published(d)')
    BY DEF Progress
  <2>1. CASE d = D
    BY <1>12, <2>1
  <2>2. CASE d # D
    BY <1>9, <2>2 DEF Extends
  <2> QED BY <2>1, <2>2
<1>14. Appended(releases[D], x, releases'[D])
  BY <1>1, <1>6, <1>7, AppendFacts
<1>15. ChainInv'
  <2> SUFFICES ASSUME NEW d \in Days, NEW i \in 1..Len(releases'[d])
               PROVE  /\ releases'[d][i].draft => ~releases'[d][i].of.old
                      /\ ~releases'[d][i].draft /\ ~releases'[d][i].of.old
                           => Extends(d, releases'[d][i].of, Published(d)')
    BY DEF ChainInv, Extends, Stored
  <2>1. CASE d # D
    BY <1>7, <1>9, <2>1 DEF ChainInv, Extends
  <2>2. CASE d = D /\ i = Len(releases'[d])
    BY <1>6, <1>14, <2>2 DEF Appended
  <2>3. CASE d = D /\ i # Len(releases'[d])
    <3>1. i \in 1..Len(releases[D]) /\ releases'[d][i] = releases[d][i]
      <4>1. Len(releases'[D]) = Len(releases[D]) + 1 /\ Len(releases[D]) \in Nat
        BY <1>14 DEF Appended
      <4>2. i \in 1..Len(releases[D])
        BY <2>3, <4>1
      <4> QED BY <1>14, <2>3, <4>2 DEF Appended
    <3>2. /\ releases[d][i].draft => ~releases[d][i].of.old
          /\ ~releases[d][i].draft /\ ~releases[d][i].of.old
               => Extends(d, releases[d][i].of, Published(d)) /\ News(releases[d]) # {}
      BY <2>3, <3>1 DEF ChainInv, News, Ids
    <3>3. News(releases[d]) # {} => Published(d)' = Published(d)
      BY <1>10, <2>3
    <3>4. ~releases[d][i].draft /\ ~releases[d][i].of.old
               => Extends(d, releases[d][i].of, Published(d)')
      BY <3>2, <3>3
    <3> QED BY <3>1, <3>2, <3>4
  <2> QED BY <2>1, <2>2, <2>3
<1> QED BY <1>13, <1>15

\* What comes of a persisted checkpoint.
Persisted(r, d, e) == Noted(r, e) /\ UNCHANGED <<view, todo>> /\ Borne(d, e)'
                      /\ \A b \in Days : b # d => releases'[b] = releases[b]

\* Persist keeps progress, and the entry it notes is true of the store.
LEMMA PersistKeeps ==
  ASSUME TInv, ChainInv, NEW r \in Runners, RunnerInv(r), Persist(r), NEW d \in Days, day[r] = d
  PROVE  /\ Progress /\ ChainInv'
         /\ \E e \in Entries : Persisted(r, d, e)
<1>1. pc[r] = "persist" /\ UNCHANGED <<clock, index, view, newest, todo, tried>>
  BY DEF Persist
<1>0. PICK c \in Checkpoints : c = work[r]
  BY <1>1 DEF TInv, StageInv
<1> DEFINE P == Published(d)
           known == {i \in 1..view[r][d] : releases[d][i].of = c}
           e == IF Clean(c) THEN "ACQUIRED" ELSE "STORED"
<1>2. TInv' /\ c \in Checkpoints /\ c.day = d
  BY <1>0, <1>1, PersistTypes DEF TInv, StageInv
<1>3. /\ P # None => Extends(d, P, c)
      /\ c.old => c = P /\ P # None
      /\ view[r][d] = Len(releases[d])
  BY <1>0, <1>1 DEF RunnerInv
<1>4. \/ (\E i \in known : ~releases[d][i].draft) /\ Note(r, e) /\ UNCHANGED releases
      \/ Note(r, "FAILED") /\ UNCHANGED releases
      \/ known = {} /\ Create(c, FALSE) /\ Note(r, e)
      \/ known = {} /\ (\E b \in BOOLEAN : Create(c, b)) /\ Note(r, "FAILED")
  BY <1>0, <1>2 DEF Persist, Created, Lost
<1>5. \A x \in Entries : Note(r, x) => Noted(r, x)
  BY <1>1, NoteFacts DEF TInv
<1>6. e \in Entries /\ "FAILED" \in Entries /\ "FAILED" \notin Verified /\ (e = "ACQUIRED" => Clean(c))
  BY DEF Entries, Verified
<1>7. P # None => /\ P \in Checkpoints /\ P.day = d
                  /\ \E i \in 1..Len(releases[d]) : ~releases[d][i].draft /\ releases[d][i].of = P
  BY PublishedType
<1> HIDE DEF P, e
<1>8. known = {} => ~c.old
  BY <1>3, <1>7
<1>9. Borne(d, "FAILED")'
  BY <1>6 DEF Borne
<1>10. CASE Note(r, "FAILED") /\ UNCHANGED releases
  <2>1. Persisted(r, d, "FAILED")
    BY <1>1, <1>5, <1>6, <1>9, <1>10 DEF Persisted
  <2> QED BY <1>6, <1>10, <2>1, SameStore
<1>11. CASE (\E i \in known : ~releases[d][i].draft) /\ Note(r, e) /\ UNCHANGED releases
  <2>1. PICK i \in 1..Len(releases[d]) : releases[d][i].of = c /\ ~releases[d][i].draft
    BY <1>3, <1>11
  <2>2. P # None
    <3>1. releases[d] \in Seq(Releases) /\ Published(d) = Newest(releases[d])
      BY PublishedIsNewest DEF TInv, TypeOK
    <3>2. i \in Ids(releases[d])
      BY <2>1 DEF Ids
    <3> QED BY <3>1, <3>2, NewestType DEF P
  <2>3. Extends(d, c, P)
    <3>1. ~c.old => Extends(d, c, P)
      BY <2>1 DEF ChainInv, P
    <3>2. c = P => Extends(d, c, P)
      BY DEF Extends
    <3> QED BY <1>3, <3>1, <3>2
  <2>4. Clean(c) => Clean(P)
    BY <1>2, <1>7, <2>2, <2>3, ExtendsClean
  <2>5. Published(d)' = P
    <3>1. releases' = releases
      BY <1>11
    <3>2. \A a \in Days : Published(a)' = Published(a)
      BY <3>1, SameStore
    <3> QED BY <3>2 DEF P
  <2>6. Borne(d, e)'
    BY <1>6, <2>2, <2>4, <2>5 DEF Borne, Holds, HoldsClean, Clean
  <2>7. Persisted(r, d, e)
    BY <1>1, <1>5, <1>6, <1>11, <2>6 DEF Persisted
  <2> QED BY <1>6, <1>11, <2>7, SameStore
<1>12. ASSUME NEW b \in BOOLEAN, Create(c, b), known = {}
       PROVE  /\ Progress /\ ChainInv' /\ Published(d)' = IF b THEN P ELSE c
              /\ \A a \in Days : a # d => releases'[a] = releases[a]
  <2>1. Grown(c, b)
    BY <1>2, <1>12, CreateFacts
  <2>2. ~c.old /\ (Published(c.day) # None => Extends(c.day, Published(c.day), c))
    <3>1. Published(c.day) = P
      BY <1>2 DEF P
    <3>2. P # None => Extends(c.day, P, c)
      BY <1>2, <1>3
    <3> QED BY <1>8, <1>12, <3>1, <3>2
  <2>3. Progress /\ ChainInv' /\ Published(c.day)' = IF b THEN Published(c.day) ELSE c
    BY <1>2, <2>1, <2>2, GrowNew
  <2> QED BY <1>2, <2>1, <2>3 DEF P, Grown
<1>13. ASSUME Create(c, FALSE), Note(r, e), known = {}
       PROVE  Progress /\ ChainInv' /\ Persisted(r, d, e)
  <2>1. Progress /\ ChainInv' /\ Published(d)' = c /\ \A a \in Days : a # d => releases'[a] = releases[a]
    BY <1>12, <1>13
  <2>2. Borne(d, e)'
    BY <1>2, <1>6, <2>1, NoneAssumption DEF Borne, Holds, HoldsClean, Clean
  <2> QED BY <1>1, <1>5, <1>6, <1>13, <2>1, <2>2 DEF Persisted
<1>14. ASSUME NEW b \in BOOLEAN, Create(c, b), Note(r, "FAILED"), known = {}
       PROVE  Progress /\ ChainInv' /\ Persisted(r, d, "FAILED")
  <2>1. Progress /\ ChainInv' /\ \A a \in Days : a # d => releases'[a] = releases[a]
    BY <1>12, <1>14
  <2> QED BY <1>1, <1>5, <1>6, <1>9, <1>14, <2>1 DEF Persisted
<1> QED BY <1>4, <1>6, <1>10, <1>11, <1>13, <1>14

\* The other runners are idle, before and after.
Apart(r) == \A s \in Runners : s # r => /\ pc[s] = "idle" /\ pc'[s] = "idle"
                                      /\ todo'[s] = {} /\ day'[s] = 0 /\ report'[s] = report[s]

\* A step of the only runner that works keeps the invariant when it keeps its own part.
LEMMA OneMoves ==
  ASSUME PInv, TInv, TInv', NEW r \in Runners, Apart(r), Progress, ChainInv',
         RunnerInv(r)', TruthInv(r)'
  PROVE  PInv'
<1>1. AloneInv'
  BY DEF Apart, AloneInv
<1>2. ASSUME NEW s \in Runners PROVE RunnerInv(s)'
  <2>1. CASE s = r
    BY <2>1
  <2>2. CASE s # r
    BY <2>2, IdleRunner DEF Apart
  <2> QED BY <2>1, <2>2
<1>3. ASSUME NEW s \in Runners PROVE TruthInv(s)'
  <2>1. CASE s = r
    BY <2>1
  <2>2. CASE s # r
    <3>1. TruthInv(s) /\ report'[s] = report[s]
      BY <2>2 DEF Apart, PInv
    <3> QED BY <3>1, TruthKept
  <2> QED BY <2>1, <2>2
<1> QED BY <1>1, <1>2, <1>3 DEF PInv

\* A runner that stops with a true verdict keeps the invariant.
LEMMA StoppedKeeps ==
  ASSUME PInv, TInv, TInv', UNCHANGED releases, NEW r \in Runners, NEW status, NEW range \in SUBSET Days,
         \A s \in Runners : s # r => pc[s] = "idle", Stopped(r, status, range),
         status # "INCOMPLETE" => range # {} /\ \A d \in range : Holds(d),
         status = "ACQUIRED" => \A d \in range : HoldsClean(d)
  PROVE  PInv'
<1>1. Progress /\ ChainInv' /\ \A d \in Days : Published(d)' = Published(d)
  BY SameStore DEF PInv
<1>2. Apart(r)
  BY DEF Stopped, Apart, PInv, RunnerInv
<1>3. RunnerInv(r)'
  BY IdleRunner DEF Stopped
<1>4. \A d \in Days : Holds(d)' = Holds(d) /\ HoldsClean(d)' = HoldsClean(d)
  BY <1>1 DEF Holds, HoldsClean, Clean
<1>5. TruthInv(r)'
  <2>1. /\ report'[r].status = status /\ report'[r].range = range
        /\ \A d \in Days : report'[r].entry[d] = "none"
    BY DEF Stopped
  <2>2. status # "INCOMPLETE" => range # {} /\ \A d \in range : Holds(d)'
    BY <1>4
  <2>3. status = "ACQUIRED" => \A d \in range : HoldsClean(d)'
    BY <1>4
  <2> QED BY <2>1, <2>2, <2>3 DEF TruthInv, Verified
<1> QED BY <1>1, <1>2, <1>3, <1>5, OneMoves

\* Within one concurrency group a run begins when no other works.
LEMMA MayBeginAlone ==
  ASSUME Group = Runners, NEW r \in Runners, MayBegin(r)
  PROVE  \A s \in Runners : pc[s] = "idle"
BY DEF MayBegin, Working

\* A run that begins keeps progress and the invariant.
LEMMA BeginKeeps ==
  ASSUME Group = Runners, PInv, TInv, NEW r \in Runners, NEW range \in SUBSET Days, Begin(r, range)
  PROVE  Progress /\ PInv'
<1>1. \A s \in Runners : pc[s] = "idle" /\ todo[s] = {} /\ day[s] = 0
  BY MayBeginAlone DEF Begin, PInv, RunnerInv
<1>2. TInv' /\ (Began(r, range) \/ Stopped(r, "INCOMPLETE", {})) /\ releases' = releases
  BY BeginTypes DEF Begin
<1>3. Progress /\ ChainInv'
  BY <1>2, SameStore DEF PInv
<1>4. CASE Stopped(r, "INCOMPLETE", {})
  <2>1. PInv'
    BY <1>1, <1>2, <1>4, StoppedKeeps
  <2> QED BY <1>3, <2>1
<1>5. CASE Began(r, range)
  <2>1. Apart(r)
    BY <1>1, <1>5 DEF Began, Apart
  <2>2. RunnerInv(r)'
    <3>1. 0 \notin Days
      BY DaysAssumption
    <3>2. pc'[r] = "day" /\ day'[r] = 0 /\ todo'[r] \subseteq Days
          /\ \A d \in Days : view'[r][d] = Len(releases'[d])
      BY <1>1, <1>2, <1>5 DEF Began
    <3> QED BY <3>1, <3>2 DEF RunnerInv
  <2>3. TruthInv(r)'
    BY <1>5, TruthOfNone DEF Began
  <2>4. PInv'
    BY <1>2, <1>3, <2>1, <2>2, <2>3, OneMoves
  <2> QED BY <1>3, <2>4
<1> QED BY <1>2, <1>4, <1>5

\* A repair that begins keeps progress and the invariant.
LEMMA BeginRepairKeeps ==
  ASSUME Group = Runners, PInv, TInv, NEW r \in Runners, NEW d \in Days, BeginRepair(r, d)
  PROVE  Progress /\ PInv'
<1>1. \A s \in Runners : pc[s] = "idle" /\ todo[s] = {} /\ day[s] = 0
  BY MayBeginAlone DEF BeginRepair, PInv, RunnerInv
<1>2. TInv' /\ Repairs(r, d)
  BY BeginRepairTypes
<1>3. releases' = releases
  BY <1>2 DEF Repairs
<1>4. Progress /\ ChainInv' /\ \A b \in Days : Published(b)' = Published(b)
  BY <1>3, SameStore DEF PInv
<1>5. Apart(r)
  BY <1>1, <1>2 DEF Repairs, Apart
<1>6. RunnerInv(r)'
  <2>1. /\ pc'[r] = "replay" /\ todo'[r] = {} /\ day'[r] = d /\ base'[r] = Published(d)'
        /\ \A b \in Days : view'[r][b] = Len(releases'[b])
    BY <1>1, <1>2, <1>3, <1>4 DEF Repairs
  <2> QED BY <2>1 DEF RunnerInv
<1>7. TruthInv(r)'
  BY <1>2, TruthOfNone DEF Repairs
<1> QED BY <1>2, <1>4, <1>5, <1>6, <1>7, OneMoves

\* Nobody else is at work while r is.
LEMMA WorkingAlone ==
  ASSUME PInv, NEW r \in Runners, pc[r] # "idle"
  PROVE  \A s \in Runners : s # r => pc[s] = "idle" /\ todo[s] = {} /\ day[s] = 0
BY DEF PInv, AloneInv, RunnerInv

\* Look keeps progress and the invariant.
LEMMA LookKeeps ==
  ASSUME PInv, TInv, NEW r \in Runners, Look(r)
  PROVE  Progress /\ PInv'
<1>1. TInv' /\ releases' = releases /\ pc[r] = "day"
  BY LookTypes
<1>2. PICK d \in todo[r] : d \in Days /\ Looked(r, d)
  BY LookTypes
<1>3. Progress /\ ChainInv' /\ \A b \in Days : Published(b)' = Published(b)
  BY <1>1, SameStore DEF PInv
<1>4. /\ \A s \in Runners : s # r => pc[s] = "idle" /\ todo[s] = {} /\ day[s] = 0
      /\ TruthInv(r) /\ day[r] \notin todo[r] /\ todo[r] \subseteq Days
      /\ \A b \in Days : b \in todo[r] \/ b = day[r] => view[r][b] = Len(releases[b])
  BY <1>1, WorkingAlone, TypeParts DEF PInv, RunnerInv, TInv, LocalType
<1>5. Latest(d, view[r][d]) = Published(d)
  BY <1>2, <1>4 DEF Published, Inventory
<1>6. ASSUME NEW e \in {"DEFERRED", "FAILED"}, Skipped(r, d, e) PROVE PInv'
  <2>1. Apart(r)
    BY <1>4, <1>6 DEF Skipped, Entered, Apart
  <2>2. RunnerInv(r)'
    <3>1. pc'[r] = "day" /\ day'[r] = day[r] /\ todo'[r] = todo[r] \ {d} /\ view'[r] = view[r]
      BY <1>1, <1>6 DEF Skipped
    <3> QED BY <1>1, <1>4, <3>1 DEF RunnerInv
  <2>3. TruthInv(r)'
    <3>1. e \in Entries /\ e \notin Verified /\ Borne(d, e)'
      BY DEF Entries, Verified, Borne
    <3> QED BY <1>1, <1>2, <1>3, <1>4, <1>6, <3>1, TruthEntered DEF Skipped, Entered
  <2> QED BY <1>1, <1>3, <2>1, <2>2, <2>3, OneMoves
<1>7. ASSUME NEW p \in {"ingest", "persist"}, NEW b, NEW w, Taken(r, d, p, b, w),
             p = "ingest" => b = Published(d),
             p = "persist" => w = Published(d) /\ Published(d) # None
      PROVE  PInv'
  <2>1. Apart(r)
    BY <1>4, <1>7 DEF Taken, Apart
  <2>2. RunnerInv(r)'
    <3>1. /\ pc'[r] = p /\ day'[r] = d /\ todo'[r] = todo[r] \ {d} /\ view'[r] = view[r]
          /\ base'[r] = b /\ work'[r] = w
      BY <1>7 DEF Taken
    <3>2. Published(d)' = Published(d)
      BY <1>2, <1>3
    <3>3. /\ day'[r] \notin todo'[r] /\ pc'[r] # "idle"
          /\ \A a \in Days : a \in todo'[r] \/ a = day'[r] => view'[r][a] = Len(releases'[a])
      BY <1>1, <1>2, <1>4, <3>1
    <3>4. pc'[r] \in {"ingest", "replay"} => base'[r] = Published(d)'
      BY <1>7, <3>1, <3>2
    <3>5. pc'[r] = "persist" => work'[r] = Published(d)' /\ Published(d)' # None
      BY <1>7, <3>1, <3>2
    <3>6. pc'[r] = "persist" => Extends(d, Published(d)', work'[r])
      BY <3>5 DEF Extends
    <3> QED BY <3>1, <3>3, <3>4, <3>5, <3>6 DEF RunnerInv, Extends
  <2>3. TruthInv(r)'
    <3>1. report'[r] = report[r]
      BY <1>7 DEF Taken
    <3> QED BY <1>1, <1>3, <1>4, <3>1, TruthKept
  <2> QED BY <1>1, <1>3, <2>1, <2>2, <2>3, OneMoves
<1>8. CASE \E e \in {"DEFERRED", "FAILED"} : Skipped(r, d, e)
  BY <1>3, <1>6, <1>8
<1>9. CASE Latest(d, view[r][d]) # None /\ Taken(r, d, "persist", base[r], Latest(d, view[r][d]))
  <2>1. PICK b, w : b = base[r] /\ w = Latest(d, view[r][d])
    OBVIOUS
  <2>2. Taken(r, d, "persist", b, w) /\ w = Published(d) /\ w # None
    BY <1>5, <1>9, <2>1
  <2>3. PInv'
    BY <1>7, <2>2
  <2> QED BY <1>3, <2>3
<1>10. CASE Taken(r, d, "ingest", Latest(d, view[r][d]), work[r])
  <2>1. PICK b, w : b = Latest(d, view[r][d]) /\ w = work[r]
    OBVIOUS
  <2>2. Taken(r, d, "ingest", b, w) /\ b = Published(d)
    BY <1>5, <1>10, <2>1
  <2>3. PInv'
    BY <1>7, <2>2
  <2> QED BY <1>3, <2>3
<1> QED BY <1>2, <1>8, <1>9, <1>10 DEF Looked

\* A runner that goes on to persist a checkpoint that extends the newest one.
LEMMA PreparedSound ==
  ASSUME PInv, TInv, TInv', NEW r \in Runners, NEW d \in Days, day[r] = d, pc[r] # "idle",
         NEW w, Prepared(r, w), Published(d) # None => Extends(d, Published(d), w),
         w.old => w = Published(d) /\ Published(d) # None
  PROVE  Progress /\ PInv'
<1>1. releases' = releases
  BY DEF Prepared
<1>2. Progress /\ ChainInv' /\ Published(d)' = Published(d)
  <2>1. Progress /\ ChainInv' /\ \A b \in Days : Published(b)' = Published(b)
    BY <1>1, SameStore DEF PInv
  <2> QED BY <2>1
<1>3. Apart(r)
  BY WorkingAlone DEF Prepared, Apart
<1>4. RunnerInv(r)'
  <2>1. /\ pc'[r] = "persist" /\ day'[r] = d /\ todo'[r] = todo[r] /\ view'[r] = view[r] /\ work'[r] = w
    BY DEF Prepared
  <2>2. /\ day'[r] \notin todo'[r]
        /\ \A b \in Days : b \in todo'[r] \/ b = day'[r] => view'[r][b] = Len(releases'[b])
    BY <1>1, <2>1 DEF PInv, RunnerInv
  <2>3. /\ Published(d)' # None => Extends(d, Published(d)', w)
        /\ w.old => w = Published(d)' /\ Published(d)' # None
    BY <1>2
  <2> QED BY <2>1, <2>2, <2>3 DEF RunnerInv, Extends
<1>5. TruthInv(r)'
  <2>1. report'[r] = report[r] /\ TruthInv(r)
    BY DEF Prepared, PInv
  <2> QED BY <1>2, <2>1, TruthKept
<1> QED BY <1>2, <1>3, <1>4, <1>5, OneMoves

\* The entry of the day r is at, and the store it is about.
LEMMA NotedKeeps ==
  ASSUME PInv, TInv, TInv', Progress, ChainInv', NEW r \in Runners, pc[r] # "idle",
         NEW d \in Days, day[r] = d, NEW e \in Entries, Persisted(r, d, e)
  PROVE  PInv'
<1>1. /\ Noted(r, e) /\ UNCHANGED <<view, todo>> /\ Borne(d, e)'
      /\ \A b \in Days : b # d => releases'[b] = releases[b]
  BY DEF Persisted
<1>2. Apart(r)
  BY <1>1, WorkingAlone DEF Noted, Apart
<1>3. RunnerInv(r)'
  <2>1. 0 \notin Days /\ todo[r] \subseteq Days
    BY DaysAssumption, TypeParts DEF TInv, LocalType
  <2>2. pc'[r] = "day" /\ day'[r] = 0 /\ todo'[r] = todo[r] /\ view'[r] = view[r]
    BY <1>1 DEF Noted
  <2>3. d \notin todo[r] /\ \A b \in Days : b \in todo[r] => view[r][b] = Len(releases[b])
    BY DEF PInv, RunnerInv
  <2>4. \A b \in Days : b \in todo'[r] \/ b = day'[r] => view'[r][b] = Len(releases'[b])
    BY <1>1, <2>1, <2>2, <2>3
  <2> QED BY <2>1, <2>2, <2>4 DEF RunnerInv
<1>4. TruthInv(r)'
  <2>1. /\ report'[r].status = report[r].status /\ report'[r].range = report[r].range
        /\ report'[r].entry[d] = e /\ \A b \in Days : b # d => report'[r].entry[b] = report[r].entry[b]
    BY <1>1 DEF Noted
  <2>2. TruthInv(r)
    BY DEF PInv
  <2> QED BY <1>1, <2>1, <2>2, TruthEntered
<1> QED BY <1>2, <1>3, <1>4, OneMoves

\* Persist keeps progress and the invariant.
LEMMA PersistSound ==
  ASSUME PInv, TInv, NEW r \in Runners, Persist(r)
  PROVE  Progress /\ PInv'
<1>1. pc[r] = "persist" /\ TInv'
  BY PersistTypes DEF Persist
<1>2. PICK d \in Days : day[r] = d
  BY <1>1 DEF TInv, StageInv
<1>3. Progress /\ ChainInv' /\ \E e \in Entries : Persisted(r, d, e)
  BY <1>2, PersistKeeps DEF PInv
<1>4. PICK e \in Entries : Persisted(r, d, e)
  BY <1>3
<1> QED BY <1>1, <1>2, <1>3, <1>4, NotedKeeps

\* Ingest keeps progress and the invariant.
LEMMA IngestKeeps ==
  ASSUME PInv, TInv, NEW r \in Runners, Ingest(r)
  PROVE  Progress /\ PInv'
<1>1. /\ TInv' /\ UNCHANGED <<releases, view, todo>> /\ pc[r] = "ingest" /\ day[r] \in Days
      /\ \/ Noted(r, "FAILED")
         \/ \E batch \in Batches(day[r], base[r]) : \E failed \in SUBSET batch :
               IngestedBy(r, batch, failed)
  BY IngestTypes
<1>2. PICK d \in Days : day[r] = d
  BY <1>1
<1>3. Progress /\ ChainInv' /\ releases' = releases
  BY <1>1, SameStore DEF PInv
<1>4. base[r] = Published(d) /\ base[r] \in Checkpoints \cup {None}
  BY <1>1, <1>2 DEF PInv, RunnerInv, TInv, TypeOK
<1>5. CASE Noted(r, "FAILED")
  <2>1. "FAILED" \in Entries /\ Borne(d, "FAILED")'
    BY DEF Entries, Borne, Verified
  <2>2. Persisted(r, d, "FAILED")
    BY <1>1, <1>3, <1>5, <2>1 DEF Persisted
  <2> QED BY <1>1, <1>2, <1>3, <2>1, <2>2, NotedKeeps
<1>6. ASSUME NEW batch, NEW failed, IngestedBy(r, batch, failed)
      PROVE  Progress /\ PInv'
  <2>1. PICK c \in Checkpoints \cup {None} : c = base[r]
    BY <1>4
  <2>2. PICK i \in 0..MaxRevisions : i = Restored(d, c)
    BY <2>1 DEF TInv, TypeOK, Checkpoints, Restored
  <2>3. PICK w : w = Extended(d, c, i, batch, failed)
    OBVIOUS
  <2>4. Prepared(r, w)
    BY <1>2, <1>6, <2>1, <2>2, <2>3 DEF IngestedBy
  <2>5. IsCheckpoint(w, d, i, Ingested(d, c, batch, failed)) /\ ~w.old
    BY <2>2, <2>3, ExtendedType DEF TInv
  <2>6. Published(d) # None => Extends(d, Published(d), w)
    <3>1. c # None => Extends(d, c, w)
      <4>1. c # None => w.index = c.index /\ w.rows = Ingested(d, c, batch, failed)
        BY <2>2, <2>5 DEF Restored, IsCheckpoint
      <4> QED BY <4>1, IngestedExtends
    <3> QED BY <1>4, <2>1, <3>1
  <2> QED BY <1>1, <1>2, <2>4, <2>5, <2>6, PreparedSound
<1> QED BY <1>1, <1>5, <1>6

\* Replay keeps progress and the invariant.
LEMMA ReplayKeeps ==
  ASSUME PInv, TInv, NEW r \in Runners, Replay(r)
  PROVE  Progress /\ PInv'
<1>1. /\ TInv' /\ UNCHANGED releases /\ pc[r] = "replay" /\ day[r] \in Days
      /\ base[r] \in Checkpoints
      /\ \/ Stopped(r, "INCOMPLETE", {})
         \/ \E w \in Checkpoints : RepairOf(base[r], w) /\ Prepared(r, w)
  BY ReplayTypes
<1>2. PICK d \in Days : day[r] = d
  BY <1>1
<1>3. base[r] = Published(d) /\ Published(d) # None
  BY <1>1, <1>2, NoneAssumption DEF PInv, RunnerInv
<1>4. CASE Stopped(r, "INCOMPLETE", {})
  <2>1. \A s \in Runners : s # r => pc[s] = "idle"
    BY <1>1, WorkingAlone
  <2>2. PInv'
    BY <1>1, <1>4, <2>1, StoppedKeeps
  <2> QED BY <1>1, <2>2, SameStore DEF PInv
<1>5. ASSUME NEW w \in Checkpoints, RepairOf(base[r], w), Prepared(r, w)
      PROVE  Progress /\ PInv'
  <2>1. Extends(d, Published(d), w)
    BY <1>3, <1>5, RepairExtends
  <2>2. w.old => w = Published(d)
    BY <1>3, <1>5 DEF RepairOf
  <2> QED BY <1>1, <1>2, <1>3, <1>5, <2>1, <2>2, PreparedSound
<1> QED BY <1>1, <1>4, <1>5

\* Finish keeps progress and the invariant: the verdict of the range is true.
LEMMA FinishKeeps ==
  ASSUME PInv, TInv, NEW r \in Runners, Finish(r)
  PROVE  Progress /\ PInv'
<1>1. TInv' /\ Concluded(r) /\ releases' = releases /\ pc[r] # "idle"
  BY FinishTypes DEF Finish
<1>2. \A s \in Runners : s # r => pc[s] = "idle"
  BY <1>1, WorkingAlone
<1>3. Progress
  BY <1>1, SameStore DEF PInv
<1>4. PICK R \in SUBSET Days : R = report[r].range
  BY TypeParts DEF TInv, LocalType, Reports
<1>5. \A d \in Days : /\ report[r].entry[d] \in Verified => Holds(d)
                      /\ report[r].entry[d] = "ACQUIRED" => HoldsClean(d)
  BY DEF PInv, TruthInv
<1>6. ASSUME \A d \in R : report[r].entry[d] \in {"ACQUIRED"}, R # {}, Stopped(r, "ACQUIRED", R)
      PROVE  PInv'
  <2>1. \A d \in R : Holds(d) /\ HoldsClean(d)
    BY <1>5, <1>6 DEF Verified
  <2> QED BY <1>1, <1>2, <1>6, <2>1, StoppedKeeps
<1>7. ASSUME \A d \in R : report[r].entry[d] \in Verified, R # {}, Stopped(r, "VERIFIED", R)
      PROVE  PInv'
  <2>1. \A d \in R : Holds(d)
    BY <1>5, <1>7
  <2> QED BY <1>1, <1>2, <1>7, <2>1, StoppedKeeps
<1>8. CASE Stopped(r, "INCOMPLETE", {})
  <2>1. PInv'
    BY <1>1, <1>2, <1>8, StoppedKeeps
  <2> QED BY <1>3, <2>1
<1>9. \/ (\A d \in R : report[r].entry[d] \in {"ACQUIRED"}) /\ R # {} /\ Stopped(r, "ACQUIRED", R)
      \/ (\A d \in R : report[r].entry[d] \in Verified) /\ R # {} /\ Stopped(r, "VERIFIED", R)
      \/ Stopped(r, "INCOMPLETE", {})
  BY <1>1, <1>4 DEF Concluded
<1> QED BY <1>3, <1>6, <1>7, <1>8, <1>9

\* A repair that ends, and a lost runner, keep progress and the invariant.
LEMMA StopSound ==
  ASSUME PInv, TInv, NEW r \in Runners, FinishRepair(r) \/ Crash(r)
  PROVE  Progress /\ PInv'
<1>1. TInv' /\ Stopped(r, "INCOMPLETE", {}) /\ releases' = releases /\ pc[r] # "idle"
  BY StoppingTypes DEF FinishRepair, Crash, Working
<1>2. \A s \in Runners : s # r => pc[s] = "idle"
  BY <1>1, WorkingAlone
<1>3. PInv'
  BY <1>1, <1>2, StoppedKeeps
<1> QED BY <1>1, <1>3, SameStore DEF PInv

\* An upload of the old parser keeps progress and the invariant.
LEMMA OldUploadKeeps ==
  ASSUME Group = Runners, PInv, TInv, NEW d \in Days, OldUpload(d)
  PROVE  Progress /\ PInv'
<1>1. TInv' /\ \E batch \in Batches(d, OldLatest(d)) : OldUploaded(d, batch)
  BY OldUploadTypes
<1>2. PICK batch \in Batches(d, OldLatest(d)) : OldUploaded(d, batch)
  BY <1>1
<1>3. Progress /\ ChainInv'
  BY <1>2, GrowOld DEF PInv
<1>4. \A s \in Runners : /\ pc[s] = "idle" /\ pc'[s] = pc[s] /\ todo'[s] = todo[s] /\ day'[s] = day[s]
                         /\ report'[s] = report[s]
  BY <1>2 DEF OldUploaded, local
<1>5. \A s \in Runners : todo[s] = {} /\ day[s] = 0
  BY <1>4 DEF PInv, RunnerInv
<1>6. ASSUME NEW s \in Runners PROVE RunnerInv(s)'
  BY <1>4, <1>5, IdleRunner
<1>7. ASSUME NEW s \in Runners PROVE TruthInv(s)'
  <2>1. TruthInv(s) /\ report'[s] = report[s]
    BY <1>4 DEF PInv
  <2> QED BY <1>1, <1>3, <2>1, TruthKept
<1>8. AloneInv'
  BY <1>4 DEF AloneInv
<1> QED BY <1>3, <1>6, <1>7, <1>8 DEF PInv

\* A step outside the runs keeps progress and the invariant.
LEMMA SameKeeps ==
  ASSUME PInv, TInv, TInv', UNCHANGED <<releases, local>>
  PROVE  Progress /\ PInv'
<1>1. releases' = releases /\ \A s \in Runners :
         /\ pc'[s] = pc[s] /\ view'[s] = view[s] /\ todo'[s] = todo[s] /\ day'[s] = day[s]
         /\ base'[s] = base[s] /\ work'[s] = work[s] /\ report'[s] = report[s]
  BY DEF local
<1>2. Progress /\ ChainInv'
  BY <1>1, SameStore DEF PInv
<1>3. ASSUME NEW s \in Runners PROVE RunnerInv(s)'
  <2>1. RunnerInv(s)
    BY DEF PInv
  <2> QED BY <1>1, <2>1, SameRunner DEF PInv
<1>4. ASSUME NEW s \in Runners PROVE TruthInv(s)'
  <2>1. TruthInv(s) /\ report'[s] = report[s]
    BY <1>1 DEF PInv
  <2> QED BY <1>2, <2>1, TruthKept
<1>5. AloneInv'
  BY <1>1 DEF AloneInv, PInv
<1> QED BY <1>2, <1>3, <1>4, <1>5 DEF PInv

\* The initial state satisfies the invariant.
LEMMA InitProgress == Init => PInv
<1> SUFFICES ASSUME Init PROVE PInv
  OBVIOUS
<1>1. AloneInv /\ ChainInv
  BY DEF Init, AloneInv, ChainInv
<1>2. ASSUME NEW r \in Runners PROVE RunnerInv(r)
  <2>1. 0 \notin Days
    BY DaysAssumption
  <2>2. pc[r] = "idle" /\ todo[r] = {} /\ day[r] = 0
    BY DEF Init
  <2> QED BY <2>1, <2>2 DEF RunnerInv
<1>3. ASSUME NEW r \in Runners PROVE TruthInv(r)
  <2>1. report[r] = NoReport
    BY DEF Init
  <2> QED BY <2>1, NoReportType DEF TruthInv, Verified
<1> QED BY <1>1, <1>2, <1>3 DEF PInv

\* Within one concurrency group every step keeps progress and the invariant.
LEMMA NextProgress ==
  ASSUME Group = Runners
  PROVE  PInv /\ TInv /\ [Next]_vars => Progress /\ PInv'
<1> SUFFICES ASSUME PInv, TInv, [Next]_vars PROVE Progress /\ PInv'
  OBVIOUS
<1>0. TInv'
  BY NextTypes
<1>1. CASE UNCHANGED vars
  <2>1. UNCHANGED <<releases, local>>
    BY <1>1 DEF vars
  <2> QED BY <1>0, <2>1, SameKeeps
<1>2. ASSUME NEW r \in Runners, NEW range \in SUBSET Days \ {{}}, Begin(r, range)
      PROVE  Progress /\ PInv'
  BY <1>2, BeginKeeps
<1>3. ASSUME NEW r \in Runners, NEW d \in Days, BeginRepair(r, d) PROVE Progress /\ PInv'
  BY <1>3, BeginRepairKeeps
<1>4. ASSUME NEW r \in Runners, Step(r) \/ Crash(r) PROVE Progress /\ PInv'
  BY <1>4, LookKeeps, IngestKeeps, ReplayKeeps, PersistSound, FinishKeeps, StopSound DEF Step
<1>5. ASSUME NEW d \in Days, OldUpload(d) PROVE Progress /\ PInv'
  BY <1>5, OldUploadKeeps
<1>6. CASE (\E d \in Days : Revise(d)) \/ Tick
  <2>1. UNCHANGED <<releases, local>>
    BY <1>6, ReviseTypes
  <2> QED BY <1>0, <2>1, SameKeeps
<1> QED BY <1>1, <1>2, <1>3, <1>4, <1>5, <1>6 DEF Next

\* As long as every run is of the group that the workflow starts one after the other, no newest
\* checkpoint loses a filing, its instant or a repair: release_store.py, acquisition.py and
\* .github/workflows/sec-daily-acquisition.yml (ProgressKept).
THEOREM NothingIsLost == ASSUME Group = Runners PROVE Spec => ProgressKept
<1>1. PInv /\ TInv /\ [Next]_vars => Progress /\ PInv'
  BY NextProgress
<1>2. Progress => \A d \in Days : Published(d) # None =>
                    /\ Published(d)' # None
                    /\ Published(d)'.index = Published(d).index
                    /\ \A f \in Of(d) : Stored(Published(d), f) =>
                         /\ Published(d)'.rows[f].at = Published(d).rows[f].at
                         /\ Published(d)'.rows[f].status \in {Published(d).rows[f].status, "REPAIRED"}
  BY DEF Progress, Extends
<1> QED BY <1>1, <1>2, InitProgress, Typed, PTL DEF ProgressKept, Spec

\* And what a report says is true of the store (ReportIsTrue).
THEOREM ReportsAreTrue == ASSUME Group = Runners PROVE Spec => []ReportIsTrue
<1>1. PInv /\ TInv /\ [Next]_vars => PInv'
  BY NextProgress
<1>2. PInv => ReportIsTrue
  BY DEF PInv, TruthInv, ReportIsTrue, Holds, HoldsClean
<1> QED BY <1>1, <1>2, InitProgress, Typed, PTL DEF Spec

=============================================================================
