-------------------------- MODULE StateLedgerProofs --------------------------
(***************************************************************************)
(* Proofs about StateLedger, for any days, runs, jobs and tasks: its types,*)
(* what the branch keeps, that nothing is acted on twice, and that the     *)
(* branch implements AtMostOnceDelivery.                                   *)
(***************************************************************************)
EXTENDS StateLedger, TLAPS

\* Rows, trees and the tree of a commit.
LEMMA NoRowType == NoRow \in Rows /\ NoRow.status = "NONE"
BY DEF NoRow, Rows, Statuses

\* The tree of a new branch is a tree, without any row.
LEMMA EmptyType == Empty \in Trees /\ Empty.ledger = [m \in Messages |-> NoRow]
BY NoRowType DEF Empty, Trees

\* The last tree of a branch is a tree.
LEMMA TopType ==
  ASSUME NEW s \in Seq(Trees)
  PROVE  Top(s) \in Trees /\ Top(s).ledger \in [Messages -> Rows]
<1>1. CASE s = <<>>
  BY <1>1, EmptyType DEF Top, Trees
<1>2. CASE s # <<>>
  <2>1. Len(s) \in 1..Len(s)
    BY <1>2
  <2>2. s[Len(s)] \in Trees
    BY <2>1
  <2> QED BY <1>2, <2>2 DEF Top, Trees
<1> QED BY <1>1, <1>2

\* A tree with another ledger, with another row, with other files.
LEMMA WithLedger ==
  ASSUME NEW t \in Trees, NEW L \in [Messages -> Rows]
  PROVE  /\ [t EXCEPT !.ledger = L] \in Trees
         /\ [t EXCEPT !.ledger = L].ledger = L
BY DEF Trees

\* A row with another status is a row.
LEMMA WithStatus ==
  ASSUME NEW r \in Rows, NEW a \in Statuses
  PROVE  [r EXCEPT !.status = a] \in Rows
BY DEF Rows

\* A tree with another ledger and other files is a tree.
LEMMA WithFiles ==
  ASSUME NEW t \in Trees, NEW L \in [Messages -> Rows], NEW w \in Writers
  PROVE  /\ [t EXCEPT !.ledger = L, !.files = w] \in Trees
         /\ [t EXCEPT !.ledger = L, !.files = w].ledger = L
BY DEF Trees

\* A pushed tree is the last of the branch.
LEMMA TopOfAppend ==
  ASSUME NEW s \in Seq(Trees), NEW t \in Trees
  PROVE  /\ Append(s, t) \in Seq(Trees)
         /\ Top(Append(s, t)) = t
         /\ Len(Append(s, t)) = Len(s) + 1
         /\ Append(s, t) # s
<1>1. Append(s, t) # <<>> /\ Append(s, t)[Len(s) + 1] = t
  OBVIOUS
<1>2. Len(Append(s, t)) = Len(s) + 1 /\ Len(s) \in Nat
  OBVIOUS
<1> QED BY <1>1, <1>2 DEF Top

\* A claimant has a message; the lease of a digest or a recovery is its job's own.
LEMMA TaskFacts ==
  ASSUME NEW w \in Claimants
  PROVE  /\ w \in Writers
         /\ Task[w] \in Messages
         /\ LeaseOf(w) \subseteq Writers \cup {Nobody}
         /\ Task[w] \in Leased => LeaseOf(w) = {w}
BY JobsAssumption DEF Writers, LeaseOf

-----------------------------------------------------------------------------
(* Types *)

\* A job that ends keeps the types.
LEMMA FinishTyped ==
  ASSUME TypeOK, NEW w \in Writers, Finish(w)
  PROVE  /\ pc' \in [Writers -> {"start", "ready", "claimed", "reserved", "answered",
                                 "recorded", "checked", "done"}]
         /\ base' \in [Writers -> Seq(Trees)]
         /\ local' \in [Writers -> Trees]
         /\ answer' \in [Writers -> Answers]
<1>1. "UNCERTAIN" \in Answers
  BY DEF Answers
<1>2. <<>> \in Seq(Trees)
  OBVIOUS
<1> QED BY <1>1, <1>2, EmptyType DEF TypeOK, Finish

\* A commit on top of the job's base is a sequence of trees.
LEMMA CommitTyped ==
  ASSUME TypeOK, NEW w \in Writers
  PROVE  Append(base[w], local[w]) \in Seq(Trees)
BY TopOfAppend DEF TypeOK

\* Every step keeps the types.
LEMMA TypeInductive ==
  ASSUME TypeOK, [Next]_vars
  PROVE  TypeOK'
<1>1. CASE UNCHANGED vars
  BY <1>1 DEF vars, TypeOK
<1>2. ASSUME NEW w \in Writers, Restore(w)
      PROVE  TypeOK'
  BY <1>2, TopType DEF TypeOK, Restore, Goto
<1>3. ASSUME NEW w \in Writers, Crash(w)
      PROVE  TypeOK'
  BY <1>3, FinishTyped DEF TypeOK, Crash
<1>4. ASSUME NEW w \in Claimants, Claim(w)
      PROVE  TypeOK'
  <2>1. CASE Blocked(Task[w], local[w].ledger)
    BY <1>4, <2>1, FinishTyped, TaskFacts DEF TypeOK, Claim
  <2>2. CASE ~Blocked(Task[w], local[w].ledger)
    <3>1. PICK l \in LeaseOf(w) :
            local' = [local EXCEPT ![w].ledger[Task[w]] = [status |-> "CLAIMED", lease |-> l]]
      BY <1>4, <2>2 DEF Claim
    <3>2. [status |-> "CLAIMED", lease |-> l] \in Rows
      BY TaskFacts DEF Rows, Statuses
    <3> DEFINE L == [local[w].ledger EXCEPT
                       ![Task[w]] = [status |-> "CLAIMED", lease |-> l]]
    <3>3. local[w] \in Trees /\ local[w].ledger \in [Messages -> Rows]
      BY TaskFacts DEF TypeOK, Trees
    <3>4. L \in [Messages -> Rows]
      BY <3>2, <3>3, TaskFacts
    <3>5. local' = [local EXCEPT ![w] = [local[w] EXCEPT !.ledger = L]]
      BY <3>1
    <3>6. local' \in [Writers -> Trees]
      <4> HIDE DEF L
      <4> QED BY <3>3, <3>4, <3>5, WithLedger, TaskFacts DEF TypeOK
    <3> QED BY <1>4, <2>2, <3>6, TaskFacts DEF TypeOK, Claim, Goto
  <2> QED BY <2>1, <2>2
<1>5. ASSUME NEW w \in Claimants, PushClaim(w)
      PROVE  TypeOK'
  <2>1. w \in Writers /\ Append(base[w], local[w]) \in Seq(Trees)
    BY TaskFacts, CommitTyped
  <2>2. CASE PushAccepted(w) /\ Goto(w, "reserved") /\ UNCHANGED <<local, answer>>
    BY <1>5, <2>1, <2>2 DEF TypeOK, PushClaim, PushAccepted, Goto
  <2>3. CASE PushFailed(w) /\ Finish(w)
    BY <1>5, <2>1, <2>3, FinishTyped DEF TypeOK, PushClaim, PushFailed
  <2> QED BY <1>5, <2>2, <2>3 DEF PushClaim
<1>6. ASSUME NEW w \in Claimants, Send(w)
      PROVE  TypeOK'
  BY <1>6, TaskFacts DEF TypeOK, Send, Goto
<1>7. ASSUME NEW w \in Claimants, Authorise(w)
      PROVE  TypeOK'
  <2>1. contacts' \in [Messages -> Nat]
    BY <1>7, TaskFacts DEF TypeOK, Authorise
  <2> QED BY <1>7, <2>1, FinishTyped, TaskFacts DEF TypeOK, Authorise
<1>8. ASSUME NEW w \in Claimants, Record(w)
      PROVE  TypeOK'
  <2>1. local' \in [Writers -> Trees]
    <3>1. answer[w] \in Statuses
      BY TaskFacts DEF TypeOK, Statuses
    <3>2. local[w] \in Trees /\ local[w].ledger \in [Messages -> Rows]
      BY TaskFacts DEF TypeOK, Trees
    <3> DEFINE r == [local[w].ledger[Task[w]] EXCEPT !.status = answer[w]]
               L == [local[w].ledger EXCEPT ![Task[w]] = r]
    <3>3. r \in Rows
      BY <3>1, <3>2, WithStatus, TaskFacts
    <3>4. L \in [Messages -> Rows]
      <4> HIDE DEF r
      <4> QED BY <3>2, <3>3, TaskFacts
    <3>5. local' = [local EXCEPT ![w] = [local[w] EXCEPT !.ledger = L]]
      BY <1>8 DEF Record
    <3> HIDE DEF L
    <3> QED BY <3>2, <3>4, <3>5, WithLedger, TaskFacts DEF TypeOK
  <2> QED BY <1>8, <2>1, TaskFacts DEF TypeOK, Record, Goto
<1>9. ASSUME NEW w \in Claimants, PushResult(w)
      PROVE  TypeOK'
  BY <1>9, FinishTyped, CommitTyped, TaskFacts DEF TypeOK, PushResult
<1>10. ASSUME NEW w \in Syncers, SyncCheck(w)
       PROVE  TypeOK'
  <2>1. w \in Writers
    BY DEF Writers
  <2>2. CASE remote # base[w]
    BY <1>10, <2>1, <2>2, FinishTyped DEF TypeOK, SyncCheck
  <2>3. CASE remote = base[w]
    <3> DEFINE L == IF w \in Carriers THEN local[w].ledger ELSE Top(remote).ledger
    <3>1. local[w] \in Trees /\ L \in [Messages -> Rows]
      BY <2>1, TopType DEF TypeOK, Trees
    <3>2. local' = [local EXCEPT ![w] = [local[w] EXCEPT !.ledger = L, !.files = w]]
      BY <1>10, <2>3 DEF SyncCheck
    <3>3. local' \in [Writers -> Trees]
      <4> HIDE DEF L
      <4> QED BY <2>1, <3>1, <3>2, WithFiles DEF TypeOK
    <3> QED BY <1>10, <2>1, <2>3, <3>3 DEF TypeOK, SyncCheck, Goto
  <2> QED BY <2>2, <2>3
<1>11. ASSUME NEW w \in Syncers, PushSync(w)
       PROVE  TypeOK'
  BY <1>11, FinishTyped, CommitTyped DEF TypeOK, PushSync, Writers
<1> QED BY <1>1, <1>2, <1>3, <1>4, <1>5, <1>6, <1>7, <1>8, <1>9, <1>10, <1>11
        DEF Next, ClaimantStep

\* The initial state is typed.
LEMMA InitTyped == Init => TypeOK
BY EmptyType DEF Init, TypeOK, Answers

\* Every variable keeps its type, whatever jobs run and fail (the rows of
\* workflow_deliveries, digest_deliveries and publication_recoveries).
THEOREM TypeCorrect == Spec => []TypeOK
BY InitTyped, TypeInductive, PTL DEF Spec
-----------------------------------------------------------------------------
(* What a job's copy holds *)

\* What w would commit, at each step: its base, its base with its own claim, or
\* its base with the answer over its own claim.
Claiming(w) ==
  /\ w \in Claimants
  /\ ~Blocked(Task[w], Top(base[w]).ledger)
  /\ \E l \in LeaseOf(w) :
       local[w].ledger =
         [Top(base[w]).ledger EXCEPT ![Task[w]] = [status |-> "CLAIMED", lease |-> l]]

Claimed(w) ==
  /\ w \in Claimants
  /\ Top(base[w]).ledger[Task[w]].status = "CLAIMED"

Answered(w) ==
  \E a \in Answers :
    local[w].ledger = [Top(base[w]).ledger EXCEPT ![Task[w]].status = a]

Copied(w) ==
  /\ pc[w] \in {"ready", "reserved", "answered", "checked"}
       => local[w].ledger = Top(base[w]).ledger
  /\ pc[w] = "claimed" => Claiming(w)
  /\ pc[w] \in {"reserved", "answered", "recorded"} => Claimed(w)
  /\ pc[w] = "recorded" => Answered(w)

CopyInv == \A w \in Writers : Copied(w)

\* A job whose copy is none of these.
LEMMA StoppedCopied ==
  ASSUME TypeOK, NEW w \in Writers, pc'[w] \in {"start", "done"}
  PROVE  Copied(w)'
BY DEF Copied

\* A job that ends is done.
LEMMA FinishStops ==
  ASSUME TypeOK, NEW w \in Writers, Finish(w)
  PROVE  pc'[w] = "done"
BY DEF TypeOK, Finish

\* The other jobs' copies are untouched.
LEMMA OthersCopied ==
  ASSUME NEW v \in Writers, Copied(v),
         pc'[v] = pc[v], base'[v] = base[v], local'[v] = local[v]
  PROVE  Copied(v)'
BY DEF Copied, Claiming, Claimed, Answered

\* A job that ends leaves every other job alone.
LEMMA FinishOthers ==
  ASSUME TypeOK, NEW w \in Writers, Finish(w), NEW v \in Writers \ {w}
  PROVE  pc'[v] = pc[v] /\ base'[v] = base[v] /\ local'[v] = local[v]
BY DEF TypeOK, Finish

\* A job that ends leaves every other copy of the branch a copy.
LEMMA FinishCopied ==
  ASSUME TypeOK, CopyInv, NEW w \in Writers, Finish(w)
  PROVE  CopyInv'
<1>1. Copied(w)'
  BY FinishStops, StoppedCopied
<1>2. ASSUME NEW v \in Writers \ {w} PROVE Copied(v)'
  BY FinishOthers, OthersCopied DEF CopyInv
<1> QED BY <1>1, <1>2 DEF CopyInv

\* Every step keeps what the jobs hold a copy of the branch, with their own row changed.
LEMMA CopyInductive ==
  ASSUME TypeOK, CopyInv, [Next]_vars
  PROVE  CopyInv'
<1>1. CASE UNCHANGED vars
  BY <1>1, OthersCopied DEF vars, CopyInv
<1>2. ASSUME NEW w \in Writers, Restore(w)
      PROVE  CopyInv'
  <2>1. /\ pc'[w] = "ready" /\ base'[w] = remote /\ local'[w] = Top(remote)
        /\ \A v \in Writers \ {w} :
             pc'[v] = pc[v] /\ base'[v] = base[v] /\ local'[v] = local[v]
    BY <1>2 DEF TypeOK, Restore, Goto
  <2>2. Copied(w)'
    BY <2>1 DEF Copied
  <2>3. ASSUME NEW v \in Writers \ {w} PROVE Copied(v)'
    BY <2>1, OthersCopied DEF CopyInv
  <2> QED BY <2>2, <2>3 DEF CopyInv
<1>3. ASSUME NEW w \in Writers, Crash(w)
      PROVE  CopyInv'
  BY <1>3, FinishCopied DEF Crash
<1>4. ASSUME NEW w \in Claimants, Claim(w)
      PROVE  CopyInv'
  <2>0. w \in Writers /\ pc[w] = "ready" /\ local[w].ledger = Top(base[w]).ledger
    BY <1>4, TaskFacts DEF Claim, CopyInv, Copied
  <2>1. CASE Blocked(Task[w], local[w].ledger)
    BY <1>4, <2>0, <2>1, FinishCopied DEF Claim
  <2>2. CASE ~Blocked(Task[w], local[w].ledger)
    <3>1. PICK l \in LeaseOf(w) :
            local' = [local EXCEPT ![w].ledger[Task[w]] = [status |-> "CLAIMED", lease |-> l]]
      BY <1>4, <2>2 DEF Claim
    <3> DEFINE L == [local[w].ledger EXCEPT
                       ![Task[w]] = [status |-> "CLAIMED", lease |-> l]]
    <3>2. L \in [Messages -> Rows] /\ local[w] \in Trees
      BY <2>0, TaskFacts DEF TypeOK, Trees, Rows, Statuses
    <3>3. local' = [local EXCEPT ![w] = [local[w] EXCEPT !.ledger = L]]
      BY <3>1
    <3>4. /\ local'[w].ledger = L
          /\ \A v \in Writers \ {w} : local'[v] = local[v]
      <4> HIDE DEF L
      <4> QED BY <2>0, <3>2, <3>3, WithLedger DEF TypeOK
    <3>5. /\ pc'[w] = "claimed" /\ base' = base
          /\ \A v \in Writers \ {w} : pc'[v] = pc[v]
      BY <1>4, <2>0, <2>2 DEF TypeOK, Claim, Goto
    <3>6. Copied(w)'
      BY <2>0, <2>2, <3>4, <3>5 DEF Copied, Claiming
    <3>7. ASSUME NEW v \in Writers \ {w} PROVE Copied(v)'
      BY <3>4, <3>5, OthersCopied DEF CopyInv
    <3> QED BY <3>6, <3>7 DEF CopyInv
  <2> QED BY <2>1, <2>2
<1>5. ASSUME NEW w \in Claimants, PushClaim(w)
      PROVE  CopyInv'
  <2>0. w \in Writers /\ pc[w] = "claimed" /\ Claiming(w)
    BY <1>5, TaskFacts DEF PushClaim, CopyInv, Copied
  <2>1. CASE PushAccepted(w) /\ Goto(w, "reserved") /\ UNCHANGED <<local, answer>>
    <3>1. /\ pc'[w] = "reserved" /\ base'[w] = Append(base[w], local[w]) /\ local' = local
          /\ \A v \in Writers \ {w} : pc'[v] = pc[v] /\ base'[v] = base[v]
      BY <2>0, <2>1 DEF TypeOK, PushAccepted, Goto
    <3>2. Top(base'[w]) = local[w]
      BY <2>0, <3>1, TopOfAppend DEF TypeOK
    <3>3. local[w].ledger[Task[w]].status = "CLAIMED"
      BY <2>0, TopType, TaskFacts DEF TypeOK, Claiming
    <3>4. Copied(w)'
      BY <3>1, <3>2, <3>3 DEF Copied, Claimed
    <3>5. ASSUME NEW v \in Writers \ {w} PROVE Copied(v)'
      BY <3>1, OthersCopied DEF CopyInv
    <3> QED BY <3>4, <3>5 DEF CopyInv
  <2>2. CASE PushFailed(w) /\ Finish(w)
    BY <2>0, <2>2, FinishCopied
  <2> QED BY <1>5, <2>1, <2>2 DEF PushClaim
<1>6. ASSUME NEW w \in Claimants, Send(w)
      PROVE  CopyInv'
  <2>1. /\ w \in Writers /\ pc[w] = "reserved" /\ pc'[w] = "answered"
        /\ base' = base /\ local' = local
        /\ \A v \in Writers \ {w} : pc'[v] = pc[v]
    BY <1>6, TaskFacts DEF TypeOK, Send, Goto
  <2>2. Copied(w)'
    BY <2>1 DEF CopyInv, Copied, Claimed
  <2>3. ASSUME NEW v \in Writers \ {w} PROVE Copied(v)'
    BY <2>1, OthersCopied DEF CopyInv
  <2> QED BY <2>2, <2>3 DEF CopyInv
<1>7. ASSUME NEW w \in Claimants, Authorise(w)
      PROVE  CopyInv'
  BY <1>7, FinishCopied, TaskFacts DEF Authorise
<1>8. ASSUME NEW w \in Claimants, Record(w)
      PROVE  CopyInv'
  <2>0. /\ w \in Writers /\ pc[w] = "answered" /\ Claimed(w)
        /\ local[w].ledger = Top(base[w]).ledger /\ answer[w] \in Answers
    BY <1>8, TaskFacts DEF TypeOK, Record, CopyInv, Copied
  <2>1. local[w] \in Trees /\ local[w].ledger \in [Messages -> Rows]
    BY <2>0 DEF TypeOK, Trees
  <2> DEFINE L == [local[w].ledger EXCEPT ![Task[w]].status = answer[w]]
  <2>2. L \in [Messages -> Rows]
    BY <2>0, <2>1, WithStatus, TaskFacts DEF Statuses
  <2>3. local' = [local EXCEPT ![w] = [local[w] EXCEPT !.ledger = L]]
    BY <1>8 DEF Record
  <2>4. /\ local'[w].ledger = L
        /\ \A v \in Writers \ {w} : local'[v] = local[v]
    <3> HIDE DEF L
    <3> QED BY <2>0, <2>1, <2>2, <2>3, WithLedger DEF TypeOK
  <2>5. /\ pc'[w] = "recorded" /\ base' = base
        /\ \A v \in Writers \ {w} : pc'[v] = pc[v]
    BY <1>8, <2>0 DEF TypeOK, Record, Goto
  <2>6. Copied(w)'
    BY <2>0, <2>4, <2>5 DEF Copied, Claimed, Answered
  <2>7. ASSUME NEW v \in Writers \ {w} PROVE Copied(v)'
    BY <2>4, <2>5, OthersCopied DEF CopyInv
  <2> QED BY <2>6, <2>7 DEF CopyInv
<1>9. ASSUME NEW w \in Claimants, PushResult(w)
      PROVE  CopyInv'
  BY <1>9, FinishCopied, TaskFacts DEF PushResult
<1>10. ASSUME NEW w \in Syncers, SyncCheck(w)
       PROVE  CopyInv'
  <2>0. w \in Writers /\ pc[w] = "ready" /\ local[w].ledger = Top(base[w]).ledger
    BY <1>10 DEF Writers, SyncCheck, CopyInv, Copied
  <2>1. CASE remote # base[w]
    BY <1>10, <2>0, <2>1, FinishCopied DEF SyncCheck
  <2>2. CASE remote = base[w]
    <3> DEFINE L == IF w \in Carriers THEN local[w].ledger ELSE Top(remote).ledger
    <3>0. w \in Writers /\ L = Top(base[w]).ledger
      BY <2>0, <2>2
    <3>1. local[w] \in Trees /\ L \in [Messages -> Rows]
      BY <2>0, <2>2, TopType DEF TypeOK, Trees
    <3>2. local' = [local EXCEPT ![w] = [local[w] EXCEPT !.ledger = L, !.files = w]]
      BY <1>10, <2>2 DEF SyncCheck
    <3>3. /\ local'[w].ledger = L
          /\ \A v \in Writers \ {w} : local'[v] = local[v]
      <4> HIDE DEF L
      <4>1. w \in Writers
        BY <2>0
      <4>2. [local[w] EXCEPT !.ledger = L, !.files = w].ledger = L
        BY <3>1, <4>1, WithFiles
      <4> QED BY <3>2, <4>1, <4>2 DEF TypeOK
    <3>4. /\ pc'[w] = "checked" /\ base'[w] = base[w]
          /\ \A v \in Writers \ {w} : pc'[v] = pc[v] /\ base'[v] = base[v]
      BY <1>10, <2>0, <2>2 DEF TypeOK, SyncCheck, Goto
    <3>5. Copied(w)'
      BY <3>0, <3>3, <3>4 DEF Copied
    <3>6. ASSUME NEW v \in Writers \ {w} PROVE Copied(v)'
      BY <3>3, <3>4, OthersCopied DEF CopyInv
    <3> QED BY <3>5, <3>6 DEF CopyInv
  <2> QED BY <2>1, <2>2
<1>11. ASSUME NEW w \in Syncers, PushSync(w)
       PROVE  CopyInv'
  BY <1>11, FinishCopied DEF PushSync, Writers
<1> QED BY <1>1, <1>2, <1>3, <1>4, <1>5, <1>6, <1>7, <1>8, <1>9, <1>10, <1>11
        DEF Next, ClaimantStep

-----------------------------------------------------------------------------
(* What a step does to the branch *)

\* A commit of w on the head it started from.
Commits(w) ==
  /\ pc[w] \in {"claimed", "recorded", "checked"}
  /\ pc'[w] \in {"reserved", "done"}
  /\ remote = base[w]
  /\ remote' = Append(base[w], local[w])

\* The branch moves only by the push of a job.
LEMMA BranchMoves ==
  ASSUME TypeOK, [Next]_vars
  PROVE  remote' = remote \/ \E w \in Writers : Commits(w)
<1>1. CASE UNCHANGED vars
  BY <1>1 DEF vars
<1>2. ASSUME NEW w \in Writers, Restore(w) \/ Crash(w)
      PROVE  remote' = remote
  BY <1>2 DEF Restore, Crash
<1>3. ASSUME NEW w \in Claimants, Claim(w) \/ Send(w) \/ Authorise(w) \/ Record(w)
      PROVE  remote' = remote
  BY <1>3 DEF Claim, Send, Authorise, Record
<1>4. ASSUME NEW w \in Claimants, PushClaim(w) \/ PushResult(w)
      PROVE  remote' = remote \/ Commits(w)
  BY <1>4, TaskFacts DEF TypeOK, PushClaim, PushResult, PushAccepted, PushFailed, Commits,
                         Goto, Finish
<1>5. ASSUME NEW w \in Syncers, SyncCheck(w) \/ PushSync(w)
      PROVE  remote' = remote \/ Commits(w)
  BY <1>5 DEF TypeOK, SyncCheck, PushSync, Commits, Finish, Writers
<1> QED BY <1>1, <1>2, <1>3, <1>4, <1>5, TaskFacts DEF Next, ClaimantStep, Writers

\* The rows of the branch: untouched, one new claim, or one answer over a claim.
Ledger == Top(remote).ledger

AddsClaim(w) ==
  /\ w \in Claimants /\ pc[w] = "claimed"
  /\ ~Blocked(Task[w], Ledger)
  /\ \E l \in LeaseOf(w) :
       Ledger' = [Ledger EXCEPT ![Task[w]] = [status |-> "CLAIMED", lease |-> l]]

AddsAnswer(w) ==
  /\ w \in Claimants /\ pc[w] = "recorded"
  /\ Ledger[Task[w]].status = "CLAIMED"
  /\ \E a \in Answers : Ledger' = [Ledger EXCEPT ![Task[w]].status = a]

\* A push adds a claim, adds the answer to one, or leaves the ledger alone.
LEMMA LedgerMoves ==
  ASSUME TypeOK, CopyInv, NEW w \in Writers, Commits(w)
  PROVE  Ledger' = Ledger \/ AddsClaim(w) \/ AddsAnswer(w)
<1>1. Ledger' = local[w].ledger /\ Ledger = Top(base[w]).ledger
  BY TopOfAppend DEF TypeOK, Commits, Ledger
<1>2. CASE pc[w] = "claimed"
  BY <1>1, <1>2 DEF CopyInv, Copied, Claiming, AddsClaim
<1>3. CASE pc[w] = "recorded"
  BY <1>1, <1>3 DEF CopyInv, Copied, Claimed, Answered, AddsAnswer
<1>4. CASE pc[w] = "checked"
  BY <1>1, <1>4 DEF CopyInv, Copied
<1> QED BY <1>2, <1>3, <1>4 DEF Commits

\* Rows keep their claims, their leases and their outcomes.
Keeps(m) ==
  /\ Status(m) # "NONE" => Status(m)' # "NONE" /\ Ledger'[m].lease = Ledger[m].lease
  /\ Status(m) \in Answers => Status(m)' = Status(m)

\* Every step keeps the rows of the branch.
LEMMA LedgerKeeps ==
  ASSUME TypeOK, CopyInv, [Next]_vars, NEW m \in Messages
  PROVE  Keeps(m)
<1>0. Ledger \in [Messages -> Rows]
  BY TopType DEF TypeOK, Ledger
<1>1. CASE Ledger' = Ledger
  BY <1>1 DEF Keeps, Status, Ledger
<1>2. ASSUME NEW w \in Writers, AddsClaim(w) PROVE Keeps(m)
  BY <1>0, <1>2, TaskFacts DEF AddsClaim, Keeps, Status, Ledger, Blocked, Answers
<1>3. ASSUME NEW w \in Writers, AddsAnswer(w) PROVE Keeps(m)
  <2>1. PICK a \in Answers : Ledger' = [Ledger EXCEPT ![Task[w]].status = a]
    BY <1>3 DEF AddsAnswer
  <2>2. CASE m = Task[w]
    <3>1. Ledger[m] \in Rows /\ Ledger'[m] = [Ledger[m] EXCEPT !.status = a]
      BY <1>0, <2>1, <2>2
    <3>2. Ledger'[m].status = a /\ Ledger'[m].lease = Ledger[m].lease
      BY <3>1 DEF Rows
    <3>3. Ledger[m].status = "CLAIMED"
      BY <1>3, <2>2 DEF AddsAnswer
    <3> QED BY <3>2, <3>3 DEF Keeps, Status, Ledger, Answers
  <2>3. CASE m # Task[w]
    <3>1. Ledger'[m] = Ledger[m]
      BY <1>0, <2>1, <2>3
    <3> QED BY <3>1 DEF Keeps, Status, Ledger
  <2> QED BY <2>2, <2>3
<1> QED BY <1>1, <1>2, <1>3, BranchMoves, LedgerMoves DEF Ledger

\* The types and the copies hold at all times.
LEMMA CopyHolds == Spec => [](TypeOK /\ CopyInv)
<1>1. Init => TypeOK /\ CopyInv
  BY InitTyped DEF Init, CopyInv, Copied
<1>2. TypeOK /\ CopyInv /\ [Next]_vars => (TypeOK /\ CopyInv)'
  BY TypeInductive, CopyInductive
<1> QED BY <1>1, <1>2, PTL DEF Spec

\* The branch grows by one commit at a time, a claim stays for ever and an
\* outcome is never revised (_commit_and_push, "never force-pushed").
THEOREM BranchIsEvidence == Spec => BranchKeepsEvidence
<1> DEFINE A == /\ remote' # remote => Len(remote') = Len(remote) + 1
                /\ \A m \in Messages :
                     /\ Status(m) # "NONE" => Status(m)' # "NONE"
                     /\ Status(m) \in Answers => Status(m)' = Status(m)
<1>1. TypeOK /\ CopyInv /\ [Next]_vars => A
  <2> SUFFICES ASSUME TypeOK, CopyInv, [Next]_vars PROVE A
    OBVIOUS
  <2>1. remote' # remote => Len(remote') = Len(remote) + 1
    BY BranchMoves, TopOfAppend DEF TypeOK, Commits
  <2>2. \A m \in Messages : Keeps(m)
    BY LedgerKeeps
  <2> QED BY <2>1, <2>2 DEF Keeps
<1>2. TypeOK /\ CopyInv /\ [Next]_vars => [A]_vars
  BY <1>1
<1> QED BY <1>2, CopyHolds, PTL DEF BranchKeepsEvidence, Spec

\* Digests are claimed in the order of their days, from whatever copies the
\* claimants started (deliver_digest, MAX(sec_day) of the ledger).
THEOREM DaysInOrder == Spec => DaysClaimedInOrder
<1> DEFINE A == \A d \in Days :
                  Status(<<"digest", d>>) = "NONE" /\ Status(<<"digest", d>>)' # "NONE"
                    => \A e \in Days : e > d => Status(<<"digest", e>>) = "NONE"
<1>1. TypeOK /\ CopyInv /\ [Next]_vars => A
  <2> SUFFICES ASSUME TypeOK, CopyInv, [Next]_vars, NEW d \in Days, NEW e \in Days, e > d,
                      Status(<<"digest", d>>) = "NONE", Status(<<"digest", d>>)' # "NONE"
               PROVE  Status(<<"digest", e>>) = "NONE"
    OBVIOUS
  <2> DEFINE m == <<"digest", d>>
  <2>0. Ledger \in [Messages -> Rows] /\ m \in Messages
    BY TopType DEF TypeOK, Ledger, Messages, Digests
  <2>1. PICK w \in Writers : AddsClaim(w) \/ AddsAnswer(w)
    BY BranchMoves, LedgerMoves DEF Status, Ledger
  <2>2. CASE AddsClaim(w)
    <3>1. Task[w] = m
      BY <2>0, <2>2, TaskFacts DEF AddsClaim, Status, Ledger
    <3>2. ~Blocked(m, Ledger)
      BY <2>2, <3>1 DEF AddsClaim
    <3> QED BY <2>0, <3>2, DaysAssumption DEF Blocked, Status, Ledger, Digests
  <2>3. CASE AddsAnswer(w)
    <3>1. Ledger[m].status = "NONE" /\ Ledger'[m].status # "NONE"
      BY DEF Status, Ledger
    <3>2. Task[w] # m
      BY <2>3, <3>1 DEF AddsAnswer
    <3>3. Ledger'[m] = Ledger[m]
      BY <2>0, <2>3, <3>2 DEF AddsAnswer
    <3> QED BY <3>1, <3>3
  <2> QED BY <2>1, <2>2, <2>3
<1>2. TypeOK /\ CopyInv /\ [Next]_vars => [A]_vars
  BY <1>1
<1> QED BY <1>2, CopyHolds, PTL DEF DaysClaimedInOrder, Spec

-----------------------------------------------------------------------------
(* Claims and the calls they permit *)

Holding == {"reserved", "answered", "recorded"}
Past    == {"answered", "recorded", "done"}

\* A job that goes on after its claim has its row on the branch.
HeldInv == \A w \in Claimants :
  pc[w] \in Holding =>
    Status(Task[w]) # "NONE" /\ Ledger[Task[w]].lease \in LeaseOf(w)

\* Whoever acted on a leased message holds its row and is past the call.
OnceInv == \A m \in Messages : contacts[m] > 0 =>
  /\ Status(m) # "NONE"
  /\ m \in Leased => /\ contacts[m] = 1
                     /\ Ledger[m].lease \in Claimants
                     /\ pc[Ledger[m].lease] \in Past

SpentInv == \A w \in Claimants : pc[w] \in {"answered", "recorded"} => contacts[Task[w]] > 0

IInv == TypeOK /\ CopyInv /\ HeldInv /\ OnceInv /\ SpentInv

\* A step that acts on nothing and lets nobody past its claim.
Quiet ==
  /\ contacts' = contacts
  /\ \A u \in Claimants : /\ pc'[u] \in Holding => pc[u] \in Holding
                          /\ pc[u] \in Past => pc'[u] \in Past
                          /\ pc'[u] \in {"answered", "recorded"}
                               => pc[u] \in {"answered", "recorded"}

\* A step that acts on nothing keeps what is said of the calls.
LEMMA QuietKeeps ==
  ASSUME IInv, [Next]_vars, Quiet
  PROVE  (HeldInv /\ OnceInv /\ SpentInv)'
<1>1. \A m \in Messages : Keeps(m)
  BY LedgerKeeps DEF IInv
<1>2. HeldInv'
  BY <1>1, TaskFacts DEF IInv, HeldInv, Quiet, Keeps, LeaseOf
<1>3. OnceInv'
  BY <1>1 DEF IInv, OnceInv, Quiet, Keeps
<1>4. SpentInv'
  BY DEF IInv, SpentInv, Quiet
<1> QED BY <1>2, <1>3, <1>4

\* A job that ends makes no call.
LEMMA FinishQuiet ==
  ASSUME TypeOK, NEW w \in Writers, Finish(w), UNCHANGED contacts
  PROVE  Quiet
BY DEF TypeOK, Finish, Quiet, Holding, Past, Writers

\* The one call of a leased message: its row is the caller's.
LEMMA CallOnce ==
  ASSUME IInv, NEW w \in Claimants, pc[w] = "reserved", Task[w] \in Leased
  PROVE  Ledger[Task[w]].lease = w /\ contacts[Task[w]] = 0
<1>1. Ledger[Task[w]].lease = w
  BY TaskFacts DEF IInv, HeldInv, Holding
<1>2. contacts[Task[w]] \in Nat /\ ~(contacts[Task[w]] > 0)
  BY <1>1, TaskFacts DEF IInv, TypeOK, OnceInv, Past
<1> QED BY <1>1, <1>2

\* A call by a job that holds its claim keeps what is said of the calls.
LEMMA CallKeeps ==
  ASSUME IInv, [Next]_vars, NEW w \in Claimants, pc[w] = "reserved",
         remote' = remote, pc' = [pc EXCEPT ![w] = pc'[w]], pc'[w] \in Past,
         contacts' = [contacts EXCEPT ![Task[w]] = @ + 1]
  PROVE  (HeldInv /\ OnceInv /\ SpentInv)'
<1>0. w \in Writers /\ Task[w] \in Messages
  BY TaskFacts
<1>1. Ledger' = Ledger /\ \A m \in Messages : Status(m)' = Status(m)
  BY DEF Ledger, Status
<1>2. \A u \in Claimants : u # w => pc'[u] = pc[u]
  BY DEF IInv, TypeOK, Writers
<1>3. \A m \in Messages : m # Task[w] => contacts'[m] = contacts[m]
  BY DEF IInv, TypeOK
<1>4. contacts[Task[w]] \in Nat /\ contacts'[Task[w]] = contacts[Task[w]] + 1
  BY <1>0 DEF IInv, TypeOK
<1>5. HeldInv'
  BY <1>1, <1>2, TaskFacts DEF IInv, HeldInv, Holding, LeaseOf
<1>6. OnceInv'
  <2> SUFFICES ASSUME NEW m \in Messages, contacts'[m] > 0
               PROVE  /\ Status(m) # "NONE"
                      /\ m \in Leased => /\ contacts'[m] = 1
                                         /\ Ledger[m].lease \in Claimants
                                         /\ pc'[Ledger[m].lease] \in Past
    BY <1>1 DEF OnceInv
  <2>1. CASE m = Task[w]
    BY <1>4, <2>1, CallOnce DEF IInv, HeldInv, Holding
  <2>2. CASE m # Task[w]
    BY <1>2, <1>3, <2>2 DEF IInv, OnceInv
  <2> QED BY <2>1, <2>2
<1>7. SpentInv'
  BY <1>2, <1>3, <1>4 DEF IInv, SpentInv
<1> QED BY <1>5, <1>6, <1>7

\* Every step keeps what is said of the calls: one for a leased message, by the holder of its row.
LEMMA CallsInductive ==
  ASSUME IInv, [Next]_vars
  PROVE  (HeldInv /\ OnceInv /\ SpentInv)'
<1> DEFINE Goal == (HeldInv /\ OnceInv /\ SpentInv)'
<1>0. TypeOK
  BY DEF IInv
<1>1. CASE UNCHANGED vars
  BY <1>1, QuietKeeps DEF vars, Quiet
<1>2. ASSUME NEW w \in Writers, Restore(w) PROVE Goal
  BY <1>0, <1>2, QuietKeeps DEF TypeOK, Restore, Goto, Quiet, Holding, Past, Writers
<1>3. ASSUME NEW w \in Writers, Crash(w) PROVE Goal
  BY <1>0, <1>3, FinishQuiet, QuietKeeps DEF Crash
<1>4. ASSUME NEW w \in Claimants, Claim(w) PROVE Goal
  <2>1. CASE Blocked(Task[w], local[w].ledger)
    BY <1>0, <1>4, <2>1, FinishQuiet, QuietKeeps, TaskFacts DEF Claim
  <2>2. CASE ~Blocked(Task[w], local[w].ledger)
    BY <1>0, <1>4, <2>2, QuietKeeps, TaskFacts
       DEF TypeOK, Claim, Goto, Quiet, Holding, Past, Writers
  <2> QED BY <2>1, <2>2
<1>5. ASSUME NEW w \in Claimants, PushClaim(w) PROVE Goal
  <2>1. CASE PushFailed(w) /\ Finish(w)
    BY <1>0, <1>5, <2>1, FinishQuiet, QuietKeeps, TaskFacts DEF PushClaim
  <2>2. CASE PushAccepted(w) /\ Goto(w, "reserved")
    <3>1. \A m \in Messages : Keeps(m)
      BY LedgerKeeps DEF IInv
    <3>2. /\ w \in Writers /\ pc[w] = "claimed" /\ pc'[w] = "reserved" /\ contacts' = contacts
          /\ \A u \in Claimants : u # w => pc'[u] = pc[u]
      BY <1>0, <1>5, <2>2, TaskFacts DEF TypeOK, PushClaim, Goto, Writers
    <3>3. Ledger' = local[w].ledger
      <4>1. remote' = Append(base[w], local[w])
        BY <2>2 DEF PushAccepted
      <4>2. base[w] \in Seq(Trees) /\ local[w] \in Trees
        BY <1>0, <3>2 DEF TypeOK
      <4> QED BY <4>1, <4>2, TopOfAppend DEF Ledger
    <3>4. Status(Task[w])' # "NONE" /\ Ledger'[Task[w]].lease \in LeaseOf(w)
      <4>1. Claiming(w) /\ Top(base[w]).ledger \in [Messages -> Rows]
        BY <3>2, TopType DEF IInv, TypeOK, CopyInv, Copied
      <4> QED BY <3>3, <4>1, TaskFacts DEF Claiming, Status, Ledger
    <3>5. HeldInv'
      BY <3>1, <3>2, <3>4, TaskFacts DEF IInv, HeldInv, Holding, Keeps, LeaseOf
    <3>6. OnceInv'
      BY <3>1, <3>2 DEF IInv, OnceInv, Keeps, Past
    <3>7. SpentInv'
      BY <3>2 DEF IInv, SpentInv
    <3> QED BY <3>5, <3>6, <3>7
  <2> QED BY <1>5, <2>1, <2>2 DEF PushClaim
<1>6. ASSUME NEW w \in Claimants, Send(w) PROVE Goal
  BY <1>0, <1>6, CallKeeps, TaskFacts DEF TypeOK, Send, Goto, Past
<1>7. ASSUME NEW w \in Claimants, Authorise(w) PROVE Goal
  BY <1>0, <1>7, CallKeeps, TaskFacts DEF TypeOK, Authorise, Finish, Past
<1>8. ASSUME NEW w \in Claimants, Record(w) PROVE Goal
  BY <1>0, <1>8, QuietKeeps DEF TypeOK, Record, Goto, Quiet, Holding, Past, Writers
<1>9. ASSUME NEW w \in Claimants, PushResult(w) PROVE Goal
  BY <1>0, <1>9, FinishQuiet, QuietKeeps, TaskFacts DEF PushResult
<1>10. ASSUME NEW w \in Syncers, SyncCheck(w) PROVE Goal
  <2>1. CASE remote # base[w]
    BY <1>0, <1>10, <2>1, FinishQuiet, QuietKeeps DEF SyncCheck, Writers
  <2>2. CASE remote = base[w]
    BY <1>0, <1>10, <2>2, QuietKeeps, JobsAssumption
       DEF TypeOK, SyncCheck, Goto, Quiet, Holding, Past, Writers
  <2> QED BY <2>1, <2>2
<1>11. ASSUME NEW w \in Syncers, PushSync(w) PROVE Goal
  BY <1>0, <1>11, FinishQuiet, QuietKeeps DEF PushSync, Writers
<1> QED BY <1>1, <1>2, <1>3, <1>4, <1>5, <1>6, <1>7, <1>8, <1>9, <1>10, <1>11
        DEF Next, ClaimantStep

\* The invariant holds at all times.
LEMMA InvHolds == Spec => []IInv
<1>1. Init => IInv
  <2> SUFFICES ASSUME Init PROVE IInv
    OBVIOUS
  <2>1. TypeOK /\ CopyInv
    BY InitTyped DEF Init, CopyInv, Copied
  <2>2. HeldInv /\ SpentInv
    BY TaskFacts DEF Init, HeldInv, SpentInv, Holding
  <2>3. OnceInv
    BY DEF Init, OnceInv
  <2> QED BY <2>1, <2>2, <2>3 DEF IInv
<1>2. IInv /\ [Next]_vars => IInv'
  BY TypeInductive, CopyInductive, CallsInductive DEF IInv
<1> QED BY <1>1, <1>2, PTL DEF Spec

\* What anybody acted on has its claim on the branch for ever, whatever older
\* copies other jobs carry (persist_operational, "MUST succeed before").
THEOREM ClaimsOutliveSends == Spec => []ClaimOutlivesSend
<1>1. IInv => ClaimOutlivesSend
  BY DEF IInv, OnceInv, ClaimOutlivesSend
<1> QED BY <1>1, InvHolds, PTL

\* No digest is sent twice and no recovery authorised twice, however many jobs
\* race, crash or lose the answer of a push (deliver_digest, claim_recovery).
THEOREM ActedOnAtMostOnce == Spec => []AtMostOnce
<1>1. IInv => AtMostOnce
  <2> SUFFICES ASSUME IInv, NEW m \in Leased PROVE contacts[m] <= 1
    BY DEF AtMostOnce
  <2>1. m \in Messages /\ contacts[m] \in Nat
    BY DEF IInv, TypeOK, Leased, Messages
  <2> QED BY <2>1 DEF IInv, OnceInv
<1> QED BY <1>1, InvHolds, PTL

-----------------------------------------------------------------------------
(* Leases are fresh *)

\* Before its claim is pushed, a claimant's lease is in its own copy at most.
FreshInv == \A u \in Claimants : pc[u] \in {"start", "ready", "claimed"} =>
  \A m \in Messages :
    /\ Ledger[m].lease # u
    /\ \A v \in Writers : v # u \/ pc[u] # "claimed" => local[v].ledger[m].lease # u

\* Where the leases of a copy come from.
Inherited(v, m) ==
  \/ local'[v].ledger[m].lease \in {local[v].ledger[m].lease, Ledger[m].lease, Nobody}
  \/ /\ v \in Claimants /\ pc'[v] = "claimed"
     /\ local'[v].ledger[m].lease \in {v, Nobody}

\* No row of a new branch has a lease.
LEMMA EmptyLease ==
  ASSUME NEW m \in Messages
  PROVE  Empty.ledger[m].lease = Nobody
BY EmptyType DEF NoRow

\* A job that ends leaves every lease one that was known before.
LEMMA FinishInherits ==
  ASSUME TypeOK, NEW w \in Writers, Finish(w), NEW v \in Writers, NEW m \in Messages
  PROVE  Inherited(v, m)
<1>1. CASE v = w
  BY <1>1, EmptyLease DEF TypeOK, Finish, Inherited
<1>2. CASE v # w
  BY <1>2, FinishOthers DEF Inherited
<1> QED BY <1>1, <1>2

\* A lease that is known after a step was known before it, or its job has just claimed.
LEMMA LeasesInherited ==
  ASSUME TypeOK, [Next]_vars, NEW v \in Writers, NEW m \in Messages
  PROVE  Inherited(v, m)
<1>1. CASE local' = local
  BY <1>1 DEF Inherited
<1>2. ASSUME NEW w \in Writers, Restore(w) PROVE Inherited(v, m)
  <2>1. local'[v] = IF v = w THEN Top(remote) ELSE local[v]
    BY <1>2 DEF TypeOK, Restore
  <2> QED BY <2>1 DEF Inherited, Ledger
<1>3. ASSUME NEW w \in Writers, Finish(w) PROVE Inherited(v, m)
  BY <1>3, FinishInherits
<1>4. ASSUME NEW w \in Claimants, Claim(w), ~Blocked(Task[w], local[w].ledger)
      PROVE  Inherited(v, m)
  <2>1. PICK l \in LeaseOf(w) :
          local' = [local EXCEPT ![w].ledger[Task[w]] = [status |-> "CLAIMED", lease |-> l]]
    BY <1>4 DEF Claim
  <2> DEFINE L == [local[w].ledger EXCEPT ![Task[w]] = [status |-> "CLAIMED", lease |-> l]]
  <2>2. w \in Writers /\ local[w] \in Trees /\ local[w].ledger \in [Messages -> Rows]
    BY TaskFacts DEF TypeOK, Trees
  <2>3. L \in [Messages -> Rows]
    BY <2>2, TaskFacts DEF Rows, Statuses
  <2>4. L[m].lease = local[w].ledger[m].lease \/ L[m].lease \in {w, Nobody}
    BY <2>2, TaskFacts DEF LeaseOf
  <2>5. local' = [local EXCEPT ![w] = [local[w] EXCEPT !.ledger = L]]
    BY <2>1
  <2>6. CASE v = w
    <3>1. local'[v].ledger = L
      <4> HIDE DEF L
      <4> QED BY <2>2, <2>3, <2>5, <2>6, WithLedger DEF TypeOK
    <3>2. pc'[v] = "claimed"
      BY <1>4, <2>2, <2>6 DEF Claim, Goto, TypeOK
    <3> HIDE DEF L
    <3> QED BY <2>4, <2>6, <3>1, <3>2 DEF Inherited
  <2>7. CASE v # w
    <3> HIDE DEF L
    <3> QED BY <2>5, <2>7 DEF TypeOK, Inherited
  <2> QED BY <2>6, <2>7
<1>5. ASSUME NEW w \in Claimants, Record(w) PROVE Inherited(v, m)
  <2> DEFINE r == [local[w].ledger[Task[w]] EXCEPT !.status = answer[w]]
             L == [local[w].ledger EXCEPT ![Task[w]] = r]
  <2>1. w \in Writers /\ local[w] \in Trees /\ local[w].ledger \in [Messages -> Rows]
    BY TaskFacts DEF TypeOK, Trees
  <2>2. r \in Rows
    BY <2>1, WithStatus, TaskFacts DEF TypeOK, Statuses
  <2>3. r.lease = local[w].ledger[Task[w]].lease
    BY <2>1, TaskFacts DEF Rows
  <2>4. local' = [local EXCEPT ![w] = [local[w] EXCEPT !.ledger = L]]
    BY <1>5 DEF Record
  <2> HIDE DEF r
  <2>5. L \in [Messages -> Rows] /\ L[m].lease = local[w].ledger[m].lease
    BY <2>1, <2>2, <2>3, TaskFacts
  <2> HIDE DEF L
  <2>6. CASE v = w
    <3>1. local'[v].ledger = L
      BY <2>1, <2>4, <2>5, <2>6, WithLedger DEF TypeOK
    <3> QED BY <2>5, <2>6, <3>1 DEF Inherited
  <2>7. CASE v # w
    BY <2>4, <2>7 DEF TypeOK, Inherited
  <2> QED BY <2>6, <2>7
<1>6. ASSUME NEW w \in Syncers, SyncCheck(w), remote = base[w] PROVE Inherited(v, m)
  <2> DEFINE L == IF w \in Carriers THEN local[w].ledger ELSE Top(remote).ledger
  <2>1. w \in Writers
    BY DEF Writers
  <2>2. local[w] \in Trees /\ L \in [Messages -> Rows]
    BY <2>1, TopType DEF TypeOK, Trees
  <2>3. local' = [local EXCEPT ![w] = [local[w] EXCEPT !.ledger = L, !.files = w]]
    BY <1>6 DEF SyncCheck
  <2>4. L[m].lease \in {local[w].ledger[m].lease, Ledger[m].lease}
    BY DEF Ledger
  <2> HIDE DEF L
  <2>5. CASE v = w
    <3>1. [local[w] EXCEPT !.ledger = L, !.files = w].ledger = L
      BY <2>1, <2>2, WithFiles
    <3>2. local'[v].ledger = L
      BY <2>1, <2>3, <2>5, <3>1 DEF TypeOK
    <3> QED BY <2>4, <2>5, <3>2 DEF Inherited
  <2>6. CASE v # w
    BY <2>3, <2>6 DEF TypeOK, Inherited
  <2> QED BY <2>5, <2>6
<1>7. ASSUME NEW w \in Claimants, ClaimantStep(w) PROVE Inherited(v, m)
  <2>1. w \in Writers
    BY TaskFacts
  <2>2. CASE Claim(w)
    BY <1>3, <1>4, <2>1, <2>2 DEF Claim
  <2>3. CASE PushClaim(w)
    BY <1>1, <1>3, <2>1, <2>3 DEF PushClaim
  <2>4. CASE Send(w)
    BY <1>1, <2>4 DEF Send
  <2>5. CASE Authorise(w) \/ PushResult(w)
    BY <1>3, <2>1, <2>5 DEF Authorise, PushResult
  <2>6. CASE Record(w)
    BY <1>5, <2>6
  <2> QED BY <1>7, <2>2, <2>3, <2>4, <2>5, <2>6 DEF ClaimantStep
<1>8. ASSUME NEW w \in Syncers, SyncCheck(w) \/ PushSync(w) PROVE Inherited(v, m)
  BY <1>3, <1>6, <1>8 DEF SyncCheck, PushSync, Writers
<1>9. ASSUME NEW w \in Writers, Crash(w) PROVE Inherited(v, m)
  BY <1>3, <1>9 DEF Crash
<1> QED BY <1>1, <1>2, <1>7, <1>8, <1>9 DEF Next, vars

Early == {"start", "ready", "claimed"}

\* A job that has not claimed yet had not claimed before.
LEMMA EarlyMoves ==
  ASSUME TypeOK, [Next]_vars, NEW u \in Claimants, pc'[u] \in Early
  PROVE  pc[u] \in Early /\ (pc'[u] # "claimed" => pc[u] # "claimed")
<1>1. CASE UNCHANGED vars
  BY <1>1 DEF vars
<1>2. ASSUME NEW w \in Writers, Finish(w), pc[w] # "start"
      PROVE  pc[u] \in Early /\ (pc'[u] # "claimed" => pc[u] # "claimed")
  BY <1>2 DEF TypeOK, Finish, Early, Writers
<1>3. ASSUME NEW w \in Writers, Restore(w) \/ Crash(w)
      PROVE  pc[u] \in Early /\ (pc'[u] # "claimed" => pc[u] # "claimed")
  BY <1>2, <1>3 DEF TypeOK, Restore, Crash, Goto, Early, Writers
<1>4. ASSUME NEW w \in Claimants, ClaimantStep(w)
      PROVE  pc[u] \in Early /\ (pc'[u] # "claimed" => pc[u] # "claimed")
  BY <1>2, <1>4 DEF TypeOK, Early, Goto, Writers, ClaimantStep, Claim, PushClaim, Send,
                    Authorise, Record, PushResult
<1>5. ASSUME NEW w \in Syncers, SyncCheck(w) \/ PushSync(w)
      PROVE  pc[u] \in Early /\ (pc'[u] # "claimed" => pc[u] # "claimed")
  BY <1>2, <1>5, JobsAssumption DEF TypeOK, Early, Goto, Writers, SyncCheck, PushSync
<1> QED BY <1>1, <1>3, <1>4, <1>5 DEF Next

\* Every step keeps a lease, until its claim is pushed, in its claimant's copy at most.
LEMMA FreshInductive ==
  ASSUME TypeOK, FreshInv, [Next]_vars
  PROVE  FreshInv'
<1> SUFFICES ASSUME NEW u \in Claimants, pc'[u] \in Early, NEW m \in Messages
             PROVE  /\ Ledger'[m].lease # u
                    /\ \A v \in Writers : v # u \/ pc'[u] # "claimed"
                                          => local'[v].ledger[m].lease # u
  BY DEF FreshInv, Early
<1>0. u \in Writers /\ u # Nobody
  BY JobsAssumption DEF Writers
<1>1. /\ pc[u] \in Early /\ (pc'[u] # "claimed" => pc[u] # "claimed")
      /\ Ledger[m].lease # u
      /\ \A v \in Writers : v # u \/ pc[u] # "claimed" => local[v].ledger[m].lease # u
  BY EarlyMoves DEF FreshInv, Early
<1>2. Ledger'[m].lease # u
  <2>1. CASE remote' = remote
    BY <1>1, <2>1 DEF Ledger
  <2>2. ASSUME NEW w \in Writers, Commits(w)
        PROVE  Ledger'[m].lease # u
    <3>1. Ledger' = local[w].ledger
      BY <2>2, TopOfAppend DEF TypeOK, Commits, Ledger
    <3>2. w # u
      BY <2>2 DEF Commits, Early
    <3> QED BY <1>1, <3>1, <3>2
  <2> QED BY <2>1, <2>2, BranchMoves
<1>3. ASSUME NEW v \in Writers, v # u \/ pc'[u] # "claimed"
      PROVE  local'[v].ledger[m].lease # u
  <2>1. Inherited(v, m)
    BY LeasesInherited
  <2> QED BY <1>0, <1>1, <1>3, <2>1 DEF Inherited
<1> QED BY <1>2, <1>3

\* At all times a lease is in its claimant's copy at most until its claim is pushed.
LEMMA FreshHolds == Spec => [](IInv /\ FreshInv)
<1>1. Init => FreshInv
  <2> SUFFICES ASSUME Init, NEW u \in Claimants, NEW m \in Messages
               PROVE  /\ Ledger[m].lease # u
                      /\ \A v \in Writers : local[v].ledger[m].lease # u
    BY DEF FreshInv
  <2>1. u # Nobody
    BY JobsAssumption DEF Writers
  <2> QED BY <2>1, EmptyLease DEF Init, Ledger, Top
<1>2. IInv /\ FreshInv /\ [Next]_vars => FreshInv'
  BY FreshInductive DEF IInv
<1> QED BY <1>1, <1>2, InvHolds, PTL DEF Spec

-----------------------------------------------------------------------------
(* The branch implements at-most-once delivery *)

Reserved(m) == \E w \in Claimants : Task[w] = m /\ pc[w] = "reserved"

\* What the abstract state reads of a message.
Same(m) ==
  /\ Status(m)' = Status(m)
  /\ contacts'[m] = contacts[m]
  /\ Reserved(m)' <=> Reserved(m)

\* A message that a step leaves alone keeps its permit and its verdict.
LEMMA SamePermit ==
  ASSUME NEW m, Same(m)
  PROVE  PermitOf(m)' = PermitOf(m) /\ Status(m)' = Status(m)
BY DEF Same, PermitOf, Reserved

Permits  == [m \in Leased |-> PermitOf(m)]
Verdicts == [m \in Leased |-> Status(m)]

\* A step that leaves every leased message alone is a stutter of the abstract ledger.
LEMMA Stutters ==
  ASSUME \A m \in Leased : Same(m)
  PROVE  UNCHANGED <<Permits, Verdicts>>
BY SamePermit DEF Permits, Verdicts

\* One message moves.
LEMMA Moves ==
  ASSUME NEW n \in Leased, \A m \in Leased \ {n} : Same(m)
  PROVE  /\ Permits' = [Permits EXCEPT ![n] = PermitOf(n)']
         /\ Verdicts' = [Verdicts EXCEPT ![n] = Status(n)']
         /\ Permits[n] = PermitOf(n) /\ Verdicts[n] = Status(n)
BY SamePermit DEF Permits, Verdicts

\* A step of w leaves the other messages alone.
LEMMA OthersSame ==
  ASSUME IInv, [Next]_vars, NEW w \in Claimants,
         \A u \in Claimants \ {w} : pc'[u] = pc[u],
         \A m \in Messages \ {Task[w]} : contacts'[m] = contacts[m] /\ Ledger'[m] = Ledger[m]
  PROVE  \A m \in Leased \ {Task[w]} : Same(m)
<1> SUFFICES ASSUME NEW m \in Leased \ {Task[w]} PROVE Same(m)
  OBVIOUS
<1>1. m \in Messages \ {Task[w]}
  BY DEF Leased, Messages
<1>2. Reserved(m)' <=> Reserved(m)
  BY DEF Reserved
<1> QED BY <1>1, <1>2 DEF Same, Status, Ledger

\* A step of one job without claim, call or answer is a stutter of the abstract ledger.
LEMMA QuietPermits ==
  ASSUME TypeOK, NEW w \in Writers, remote' = remote, contacts' = contacts,
         pc' = [pc EXCEPT ![w] = pc'[w]], pc[w] # "reserved", pc'[w] # "reserved"
  PROVE  UNCHANGED <<Permits, Verdicts>>
<1>1. \A u \in Claimants : pc'[u] = "reserved" <=> pc[u] = "reserved"
  BY DEF TypeOK, Writers
<1>2. \A m \in Leased : Same(m)
  BY <1>1 DEF Same, Status, Reserved
<1> QED BY <1>2, Stutters

\* Nobody acted on a message without a claim, and nobody is about to.
LEMMA FreeMessage ==
  ASSUME IInv, NEW m \in Leased, Status(m) = "NONE"
  PROVE  contacts[m] = 0 /\ ~Reserved(m) /\ PermitOf(m) = "free"
<1>1. m \in Messages /\ contacts[m] \in Nat
  BY DEF IInv, TypeOK, Leased, Messages
<1>2. ~(contacts[m] > 0)
  BY <1>1 DEF IInv, OnceInv
<1>3. ~Reserved(m)
  BY DEF IInv, HeldInv, Holding, Reserved
<1> QED BY <1>1, <1>2, <1>3 DEF PermitOf

\* A claim that reaches the branch: reserved by its claimant, or void when the
\* answer of the push was lost.
LEMMA ClaimRefines ==
  ASSUME IInv, FreshInv, [Next]_vars, NEW w \in Claimants, PushClaim(w)
  PROVE  [Delivery!Next]_<<Permits, Verdicts>>
<1> DEFINE n == Task[w]
<1>0. TypeOK /\ w \in Writers /\ n \in Messages /\ pc[w] = "claimed" /\ contacts' = contacts
  BY TaskFacts DEF IInv, PushClaim
<1>1. PICK l \in LeaseOf(w) :
        /\ ~Blocked(n, Top(base[w]).ledger)
        /\ local[w].ledger =
             [Top(base[w]).ledger EXCEPT ![n] = [status |-> "CLAIMED", lease |-> l]]
  BY <1>0 DEF IInv, CopyInv, Copied, Claiming
<1>2. \/ PushAccepted(w) /\ pc' = [pc EXCEPT ![w] = "reserved"]
      \/ PushFailed(w) /\ pc' = [pc EXCEPT ![w] = "done"]
  BY DEF PushClaim, Goto, Finish
<1>3. CASE remote' = remote /\ pc' = [pc EXCEPT ![w] = "done"]
  <2>1. pc'[w] = "done"
    BY <1>0, <1>3 DEF TypeOK
  <2> QED BY <1>0, <1>3, <2>1, QuietPermits
<1>4. CASE remote = base[w] /\ remote' = Append(base[w], local[w])
  <2>1. Ledger' = [Ledger EXCEPT ![n] = [status |-> "CLAIMED", lease |-> l]]
    <3>1. base[w] \in Seq(Trees) /\ local[w] \in Trees
      BY <1>0 DEF TypeOK
    <3> QED BY <1>1, <1>4, <3>1, TopOfAppend DEF Ledger
  <2>2. Ledger \in [Messages -> Rows]
    BY <1>0, TopType DEF TypeOK, Ledger
  <2>3. Status(n) = "NONE" /\ Status(n)' = "CLAIMED"
    BY <1>0, <1>1, <1>4, <2>1, <2>2 DEF Blocked, Status, Ledger
  <2>4. \A m \in Leased \ {n} : Same(m)
    <3>1. \A u \in Claimants \ {w} : pc'[u] = pc[u]
      BY <1>2 DEF IInv, TypeOK, Writers
    <3>2. \A m \in Messages \ {n} : contacts'[m] = contacts[m] /\ Ledger'[m] = Ledger[m]
      BY <1>0, <2>1, <2>2
    <3> QED BY <3>1, <3>2, OthersSame
  <2>5. CASE n \notin Leased
    BY <2>4, <2>5, Stutters
  <2>6. CASE n \in Leased
    <3>1. contacts'[n] = 0 /\ ~Reserved(n) /\ PermitOf(n) = "free"
      BY <1>0, <2>3, <2>6, FreeMessage
    <3>2. CASE pc' = [pc EXCEPT ![w] = "reserved"]
      <4>1. Reserved(n)'
        BY <1>0, <3>2 DEF TypeOK, Reserved
      <4>2. PermitOf(n)' = "held"
        BY <2>3, <3>1, <4>1 DEF PermitOf, Reserved
      <4>3. Delivery!Reserve(n)
        BY <2>3, <2>4, <2>6, <3>1, <4>2, Moves DEF Delivery!Reserve, Permits, Verdicts
      <4> QED BY <2>6, <4>3 DEF Delivery!Next
    <3>3. CASE pc' = [pc EXCEPT ![w] = "done"]
      <4>1. ~Reserved(n)'
        BY <1>0, <3>1, <3>3 DEF TypeOK, Reserved, Writers
      <4>2. PermitOf(n)' = "void"
        BY <2>3, <3>1, <4>1 DEF PermitOf, Reserved
      <4>3. Delivery!Refuse(n)
        BY <2>3, <2>4, <2>6, <3>1, <4>2, Moves DEF Delivery!Refuse, Permits, Verdicts
      <4> QED BY <2>6, <4>3 DEF Delivery!Next
    <3> QED BY <1>2, <3>2, <3>3
  <2> QED BY <2>5, <2>6
<1>5. CASE remote = Append(base[w], local[w]) /\ remote' = remote
           /\ pc' = [pc EXCEPT ![w] = "reserved"]
  <2>1. n \notin Leased
    <3> SUFFICES ASSUME n \in Leased PROVE FALSE
      OBVIOUS
    <3>1. base[w] \in Seq(Trees) /\ local[w] \in Trees /\ Top(base[w]).ledger \in [Messages -> Rows]
      BY <1>0, TopType DEF TypeOK
    <3>2. Ledger = local[w].ledger
      BY <1>5, <3>1, TopOfAppend DEF Ledger
    <3>3. Ledger[n].lease = w
      BY <1>0, <1>1, <3>1, <3>2, TaskFacts
    <3> QED BY <1>0, <3>3 DEF FreshInv
  <2>2. \A m \in Leased \ {n} : Same(m)
    <3>1. \A u \in Claimants \ {w} : pc'[u] = pc[u]
      BY <1>5 DEF IInv, TypeOK, Writers
    <3>2. Ledger' = Ledger
      BY <1>5 DEF Ledger
    <3> QED BY <1>0, <3>1, <3>2, OthersSame
  <2> QED BY <2>1, <2>2, Stutters
<1> QED BY <1>2, <1>3, <1>4, <1>5 DEF PushAccepted, PushFailed

\* The call uses the permit its claimant held.
LEMMA CallRefines ==
  ASSUME IInv, [Next]_vars, NEW w \in Claimants, pc[w] = "reserved", remote' = remote,
         pc' = [pc EXCEPT ![w] = pc'[w]],
         contacts' = [contacts EXCEPT ![Task[w]] = @ + 1]
  PROVE  [Delivery!Next]_<<Permits, Verdicts>>
<1> DEFINE n == Task[w]
<1>0. TypeOK /\ w \in Writers /\ n \in Messages /\ Ledger' = Ledger
  BY TaskFacts DEF IInv, Ledger
<1>1. \A m \in Leased \ {n} : Same(m)
  <2>1. \A u \in Claimants \ {w} : pc'[u] = pc[u]
    BY <1>0 DEF TypeOK, Writers
  <2>2. \A m \in Messages \ {n} : contacts'[m] = contacts[m] /\ Ledger'[m] = Ledger[m]
    BY <1>0 DEF TypeOK
  <2> QED BY <2>1, <2>2, OthersSame
<1>2. CASE n \notin Leased
  BY <1>1, <1>2, Stutters
<1>3. CASE n \in Leased
  <2>1. Status(n) # "NONE" /\ Status(n)' = Status(n)
    BY DEF IInv, HeldInv, Holding, Status
  <2>2. contacts[n] = 0 /\ contacts'[n] = 1
    BY <1>0, <1>3, CallOnce DEF TypeOK
  <2>3. PermitOf(n) = "held" /\ PermitOf(n)' = "used"
    BY <2>1, <2>2 DEF PermitOf
  <2>4. Delivery!Use(n)
    BY <1>1, <1>3, <2>1, <2>3, Moves DEF Delivery!Use, Permits, Verdicts
  <2> QED BY <1>3, <2>4 DEF Delivery!Next
<1> QED BY <1>2, <1>3

\* A job lost before its call drops the permit.
LEMMA CrashRefines ==
  ASSUME IInv, [Next]_vars, NEW w \in Writers, Crash(w)
  PROVE  [Delivery!Next]_<<Permits, Verdicts>>
<1>0. /\ TypeOK /\ remote' = remote /\ contacts' = contacts /\ Ledger' = Ledger
      /\ pc' = [pc EXCEPT ![w] = "done"] /\ pc'[w] = "done"
  BY DEF IInv, TypeOK, Crash, Finish, Ledger
<1>1. CASE pc[w] # "reserved"
  BY <1>0, <1>1, QuietPermits
<1>2. CASE w \notin Claimants
  <2>1. \A u \in Claimants : pc'[u] = pc[u]
    BY <1>0, <1>2 DEF TypeOK, Writers
  <2>2. \A m \in Leased : Same(m)
    BY <1>0, <2>1 DEF Same, Status, Reserved
  <2> QED BY <2>2, Stutters
<1>3. CASE w \in Claimants /\ pc[w] = "reserved"
  <2> DEFINE n == Task[w]
  <2>1. \A m \in Leased \ {n} : Same(m)
    <3>1. \A u \in Claimants \ {w} : pc'[u] = pc[u]
      BY <1>0 DEF TypeOK, Writers
    <3> QED BY <1>0, <1>3, <3>1, OthersSame
  <2>2. CASE n \notin Leased
    BY <2>1, <2>2, Stutters
  <2>3. CASE n \in Leased
    <3>1. Status(n) # "NONE" /\ Status(n)' = Status(n)
      BY <1>0, <1>3 DEF IInv, HeldInv, Holding, Status
    <3>2. Ledger[n].lease = w /\ contacts[n] = 0 /\ contacts'[n] = 0
      BY <1>0, <1>3, <2>3, CallOnce
    <3>3. ~Reserved(n)'
      <4> SUFFICES ASSUME NEW u \in Claimants, Task[u] = n, pc'[u] = "reserved" PROVE FALSE
        BY DEF Reserved
      <4>1. u # w /\ pc[u] = "reserved"
        BY <1>0 DEF TypeOK, Writers
      <4> QED BY <2>3, <3>2, <4>1, CallOnce
    <3>4. PermitOf(n) = "held" /\ PermitOf(n)' = "void"
      BY <1>3, <3>1, <3>2, <3>3 DEF PermitOf, Reserved
    <3>5. Delivery!Drop(n)
      BY <2>1, <2>3, <3>1, <3>4, Moves DEF Delivery!Drop, Permits, Verdicts
    <3> QED BY <2>3, <3>5 DEF Delivery!Next
  <2> QED BY <2>2, <2>3
<1> QED BY <1>1, <1>2, <1>3

\* The answer of a call that was made reaches the branch.
LEMMA ResultRefines ==
  ASSUME IInv, [Next]_vars, NEW w \in Claimants, PushResult(w)
  PROVE  [Delivery!Next]_<<Permits, Verdicts>>
<1> DEFINE n == Task[w]
<1>0. /\ TypeOK /\ w \in Writers /\ n \in Messages /\ pc[w] = "recorded"
      /\ contacts' = contacts /\ pc' = [pc EXCEPT ![w] = "done"] /\ pc'[w] = "done"
  BY TaskFacts DEF IInv, TypeOK, PushResult, Finish
<1>1. CASE remote' = remote
  BY <1>0, <1>1, QuietPermits
<1>2. CASE remote = base[w] /\ remote' = Append(base[w], local[w])
  <2>0. Ledger = Top(base[w]).ledger /\ Ledger' = local[w].ledger /\ Ledger \in [Messages -> Rows]
    BY <1>0, <1>2, TopType, TopOfAppend DEF TypeOK, Ledger
  <2>1. PICK a \in Answers : Ledger' = [Ledger EXCEPT ![n].status = a]
    BY <1>0, <2>0 DEF IInv, CopyInv, Copied, Answered
  <2>2. Ledger[n].status = "CLAIMED"
    BY <1>0, <2>0 DEF IInv, CopyInv, Copied, Claimed
  <2>3. Ledger'[n].status = a
    <3>1. Ledger[n] \in Rows /\ Ledger'[n] = [Ledger[n] EXCEPT !.status = a]
      BY <1>0, <2>0, <2>1
    <3> QED BY <3>1 DEF Rows
  <2>4. \A m \in Leased \ {n} : Same(m)
    <3>1. \A u \in Claimants \ {w} : pc'[u] = pc[u]
      BY <1>0 DEF TypeOK, Writers
    <3>2. \A m \in Messages \ {n} : Ledger'[m] = Ledger[m]
      BY <2>0, <2>1
    <3> QED BY <1>0, <3>1, <3>2, OthersSame
  <2>5. CASE n \notin Leased
    BY <2>4, <2>5, Stutters
  <2>6. CASE n \in Leased
    <3>1. Status(n) = "CLAIMED" /\ Status(n)' = a /\ a # "NONE"
      BY <2>2, <2>3 DEF Status, Ledger, Answers
    <3>2. contacts[n] > 0
      BY <1>0 DEF IInv, SpentInv
    <3>3. PermitOf(n) = "used" /\ PermitOf(n)' = "used"
      BY <1>0, <3>1, <3>2 DEF PermitOf
    <3>4. Permits' = Permits
      BY <2>4, <2>6, <3>3, Moves DEF Permits
    <3>5. Delivery!Report(n)
      BY <2>4, <2>6, <3>1, <3>3, <3>4, Moves DEF Delivery!Report, Permits, Verdicts, Answers
    <3> QED BY <2>6, <3>5 DEF Delivery!Next
  <2> QED BY <2>5, <2>6
<1> QED BY <1>1, <1>2 DEF PushResult

\* Every step is one of the abstract ledger, or a stutter.
LEMMA StepRefines ==
  ASSUME IInv, FreshInv, [Next]_vars
  PROVE  [Delivery!Next]_<<Permits, Verdicts>>
<1>0. TypeOK
  BY DEF IInv
<1>1. CASE UNCHANGED vars
  BY <1>1 DEF vars, Permits, Verdicts, PermitOf, Status
<1>2. ASSUME NEW w \in Writers, Restore(w) PROVE UNCHANGED <<Permits, Verdicts>>
  BY <1>0, <1>2, QuietPermits DEF TypeOK, Restore, Goto
<1>3. ASSUME NEW w \in Claimants, Claim(w) PROVE UNCHANGED <<Permits, Verdicts>>
  <2>1. /\ w \in Writers /\ pc[w] = "ready" /\ remote' = remote /\ contacts' = contacts
        /\ pc' = [pc EXCEPT ![w] = "done"] \/ pc' = [pc EXCEPT ![w] = "claimed"]
    BY <1>3, TaskFacts DEF Claim, Goto, Finish
  <2> QED BY <1>0, <2>1, QuietPermits DEF TypeOK
<1>4. ASSUME NEW w \in Claimants, Send(w) \/ Authorise(w)
      PROVE  [Delivery!Next]_<<Permits, Verdicts>>
  BY <1>0, <1>4, CallRefines, TaskFacts DEF TypeOK, Send, Authorise, Goto, Finish
<1>5. ASSUME NEW w \in Claimants, Record(w) PROVE UNCHANGED <<Permits, Verdicts>>
  BY <1>0, <1>5, QuietPermits, TaskFacts DEF TypeOK, Record, Goto
<1>6. ASSUME NEW w \in Claimants, ClaimantStep(w)
      PROVE  [Delivery!Next]_<<Permits, Verdicts>>
  BY <1>3, <1>4, <1>5, <1>6, ClaimRefines, ResultRefines DEF ClaimantStep
<1>7. ASSUME NEW w \in Syncers, SyncCheck(w) PROVE UNCHANGED <<Permits, Verdicts>>
  BY <1>0, <1>7, QuietPermits DEF TypeOK, SyncCheck, Goto, Finish, Writers
<1>8. ASSUME NEW w \in Syncers, PushSync(w) PROVE UNCHANGED <<Permits, Verdicts>>
  <2>1. /\ w \in Writers /\ pc[w] = "checked" /\ contacts' = contacts
        /\ \A u \in Claimants : pc'[u] = pc[u]
    BY <1>0, <1>8, JobsAssumption DEF TypeOK, PushSync, Finish, Writers
  <2>2. Ledger' = Ledger
    <3>1. CASE remote' = remote
      BY <3>1 DEF Ledger
    <3>2. CASE remote = base[w] /\ remote' = Append(base[w], local[w])
      BY <2>1, <3>2, TopOfAppend DEF IInv, TypeOK, CopyInv, Copied, Ledger
    <3> QED BY <1>8, <3>1, <3>2 DEF PushSync
  <2>3. \A m \in Leased : Same(m)
    BY <2>1, <2>2 DEF Same, Status, Ledger, Reserved
  <2> QED BY <2>3, Stutters
<1> QED BY <1>1, <1>2, <1>6, <1>7, <1>8, CrashRefines DEF Next

\* The claims of the branch are at-most-once deliveries: a claim on the branch
\* is the one permit to call, it is dropped by a lost job and never given
\* again, and only a call that was made is reported as sent.
THEOREM BranchImplementsDelivery == Spec => ImplementsDelivery
<1>1. Init => Delivery!Init
  <2> SUFFICES ASSUME Init PROVE Delivery!Init
    OBVIOUS
  <2>1. ASSUME NEW m \in Leased PROVE Status(m) = "NONE" /\ PermitOf(m) = "free"
    <3>1. m \in Messages
      BY DEF Leased, Messages
    <3>2. Status(m) = "NONE"
      BY <3>1, EmptyType, NoRowType DEF Init, Status, Top
    <3> QED BY <3>2 DEF PermitOf
  <2> QED BY <2>1 DEF Delivery!Init
<1>2. IInv /\ FreshInv /\ [Next]_vars => [Delivery!Next]_(Delivery!vars)
  BY StepRefines DEF Delivery!vars, Permits, Verdicts
<1> QED BY <1>1, <1>2, FreshHolds, PTL DEF Spec, ImplementsDelivery, Delivery!Spec
=============================================================================
