----------------------------- MODULE StateLedger -----------------------------
(***************************************************************************)
(* The ledger of claims on the Git branch `state` (notifications/          *)
(* state_store.py) and the workflow jobs that share it: factual digests,   *)
(* workflow failure notices and publication recoveries claim a message     *)
(* there before they act, and the daily pipelines synchronise their        *)
(* operational files through the same branch.                              *)
(*                                                                         *)
(* Every job starts from a fresh clone, works on its own copy and pushes   *)
(* without force. The branch is the sequence of the trees committed to it; *)
(* a commit is identified by that sequence, so that two jobs that commit   *)
(* the same tree to the same parent make the same commit.                  *)
(***************************************************************************)
EXTENDS Integers, Sequences

CONSTANTS
  Days,        \* SEC days a digest may be about
  Runs,        \* workflow runs a notice or a recovery may be about
  Claimants,   \* jobs that claim a message before they act on it
  Task,        \* Task[w]: the message of claimant w
  Syncers,     \* jobs that run `state_store sync`
  Carriers,    \* those whose files include alerts.sqlite (daily.yml)
  Nobody       \* no job

Digests    == {"digest"} \X Days
Notices    == {"notice"} \X Runs
Recoveries == {"recovery"} \X Runs
Messages   == Digests \cup Notices \cup Recoveries
Writers    == Claimants \cup Syncers

ASSUME DaysAssumption == Days \subseteq Nat
ASSUME JobsAssumption ==
  /\ Task \in [Claimants -> Messages]
  /\ Carriers \subseteq Syncers
  /\ Claimants \cap Syncers = {}
  /\ Nobody \notin Writers

VARIABLES
  remote,    \* the trees on the branch, oldest first; <<>> is no branch
  pc,        \* what each job does next
  base,      \* the commit a job's store is at
  local,     \* the tree a job would commit
  answer,    \* the provider's answer, not recorded yet
  contacts   \* ghost: times somebody acted on a message

vars == <<remote, pc, base, local, answer, contacts>>

Answers  == {"SENT", "FAILED", "UNCERTAIN"}
Statuses == {"NONE", "CLAIMED"} \cup Answers
Rows     == [status : Statuses, lease : Writers \cup {Nobody}]
NoRow    == [status |-> "NONE", lease |-> Nobody]

\* alerts.sqlite, and who wrote the other operational files.
Trees == [ledger : [Messages -> Rows], files : Writers \cup {Nobody}]
Empty == [ledger |-> [m \in Messages |-> NoRow], files |-> Nobody]

\* The tree of a commit.
Top(commit) == IF commit = <<>> THEN Empty ELSE commit[Len(commit)]

Status(m) == Top(remote).ledger[m].status

\* The rows that carry a unique claim_id.
Leased == Digests \cup Recoveries

TypeOK ==
  /\ remote \in Seq(Trees)
  /\ pc \in [Writers -> {"start", "ready", "claimed", "reserved", "answered",
                         "recorded", "checked", "done"}]
  /\ base \in [Writers -> Seq(Trees)]
  /\ local \in [Writers -> Trees]
  /\ answer \in [Writers -> Answers]
  /\ contacts \in [Messages -> Nat]

Init ==
  /\ remote = <<>>
  /\ pc = [w \in Writers |-> "start"]
  /\ base = [w \in Writers |-> <<>>]
  /\ local = [w \in Writers |-> Empty]
  /\ answer = [w \in Writers |-> "UNCERTAIN"]
  /\ contacts = [m \in Messages |-> 0]

\* The job is over and its workspace is gone.
Finish(w) ==
  /\ pc' = [pc EXCEPT ![w] = "done"]
  /\ base' = [base EXCEPT ![w] = <<>>]
  /\ local' = [local EXCEPT ![w] = Empty]
  /\ answer' = [answer EXCEPT ![w] = "UNCERTAIN"]

Goto(w, label) == pc' = [pc EXCEPT ![w] = label]

-----------------------------------------------------------------------------
(* Restoring and pushing *)

\* restore: a fresh clone of the branch, at depth one.
Restore(w) ==
  /\ pc[w] = "start"
  /\ base' = [base EXCEPT ![w] = remote]
  /\ local' = [local EXCEPT ![w] = Top(remote)]
  /\ Goto(w, "ready")
  /\ UNCHANGED <<remote, answer, contacts>>

\* Mutant: git push --force.
PushForced(w) ==
  /\ remote' = Append(base[w], local[w])
  /\ base' = [base EXCEPT ![w] = Append(base[w], local[w])]

\* The push succeeds: it is a fast-forward, or the branch is at this commit.
PushAccepted(w) ==
  /\ \/ remote = base[w] /\ remote' = Append(base[w], local[w])
     \/ remote = Append(base[w], local[w]) /\ UNCHANGED remote
  /\ base' = [base EXCEPT ![w] = Append(base[w], local[w])]

\* _git raises: the push was rejected or never arrived, or it arrived and the
\* answer was lost.
PushFailed(w) ==
  \/ UNCHANGED remote
  \/ remote = base[w] /\ remote' = Append(base[w], local[w])

-----------------------------------------------------------------------------
(* The jobs that claim *)

\* Mutant: only the same day counts.
BlockedBySameDay(m, ledger) == ledger[m].status # "NONE"

\* A claim is refused when its row exists; for a digest, when the row of any
\* day not before it does.
Blocked(m, ledger) ==
  \/ ledger[m].status # "NONE"
  \/ /\ m \in Digests
     /\ \E d \in Days : d >= m[2] /\ ledger[<<"digest", d>>].status # "NONE"

\* Mutant: no row has a claim_id.
LeaseShared(w) == {w, Nobody}

\* What tells a claim from the same claim of another job: a fresh uuid4 in
\* digests and recoveries, in a notice only the instant it was made.
LeaseOf(w) == IF Task[w] \in Leased THEN {w} ELSE {w, Nobody}

\* The transaction of deliver_digest, send_notice and claim_recovery that
\* inserts the claim, in the job's own copy.
Claim(w) ==
  LET m == Task[w] IN
  /\ pc[w] = "ready"
  /\ IF Blocked(m, local[w].ledger)
     THEN Finish(w)
     ELSE /\ \E l \in LeaseOf(w) :
               local' = [local EXCEPT ![w].ledger[m] = [status |-> "CLAIMED", lease |-> l]]
          /\ Goto(w, "claimed")
          /\ UNCHANGED <<base, answer>>
  /\ UNCHANGED <<remote, contacts>>

\* Mutant: the exception of the push is swallowed.
PushClaimSwallowed(w) ==
  /\ pc[w] = "claimed"
  /\ \/ PushAccepted(w)
     \/ PushFailed(w) /\ UNCHANGED base
  /\ Goto(w, "reserved")
  /\ UNCHANGED <<local, answer, contacts>>

\* persist (save): the job goes on only if the push succeeded.
PushClaim(w) ==
  /\ pc[w] = "claimed"
  /\ \/ PushAccepted(w) /\ Goto(w, "reserved") /\ UNCHANGED <<local, answer>>
     \/ PushFailed(w) /\ Finish(w)
  /\ UNCHANGED contacts

\* The one call to the provider of a digest or notice; an exception is an
\* UNCERTAIN answer.
Send(w) ==
  /\ pc[w] = "reserved"
  /\ Task[w] \notin Recoveries
  /\ contacts' = [contacts EXCEPT ![Task[w]] = @ + 1]
  /\ \E r \in Answers : answer' = [answer EXCEPT ![w] = r]
  /\ Goto(w, "answered")
  /\ UNCHANGED <<remote, base, local>>

\* claim_recovery returns True: the saved artifact may be deployed.
Authorise(w) ==
  /\ pc[w] = "reserved"
  /\ Task[w] \in Recoveries
  /\ contacts' = [contacts EXCEPT ![Task[w]] = @ + 1]
  /\ Finish(w)
  /\ UNCHANGED remote

\* The second transaction: the answer goes over the claim.
Record(w) ==
  /\ pc[w] = "answered"
  /\ local' = [local EXCEPT ![w].ledger[Task[w]].status = answer[w]]
  /\ Goto(w, "recorded")
  /\ UNCHANGED <<remote, base, answer, contacts>>

\* The second persist; when it fails the claim stays on the branch as it was.
PushResult(w) ==
  /\ pc[w] = "recorded"
  /\ \/ remote = base[w] /\ remote' = Append(base[w], local[w])
     \/ remote = Append(base[w], local[w]) /\ UNCHANGED remote
     \/ UNCHANGED remote
  /\ Finish(w)
  /\ UNCHANGED contacts

-----------------------------------------------------------------------------
(* The jobs that synchronise operational files *)

\* persist_operational up to the commit: a second clone must be at the head the
\* job started from; a carrier replaces the ledger by its own copy.
SyncCheck(w) ==
  /\ pc[w] = "ready"
  /\ IF remote # base[w]
     THEN Finish(w)
     ELSE /\ base' = [base EXCEPT ![w] = remote]
          /\ local' = [local EXCEPT
               ![w].ledger = IF w \in Carriers THEN @ ELSE Top(remote).ledger,
               ![w].files = w]
          /\ Goto(w, "checked")
          /\ UNCHANGED answer
  /\ UNCHANGED <<remote, contacts>>

\* _commit_and_push: nothing staged is no commit; otherwise one push.
PushSync(w) ==
  /\ pc[w] = "checked"
  /\ \/ UNCHANGED remote
     \/ remote = base[w] /\ remote' = Append(base[w], local[w])
  /\ Finish(w)
  /\ UNCHANGED contacts

\* The runner is lost, or a validation raises, between any two steps.
Crash(w) ==
  /\ pc[w] \notin {"start", "done"}
  /\ Finish(w)
  /\ UNCHANGED <<remote, contacts>>

-----------------------------------------------------------------------------
ClaimantStep(w) ==
  \/ Claim(w) \/ PushClaim(w) \/ Send(w) \/ Authorise(w) \/ Record(w) \/ PushResult(w)

Next ==
  \/ \E w \in Writers : Restore(w) \/ Crash(w)
  \/ \E w \in Claimants : ClaimantStep(w)
  \/ \E w \in Syncers : SyncCheck(w) \/ PushSync(w)

Spec == Init /\ [][Next]_vars

-----------------------------------------------------------------------------
(* What the branch promises *)

\* A digest is sent, and a recovery authorised, at most once, whichever jobs
\* race for it, crash or lose the answer of a push (deliver_digest, claim_recovery).
\* Not said of notices: without a claim_id two jobs that claim one at the same
\* instant make the same commit, and both send.
AtMostOnce == \A m \in Leased : contacts[m] <= 1

\* The claim of whatever somebody acted on is on the branch and stays there:
\* no other job's files, however old the copy they came from, take it away
\* (deliver_digest: "MUST succeed before the only possible provider call").
ClaimOutlivesSend == \A m \in Messages : contacts[m] > 0 => Status(m) # "NONE"

\* The branch only grows, keeps every claim and never revises an outcome
\* (_commit_and_push: "never force-pushed over another writer").
BranchKeepsEvidence ==
  [][/\ remote' # remote => Len(remote') = Len(remote) + 1
     /\ \A m \in Messages :
          /\ Status(m) # "NONE" => Status(m)' # "NONE"
          /\ Status(m) \in Answers => Status(m)' = Status(m)]_vars

\* Digests are claimed in the order of their days: none once a later day has a
\* claim, whatever copy the claimant started from (deliver_digest, MAX(sec_day)).
DaysClaimedInOrder ==
  [][\A d \in Days :
       Status(<<"digest", d>>) = "NONE" /\ Status(<<"digest", d>>)' # "NONE"
         => \A e \in Days : e > d => Status(<<"digest", e>>) = "NONE"]_vars

\* The branch as an implementation of at-most-once delivery.
PermitOf(m) ==
  IF Status(m) = "NONE" THEN "free"
  ELSE IF contacts[m] > 0 THEN "used"
  ELSE IF \E w \in Claimants : Task[w] = m /\ pc[w] = "reserved" THEN "held"
  ELSE "void"

Delivery == INSTANCE AtMostOnceDelivery WITH
  Messages <- Leased,
  permit   <- [m \in Leased |-> PermitOf(m)],
  verdict  <- [m \in Leased |-> Status(m)]

\* The leased claims of the branch are at-most-once deliveries.
ImplementsDelivery == Delivery!Spec
=============================================================================
