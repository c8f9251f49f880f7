------------------------------- MODULE Outbox -------------------------------
(***************************************************************************)
(* The durable alert outbox (notifications/outbox.py, SQLiteOutbox) as the *)
(* processes that share its SQLite file use it.                            *)
(*                                                                         *)
(* A process opens the ledger, delivers candidates one after the other and *)
(* closes it; every BEGIN IMMEDIATE transaction is one action, so that     *)
(* other processes, crashes and the clock come between any two of them.    *)
(* A message is a candidate key on a channel: one row of `deliveries`.     *)
(* The provider is external: whether it accepted a message is a ghost that *)
(* the ledger never sees.                                                  *)
(***************************************************************************)
EXTENDS Integers, Sequences, FiniteSets

CONSTANTS
  Procs,          \* processes that open the same ledger file
  Keys,           \* idempotency keys of the candidates
  Channels,       \* notification channels
  Facts,          \* Facts[k]: what the candidate of key k says
  Lenient,        \* channels whose adapter calls a provider 5xx FAILED
  NoState,        \* AlertCandidate.state is None
  NoDelta,        \* AlertCandidate.absolute_score_delta is None
  NoJob,          \* no candidate is being delivered
  Cooldown,       \* cooldown_days, in ticks of the clock
  MaxTime,        \* bound on the clock
  MaxCrashes,     \* bound on the processes that stop without closing
  MaxCorruptions  \* bound on the times the file is damaged at rest

ASSUME KeysAssumption == Keys # {} /\ Channels # {} /\ Lenient \subseteq Channels
ASSUME CooldownAssumption == Cooldown \in Nat
ASSUME BoundsAssumption ==
  MaxTime \in Nat /\ MaxCrashes \in Nat /\ MaxCorruptions \in Nat

VARIABLES
  clock,       \* datetime.now(UTC)
  candidates,  \* keys stored in table candidates
  deliveries,  \* table deliveries: message -> [status, at]; "NONE" is no row
  history,     \* table delivery_history: message -> statuses in id order
  file,        \* the file at rest is "sound" or "damaged"
  pc,          \* what each process does next
  job,         \* the message a process is delivering
  at,          \* the instant a process was started with
  withheld,    \* the candidate being delivered has suppression_reasons
  answer,      \* the channel's SendResult, not recorded yet
  seen,        \* CLAIMED rows selected by _recover_abandoned_claims
  recovered    \* recovered_path is not None

VARIABLES      \* ghosts and bounds
  contacts,    \* contacts[m]: times the provider was asked to deliver m
  accepted,    \* messages the provider accepted since the ledger began
  generation,  \* ledgers quarantined so far
  crashes      \* processes stopped so far

ledger == <<candidates, deliveries, history, file>>
local  == <<job, at, withheld, answer, seen, recovered>>
world  == <<contacts, accepted>>
bounds == <<generation, crashes>>
vars   == <<clock, ledger, pc, local, world, bounds>>

Messages == Keys \X Channels
Answers  == {"SENT", "FAILED", "UNCERTAIN"}
Terminal == Answers \cup {"SUPPRESSED"}
Statuses == {"NONE", "CLAIMED"} \cup Terminal
NoRow    == [status |-> "NONE", at |-> 0]

Status(m)    == deliveries[m].status
Row(s, t)    == [status |-> s, at |-> t]
Busy(p)      == pc[p] \in {"claimed", "answered"}  \* between claim and record
Holds(p, m)  == Busy(p) /\ job[p] = m

TypeOK ==
  /\ clock \in 0..MaxTime
  /\ candidates \subseteq Keys
  /\ deliveries \in [Messages -> [status : Statuses, at : 0..MaxTime]]
  /\ history \in [Messages -> Seq(Statuses)]
  /\ file \in {"sound", "damaged"}
  /\ pc \in [Procs -> {"down", "recovering", "idle", "claimed", "answered"}]
  /\ job \in [Procs -> Messages \cup {NoJob}]
  /\ \A p \in Procs : Busy(p) => job[p] \in Messages
  /\ at \in [Procs -> 0..MaxTime]
  /\ withheld \in [Procs -> BOOLEAN]
  /\ answer \in [Procs -> Answers]
  /\ seen \in [Procs -> SUBSET Messages]
  /\ recovered \in [Procs -> BOOLEAN]
  /\ contacts \in [Messages -> Nat]
  /\ accepted \subseteq Messages
  /\ generation \in 0..MaxCorruptions
  /\ crashes \in 0..MaxCrashes

Init ==
  /\ clock = 0
  /\ candidates = {}
  /\ deliveries = [m \in Messages |-> NoRow]
  /\ history = [m \in Messages |-> <<>>]
  /\ file = "sound"
  /\ pc = [p \in Procs |-> "down"]
  /\ job = [p \in Procs |-> NoJob]
  /\ at = [p \in Procs |-> 0]
  /\ withheld = [p \in Procs |-> FALSE]
  /\ answer = [p \in Procs |-> "UNCERTAIN"]
  /\ seen = [p \in Procs |-> {}]
  /\ recovered = [p \in Procs |-> FALSE]
  /\ contacts = [m \in Messages |-> 0]
  /\ accepted = {}
  /\ generation = 0
  /\ crashes = 0

\* deliver has returned: its locals are gone.
Return(p) ==
  /\ pc' = [pc EXCEPT ![p] = "idle"]
  /\ job' = [job EXCEPT ![p] = NoJob]
  /\ withheld' = [withheld EXCEPT ![p] = FALSE]
  /\ answer' = [answer EXCEPT ![p] = "UNCERTAIN"]
  /\ UNCHANGED <<at, seen, recovered>>

\* The process is gone, with everything it had only in memory.
Stop(p) ==
  /\ pc' = [pc EXCEPT ![p] = "down"]
  /\ job' = [job EXCEPT ![p] = NoJob]
  /\ withheld' = [withheld EXCEPT ![p] = FALSE]
  /\ answer' = [answer EXCEPT ![p] = "UNCERTAIN"]
  /\ at' = [at EXCEPT ![p] = 0]
  /\ seen' = [seen EXCEPT ![p] = {}]
  /\ recovered' = [recovered EXCEPT ![p] = FALSE]

-----------------------------------------------------------------------------
(* Opening the ledger *)

\* Mutant: __init__ forgets _recover_abandoned_claims.
OpenWithoutRecovery(p) ==
  /\ pc[p] = "down"
  /\ file = "sound"
  /\ at' = [at EXCEPT ![p] = clock]
  /\ pc' = [pc EXCEPT ![p] = "idle"]
  /\ UNCHANGED <<clock, ledger, job, withheld, answer, seen, recovered, world, bounds>>

\* __init__ on a sound file: tables exist, and the CLAIMED rows are selected
\* before the transaction that resolves them.
OpenLedger(p) ==
  LET open == {m \in Messages : Status(m) = "CLAIMED"} IN
  /\ pc[p] = "down"
  /\ file = "sound"
  /\ at' = [at EXCEPT ![p] = clock]
  /\ seen' = [seen EXCEPT ![p] = open]
  /\ pc' = [pc EXCEPT ![p] = IF open = {} THEN "idle" ELSE "recovering"]
  /\ UNCHANGED <<clock, ledger, job, withheld, answer, recovered, world, bounds>>

\* Mutant: abandoned claims are released for another attempt.
RecoverByRelease(p) ==
  LET stale == {m \in seen[p] : Status(m) = "CLAIMED"} IN
  /\ pc[p] = "recovering"
  /\ deliveries' = [m \in Messages |-> IF m \in stale THEN NoRow ELSE deliveries[m]]
  /\ seen' = [seen EXCEPT ![p] = {}]
  /\ pc' = [pc EXCEPT ![p] = "idle"]
  /\ UNCHANGED <<clock, candidates, history, file, job, at, withheld, answer,
                 recovered, world, bounds>>

\* _recover_abandoned_claims: each selected row that is still CLAIMED becomes
\* UNCERTAIN; a row recorded meanwhile is left alone.
RecoverAbandonedClaims(p) ==
  LET stale == {m \in seen[p] : Status(m) = "CLAIMED"} IN
  /\ pc[p] = "recovering"
  /\ deliveries' = [m \in Messages |->
       IF m \in stale THEN Row("UNCERTAIN", clock) ELSE deliveries[m]]
  /\ history' = [m \in Messages |->
       IF m \in stale THEN Append(history[m], "UNCERTAIN") ELSE history[m]]
  /\ seen' = [seen EXCEPT ![p] = {}]
  /\ pc' = [pc EXCEPT ![p] = "idle"]
  /\ UNCHANGED <<clock, candidates, file, job, at, withheld, answer, recovered,
                 world, bounds>>

\* __init__ on a damaged file: it is moved aside with its WAL and an empty
\* ledger takes its place; only this process knows.
QuarantineLedger(p) ==
  /\ pc[p] = "down"
  /\ file = "damaged"
  /\ file' = "sound"
  /\ candidates' = {}
  /\ deliveries' = [m \in Messages |-> NoRow]
  /\ history' = [m \in Messages |-> <<>>]
  /\ at' = [at EXCEPT ![p] = clock]
  /\ recovered' = [recovered EXCEPT ![p] = TRUE]
  /\ pc' = [pc EXCEPT ![p] = "idle"]
  /\ accepted' = {}
  /\ UNCHANGED <<clock, job, withheld, answer, seen, contacts, bounds>>

-----------------------------------------------------------------------------
(* Delivering a candidate *)

\* put_candidate: INSERT OR IGNORE, committed on its own (the preview of
\* send-alerts does nothing else, and deliver may stop right after it).
PutCandidate(p, k) ==
  /\ pc[p] = "idle"
  /\ candidates' = candidates \cup {k}
  /\ UNCHANGED <<clock, deliveries, history, file, pc, local, world, bounds>>

\* _cooldown_override.
CooldownOverride(k, prev) ==
  LET c == Facts[k]
      q == Facts[prev]
      moved == c.score - q.score
  IN \/ c.state # NoState /\ c.state # q.state
     \/ c.severity # q.severity
     \/ c.important /\ ~q.important
     \/ c.delta # NoDelta /\ (c.delta >= 7 \/ c.delta <= -7)
     \/ c.delta = NoDelta /\ (moved >= 7 \/ moved <= -7)

SameAlert(k, l) == Facts[k].issuer = Facts[l].issuer /\ Facts[k].type = Facts[l].type

\* Mutant: the row exactly one cooldown old is left out.
RecentlySentStrict(k, ch, t) ==
  {l \in candidates : /\ SameAlert(k, l)
                      /\ Status(<<l, ch>>) = "SENT"
                      /\ deliveries[<<l, ch>>].at > t - Cooldown}

\* The rows _latest_sent orders by attempted_at, and the ones it may return.
RecentlySent(k, ch, t) ==
  {l \in candidates : /\ SameAlert(k, l)
                      /\ Status(<<l, ch>>) = "SENT"
                      /\ deliveries[<<l, ch>>].at >= t - Cooldown}

LatestSent(k, ch, t) ==
  LET recent == RecentlySent(k, ch, t) IN
  {l \in recent : \A o \in recent : deliveries[<<o, ch>>].at <= deliveries[<<l, ch>>].at}

\* claim writes a row and its history entry in one transaction.
WriteClaim(p, m, s) ==
  /\ deliveries' = [deliveries EXCEPT ![m] = Row(s, at[p])]
  /\ history' = [history EXCEPT ![m] = Append(@, s)]

\* deliver goes on with a claim it holds.
Proceed(p, m, w) ==
  /\ pc' = [pc EXCEPT ![p] = "claimed"]
  /\ job' = [job EXCEPT ![p] = m]
  /\ withheld' = [withheld EXCEPT ![p] = w]

\* Mutant: the quarantine is forgotten when the claim is decided.
ClaimWonRegardless(p, k, ch, w) ==
  LET m == <<k, ch>> IN
  /\ Status(m) = "NONE"
  /\ \/ LatestSent(k, ch, at[p]) = {}
     \/ \E prev \in LatestSent(k, ch, at[p]) : CooldownOverride(k, prev)
  /\ WriteClaim(p, m, "CLAIMED")
  /\ Proceed(p, m, w)

\* The claim is won: this process alone goes on to the channel.
ClaimWon(p, k, ch, w) ==
  LET m == <<k, ch>> IN
  /\ Status(m) = "NONE"
  /\ ~recovered[p]
  /\ \/ LatestSent(k, ch, at[p]) = {}
     \/ \E prev \in LatestSent(k, ch, at[p]) : CooldownOverride(k, prev)
  /\ WriteClaim(p, m, "CLAIMED")
  /\ Proceed(p, m, w)

\* Mutant: deliver does not look at the status claim returned.
ClaimInCooldownSends(p, k, ch, w) ==
  LET m == <<k, ch>> IN
  /\ Status(m) = "NONE"
  /\ ~recovered[p]
  /\ \E prev \in LatestSent(k, ch, at[p]) : ~CooldownOverride(k, prev)
  /\ WriteClaim(p, m, "SUPPRESSED")
  /\ Proceed(p, m, w)

\* An equal alert was sent within the cooldown and nothing overrides it.
ClaimInCooldown(p, k, ch, w) ==
  LET m == <<k, ch>> IN
  /\ Status(m) = "NONE"
  /\ ~recovered[p]
  /\ \E prev \in LatestSent(k, ch, at[p]) : ~CooldownOverride(k, prev)
  /\ WriteClaim(p, m, "SUPPRESSED")
  /\ UNCHANGED <<pc, job, withheld>>

\* This process quarantined the ledger: what it held is unknown.
ClaimAfterQuarantine(p, k, ch, w) ==
  LET m == <<k, ch>> IN
  /\ Status(m) = "NONE"
  /\ recovered[p]
  /\ WriteClaim(p, m, "UNCERTAIN")
  /\ UNCHANGED <<pc, job, withheld>>

\* Mutant: a second owner takes an open claim over.
ClaimTakenOver(p, k, ch, w) ==
  LET m == <<k, ch>> IN
  /\ Status(m) = "CLAIMED"
  /\ WriteClaim(p, m, "CLAIMED")
  /\ Proceed(p, m, w)

\* A second owner meets an open claim and declares it ambiguous.
ClaimContended(p, k, ch, w) ==
  LET m == <<k, ch>> IN
  /\ Status(m) = "CLAIMED"
  /\ WriteClaim(p, m, "UNCERTAIN")
  /\ UNCHANGED <<pc, job, withheld>>

\* The message already has its outcome.
ClaimSettled(p, k, ch, w) ==
  /\ Status(<<k, ch>>) \in Terminal
  /\ UNCHANGED <<deliveries, history, pc, job, withheld>>

\* deliver up to and including claim, for a candidate with or without
\* suppression_reasons.
Claim(p, k, ch, w) ==
  /\ pc[p] = "idle"
  /\ candidates' = candidates \cup {k}
  /\ \/ ClaimWon(p, k, ch, w)
     \/ ClaimInCooldown(p, k, ch, w)
     \/ ClaimAfterQuarantine(p, k, ch, w)
     \/ ClaimContended(p, k, ch, w)
     \/ ClaimSettled(p, k, ch, w)
  /\ UNCHANGED <<clock, file, at, answer, seen, recovered, world, bounds>>

\* _suppress_claim: the UPDATE asks for a CLAIMED row, the history entry is
\* appended whether or not it found one.
SuppressClaim(p) ==
  LET m == job[p] IN
  /\ pc[p] = "claimed"
  /\ withheld[p]
  /\ deliveries' = IF Status(m) = "CLAIMED"
                   THEN [deliveries EXCEPT ![m].status = "SUPPRESSED"]
                   ELSE deliveries
  /\ history' = [history EXCEPT ![m] = Append(@, "SUPPRESSED")]
  /\ Return(p)
  /\ UNCHANGED <<clock, candidates, file, world, bounds>>

\* channel.claim refuses (FAILED) or raises (UNCERTAIN): no provider call.
ChannelRefuses(p) ==
  /\ pc[p] = "claimed"
  /\ ~withheld[p]
  /\ \E r \in {"FAILED", "UNCERTAIN"} : answer' = [answer EXCEPT ![p] = r]
  /\ pc' = [pc EXCEPT ![p] = "answered"]
  /\ UNCHANGED <<clock, ledger, job, at, withheld, seen, recovered, world, bounds>>

\* Mutant: an exception of any adapter is called FAILED.
RepliesWithFailedTimeouts(ch) ==
  {r \in [taken : BOOLEAN, says : Answers] : r.says = "SENT" => r.taken}

\* What the adapters make of the provider's reply, with what really happened:
\* SENT needs a 2xx with a receipt; a 2xx without one, an exception and (unless
\* the adapter is lenient) a 5xx are UNCERTAIN; a 4xx is FAILED.
Replies(ch) ==
  {r \in [taken : BOOLEAN, says : Answers] :
     /\ r.says = "SENT" => r.taken
     /\ r.says = "FAILED" /\ r.taken => ch \in Lenient}

\* channel.send: the one call to the provider.
Send(p) ==
  LET m == job[p] IN
  /\ pc[p] = "claimed"
  /\ ~withheld[p]
  /\ contacts' = [contacts EXCEPT ![m] = @ + 1]
  /\ \E reply \in Replies(m[2]) :
       /\ accepted' = IF reply.taken THEN accepted \cup {m} ELSE accepted
       /\ answer' = [answer EXCEPT ![p] = reply.says]
  /\ pc' = [pc EXCEPT ![p] = "answered"]
  /\ UNCHANGED <<clock, ledger, job, at, withheld, seen, recovered, bounds>>

\* Mutant: the UPDATE of record_result does not ask for a CLAIMED row.
RecordUnguarded(p) ==
  LET m == job[p] IN
  /\ pc[p] = "answered"
  /\ deliveries' = [deliveries EXCEPT ![m] = Row(answer[p], at[p])]
  /\ history' = [history EXCEPT ![m] = Append(@, answer[p])]
  /\ Return(p)
  /\ UNCHANGED <<clock, candidates, file, world, bounds>>

\* record_result: the answer is written over an open claim; a claim that was
\* declared ambiguous meanwhile stays so. (A row that is gone would raise.)
RecordResult(p) ==
  LET m == job[p] IN
  /\ pc[p] = "answered"
  /\ \/ /\ Status(m) = "CLAIMED"
        /\ deliveries' = [deliveries EXCEPT ![m] = Row(answer[p], at[p])]
        /\ history' = [history EXCEPT ![m] = Append(@, answer[p])]
     \/ /\ Status(m) # "CLAIMED"
        /\ UNCHANGED <<deliveries, history>>
  /\ Return(p)
  /\ UNCHANGED <<clock, candidates, file, world, bounds>>

-----------------------------------------------------------------------------
(* The end of a process, and what happens to the file between processes *)

\* close: the WAL is checkpointed into the main file.
Close(p) ==
  /\ pc[p] = "idle"
  /\ Stop(p)
  /\ UNCHANGED <<clock, ledger, world, bounds>>

\* The process stops anywhere; what it had not committed is gone.
Crash(p) ==
  /\ pc[p] \notin {"down", "idle"}
  /\ crashes < MaxCrashes
  /\ crashes' = crashes + 1
  /\ Stop(p)
  /\ UNCHANGED <<clock, ledger, world, generation>>

\* The file is damaged while nobody has it open.
DamageFile ==
  /\ \A p \in Procs : pc[p] = "down"
  /\ file = "sound"
  /\ generation < MaxCorruptions
  /\ file' = "damaged"
  /\ generation' = generation + 1
  /\ UNCHANGED <<clock, candidates, deliveries, history, pc, local, world, crashes>>

Tick ==
  /\ clock < MaxTime
  /\ clock' = clock + 1
  /\ UNCHANGED <<ledger, pc, local, world, bounds>>

-----------------------------------------------------------------------------
\* The steps a running process takes by itself.
Work(p) ==
  \/ RecoverAbandonedClaims(p)
  \/ SuppressClaim(p)
  \/ ChannelRefuses(p)
  \/ Send(p)
  \/ RecordResult(p)

Next ==
  \/ \E p \in Procs :
       \/ OpenLedger(p) \/ QuarantineLedger(p)
       \/ \E k \in Keys : PutCandidate(p, k)
       \/ \E k \in Keys, ch \in Channels, w \in BOOLEAN : Claim(p, k, ch, w)
       \/ Work(p)
       \/ Close(p) \/ Crash(p)
  \/ DamageFile
  \/ Tick

Spec == Init /\ [][Next]_vars

\* A started process runs on unless it stops for good, and the ledger is opened
\* again (the daily schedule).
FairSpec ==
  /\ Spec
  /\ \A p \in Procs : WF_vars(Work(p)) /\ WF_vars(OpenLedger(p) \/ QuarantineLedger(p))

-----------------------------------------------------------------------------
(* What the outbox promises *)

\* The provider is asked at most once for each message and each ledger file,
\* whoever opens, crashes or contends: a quarantined ledger costs at most one
\* more request (deliver, claim, _recover_abandoned_claims).
AtMostOnce == \A m \in Messages : contacts[m] <= generation + 1

\* A message the ledger ever called SUPPRESSED, by cooldown or by policy, was
\* never handed to the provider from this ledger, also when another process
\* declared its claim ambiguous first (claim, _suppress_claim).
SuppressedNeverSent ==
  \A m \in Messages :
    (\E i \in 1..Len(history[m]) : history[m][i] = "SUPPRESSED")
      => contacts[m] <= generation

\* The ledger claims only what is known: SENT stands for a message the provider
\* accepted, and FAILED on a channel that tells a refusal from an outage for one
\* that this ledger never got accepted, whichever processes claimed, asked,
\* contended and recorded (deliver, record_result, the adapters' send).
OutcomesAreTrue ==
  \A m \in Messages :
    /\ Status(m) = "SENT" => m \in accepted
    /\ Status(m) = "FAILED" /\ m[2] \notin Lenient => m \notin accepted

\* An outcome is never revised while its ledger lives: no answer that arrives
\* late, no recovery and no second delivery changes a settled row.
OutcomeIsFinal ==
  [][\A m \in Messages :
       Status(m) \in Terminal /\ file = "sound" => Status(m)' = Status(m)]_vars

\* The process that quarantined the ledger reaches no provider
\* (claim: "delivery disabled").
QuarantinerSendsNothing ==
  [][\A m \in Messages :
       contacts'[m] # contacts[m] => \E p \in Procs : Holds(p, m) /\ ~recovered[p]]_vars

\* With one process at a time, two SENT rows of the same alert on a channel
\* within a cooldown are there because the facts of one override another SENT
\* row (claim, _latest_sent, _cooldown_override).
CooldownHonoured ==
  \A ch \in Channels : \A k, l \in Keys :
    LET sent == {x \in Keys : Status(<<x, ch>>) = "SENT"}
        gap  == deliveries[<<k, ch>>].at - deliveries[<<l, ch>>].at
    IN k # l /\ {k, l} \subseteq sent /\ SameAlert(k, l) /\ gap \in 0..Cooldown
         => \E x \in {k, l} : \E prev \in sent \ {x} :
              SameAlert(x, prev) /\ CooldownOverride(x, prev)

\* Every open claim is settled in the end, by its owner, by a second owner or
\* by the next process that opens the ledger.
ClaimsResolve ==
  \A m \in Messages : Status(m) = "CLAIMED" ~> Status(m) # "CLAIMED"

-----------------------------------------------------------------------------
(* Why it keeps them: the inductive invariant *)

EverSuppressed(m) == \E i \in 1..Len(history[m]) : history[m][i] = "SUPPRESSED"

\* A claim has one owner, whose row is in the ledger.
OneOwner ==
  \A p \in Procs : Busy(p) =>
    /\ Status(job[p]) # "NONE"
    /\ \A q \in Procs : Busy(q) /\ job[q] = job[p] => q = p

\* Before its claim, and until its owner sends, a message has cost this ledger
\* no request; the same holds of all of them once the ledger is lost.
Unspent ==
  /\ \A m \in Messages : Status(m) = "NONE" => contacts[m] <= generation
  /\ \A p \in Procs : pc[p] = "claimed" => contacts[job[p]] <= generation
  /\ file = "damaged" => /\ \A p \in Procs : pc[p] = "down"
                         /\ \A m \in Messages : contacts[m] <= generation

OwnershipInv == OneOwner /\ Unspent /\ AtMostOnce

\* No history without a row, and no suppression in that of a claim still owned.
SuppressionInv ==
  /\ \A m \in Messages : Status(m) = "NONE" => history[m] = <<>>
  /\ \A p \in Procs : pc[p] = "claimed" => ~EverSuppressed(job[p])
  /\ \A m \in Messages : EverSuppressed(m) => contacts[m] <= generation

\* An answer SENT comes from a provider that took the owner's message.
TruthInv ==
  /\ \A p \in Procs : pc[p] = "answered" /\ answer[p] = "SENT" => job[p] \in accepted
  /\ \A m \in accepted : contacts[m] > 0
  /\ \A m \in Messages : Status(m) = "SENT" => m \in accepted

\* Only an owner whose row is still open, or was declared ambiguous meanwhile,
\* can get a message accepted, so what is FAILED stays refused.
RefusalInv ==
  /\ \A p \in Procs : Busy(p) => Status(job[p]) \in {"CLAIMED", "UNCERTAIN"}
  /\ \A m \in Messages : Status(m) = "NONE" => m \notin accepted
  /\ \A p \in Procs : pc[p] = "claimed" => job[p] \notin accepted
  /\ \A p \in Procs : pc[p] = "answered" /\ answer[p] = "FAILED" /\ job[p][2] \notin Lenient
       => job[p] \notin accepted
  /\ \A m \in Messages :
       Status(m) = "FAILED" /\ m[2] \notin Lenient => m \notin accepted

IInv == TypeOK /\ OwnershipInv /\ SuppressionInv /\ TruthInv /\ RefusalInv

-----------------------------------------------------------------------------
(* The outbox as an implementation of at-most-once delivery *)

\* The permit of a message, as AtMostOnceDelivery names it.
PermitOf(m) ==
  CASE Status(m) = "NONE" -> "free"
    [] Status(m) # "NONE" /\ contacts[m] > 0 -> "used"
    [] Status(m) # "NONE" /\ contacts[m] <= 0 ->
         IF \E p \in Procs : pc[p] = "claimed" /\ job[p] = m THEN "held" ELSE "void"

Delivery == INSTANCE AtMostOnceDelivery WITH
  permit  <- [m \in Messages |-> PermitOf(m)],
  verdict <- [m \in Messages |-> Status(m)]

\* The outbox implements at-most-once delivery as long as its file is sound.
ImplementsDelivery == Delivery!Spec
=============================================================================
