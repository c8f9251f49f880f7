----------------------------- MODULE OutboxProofs -----------------------------
(***************************************************************************)
(* What is proved of Outbox for every set of processes, keys and channels, *)
(* every cooldown and every number of crashes and corruptions; the         *)
(* refinement and the cooldown state the condition they need.              *)
(***************************************************************************)
EXTENDS Outbox, WellFoundedInduction, TLAPS

\* A row begins without a history.
LEMMA EmptyHistory == <<>> \in Seq(Statuses)
  OBVIOUS

(***************************************************************************)
(* The type invariant.                                                     *)
(***************************************************************************)

\* Return and Stop keep the types of a process's memory.
LEMMA ReturnTyped ==
  ASSUME TypeOK, NEW p \in Procs, Return(p)
  PROVE  /\ pc' \in [Procs -> {"down", "recovering", "idle", "claimed", "answered"}]
         /\ job' \in [Procs -> Messages \cup {NoJob}]
         /\ \A q \in Procs : Busy(q)' => job'[q] \in Messages
         /\ at' \in [Procs -> 0..MaxTime]
         /\ withheld' \in [Procs -> BOOLEAN]
         /\ answer' \in [Procs -> Answers]
         /\ seen' \in [Procs -> SUBSET Messages]
         /\ recovered' \in [Procs -> BOOLEAN]
  BY DEF TypeOK, Return, Answers, Busy

\* A process that stops keeps the types.
LEMMA StopTyped ==
  ASSUME TypeOK, NEW p \in Procs, Stop(p)
  PROVE  /\ pc' \in [Procs -> {"down", "recovering", "idle", "claimed", "answered"}]
         /\ job' \in [Procs -> Messages \cup {NoJob}]
         /\ \A q \in Procs : Busy(q)' => job'[q] \in Messages
         /\ at' \in [Procs -> 0..MaxTime]
         /\ withheld' \in [Procs -> BOOLEAN]
         /\ answer' \in [Procs -> Answers]
         /\ seen' \in [Procs -> SUBSET Messages]
         /\ recovered' \in [Procs -> BOOLEAN]
  BY BoundsAssumption DEF TypeOK, Stop, Answers, Busy

\* The claims write well-typed rows.
LEMMA ClaimTyped ==
  ASSUME TypeOK, NEW p \in Procs, NEW k \in Keys, NEW ch \in Channels,
         NEW w \in BOOLEAN, Claim(p, k, ch, w)
  PROVE  TypeOK'
  <1>1. <<k, ch>> \in Messages
    BY DEF Messages
  <1>2. ASSUME NEW s \in Statuses, WriteClaim(p, <<k, ch>>, s)
        PROVE  /\ deliveries' \in [Messages -> [status : Statuses, at : 0..MaxTime]]
               /\ history' \in [Messages -> Seq(Statuses)]
    BY <1>1, <1>2 DEF WriteClaim, TypeOK, Row
  <1>3. /\ deliveries' \in [Messages -> [status : Statuses, at : 0..MaxTime]]
        /\ history' \in [Messages -> Seq(Statuses)]
        /\ pc' \in [Procs -> {"down", "recovering", "idle", "claimed", "answered"}]
        /\ job' \in [Procs -> Messages \cup {NoJob}]
        /\ \A q \in Procs : Busy(q)' => job'[q] \in Messages
        /\ withheld' \in [Procs -> BOOLEAN]
    <2>1. CASE ClaimWon(p, k, ch, w)
      BY <1>1, <1>2, <2>1 DEF ClaimWon, Proceed, TypeOK, Statuses, Busy
    <2>2. CASE ClaimInCooldown(p, k, ch, w)
      BY <1>2, <2>2 DEF ClaimInCooldown, TypeOK, Busy, Statuses, Terminal
    <2>3. CASE ClaimAfterQuarantine(p, k, ch, w)
      BY <1>2, <2>3 DEF ClaimAfterQuarantine, TypeOK, Busy, Statuses, Terminal, Answers
    <2>4. CASE ClaimContended(p, k, ch, w)
      BY <1>2, <2>4 DEF ClaimContended, TypeOK, Busy, Statuses, Terminal, Answers
    <2>5. CASE ClaimSettled(p, k, ch, w)
      BY <2>5 DEF ClaimSettled, TypeOK, Busy
    <2>6. QED
      BY <2>1, <2>2, <2>3, <2>4, <2>5 DEF Claim
  <1>4. QED
    BY <1>3 DEF Claim, TypeOK, world, bounds

\* The initial state is typed.
LEMMA TypeInit == Init => TypeOK
  <1> SUFFICES ASSUME Init PROVE TypeOK
    OBVIOUS
  <1>1. NoRow \in [status : Statuses, at : 0..MaxTime]
    BY BoundsAssumption DEF NoRow, Statuses
  <1>2. deliveries \in [Messages -> [status : Statuses, at : 0..MaxTime]]
    BY <1>1 DEF Init
  <1>3. history \in [Messages -> Seq(Statuses)]
    BY EmptyHistory DEF Init
  <1>4. /\ clock \in 0..MaxTime /\ candidates \subseteq Keys /\ file \in {"sound", "damaged"}
        /\ contacts \in [Messages -> Nat] /\ accepted \subseteq Messages
        /\ generation \in 0..MaxCorruptions /\ crashes \in 0..MaxCrashes
    BY BoundsAssumption DEF Init
  <1>5. /\ pc \in [Procs -> {"down", "recovering", "idle", "claimed", "answered"}]
        /\ job \in [Procs -> Messages \cup {NoJob}]
        /\ \A p \in Procs : Busy(p) => job[p] \in Messages
        /\ at \in [Procs -> 0..MaxTime]
        /\ withheld \in [Procs -> BOOLEAN]
        /\ answer \in [Procs -> Answers]
        /\ seen \in [Procs -> SUBSET Messages]
        /\ recovered \in [Procs -> BOOLEAN]
    BY BoundsAssumption DEF Init, Busy, Answers
  <1>6. QED
    BY <1>2, <1>3, <1>4, <1>5 DEF TypeOK

\* Every step keeps the types.
LEMMA TypeNext == TypeOK /\ [Next]_vars => TypeOK'
  <1> SUFFICES ASSUME TypeOK, [Next]_vars PROVE TypeOK'
    OBVIOUS
  <1> USE DEF ledger, local, world, bounds, Busy
  <1>1. ASSUME NEW p \in Procs, OpenLedger(p) PROVE TypeOK'
    BY <1>1 DEF OpenLedger, TypeOK
  <1>2. ASSUME NEW p \in Procs, QuarantineLedger(p) PROVE TypeOK'
    BY <1>2, BoundsAssumption, EmptyHistory DEF QuarantineLedger, TypeOK, NoRow, Statuses
  <1>3. ASSUME NEW p \in Procs, NEW k \in Keys, PutCandidate(p, k) PROVE TypeOK'
    BY <1>3 DEF PutCandidate, TypeOK
  <1>4. ASSUME NEW p \in Procs, NEW k \in Keys, NEW ch \in Channels,
               NEW w \in BOOLEAN, Claim(p, k, ch, w)
        PROVE  TypeOK'
    BY <1>4, ClaimTyped
  <1>5. ASSUME NEW p \in Procs, RecoverAbandonedClaims(p) PROVE TypeOK'
    BY <1>5 DEF RecoverAbandonedClaims, TypeOK, Row, Statuses, Terminal, Answers
  <1>6. ASSUME NEW p \in Procs, SuppressClaim(p) PROVE TypeOK'
    <2>1. job[p] \in Messages /\ "SUPPRESSED" \in Statuses
      BY <1>6 DEF SuppressClaim, TypeOK, Statuses, Terminal
    <2>2. /\ deliveries' \in [Messages -> [status : Statuses, at : 0..MaxTime]]
          /\ history' \in [Messages -> Seq(Statuses)]
      <3>1. Append(history[job[p]], "SUPPRESSED") \in Seq(Statuses)
        BY <2>1 DEF TypeOK
      <3>2. history' \in [Messages -> Seq(Statuses)]
        BY <1>6, <2>1, <3>1 DEF SuppressClaim, TypeOK
      <3>3. deliveries[job[p]] \in [status : Statuses, at : 0..MaxTime]
        BY <2>1 DEF TypeOK
      <3>4. [deliveries[job[p]] EXCEPT !.status = "SUPPRESSED"]
              \in [status : Statuses, at : 0..MaxTime]
        BY <2>1, <3>3
      <3>5. deliveries' \in [Messages -> [status : Statuses, at : 0..MaxTime]]
        BY <1>6, <2>1, <3>4 DEF SuppressClaim, TypeOK
      <3>6. QED
        BY <3>2, <3>5
    <2>3. QED
      BY <1>6, <2>2, ReturnTyped DEF SuppressClaim, TypeOK
  <1>7. ASSUME NEW p \in Procs, ChannelRefuses(p) PROVE TypeOK'
    BY <1>7 DEF ChannelRefuses, TypeOK, Answers
  <1>8. ASSUME NEW p \in Procs, Send(p) PROVE TypeOK'
    <2>1. job[p] \in Messages
      BY <1>8 DEF Send, TypeOK
    <2>2. PICK reply \in Replies(job[p][2]) :
            /\ accepted' = IF reply.taken THEN accepted \cup {job[p]} ELSE accepted
            /\ answer' = [answer EXCEPT ![p] = reply.says]
      BY <1>8 DEF Send
    <2>3. reply.says \in Answers
      BY <2>2 DEF Replies
    <2>4. /\ contacts' \in [Messages -> Nat]
          /\ accepted' \subseteq Messages
          /\ answer' \in [Procs -> Answers]
      <3>1. contacts' \in [Messages -> Nat]
        BY <1>8, <2>1 DEF Send, TypeOK
      <3>2. accepted' \subseteq Messages
        <4>1. accepted' = accepted \cup {job[p]} \/ accepted' = accepted
          BY <2>2, Zenon
        <4>2. QED
          BY <2>1, <4>1 DEF TypeOK
      <3>3. answer' \in [Procs -> Answers]
        BY <2>2, <2>3 DEF TypeOK
      <3>4. QED
        BY <3>1, <3>2, <3>3
    <2>5. QED
      BY <1>8, <2>4 DEF Send, TypeOK
  <1>9. ASSUME NEW p \in Procs, RecordResult(p) PROVE TypeOK'
    <2>1. job[p] \in Messages /\ answer[p] \in Statuses
      BY <1>9 DEF RecordResult, TypeOK, Statuses, Terminal
    <2>2. /\ deliveries' \in [Messages -> [status : Statuses, at : 0..MaxTime]]
          /\ history' \in [Messages -> Seq(Statuses)]
      <3>1. CASE Status(job[p]) = "CLAIMED"
        <4>1. Append(history[job[p]], answer[p]) \in Seq(Statuses)
          BY <2>1 DEF TypeOK
        <4>2. Row(answer[p], at[p]) \in [status : Statuses, at : 0..MaxTime]
          BY <2>1 DEF TypeOK, Row
        <4>3. /\ deliveries' = [deliveries EXCEPT ![job[p]] = Row(answer[p], at[p])]
              /\ history' = [history EXCEPT ![job[p]] = Append(@, answer[p])]
          BY <1>9, <3>1 DEF RecordResult
        <4>4. QED
          BY <4>1, <4>2, <4>3 DEF TypeOK
      <3>2. CASE Status(job[p]) # "CLAIMED"
        BY <1>9, <3>2 DEF RecordResult, TypeOK
      <3>3. QED
        BY <3>1, <3>2
    <2>3. QED
      BY <1>9, <2>2, ReturnTyped DEF RecordResult, TypeOK
  <1>10. ASSUME NEW p \in Procs, Close(p) PROVE TypeOK'
    BY <1>10, StopTyped DEF Close, TypeOK
  <1>11. ASSUME NEW p \in Procs, Crash(p) PROVE TypeOK'
    BY <1>11, StopTyped, BoundsAssumption DEF Crash, TypeOK
  <1>12. CASE DamageFile
    BY <1>12, BoundsAssumption DEF DamageFile, TypeOK
  <1>13. CASE Tick
    BY <1>13, BoundsAssumption DEF Tick, TypeOK
  <1>14. CASE UNCHANGED vars
    BY <1>14 DEF vars, TypeOK
  <1>15. QED
    BY <1>1, <1>2, <1>3, <1>4, <1>5, <1>6, <1>7, <1>8, <1>9, <1>10, <1>11, <1>12,
       <1>13, <1>14 DEF Next, Work

\* Every reachable state of the outbox is well typed.
THEOREM TypeCorrect == Spec => []TypeOK
  BY TypeInit, TypeNext, PTL DEF Spec

(***************************************************************************)
(* Ownership of claims, and the requests they cost.                        *)
(***************************************************************************)

\* No row is claimed to begin with.
LEMMA OwnershipInit == Init => OwnershipInv
  BY BoundsAssumption DEF Init, OwnershipInv, OneOwner, Unspent, AtMostOnce, Busy

\* A claim is the only way to become an owner, and only of a message without a row.
LEMMA ClaimOwnership ==
  ASSUME TypeOK, OwnershipInv, NEW p \in Procs, NEW k \in Keys, NEW ch \in Channels,
         NEW w \in BOOLEAN, Claim(p, k, ch, w)
  PROVE  OwnershipInv'
  <1> DEFINE m == <<k, ch>>
  <1> USE DEF OwnershipInv, OneOwner, Unspent, AtMostOnce, Busy, world, bounds
  <1>1. /\ m \in Messages /\ pc[p] = "idle" /\ file' = file /\ file # "damaged"
        /\ UNCHANGED <<contacts, generation>>
    BY DEF Claim, Messages
  <1>2. ASSUME NEW s \in Statuses, WriteClaim(p, m, s)
        PROVE  \A n \in Messages : Status(n)' = IF n = m THEN s ELSE Status(n)
    BY <1>1, <1>2 DEF WriteClaim, Status, Row, TypeOK
  <1>3. CASE ClaimWon(p, k, ch, w)
    <2>1. \A n \in Messages : Status(n)' = IF n = m THEN "CLAIMED" ELSE Status(n)
      BY <1>2, <1>3 DEF ClaimWon, Statuses
    <2>2. \A q \in Procs : /\ pc'[q] = IF q = p THEN "claimed" ELSE pc[q]
                           /\ job'[q] = IF q = p THEN m ELSE job[q]
      BY <1>3 DEF ClaimWon, Proceed, TypeOK
    <2>3. Status(m) = "NONE"
      BY <1>3 DEF ClaimWon
    <2>4. \A q \in Procs : Busy(q) => job[q] \in Messages /\ job[q] # m
      BY <2>3 DEF TypeOK
    <2>5. contacts[m] <= generation
      BY <1>1, <2>3
    <2>6. ASSUME NEW q \in Procs, Busy(q)'
          PROVE  /\ Status(job[q])' # "NONE"
                 /\ \A r \in Procs : Busy(r)' /\ job'[r] = job'[q] => r = q
      <3>1. CASE q = p
        BY <1>1, <2>1, <2>2, <2>4, <3>1
      <3>2. CASE q # p
        BY <1>1, <2>1, <2>2, <2>4, <2>6, <3>2
      <3>3. QED
        BY <3>1, <3>2
    <2>7. \A q \in Procs : pc'[q] = "claimed" => contacts'[job'[q]] <= generation'
      BY <1>1, <2>2, <2>5
    <2>8. QED
      BY <1>1, <2>1, <2>6, <2>7
  <1>4. CASE \E s \in Terminal : WriteClaim(p, m, s) /\ UNCHANGED <<pc, job>>
    <2>1. PICK s \in Terminal : WriteClaim(p, m, s) /\ UNCHANGED <<pc, job>>
      BY <1>4
    <2>2. s \in Statuses /\ s # "NONE"
      BY DEF Statuses, Terminal, Answers
    <2>3. \A n \in Messages : Status(n)' = IF n = m THEN s ELSE Status(n)
      BY <1>2, <2>1, <2>2
    <2>4. QED
      BY <1>1, <2>1, <2>2, <2>3 DEF TypeOK
  <1>5. CASE ClaimSettled(p, k, ch, w)
    BY <1>1, <1>5 DEF ClaimSettled, Status, TypeOK
  <1>6. QED
    BY <1>3, <1>4, <1>5 DEF Claim, ClaimInCooldown, ClaimAfterQuarantine, ClaimContended,
       Terminal, Answers

\* Every step keeps one owner for a claim, and one request at most for a message of a ledger.
LEMMA OwnershipNext == TypeOK /\ OwnershipInv /\ [Next]_vars => OwnershipInv'
  <1> SUFFICES ASSUME TypeOK, OwnershipInv, [Next]_vars PROVE OwnershipInv'
    OBVIOUS
  <1> USE DEF OwnershipInv, OneOwner, Unspent, AtMostOnce, Busy, Status,
              ledger, local, world, bounds
  <1>1. ASSUME NEW p \in Procs, OpenLedger(p) PROVE OwnershipInv'
    BY <1>1 DEF OpenLedger, TypeOK
  <1>2. ASSUME NEW p \in Procs, QuarantineLedger(p) PROVE OwnershipInv'
    BY <1>2 DEF QuarantineLedger, TypeOK, NoRow
  <1>3. ASSUME NEW p \in Procs, NEW k \in Keys, PutCandidate(p, k) PROVE OwnershipInv'
    BY <1>3 DEF PutCandidate, TypeOK
  <1>4. ASSUME NEW p \in Procs, NEW k \in Keys, NEW ch \in Channels,
               NEW w \in BOOLEAN, Claim(p, k, ch, w)
        PROVE  OwnershipInv'
    BY <1>4, ClaimOwnership
  <1>5. ASSUME NEW p \in Procs, RecoverAbandonedClaims(p) PROVE OwnershipInv'
    BY <1>5 DEF RecoverAbandonedClaims, TypeOK, Row
  <1>6. ASSUME NEW p \in Procs, SuppressClaim(p) PROVE OwnershipInv'
    BY <1>6 DEF SuppressClaim, Return, TypeOK
  <1>7. ASSUME NEW p \in Procs, ChannelRefuses(p) PROVE OwnershipInv'
    BY <1>7 DEF ChannelRefuses, TypeOK
  <1>8. ASSUME NEW p \in Procs, Send(p) PROVE OwnershipInv'
    BY <1>8 DEF Send, TypeOK
  <1>9. ASSUME NEW p \in Procs, RecordResult(p) PROVE OwnershipInv'
    <2>1. \A q \in Procs : Busy(q) => job[q] \in Messages
      BY DEF TypeOK
    <2>2. job[p] \in Messages /\ answer[p] # "NONE" /\ Status(job[p]) # "NONE"
      BY <1>9, <2>1 DEF RecordResult, TypeOK, Answers
    <2>3. \A n \in Messages : Status(n)' = "NONE" <=> Status(n) = "NONE"
      <3>1. CASE Status(job[p]) = "CLAIMED"
        <4>1. deliveries' = [deliveries EXCEPT ![job[p]] = Row(answer[p], at[p])]
          BY <1>9, <3>1 DEF RecordResult
        <4>2. deliveries \in [Messages -> [status : Statuses, at : 0..MaxTime]]
          BY DEF TypeOK
        <4>3. Row(answer[p], at[p]).status = answer[p]
          BY DEF Row
        <4>4. QED
          BY <2>2, <4>1, <4>2, <4>3
      <3>2. CASE Status(job[p]) # "CLAIMED"
        BY <1>9, <3>2 DEF RecordResult
      <3>3. QED
        BY <3>1, <3>2
    <2>4. /\ pc'[p] = "idle" /\ \A q \in Procs \ {p} : pc'[q] = pc[q] /\ job'[q] = job[q]
          /\ UNCHANGED <<contacts, generation, file>>
      BY <1>9 DEF RecordResult, Return, TypeOK
    <2>5. OneOwner'
      BY <2>1, <2>3, <2>4
    <2>6. Unspent' /\ AtMostOnce'
      BY <1>9, <2>1, <2>3, <2>4 DEF RecordResult
    <2>7. QED
      BY <2>5, <2>6
  <1>10. ASSUME NEW p \in Procs, Close(p) PROVE OwnershipInv'
    BY <1>10 DEF Close, Stop, TypeOK
  <1>11. ASSUME NEW p \in Procs, Crash(p) PROVE OwnershipInv'
    BY <1>11 DEF Crash, Stop, TypeOK
  <1>12. CASE DamageFile
    BY <1>12, BoundsAssumption DEF DamageFile, TypeOK
  <1>13. CASE Tick
    BY <1>13 DEF Tick
  <1>14. CASE UNCHANGED vars
    BY <1>14 DEF vars
  <1>15. QED
    BY <1>1, <1>2, <1>3, <1>4, <1>5, <1>6, <1>7, <1>8, <1>9, <1>10, <1>11, <1>12,
       <1>13, <1>14 DEF Next, Work

\* The provider is asked at most once for each message and ledger.
THEOREM ProviderAskedAtMostOnce == Spec => []AtMostOnce
  <1>1. Spec => []OwnershipInv
    BY OwnershipInit, OwnershipNext, TypeCorrect, PTL DEF Spec
  <1>2. OwnershipInv => AtMostOnce
    BY DEF OwnershipInv
  <1>3. QED
    BY <1>1, <1>2, PTL
(***************************************************************************)
(* Suppression: what the history of a message says about its requests.     *)
(***************************************************************************)

\* A history with one more status holds SUPPRESSED when it did, or when that status is.
LEMMA AppendSuppressed ==
  ASSUME NEW h \in Seq(Statuses), NEW s \in Statuses
  PROVE  (\E i \in 1..Len(Append(h, s)) : Append(h, s)[i] = "SUPPRESSED")
           <=> (\E i \in 1..Len(h) : h[i] = "SUPPRESSED") \/ s = "SUPPRESSED"
  <1>1. /\ Len(Append(h, s)) = Len(h) + 1 /\ Len(h) \in Nat
        /\ Append(h, s)[Len(h) + 1] = s
        /\ \A i \in 1..Len(h) : Append(h, s)[i] = h[i]
    OBVIOUS
  <1>2. QED
    BY <1>1

\* A history that grows by one entry s changes what EverSuppressed says of m alone.
LEMMA GrowSuppressed ==
  ASSUME TypeOK, NEW m \in Messages, NEW s \in Statuses,
         history' = [history EXCEPT ![m] = Append(@, s)]
  PROVE  /\ \A n \in Messages :
              EverSuppressed(n)' <=> EverSuppressed(n) \/ (n = m /\ s = "SUPPRESSED")
         /\ \A n \in Messages \ {m} : history'[n] = history[n]
  <1>1. history \in [Messages -> Seq(Statuses)]
    BY DEF TypeOK
  <1>2. /\ history'[m] = Append(history[m], s)
        /\ \A n \in Messages \ {m} : history'[n] = history[n]
    BY <1>1
  <1>3. EverSuppressed(m)' <=> EverSuppressed(m) \/ s = "SUPPRESSED"
    BY <1>1, <1>2, AppendSuppressed DEF EverSuppressed
  <1>4. \A n \in Messages \ {m} : EverSuppressed(n)' <=> EverSuppressed(n)
    BY <1>2 DEF EverSuppressed
  <1>5. QED
    BY <1>2, <1>3, <1>4

\* There is no history to begin with.
LEMMA SuppressionInit == Init => SuppressionInv
  BY BoundsAssumption DEF Init, SuppressionInv, EverSuppressed

\* What is claimed was never suppressed.
LEMMA ClaimSuppression ==
  ASSUME TypeOK, OwnershipInv, SuppressionInv, NEW p \in Procs, NEW k \in Keys,
         NEW ch \in Channels, NEW w \in BOOLEAN, Claim(p, k, ch, w)
  PROVE  SuppressionInv'
  <1> DEFINE m == <<k, ch>>
  <1>1. /\ m \in Messages /\ pc[p] = "idle" /\ UNCHANGED <<contacts, generation>>
    BY DEF Claim, Messages, world, bounds
  <1>2. \A q \in Procs : pc[q] = "claimed" => job[q] \in Messages /\ Status(job[q]) # "NONE"
    BY DEF TypeOK, Busy, OwnershipInv, OneOwner
  <1>3. ASSUME NEW s \in Statuses \ {"NONE"}, WriteClaim(p, m, s)
        PROVE  /\ \A n \in Messages : Status(n)' = "NONE" => Status(n) = "NONE" /\ n # m
               /\ \A n \in Messages \ {m} : history'[n] = history[n]
               /\ \A n \in Messages :
                    EverSuppressed(n)' <=> EverSuppressed(n) \/ (n = m /\ s = "SUPPRESSED")
    <2>1. deliveries \in [Messages -> [status : Statuses, at : 0..MaxTime]]
      BY DEF TypeOK
    <2>2. deliveries' = [deliveries EXCEPT ![m] = Row(s, at[p])] /\ Row(s, at[p]).status = s
      BY <1>3 DEF WriteClaim, Row
    <2>3. \A n \in Messages : Status(n)' = "NONE" => Status(n) = "NONE" /\ n # m
      BY <1>1, <2>1, <2>2 DEF Status
    <2>4. history' = [history EXCEPT ![m] = Append(@, s)]
      BY <1>3 DEF WriteClaim
    <2>5. QED
      BY <1>1, <2>3, <2>4, GrowSuppressed
  <1>4. CASE ClaimWon(p, k, ch, w)
    <2>1. Status(m) = "NONE" /\ WriteClaim(p, m, "CLAIMED") /\ "CLAIMED" \in Statuses \ {"NONE"}
      BY <1>4 DEF ClaimWon, Statuses
    <2>2. ~EverSuppressed(m)
      BY <1>1, <2>1 DEF SuppressionInv, EverSuppressed
    <2>3. \A n \in Messages : EverSuppressed(n)' <=> EverSuppressed(n)
      BY <1>3, <2>1
    <2>4. \A n \in Messages : Status(n)' = "NONE" => history'[n] = <<>>
      BY <1>3, <2>1 DEF SuppressionInv
    <2>5. \A q \in Procs : pc'[q] = "claimed" =>
            (q = p /\ job'[q] = m) \/ (pc[q] = "claimed" /\ job'[q] = job[q])
      BY <1>4 DEF ClaimWon, Proceed, TypeOK
    <2>6. \A q \in Procs : pc'[q] = "claimed" => ~EverSuppressed(job[q])'
      BY <1>1, <1>2, <2>2, <2>3, <2>5 DEF SuppressionInv
    <2>7. QED
      BY <1>1, <2>3, <2>4, <2>6 DEF SuppressionInv
  <1>5. ASSUME NEW s \in Terminal, WriteClaim(p, m, s), UNCHANGED <<pc, job>>,
               s = "SUPPRESSED" => Status(m) = "NONE"
        PROVE  SuppressionInv'
    <2>1. s \in Statuses \ {"NONE"}
      BY DEF Statuses, Terminal, Answers
    <2>2. s = "SUPPRESSED" => contacts[m] <= generation
      BY <1>1, <1>5 DEF OwnershipInv, Unspent
    <2>3. \A n \in Messages :
            EverSuppressed(n)' <=> EverSuppressed(n) \/ (n = m /\ s = "SUPPRESSED")
      BY <1>3, <1>5, <2>1
    <2>4. \A n \in Messages : Status(n)' = "NONE" => history'[n] = <<>>
      BY <1>3, <1>5, <2>1 DEF SuppressionInv
    <2>5. \A q \in Procs : pc'[q] = "claimed" => ~EverSuppressed(job[q])'
      BY <1>2, <1>5, <2>3 DEF SuppressionInv
    <2>6. \A n \in Messages : EverSuppressed(n)' => contacts'[n] <= generation'
      BY <1>1, <2>2, <2>3 DEF SuppressionInv
    <2>7. QED
      BY <2>4, <2>5, <2>6 DEF SuppressionInv
  <1>6. CASE ClaimSettled(p, k, ch, w)
    BY <1>1, <1>6 DEF ClaimSettled, SuppressionInv, Status, EverSuppressed
  <1>7. CASE ClaimInCooldown(p, k, ch, w)
    BY <1>5, <1>7 DEF ClaimInCooldown, Terminal
  <1>8. CASE ClaimAfterQuarantine(p, k, ch, w)
    BY <1>5, <1>8 DEF ClaimAfterQuarantine, Terminal, Answers
  <1>9. CASE ClaimContended(p, k, ch, w)
    BY <1>5, <1>9 DEF ClaimContended, Terminal, Answers
  <1>10. QED
    BY <1>4, <1>6, <1>7, <1>8, <1>9 DEF Claim

\* Every step keeps what was suppressed without owner and without request.
LEMMA SuppressionNext ==
  TypeOK /\ OwnershipInv /\ SuppressionInv /\ [Next]_vars => SuppressionInv'
  <1> SUFFICES ASSUME TypeOK, OwnershipInv, SuppressionInv, [Next]_vars
               PROVE  SuppressionInv'
    OBVIOUS
  <1> USE DEF ledger, local, world, bounds
  <1>a. \A q \in Procs : pc[q] = "claimed" => job[q] \in Messages /\ Status(job[q]) # "NONE"
    BY DEF TypeOK, Busy, OwnershipInv, OneOwner
  <1>1. ASSUME NEW p \in Procs, OpenLedger(p) PROVE SuppressionInv'
    BY <1>1 DEF OpenLedger, TypeOK, SuppressionInv, EverSuppressed, Status
  <1>2. ASSUME NEW p \in Procs, QuarantineLedger(p) PROVE SuppressionInv'
    <2>1. \A q \in Procs : pc'[q] # "claimed"
      BY <1>2 DEF QuarantineLedger, TypeOK, OwnershipInv, Unspent
    <2>2. \A n \in Messages : history'[n] = <<>>
      BY <1>2 DEF QuarantineLedger
    <2>3. \A n \in Messages : ~EverSuppressed(n)'
      BY <2>2 DEF EverSuppressed
    <2>4. QED
      BY <2>1, <2>2, <2>3 DEF SuppressionInv
  <1>3. ASSUME NEW p \in Procs, NEW k \in Keys, PutCandidate(p, k) PROVE SuppressionInv'
    BY <1>3 DEF PutCandidate, SuppressionInv, EverSuppressed, Status
  <1>4. ASSUME NEW p \in Procs, NEW k \in Keys, NEW ch \in Channels,
               NEW w \in BOOLEAN, Claim(p, k, ch, w)
        PROVE  SuppressionInv'
    BY <1>4, ClaimSuppression
  <1>5. ASSUME NEW p \in Procs, RecoverAbandonedClaims(p) PROVE SuppressionInv'
    <2>1. ASSUME NEW n \in Messages
          PROVE  \/ /\ Status(n) = "CLAIMED" /\ Status(n)' = "UNCERTAIN"
                    /\ history'[n] = Append(history[n], "UNCERTAIN")
                 \/ Status(n)' = Status(n) /\ history'[n] = history[n]
      BY <1>5 DEF RecoverAbandonedClaims, Status, Row
    <2>2. ASSUME NEW n \in Messages PROVE EverSuppressed(n)' <=> EverSuppressed(n)
      <3>1. history[n] \in Seq(Statuses) /\ "UNCERTAIN" \in Statuses
        BY DEF TypeOK, Statuses, Terminal, Answers
      <3>2. CASE history'[n] = history[n]
        BY <3>2 DEF EverSuppressed
      <3>3. CASE history'[n] = Append(history[n], "UNCERTAIN")
        BY <3>1, <3>3, AppendSuppressed DEF EverSuppressed
      <3>4. QED
        BY <2>1, <3>2, <3>3
    <2>3. \A q \in Procs : pc'[q] = "claimed" => pc[q] = "claimed" /\ job'[q] = job[q]
      BY <1>5 DEF RecoverAbandonedClaims, TypeOK
    <2>4. UNCHANGED <<contacts, generation>>
      BY <1>5 DEF RecoverAbandonedClaims
    <2>5. \A n \in Messages : Status(n)' = "NONE" => history'[n] = <<>>
      BY <2>1 DEF SuppressionInv
    <2>6. QED
      BY <1>a, <2>2, <2>3, <2>4, <2>5 DEF SuppressionInv
  <1>6. ASSUME NEW p \in Procs, SuppressClaim(p) PROVE SuppressionInv'
    <2>1. /\ pc[p] = "claimed" /\ job[p] \in Messages /\ Status(job[p]) # "NONE"
          /\ contacts[job[p]] <= generation /\ UNCHANGED <<contacts, generation>>
      BY <1>6, <1>a DEF SuppressClaim, OwnershipInv, Unspent
    <2>2. "SUPPRESSED" \in Statuses
      BY DEF Statuses, Terminal
    <2>3. /\ \A n \in Messages : EverSuppressed(n)' <=> EverSuppressed(n) \/ n = job[p]
          /\ \A n \in Messages \ {job[p]} : history'[n] = history[n]
      BY <1>6, <2>1, <2>2, GrowSuppressed DEF SuppressClaim
    <2>4. \A n \in Messages : Status(n)' = "NONE" => Status(n) = "NONE" /\ n # job[p]
      <3>1. deliveries \in [Messages -> [status : Statuses, at : 0..MaxTime]]
        BY DEF TypeOK
      <3>2. CASE Status(job[p]) = "CLAIMED"
        <4>1. deliveries' = [deliveries EXCEPT ![job[p]].status = "SUPPRESSED"]
          BY <1>6, <3>2 DEF SuppressClaim
        <4>2. QED
          BY <2>1, <3>1, <4>1 DEF Status
      <3>3. CASE Status(job[p]) # "CLAIMED"
        BY <1>6, <2>1, <3>3 DEF SuppressClaim, Status
      <3>4. QED
        BY <3>2, <3>3
    <2>5. \A q \in Procs : pc'[q] = "claimed" =>
            pc[q] = "claimed" /\ job'[q] = job[q] /\ job[q] # job[p]
      BY <1>6, <2>1 DEF SuppressClaim, Return, TypeOK, OwnershipInv, OneOwner, Busy
    <2>6. \A q \in Procs : pc'[q] = "claimed" => ~EverSuppressed(job[q])'
      BY <1>a, <2>3, <2>5 DEF SuppressionInv
    <2>7. QED
      BY <2>1, <2>3, <2>4, <2>6 DEF SuppressionInv
  <1>7. ASSUME NEW p \in Procs, ChannelRefuses(p) PROVE SuppressionInv'
    BY <1>7 DEF ChannelRefuses, TypeOK, SuppressionInv, EverSuppressed, Status
  <1>8. ASSUME NEW p \in Procs, Send(p) PROVE SuppressionInv'
    <2>1. /\ pc[p] = "claimed" /\ ~EverSuppressed(job[p]) /\ UNCHANGED <<history, deliveries, job, generation>>
          /\ contacts' = [contacts EXCEPT ![job[p]] = @ + 1]
          /\ \A q \in Procs : pc'[q] = "claimed" => pc[q] = "claimed"
      BY <1>8 DEF Send, SuppressionInv, TypeOK
    <2>2. \A n \in Messages : n # job[p] => contacts'[n] = contacts[n]
      BY <2>1 DEF TypeOK
    <2>3. QED
      BY <2>1, <2>2 DEF SuppressionInv, EverSuppressed, Status
  <1>9. ASSUME NEW p \in Procs, RecordResult(p) PROVE SuppressionInv'
    <2>1. /\ pc[p] = "answered" /\ job[p] \in Messages /\ answer[p] \in Answers
          /\ UNCHANGED <<contacts, generation>>
          /\ \A q \in Procs : pc'[q] = "claimed" => pc[q] = "claimed" /\ job'[q] = job[q]
      BY <1>9 DEF RecordResult, Return, TypeOK, Busy
    <2>2. answer[p] \in Statuses \ {"NONE", "SUPPRESSED"}
      BY <2>1 DEF Statuses, Terminal, Answers
    <2>3. CASE Status(job[p]) = "CLAIMED"
      <3>1. /\ deliveries' = [deliveries EXCEPT ![job[p]] = Row(answer[p], at[p])]
            /\ history' = [history EXCEPT ![job[p]] = Append(@, answer[p])]
        BY <1>9, <2>3 DEF RecordResult
      <3>2. Row(answer[p], at[p]).status = answer[p]
        BY DEF Row
      <3>3. deliveries \in [Messages -> [status : Statuses, at : 0..MaxTime]]
        BY DEF TypeOK
      <3>4. \A n \in Messages : Status(n)' = "NONE" => Status(n) = "NONE" /\ n # job[p]
        BY <2>1, <2>2, <3>1, <3>2, <3>3 DEF Status
      <3>5. /\ \A n \in Messages : EverSuppressed(n)' <=> EverSuppressed(n)
            /\ \A n \in Messages \ {job[p]} : history'[n] = history[n]
        BY <2>1, <2>2, <3>1, GrowSuppressed
      <3>6. QED
        BY <1>a, <2>1, <3>4, <3>5 DEF SuppressionInv
    <2>4. CASE Status(job[p]) # "CLAIMED"
      BY <1>9, <1>a, <2>1, <2>4 DEF RecordResult, SuppressionInv, EverSuppressed, Status
    <2>5. QED
      BY <2>3, <2>4
  <1>10. ASSUME NEW p \in Procs, Close(p) PROVE SuppressionInv'
    BY <1>10 DEF Close, Stop, TypeOK, SuppressionInv, EverSuppressed, Status
  <1>11. ASSUME NEW p \in Procs, Crash(p) PROVE SuppressionInv'
    BY <1>11 DEF Crash, Stop, TypeOK, SuppressionInv, EverSuppressed, Status
  <1>12. CASE DamageFile
    <2>1. generation' = generation + 1 /\ generation \in Nat /\ UNCHANGED <<deliveries, history, pc, job, contacts>>
      BY <1>12, BoundsAssumption DEF DamageFile, TypeOK
    <2>2. \A n \in Messages : contacts[n] \in Nat
      BY DEF TypeOK
    <2>3. QED
      BY <2>1, <2>2 DEF SuppressionInv, EverSuppressed, Status
  <1>13. CASE Tick
    BY <1>13 DEF Tick, SuppressionInv, EverSuppressed, Status
  <1>14. CASE UNCHANGED vars
    BY <1>14 DEF vars, SuppressionInv, EverSuppressed, Status
  <1>15. QED
    BY <1>1, <1>2, <1>3, <1>4, <1>5, <1>6, <1>7, <1>8, <1>9, <1>10, <1>11, <1>12,
       <1>13, <1>14 DEF Next, Work

\* A message its ledger calls SUPPRESSED was not handed to the provider from
\* that ledger (claim, _suppress_claim, record_result).
THEOREM SuppressedIsNeverSent == Spec => []SuppressedNeverSent
  <1>1. Spec => []SuppressionInv
    BY SuppressionInit, SuppressionNext, TypeCorrect, OwnershipInit, OwnershipNext, PTL
       DEF Spec
  <1>2. SuppressionInv => SuppressedNeverSent
    BY DEF SuppressionInv, SuppressedNeverSent, EverSuppressed
  <1>3. QED
    BY <1>1, <1>2, PTL

(***************************************************************************)
(* Truth: a SENT row stands for a request the provider accepted, a FAILED   *)
(* one for a message it did not.                                           *)
(***************************************************************************)

\* Nothing was sent to begin with.
LEMMA TruthInit == Init => TruthInv
  BY DEF Init, TruthInv, Status, NoRow

\* A step that writes no SENT row, asks no provider and takes no answer.
LEMMA TruthKept ==
  ASSUME TruthInv, UNCHANGED <<contacts, accepted>>,
         \A m \in Messages : Status(m)' = "SENT" => Status(m) = "SENT",
         \A p \in Procs : pc'[p] = "answered" /\ answer'[p] = "SENT" =>
           pc[p] = "answered" /\ answer[p] = "SENT" /\ job'[p] = job[p]
  PROVE  TruthInv'
  BY DEF TruthInv

\* Every step keeps an answer SENT that of a provider which took the message.
LEMMA TruthNext == TypeOK /\ OwnershipInv /\ TruthInv /\ [Next]_vars => TruthInv'
  <1> SUFFICES ASSUME TypeOK, OwnershipInv, TruthInv, [Next]_vars PROVE TruthInv'
    OBVIOUS
  <1> USE DEF ledger, local, world, bounds
  <1>1. ASSUME NEW p \in Procs, OpenLedger(p) PROVE TruthInv'
    BY <1>1, TruthKept DEF OpenLedger, TypeOK, Status
  <1>2. ASSUME NEW p \in Procs, QuarantineLedger(p) PROVE TruthInv'
    <2>1. \A q \in Procs : pc'[q] # "answered"
      BY <1>2 DEF QuarantineLedger, TypeOK, OwnershipInv, Unspent
    <2>2. accepted' = {} /\ \A m \in Messages : Status(m)' # "SENT"
      BY <1>2 DEF QuarantineLedger, Status, NoRow
    <2>3. QED
      BY <2>1, <2>2 DEF TruthInv
  <1>3. ASSUME NEW p \in Procs, NEW k \in Keys, PutCandidate(p, k) PROVE TruthInv'
    BY <1>3, TruthKept DEF PutCandidate, Status
  <1>4. ASSUME NEW p \in Procs, NEW k \in Keys, NEW ch \in Channels,
               NEW w \in BOOLEAN, Claim(p, k, ch, w)
        PROVE  TruthInv'
    <2>1. \/ \E s \in {"CLAIMED", "SUPPRESSED", "UNCERTAIN"} : WriteClaim(p, <<k, ch>>, s)
          \/ UNCHANGED deliveries
      BY <1>4 DEF Claim, ClaimWon, ClaimInCooldown, ClaimAfterQuarantine,
         ClaimContended, ClaimSettled
    <2>2. deliveries \in [Messages -> [status : Statuses, at : 0..MaxTime]]
      BY DEF TypeOK
    <2>3. \A m \in Messages : Status(m)' = "SENT" => Status(m) = "SENT"
      <3>1. ASSUME NEW s \in {"CLAIMED", "SUPPRESSED", "UNCERTAIN"}, WriteClaim(p, <<k, ch>>, s)
            PROVE  \A m \in Messages : Status(m)' = "SENT" => Status(m) = "SENT"
        <4>1. deliveries' = [deliveries EXCEPT ![<<k, ch>>] = Row(s, at[p])]
              /\ Row(s, at[p]).status = s /\ s # "SENT"
          BY <3>1 DEF WriteClaim, Row
        <4>2. QED
          BY <2>2, <4>1 DEF Status
      <3>2. QED
        BY <2>1, <3>1 DEF Status
    <2>4. \A q \in Procs : pc'[q] = "answered" => pc[q] = "answered" /\ job'[q] = job[q]
      <3>1. \/ UNCHANGED <<pc, job>>
            \/ /\ pc' = [pc EXCEPT ![p] = "claimed"]
               /\ job' = [job EXCEPT ![p] = <<k, ch>>]
        BY <1>4 DEF Claim, ClaimWon, ClaimInCooldown, ClaimAfterQuarantine,
           ClaimContended, ClaimSettled, Proceed
      <3>2. pc \in [Procs -> {"down", "recovering", "idle", "claimed", "answered"}]
            /\ job \in [Procs -> Messages \cup {NoJob}]
        BY DEF TypeOK
      <3>3. QED
        BY <3>1, <3>2
    <2>5. UNCHANGED <<answer, contacts, accepted>>
      BY <1>4 DEF Claim
    <2>6. QED
      BY <2>3, <2>4, <2>5, TruthKept
  <1>5. ASSUME NEW p \in Procs, RecoverAbandonedClaims(p) PROVE TruthInv'
    <2>1. \A m \in Messages : Status(m)' = "SENT" => Status(m) = "SENT"
      BY <1>5 DEF RecoverAbandonedClaims, Status, Row
    <2>2. QED
      BY <1>5, <2>1, TruthKept DEF RecoverAbandonedClaims, TypeOK
  <1>6. ASSUME NEW p \in Procs, SuppressClaim(p) PROVE TruthInv'
    <2>1. deliveries \in [Messages -> [status : Statuses, at : 0..MaxTime]]
      BY DEF TypeOK
    <2>2. \/ deliveries' = [deliveries EXCEPT ![job[p]].status = "SUPPRESSED"]
          \/ deliveries' = deliveries
      BY <1>6 DEF SuppressClaim
    <2>3. \A m \in Messages : Status(m)' = "SENT" => Status(m) = "SENT"
      BY <2>1, <2>2 DEF Status
    <2>4. QED
      BY <1>6, <2>3, TruthKept DEF SuppressClaim, Return, TypeOK
  <1>7. ASSUME NEW p \in Procs, ChannelRefuses(p) PROVE TruthInv'
    BY <1>7, TruthKept DEF ChannelRefuses, TypeOK, Status
  <1>8. ASSUME NEW p \in Procs, Send(p) PROVE TruthInv'
    <2>1. job[p] \in Messages
      BY <1>8 DEF Send, TypeOK, Busy
    <2>2. PICK reply \in Replies(job[p][2]) :
            /\ accepted' = IF reply.taken THEN accepted \cup {job[p]} ELSE accepted
            /\ answer' = [answer EXCEPT ![p] = reply.says]
      BY <1>8 DEF Send
    <2>3. reply.says = "SENT" => reply.taken
      BY <2>2 DEF Replies
    <2>4. accepted \subseteq accepted' /\ (\A m \in accepted' : m \in accepted \/ m = job[p])
      <3>1. accepted' = accepted \cup {job[p]} \/ accepted' = accepted
        BY <2>2, Zenon
      <3>2. QED
        BY <3>1
    <2>5. reply.says = "SENT" => job[p] \in accepted'
      <3>1. reply.taken => job[p] \in accepted'
        BY <2>2, Zenon
      <3>2. QED
        BY <2>3, <3>1, Zenon
    <2>6. /\ \A q \in Procs \ {p} : pc'[q] = pc[q] /\ answer'[q] = answer[q]
          /\ answer'[p] = reply.says /\ UNCHANGED <<deliveries, job>>
          /\ contacts' = [contacts EXCEPT ![job[p]] = @ + 1]
      BY <1>8, <2>2 DEF Send, TypeOK
    <2>7. \A m \in accepted' : contacts'[m] > 0
      BY <2>1, <2>4, <2>6 DEF TruthInv, TypeOK
    <2>8. \A q \in Procs : pc'[q] = "answered" /\ answer'[q] = "SENT" => job'[q] \in accepted'
      BY <2>4, <2>5, <2>6 DEF TruthInv
    <2>9. QED
      BY <2>4, <2>6, <2>7, <2>8 DEF TruthInv, Status
  <1>9. ASSUME NEW p \in Procs, RecordResult(p) PROVE TruthInv'
    <2>1. job[p] \in Messages /\ answer[p] = "SENT" => job[p] \in accepted
      BY <1>9 DEF RecordResult, TruthInv
    <2>2. \A m \in Messages : Status(m)' = "SENT" => m \in accepted
      <3>1. CASE Status(job[p]) = "CLAIMED"
        <4>1. deliveries' = [deliveries EXCEPT ![job[p]] = Row(answer[p], at[p])]
              /\ Row(answer[p], at[p]).status = answer[p]
          BY <1>9, <3>1 DEF RecordResult, Row
        <4>2. deliveries \in [Messages -> [status : Statuses, at : 0..MaxTime]]
          BY DEF TypeOK
        <4>3. QED
          BY <2>1, <4>1, <4>2 DEF Status, TruthInv
      <3>2. CASE Status(job[p]) # "CLAIMED"
        BY <1>9, <3>2 DEF RecordResult, Status, TruthInv
      <3>3. QED
        BY <3>1, <3>2
    <2>3. /\ UNCHANGED <<contacts, accepted>>
          /\ \A q \in Procs : pc'[q] = "answered" =>
               pc[q] = "answered" /\ job'[q] = job[q] /\ answer'[q] = answer[q]
      BY <1>9 DEF RecordResult, Return, TypeOK
    <2>4. QED
      BY <2>2, <2>3 DEF TruthInv
  <1>10. ASSUME NEW p \in Procs, Close(p) PROVE TruthInv'
    BY <1>10, TruthKept DEF Close, Stop, TypeOK, Status
  <1>11. ASSUME NEW p \in Procs, Crash(p) PROVE TruthInv'
    BY <1>11, TruthKept DEF Crash, Stop, TypeOK, Status
  <1>12. CASE DamageFile
    BY <1>12, TruthKept DEF DamageFile, Status
  <1>13. CASE Tick
    BY <1>13, TruthKept DEF Tick, Status
  <1>14. CASE UNCHANGED vars
    BY <1>14, TruthKept DEF vars, Status
  <1>15. QED
    BY <1>1, <1>2, <1>3, <1>4, <1>5, <1>6, <1>7, <1>8, <1>9, <1>10, <1>11, <1>12,
       <1>13, <1>14 DEF Next, Work

\* Nothing was refused to begin with.
LEMMA RefusalInit == Init => RefusalInv
  BY DEF Init, RefusalInv, Status, NoRow, Busy

\* A step that asks no provider, writes no FAILED row, drops none, and keeps the
\* row of whoever goes on with a claim open or ambiguous.
LEMMA RefusalKept ==
  ASSUME RefusalInv, accepted' = accepted,
         \A m \in Messages : Status(m)' \in {"NONE", "FAILED"} => Status(m) = Status(m)',
         \A q \in Procs : Busy(q)' => Busy(q) /\ job'[q] = job[q],
         \A q \in Procs : Busy(q)' => Status(job[q])' \in {"CLAIMED", "UNCERTAIN"},
         \A q \in Procs : pc'[q] = "claimed" => pc[q] = "claimed",
         \A q \in Procs : pc'[q] = "answered" /\ answer'[q] = "FAILED" =>
           pc[q] = "claimed" \/ (pc[q] = "answered" /\ answer[q] = "FAILED")
  PROVE  RefusalInv'
  <1>1. \A q \in Procs : pc'[q] = "claimed" \/ pc'[q] = "answered" => Busy(q)'
    BY DEF Busy
  <1>2. QED
    BY <1>1 DEF RefusalInv

\* A message can be claimed without a row only, so nothing was accepted for it.
LEMMA ClaimRefusal ==
  ASSUME TypeOK, OwnershipInv, RefusalInv, NEW p \in Procs, NEW k \in Keys,
         NEW ch \in Channels, NEW w \in BOOLEAN, Claim(p, k, ch, w)
  PROVE  RefusalInv'
  <1> DEFINE m == <<k, ch>>
  <1>1. /\ m \in Messages /\ pc[p] = "idle" /\ UNCHANGED <<accepted, answer>>
        /\ \A q \in Procs : Busy(q) => job[q] \in Messages
    BY DEF Claim, Messages, world, TypeOK
  <1>2. ASSUME NEW s \in Statuses, WriteClaim(p, m, s)
        PROVE  \A n \in Messages : Status(n)' = IF n = m THEN s ELSE Status(n)
    BY <1>1, <1>2 DEF WriteClaim, Status, Row, TypeOK
  <1>3. CASE ClaimWon(p, k, ch, w)
    <2>1. \A n \in Messages : Status(n)' = IF n = m THEN "CLAIMED" ELSE Status(n)
      BY <1>2, <1>3 DEF ClaimWon, Statuses
    <2>2. \A q \in Procs : /\ pc'[q] = IF q = p THEN "claimed" ELSE pc[q]
                           /\ job'[q] = IF q = p THEN m ELSE job[q]
      BY <1>3 DEF ClaimWon, Proceed, TypeOK
    <2>3. m \notin accepted
      BY <1>1, <1>3 DEF ClaimWon, RefusalInv
    <2>4. ASSUME NEW q \in Procs, Busy(q)'
          PROVE  Status(job[q])' \in {"CLAIMED", "UNCERTAIN"}
      <3>1. CASE q = p
        BY <1>1, <2>1, <2>2, <3>1 DEF Status
      <3>2. CASE q # p
        <4>1. Busy(q) /\ job'[q] = job[q] /\ job[q] \in Messages
          BY <1>1, <2>2, <2>4, <3>2 DEF Busy
        <4>2. Status(job[q]) \in {"CLAIMED", "UNCERTAIN"}
          BY <4>1 DEF RefusalInv
        <4>3. QED
          BY <2>1, <4>1, <4>2 DEF Status
      <3>3. QED
        BY <3>1, <3>2
    <2>5. \A n \in Messages : Status(n)' = "NONE" => n \notin accepted
      BY <2>1 DEF RefusalInv
    <2>6. \A q \in Procs : pc'[q] = "claimed" => job'[q] \notin accepted
      BY <2>2, <2>3 DEF RefusalInv
    <2>7. \A q \in Procs : pc'[q] = "answered" => pc[q] = "answered" /\ job'[q] = job[q]
      BY <2>2
    <2>8. \A n \in Messages : Status(n)' = "FAILED" => Status(n) = "FAILED"
      BY <2>1
    <2>9. QED
      BY <1>1, <2>4, <2>5, <2>6, <2>7, <2>8 DEF RefusalInv, world
  <1>4. ASSUME NEW s \in {"SUPPRESSED", "UNCERTAIN"}, WriteClaim(p, m, s), UNCHANGED <<pc, job>>,
               s = "SUPPRESSED" => Status(m) = "NONE"
        PROVE  RefusalInv'
    <2>1. \A n \in Messages : Status(n)' = IF n = m THEN s ELSE Status(n)
      BY <1>2, <1>4 DEF Statuses, Terminal, Answers
    <2>2. \A q \in Procs : Busy(q)' <=> Busy(q)
      BY <1>4 DEF Busy
    <2>3. \A q \in Procs : Busy(q) => Status(job[q])' \in {"CLAIMED", "UNCERTAIN"}
      BY <1>1, <1>4, <2>1 DEF RefusalInv
    <2>4. QED
      BY <1>1, <1>4, <2>1, <2>2, <2>3, RefusalKept
  <1>5. CASE ClaimSettled(p, k, ch, w)
    <2>1. UNCHANGED <<deliveries, pc, job>>
      BY <1>5 DEF ClaimSettled
    <2>2. /\ \A n \in Messages : Status(n)' = Status(n)
          /\ \A q \in Procs : Busy(q)' <=> Busy(q)
      BY <2>1 DEF Status, Busy
    <2>3. QED
      BY <1>1, <2>1, <2>2 DEF RefusalInv
  <1>6. QED
    BY <1>3, <1>4, <1>5 DEF Claim, ClaimInCooldown, ClaimAfterQuarantine, ClaimContended

\* The owner settles its own row and lets go of it: the rows of the others stay.
LEMMA SettleRefusal ==
  ASSUME TypeOK, OwnershipInv, RefusalInv, NEW p \in Procs, Busy(p), Return(p),
         UNCHANGED accepted, NEW s \in Terminal,
         \/ UNCHANGED deliveries
         \/ \A n \in Messages : Status(n)' = IF n = job[p] THEN s ELSE Status(n),
         s = "FAILED" /\ job[p][2] \notin Lenient => job[p] \notin accepted
  PROVE  RefusalInv'
  <1>1. /\ \A q \in Procs : Busy(q)' => q # p /\ Busy(q) /\ job'[q] = job[q]
        /\ \A q \in Procs : Busy(q)' => pc'[q] = pc[q] /\ answer'[q] = answer[q]
    BY DEF Return, TypeOK, Busy
  <1>2. \A q \in Procs : Busy(q)' => job[q] \in Messages /\ job[q] # job[p]
    BY <1>1 DEF OwnershipInv, OneOwner, TypeOK
  <1>3. \A q \in Procs : Busy(q)' => Status(job[q])' = Status(job[q])
    <2>1. ASSUME NEW q \in Procs, Busy(q)' PROVE Status(job[q])' = Status(job[q])
      <3>1. job'[q] = job[q] /\ job[q] \in Messages /\ job[q] # job[p]
        BY <1>1, <1>2, <2>1
      <3>2. CASE UNCHANGED deliveries
        BY <3>1, <3>2 DEF Status
      <3>3. CASE \A n \in Messages : Status(n)' = IF n = job[p] THEN s ELSE Status(n)
        BY <3>1, <3>3 DEF Status
      <3>4. QED
        BY <3>2, <3>3
    <2>2. QED
      BY <2>1
  <1>4. /\ \A q \in Procs : Busy(q)' => Status(job[q])' \in {"CLAIMED", "UNCERTAIN"}
        /\ \A q \in Procs : pc'[q] = "claimed" => job'[q] \notin accepted
        /\ \A q \in Procs :
             pc'[q] = "answered" /\ answer'[q] = "FAILED" /\ job'[q][2] \notin Lenient
               => job'[q] \notin accepted
    BY <1>1, <1>3 DEF RefusalInv, Busy
  <1>5. \A n \in Messages : Status(n)' = "NONE" => n \notin accepted
    BY DEF RefusalInv, Status, Terminal, Answers
  <1>6. \A n \in Messages : Status(n)' = "FAILED" /\ n[2] \notin Lenient => n \notin accepted
    BY DEF RefusalInv, Status
  <1>7. QED
    BY <1>4, <1>5, <1>6 DEF RefusalInv

\* Only the owner of a row that is not settled gets its message accepted.
LEMMA SendRefusal ==
  ASSUME TypeOK, OwnershipInv, RefusalInv, NEW p \in Procs, Send(p)
  PROVE  RefusalInv'
  <1> DEFINE m == job[p]
  <1>1. m \in Messages /\ pc[p] = "claimed" /\ Busy(p)
    BY DEF Send, TypeOK, Busy
  <1>2. PICK reply \in Replies(m[2]) :
          /\ accepted' = IF reply.taken THEN accepted \cup {m} ELSE accepted
          /\ answer' = [answer EXCEPT ![p] = reply.says]
    BY DEF Send
  <1>3. reply.says = "FAILED" /\ m[2] \notin Lenient => ~reply.taken
    BY <1>2 DEF Replies
  <1>4. accepted' = accepted \cup {m} \/ accepted' = accepted
    BY <1>2, Zenon
  <1>5. ~reply.taken => accepted' = accepted
    BY <1>2, Zenon
  <1>6. /\ \A q \in Procs \ {p} : pc'[q] = pc[q] /\ answer'[q] = answer[q]
        /\ pc'[p] = "answered" /\ answer'[p] = reply.says /\ UNCHANGED <<deliveries, job>>
    BY <1>2 DEF Send, TypeOK, ledger
  <1>7. /\ \A n \in Messages : Status(n)' = Status(n)
        /\ \A q \in Procs : Busy(q)' <=> Busy(q)
        /\ \A q \in Procs : Busy(q) => job[q] \in Messages /\ (q # p => job[q] # m)
        /\ Status(m) \in {"CLAIMED", "UNCERTAIN"}
        /\ \A q \in Procs : Status(job[q])' = Status(job[q])
    BY <1>1, <1>6 DEF Status, Busy, OwnershipInv, OneOwner, RefusalInv, TypeOK
  <1>8. \A q \in Procs \ {p} : pc'[q] = "claimed" => job'[q] \notin accepted'
    BY <1>4, <1>6, <1>7 DEF RefusalInv, Busy
  <1>9. \A q \in Procs :
          pc'[q] = "answered" /\ answer'[q] = "FAILED" /\ job'[q][2] \notin Lenient
            => job'[q] \notin accepted'
    <2>1. CASE reply.says = "FAILED" /\ m[2] \notin Lenient
      BY <1>1, <1>3, <1>5, <1>6, <1>7, <2>1 DEF RefusalInv
    <2>2. CASE ~(reply.says = "FAILED" /\ m[2] \notin Lenient)
      BY <1>4, <1>6, <1>7, <2>2 DEF RefusalInv, Busy
    <2>3. QED
      BY <2>1, <2>2
  <1>10. QED
    BY <1>4, <1>6, <1>7, <1>8, <1>9 DEF RefusalInv

\* Every step keeps what is FAILED refused.
LEMMA RefusalNext == TypeOK /\ OwnershipInv /\ RefusalInv /\ [Next]_vars => RefusalInv'
  <1> SUFFICES ASSUME TypeOK, OwnershipInv, RefusalInv, [Next]_vars PROVE RefusalInv'
    OBVIOUS
  <1> USE DEF ledger, local, world, bounds
  <1>1. ASSUME NEW p \in Procs, OpenLedger(p) PROVE RefusalInv'
    BY <1>1 DEF OpenLedger, TypeOK, RefusalInv, Status, Busy
  <1>2. ASSUME NEW p \in Procs, QuarantineLedger(p) PROVE RefusalInv'
    <2>1. \A q \in Procs : ~Busy(q)'
      BY <1>2 DEF QuarantineLedger, TypeOK, OwnershipInv, Unspent, Busy
    <2>2. accepted' = {} /\ \A m \in Messages : Status(m)' = "NONE"
      BY <1>2 DEF QuarantineLedger, Status, NoRow
    <2>3. QED
      BY <2>1, <2>2 DEF RefusalInv, Busy
  <1>3. ASSUME NEW p \in Procs, NEW k \in Keys, PutCandidate(p, k) PROVE RefusalInv'
    BY <1>3 DEF PutCandidate, RefusalInv, Status, Busy
  <1>4. ASSUME NEW p \in Procs, NEW k \in Keys, NEW ch \in Channels,
               NEW w \in BOOLEAN, Claim(p, k, ch, w)
        PROVE  RefusalInv'
    BY <1>4, ClaimRefusal
  <1>5. ASSUME NEW p \in Procs, RecoverAbandonedClaims(p) PROVE RefusalInv'
    <2>1. \A m \in Messages : Status(m)' = Status(m) \/ (Status(m) = "CLAIMED" /\ Status(m)' = "UNCERTAIN")
      BY <1>5 DEF RecoverAbandonedClaims, Status, Row
    <2>2. /\ UNCHANGED <<accepted, job, answer>>
          /\ \A q \in Procs : pc'[q] = pc[q] \/ (pc[q] = "recovering" /\ pc'[q] = "idle")
      BY <1>5 DEF RecoverAbandonedClaims, TypeOK
    <2>3. \A q \in Procs : Busy(q)' => Busy(q) /\ job[q] \in Messages /\ pc'[q] = pc[q]
      BY <2>2 DEF Busy, TypeOK
    <2>4. \A q \in Procs : Busy(q)' => Status(job[q])' \in {"CLAIMED", "UNCERTAIN"}
      BY <2>1, <2>2, <2>3 DEF RefusalInv, Status
    <2>5. QED
      BY <2>1, <2>2, <2>3, <2>4, RefusalKept DEF Busy
  <1>6. ASSUME NEW p \in Procs, SuppressClaim(p) PROVE RefusalInv'
    <2>1. deliveries \in [Messages -> [status : Statuses, at : 0..MaxTime]]
      BY DEF TypeOK
    <2>2. \/ UNCHANGED deliveries
          \/ \A n \in Messages : Status(n)' = IF n = job[p] THEN "SUPPRESSED" ELSE Status(n)
      BY <1>6, <2>1 DEF SuppressClaim, Status
    <2>3. Busy(p) /\ Return(p) /\ UNCHANGED accepted /\ "SUPPRESSED" \in Terminal
      BY <1>6 DEF SuppressClaim, Busy, Terminal
    <2>4. QED
      BY <2>2, <2>3, SettleRefusal
  <1>7. ASSUME NEW p \in Procs, ChannelRefuses(p) PROVE RefusalInv'
    <2>1. /\ UNCHANGED <<accepted, deliveries, job>> /\ pc[p] = "claimed" /\ pc'[p] = "answered"
          /\ \A q \in Procs \ {p} : pc'[q] = pc[q] /\ answer'[q] = answer[q]
      BY <1>7 DEF ChannelRefuses, TypeOK
    <2>2. /\ \A m \in Messages : Status(m)' = Status(m)
          /\ \A q \in Procs : Busy(q)' <=> Busy(q)
          /\ \A q \in Procs : Busy(q) => job[q] \in Messages
      BY <2>1 DEF Status, Busy, TypeOK
    <2>3. QED
      BY <2>1, <2>2, RefusalKept DEF RefusalInv
  <1>8. ASSUME NEW p \in Procs, Send(p) PROVE RefusalInv'
    BY <1>8, SendRefusal
  <1>9. ASSUME NEW p \in Procs, RecordResult(p) PROVE RefusalInv'
    <2>1. deliveries \in [Messages -> [status : Statuses, at : 0..MaxTime]]
      BY DEF TypeOK
    <2>2. \/ UNCHANGED deliveries
          \/ \A n \in Messages : Status(n)' = IF n = job[p] THEN answer[p] ELSE Status(n)
      BY <1>9, <2>1 DEF RecordResult, Status, Row
    <2>3. /\ Busy(p) /\ Return(p) /\ UNCHANGED accepted /\ answer[p] \in Terminal
          /\ answer[p] = "FAILED" /\ job[p][2] \notin Lenient => job[p] \notin accepted
      BY <1>9 DEF RecordResult, Busy, Terminal, TypeOK, RefusalInv
    <2>4. QED
      BY <2>2, <2>3, SettleRefusal
  <1>10. ASSUME NEW p \in Procs, Stop(p), UNCHANGED <<deliveries, accepted>> PROVE RefusalInv'
    BY <1>10 DEF Stop, TypeOK, RefusalInv, Status, Busy
  <1>11. CASE DamageFile \/ Tick \/ UNCHANGED vars
    BY <1>11 DEF DamageFile, Tick, vars, RefusalInv, Status, Busy
  <1>12. ASSUME NEW p \in Procs, Close(p) \/ Crash(p) PROVE RefusalInv'
    BY <1>10, <1>12 DEF Close, Crash
  <1>13. QED
    BY <1>1, <1>2, <1>3, <1>4, <1>5, <1>6, <1>7, <1>8, <1>9, <1>11, <1>12 DEF Next, Work

\* The outcomes in the ledger claim only what is known: SENT was accepted, and
\* FAILED, where a channel can tell, was not.
THEOREM OutcomesAreAlwaysTrue == Spec => []OutcomesAreTrue
  <1>1. Spec => []TruthInv
    BY TruthInit, TruthNext, OwnershipInit, OwnershipNext, TypeCorrect, PTL DEF Spec
  <1>2. Spec => []RefusalInv
    BY RefusalInit, RefusalNext, OwnershipInit, OwnershipNext, TypeCorrect, PTL DEF Spec
  <1>3. TruthInv /\ RefusalInv => OutcomesAreTrue
    BY DEF TruthInv, RefusalInv, OutcomesAreTrue
  <1>4. QED
    BY <1>1, <1>2, <1>3, PTL

(***************************************************************************)
(* Finality: nothing revises an outcome.                                   *)
(***************************************************************************)

\* A sound file keeps the outcome of every row that has one.
LEMMA OutcomeKept ==
  ASSUME TypeOK, [Next]_vars, file = "sound",
         NEW m \in Messages, Status(m) \in Terminal
  PROVE  Status(m)' = Status(m)
  <1>a. Status(m) # "NONE" /\ Status(m) # "CLAIMED"
    BY DEF Terminal, Answers
  <1>b. deliveries \in [Messages -> [status : Statuses, at : 0..MaxTime]]
    BY DEF TypeOK
  <1>1. CASE UNCHANGED deliveries
    BY <1>1 DEF Status
  <1>2. ASSUME NEW p \in Procs, RecoverAbandonedClaims(p) PROVE Status(m)' = Status(m)
    BY <1>a, <1>2 DEF RecoverAbandonedClaims, Status
  <1>3. ASSUME NEW n \in Messages, Status(n) \in {"NONE", "CLAIMED"}, NEW r,
               deliveries' = [deliveries EXCEPT ![n] = r]
        PROVE  Status(m)' = Status(m)
    <2>1. n # m
      BY <1>a, <1>3
    <2>2. QED
      BY <1>b, <1>3, <2>1 DEF Status
  <1>4. ASSUME NEW p \in Procs, NEW k \in Keys, NEW ch \in Channels, NEW w \in BOOLEAN,
               Claim(p, k, ch, w)
        PROVE  Status(m)' = Status(m)
    <2>1. <<k, ch>> \in Messages
      BY DEF Messages
    <2>2. \/ UNCHANGED deliveries
          \/ /\ Status(<<k, ch>>) \in {"NONE", "CLAIMED"}
             /\ \E s \in Statuses : deliveries' = [deliveries EXCEPT ![<<k, ch>>] = Row(s, at[p])]
      BY <1>4 DEF Claim, ClaimWon, ClaimInCooldown, ClaimAfterQuarantine, ClaimContended,
         ClaimSettled, WriteClaim, Statuses, Terminal, Answers
    <2>3. QED
      BY <1>1, <1>3, <2>1, <2>2
  <1>5. ASSUME NEW p \in Procs, SuppressClaim(p) PROVE Status(m)' = Status(m)
    <2>1. CASE Status(job[p]) = "CLAIMED"
      <3>1. deliveries' = [deliveries EXCEPT ![job[p]].status = "SUPPRESSED"] /\ job[p] # m
        BY <1>5, <1>a, <2>1 DEF SuppressClaim
      <3>2. QED
        BY <1>b, <3>1 DEF Status
    <2>2. CASE Status(job[p]) # "CLAIMED"
      BY <1>1, <1>5, <2>2 DEF SuppressClaim
    <2>3. QED
      BY <2>1, <2>2
  <1>6. ASSUME NEW p \in Procs, RecordResult(p) PROVE Status(m)' = Status(m)
    <2>1. job[p] \in Messages
      BY <1>6 DEF RecordResult, TypeOK, Busy
    <2>2. QED
      BY <1>1, <1>3, <1>6, <2>1 DEF RecordResult
  <1>7. ASSUME NEW p \in Procs,
               \/ OpenLedger(p) \/ (\E k \in Keys : PutCandidate(p, k)) \/ ChannelRefuses(p)
               \/ Send(p) \/ Close(p) \/ Crash(p)
        PROVE  Status(m)' = Status(m)
    BY <1>1, <1>7 DEF OpenLedger, PutCandidate, ChannelRefuses, Send, Close, Crash, ledger
  <1>8. CASE DamageFile \/ Tick \/ UNCHANGED vars
    BY <1>1, <1>8 DEF DamageFile, Tick, vars, ledger
  <1>9. ASSUME NEW p \in Procs PROVE ~QuarantineLedger(p)
    BY DEF QuarantineLedger
  <1>10. QED
    BY <1>2, <1>4, <1>5, <1>6, <1>7, <1>8, <1>9 DEF Next, Work

\* No answer that arrives late, no recovery and no second delivery changes a
\* settled row of a sound ledger (record_result, _recover_abandoned_claims, claim).
THEOREM OutcomesAreFinal == Spec => OutcomeIsFinal
  <1>1. TypeOK /\ [Next]_vars =>
          [\A m \in Messages :
             Status(m) \in Terminal /\ file = "sound" => Status(m)' = Status(m)]_vars
    BY OutcomeKept
  <1>2. QED
    BY <1>1, TypeCorrect, PTL DEF Spec, OutcomeIsFinal

(***************************************************************************)
(* Refinement: while the file is sound, the outbox is at-most-once         *)
(* delivery.  No request is spent on a message before its claim, so that   *)
(* the permit of a row is what its owner has made of it.                   *)
(***************************************************************************)

Sound == file = "sound" /\ generation = 0

Owned(m) == \E p \in Procs : pc[p] = "claimed" /\ job[p] = m

\* What the refinement sees of a message.
Same(m) ==
  /\ Status(m)' = Status(m)
  /\ contacts'[m] = contacts[m]
  /\ Owned(m)' <=> Owned(m)

Permits  == [m \in Messages |-> PermitOf(m)]
Verdicts == [m \in Messages |-> Status(m)]

\* A message that a step leaves alone keeps its permit and its verdict.
LEMMA SamePermit ==
  ASSUME NEW m, Same(m)
  PROVE  PermitOf(m)' = PermitOf(m) /\ Status(m)' = Status(m)
  BY DEF Same, PermitOf, Owned

\* A step that leaves every message alone is a stutter of the abstract delivery.
LEMMA Stutters ==
  ASSUME \A m \in Messages : Same(m)
  PROVE  UNCHANGED <<Permits, Verdicts>>
  BY SamePermit DEF Permits, Verdicts

\* One message moves.
LEMMA Moves ==
  ASSUME NEW n \in Messages, \A m \in Messages \ {n} : Same(m)
  PROVE  /\ Permits' = [Permits EXCEPT ![n] = PermitOf(n)']
         /\ Verdicts' = [Verdicts EXCEPT ![n] = Status(n)']
         /\ Permits[n] = PermitOf(n) /\ Verdicts[n] = Status(n)
  BY SamePermit DEF Permits, Verdicts

\* A step of p that holds no claim before or after, and changes no row.
LEMMA QuietStep ==
  ASSUME TypeOK, NEW p \in Procs, UNCHANGED <<deliveries, contacts>>,
         \A q \in Procs \ {p} : pc'[q] = pc[q] /\ job'[q] = job[q],
         pc[p] # "claimed", pc'[p] # "claimed"
  PROVE  UNCHANGED <<Permits, Verdicts>>
  <1>1. \A m \in Messages : Owned(m)' <=> Owned(m)
    BY DEF Owned
  <1>2. QED
    BY <1>1, Stutters DEF Same, Status

\* The step of the owner of a claim: no other message is concerned, the permit
\* is held before and not afterwards.
LEMMA OwnerStep ==
  ASSUME TypeOK, OwnershipInv, Sound, NEW p \in Procs, pc[p] = "claimed",
         NEW n \in Messages, n = job[p],
         \A q \in Procs \ {p} : pc'[q] = pc[q] /\ job'[q] = job[q],
         pc'[p] # "claimed"
  PROVE  /\ contacts[n] = 0
         /\ PermitOf(n) = "held"
         /\ ~Owned(n)'
         /\ \A m \in Messages \ {n} : Owned(m)' <=> Owned(m)
  <1>1. Status(n) # "NONE"
    BY DEF TypeOK, Busy, OwnershipInv, OneOwner
  <1>2. contacts[n] = 0
    BY <1>1 DEF TypeOK, OwnershipInv, Unspent, Sound
  <1>3. PermitOf(n) = "held"
    BY <1>1, <1>2 DEF PermitOf
  <1>4. ~Owned(n)'
    BY DEF Owned, OwnershipInv, OneOwner, Busy
  <1>5. \A m \in Messages \ {n} : Owned(m)' <=> Owned(m)
    BY DEF Owned
  <1>6. QED
    BY <1>1, <1>2, <1>3, <1>4, <1>5

\* A message without a row is free, and nobody owns it.
LEMMA FreeMessage ==
  ASSUME TypeOK, OwnershipInv, Sound, NEW m \in Messages, Status(m) = "NONE"
  PROVE  PermitOf(m) = "free" /\ contacts[m] = 0 /\ ~Owned(m)
  <1>1. contacts[m] = 0
    BY DEF TypeOK, OwnershipInv, Unspent, Sound
  <1>2. ~Owned(m)
    BY DEF Owned, OwnershipInv, OneOwner, Busy
  <1>3. QED
    BY <1>1, <1>2 DEF PermitOf

\* Open claims that are declared ambiguous keep their permits.
LEMMA AbandonRefines ==
  ASSUME TypeOK, NEW S \in SUBSET Messages, \A m \in S : Status(m) = "CLAIMED",
         \A m \in Messages : Status(m)' = IF m \in S THEN "UNCERTAIN" ELSE Status(m),
         contacts' = contacts, \A m \in Messages : Owned(m)' <=> Owned(m)
  PROVE  Delivery!Next
  <1>1. \A m \in Messages : PermitOf(m)' = PermitOf(m)
    BY DEF PermitOf, Owned
  <1>2. Permits' = Permits /\ Verdicts' = [m \in Messages |->
                                 IF m \in S THEN "UNCERTAIN" ELSE Verdicts[m]]
    BY <1>1 DEF Permits, Verdicts
  <1>3. Delivery!Abandon(S)
    BY <1>2 DEF Delivery!Abandon, Permits, Verdicts
  <1>4. QED
    BY <1>3 DEF Delivery!Next

\* The claimant gives up its permit and leaves its row alone.
LEMMA DropRefines ==
  ASSUME TypeOK, OwnershipInv, Sound, NEW p \in Procs, pc[p] = "claimed",
         UNCHANGED <<deliveries, contacts>>,
         \A q \in Procs \ {p} : pc'[q] = pc[q] /\ job'[q] = job[q],
         pc'[p] # "claimed"
  PROVE  Delivery!Next
  <1>0. PICK n \in Messages : n = job[p]
    BY DEF TypeOK, Busy
  <1>1. /\ n \in Messages /\ contacts[n] = 0 /\ PermitOf(n) = "held" /\ ~Owned(n)'
        /\ \A m \in Messages \ {n} : Owned(m)' <=> Owned(m)
    BY <1>0, OwnerStep
  <1>2. \A m \in Messages \ {n} : Same(m)
    BY <1>0, <1>1 DEF Same, Status
  <1>3. PermitOf(n)' = "void" /\ Status(n)' = Status(n)
    BY <1>0, <1>1 DEF PermitOf, Status, Owned, OwnershipInv, OneOwner, Busy
  <1>4. Delivery!Drop(n)
    <2>1. /\ Permits' = [Permits EXCEPT ![n] = "void"] /\ Permits[n] = "held"
          /\ Verdicts' = [Verdicts EXCEPT ![n] = Verdicts[n]]
      BY <1>0, <1>1, <1>2, <1>3, Moves
    <2>2. Verdicts' = Verdicts
      BY <1>0, <2>1 DEF Verdicts
    <2>3. QED
      BY <1>0, <2>1, <2>2 DEF Delivery!Drop, Permits, Verdicts
  <1>5. QED
    BY <1>0, <1>1, <1>4 DEF Delivery!Next

\* Every outcome of a claim transaction: a permit, a refusal, an ambiguous
\* claim, or nothing.
LEMMA ClaimRefines ==
  ASSUME TypeOK, OwnershipInv, Sound, NEW p \in Procs, NEW k \in Keys,
         NEW ch \in Channels, NEW w \in BOOLEAN, Claim(p, k, ch, w)
  PROVE  [Delivery!Next]_<<Permits, Verdicts>>
  <1> DEFINE n == <<k, ch>>
  <1>1. n \in Messages /\ pc[p] = "idle" /\ contacts' = contacts
    BY DEF Claim, Messages, world
  <1>2. ASSUME NEW s \in Statuses, WriteClaim(p, n, s)
        PROVE  /\ Status(n)' = s
               /\ \A m \in Messages \ {n} : Status(m)' = Status(m)
    <2>1. deliveries \in [Messages -> [status : Statuses, at : 0..MaxTime]]
      BY DEF TypeOK
    <2>2. deliveries' = [deliveries EXCEPT ![n] = Row(s, at[p])] /\ Row(s, at[p]).status = s
      BY <1>2 DEF WriteClaim, Row
    <2>3. QED
      BY <1>1, <2>1, <2>2 DEF Status
  <1>3. CASE ClaimWon(p, k, ch, w)
    <2>1. Status(n) = "NONE" /\ Status(n)' = "CLAIMED"
          /\ \A m \in Messages \ {n} : Status(m)' = Status(m)
      BY <1>2, <1>3 DEF ClaimWon, Statuses
    <2>2. PermitOf(n) = "free" /\ contacts[n] = 0 /\ ~Owned(n)
      BY <1>1, <2>1, FreeMessage
    <2>3. /\ pc'[p] = "claimed" /\ job'[p] = n
          /\ \A q \in Procs \ {p} : pc'[q] = pc[q] /\ job'[q] = job[q]
      BY <1>1, <1>3 DEF ClaimWon, Proceed, TypeOK
    <2>4. Owned(n)' /\ \A m \in Messages \ {n} : Owned(m)' <=> Owned(m)
      BY <1>1, <2>3 DEF Owned
    <2>5. PermitOf(n)' = "held"
      BY <1>1, <2>1, <2>2, <2>4 DEF PermitOf, Owned
    <2>6. \A m \in Messages \ {n} : Same(m)
      BY <1>1, <2>1, <2>4 DEF Same
    <2>7. Delivery!Reserve(n)
      BY <1>1, <2>1, <2>2, <2>5, <2>6, Moves DEF Delivery!Reserve, Permits, Verdicts
    <2>8. QED
      BY <1>1, <2>7 DEF Delivery!Next
  <1>4. ASSUME UNCHANGED <<pc, job>> PROVE \A m \in Messages : Owned(m)' <=> Owned(m)
    BY <1>4 DEF Owned
  <1>5. ASSUME NEW s \in {"SUPPRESSED", "UNCERTAIN"}, Status(n) = "NONE",
               WriteClaim(p, n, s), UNCHANGED <<pc, job>>
        PROVE  Delivery!Next
    <2>1. Status(n)' = s /\ \A m \in Messages \ {n} : Status(m)' = Status(m)
      BY <1>2, <1>5 DEF Statuses, Terminal, Answers
    <2>2. PermitOf(n) = "free" /\ contacts[n] = 0 /\ ~Owned(n)
      BY <1>1, <1>5, FreeMessage
    <2>3. PermitOf(n)' = "void"
      BY <1>1, <1>4, <1>5, <2>1, <2>2 DEF PermitOf, Owned
    <2>4. \A m \in Messages \ {n} : Same(m)
      BY <1>1, <1>4, <1>5, <2>1 DEF Same
    <2>5. Delivery!Refuse(n)
      BY <1>1, <1>5, <2>1, <2>2, <2>3, <2>4, Moves DEF Delivery!Refuse, Permits, Verdicts
    <2>6. QED
      BY <1>1, <2>5 DEF Delivery!Next
  <1>6. CASE ClaimInCooldown(p, k, ch, w) \/ ClaimAfterQuarantine(p, k, ch, w)
    BY <1>5, <1>6 DEF ClaimInCooldown, ClaimAfterQuarantine
  <1>7. CASE ClaimContended(p, k, ch, w)
    <2>1. /\ Status(n) = "CLAIMED" /\ Status(n)' = "UNCERTAIN" /\ UNCHANGED <<pc, job>>
          /\ \A m \in Messages \ {n} : Status(m)' = Status(m)
      BY <1>2, <1>7 DEF ClaimContended, Statuses, Terminal, Answers
    <2>2. QED
      BY <1>1, <1>4, <2>1, AbandonRefines
  <1>8. CASE ClaimSettled(p, k, ch, w)
    BY <1>1, <1>4, <1>8, Stutters DEF ClaimSettled, Same, Status
  <1>9. QED
    BY <1>3, <1>6, <1>7, <1>8 DEF Claim

\* The owner suppresses its claim, or finds it declared ambiguous.
LEMMA SuppressRefines ==
  ASSUME TypeOK, OwnershipInv, Sound, NEW p \in Procs, SuppressClaim(p)
  PROVE  Delivery!Next
  <1>0. PICK n \in Messages : n = job[p]
    BY DEF SuppressClaim, TypeOK, Busy
  <1>1. /\ pc[p] = "claimed" /\ pc'[p] # "claimed" /\ contacts' = contacts
        /\ \A q \in Procs \ {p} : pc'[q] = pc[q] /\ job'[q] = job[q]
    BY DEF SuppressClaim, Return, TypeOK, world
  <1>2. CASE Status(n) # "CLAIMED"
    BY <1>0, <1>1, <1>2, DropRefines DEF SuppressClaim
  <1>3. CASE Status(n) = "CLAIMED"
    <2>1. /\ n \in Messages /\ contacts[n] = 0 /\ PermitOf(n) = "held" /\ ~Owned(n)'
          /\ \A m \in Messages \ {n} : Owned(m)' <=> Owned(m)
      BY <1>0, <1>1, OwnerStep
    <2>2. deliveries \in [Messages -> [status : Statuses, at : 0..MaxTime]]
      BY DEF TypeOK
    <2>3. deliveries' = [deliveries EXCEPT ![n].status = "SUPPRESSED"]
      BY <1>0, <1>3 DEF SuppressClaim
    <2>4. Status(n)' = "SUPPRESSED" /\ \A m \in Messages \ {n} : Status(m)' = Status(m)
      BY <1>0, <2>1, <2>2, <2>3 DEF Status
    <2>5. PermitOf(n)' = "void"
      BY <1>0, <1>1, <2>1, <2>4 DEF PermitOf, Owned
    <2>6. \A m \in Messages \ {n} : Same(m)
      BY <1>0, <1>1, <2>1, <2>4 DEF Same
    <2>7. Delivery!Withdraw(n)
      BY <1>0, <1>3, <2>1, <2>4, <2>5, <2>6, Moves DEF Delivery!Withdraw, Permits, Verdicts
    <2>8. QED
      BY <1>0, <2>1, <2>7 DEF Delivery!Next
  <1>4. QED
    BY <1>0, <1>2, <1>3

\* The call uses the permit.
LEMMA SendRefines ==
  ASSUME TypeOK, OwnershipInv, Sound, NEW p \in Procs, Send(p)
  PROVE  Delivery!Next
  <1>0. PICK n \in Messages : n = job[p]
    BY DEF Send, TypeOK, Busy
  <1>1. /\ pc[p] = "claimed" /\ pc'[p] # "claimed" /\ UNCHANGED deliveries
        /\ contacts' = [contacts EXCEPT ![n] = @ + 1]
        /\ \A q \in Procs \ {p} : pc'[q] = pc[q] /\ job'[q] = job[q]
    BY <1>0 DEF Send, TypeOK, ledger
  <1>2. /\ n \in Messages /\ contacts[n] = 0 /\ PermitOf(n) = "held" /\ ~Owned(n)'
        /\ \A m \in Messages \ {n} : Owned(m)' <=> Owned(m)
    BY <1>0, <1>1, OwnerStep
  <1>3. contacts'[n] = 1 /\ \A m \in Messages \ {n} : contacts'[m] = contacts[m]
    BY <1>0, <1>1, <1>2 DEF TypeOK
  <1>4. Status(n)' = Status(n) /\ Status(n) # "NONE"
    BY <1>0, <1>1 DEF Status, OwnershipInv, OneOwner, Busy
  <1>5. PermitOf(n)' = "used"
    BY <1>0, <1>3, <1>4 DEF PermitOf
  <1>6. \A m \in Messages \ {n} : Same(m)
    BY <1>0, <1>1, <1>2, <1>3 DEF Same, Status
  <1>7. /\ Permits' = [Permits EXCEPT ![n] = "used"] /\ Permits[n] = "held"
        /\ Verdicts' = [Verdicts EXCEPT ![n] = Verdicts[n]]
    BY <1>0, <1>2, <1>4, <1>5, <1>6, Moves
  <1>8. Delivery!Use(n)
    <2>1. Verdicts' = Verdicts
      BY <1>0, <1>7 DEF Verdicts
    <2>2. QED
      BY <1>0, <1>7, <2>1 DEF Delivery!Use, Permits, Verdicts
  <1>9. QED
    BY <1>0, <1>2, <1>8 DEF Delivery!Next

\* The recorded answer reports what became of the permit.
LEMMA RecordRefines ==
  ASSUME TypeOK, OwnershipInv, TruthInv, Sound, NEW p \in Procs, RecordResult(p)
  PROVE  [Delivery!Next]_<<Permits, Verdicts>>
  <1>0. PICK n \in Messages : n = job[p]
    BY DEF RecordResult, TypeOK, Busy
  <1>1. /\ pc[p] = "answered" /\ pc'[p] # "claimed" /\ contacts' = contacts
        /\ n \in Messages /\ answer[p] \in Answers
        /\ \A q \in Procs \ {p} : pc'[q] = pc[q] /\ job'[q] = job[q]
    BY DEF RecordResult, Return, TypeOK, Busy, world
  <1>2. CASE UNCHANGED deliveries
    BY <1>0, <1>1, <1>2, QuietStep
  <1>3. CASE Status(n) = "CLAIMED" /\ deliveries' = [deliveries EXCEPT ![n] = Row(answer[p], at[p])]
    <2>1. deliveries \in [Messages -> [status : Statuses, at : 0..MaxTime]]
      BY DEF TypeOK
    <2>2. Status(n)' = answer[p] /\ \A m \in Messages \ {n} : Status(m)' = Status(m)
      BY <1>0, <1>1, <1>3, <2>1 DEF Status, Row
    <2>3. ~Owned(n)
      BY <1>0, <1>1 DEF Owned, OwnershipInv, OneOwner, Busy
    <2>4. \A m \in Messages : Owned(m)' <=> Owned(m)
      BY <1>0, <1>1 DEF Owned
    <2>5. PermitOf(n) = (IF contacts[n] > 0 THEN "used" ELSE "void")
      BY <1>0, <1>1, <1>3, <2>3 DEF PermitOf, Owned, TypeOK
    <2>6. PermitOf(n)' = (IF contacts[n] > 0 THEN "used" ELSE "void")
      BY <1>0, <1>1, <2>2, <2>3, <2>4 DEF PermitOf, Owned, TypeOK, Answers
    <2>7. \A m \in Messages \ {n} : Same(m)
      BY <1>0, <1>1, <2>2, <2>4 DEF Same
    <2>8. /\ Permits' = [Permits EXCEPT ![n] = Permits[n]] /\ Permits[n] \in {"used", "void"}
          /\ Verdicts' = [Verdicts EXCEPT ![n] = answer[p]] /\ Verdicts[n] = "CLAIMED"
      BY <1>0, <1>1, <1>3, <2>2, <2>5, <2>6, <2>7, Moves
    <2>9. answer[p] = "SENT" => Permits[n] = "used"
      BY <1>0, <1>1, <2>5, <2>7, Moves DEF TruthInv
    <2>10. Permits' = Permits
      BY <1>0, <2>8 DEF Permits
    <2>11. Delivery!Report(n)
      BY <1>0, <1>1, <2>8, <2>9, <2>10 DEF Delivery!Report, Permits, Verdicts, Answers
    <2>12. QED
      BY <1>0, <1>1, <2>11 DEF Delivery!Next
  <1>4. QED
    BY <1>0, <1>2, <1>3 DEF RecordResult

\* Every step is one of the abstract delivery, or a stutter.
LEMMA StepRefines ==
  ASSUME TypeOK, OwnershipInv, TruthInv, Sound, [Next]_vars
  PROVE  [Delivery!Next]_<<Permits, Verdicts>>
  <1> USE DEF ledger, local, world, bounds
  <1>1. ASSUME NEW p \in Procs, OpenLedger(p) PROVE UNCHANGED <<Permits, Verdicts>>
    BY <1>1, QuietStep DEF OpenLedger, TypeOK
  <1>2. ASSUME NEW p \in Procs PROVE ~QuarantineLedger(p)
    BY DEF QuarantineLedger, Sound
  <1>3. ASSUME NEW p \in Procs, NEW k \in Keys, PutCandidate(p, k)
        PROVE  UNCHANGED <<Permits, Verdicts>>
    BY <1>3, QuietStep DEF PutCandidate, TypeOK
  <1>4. ASSUME NEW p \in Procs, RecoverAbandonedClaims(p) PROVE Delivery!Next
    <2> DEFINE S == {m \in seen[p] : Status(m) = "CLAIMED"}
    <2>1. S \in SUBSET Messages /\ contacts' = contacts
      BY <1>4 DEF RecoverAbandonedClaims, TypeOK
    <2>2. \A m \in Messages : Status(m)' = IF m \in S THEN "UNCERTAIN" ELSE Status(m)
      BY <1>4 DEF RecoverAbandonedClaims, Status, Row
    <2>3. \A m \in Messages : Owned(m)' <=> Owned(m)
      BY <1>4 DEF RecoverAbandonedClaims, Owned, TypeOK
    <2>4. QED
      BY <2>1, <2>2, <2>3, AbandonRefines
  <1>5. ASSUME NEW p \in Procs, ChannelRefuses(p) PROVE Delivery!Next
    BY <1>5, DropRefines DEF ChannelRefuses, TypeOK
  <1>6. ASSUME NEW p \in Procs, Work(p) PROVE [Delivery!Next]_<<Permits, Verdicts>>
    BY <1>4, <1>5, <1>6, SuppressRefines, SendRefines, RecordRefines DEF Work
  <1>7. ASSUME NEW p \in Procs, Close(p) PROVE UNCHANGED <<Permits, Verdicts>>
    BY <1>7, QuietStep DEF Close, Stop, TypeOK
  <1>8. ASSUME NEW p \in Procs, Crash(p) PROVE [Delivery!Next]_<<Permits, Verdicts>>
    <2>1. CASE pc[p] = "claimed"
      BY <1>8, <2>1, DropRefines DEF Crash, Stop, TypeOK
    <2>2. CASE pc[p] # "claimed"
      BY <1>8, <2>2, QuietStep DEF Crash, Stop, TypeOK
    <2>3. QED
      BY <2>1, <2>2
  <1>9. CASE DamageFile \/ Tick \/ UNCHANGED vars
    BY <1>9, Stutters DEF DamageFile, Tick, vars, Same, Status, Owned
  <1>10. QED
    BY <1>1, <1>2, <1>3, <1>6, <1>7, <1>8, <1>9, ClaimRefines DEF Next

\* Without damage the file stays sound.
LEMMA SoundHolds ==
  ASSUME MaxCorruptions = 0
  PROVE  Spec => []Sound
  <1>1. Init => Sound
    BY DEF Init, Sound
  <1>2. ASSUME TypeOK, Sound, [Next]_vars PROVE Sound'
    <2> USE <1>2 DEF Sound, ledger, bounds
    <2>1. ~DamageFile /\ \A p \in Procs : ~QuarantineLedger(p)
      BY DEF TypeOK, DamageFile, QuarantineLedger
    <2>2. ASSUME NEW p \in Procs, Work(p) PROVE Sound'
      BY <2>2 DEF Work, RecoverAbandonedClaims, SuppressClaim, ChannelRefuses, Send, RecordResult
    <2>3. ASSUME NEW p \in Procs,
                 OpenLedger(p) \/ (\E k \in Keys : PutCandidate(p, k)) \/ Close(p) \/ Crash(p)
          PROVE  Sound'
      BY <2>3 DEF OpenLedger, PutCandidate, Close, Crash
    <2>4. ASSUME NEW p \in Procs, NEW k \in Keys, NEW ch \in Channels, NEW w \in BOOLEAN,
                 Claim(p, k, ch, w)
          PROVE  Sound'
      BY <2>4 DEF Claim
    <2>5. CASE Tick \/ UNCHANGED vars
      BY <2>5 DEF Tick, vars
    <2>6. QED
      BY <2>1, <2>2, <2>3, <2>4, <2>5 DEF Next
  <1>3. QED
    BY <1>1, <1>2, TypeCorrect, PTL DEF Spec

\* As long as the file is not damaged, the outbox is at-most-once delivery: a
\* won claim is the one permit to call, no crash, contention or recovery gives
\* it again, and only a call that was made is recorded as SENT (claim, deliver,
\* _suppress_claim, _recover_abandoned_claims, record_result).
THEOREM OutboxImplementsDelivery ==
  ASSUME MaxCorruptions = 0
  PROVE  Spec => ImplementsDelivery
  <1>1. Init => Delivery!Init
    BY DEF Init, Delivery!Init, PermitOf, Status, NoRow
  <1>2. TypeOK /\ OwnershipInv /\ TruthInv /\ Sound /\ [Next]_vars
          => [Delivery!Next]_(Delivery!vars)
    BY StepRefines DEF Delivery!vars, Permits, Verdicts
  <1>3. Spec => [](OwnershipInv /\ TruthInv)
    BY OwnershipInit, OwnershipNext, TruthInit, TruthNext, TypeCorrect, PTL DEF Spec
  <1>4. QED
    BY <1>1, <1>2, <1>3, TypeCorrect, SoundHolds, PTL DEF Spec, ImplementsDelivery, Delivery!Spec

(***************************************************************************)
(* The process that quarantined the ledger.                                *)
(***************************************************************************)

\* It never gets a claim to go on with.
QuarantinerInv == \A p \in Procs : pc[p] = "claimed" => ~recovered[p]

\* Every step keeps a process that quarantined a file without a claim to go on with.
LEMMA QuarantinerNext == TypeOK /\ QuarantinerInv /\ [Next]_vars => QuarantinerInv'
  <1> SUFFICES ASSUME TypeOK, QuarantinerInv, [Next]_vars PROVE QuarantinerInv'
    OBVIOUS
  <1> USE DEF local
  <1>1. ASSUME NEW p \in Procs, \A q \in Procs \ {p} : pc'[q] = pc[q] /\ recovered'[q] = recovered[q],
               pc'[p] = "claimed" => ~recovered'[p]
        PROVE  QuarantinerInv'
    BY <1>1 DEF QuarantinerInv
  <1>2. ASSUME NEW p \in Procs, OpenLedger(p) \/ QuarantineLedger(p) PROVE QuarantinerInv'
    BY <1>1, <1>2 DEF OpenLedger, QuarantineLedger, TypeOK
  <1>3. ASSUME NEW p \in Procs, NEW k \in Keys, PutCandidate(p, k) PROVE QuarantinerInv'
    BY <1>3 DEF PutCandidate, QuarantinerInv
  <1>4. ASSUME NEW p \in Procs, NEW k \in Keys, NEW ch \in Channels, NEW w \in BOOLEAN,
               Claim(p, k, ch, w)
        PROVE  QuarantinerInv'
    <2>1. recovered' = recovered /\ (pc' = pc \/ (ClaimWon(p, k, ch, w)
                                                  /\ pc' = [pc EXCEPT ![p] = "claimed"]))
      BY <1>4 DEF Claim, ClaimWon, Proceed, ClaimInCooldown, ClaimAfterQuarantine,
         ClaimContended, ClaimSettled
    <2>2. QED
      BY <2>1 DEF QuarantinerInv, ClaimWon, TypeOK
  <1>5. ASSUME NEW p \in Procs, Work(p) PROVE QuarantinerInv'
    BY <1>1, <1>5 DEF Work, RecoverAbandonedClaims, SuppressClaim, ChannelRefuses, Send,
       RecordResult, Return, TypeOK, QuarantinerInv
  <1>6. ASSUME NEW p \in Procs, Close(p) \/ Crash(p) PROVE QuarantinerInv'
    BY <1>1, <1>6 DEF Close, Crash, Stop, TypeOK, QuarantinerInv
  <1>7. CASE DamageFile \/ Tick \/ UNCHANGED vars
    BY <1>7 DEF DamageFile, Tick, vars, QuarantinerInv
  <1>8. QED
    BY <1>2, <1>3, <1>4, <1>5, <1>6, <1>7 DEF Next

\* Whoever finds the ledger damaged and starts an empty one asks no provider
\* (claim: "delivery disabled"): only an owner that did not calls.
THEOREM QuarantinersAreSilent == Spec => QuarantinerSendsNothing
  <1>1. Init => QuarantinerInv
    BY DEF Init, QuarantinerInv
  <1>2. TypeOK /\ QuarantinerInv /\ [Next]_vars =>
          [\A m \in Messages :
             contacts'[m] # contacts[m] => \E p \in Procs : Holds(p, m) /\ ~recovered[p]]_vars
    <2> SUFFICES ASSUME TypeOK, QuarantinerInv, Next, NEW m \in Messages,
                        contacts'[m] # contacts[m]
                 PROVE  \E p \in Procs : Holds(p, m) /\ ~recovered[p]
      OBVIOUS
    <2>0. contacts' # contacts
      OBVIOUS
    <2>1. PICK p \in Procs : Send(p)
      <3>1. ASSUME NEW p \in Procs,
                   \/ OpenLedger(p) \/ QuarantineLedger(p) \/ Close(p) \/ Crash(p)
                   \/ \E k \in Keys : PutCandidate(p, k)
                   \/ \E k \in Keys, ch \in Channels, w \in BOOLEAN : Claim(p, k, ch, w)
            PROVE  FALSE
        BY <2>0, <3>1 DEF OpenLedger, QuarantineLedger, Close, Crash, PutCandidate, Claim, world
      <3>2. ASSUME NEW p \in Procs, Work(p) PROVE Send(p)
        BY <2>0, <3>2 DEF Work, RecoverAbandonedClaims, SuppressClaim, ChannelRefuses,
           RecordResult, world
      <3>3. ~DamageFile /\ ~Tick
        BY <2>0 DEF DamageFile, Tick, world
      <3>4. QED
        BY <3>1, <3>2, <3>3 DEF Next
    <2>2. pc[p] = "claimed" /\ job[p] = m
      BY <2>1 DEF Send, TypeOK, Busy
    <2>3. QED
      BY <2>2 DEF Holds, Busy, QuarantinerInv
  <1>3. QED
    BY <1>1, <1>2, QuarantinerNext, TypeCorrect, PTL DEF Spec, QuarantinerSendsNothing

(***************************************************************************)
(* The cooldown, for one process at a time.                                *)
(***************************************************************************)

\* What was sent on ch and is the same alert as k, and what of it k overrides.
SentLike(k, ch) == {l \in Keys : SameAlert(k, l) /\ Status(<<l, ch>>) = "SENT"}
Overrides(k, ch) == \E prev \in SentLike(k, ch) \ {k} : CooldownOverride(k, prev)

\* A claim at t was not in the cooldown of what was sent.
Cleared(k, ch, t) ==
  (\E l \in SentLike(k, ch) : deliveries[<<l, ch>>].at >= t - Cooldown) => Overrides(k, ch)

\* Every row has its candidate, so that _latest_sent finds it, and the message
\* in hand was cleared.
CooldownInv ==
  /\ \A m \in Messages : Status(m) # "NONE" => m[1] \in candidates
  /\ \A p \in Procs, k \in Keys, ch \in Channels, t \in 0..MaxTime :
       Busy(p) /\ job[p] = <<k, ch>> /\ at[p] = t => Cleared(k, ch, t)
  /\ CooldownHonoured

\* What was sent within the cooldown has a latest message.
LEMMA LatestExists ==
  ASSUME TypeOK, NEW k \in Keys, NEW ch \in Channels, NEW t \in 0..MaxTime,
         RecentlySent(k, ch, t) # {}
  PROVE  LatestSent(k, ch, t) # {}
  <1> DEFINE R == RecentlySent(k, ch, t)
             When(l) == deliveries[<<l, ch>>].at
             Ages == {MaxTime - When(l) : l \in R}
  <1>1. \A l \in R : When(l) \in 0..MaxTime
    BY DEF RecentlySent, TypeOK, Messages
  <1>2. Ages \subseteq Nat /\ Ages # {}
    <2> HIDE DEF R, When
    <2>1. \A l \in R : MaxTime - When(l) \in Nat
      BY <1>1, BoundsAssumption
    <2>2. R # {}
      BY DEF R
    <2>3. QED
      BY <2>1, <2>2
  <1>3. PICK a \in Ages : \A b \in Ages : ~(<<b, a>> \in OpToRel(<, Nat))
    <2> HIDE DEF Ages
    <2> QED
      BY <1>2, NatLessThanWellFounded, WFMin
  <1>4. PICK l \in R : a = MaxTime - When(l)
    OBVIOUS
  <1>5. \A o \in R : ~(MaxTime - When(o) < MaxTime - When(l))
    <2>1. \A o \in R : MaxTime - When(o) \in Ages
      OBVIOUS
    <2> HIDE DEF Ages, R, When
    <2>2. QED
      BY <1>2, <1>3, <1>4, <2>1 DEF OpToRel
  <1>6. \A o \in R : When(o) <= When(l)
    <2> HIDE DEF R, When, Ages
    <2> QED
      BY <1>1, <1>5, BoundsAssumption
  <1>7. l \in LatestSent(k, ch, t)
    BY <1>6 DEF LatestSent
  <1>8. QED
    BY <1>7

\* What is sent stays as it is.
SentKept ==
  \A m \in Messages : /\ Status(m)' = "SENT" <=> Status(m) = "SENT"
                      /\ Status(m) = "SENT" => deliveries'[m].at = deliveries[m].at

\* A message that is past the cooldown stays so.
LEMMA ClearedKept ==
  ASSUME SentKept, NEW k \in Keys, NEW ch \in Channels, NEW t, Cleared(k, ch, t)
  PROVE  Cleared(k, ch, t)'
  <1>1. \A l \in Keys : <<l, ch>> \in Messages
    BY DEF Messages
  <1>2. \A l \in Keys : Status(<<l, ch>>)' = "SENT" <=> Status(<<l, ch>>) = "SENT"
    BY <1>1 DEF SentKept
  <1>3. SentLike(k, ch)' = SentLike(k, ch)
    BY <1>2 DEF SentLike
  <1>4. Overrides(k, ch)' <=> Overrides(k, ch)
    BY <1>3 DEF Overrides
  <1>5. \A l \in SentLike(k, ch) : deliveries'[<<l, ch>>].at = deliveries[<<l, ch>>].at
    BY <1>1 DEF SentKept, SentLike
  <1>6. QED
    BY <1>3, <1>4, <1>5 DEF Cleared

\* A step that keeps what was sent keeps the cooldown honoured.
LEMMA HonouredKept ==
  ASSUME SentKept, CooldownHonoured
  PROVE  CooldownHonoured'
  <1>1. \A k \in Keys, ch \in Channels :
          /\ Status(<<k, ch>>)' = "SENT" <=> Status(<<k, ch>>) = "SENT"
          /\ Status(<<k, ch>>) = "SENT" => deliveries'[<<k, ch>>].at = deliveries[<<k, ch>>].at
    BY DEF SentKept, Messages
  <1> SUFFICES ASSUME NEW ch \in Channels, NEW k \in Keys, NEW l \in Keys, k # l,
                      Status(<<k, ch>>)' = "SENT", Status(<<l, ch>>)' = "SENT", SameAlert(k, l),
                      deliveries'[<<k, ch>>].at - deliveries'[<<l, ch>>].at \in 0..Cooldown
               PROVE  \E x \in {k, l} : \E prev \in {y \in Keys : Status(<<y, ch>>)' = "SENT"} \ {x} :
                        SameAlert(x, prev) /\ CooldownOverride(x, prev)
    BY DEF CooldownHonoured
  <1>2. deliveries[<<k, ch>>].at - deliveries[<<l, ch>>].at \in 0..Cooldown
    BY <1>1
  <1>3. {y \in Keys : Status(<<y, ch>>)' = "SENT"} = {y \in Keys : Status(<<y, ch>>) = "SENT"}
    BY <1>1
  <1>4. QED
    BY <1>1, <1>2, <1>3 DEF CooldownHonoured

\* A step that sends nothing and gives nobody a message.
LEMMA CooldownKept ==
  ASSUME TypeOK, CooldownInv, SentKept,
         \A m \in Messages : Status(m)' # "NONE" => m[1] \in candidates',
         \A p \in Procs : Busy(p)' => Busy(p) /\ job'[p] = job[p] /\ at'[p] = at[p]
  PROVE  CooldownInv'
  <1>1. ASSUME NEW p \in Procs, NEW k \in Keys, NEW ch \in Channels, NEW t \in 0..MaxTime,
               Busy(p)', job'[p] = <<k, ch>>, at'[p] = t
        PROVE  Cleared(k, ch, t)'
    <2>1. Cleared(k, ch, t)
      BY <1>1 DEF CooldownInv
    <2>2. QED
      BY <2>1, ClearedKept
  <1>2. CooldownHonoured'
    BY HonouredKept DEF CooldownInv
  <1>3. QED
    BY <1>1, <1>2 DEF CooldownInv

\* A won claim is cleared, as _latest_sent found nothing or it is overridden.
LEMMA WonCleared ==
  ASSUME TypeOK, CooldownInv, NEW p \in Procs, NEW k \in Keys, NEW ch \in Channels,
         Status(<<k, ch>>) = "NONE",
         \/ LatestSent(k, ch, at[p]) = {}
         \/ \E prev \in LatestSent(k, ch, at[p]) : CooldownOverride(k, prev)
  PROVE  Cleared(k, ch, at[p])
  <1>0. at[p] \in 0..MaxTime
    BY DEF TypeOK
  <1>1. CASE LatestSent(k, ch, at[p]) = {}
    <2>1. RecentlySent(k, ch, at[p]) = {}
      BY <1>0, <1>1, LatestExists
    <2>2. \A l \in SentLike(k, ch) : l \in candidates
      <3>1. \A l \in Keys : <<l, ch>> \in Messages /\ <<l, ch>>[1] = l
        BY DEF Messages
      <3>2. QED
        BY <3>1 DEF SentLike, CooldownInv
    <2>3. QED
      BY <2>1, <2>2 DEF RecentlySent, SentLike, Cleared
  <1>2. CASE \E prev \in LatestSent(k, ch, at[p]) : CooldownOverride(k, prev)
    <2>1. PICK prev \in LatestSent(k, ch, at[p]) : CooldownOverride(k, prev)
      BY <1>2
    <2>2. prev \in SentLike(k, ch) \ {k}
      BY <2>1 DEF LatestSent, RecentlySent, SentLike, TypeOK
    <2>3. QED
      BY <2>1, <2>2 DEF Cleared, Overrides
  <1>3. QED
    BY <1>1, <1>2

\* A claim by the only process honours the cooldown.
LEMMA ClaimCooldown ==
  ASSUME \A p, q \in Procs : p = q, TypeOK, CooldownInv, NEW p \in Procs, NEW k \in Keys,
         NEW ch \in Channels, NEW w \in BOOLEAN, Claim(p, k, ch, w)
  PROVE  CooldownInv'
  <1> DEFINE m == <<k, ch>>
  <1>1. m \in Messages /\ m[1] = k
    BY DEF Messages
  <1>2. candidates' = candidates \cup {k} /\ at' = at
    BY DEF Claim
  <1>3. ASSUME NEW s \in {"CLAIMED", "SUPPRESSED", "UNCERTAIN"}, WriteClaim(p, m, s),
               Status(m) # "SENT"
        PROVE  SentKept /\ \A n \in Messages : Status(n)' # "NONE" => n[1] \in candidates'
    BY <1>1, <1>2, <1>3 DEF WriteClaim, Row, SentKept, Status, CooldownInv, TypeOK
  <1>4. CASE ClaimWon(p, k, ch, w)
    <2>1. SentKept /\ \A n \in Messages : Status(n)' # "NONE" => n[1] \in candidates'
      BY <1>3, <1>4 DEF ClaimWon
    <2>2. Cleared(k, ch, at[p])
      BY <1>4, WonCleared DEF ClaimWon
    <2>3. ASSUME NEW q \in Procs, NEW kk \in Keys, NEW cc \in Channels, NEW t \in 0..MaxTime,
                 Busy(q)', job'[q] = <<kk, cc>>, at'[q] = t
          PROVE  Cleared(kk, cc, t)'
      <3>1. q = p
        OBVIOUS
      <3>2. kk = k /\ cc = ch
        BY <1>4, <2>3, <3>1 DEF ClaimWon, Proceed, TypeOK
      <3>3. t = at[p]
        BY <1>2, <2>3, <3>1
      <3>4. QED
        BY <2>1, <2>2, <3>2, <3>3, ClearedKept
    <2>4. CooldownHonoured'
      BY <2>1, HonouredKept DEF CooldownInv
    <2>5. QED
      BY <2>1, <2>3, <2>4 DEF CooldownInv
  <1>5. CASE ClaimInCooldown(p, k, ch, w) \/ ClaimAfterQuarantine(p, k, ch, w)
             \/ ClaimContended(p, k, ch, w)
    <2>1. SentKept /\ \A n \in Messages : Status(n)' # "NONE" => n[1] \in candidates'
      BY <1>3, <1>5 DEF ClaimInCooldown, ClaimAfterQuarantine, ClaimContended
    <2>2. pc' = pc /\ job' = job
      BY <1>5 DEF ClaimInCooldown, ClaimAfterQuarantine, ClaimContended
    <2>3. QED
      BY <1>2, <2>1, <2>2, CooldownKept DEF Busy
  <1>6. CASE ClaimSettled(p, k, ch, w)
    <2>1. SentKept /\ \A n \in Messages : Status(n)' # "NONE" => n[1] \in candidates'
      BY <1>2, <1>6 DEF ClaimSettled, SentKept, Status, CooldownInv
    <2>2. QED
      BY <1>2, <1>6, <2>1, CooldownKept DEF ClaimSettled, Busy
  <1>7. QED
    BY <1>4, <1>5, <1>6 DEF Claim

\* A message recorded as SENT was cleared when it was claimed, and nothing was
\* sent since.
LEMMA RecordCooldown ==
  ASSUME \A p, q \in Procs : p = q, TypeOK, CooldownInv, NEW p \in Procs, RecordResult(p)
  PROVE  CooldownInv'
  <1>1. Busy(p) /\ job[p] \in Messages /\ candidates' = candidates /\ at' = at
    BY DEF RecordResult, Busy, TypeOK, Return
  <1>2. \A q \in Procs : ~Busy(q)'
    BY DEF RecordResult, Return, Busy, TypeOK
  <1>3. \A n \in Messages : Status(n)' # "NONE" => n[1] \in candidates'
    BY <1>1 DEF RecordResult, Status, Row, CooldownInv, TypeOK
  <1>4. CASE ~(Status(job[p]) = "CLAIMED" /\ answer[p] = "SENT")
    <2>1. SentKept
      <3>1. CASE deliveries' = deliveries
        BY <3>1 DEF Status, SentKept
      <3>2. CASE Status(job[p]) = "CLAIMED"
                   /\ deliveries' = [deliveries EXCEPT ![job[p]] = Row(answer[p], at[p])]
        <4>1. /\ deliveries'[job[p]].status = answer[p]
              /\ \A m \in Messages \ {job[p]} : deliveries'[m] = deliveries[m]
          BY <1>1, <3>2 DEF Status, Row, TypeOK
        <4>2. answer[p] # "SENT"
          BY <1>4, <3>2
        <4>3. QED
          BY <3>2, <4>1, <4>2 DEF Status, SentKept
      <3>3. QED
        BY <3>1, <3>2 DEF RecordResult
    <2>2. QED
      BY <1>2, <1>3, <2>1, CooldownKept
  <1>5. CASE Status(job[p]) = "CLAIMED" /\ answer[p] = "SENT"
    <2>1. PICK n \in Keys, c \in Channels : job[p] = <<n, c>>
      BY <1>1 DEF Messages
    <2>2. Cleared(n, c, at[p])
      BY <1>1, <2>1 DEF CooldownInv, TypeOK
    <2>3. deliveries' = [deliveries EXCEPT ![<<n, c>>] = Row("SENT", at[p])]
      BY <1>5, <2>1 DEF RecordResult
    <2>4. /\ Status(<<n, c>>)' = "SENT" /\ deliveries'[<<n, c>>].at = at[p]
          /\ \A l \in Keys, d \in Channels : <<l, d>> # <<n, c>> =>
               deliveries'[<<l, d>>] = deliveries[<<l, d>>]
      BY <2>3 DEF Status, Row, TypeOK, Messages
    <2>5. CooldownHonoured'
      <3> SUFFICES ASSUME NEW ch \in Channels, NEW k \in Keys, NEW l \in Keys, k # l,
                          Status(<<k, ch>>)' = "SENT", Status(<<l, ch>>)' = "SENT", SameAlert(k, l),
                          deliveries'[<<k, ch>>].at - deliveries'[<<l, ch>>].at \in 0..Cooldown
                   PROVE  \E x \in {k, l} :
                            \E prev \in {y \in Keys : Status(<<y, ch>>)' = "SENT"} \ {x} :
                              SameAlert(x, prev) /\ CooldownOverride(x, prev)
        BY DEF CooldownHonoured
      <3> DEFINE sent == {y \in Keys : Status(<<y, ch>>) = "SENT"}
      <3>1. \A y \in sent : Status(<<y, ch>>)' = "SENT"
        BY <1>5, <2>1, <2>4 DEF Status
      <3>2. CASE <<n, c>> # <<k, ch>> /\ <<n, c>> # <<l, ch>>
        <4>1. /\ deliveries'[<<k, ch>>] = deliveries[<<k, ch>>]
              /\ deliveries'[<<l, ch>>] = deliveries[<<l, ch>>]
          BY <2>4, <3>2
        <4>2. \E x \in {k, l} : \E prev \in sent \ {x} : SameAlert(x, prev) /\ CooldownOverride(x, prev)
          <5>1. CooldownHonoured
            BY DEF CooldownInv
          <5>2. k \in sent /\ l \in sent
            BY <4>1 DEF Status
          <5>3. deliveries[<<k, ch>>].at - deliveries[<<l, ch>>].at \in 0..Cooldown
            BY <4>1
          <5>4. QED
            BY <5>1, <5>2, <5>3 DEF CooldownHonoured
        <4>3. QED
          BY <3>1, <4>2
      <3>3. ASSUME NEW o \in Keys, o # n, c = ch, SameAlert(n, o), Status(<<o, ch>>)' = "SENT",
                   deliveries'[<<o, ch>>].at >= at[p] - Cooldown
            PROVE  \E prev \in sent \ {n} : SameAlert(n, prev) /\ CooldownOverride(n, prev)
        <4>1. deliveries'[<<o, ch>>] = deliveries[<<o, ch>>]
          BY <2>4, <3>3
        <4>2. o \in SentLike(n, c)
          BY <3>3, <4>1 DEF SentLike, Status
        <4>3. Overrides(n, c)
          BY <2>2, <3>3, <4>1, <4>2 DEF Cleared
        <4>4. QED
          BY <3>3, <4>3 DEF Overrides, SentLike
      <3>4. at[p] \in Int /\ Cooldown \in Nat
        BY CooldownAssumption DEF TypeOK
      <3>5. CASE <<n, c>> = <<k, ch>>
        <4>1. deliveries'[<<l, ch>>].at \in Int
          BY <2>4, <3>5 DEF TypeOK, Messages
        <4>2. deliveries'[<<l, ch>>].at >= at[p] - Cooldown
          BY <2>4, <3>4, <3>5, <4>1
        <4>3. QED
          BY <3>1, <3>3, <3>5, <4>2
      <3>6. CASE <<n, c>> = <<l, ch>>
        <4>1. deliveries'[<<k, ch>>].at \in Int
          BY <2>4, <3>6 DEF TypeOK, Messages
        <4>2. deliveries'[<<k, ch>>].at >= at[p] - Cooldown
          BY <2>4, <3>4, <3>6, <4>1
        <4>3. SameAlert(n, k)
          BY <3>6 DEF SameAlert
        <4>4. QED
          BY <3>1, <3>3, <3>6, <4>2, <4>3
      <3>7. QED
        BY <3>2, <3>5, <3>6
    <2>6. QED
      BY <1>2, <1>3, <2>5 DEF CooldownInv
  <1>6. QED
    BY <1>4, <1>5

\* Every step of the only process keeps the cooldown honoured.
LEMMA CooldownNext ==
  ASSUME \A p, q \in Procs : p = q, TypeOK, CooldownInv, [Next]_vars
  PROVE  CooldownInv'
  <1> USE DEF local
  <1>1. ASSUME deliveries' = deliveries, candidates \subseteq candidates',
               \A p \in Procs : Busy(p)' => Busy(p) /\ job'[p] = job[p] /\ at'[p] = at[p]
        PROVE  CooldownInv'
    <2>1. SentKept /\ \A m \in Messages : Status(m)' # "NONE" => m[1] \in candidates'
      BY <1>1 DEF SentKept, Status, CooldownInv
    <2>2. QED
      BY <1>1, <2>1, CooldownKept
  <1>2. ASSUME NEW p \in Procs, OpenLedger(p) \/ Close(p) \/ Crash(p) PROVE CooldownInv'
    BY <1>1, <1>2 DEF OpenLedger, Close, Crash, Stop, ledger, Busy, TypeOK
  <1>3. ASSUME NEW p \in Procs, QuarantineLedger(p) PROVE CooldownInv'
    <2>1. \A m \in Messages : Status(m)' = "NONE"
      BY <1>3 DEF QuarantineLedger, NoRow, Status
    <2>2. \A q \in Procs : ~Busy(q)'
      BY <1>3 DEF QuarantineLedger, Busy, TypeOK
    <2>3. CooldownHonoured'
      BY <2>1 DEF CooldownHonoured, Messages
    <2>4. QED
      BY <2>1, <2>2, <2>3 DEF CooldownInv
  <1>4. ASSUME NEW p \in Procs, NEW k \in Keys, PutCandidate(p, k) PROVE CooldownInv'
    BY <1>1, <1>4 DEF PutCandidate, Busy
  <1>5. ASSUME NEW p \in Procs, Work(p) PROVE CooldownInv'
    <2>1. CASE RecoverAbandonedClaims(p) \/ SuppressClaim(p)
      <3>1. SentKept
        BY <2>1 DEF RecoverAbandonedClaims, SuppressClaim, SentKept, Status, Row, TypeOK, Busy
      <3>2. \A m \in Messages : Status(m)' # "NONE" => m[1] \in candidates'
        BY <2>1 DEF RecoverAbandonedClaims, SuppressClaim, Status, Row, TypeOK, Busy, CooldownInv
      <3>3. \A q \in Procs : Busy(q)' => Busy(q) /\ job'[q] = job[q] /\ at'[q] = at[q]
        BY <2>1 DEF RecoverAbandonedClaims, SuppressClaim, Return, TypeOK, Busy
      <3>4. QED
        BY <3>1, <3>2, <3>3, CooldownKept
    <2>2. CASE ChannelRefuses(p) \/ Send(p)
      <3>1. /\ deliveries' = deliveries /\ candidates' = candidates /\ job' = job /\ at' = at
            /\ pc[p] = "claimed" /\ pc' = [pc EXCEPT ![p] = "answered"]
        BY <2>2 DEF ChannelRefuses, Send, ledger
      <3>2. QED
        BY <1>1, <3>1 DEF Busy, TypeOK
    <2>3. QED
      BY <1>5, <2>1, <2>2, RecordCooldown DEF Work
  <1>6. CASE DamageFile \/ Tick \/ UNCHANGED vars
    BY <1>1, <1>6 DEF DamageFile, Tick, vars, ledger, Busy
  <1>7. QED
    BY <1>2, <1>3, <1>4, <1>5, <1>6, ClaimCooldown DEF Next

\* Whatever is sent over the same alert within the cooldown overrides what was
\* sent, as long as one process at a time uses the ledger (claim, _latest_sent,
\* _cooldown_override).
THEOREM CooldownAlwaysHonoured ==
  ASSUME \A p, q \in Procs : p = q
  PROVE  Spec => []CooldownHonoured
  <1>1. Init => CooldownInv
    BY DEF Init, CooldownInv, CooldownHonoured, NoRow, Status, Busy, Messages
  <1>2. TypeOK /\ CooldownInv /\ [Next]_vars => CooldownInv'
    BY CooldownNext
  <1>3. CooldownInv => CooldownHonoured
    BY DEF CooldownInv
  <1>4. QED
    BY <1>1, <1>2, <1>3, TypeCorrect, PTL DEF Spec

=============================================================================
