-------------------------- MODULE ResearchStateProofs --------------------------
(***************************************************************************)
(* What is proved of the daily research runs, for any companies, machines, *)
(* facts and bounds. A machine that still may push holds the branch's      *)
(* states and one evaluation of them (WorkInv); while a machine that has   *)
(* pushed keeps the group, nobody else can push (GroupInv); and the site   *)
(* is never ahead of the branch (SiteInv).                                 *)
(***************************************************************************)
EXTENDS ResearchState, TLAPS

\* What is true of every record: a failed evaluation is kept above FALLING
\* only, and a company without a record was never evaluated.
Sound(rec) ==
  /\ rec.failed = 1 => rec.level > Falling
  /\ ~rec.known => rec.last = 0

\* One evaluation in a later session, or none.
Moves(a, b) ==
  \/ /\ b.last > a.last
     /\ \/ a.level < Confirmed /\ b.level = a.level + 1 /\ b.failed = 0
        \/ b.level = a.level /\ b.failed = 0
        \/ a.level > Falling /\ a.failed = 0 /\ b.level = a.level /\ b.failed = 1
        \/ a.level > Falling /\ a.failed = 1 /\ b.level = a.level - 1 /\ b.failed = 0
        \/ b.level = Falling /\ b.failed = 0
     /\ \/ b.level = a.level /\ b.changed = a.changed
        \/ b.level # a.level /\ b.changed = b.last
        \/ a.last = 0 /\ b.changed = a.changed
  \/ /\ b.level = a.level /\ b.failed = a.failed /\ b.last = a.last
     /\ b.changed = a.changed /\ b.established = a.established

\* A failed evaluation of a state above FALLING.
LEMMA FailedMoves ==
  ASSUME NEW prev \in Records, prev.level > Falling
  PROVE  /\ Failed(prev).level \in Levels /\ Failed(prev).failed \in {0, 1}
         /\ Failed(prev).failed = 1 => Failed(prev).level > Falling
         /\ \/ prev.failed = 0 /\ Failed(prev).level = prev.level /\ Failed(prev).failed = 1
            \/ prev.failed = 1 /\ Failed(prev).level = prev.level - 1 /\ Failed(prev).failed = 0
BY DEF Failed, Records, Levels, Falling, Confirmed

\* StateMachine.evaluate moves by one edge, or resets.
LEMMA EvaluatedMoves ==
  ASSUME NEW prev \in Records, Sound(prev), NEW facts \in Facts,
         NEW new, new = Evaluated(prev, facts)
  PROVE  /\ new.level \in Levels /\ new.failed \in {0, 1}
         /\ new.failed = 1 => new.level > Falling
         /\ \/ prev.level < Confirmed /\ new.level = prev.level + 1 /\ new.failed = 0
            \/ new.level = prev.level /\ new.failed = 0
            \/ prev.level > Falling /\ prev.failed = 0 /\ new.level = prev.level /\ new.failed = 1
            \/ prev.level > Falling /\ prev.failed = 1 /\ new.level = prev.level - 1 /\ new.failed = 0
            \/ new.level = Falling /\ new.failed = 0
<1>0. /\ prev.level \in Levels /\ prev.failed \in {0, 1} /\ facts.holds \subseteq Levels
      /\ facts.low \in BOOLEAN
  BY FactsAssumption DEF Records
<1>1. CASE facts.low
  <2>1. new = [level |-> Falling, failed |-> 0]
    BY <1>1 DEF Evaluated
  <2> QED BY <2>1 DEF Levels, Falling, Confirmed
<1>2. CASE ~facts.low /\ prev.level = Falling /\ Falling \notin facts.holds
  <2>1. new = [level |-> prev.level, failed |-> prev.failed]
    BY <1>2 DEF Evaluated
  <2>2. prev.failed = 0
    BY <1>0, <1>2 DEF Sound, Falling
  <2> QED BY <2>1, <2>2, <1>0, <1>2
<1>3. CASE ~facts.low /\ ~(prev.level = Falling /\ Falling \notin facts.holds)
  <2>1. new = IF prev.level + 1 \in facts.holds THEN [level |-> prev.level + 1, failed |-> 0]
              ELSE IF prev.level \in facts.holds THEN [level |-> prev.level, failed |-> 0]
              ELSE Failed(prev)
    BY <1>3 DEF Evaluated
  <2>2. CASE prev.level + 1 \in facts.holds
    <3>1. new = [level |-> prev.level + 1, failed |-> 0] BY <2>1, <2>2
    <3>2. prev.level + 1 \in Levels BY <1>0, <2>2
    <3> QED BY <3>1, <3>2, <1>0 DEF Levels, Falling, Confirmed
  <2>3. CASE prev.level + 1 \notin facts.holds /\ prev.level \in facts.holds
    <3>1. new = [level |-> prev.level, failed |-> 0] BY <2>1, <2>3
    <3> QED BY <3>1, <1>0
  <2>4. CASE prev.level + 1 \notin facts.holds /\ prev.level \notin facts.holds
    <3>1. new = Failed(prev) BY <2>1, <2>4
    <3>2. prev.level > Falling BY <1>0, <1>3, <2>4 DEF Levels, Falling, Confirmed
    <3> QED BY <3>1, <3>2, FailedMoves
  <2> QED BY <2>2, <2>3, <2>4
<1> QED BY <1>0, <1>1, <1>2, <1>3

\* What scoring one company does to its record and shows of it.
LEMMA ScoringMoves ==
  ASSUME NEW prev \in Records, Sound(prev), NEW o \in Observations,
         NEW session \in Nat, session > 0, prev.last <= session,
         NEW next, next = NextRecord(prev, o, session),
         NEW row, row = Row(prev, o, session)
  PROVE  /\ next \in Records /\ Sound(next) /\ next.last <= session
         /\ Moves(prev, next)
         /\ row \in {Missing, Display(next)}
         /\ row \in Shown
<1> DEFINE upd == Updated(prev, o.facts, session)
<1>0. /\ prev.level \in Levels /\ prev.failed \in {0, 1} /\ prev.last \in Nat
      /\ prev.changed \in Nat /\ prev.established \in BOOLEAN /\ prev.known \in BOOLEAN
      /\ o.facts \in Facts /\ o.kind \in {"ABSENT", "UNSCORED", "STALE", "COMPLETE"}
  BY DEF Records, Observations
<1>1. CASE Reused(prev, o, session) \/ (Withheld(o) /\ prev.established)
  <2>1. next = prev BY <1>1 DEF NextRecord
  <2>2. row \in {Missing, Display(prev)}
    BY <1>1, <1>0 DEF Row, Reused, Withheld, Display
  <2>3. row \in Shown BY <2>2, <1>0 DEF Shown, Display
  <2>4. Moves(prev, prev) BY DEF Moves
  <2> QED BY <2>1, <2>2, <2>3, <2>4
<1>2. CASE ~(Reused(prev, o, session) \/ (Withheld(o) /\ prev.established))
           /\ o.kind = "COMPLETE"
  <2> DEFINE new == Evaluated(prev, o.facts)
             est == prev.established \/ new.level # Falling \/ Falling \in o.facts.holds
             chg == IF prev.known /\ prev.level # new.level THEN session ELSE prev.changed
  <2>1. next = upd BY <1>2 DEF NextRecord
  <2>2. upd = [known |-> TRUE, level |-> new.level, failed |-> new.failed,
               established |-> est, last |-> session, changed |-> chg]
    BY DEF Updated
  <2>3. prev.last < session
    BY <1>0, <1>2 DEF Reused
  <2>4. /\ new.level \in Levels /\ new.failed \in {0, 1}
        /\ new.failed = 1 => new.level > Falling
        /\ \/ prev.level < Confirmed /\ new.level = prev.level + 1 /\ new.failed = 0
           \/ new.level = prev.level /\ new.failed = 0
           \/ prev.level > Falling /\ prev.failed = 0 /\ new.level = prev.level /\ new.failed = 1
           \/ prev.level > Falling /\ prev.failed = 1 /\ new.level = prev.level - 1 /\ new.failed = 0
           \/ new.level = Falling /\ new.failed = 0
    BY <1>0, EvaluatedMoves
  <2>5. chg \in Nat BY <1>0
  <2>6. \/ new.level = prev.level /\ chg = prev.changed
        \/ new.level # prev.level /\ chg = session
        \/ prev.last = 0 /\ chg = prev.changed
    BY <1>0 DEF Sound
  <2>7. est \in BOOLEAN OBVIOUS
  <2> HIDE DEF new, est, chg, upd
  <2>8. upd \in Records BY <2>2, <2>4, <2>5, <2>7 DEF Records
  <2>9. /\ upd.level = new.level /\ upd.failed = new.failed /\ upd.last = session
        /\ upd.changed = chg /\ upd.known
    BY <2>2
  <2>10. Sound(upd) BY <2>4, <2>9 DEF Sound
  <2>11. Moves(prev, upd) BY <2>3, <2>4, <2>6, <2>9 DEF Moves
  <2>12. row = Display(upd)
    BY <1>2 DEF Row, Withheld, upd
  <2>13. row \in Shown BY <2>12, <2>8 DEF Shown, Display, Records
  <2> QED BY <2>1, <2>8, <2>9, <2>10, <2>11, <2>12, <2>13
<1>3. CASE ~(Reused(prev, o, session) \/ (Withheld(o) /\ prev.established))
           /\ o.kind # "COMPLETE"
  <2>1. next = [prev EXCEPT !.known = (prev.known \/ o.kind = "STALE")]
    BY <1>3 DEF NextRecord
  <2>2. next \in Records BY <2>1 DEF Records
  <2>3. /\ next.level = prev.level /\ next.failed = prev.failed /\ next.last = prev.last
        /\ next.changed = prev.changed /\ next.established = prev.established
        /\ next.known = (prev.known \/ o.kind = "STALE")
    BY <2>1 DEF Records
  <2>4. Sound(next) BY <2>3 DEF Sound
  <2>5. Moves(prev, next) BY <2>3 DEF Moves
  <2>6. row \in {Missing, Display(next)}
    <3>1. CASE o.kind = "ABSENT" BY <3>1 DEF Row
    <3>2. CASE o.kind # "ABSENT"
      <4>1. ~prev.established BY <1>0, <1>3, <3>2 DEF Withheld
      <4>2. row = Unknown BY <1>3, <3>2, <4>1 DEF Row, Reused
      <4>3. Display(next) = Unknown BY <4>1, <2>3 DEF Display
      <4> QED BY <4>2, <4>3
    <3> QED BY <3>1, <3>2
  <2>7. row \in Shown BY <2>6, <2>2 DEF Shown, Display, Records
  <2> QED BY <2>2, <2>3, <2>4, <2>5, <2>6, <2>7
<1> QED BY <1>1, <1>2, <1>3

--------------------------------------------------------------------------------
Working == {"restored", "scored", "archived"}
Finished == {"scored", "archived", "pushed"}

\* The sessions recorded on the branch and in a machine's copy are in the past.
SoundInv ==
  /\ now > 0
  /\ \A c \in Issuers : Sound(branch.states[c]) /\ branch.states[c].last <= now
  /\ \A r \in Runners : \A c \in Issuers :
       Sound(prior[r][c]) /\ prior[r][c].last <= now

\* A machine that finds the head it restored has the states of the branch, and
\* computed one evaluation of them.
WorkInv ==
  \A r \in Runners :
    /\ pc[r] \in Working =>
         /\ expected[r] <= head
         /\ expected[r] = head => prior[r] = branch.states
    /\ pc[r] \in Finished => \A c \in Issuers :
         /\ Sound(result[r][c]) /\ result[r][c].last <= now
         /\ Moves(prior[r][c], result[r][c])
         /\ rows[r][c] \in {Missing, Display(result[r][c])}

\* A machine that pushed and keeps the group pushed last.
GroupInv ==
  \A r \in Runners : (pc[r] = "pushed" /\ active = r) =>
    /\ branch.states = result[r]
    /\ \A q \in Runners : pc[q] \in Working => expected[q] < head

\* An archived machine's rows are in the archive.
ArchiveInv ==
  \A r \in Runners : pc[r] \in {"archived", "pushed"} =>
    [run |-> run[r], shown |-> rows[r]] \in archive

\* The site is not ahead of the branch.
SiteInv ==
  \A c \in Issuers : site.last[c] <= branch.states[c].last

IInv == TypeOK /\ SoundInv /\ WorkInv /\ GroupInv /\ ArchiveInv /\ SiteInv
        /\ SiteAgrees /\ StateIsRecoverable

USE RunnersAssumption

\* The initial state satisfies the invariant.
LEMMA InitEstablishes == Init => IInv
<1> SUFFICES ASSUME Init PROVE IInv OBVIOUS
<1>1. NoRecord \in Records BY DEF NoRecord, Records, Levels, Falling, Confirmed
<1>2. NoStates \in [Issuers -> Records] BY <1>1 DEF NoStates
<1>3. NoRows \in [Issuers -> Shown] BY DEF NoRows, Shown
<1>4. TypeOK BY <1>2, <1>3 DEF Init, TypeOK
<1>5. \A c \in Issuers : NoStates[c] = NoRecord BY DEF NoStates
<1>6. Sound(NoRecord) /\ NoRecord.last = 0 BY DEF Sound, NoRecord
<1>7. SoundInv BY <1>5, <1>6 DEF Init, SoundInv
<1>8. WorkInv /\ GroupInv /\ ArchiveInv
  BY DEF Init, WorkInv, GroupInv, ArchiveInv, Working, Finished
<1>9. SiteInv BY <1>5, <1>6 DEF Init, SiteInv
<1>10. SiteAgrees BY DEF Init, SiteAgrees, NoRows
<1>11. StateIsRecoverable BY DEF Init, StateIsRecoverable
<1> QED BY <1>4, <1>7, <1>8, <1>9, <1>10, <1>11 DEF IInv

\* No step but a push touches the branch, none but a deployment the site.
LEMMA TypePreserved ==
  ASSUME TypeOK, SoundInv, [Next]_vars PROVE TypeOK'
<1>0. NoRecord \in Records BY DEF NoRecord, Records, Levels, Falling, Confirmed
<1>1. NoStates \in [Issuers -> Records] BY <1>0 DEF NoStates
<1>2. NoRows \in [Issuers -> Shown] BY DEF NoRows, Shown
<1>3. ASSUME NEW r \in Runners, Start(r) PROVE TypeOK'
  BY <1>3 DEF TypeOK, Start
<1>4. ASSUME NEW r \in Runners, Score(r) PROVE TypeOK'
  <2>1. PICK seen \in [Issuers -> Observations] :
          /\ result' = [result EXCEPT ![r] =
               [c \in Issuers |-> NextRecord(prior[r][c], seen[c], now)]]
          /\ rows' = [rows EXCEPT ![r] =
               [c \in Issuers |-> Row(prior[r][c], seen[c], now)]]
    BY <1>4 DEF Score
  <2>2. ASSUME NEW c \in Issuers
        PROVE  /\ NextRecord(prior[r][c], seen[c], now) \in Records
               /\ Row(prior[r][c], seen[c], now) \in Shown
    <3>1. /\ prior[r][c] \in Records /\ Sound(prior[r][c]) /\ prior[r][c].last <= now
          /\ seen[c] \in Observations /\ now \in Nat /\ now > 0
      BY DEF TypeOK, SoundInv
    <3> QED BY <3>1, ScoringMoves
  <2>3. [c \in Issuers |-> NextRecord(prior[r][c], seen[c], now)] \in [Issuers -> Records]
    BY <2>2
  <2>4. [c \in Issuers |-> Row(prior[r][c], seen[c], now)] \in [Issuers -> Shown]
    BY <2>2
  <2>5. result' \in [Runners -> [Issuers -> Records]] BY <2>1, <2>3 DEF TypeOK
  <2>6. rows' \in [Runners -> [Issuers -> Shown]] BY <2>1, <2>4 DEF TypeOK
  <2> QED BY <1>4, <2>5, <2>6 DEF TypeOK, Score
<1>5. ASSUME NEW r \in Runners, Archive(r) PROVE TypeOK'
  BY <1>5 DEF TypeOK, Archive
<1>6. ASSUME NEW r \in Runners, Push(r) PROVE TypeOK'
  BY <1>6 DEF TypeOK, Push
<1>7. ASSUME NEW r \in Runners, Fail(r) PROVE TypeOK'
  BY <1>1, <1>2, <1>7 DEF TypeOK, Fail, Clean
<1>8. ASSUME NEW r \in Runners, Lose(r) PROVE TypeOK'
  BY <1>8 DEF TypeOK, Lose
<1>9. ASSUME NEW r \in Runners, Deploy(r) PROVE TypeOK'
  <2>1. [c \in Issuers |-> result[r][c].last] \in [Issuers -> Nat]
    BY DEF TypeOK, Records
  <2>2. site' \in [shown : [Issuers -> Shown], last : [Issuers -> Nat]]
    BY <1>9, <2>1 DEF TypeOK, Deploy
  <2> QED BY <1>1, <1>2, <1>9, <2>2 DEF TypeOK, Deploy, Clean
<1>10. ASSUME OtherCommit PROVE TypeOK' BY <1>10 DEF TypeOK, OtherCommit
<1>11. ASSUME CloseSession PROVE TypeOK' BY <1>11 DEF TypeOK, CloseSession
<1>12. ASSUME UNCHANGED vars PROVE TypeOK' BY <1>12 DEF TypeOK, vars
<1> QED BY <1>3, <1>4, <1>5, <1>6, <1>7, <1>8, <1>9, <1>10, <1>11, <1>12 DEF Next

\* Restoring the branch.
LEMMA StartPreserves ==
  ASSUME IInv, TypeOK', NEW r \in Runners, Start(r) PROVE IInv'
<1> USE DEF IInv, TypeOK, Start
<1>1. SoundInv' BY DEF SoundInv
<1>2. WorkInv' BY DEF WorkInv, Working, Finished
<1>3. GroupInv' BY DEF GroupInv, Working
<1>4. ArchiveInv' BY DEF ArchiveInv
<1>5. SiteInv' BY DEF SiteInv
<1>6. SiteAgrees' BY DEF SiteAgrees
<1>7. StateIsRecoverable' BY DEF StateIsRecoverable
<1> QED BY <1>1, <1>2, <1>3, <1>4, <1>5, <1>6, <1>7

\* Scoring: one evaluation of the restored states.
LEMMA ScorePreserves ==
  ASSUME IInv, TypeOK', NEW r \in Runners, Score(r) PROVE IInv'
<1> USE DEF IInv
<1>0. UNCHANGED <<now, head, disturbed, branch, archive, site, started, active, run,
                  expected, prior>>
  BY DEF Score
<1>1. SoundInv' BY <1>0 DEF SoundInv
<1>2. PICK seen \in [Issuers -> Observations] :
        /\ result' = [result EXCEPT ![r] =
             [c \in Issuers |-> NextRecord(prior[r][c], seen[c], now)]]
        /\ rows' = [rows EXCEPT ![r] =
             [c \in Issuers |-> Row(prior[r][c], seen[c], now)]]
  BY DEF Score
<1>3. ASSUME NEW c \in Issuers
      PROVE  /\ Sound(result'[r][c]) /\ result'[r][c].last <= now
             /\ Moves(prior[r][c], result'[r][c])
             /\ rows'[r][c] \in {Missing, Display(result'[r][c])}
  <2>1. /\ prior[r][c] \in Records /\ Sound(prior[r][c]) /\ prior[r][c].last <= now
        /\ seen[c] \in Observations /\ now \in Nat /\ now > 0
    BY DEF TypeOK, SoundInv
  <2>2. /\ result'[r][c] = NextRecord(prior[r][c], seen[c], now)
        /\ rows'[r][c] = Row(prior[r][c], seen[c], now)
    BY <1>2 DEF TypeOK
  <2> QED BY <2>1, <2>2, ScoringMoves
<1>4. \A q \in Runners \ {r} : /\ result'[q] = result[q] /\ rows'[q] = rows[q]
                               /\ pc'[q] = pc[q]
  BY <1>2 DEF TypeOK, Score
<1>5. pc[r] = "restored" /\ pc'[r] = "scored" BY DEF TypeOK, Score
<1>6. WorkInv'
  <2> SUFFICES ASSUME NEW q \in Runners
               PROVE  /\ pc'[q] \in Working =>
                            /\ expected'[q] <= head'
                            /\ expected'[q] = head' => prior'[q] = branch'.states
                      /\ pc'[q] \in Finished => \A c \in Issuers :
                            /\ Sound(result'[q][c]) /\ result'[q][c].last <= now'
                            /\ Moves(prior'[q][c], result'[q][c])
                            /\ rows'[q][c] \in {Missing, Display(result'[q][c])}
    BY DEF WorkInv
  <2>1. CASE q = r BY <1>0, <1>3, <1>5, <2>1 DEF WorkInv, Working, Finished
  <2>2. CASE q # r BY <1>0, <1>4, <2>2 DEF WorkInv
  <2> QED BY <2>1, <2>2
<1>7. GroupInv' BY <1>0, <1>4, <1>5 DEF GroupInv, Working
<1>8. ArchiveInv' BY <1>0, <1>4, <1>5 DEF ArchiveInv
<1>9. SiteInv' BY <1>0 DEF SiteInv
<1>10. SiteAgrees' BY <1>0 DEF SiteAgrees
<1>11. StateIsRecoverable' BY <1>0 DEF StateIsRecoverable
<1> QED BY <1>1, <1>6, <1>7, <1>8, <1>9, <1>10, <1>11

\* Archiving the snapshot.
LEMMA ArchivePreserves ==
  ASSUME IInv, TypeOK', NEW r \in Runners, Archive(r) PROVE IInv'
<1> USE DEF IInv, TypeOK, Archive
<1>1. SoundInv' BY DEF SoundInv
<1>2. WorkInv' BY DEF WorkInv, Working, Finished
<1>3. GroupInv' BY DEF GroupInv, Working
<1>4. ArchiveInv' BY DEF ArchiveInv
<1>5. SiteInv' BY DEF SiteInv
<1>6. SiteAgrees' BY DEF SiteAgrees
<1>7. StateIsRecoverable' BY DEF StateIsRecoverable
<1> QED BY <1>1, <1>2, <1>3, <1>4, <1>5, <1>6, <1>7

\* Committing the states: only on the head that was restored.
LEMMA PushPreserves ==
  ASSUME IInv, TypeOK', NEW r \in Runners, Push(r) PROVE IInv'
<1> USE DEF IInv
<1>0. /\ pc[r] = "archived" /\ head = expected[r] /\ head' = head + 1
      /\ branch'.states = result[r] /\ branch'.snapshot = run[r]
      /\ pc' = [pc EXCEPT ![r] = "pushed"]
      /\ UNCHANGED <<now, disturbed, archive, site, started, active, run, expected,
                     prior, result, rows>>
  BY DEF Push
<1>1. prior[r] = branch.states BY <1>0 DEF WorkInv, Working
<1>2. \A c \in Issuers :
        /\ Sound(result[r][c]) /\ result[r][c].last <= now
        /\ Moves(branch.states[c], result[r][c])
        /\ rows[r][c] \in {Missing, Display(result[r][c])}
  BY <1>0, <1>1 DEF WorkInv, Finished
<1>3. SoundInv' BY <1>0, <1>2 DEF SoundInv
<1>4. \A q \in Runners \ {r} : pc'[q] = pc[q] BY <1>0 DEF TypeOK
<1>5. pc'[r] = "pushed" BY <1>0 DEF TypeOK
<1>6. \A q \in Runners : pc'[q] \in Working => expected'[q] < head'
  BY <1>0, <1>4, <1>5 DEF WorkInv, Working, TypeOK
<1>7. WorkInv'
  <2>1. \A q \in Runners : pc'[q] \in Finished => pc[q] \in Finished
    BY <1>0, <1>4, <1>5 DEF Finished
  <2>2. \A q \in Runners : pc'[q] \in Working =>
          expected'[q] <= head' /\ expected'[q] # head'
    BY <1>6, <1>0 DEF TypeOK
  <2> QED BY <1>0, <2>1, <2>2 DEF WorkInv
<1>8. GroupInv'
  <2>1. \A q \in Runners : pc'[q] = "pushed" /\ active' = q => q = r
    <3> SUFFICES ASSUME NEW q \in Runners, pc'[q] = "pushed", active' = q, q # r
                 PROVE FALSE
      OBVIOUS
    <3>1. pc[q] = "pushed" /\ active = q BY <1>0, <1>4
    <3>2. expected[r] < head BY <3>1, <1>0 DEF GroupInv, Working
    <3> QED BY <3>2, <1>0 DEF TypeOK
  <2> QED BY <2>1, <1>0, <1>6 DEF GroupInv
<1>9. ArchiveInv' BY <1>0, <1>4 DEF ArchiveInv
<1>10. SiteInv'
  <2> SUFFICES ASSUME NEW c \in Issuers PROVE site.last[c] <= result[r][c].last
    BY <1>0 DEF SiteInv
  <2>1. site.last[c] <= branch.states[c].last BY DEF SiteInv
  <2>2. /\ site.last[c] \in Nat /\ branch.states[c].last \in Nat
        /\ result[r][c].last \in Nat
    BY DEF TypeOK, Records
  <2>3. \/ result[r][c].last > branch.states[c].last
        \/ result[r][c].last = branch.states[c].last
    BY <1>2 DEF Moves
  <2> QED BY <2>1, <2>2, <2>3
<1>11. SiteAgrees'
  <2> SUFFICES ASSUME NEW c \in Issuers, site.last[c] = result[r][c].last,
                      site.shown[c] # Missing
               PROVE  site.shown[c] = Display(result[r][c])
    BY <1>0 DEF SiteAgrees
  <2>1. /\ site.last[c] \in Nat /\ branch.states[c].last \in Nat
        /\ result[r][c].last \in Nat
    BY DEF TypeOK, Records
  <2>2. ~(result[r][c].last > branch.states[c].last) BY <2>1 DEF SiteInv
  <2>3. /\ result[r][c].level = branch.states[c].level
        /\ result[r][c].last = branch.states[c].last
        /\ result[r][c].established = branch.states[c].established
    BY <1>2, <2>2 DEF Moves
  <2>4. Display(result[r][c]) = Display(branch.states[c]) BY <2>3 DEF Display
  <2> QED BY <2>3, <2>4 DEF SiteAgrees
<1>12. StateIsRecoverable'
  <2>1. [run |-> run[r], shown |-> rows[r]] \in archive BY <1>0 DEF ArchiveInv
  <2> DEFINE a == [run |-> run[r], shown |-> rows[r]]
  <2>2. a.run = branch'.snapshot /\ a.shown = rows[r] BY <1>0
  <2>3. a \in archive' BY <1>0, <2>1
  <2>4. \A c \in Issuers : a.shown[c] \in {Missing, Display(branch'.states[c])}
    BY <1>0, <1>2, <2>2
  <2> QED BY <2>2, <2>3, <2>4 DEF StateIsRecoverable
<1> QED BY <1>3, <1>7, <1>8, <1>9, <1>10, <1>11, <1>12

\* A run that ends: its files go, nothing else moves.
LEMMA FailPreserves ==
  ASSUME IInv, TypeOK', NEW r \in Runners, Fail(r) PROVE IInv'
<1> USE DEF IInv
<1>0. UNCHANGED <<now, head, disturbed, branch, archive, site, started>>
  BY DEF Fail
<1>1. /\ pc'[r] = "idle" /\ prior'[r] = NoStates
      /\ \A q \in Runners \ {r} : /\ pc'[q] = pc[q] /\ run'[q] = run[q]
           /\ expected'[q] = expected[q] /\ prior'[q] = prior[q]
           /\ result'[q] = result[q] /\ rows'[q] = rows[q]
  BY DEF Fail, Clean, TypeOK
<1>2. active' # r /\ \A q \in Runners : active' = q => active = q
  BY DEF Fail, Clean
<1>3. SoundInv'
  <2>1. \A c \in Issuers : Sound(NoStates[c]) /\ NoStates[c].last <= now
    BY DEF NoStates, NoRecord, Sound, TypeOK
  <2> QED BY <1>0, <1>1, <2>1 DEF SoundInv
<1>4. WorkInv' BY <1>0, <1>1 DEF WorkInv, Working, Finished
<1>5. GroupInv' BY <1>0, <1>1, <1>2 DEF GroupInv, Working
<1>6. ArchiveInv' BY <1>0, <1>1 DEF ArchiveInv
<1>7. SiteInv' BY <1>0 DEF SiteInv
<1>8. SiteAgrees' BY <1>0 DEF SiteAgrees
<1>9. StateIsRecoverable' BY <1>0 DEF StateIsRecoverable
<1> QED BY <1>3, <1>4, <1>5, <1>6, <1>7, <1>8, <1>9

\* A lost machine.
LEMMA LosePreserves ==
  ASSUME IInv, TypeOK', NEW r \in Runners, Lose(r) PROVE IInv'
<1> USE DEF IInv, Lose
<1>1. SoundInv' BY DEF SoundInv
<1>2. WorkInv' BY DEF WorkInv
<1>3. GroupInv' BY DEF GroupInv
<1>4. ArchiveInv' BY DEF ArchiveInv
<1>5. SiteInv' BY DEF SiteInv
<1>6. SiteAgrees' BY DEF SiteAgrees
<1>7. StateIsRecoverable' BY DEF StateIsRecoverable
<1> QED BY <1>1, <1>2, <1>3, <1>4, <1>5, <1>6, <1>7

\* What the deploying machine computed is what the branch has.
LEMMA DeployedIsPushed ==
  ASSUME IInv, NEW r \in Runners, Deploy(r)
  PROVE  \A c \in Issuers :
           /\ site'.last[c] = branch.states[c].last
           /\ site'.shown[c] \in {Missing, Display(branch.states[c])}
<1>1. branch.states = result[r] BY DEF IInv, GroupInv, Deploy
<1>2. /\ site'.shown = rows[r]
      /\ site'.last = [c \in Issuers |-> result[r][c].last]
  BY DEF Deploy
<1>3. \A c \in Issuers : rows[r][c] \in {Missing, Display(result[r][c])}
  BY DEF IInv, WorkInv, Finished, Deploy
<1> QED BY <1>1, <1>2, <1>3

\* The deployment.
LEMMA DeployPreserves ==
  ASSUME IInv, TypeOK', NEW r \in Runners, Deploy(r) PROVE IInv'
<1> USE DEF IInv
<1>0. UNCHANGED <<now, head, disturbed, branch, archive, started>>
  BY DEF Deploy
<1>1. /\ pc'[r] = "idle" /\ prior'[r] = NoStates
      /\ \A q \in Runners \ {r} : /\ pc'[q] = pc[q] /\ run'[q] = run[q]
           /\ expected'[q] = expected[q] /\ prior'[q] = prior[q]
           /\ result'[q] = result[q] /\ rows'[q] = rows[q]
  BY DEF Deploy, Clean, TypeOK
<1>2. active' # r /\ \A q \in Runners : active' = q => active = q
  BY DEF Deploy, Clean
<1>3. SoundInv'
  <2>1. \A c \in Issuers : Sound(NoStates[c]) /\ NoStates[c].last <= now
    BY DEF NoStates, NoRecord, Sound, TypeOK
  <2> QED BY <1>0, <1>1, <2>1 DEF SoundInv
<1>4. WorkInv' BY <1>0, <1>1 DEF WorkInv, Working, Finished
<1>5. GroupInv' BY <1>0, <1>1, <1>2 DEF GroupInv, Working
<1>6. ArchiveInv' BY <1>0, <1>1 DEF ArchiveInv
<1>7. SiteInv'
  <2>1. \A c \in Issuers : branch.states[c].last \in Nat BY DEF TypeOK, Records
  <2> QED BY <1>0, <2>1, DeployedIsPushed DEF SiteInv
<1>8. SiteAgrees' BY <1>0, DeployedIsPushed DEF SiteAgrees
<1>9. StateIsRecoverable' BY <1>0 DEF StateIsRecoverable
<1> QED BY <1>3, <1>4, <1>5, <1>6, <1>7, <1>8, <1>9

\* Another job's commit: every restored head is now behind.
LEMMA OtherPreserves ==
  ASSUME IInv, TypeOK', OtherCommit PROVE IInv'
<1> USE DEF IInv, OtherCommit
<1>1. SoundInv' BY DEF SoundInv
<1>2. WorkInv'
  <2>1. \A q \in Runners : pc[q] \in Working =>
          expected[q] <= head' /\ expected[q] # head'
    BY DEF WorkInv, TypeOK
  <2> QED BY <2>1 DEF WorkInv
<1>3. GroupInv'
  <2>1. \A q \in Runners : expected[q] < head => expected[q] < head' BY DEF TypeOK
  <2> QED BY <2>1 DEF GroupInv
<1>4. ArchiveInv' BY DEF ArchiveInv
<1>5. SiteInv' BY DEF SiteInv
<1>6. SiteAgrees' BY DEF SiteAgrees
<1>7. StateIsRecoverable' BY DEF StateIsRecoverable
<1> QED BY <1>1, <1>2, <1>3, <1>4, <1>5, <1>6, <1>7

\* Another session closes.
LEMMA ClosePreserves ==
  ASSUME IInv, TypeOK', CloseSession PROVE IInv'
<1> USE DEF IInv, CloseSession
<1>0. \A n \in Nat : n <= now => n <= now' BY DEF TypeOK
<1>1. SoundInv'
  <2>1. /\ \A c \in Issuers : branch.states[c].last \in Nat
        /\ \A r \in Runners : \A c \in Issuers : prior[r][c].last \in Nat
    BY DEF TypeOK, Records
  <2>2. now' > 0 BY DEF SoundInv, TypeOK
  <2> QED BY <1>0, <2>1, <2>2 DEF SoundInv
<1>2. WorkInv'
  <2>1. \A r \in Runners : \A c \in Issuers : result[r][c].last \in Nat
    BY DEF TypeOK, Records
  <2> QED BY <1>0, <2>1 DEF WorkInv
<1>3. GroupInv' BY DEF GroupInv
<1>4. ArchiveInv' BY DEF ArchiveInv
<1>5. SiteInv' BY DEF SiteInv
<1>6. SiteAgrees' BY DEF SiteAgrees
<1>7. StateIsRecoverable' BY DEF StateIsRecoverable
<1> QED BY <1>1, <1>2, <1>3, <1>4, <1>5, <1>6, <1>7

\* A step that changes nothing.
LEMMA StutterPreserves ==
  ASSUME IInv, UNCHANGED vars PROVE IInv'
BY DEF IInv, TypeOK, SoundInv, WorkInv, GroupInv, ArchiveInv, SiteInv, SiteAgrees,
       StateIsRecoverable, vars

--------------------------------------------------------------------------------
\* The invariant holds in every reachable state.
THEOREM Invariance == Spec => []IInv
<1>1. ASSUME IInv, [Next]_vars PROVE IInv'
  <2>1. TypeOK' BY <1>1, TypePreserved DEF IInv
  <2>2. CASE \E r \in Runners : Start(r) BY <1>1, <2>1, <2>2, StartPreserves
  <2>3. CASE \E r \in Runners : Score(r) BY <1>1, <2>1, <2>3, ScorePreserves
  <2>4. CASE \E r \in Runners : Archive(r) BY <1>1, <2>1, <2>4, ArchivePreserves
  <2>5. CASE \E r \in Runners : Push(r) BY <1>1, <2>1, <2>5, PushPreserves
  <2>6. CASE \E r \in Runners : Fail(r) BY <1>1, <2>1, <2>6, FailPreserves
  <2>7. CASE \E r \in Runners : Lose(r) BY <1>1, <2>1, <2>7, LosePreserves
  <2>8. CASE \E r \in Runners : Deploy(r) BY <1>1, <2>1, <2>8, DeployPreserves
  <2>9. CASE OtherCommit BY <1>1, <2>1, <2>9, OtherPreserves
  <2>10. CASE CloseSession BY <1>1, <2>1, <2>10, ClosePreserves
  <2>11. CASE UNCHANGED vars BY <1>1, <2>11, StutterPreserves
  <2> QED BY <1>1, <2>2, <2>3, <2>4, <2>5, <2>6, <2>7, <2>8, <2>9, <2>10, <2>11 DEF Next
<1> QED BY InitEstablishes, <1>1, PTL DEF Spec

\* Every reachable state is well typed.
THEOREM TypeCorrect == Spec => []TypeOK
<1>1. IInv => TypeOK BY DEF IInv
<1> QED BY Invariance, <1>1, PTL

\* Site and branch agree on every company last evaluated in the same session.
THEOREM SiteAlwaysAgrees == Spec => []SiteAgrees
<1>1. IInv => SiteAgrees BY DEF IInv
<1> QED BY Invariance, <1>1, PTL

\* The snapshot that goes with the committed states is always archived.
THEOREM StateAlwaysRecoverable == Spec => []StateIsRecoverable
<1>1. IInv => StateIsRecoverable BY DEF IInv
<1> QED BY Invariance, <1>1, PTL

\* No step deploys an older evaluation.
THEOREM DeploymentsInOrder == Spec => SiteNeverGoesBack
<1>1. ASSUME IInv, [Next]_vars
      PROVE  [\A c \in Issuers : site'.last[c] >= site.last[c]]_vars
  <2> SUFFICES ASSUME NEW c \in Issuers PROVE site'.last[c] >= site.last[c]
    OBVIOUS
  <2>1. site.last[c] \in Nat BY <1>1 DEF IInv, TypeOK
  <2>2. ASSUME NEW r \in Runners, Deploy(r) PROVE site'.last[c] >= site.last[c]
    <3>1. site'.last[c] = branch.states[c].last
      BY <1>1, <2>2, DeployedIsPushed
    <3>2. site.last[c] <= branch.states[c].last /\ branch.states[c].last \in Nat
      BY <1>1 DEF IInv, SiteInv, TypeOK, Records
    <3> QED BY <2>1, <3>1, <3>2
  <2>3. CASE ~\E r \in Runners : Deploy(r)
    <3>1. UNCHANGED site
      BY <1>1, <2>3 DEF Next, Start, Score, Archive, Push, Fail, Lose, OtherCommit,
                        CloseSession, vars
    <3> QED BY <2>1, <3>1
  <2> QED BY <2>2, <2>3
<1> QED BY Invariance, <1>1, PTL DEF Spec, SiteNeverGoesBack

\* Only a push changes the branch, by one evaluation of every company or none.
LEMMA BranchMoves ==
  ASSUME IInv, [Next]_vars
  PROVE  \A c \in Issuers : Moves(branch.states[c], branch'.states[c])
<1>1. ASSUME NEW r \in Runners, Push(r)
      PROVE  \A c \in Issuers : Moves(branch.states[c], branch'.states[c])
  <2>1. branch'.states = result[r] BY <1>1 DEF Push
  <2>2. prior[r] = branch.states BY <1>1 DEF IInv, WorkInv, Working, Push
  <2>3. \A c \in Issuers : Moves(prior[r][c], result[r][c])
    BY <1>1 DEF IInv, WorkInv, Finished, Push
  <2> QED BY <2>1, <2>2, <2>3
<1>2. CASE ~\E r \in Runners : Push(r)
  <2>1. UNCHANGED branch
    BY <1>2 DEF Next, Start, Score, Archive, Deploy, Fail, Lose, OtherCommit,
                CloseSession, vars
  <2> QED BY <2>1 DEF Moves
<1> QED BY <1>1, <1>2

\* The runs implement the hysteresis: whatever fails, is repeated or overlaps,
\* the branch moves by at most one evaluation per session and company.
THEOREM ImplementsHysteresis == Spec => MovesOncePerSession
<1>1. Init => H!Init
  BY DEF Init, H!Init, NoStates, NoRecord, Falling, H!Falling
<1>2. ASSUME IInv, [Next]_vars PROVE [H!Next]_H!vars
  <2> SUFFICES ASSUME NEW c \in Issuers PROVE H!Evaluate(c) \/ H!Rest(c)
    BY DEF H!Next
  <2>1. Moves(branch.states[c], branch'.states[c]) BY <1>2, BranchMoves
  <2> QED BY <2>1 DEF Moves, H!Evaluate, H!Rest, H!Rise, H!Hold, H!Doubt, H!Fall,
                      H!Reset, H!Dated, H!Falling, H!Confirmed, Falling, Confirmed
<1> QED BY Invariance, <1>1, <1>2, PTL DEF Spec, MovesOncePerSession, H!Spec
===============================================================================
