----------------------------- MODULE IntakeProofs -----------------------------
(***************************************************************************)
(* Proofs about the two ends of the SEC intake: SecCursor, for any         *)
(* entries, issuers, windows and late listings; and Evidence, for any      *)
(* worlds, answers and bounds.                                             *)
(***************************************************************************)
EXTENDS SecCursor, Evidence, SequenceTheorems, FiniteSetTheorems, WellFoundedInduction, TLAPS

(***************************************************************************)
(* The identity history only grows.                                        *)
(***************************************************************************)
IsSeq(s) == \E S : s \in Seq(S)

Out(s) == {i \in DOMAIN s : ~s[i].draft}       \* the published releases

\* Observations of instants up to now.
Regular(held, now) ==
    \A r \in held : /\ r.known \in Nat /\ r.known <= now
                    /\ r.from = r.known /\ r.to = None /\ r.ticker \in Int \union {None}

IsRelease(x, now) ==
    /\ DOMAIN x = {"rows", "draft", "assets"} /\ x.draft \in BOOLEAN
    /\ Regular(x.rows, now)
    /\ ~x.draft => x.assets = Assets(x.rows)

Chained(s) == \A i, j \in Out(s) : i < j => s[i].rows \subseteq s[j].rows

\* The releases: each history once, a later one observed no earlier.
StoreOK(s, now) ==
    /\ IsSeq(s)
    /\ \A i \in DOMAIN s : IsRelease(s[i], now)
    /\ \A i, j \in DOMAIN s : s[i].rows = s[j].rows => i = j
    /\ \A i, j \in DOMAIN s : i < j =>
          \A r \in s[i].rows : \E q \in s[j].rows : r.known <= q.known
    /\ Chained(s)

\* The rows a job persists: the latest history and what it observed just now.
JobOK(held, s, now) ==
    /\ Regular(held, now)
    /\ \E r \in held : r.known = now
    /\ LatestOf(s) \subseteq held
    /\ \A r \in held : r \in LatestOf(s) \/ r.known = now
    /\ \A i \in Out(s) : s[i].rows = held \/ \A r \in s[i].rows : r.known < now

IdentityInv ==
    /\ clock \in Nat
    /\ StoreOK(releases, clock)
    /\ job.pc \in {"idle", "persist"}
    /\ job.pc = "persist" => JobOK(job.rows, releases, clock)

\* The length and the domain of a sequence of releases.
LEMMA SeqFacts ==
    ASSUME NEW s, IsSeq(s)
    PROVE  Len(s) \in Nat /\ DOMAIN s = 1..Len(s)
BY DEF IsSeq

\* A release that is created is the last one and moves no other.
LEMMA AppendFacts ==
    ASSUME NEW s, IsSeq(s), NEW e
    PROVE  /\ IsSeq(Append(s, e))
           /\ DOMAIN Append(s, e) = 1..(Len(s) + 1)
           /\ \A i \in 1..Len(s) : Append(s, e)[i] = s[i]
           /\ Append(s, e)[Len(s) + 1] = e
<1>1. PICK S : s \in Seq(S)
    BY DEF IsSeq
<1>2. s \in Seq(S \union {e})
    BY <1>1
<1> QED
    BY <1>2, AppendProperties DEF IsSeq

\* A release that is edited keeps its place.
LEMMA UpdateFacts ==
    ASSUME NEW s, IsSeq(s), NEW k \in DOMAIN s, NEW e
    PROVE  /\ IsSeq([s EXCEPT ![k] = e])
           /\ DOMAIN [s EXCEPT ![k] = e] = DOMAIN s
<1>1. PICK S : s \in Seq(S)
    BY DEF IsSeq
<1>2. s \in Seq(S \union {e})
    BY <1>1
<1>3. [s EXCEPT ![k] = e] \in Seq(S \union {e})
    BY <1>2
<1> QED
    BY <1>3 DEF IsSeq

\* A set of numbers has a least one, a set of positions a last one.
LEMMA LeastExists ==
    ASSUME NEW T, T \subseteq Nat, T # {}
    PROVE  \E x \in T : \A y \in T : x <= y
<1>1. PICK x \in T : \A y \in T : ~(<<y, x>> \in OpToRel(<, Nat))
    BY NatLessThanWellFounded, WFMin
<1>2. \A y \in T : ~(y < x)
    BY <1>1 DEF OpToRel
<1> QED
    BY <1>2

\* A non-empty set of places in a sequence has a last one.
LEMMA LastExists ==
    ASSUME NEW n \in Nat, NEW P, P \subseteq 1..n, P # {}
    PROVE  \E m \in P : \A j \in P : j <= m
<1> DEFINE T == {n - i : i \in P}
<1>1. T \subseteq Nat
    <2>1. \A i \in P : n - i \in Nat
        OBVIOUS
    <2> QED
        BY <2>1
<1>2. T # {}
    <2>1. PICK i : i \in P
        OBVIOUS
    <2>2. n - i \in T
        BY <2>1
    <2> QED
        BY <2>2
<1>3. PICK x \in T : \A y \in T : x <= y
    BY <1>1, <1>2, LeastExists
<1>4. PICK m \in P : x = n - m
    BY <1>3
<1>5. \A j \in P : n - m <= n - j
    BY <1>3, <1>4
<1> QED
    BY <1>5

\* Nothing but the last published release is the latest history.
LEMMA LatestIsLast ==
    ASSUME NEW s, NEW now, StoreOK(s, now)
    PROVE  /\ Out(s) = {} => LatestOf(s) = {}
           /\ \A m \in Out(s) : (\A j \in Out(s) : j <= m) => LatestOf(s) = s[m].rows
           /\ Out(s) # {} => \E m \in Out(s) : \A j \in Out(s) : j <= m
<1>1. ASSUME NEW m \in Out(s), \A j \in Out(s) : j <= m
      PROVE  LatestOf(s) = s[m].rows
    <2> DEFINE best(i) == \A j \in Out(s) :
                             \/ Sharded(s[i].rows) /\ ~Sharded(s[j].rows)
                             \/ Sharded(s[i].rows) = Sharded(s[j].rows) /\ j <= i
    <2>1. \A j \in Out(s) : s[j].rows \subseteq s[m].rows
        BY <1>1, SeqFacts DEF StoreOK, Chained, Out
    <2>2. \A j \in Out(s) : Sharded(s[j].rows) => Sharded(s[m].rows)
        BY <2>1 DEF Sharded
    <2>3. best(m)
        BY <1>1, <2>2 DEF Sharded
    <2>4. \A i \in Out(s) : best(i) => i = m
        BY <1>1, <2>2, SeqFacts DEF StoreOK, Out
    <2> DEFINE newest == CHOOSE i \in Out(s) : best(i)
    <2>5. newest = m
        <3> HIDE DEF best
        <3> QED
            BY <2>3, <2>4
    <2>7. LatestOf(s) = IF Out(s) = {} THEN {}
                        ELSE IF s[newest].assets # Assets(s[newest].rows) THEN {}
                        ELSE s[newest].rows
        BY DEF LatestOf, Out
    <2>6. s[m].assets = Assets(s[m].rows)
        BY DEF StoreOK, IsRelease, Out
    <2> QED
        <3> HIDE DEF newest
        <3> QED
            BY <2>5, <2>6, <2>7
<1>2. Out(s) # {} => \E m \in Out(s) : \A j \in Out(s) : j <= m
    <2>1. Out(s) \subseteq 1..Len(s) /\ Len(s) \in Nat
        BY SeqFacts DEF StoreOK, Out
    <2> QED
        BY <2>1, LastExists
<1> QED
    BY <1>1, <1>2 DEF LatestOf, Out

\* Every published history is part of the latest.
LEMMA LatestHoldsAll ==
    ASSUME NEW s, NEW now, StoreOK(s, now), NEW i \in Out(s)
    PROVE  s[i].rows \subseteq LatestOf(s)
<1>1. PICK m \in Out(s) : \A j \in Out(s) : j <= m
    BY LatestIsLast
<1>2. LatestOf(s) = s[m].rows
    BY <1>1, LatestIsLast
<1>3. s[i].rows \subseteq s[m].rows
    BY <1>1, SeqFacts DEF StoreOK, Chained, Out
<1> QED
    BY <1>2, <1>3

\* The latest history is an observed one.
LEMMA LatestRegular ==
    ASSUME NEW s, NEW now, StoreOK(s, now)
    PROVE  Regular(LatestOf(s), now)
BY LatestIsLast DEF StoreOK, IsRelease, Regular, Out

\* As long as the same releases are published, the latest history is the same.
LEMMA SameLatest ==
    ASSUME NEW s, NEW z, NEW now, StoreOK(s, now), StoreOK(z, now), Out(z) = Out(s),
           \A i \in Out(s) : z[i].rows = s[i].rows
    PROVE  LatestOf(z) = LatestOf(s)
<1>1. CASE Out(s) = {}
    BY <1>1, LatestIsLast
<1>2. CASE Out(s) # {}
    <2>1. PICK m \in Out(s) : \A j \in Out(s) : j <= m
        BY <1>2, LatestIsLast
    <2>2. LatestOf(s) = s[m].rows /\ LatestOf(z) = z[m].rows
        BY <2>1, LatestIsLast
    <2> QED
        BY <2>2
<1> QED
    BY <1>1, <1>2

\* An observation is one of its instant, whatever the answers said.
LEMMA ObservationRegular ==
    ASSUME NEW cik, NEW profile, NEW answer \in Answers, NEW records, NEW now \in Nat
    PROVE  LET r == Observation(cik, profile, answer.map, records, now)
           IN  /\ r.known = now /\ r.from = now /\ r.to = None
               /\ r.ticker \in Int \union {None}
<1> DEFINE pairs == Pairs(cik, answer.map, records, now)
           pair == IF Cardinality(pairs) = 1 THEN CHOOSE p \in pairs : TRUE ELSE <<None, None>>
           row == ObservationRow(cik, profile, pair, now)
           o == Observation(cik, profile, answer.map, records, now)
<1>1. \A p \in pairs : p[1] \in Int \union {None}
    BY AnswersAssumption DEF Pairs, MapRecords
<1>2. pair[1] \in Int \union {None}
    <2>1. Cardinality(pairs) = 1 => \E p : p \in pairs
        <3> HIDE DEF pairs
        <3>1. pairs = {} => Cardinality(pairs) = 0
            BY FS_EmptySet
        <3> QED
            BY <3>1
    <2> HIDE DEF pairs
    <2> QED
        BY <1>1, <2>1
<1>3. o.known = now /\ o.from = now /\ o.to = None
    BY DEF Observation, ObservationRow, Tombstone
<1>4. o.ticker \in {pair[1], None}
    <2>1. row.ticker = pair[1] /\ \A reason : Tombstone(cik, reason, now).ticker = None
        BY DEF ObservationRow, Tombstone
    <2> QED
        BY <2>1 DEF Observation
<1> QED
    BY <1>2, <1>3, <1>4

\* There is no release and no job to begin with.
LEMMA IdentityInit == EvidenceInit => IdentityInv
<1> SUFFICES ASSUME EvidenceInit PROVE IdentityInv
    OBVIOUS
<1>1. IsSeq(<<>>) /\ DOMAIN <<>> = {}
    <2>1. <<>> \in Seq({})
        OBVIOUS
    <2> QED
        BY <2>1 DEF IsSeq
<1> QED
    BY <1>1 DEF EvidenceInit, IdentityInv, StoreOK, Chained, Out, Idle

\* A job observes what nobody observed at this instant.
LEMMA ObserveKeeps ==
    ASSUME IdentityInv, Observe
    PROVE  IdentityInv'
<1>1. PICK answer \in Answers :
          job' = [pc |-> "persist",
                  rows |-> Latest \union {Observation(cik, answer.profiles[cik], answer.map, History, clock) :
                                             cik \in Requested}]
    BY DEF Observe
<1> DEFINE new == {Observation(cik, answer.profiles[cik], answer.map, History, clock) : cik \in Requested}
<1>2. Regular(new, clock) /\ (\A r \in new : r.known = clock) /\ \E r \in new : r.known = clock
    <2>1. clock \in Nat
        BY DEF IdentityInv
    <2>2. \A cik \in Requested :
              LET r == Observation(cik, answer.profiles[cik], answer.map, History, clock)
              IN  r.known = clock /\ r.from = clock /\ r.to = None /\ r.ticker \in Int \union {None}
        BY <2>1, ObservationRegular
    <2>3. PICK cik : cik \in Requested
        BY DEF Observe
    <2>4. Observation(cik, answer.profiles[cik], answer.map, History, clock) \in new
        BY <2>3
    <2> QED
        BY <2>1, <2>2, <2>4 DEF Regular
<1> HIDE DEF new
<1>3. Regular(Latest, clock) /\ \A i \in Out(releases) : releases[i].rows \subseteq Latest
    BY LatestRegular, LatestHoldsAll DEF IdentityInv, Latest
<1>4. JobOK(Latest \union new, releases, clock)
    BY <1>2, <1>3 DEF JobOK, Regular, Observe, Latest
<1> QED
    BY <1>1, <1>4 DEF IdentityInv, Observe, new

\* What is created or published is the job's, and then it is the latest.
LEMMA PublishedIsLatest ==
    ASSUME NEW s, NEW now, StoreOK(s, now), NEW held, NEW k \in Out(s), s[k].rows = held,
           \E r \in held : r.known = now,
           \A i \in Out(s) : s[i].rows = held \/ \A r \in s[i].rows : r.known < now
    PROVE  LatestOf(s) = held /\ \A j \in Out(s) : j <= k
<1>1. \A j \in Out(s) : j <= k
    <2> SUFFICES ASSUME NEW j \in Out(s), ~(j <= k) PROVE FALSE
        OBVIOUS
    <2>1. k < j /\ k # j /\ j \in DOMAIN s /\ k \in DOMAIN s
        BY SeqFacts DEF StoreOK, Out
    <2>2. PICK r \in held : r.known = now
        OBVIOUS
    <2>3. PICK q \in s[j].rows : r.known <= q.known
        BY <2>1, <2>2 DEF StoreOK
    <2>4. s[j].rows # held
        BY <2>1 DEF StoreOK
    <2>5. q.known < now
        BY <2>3, <2>4
    <2>6. q.known \in Nat /\ r.known \in Nat
        BY <2>1, <2>2, <2>3 DEF StoreOK, IsRelease, Regular
    <2> QED
        BY <2>2, <2>3, <2>5, <2>6
<1> QED
    BY <1>1, LatestIsLast

\* While a job persists: the releases stay in order, and none but its own rows
\* enter the latest history.
Persists ==
    /\ IdentityInv'
    /\ job' = job /\ clock' = clock
    /\ Latest' = Latest \/ Latest' = job.rows

\* A release that is created, a draft when it is sharded, keeps every observation readable.
LEMMA CreateKeeps ==
    ASSUME IdentityInv, Create
    PROVE  Persists
<1> DEFINE n == Len(releases)
           x == [rows |-> job.rows, draft |-> Sharded(job.rows),
                 assets |-> IF Sharded(job.rows) THEN {Manifest} ELSE Assets(job.rows)]
<1> USE DEF IdentityInv
<1>1. /\ job.pc = "persist" /\ JobOK(job.rows, releases, clock) /\ clock \in Nat
      /\ StoreOK(releases, clock) /\ IsSeq(releases)
      /\ releases' = Append(releases, x) /\ clock' = clock /\ job' = job
    BY DEF Create, StoreOK
<1>2. /\ IsSeq(releases') /\ DOMAIN releases = 1..n /\ n \in Nat /\ DOMAIN releases' = 1..(n + 1)
      /\ \A i \in 1..n : releases'[i] = releases[i]
      /\ releases'[n + 1] = x
    BY <1>1, SeqFacts, AppendFacts
<1>3. IsRelease(x, clock)
    BY <1>1 DEF IsRelease, JobOK, Sharded
<1>4. x.rows = job.rows /\ x.draft = Sharded(job.rows)
    OBVIOUS
<1>5. \A i \in 1..n : releases[i].rows # job.rows
    BY <1>2 DEF Create, Mine
<1> HIDE DEF x, n
<1>6. Out(releases') = Out(releases) \union (IF x.draft THEN {} ELSE {n + 1})
    BY <1>2 DEF Out
<1>7. StoreOK(releases', clock)
    <2>1. \A i \in 1..(n + 1) : IsRelease(releases'[i], clock)
        BY <1>1, <1>2, <1>3 DEF StoreOK
    <2>2. \A i, j \in 1..(n + 1) : releases'[i].rows = releases'[j].rows => i = j
        BY <1>1, <1>2, <1>4, <1>5 DEF StoreOK
    <2>3. ASSUME NEW i \in 1..(n + 1), NEW j \in 1..(n + 1), i < j, NEW r \in releases'[i].rows
          PROVE  \E q \in releases'[j].rows : r.known <= q.known
        <3>1. CASE j \in 1..n
            BY <1>1, <1>2, <2>3, <3>1 DEF StoreOK
        <3>2. CASE j = n + 1
            <4>1. i \in 1..n /\ r \in releases[i].rows
                BY <1>2, <2>3, <3>2
            <4>2. r.known <= clock
                BY <1>1, <1>2, <4>1 DEF StoreOK, IsRelease, Regular
            <4> QED
                BY <1>1, <1>2, <1>4, <3>2, <4>2 DEF JobOK
        <3> QED
            BY <1>2, <3>1, <3>2
    <2>4. ASSUME NEW i \in Out(releases'), NEW j \in Out(releases'), i < j
          PROVE  releases'[i].rows \subseteq releases'[j].rows
        <3>1. i \in 1..n /\ i \in Out(releases)
            BY <1>2, <2>4 DEF Out
        <3>2. CASE j \in 1..n
            BY <1>1, <1>2, <2>4, <3>1, <3>2 DEF StoreOK, Chained, Out
        <3>3. CASE j = n + 1
            BY <1>1, <1>2, <1>4, <3>1, <3>3, LatestHoldsAll DEF JobOK
        <3> QED
            BY <1>2, <3>2, <3>3 DEF Out
    <2> QED
        BY <1>2, <2>1, <2>2, <2>3, <2>4 DEF StoreOK, Chained
<1>8. CASE x.draft
    <2>1. Out(releases') = Out(releases) /\ \A i \in Out(releases) : releases'[i].rows = releases[i].rows
        BY <1>2, <1>6, <1>8 DEF Out
    <2>2. LatestOf(releases') = LatestOf(releases)
        BY <1>1, <1>7, <2>1, SameLatest
    <2>3. JobOK(job.rows, releases', clock)
        BY <1>1, <2>1, <2>2 DEF JobOK
    <2> QED
        BY <1>1, <1>7, <2>2, <2>3 DEF Persists, Latest
<1>9. CASE ~x.draft
    <2>1. /\ n + 1 \in Out(releases')
          /\ \A i \in Out(releases') : i # n + 1 => i \in Out(releases) /\ releases'[i] = releases[i]
        BY <1>2, <1>6, <1>9 DEF Out
    <2>2. \A i \in Out(releases') : releases'[i].rows = job.rows \/ \A r \in releases'[i].rows : r.known < clock
        BY <1>1, <1>2, <1>4, <2>1 DEF JobOK
    <2>3. \E r \in job.rows : r.known = clock
        BY <1>1 DEF JobOK
    <2>4. LatestOf(releases') = job.rows
        BY <1>2, <1>4, <1>7, <2>1, <2>2, <2>3, PublishedIsLatest
    <2>5. JobOK(job.rows, releases', clock)
        BY <1>1, <2>2, <2>4 DEF JobOK
    <2> QED
        BY <1>1, <1>7, <2>4, <2>5 DEF Persists, Latest
<1> QED
    BY <1>8, <1>9

\* A draft may change its assets and be published once it has them all.
LEMMA ReleaseKeeps ==
    ASSUME IdentityInv, Upload \/ PublishHistory
    PROVE  Persists
<1> USE DEF IdentityInv
<1>1. /\ job.pc = "persist" /\ JobOK(job.rows, releases, clock) /\ clock \in Nat
      /\ StoreOK(releases, clock) /\ IsSeq(releases)
      /\ clock' = clock /\ job' = job /\ Mine # {}
    BY DEF Upload, PublishHistory, StoreOK
<1> DEFINE k == Target
<1>2. k \in DOMAIN releases /\ releases[k].rows = job.rows /\ releases[k].draft
    BY <1>1 DEF Upload, PublishHistory, Mine, Target
<1>3. IsRelease(releases[k], clock)
    BY <1>1, <1>2 DEF StoreOK
<1>4. PICK x : /\ releases' = [releases EXCEPT ![k] = x]
               /\ IsRelease(x, clock) /\ x.rows = job.rows
    <2>1. CASE Upload
        <3>1. PICK asset : releases' = [releases EXCEPT ![k].assets = @ \union {asset}]
            BY <2>1 DEF Upload
        <3> DEFINE x == [releases[k] EXCEPT !.assets = @ \union {asset}]
        <3>2. releases' = [releases EXCEPT ![k] = x]
            BY <3>1
        <3>3. x.rows = job.rows /\ x.draft /\ DOMAIN x = {"rows", "draft", "assets"}
            BY <1>2, <1>3 DEF IsRelease
        <3>4. IsRelease(x, clock)
            BY <1>2, <1>3, <3>3 DEF IsRelease
        <3> QED
            BY <3>2, <3>3, <3>4
    <2>2. CASE PublishHistory
        <3> DEFINE x == [releases[k] EXCEPT !.draft = FALSE]
        <3>1. releases' = [releases EXCEPT ![k] = x] /\ releases[k].assets = Assets(job.rows)
            BY <2>2 DEF PublishHistory
        <3>2. /\ x.rows = job.rows /\ x.draft = FALSE /\ DOMAIN x = {"rows", "draft", "assets"}
              /\ x.assets = Assets(job.rows)
            BY <1>2, <1>3, <3>1 DEF IsRelease
        <3>3. IsRelease(x, clock)
            BY <1>2, <1>3, <3>2 DEF IsRelease
        <3> QED
            BY <3>1, <3>2, <3>3
    <2> QED
        BY <2>1, <2>2
<1> HIDE DEF k
<1>5. /\ IsSeq(releases') /\ DOMAIN releases' = DOMAIN releases
      /\ releases'[k] = x /\ \A i \in DOMAIN releases : i # k => releases'[i] = releases[i]
    BY <1>1, <1>2, <1>4, UpdateFacts
<1>6. \A i \in DOMAIN releases : releases'[i].rows = releases[i].rows
    BY <1>2, <1>4, <1>5
<1>7. Out(releases') = Out(releases) \union (IF x.draft THEN {} ELSE {k})
    BY <1>2, <1>5 DEF Out
\* No published release stands behind the draft.
<1>8. \A j \in Out(releases) : j < k
    <2> SUFFICES ASSUME NEW j \in Out(releases), ~(j < k) PROVE FALSE
        OBVIOUS
    <2>1. k < j /\ j \in DOMAIN releases /\ k # j
        BY <1>1, <1>2, SeqFacts DEF Out
    <2>2. PICK r \in job.rows : r.known = clock
        BY <1>1 DEF JobOK
    <2>3. PICK q \in releases[j].rows : r.known <= q.known
        BY <1>1, <1>2, <2>1, <2>2 DEF StoreOK
    <2>4. releases[j].rows # job.rows
        BY <1>1, <1>2, <2>1 DEF StoreOK
    <2>5. q.known < clock
        BY <1>1, <2>3, <2>4 DEF JobOK
    <2>6. q.known \in Nat
        BY <1>1, <2>1, <2>3 DEF StoreOK, IsRelease, Regular
    <2> QED
        BY <1>1, <2>2, <2>3, <2>5, <2>6
<1>9. StoreOK(releases', clock)
    <2>1. \A i \in DOMAIN releases' : IsRelease(releases'[i], clock)
        BY <1>1, <1>4, <1>5 DEF StoreOK
    <2>2. ASSUME NEW i \in Out(releases'), NEW j \in Out(releases'), i < j
          PROVE  releases[i].rows \subseteq releases[j].rows
        <3>1. CASE j \in Out(releases)
            <4>1. i \in Out(releases)
                BY <1>1, <1>2, <1>7, <1>8, <2>2, <3>1, SeqFacts DEF Out
            <4> QED
                BY <1>1, <2>2, <3>1, <4>1 DEF StoreOK, Chained
        <3>2. CASE j = k
            <4>1. i \in Out(releases)
                BY <1>1, <1>2, <1>7, <2>2, <3>2, SeqFacts
            <4> QED
                BY <1>1, <1>2, <3>2, <4>1, LatestHoldsAll DEF JobOK
        <3> QED
            BY <1>7, <3>1, <3>2
    <2>3. Chained(releases')
        BY <1>5, <1>6, <2>2 DEF Chained, Out
    <2> QED
        BY <1>1, <1>5, <1>6, <2>1, <2>3 DEF StoreOK
<1>10. CASE x.draft
    <2>1. Out(releases') = Out(releases) /\ \A i \in Out(releases) : releases'[i].rows = releases[i].rows
        BY <1>6, <1>7, <1>10 DEF Out
    <2>2. LatestOf(releases') = LatestOf(releases)
        BY <1>1, <1>9, <2>1, SameLatest
    <2>3. JobOK(job.rows, releases', clock)
        BY <1>1, <2>1, <2>2 DEF JobOK
    <2> QED
        BY <1>1, <1>9, <2>2, <2>3 DEF Persists, Latest
<1>11. CASE ~x.draft
    <2>1. k \in Out(releases') /\ \A i \in Out(releases') : i # k => i \in Out(releases)
        BY <1>7, <1>11
    <2>2. \A i \in Out(releases') : releases'[i].rows = job.rows \/ \A r \in releases'[i].rows : r.known < clock
        BY <1>1, <1>2, <1>5, <1>6, <2>1 DEF JobOK, Out
    <2>3. \E r \in job.rows : r.known = clock
        BY <1>1 DEF JobOK
    <2>4. LatestOf(releases') = job.rows
        <3>1. releases'[k].rows = job.rows
            BY <1>4, <1>5
        <3> QED
            BY <1>9, <2>1, <2>2, <2>3, <3>1, PublishedIsLatest
    <2>5. JobOK(job.rows, releases', clock)
        BY <1>1, <2>2, <2>4 DEF JobOK
    <2> QED
        BY <1>1, <1>9, <2>4, <2>5 DEF Persists, Latest
<1> QED
    BY <1>10, <1>11

\* A job that is done or lost leaves the releases; so does a day that passes.
LEMMA RestKeeps ==
    ASSUME IdentityInv, Verify \/ LoseJob \/ Tick \/ (\E d \in Published : AcquireDay(d)) \/ UNCHANGED evidenceVars
    PROVE  IdentityInv' /\ Latest' = Latest
<1>1. releases' = releases /\ Latest' = Latest
    BY DEF Verify, LoseJob, Tick, AcquireDay, evidenceVars, Latest
<1>2. CASE clock' = clock
    BY <1>1, <1>2 DEF IdentityInv, Verify, LoseJob, Tick, AcquireDay, evidenceVars, Idle
<1>3. CASE Tick
    <2>1. \A held : Regular(held, clock) => Regular(held, clock + 1)
        BY DEF Regular, IdentityInv
    <2>2. StoreOK(releases, clock + 1)
        BY <2>1 DEF IdentityInv, StoreOK, IsRelease
    <2> QED
        BY <1>1, <1>3, <2>2 DEF IdentityInv, Tick
<1> QED
    BY <1>2, <1>3 DEF Verify, LoseJob, AcquireDay, evidenceVars

\* Every step keeps the releases in order and every readable observation (encode_identity_bundle).
LEMMA IdentityNext ==
    ASSUME IdentityInv, [EvidenceNext]_evidenceVars
    PROVE  IdentityInv' /\ Latest \subseteq Latest'
<1>1. CASE Observe
    BY <1>1, ObserveKeeps DEF Observe, Latest
<1>2. CASE Create
    <2>1. Latest \subseteq job.rows
        BY <1>2 DEF Create
    <2> QED
        BY <1>2, <2>1, CreateKeeps DEF Persists
<1>3. CASE Upload \/ PublishHistory
    <2>1. Latest \subseteq job.rows
        BY <1>3 DEF Upload, PublishHistory, IdentityInv, JobOK, Latest
    <2> QED
        BY <1>3, <2>1, ReleaseKeeps DEF Persists
<1>4. CASE Verify \/ LoseJob \/ Tick \/ (\E d \in Published : AcquireDay(d)) \/ UNCHANGED evidenceVars
    BY <1>4, RestKeeps
<1> QED
    BY <1>1, <1>2, <1>3, <1>4 DEF EvidenceNext

\* A run lost half-way through persist, an upload taken up again or a history
\* that grows into shards never hides or shortens the public identity history
\* (ingestion/sec/identity_store.py).
THEOREM HistoryOnlyGrows == EvidenceSpec => IdentityHistoryGrows
<1>1. IdentityInv /\ [EvidenceNext]_evidenceVars => IdentityInv'
    BY IdentityNext
<1>2. IdentityInv /\ [EvidenceNext]_evidenceVars => [Latest \subseteq Latest']_evidenceVars
    BY IdentityNext
<1> QED
    BY <1>1, <1>2, IdentityInit, PTL DEF EvidenceSpec, IdentityHistoryGrows

(***************************************************************************)
(* Nothing is said of an instant that was not known then.                  *)
(***************************************************************************)

\* The rows of a filing cannot be seen at the instant.
Unseen(f, t) ==
    \A r \in f.records :
        r.accepted # None => ~(Later(Later(r.knowledge, r.recorded), r.accepted) <= t)

\* The ticker that the observations of up to the instant give an issuer.
TickerThen(held, t, cik) ==
    LET valid == {r \in held : r.ticker # None /\ r.cik = cik /\ r.known <= t}
    IN  IF valid = {} THEN None ELSE Newest(valid).ticker

\* What is filed later is not seen earlier.
LEMMA StampedUnseen ==
    ASSUME NEW w \in DOMAIN Worlds, NEW d \in Worlds[w], NEW now \in Nat, NEW t \in Nat, t < now
    PROVE  Unseen(Parsed([d EXCEPT !.observed = now, !.recorded = now]), t)
<1> DEFINE e == [d EXCEPT !.observed = now, !.recorded = now]
<1>1. e.observed = now /\ e.recorded = now /\ e.accepted = d.accepted /\ d.accepted \in Int \union {None}
    BY FilingsAssumption
<1> HIDE DEF e
<1> SUFFICES ASSUME NEW r \in Records(e), r.accepted # None,
                    Later(Later(r.knowledge, r.recorded), r.accepted) <= t
             PROVE  FALSE
    BY DEF Unseen, Parsed, e
<1>2. /\ r.accepted = e.accepted /\ r.knowledge = Later(e.observed, e.accepted)
      /\ r.recorded = IF e.recorded = None THEN e.observed ELSE e.recorded
    BY DEF Records, CanonicalRow
<1> QED
    BY <1>1, <1>2 DEF Later

\* The same rows are available from filings that differ in unseen ones.
LEMMA SameFacts ==
    ASSUME NEW F, NEW G, NEW t, F \subseteq G, \A f \in G : f \in F \/ Unseen(f, t)
    PROVE  EconomicEvents(ParsedRows(F), t) = EconomicEvents(ParsedRows(G), t)
<1> DEFINE seen(H) == {r \in ParsedRows(H) :
                          /\ r.accepted # None
                          /\ Later(Later(r.knowledge, r.recorded), r.accepted) <= t
                          /\ r.date <= t}
<1>1. seen(F) = seen(G)
    BY DEF ParsedRows, Unseen
<1>2. AvailableRows(ParsedRows(F), t) = AvailableRows(ParsedRows(G), t)
    <2>1. \A H : AvailableRows(ParsedRows(H), t) = Distinct(seen(H))
        BY DEF AvailableRows
    <2> HIDE DEF seen
    <2> QED
        BY <1>1, <2>1
<1> QED
    BY <1>2 DEF EconomicEvents

\* A day that is stored adds new filings to the selected ones, and no others.
LEMMA SelectedAdds ==
    ASSUME NEW d \in Published, AcquireDay(d)
    PROVE  \A f \in Selected(checkpoints') :
              f \in Selected(checkpoints) \/ \E q \in Filed : f = Stamped(q)
<1> DEFINE All(C) == UNION {c.filings : c \in C}
           onDay == {q \in Filed : q.day = d}
           old == {c \in checkpoints : c.day = d}
           stored == UNION {c.filings : c \in old}
           missing == {q \in onDay : \A s \in stored : s.accession # q.accession}
<1>1. PICK good \in SUBSET {q \in missing : Fetchable(q)} :
          checkpoints' = (checkpoints \ old) \union
             {[day |-> d, filings |-> stored \union {Stamped(q) : q \in good},
               failed |-> {q.accession : q \in missing \ good},
               discovered |-> Cardinality(onDay)]}
    BY DEF AcquireDay
<1> DEFINE new == [day |-> d, filings |-> stored \union {Stamped(q) : q \in good},
                   failed |-> {q.accession : q \in missing \ good},
                   discovered |-> Cardinality(onDay)]
<1>2. new.filings = stored \union {Stamped(q) : q \in good} /\ \A q \in good : q \in Filed
    OBVIOUS
<1>3. checkpoints' = (checkpoints \ old) \union {new}
    BY <1>1
<1> HIDE DEF new
<1>4. \A f \in All(checkpoints) : f \in All(checkpoints')
    BY <1>2, <1>3
<1>5. \A f \in All(checkpoints') : f \in All(checkpoints) \/ \E q \in Filed : f = Stamped(q)
    BY <1>2, <1>3
<1>6. \A C, f : f \in Selected(C) <=> /\ f \in All(C)
                                     /\ \A q \in All(C) : q.accession = f.accession => f.day <= q.day
    BY DEF Selected
<1> HIDE DEF All
<1> QED
    BY <1>4, <1>5, <1>6

\* The current map adds nothing to the observations of the past.
LEMMA TickerFromHistory ==
    ASSUME NEW held, NEW now, Regular(held, now), NEW t \in Nat, NEW cik
    PROVE  ResolveTicker([current |-> {r \in LatestObservations(held, now) : r.ticker # None},
                          intervals |-> {r \in held : r.ticker # None}],
                         cik, t, [ticker |-> None, known |-> None]).ticker
             = TickerThen(held, t, cik)
<1> DEFINE latest == {r \in LatestObservations(held, now) : r.ticker # None}
           histories == {r \in held : r.ticker # None}
           index == [current |-> latest, intervals |-> histories]
           current == {m \in latest : m.cik = cik}
           valid == {i \in histories : i.cik = cik /\ ValidAt(i, t)}
           mapped == CHOOSE m \in current : \A n \in current : m.ticker <= n.ticker
           filing == [ticker |-> None, known |-> None]
<1>1. valid = {r \in held : r.ticker # None /\ r.cik = cik /\ r.known <= t}
    BY NoneAssumption DEF Regular, ValidAt
<1>2. current # {} => mapped \in current
    <2> SUFFICES ASSUME NEW m \in current PROVE mapped \in current
        OBVIOUS
    <2>1. \A n \in current : n = m
        BY DEF LatestObservations, Visible, Regular
    <2>2. m.ticker \in Int
        BY DEF LatestObservations, Visible, Regular
    <2>3. \A n \in current : m.ticker <= n.ticker
        BY <2>1, <2>2
    <2> HIDE DEF current
    <2> QED
        BY <2>3
<1>3. \A m \in current : m \in held /\ m.ticker # None /\ m.cik = cik
    BY DEF LatestObservations, Visible
<1>4. ResolveTicker(index, cik, t, filing).ticker =
          IF valid # {} THEN Newest(valid).ticker
          ELSE IF current # {} /\ mapped.known # None /\ mapped.known <= t THEN mapped.ticker ELSE None
    <2>1. index.current = latest /\ index.intervals = histories /\ filing.ticker = None /\ t # None
        BY NoneAssumption
    <2> HIDE DEF index, filing, latest, histories
    <2> QED
        BY <2>1 DEF ResolveTicker
<1> HIDE DEF mapped, current, valid
<1>5. valid = {} => ~(current # {} /\ mapped.known <= t)
    BY <1>1, <1>2, <1>3
<1> QED
    BY <1>1, <1>4, <1>5 DEF TickerThen

\* The ticker of an instant depends on the observations known by then alone.
LEMMA SameThen ==
    ASSUME NEW held, NEW more, NEW t, {r \in held : r.known <= t} = {r \in more : r.known <= t}
    PROVE  /\ LatestObservations(held, t) = LatestObservations(more, t)
           /\ \A cik : TickerThen(held, t, cik) = TickerThen(more, t, cik)
<1>1. Visible(held, t) = Visible(more, t)
    BY DEF Visible
<1>2. LatestObservations(held, t) = LatestObservations(more, t)
    BY <1>1 DEF LatestObservations
<1>3. ASSUME NEW cik PROVE TickerThen(held, t, cik) = TickerThen(more, t, cik)
    <2>1. {r \in held : r.ticker # None /\ r.cik = cik /\ r.known <= t}
            = {r \in more : r.ticker # None /\ r.cik = cik /\ r.known <= t}
        OBVIOUS
    <2> QED
        BY <2>1 DEF TickerThen
<1> QED
    BY <1>2, <1>3

IssuersFiled == {d.cik : d \in Filed}

\* What the journal says of an instant is what the evidence of now says of it.
PastOK(past) ==
    /\ past.at \in Nat /\ past.at < clock
    /\ past.facts = EconomicEvents(ParsedRows(past.filings), past.at).events
    /\ \A f \in Selected(checkpoints) : f \in past.filings \/ Unseen(f, past.at)
    /\ past.identities = LatestObservations(Identities, past.at)
    /\ past.tickers = {<<cik, TickerThen(Identities, past.at, cik)>> : cik \in IssuersFiled}

JournalInv ==
    /\ world \in DOMAIN Worlds
    /\ \A past \in journal : PastOK(past)

\* The observations a run reads follow one another.
LEMMA IdentitiesRegular ==
    ASSUME IdentityInv
    PROVE  Regular(Identities, clock)
BY LatestRegular DEF IdentityInv, Identities, JobOK, Latest

\* The ticker of an instant is the one the observations of that instant name.
LEMMA TickersAre ==
    ASSUME IdentityInv, NEW t \in Nat
    PROVE  TickersAt(t) = {<<cik, TickerThen(Identities, t, cik)>> : cik \in IssuersFiled}
<1> DEFINE index == [current |-> {r \in LatestObservations(Identities, clock) : r.ticker # None},
                     intervals |-> {r \in Identities : r.ticker # None}]
           ticker(cik) == ResolveTicker(index, cik, t, [ticker |-> None, known |-> None]).ticker
<1>1. \A cik : ticker(cik) = TickerThen(Identities, t, cik)
    BY IdentitiesRegular, TickerFromHistory
<1>2. TickersAt(t) = {<<cik, ticker(cik)>> : cik \in IssuersFiled}
    BY DEF TickersAt, IssuersFiled
<1> HIDE DEF ticker
<1> QED
    BY <1>1, <1>2

\* Whatever a job observes, persists or loses is of the present instant.
LEMMA IdentitiesMove ==
    ASSUME IdentityInv, IdentityInv', [EvidenceNext]_evidenceVars, NEW t \in Nat, t < clock
    PROVE  {r \in Identities : r.known <= t} = {r \in Identities' : r.known <= t}
<1>1. clock \in Nat
    BY DEF IdentityInv
<1>2. CASE Observe
    <2>1. Identities = Latest /\ Identities' = job'.rows /\ JobOK(job'.rows, releases, clock)
        BY <1>2 DEF Observe, Identities, IdentityInv
    <2>2. Latest \subseteq job'.rows /\ \A r \in job'.rows : r \in Latest \/ r.known = clock
        BY <2>1 DEF JobOK, Latest
    <2> QED
        BY <1>1, <2>1, <2>2
<1>3. CASE Create \/ Upload \/ PublishHistory
    <2>1. job' = job /\ job.pc = "persist"
        BY <1>3 DEF Create, Upload, PublishHistory
    <2> QED
        BY <2>1 DEF Identities
<1>4. CASE Verify \/ LoseJob
    <2>1. Identities = job.rows /\ Identities' = Latest /\ JobOK(job.rows, releases, clock)
        BY <1>4 DEF Verify, LoseJob, Identities, Idle, IdentityInv, Latest
    <2>2. Latest \subseteq job.rows /\ \A r \in job.rows : r \in Latest \/ r.known = clock
        BY <2>1 DEF JobOK, Latest
    <2> QED
        BY <1>1, <2>1, <2>2
<1>5. CASE Tick \/ (\E d \in Published : AcquireDay(d)) \/ UNCHANGED evidenceVars
    <2>1. job' = job /\ releases' = releases
        BY <1>5 DEF Tick, AcquireDay, evidenceVars
    <2> QED
        BY <2>1 DEF Identities, Latest
<1> QED
    BY <1>2, <1>3, <1>4, <1>5 DEF EvidenceNext

\* A filing that is selected later was not known at an instant of the past.
LEMMA SelectedMove ==
    ASSUME IdentityInv, world \in DOMAIN Worlds, [EvidenceNext]_evidenceVars,
           NEW t \in Nat, t < clock, NEW f \in Selected(checkpoints'), f \notin Selected(checkpoints)
    PROVE  Unseen(f, t)
<1>1. PICK d \in Published : AcquireDay(d)
    BY DEF EvidenceNext, Observe, Create, Upload, PublishHistory, Verify, LoseJob, Tick, evidenceVars
<1>2. PICK q \in Filed : f = Stamped(q)
    BY <1>1, SelectedAdds
<1> QED
    BY <1>2, StampedUnseen DEF Filed, Stamped, IdentityInv

\* What is true of an instant stays true.
LEMMA PastStays ==
    ASSUME IdentityInv, IdentityInv', world \in DOMAIN Worlds, [EvidenceNext]_evidenceVars,
           NEW past, PastOK(past)
    PROVE  PastOK(past)'
<1>1. past.at \in Nat /\ past.at < clock /\ past.at < clock' /\ world' = world
    BY DEF PastOK, IdentityInv, EvidenceNext, Observe, Create, Upload, PublishHistory, Verify, LoseJob,
           Tick, AcquireDay, evidenceVars
<1>2. \A f \in Selected(checkpoints') : f \in past.filings \/ Unseen(f, past.at)
    BY <1>1, SelectedMove DEF PastOK
<1>3. {r \in Identities : r.known <= past.at} = {r \in Identities' : r.known <= past.at}
    BY <1>1, IdentitiesMove
<1>4. /\ LatestObservations(Identities, past.at) = LatestObservations(Identities', past.at)
      /\ \A cik : TickerThen(Identities, past.at, cik) = TickerThen(Identities', past.at, cik)
    BY <1>3, SameThen
<1>5. IssuersFiled' = IssuersFiled
    BY <1>1 DEF IssuersFiled, Filed
<1> QED
    BY <1>1, <1>2, <1>4, <1>5 DEF PastOK

\* Every step keeps what the journal says of the past.
LEMMA JournalNext ==
    ASSUME IdentityInv, IdentityInv', JournalInv, [EvidenceNext]_evidenceVars
    PROVE  JournalInv'
<1>1. world' = world
    BY DEF EvidenceNext, Observe, Create, Upload, PublishHistory, Verify, LoseJob, Tick, AcquireDay, evidenceVars
<1>2. \A past \in journal : PastOK(past)'
    BY PastStays DEF JournalInv
<1>3. CASE journal' = journal
    BY <1>1, <1>2, <1>3 DEF JournalInv
<1>4. CASE Tick
    <2>0. PICK new : new = [at |-> clock, filings |-> Selected(checkpoints), facts |-> FactsAt(clock),
                            identities |-> IdentitiesAt(clock), tickers |-> TickersAt(clock)]
        OBVIOUS
    <2>1. journal' = journal \union {new} /\ clock' = clock + 1 /\ clock \in Nat
        BY <1>4, <2>0 DEF Tick, IdentityInv
    <2>2. checkpoints' = checkpoints /\ releases' = releases /\ job' = job
        BY <1>4 DEF Tick
    <2>3. Identities' = Identities /\ IssuersFiled' = IssuersFiled
        BY <1>1, <2>2 DEF Identities, Latest, IssuersFiled, Filed
    <2>4. /\ new.at = clock /\ new.filings = Selected(checkpoints) /\ new.facts = FactsAt(clock)
          /\ new.identities = IdentitiesAt(clock) /\ new.tickers = TickersAt(clock)
        BY <2>0
    <2>5. new.facts = EconomicEvents(ParsedRows(new.filings), new.at).events
        BY <2>4 DEF FactsAt, History
    <2>6. new.identities = LatestObservations(Identities, new.at)
        BY <2>4 DEF IdentitiesAt
    <2>7. new.tickers = {<<cik, TickerThen(Identities, new.at, cik)>> : cik \in IssuersFiled}
        BY <2>1, <2>4, TickersAre
    <2>8. PastOK(new)'
        BY <2>1, <2>2, <2>3, <2>4, <2>5, <2>6, <2>7 DEF PastOK
    <2> QED
        BY <1>1, <1>2, <2>1, <2>8 DEF JournalInv
<1> QED
    BY <1>3, <1>4 DEF EvidenceNext, Observe, Create, Upload, PublishHistory, Verify, LoseJob, AcquireDay, evidenceVars

\* However late filings, observations and identities arrive and whichever jobs
\* are lost, nothing of them enters the picture of an instant that is past
\* (research_snapshot.py, live_inputs.py, normalization/identity.py).
THEOREM NothingInHindsight == EvidenceSpec => []NoHindsight
<1>1. EvidenceInit => IdentityInv /\ JournalInv
    BY IdentityInit DEF EvidenceInit, JournalInv
<1>2. IdentityInv /\ JournalInv /\ [EvidenceNext]_evidenceVars => IdentityInv' /\ JournalInv'
    BY IdentityNext, JournalNext
<1>3. IdentityInv /\ JournalInv => NoHindsight
    <2> SUFFICES ASSUME IdentityInv, JournalInv, NEW past \in journal
                 PROVE  /\ past.filings \subseteq Selected(checkpoints) => FactsAt(past.at) = past.facts
                        /\ IdentitiesAt(past.at) = past.identities
                        /\ TickersAt(past.at) = past.tickers
        BY DEF NoHindsight
    <2>1. PastOK(past)
        BY DEF JournalInv
    <2>2. past.filings \subseteq Selected(checkpoints) => FactsAt(past.at) = past.facts
        BY <2>1, SameFacts DEF PastOK, FactsAt, History
    <2>3. TickersAt(past.at) = past.tickers
        BY <2>1, TickersAre DEF PastOK
    <2> QED
        BY <2>1, <2>2, <2>3 DEF PastOK, IdentitiesAt
<1> QED
    BY <1>1, <1>2, <1>3, PTL DEF EvidenceSpec

(***************************************************************************)
(* A row and its correction never both count.                              *)
(***************************************************************************)
StrictOrder(R, S) ==
    /\ \A x \in S : <<x, x>> \notin R
    /\ \A x, y, z \in S : <<x, y>> \in R /\ <<y, z>> \in R => <<x, z>> \in R

Beneath(x, S, R) == {y \in S : <<y, x>> \in R}
RankIn(x, S, R) == Cardinality(Beneath(x, S, R))

\* In a strict order of a finite set the rank is a number that grows along the order.
LEMMA RankFacts ==
    ASSUME NEW S, NEW R, IsFiniteSet(S), StrictOrder(R, S)
    PROVE  /\ Cardinality(S) \in Nat
           /\ \A x \in S : RankIn(x, S, R) \in 0..(Cardinality(S) - 1)
           /\ \A x, y \in S : <<x, y>> \in R => RankIn(x, S, R) < RankIn(y, S, R)
<1> DEFINE n == Cardinality(S)
<1>1. n \in Nat
    BY FS_CardinalityType
<1>2. \A x \in S : IsFiniteSet(Beneath(x, S, R)) /\ RankIn(x, S, R) \in Nat
    BY FS_Subset, FS_CardinalityType DEF Beneath, RankIn
<1>3. ASSUME NEW x \in S PROVE RankIn(x, S, R) < n
    <2>1. Beneath(x, S, R) \in SUBSET S /\ x \notin Beneath(x, S, R)
        BY DEF Beneath, StrictOrder
    <2>2. RankIn(x, S, R) <= n /\ (n = RankIn(x, S, R) => S = Beneath(x, S, R))
        BY <2>1, FS_Subset DEF RankIn
    <2> QED
        BY <1>1, <1>2, <2>1, <2>2
<1>4. ASSUME NEW x \in S, NEW y \in S, <<x, y>> \in R
      PROVE  RankIn(x, S, R) < RankIn(y, S, R)
    <2>1. Beneath(x, S, R) \in SUBSET Beneath(y, S, R)
        BY <1>4 DEF Beneath, StrictOrder
    <2>2. x \in Beneath(y, S, R) /\ x \notin Beneath(x, S, R)
        BY <1>4 DEF Beneath, StrictOrder
    <2>3. RankIn(x, S, R) <= RankIn(y, S, R)
            /\ (RankIn(y, S, R) = RankIn(x, S, R) => Beneath(y, S, R) = Beneath(x, S, R))
        BY <1>2, <2>1, FS_Subset DEF RankIn
    <2> QED
        BY <1>2, <2>2, <2>3
<1> QED
    BY <1>1, <1>2, <1>3, <1>4

\* Of the members of a finite set one has none before it.
LEMMA FirstExists ==
    ASSUME NEW S, NEW R, IsFiniteSet(S), StrictOrder(R, S), S # {}
    PROVE  \E x \in S : \A y \in S : <<y, x>> \notin R
<1> DEFINE T == {RankIn(x, S, R) : x \in S}
<1>1. T \subseteq Nat /\ T # {}
    BY RankFacts
<1>2. PICK m \in T : \A k \in T : m <= k
    <2> HIDE DEF T
    <2> QED
        BY <1>1, LeastExists
<1>3. PICK x \in S : m = RankIn(x, S, R)
    BY <1>2
<1>4. \A y \in S : <<y, x>> \in R => RankIn(y, S, R) < RankIn(x, S, R)
    BY RankFacts
<1>5. \A y \in S : RankIn(y, S, R) \in Nat /\ RankIn(x, S, R) <= RankIn(y, S, R)
    BY <1>1, <1>2, <1>3
<1> QED
    BY <1>4, <1>5

\* In a total order every rank is taken, by one member.
LEMMA RanksTaken ==
    ASSUME NEW S, NEW R, IsFiniteSet(S), StrictOrder(R, S),
           \A x, y \in S : x = y \/ <<x, y>> \in R \/ <<y, x>> \in R
    PROVE  \A k \in 1..Cardinality(S) : \E x \in S : RankIn(x, S, R) = k - 1
<1> DEFINE n == Cardinality(S)
           T == 0..(n - 1)
           f == [x \in S |-> RankIn(x, S, R)]
<1>1. n \in Nat /\ \A x \in S : RankIn(x, S, R) \in T
    BY RankFacts
<1>2. \A x, y \in S : RankIn(x, S, R) = RankIn(y, S, R) => x = y
    <2> SUFFICES ASSUME NEW x \in S, NEW y \in S, RankIn(x, S, R) = RankIn(y, S, R), x # y PROVE FALSE
        OBVIOUS
    <2>1. /\ <<x, y>> \in R => RankIn(x, S, R) < RankIn(y, S, R)
          /\ <<y, x>> \in R => RankIn(y, S, R) < RankIn(x, S, R)
        BY RankFacts
    <2> QED
        BY <1>1, <2>1
<1>3. f \in Injection(S, T)
    BY <1>1, <1>2 DEF Injection, IsInjective
<1>4. IsFiniteSet(T) /\ Cardinality(T) = n
    BY <1>1, FS_Interval
<1>5. f \in Surjection(S, T)
    BY <1>3, <1>4, FS_Injection
<1>6. \A m \in T : \E x \in S : f[x] = m
    BY <1>5 DEF Surjection
<1> HIDE DEF T
<1>7. \A k \in 1..n : k - 1 \in T
    BY <1>1 DEF T
<1> QED
    BY <1>6, <1>7

\* A row of a document that was read.
IsRow(r) ==
    /\ {"tid", "rid", "accession", "owner", "table", "seq", "hash", "cik", "knowledge", "recorded",
        "amendment", "amends", "supersedes", "revision", "status", "validFrom", "validTo",
        "title", "date", "code", "side", "shares", "price", "value"} \subseteq DOMAIN r
    /\ {r.knowledge, r.recorded, r.accession, r.owner, r.seq, r.hash} \subseteq Int
    /\ r.table \in TableTypes

\* A row as it was read: nothing has replaced it, and it replaces nothing.
AsFiled(r) ==
    /\ r.status = "ACTIVE" /\ r.validTo = None /\ r.validFrom = r.recorded
    /\ r.tid = OwnerLocator(r) /\ r.rid = <<r.tid, r.hash>>
    /\ r.accepted \in Int \union {None}

\* Rows of documents; what is told of an accession is told by one document.
RowsOK(A) ==
    /\ IsFiniteSet(A)
    /\ \A r \in A : IsRow(r) /\ AsFiled(r)
    /\ \A r, q \in A : r.accession = q.accession => r.hash = q.hash /\ r.cik = q.cik

Lex(x, y) == \E i \in 1..7 : x[i] < y[i] /\ \A j \in 1..(i - 1) : x[j] = y[j]

\* The lexicographic order of seven integers is a strict total order.
LEMMA LexFacts ==
    ASSUME NEW x \in [1..7 -> Int], NEW y \in [1..7 -> Int], NEW z \in [1..7 -> Int]
    PROVE  /\ ~Lex(x, x)
           /\ Lex(x, y) /\ Lex(y, z) => Lex(x, z)
           /\ x = y \/ Lex(x, y) \/ Lex(y, x)
<1>1. ~Lex(x, x)
    BY DEF Lex
<1>2. ASSUME Lex(x, y), Lex(y, z) PROVE Lex(x, z)
    <2>1. PICK i \in 1..7 : x[i] < y[i] /\ \A j \in 1..(i - 1) : x[j] = y[j]
        BY <1>2 DEF Lex
    <2>2. PICK k \in 1..7 : y[k] < z[k] /\ \A j \in 1..(k - 1) : y[j] = z[j]
        BY <1>2 DEF Lex
    <2>3. CASE i <= k
        <3>1. x[i] < z[i] /\ \A j \in 1..(i - 1) : x[j] = z[j]
            BY <2>1, <2>2, <2>3
        <3> QED
            BY <3>1 DEF Lex
    <2>4. CASE k < i
        <3>1. x[k] < z[k] /\ \A j \in 1..(k - 1) : x[j] = z[j]
            BY <2>1, <2>2, <2>4
        <3> QED
            BY <3>1 DEF Lex
    <2> QED
        BY <2>3, <2>4
<1>3. ASSUME x # y PROVE Lex(x, y) \/ Lex(y, x)
    <2> DEFINE D == {i \in 1..7 : x[i] # y[i]}
    <2>1. D # {} /\ D \subseteq Nat
        BY <1>3
    <2>2. PICK i \in D : \A k \in D : i <= k
        <3> HIDE DEF D
        <3> QED
            BY <2>1, LeastExists
    <2>3. \A j \in 1..(i - 1) : x[j] = y[j]
        BY <2>2
    <2>4. x[i] < y[i] \/ y[i] < x[i]
        BY <2>2
    <2> QED
        BY <2>2, <2>3, <2>4 DEF Lex
<1> QED
    BY <1>1, <1>2, <1>3

\* Before compares two rows by their seven sort keys.
LEMMA BeforeIsLex ==
    ASSUME NEW a, NEW b, IsRow(a), IsRow(b)
    PROVE  /\ OrderKey(a) \in [1..7 -> Int] /\ OrderKey(b) \in [1..7 -> Int]
           /\ Before(a, b) <=> Lex(OrderKey(a), OrderKey(b))
<1>1. OrderKey(a) \in [1..7 -> Int] /\ OrderKey(b) \in [1..7 -> Int]
    BY DEF OrderKey, IsRow
<1>2. Len(OrderKey(a)) = 7
    BY DEF OrderKey
<1> HIDE DEF OrderKey
<1> QED
    BY <1>1, <1>2 DEF Before, Lex

BeforeIn(S) == {p \in S \X S : Before(p[1], p[2])}

\* Before is a strict order of rows.
LEMMA BeforeIsOrder ==
    ASSUME NEW S, \A r \in S : IsRow(r)
    PROVE  StrictOrder(BeforeIn(S), S)
<1>1. \A x, y \in S : <<x, y>> \in BeforeIn(S) <=> Lex(OrderKey(x), OrderKey(y))
    BY BeforeIsLex DEF BeforeIn
<1>2. \A x \in S : OrderKey(x) \in [1..7 -> Int]
    BY BeforeIsLex
<1>3. /\ \A x \in S : ~Lex(OrderKey(x), OrderKey(x))
      /\ \A x, y, z \in S : Lex(OrderKey(x), OrderKey(y)) /\ Lex(OrderKey(y), OrderKey(z))
                              => Lex(OrderKey(x), OrderKey(z))
    BY <1>2, LexFacts
<1> QED
    BY <1>1, <1>3 DEF StrictOrder

Key(r) == <<r.accession, RowOf(r)>>
OnePerRow(S) == \A r, q \in S : Key(r) = Key(q) => r = q

\* Of every delivery one row is kept.
LEMMA DistinctFacts ==
    ASSUME NEW A, RowsOK(A)
    PROVE  /\ Distinct(A) \subseteq A /\ OnePerRow(Distinct(A)) /\ RowsOK(Distinct(A))
           /\ \A r \in A : \E q \in Distinct(A) : Key(q) = Key(r)
<1> DEFINE kept(k) == CHOOSE r \in A : /\ ContentIdentity(r) = k
                                       /\ \A q \in A : ContentIdentity(q) = k => ~Before(q, r)
           Keys_ == {ContentIdentity(r) : r \in A}
<1>1. ASSUME NEW k \in Keys_ PROVE kept(k) \in A /\ ContentIdentity(kept(k)) = k
    <2> DEFINE C == {r \in A : ContentIdentity(r) = k}
    <2>1. C # {} /\ IsFiniteSet(C) /\ \A r \in C : IsRow(r)
        BY FS_Subset DEF RowsOK
    <2>2. PICK r \in C : \A q \in C : <<q, r>> \notin BeforeIn(C)
        <3> HIDE DEF C
        <3> QED
            BY <2>1, BeforeIsOrder, FirstExists
    <2>3. \A q \in C : ~Before(q, r)
        BY <2>2 DEF BeforeIn
    <2> QED
        BY <2>2, <2>3
<1>2. Distinct(A) = {kept(k) : k \in Keys_}
    BY DEF Distinct
<1> HIDE DEF kept
<1>3. Distinct(A) \subseteq A /\ \A r, q \in Distinct(A) : ContentIdentity(r) = ContentIdentity(q) => r = q
    BY <1>1, <1>2
<1>4. \A r, q \in A : Key(r) = Key(q) => ContentIdentity(r) = ContentIdentity(q)
    BY DEF Key, ContentIdentity, RowsOK
<1>5. IsFiniteSet(Distinct(A))
    BY <1>3, FS_Subset DEF RowsOK
<1>6. \A r \in A : \E q \in Distinct(A) : Key(q) = Key(r)
    <2>1. \A r \in A : \E q \in Distinct(A) : ContentIdentity(q) = ContentIdentity(r)
        BY <1>1, <1>2
    <2> QED
        BY <2>1 DEF Key, ContentIdentity
<1> HIDE DEF Keys_
<1> QED
    BY <1>3, <1>4, <1>5, <1>6 DEF OnePerRow, RowsOK

\* Rows in their order: one place, one row.

\* Rows in their order: one place, one row.
LEMMA InOrderFacts ==
    ASSUME NEW D, RowsOK(D), OnePerRow(D)
    PROVE  /\ Cardinality(D) \in Nat
           /\ InOrder(D) \in [1..Cardinality(D) -> D]
           /\ \A i, j \in 1..Cardinality(D) : Key(InOrder(D)[i]) = Key(InOrder(D)[j]) => i = j
           /\ \A r \in D : \E i \in 1..Cardinality(D) : InOrder(D)[i] = r
<1> DEFINE R == BeforeIn(D)
           n == Cardinality(D)
           at(i) == CHOOSE r \in D : Cardinality({q \in D : Before(q, r)}) = i - 1
<1>1. StrictOrder(R, D) /\ IsFiniteSet(D)
    BY BeforeIsOrder DEF RowsOK
<1>2. n \in Nat
    BY <1>1, FS_CardinalityType
<1>3. ASSUME NEW x \in D, NEW y \in D PROVE x = y \/ <<x, y>> \in R \/ <<y, x>> \in R
    <2>1. IsRow(x) /\ IsRow(y)
        BY DEF RowsOK
    <2>2. OrderKey(x) = OrderKey(y) => Key(x) = Key(y)
        BY <2>1 DEF OrderKey, Key, RowOf, IsRow, TableTypes
    <2>3. OrderKey(x) = OrderKey(y) \/ Before(x, y) \/ Before(y, x)
        BY <2>1, BeforeIsLex, LexFacts
    <2> QED
        BY <2>2, <2>3 DEF BeforeIn, OnePerRow
<1>4. \A x \in D : Beneath(x, D, R) = {q \in D : Before(q, x)}
    BY DEF Beneath, BeforeIn
<1>5. \A k \in 1..n : \E x \in D : RankIn(x, D, R) = k - 1
    <2> HIDE DEF R
    <2> QED
        BY <1>1, <1>3, RanksTaken
<1>6. ASSUME NEW i \in 1..n PROVE at(i) \in D /\ RankIn(at(i), D, R) = i - 1
    <2>1. \E x \in D : Cardinality({q \in D : Before(q, x)}) = i - 1
        BY <1>4, <1>5 DEF RankIn
    <2>2. at(i) \in D /\ Cardinality({q \in D : Before(q, at(i))}) = i - 1
        BY <2>1
    <2> HIDE DEF at
    <2> QED
        BY <1>4, <2>2 DEF RankIn
<1>7. InOrder(D) = [i \in 1..n |-> at(i)]
    BY DEF InOrder
<1> HIDE DEF at
<1> HIDE DEF R
<1>8. \A i \in 1..n : InOrder(D)[i] \in D /\ RankIn(InOrder(D)[i], D, R) = i - 1
    BY <1>6, <1>7
<1>9. \A i, j \in 1..n : Key(InOrder(D)[i]) = Key(InOrder(D)[j]) => i = j
    <2> SUFFICES ASSUME NEW i \in 1..n, NEW j \in 1..n, Key(InOrder(D)[i]) = Key(InOrder(D)[j]) PROVE i = j
        OBVIOUS
    <2>1. InOrder(D)[i] = InOrder(D)[j]
        BY <1>8 DEF OnePerRow
    <2>2. i - 1 = j - 1
        BY <1>8, <2>1
    <2> QED
        BY <1>2, <2>2
<1>10. ASSUME NEW r \in D PROVE \E i \in 1..n : InOrder(D)[i] = r
    <2>1. RankIn(r, D, R) \in 0..(n - 1)
        BY <1>1, RankFacts
    <2>2. PICK i \in 1..n : RankIn(r, D, R) = i - 1
        BY <1>2, <2>1
    <2> DEFINE q == InOrder(D)[i]
    <2>3. q \in D /\ RankIn(q, D, R) = RankIn(r, D, R)
        BY <1>8, <2>2
    <2>4. /\ <<q, r>> \in R => RankIn(q, D, R) < RankIn(r, D, R)
          /\ <<r, q>> \in R => RankIn(r, D, R) < RankIn(q, D, R)
        BY <1>1, <2>3, RankFacts
    <2>5. q = r
        BY <1>2, <1>3, <2>1, <2>3, <2>4
    <2> QED
        BY <2>5
<1> QED
    BY <1>2, <1>7, <1>8, <1>9, <1>10

(* The replay of the rows in order. *)
Folds(f, m, s) == f = [i \in 0..m |-> IF i = 0 THEN NoRevisions ELSE ResolveRow(f[i - 1], s[i])]

\* A sequence of rows has a fold, by the least length that would have none.
LEMMA FoldsExist ==
    ASSUME NEW n \in Nat, NEW s
    PROVE  \E f : Folds(f, n, s)
<1> DEFINE T == {m \in Nat : ~\E f : Folds(f, m, s)}
<1>1. SUFFICES ASSUME T # {} PROVE FALSE
    OBVIOUS
<1>2. PICK m \in T : \A k \in T : m <= k
    BY <1>1, LeastExists
<1>3. CASE m = 0
    <2>1. PICK f : f = [i \in 0..0 |-> NoRevisions]
        OBVIOUS
    <2>2. Folds(f, 0, s)
        BY <2>1 DEF Folds
    <2> QED
        BY <1>2, <1>3, <2>2
<1>4. CASE m # 0
    <2>1. m - 1 \in Nat /\ m - 1 \notin T /\ m \in Nat
        BY <1>2, <1>4
    <2>2. PICK f : Folds(f, m - 1, s)
        BY <2>1
    <2>3. PICK g : g = [i \in 0..m |-> IF i = m THEN ResolveRow(f[m - 1], s[m]) ELSE f[i]]
        OBVIOUS
    <2>4. g[m] = ResolveRow(g[m - 1], s[m])
        BY <2>1, <2>3
    <2>5. g[0] = NoRevisions
        BY <1>4, <2>1, <2>2, <2>3 DEF Folds
    <2>6. ASSUME NEW i \in 1..(m - 1) PROVE g[i] = ResolveRow(g[i - 1], s[i])
        <3>1. i \in 0..m /\ i - 1 \in 0..m /\ i # m /\ i - 1 # m /\ i \in 0..(m - 1) /\ i # 0
            BY <2>1
        <3>2. f[i] = ResolveRow(f[i - 1], s[i])
            BY <2>2, <3>1 DEF Folds
        <3>3. g[i] = f[i] /\ g[i - 1] = f[i - 1]
            BY <2>3, <3>1
        <3> QED
            BY <3>2, <3>3
    <2>7. \A i \in 0..m : g[i] = IF i = 0 THEN NoRevisions ELSE ResolveRow(g[i - 1], s[i])
        BY <2>1, <2>4, <2>5, <2>6, <1>4
    <2>8. g = [i \in 0..m |-> g[i]]
        BY <2>3
    <2>9. Folds(g, m, s)
        BY <2>7, <2>8 DEF Folds
    <2> QED
        BY <1>2, <2>9
<1> QED
    BY <1>3, <1>4

\* Replay is the last value of its fold.
LEMMA ReplayFolds ==
    ASSUME NEW s, Len(s) \in Nat
    PROVE  \E f : Folds(f, Len(s), s) /\ Replay(s) = f[Len(s)]
<1> DEFINE f == CHOOSE f : f = [i \in 0..Len(s) |-> IF i = 0 THEN NoRevisions ELSE ResolveRow(f[i - 1], s[i])]
<1>1. Replay(s) = f[Len(s)]
    BY DEF Replay
<1>2. \E g : Folds(g, Len(s), s)
    BY FoldsExist
<1>3. Folds(f, Len(s), s)
    BY <1>2 DEF Folds
<1> QED
    BY <1>1, <1>3

\* A revision of a row: what the row says is kept.
Stems(x, r) ==
    /\ IsRow(x)
    /\ x.accession = r.accession /\ RowOf(x) = RowOf(r) /\ x.cik = r.cik /\ x.knowledge = r.knowledge
    /\ x.title = r.title /\ x.date = r.date /\ x.code = r.code /\ x.side = r.side
    /\ x.shares = r.shares /\ x.price = r.price /\ x.value = r.value

\* What an amendment replaces is the revision it declares, or the row of the filing it names.
Links(r, p) ==
    /\ r.supersedes # None => r.supersedes = p.rid /\ r.amends \in {None, p.accession}
    /\ r.supersedes = None => r.amends # None /\ r.amends = p.accession

Amends(r, p) == r.amendment /\ SameRow(p, r) /\ Links(r, p)

\* What the rows S leave of one of them: it stands, or a row of S replaced it.
Revision(x, S, asOf) ==
    /\ \E r \in S : Stems(x, r)
    /\ \E r \in S : x.tid = OwnerLocator(r)
    /\ RevisionOf(x.rid) = x.accession
    /\ \/ x.status = "ACTIVE" /\ x.validTo = None /\ x.validFrom \in Int /\ x.validFrom <= asOf
       \/ x.status = "SUPERSEDED" /\ \E r \in S : Amends(r, x)

\* A row is rejected, or it has a revision and what it amends is superseded.
Settled(V, W, r) ==
    \/ \E w \in W : w.row = r
    \/ /\ \E x \in V : Key(x) = Key(r)
       /\ r.amendment => \E p \in V : p.status = "SUPERSEDED" /\ Amends(r, p)

\* The revisions V and the rejected rows W that the rows S leave.
Replayed(V, W, S, asOf) ==
    /\ IsFiniteSet(V) /\ OnePerRow(V)
    /\ \A x \in V : Revision(x, S, asOf)
    /\ \A x, y \in V : x.status = "ACTIVE" /\ y.status = "ACTIVE" /\ x.tid = y.tid => x = y
    /\ \A r \in S : Settled(V, W, r)

\* What an amendment replaces.
LEMMA PredecessorAny ==
    ASSUME NEW V, NEW r, Predecessor(V, r).code = None
    PROVE  LET p == Predecessor(V, r).row
           IN  /\ p \in V /\ p.status # "SUPERSEDED" /\ SameRow(p, r)
               /\ r.supersedes # None => p.rid = r.supersedes /\ r.amends \in {None, p.accession}
               /\ r.supersedes = None => p.accession = IF r.amends = None THEN r.accession ELSE r.amends
<1> DEFINE declared == Declared(V, r)
           byRow == ByRow(V, r)
<1>1. ASSUME r.supersedes # None, declared.code = None
      PROVE  /\ declared.row \in V /\ declared.row.rid = r.supersedes
             /\ SameRow(declared.row, r) /\ r.amends \in {None, declared.row.accession}
    <2> DEFINE found == {p \in V : p.rid = r.supersedes}
               p == CHOOSE q \in found : TRUE
    <2>1. declared = IF found = {} THEN [code |-> "UNRESOLVED_AMENDMENT"]
                     ELSE IF ~SameRow(p, r) THEN [code |-> "AMENDMENT_IDENTITY_MISMATCH"]
                     ELSE IF r.amends \notin {None, p.accession} THEN [code |-> "AMENDMENT_LINK_CONFLICT"]
                     ELSE [code |-> None, row |-> p]
        BY DEF Declared
    <2>2. found # {} => p \in V /\ p.rid = r.supersedes
        OBVIOUS
    <2> HIDE DEF found, p, declared
    <2> QED
        BY <1>1, <2>1, <2>2, NoneAssumption
<1>2. ASSUME byRow.code = None
      PROVE  /\ byRow.row \in V /\ SameRow(byRow.row, r)
             /\ byRow.row.accession = IF r.amends = None THEN r.accession ELSE r.amends
    <2> DEFINE acc == IF r.amends = None THEN r.accession ELSE r.amends
               found == {p \in V : p.accession = acc /\ SameRow(p, r)}
    <2>1. byRow = IF found = {} THEN [code |-> "UNRESOLVED_AMENDMENT"]
                  ELSE IF Cardinality(found) > 1 THEN [code |-> "AMBIGUOUS_AMENDMENT"]
                  ELSE [code |-> None, row |-> CHOOSE p \in found : TRUE]
        BY DEF ByRow
    <2> HIDE DEF found, byRow
    <2>2. found # {} /\ byRow.row \in found
        BY <1>2, <2>1, NoneAssumption
    <2> QED
        BY <2>2 DEF found
<1> DEFINE chosen == IF r.supersedes # None THEN declared ELSE byRow
<1>3. Predecessor(V, r) = chosen /\ chosen.code = None /\ chosen.row.status # "SUPERSEDED"
    <2>1. Predecessor(V, r) = IF chosen.code # None THEN chosen
                              ELSE IF chosen.row.status = "SUPERSEDED" THEN [code |-> "AMENDMENT_CHAIN_FORK"]
                              ELSE IF Later(r.validFrom, r.knowledge) < chosen.row.validFrom
                                   THEN [code |-> "AMENDMENT_TIME_CONFLICT"]
                              ELSE chosen
        BY DEF Predecessor
    <2> HIDE DEF chosen
    <2> QED
        BY <2>1, NoneAssumption
<1> HIDE DEF declared, byRow
<1> QED
    BY <1>1, <1>2, <1>3

\* An amendment that names nothing finds no row of its own filing to replace.
LEMMA PredecessorLinks ==
    ASSUME NEW V, NEW r, r.amendment, Predecessor(V, r).code = None, \A p \in V : Key(p) # Key(r)
    PROVE  \E p \in V : p = Predecessor(V, r).row /\ p.status # "SUPERSEDED" /\ Amends(r, p)
<1> DEFINE p == Predecessor(V, r).row
<1>1. /\ p \in V /\ p.status # "SUPERSEDED" /\ SameRow(p, r)
      /\ r.supersedes # None => p.rid = r.supersedes /\ r.amends \in {None, p.accession}
      /\ r.supersedes = None => p.accession = IF r.amends = None THEN r.accession ELSE r.amends
    BY PredecessorAny
<1> HIDE DEF p
<1>2. p.accession # r.accession
    BY <1>1 DEF Key, SameRow
<1>3. Links(r, p)
    BY <1>1, <1>2 DEF Links
<1> QED
    BY <1>1, <1>3 DEF Amends, p

\* The row an amendment replaces is superseded, the amendment takes its place.
LEMMA CorrectIs ==
    ASSUME NEW V, NEW p \in V, NEW r, IsRow(p), IsRow(r), AsFiled(r)
    PROVE  \E old, new :
              /\ Correct(V, p, r) = (V \ {p}) \union {old, new}
              /\ Stems(old, p) /\ old.status = "SUPERSEDED" /\ old.tid = p.tid /\ old.rid = p.rid
              /\ Stems(new, r) /\ new.status = "ACTIVE" /\ new.tid = p.tid
              /\ RevisionOf(new.rid) = r.accession
              /\ new.validTo = None /\ new.validFrom = Later(r.recorded, r.knowledge)
<1> DEFINE from == Later(r.validFrom, r.knowledge)
           old == [p EXCEPT !.status = "SUPERSEDED", !.validTo = from]
           new == [r EXCEPT !.tid = p.tid, !.rid = <<p.rid, r.accession, r.hash>>,
                            !.revision = p.revision + 1, !.amendment = TRUE,
                            !.supersedes = p.rid, !.validFrom = from]
<1>1. Correct(V, p, r) = (V \ {p}) \union {old, new}
    BY DEF Correct
<1>2. Stems(old, p) /\ old.status = "SUPERSEDED" /\ old.tid = p.tid /\ old.rid = p.rid
    BY DEF Stems, IsRow, RowOf
<1>3. Stems(new, r) /\ new.tid = p.tid
    BY DEF Stems, IsRow, RowOf
<1>4. new.status = "ACTIVE" /\ new.validTo = None
    BY DEF IsRow, AsFiled
<1>5. new.validFrom = Later(r.recorded, r.knowledge)
    BY DEF IsRow, AsFiled
<1>6. new.rid = <<p.rid, r.accession, r.hash>>
    BY DEF IsRow
<1>7. RevisionOf(new.rid) = r.accession
    <2>1. Len(<<p.rid, r.accession, r.hash>>) = 3 /\ <<p.rid, r.accession, r.hash>>[2] = r.accession
        OBVIOUS
    <2> HIDE DEF new
    <2> QED
        BY <1>6, <2>1 DEF RevisionOf
<1> HIDE DEF old, new
<1> QED
    BY <1>1, <1>2, <1>3, <1>4, <1>5, <1>7

\* The first rows of a sequence are its first rows but one, and that one.
LEMMA FromOneToNext ==
    ASSUME NEW x, NEW p, NEW r, Stems(x, p), Stems(p, r)
    PROVE  Stems(x, r)
BY DEF Stems

\* What is true of a revision or a settled row stays true as rows follow.
LEMMA MoreRows ==
    ASSUME NEW S, NEW T, S \subseteq T, NEW asOf
    PROVE  \A x : Revision(x, S, asOf) => Revision(x, T, asOf)
BY DEF Revision

\* A row that is resolved after others leaves the revisions resolved (resolve).
LEMMA ReplayStep ==
    ASSUME NEW S, NEW V, NEW W, NEW asOf \in Int, Replayed(V, W, S, asOf),
           \A q \in S : IsRow(q) /\ AsFiled(q),
           NEW r, IsRow(r), AsFiled(r), r.knowledge <= asOf, r.recorded <= asOf,
           \A q \in S : Key(q) # Key(r)
    PROVE  \E V2, W2 : /\ ResolveRow([revisions |-> V, rejected |-> W], r)
                             = [revisions |-> V2, rejected |-> W2]
                       /\ Replayed(V2, W2, S \union {r}, asOf)
<1> DEFINE T == S \union {r}
           st == [revisions |-> V, rejected |-> W]
<1>0. S \subseteq T /\ r \in T
    OBVIOUS
<1>1. Stems(r, r) /\ \A q : Stems(q, r) => Key(q) = Key(r)
    BY DEF Stems, Key
<1>2. \A x \in V : Revision(x, S, asOf) /\ Revision(x, T, asOf)
    BY <1>0, MoreRows DEF Replayed
<1>3. \A x \in V : IsRow(x) /\ Key(x) # Key(r)
    BY <1>2 DEF Revision, Stems, Key
<1>4. \A q \in S : OwnerLocator(q) # OwnerLocator(r)
    BY DEF OwnerLocator, Key, RowOf
<1>5. \A x \in V : x.tid # OwnerLocator(r)
    BY <1>2, <1>4 DEF Revision
<1>6. r.knowledge \in Int /\ r.recorded \in Int
    BY DEF IsRow
<1> HIDE DEF T
<1>7. CASE ~r.amendment
    <2> DEFINE V2 == V \union {r}
    <2>1. ResolveRow(st, r) = [revisions |-> V2, rejected |-> W]
        BY <1>7 DEF ResolveRow
    <2>2. IsFiniteSet(V2)
        BY FS_AddElement DEF Replayed
    <2>3. OnePerRow(V2)
        BY <1>3 DEF OnePerRow, Replayed
    <2>4. Revision(r, T, asOf)
        <3>1. RevisionOf(r.rid) = r.accession
            <4>1. r.rid = <<<<r.accession, r.owner, r.table, r.seq>>, r.hash>>
                BY DEF AsFiled, OwnerLocator
            <4> QED
                BY <4>1 DEF RevisionOf
        <3>2. r.status = "ACTIVE" /\ r.validTo = None /\ r.validFrom \in Int /\ r.validFrom <= asOf
            BY <1>6 DEF AsFiled
        <3>3. r.tid = OwnerLocator(r)
            BY DEF AsFiled
        <3> QED
            BY <1>0, <1>1, <3>1, <3>2, <3>3 DEF Revision
    <2>5. \A x \in V2 : Revision(x, T, asOf)
        BY <1>2, <2>4
    <2>6. r.tid = OwnerLocator(r)
        BY DEF AsFiled
    <2>7. \A x, y \in V2 : x.status = "ACTIVE" /\ y.status = "ACTIVE" /\ x.tid = y.tid => x = y
        BY <1>5, <2>6 DEF Replayed
    <2>8. \A q \in S : Settled(V2, W, q)
        BY DEF Replayed, Settled
    <2>9. Settled(V2, W, r)
        BY <1>7 DEF Settled
    <2> HIDE DEF V2
    <2>10. Replayed(V2, W, T, asOf)
        BY <2>2, <2>3, <2>5, <2>7, <2>8, <2>9 DEF Replayed, T
    <2> QED
        BY <2>1, <2>10 DEF T
<1>8. CASE r.amendment /\ Predecessor(V, r).code # None
    <2> DEFINE W2 == W \union {[row |-> r, code |-> Predecessor(V, r).code]}
    <2>1. ResolveRow(st, r) = [revisions |-> V, rejected |-> W2]
        BY <1>8 DEF ResolveRow
    <2>2. \A q \in S : Settled(V, W2, q)
        BY DEF Replayed, Settled
    <2>3. Settled(V, W2, r)
        <3>1. \E w \in W2 : w.row = r
            <4>1. [row |-> r, code |-> Predecessor(V, r).code].row = r
                OBVIOUS
            <4> QED
                BY <4>1
        <3> HIDE DEF W2
        <3> QED
            BY <3>1 DEF Settled
    <2> HIDE DEF W2
    <2>4. Replayed(V, W2, T, asOf)
        BY <1>2, <2>2, <2>3 DEF Replayed, T
    <2> QED
        BY <2>1, <2>4 DEF T
<1>9. CASE r.amendment /\ Predecessor(V, r).code = None
    <2>0. PICK p \in V : p = Predecessor(V, r).row /\ p.status # "SUPERSEDED" /\ Amends(r, p)
        BY <1>3, <1>9, PredecessorLinks
    <2>1. ResolveRow(st, r) = [revisions |-> Correct(V, p, r), rejected |-> W]
        BY <1>9, <2>0 DEF ResolveRow
    <2>2. IsRow(p) /\ Revision(p, T, asOf) /\ Revision(p, S, asOf) /\ p.status = "ACTIVE"
        BY <1>2, <1>3, <2>0 DEF Revision
    <2>3. PICK old, new :
              /\ Correct(V, p, r) = (V \ {p}) \union {old, new}
              /\ Stems(old, p) /\ old.status = "SUPERSEDED" /\ old.tid = p.tid /\ old.rid = p.rid
              /\ Stems(new, r) /\ new.status = "ACTIVE" /\ new.tid = p.tid
              /\ RevisionOf(new.rid) = r.accession
              /\ new.validTo = None /\ new.validFrom = Later(r.recorded, r.knowledge)
        BY <2>2, CorrectIs
    <2> DEFINE V2 == (V \ {p}) \union {old, new}
    <2>4. Key(old) = Key(p) /\ Key(new) = Key(r) /\ Amends(r, old)
        BY <2>0, <2>3 DEF Stems, Key, SameRow, Amends, Links
    <2>5. IsFiniteSet(V2)
        <3>1. IsFiniteSet(V \ {p})
            BY FS_Subset DEF Replayed
        <3>2. IsFiniteSet(((V \ {p}) \union {old}) \union {new})
            BY <3>1, FS_AddElement
        <3> QED
            BY <3>2
    <2>6. OnePerRow(V2)
        BY <1>3, <2>4 DEF OnePerRow, Replayed
    <2>7. Revision(old, T, asOf)
        <3>1. \E q \in T : Stems(old, q)
            BY <2>2, <2>3, FromOneToNext DEF Revision
        <3>2. \E q \in T : old.tid = OwnerLocator(q)
            BY <2>2, <2>3 DEF Revision
        <3>3. RevisionOf(old.rid) = old.accession
            BY <2>2, <2>3 DEF Revision, Stems
        <3> QED
            BY <1>0, <2>3, <2>4, <3>1, <3>2, <3>3 DEF Revision
    <2>8. Revision(new, T, asOf)
        <3>1. \E q \in T : new.tid = OwnerLocator(q)
            BY <2>2, <2>3 DEF Revision
        <3>2. RevisionOf(new.rid) = new.accession
            BY <2>3 DEF Stems
        <3>3. new.validFrom \in Int /\ new.validFrom <= asOf
            BY <1>6, <2>3 DEF Later
        <3> QED
            BY <1>0, <2>3, <3>1, <3>2, <3>3 DEF Revision
    <2>9. \A x \in V2 : Revision(x, T, asOf)
        BY <1>2, <2>7, <2>8
    <2>10. ASSUME NEW x \in V2, NEW y \in V2, x.status = "ACTIVE", y.status = "ACTIVE", x.tid = y.tid
           PROVE  x = y
        <3>1. \A z \in V2 : z = new \/ z = old \/ (z \in V /\ z # p)
            OBVIOUS
        <3>2. \A z \in V : z.status = "ACTIVE" /\ z.tid = p.tid => z = p
            BY <2>0, <2>2 DEF Replayed
        <3>3. old.status # "ACTIVE"
            BY <2>3
        <3> HIDE DEF V2
        <3> QED
            BY <2>3, <2>10, <3>1, <3>2, <3>3 DEF Replayed
    <2>11. \A q \in V : q.status = "SUPERSEDED" => q \in V2
        BY <2>0
    <2>12. \A x \in V : \E y \in V2 : Key(y) = Key(x)
        BY <2>4
    <2>13. \A q \in S : Settled(V2, W, q)
        <3> HIDE DEF V2
        <3> QED
            BY <2>11, <2>12 DEF Replayed, Settled
    <2>14. Settled(V2, W, r)
        <3>1. new \in V2 /\ old \in V2
            OBVIOUS
        <3> HIDE DEF V2
        <3> QED
            BY <2>3, <2>4, <3>1 DEF Settled
    <2> HIDE DEF V2
    <2>15. Replayed(V2, W, T, asOf)
        BY <2>5, <2>6, <2>9, <2>10, <2>13, <2>14 DEF Replayed, T
    <2> QED
        BY <2>1, <2>3, <2>15 DEF T, V2
<1> QED
    BY <1>7, <1>8, <1>9

\* What the rows of an instant leave.
LEMMA ResolveFacts ==
    ASSUME NEW D, RowsOK(D), OnePerRow(D), NEW asOf \in Int,
           \A r \in D : r.knowledge <= asOf /\ r.recorded <= asOf
    PROVE  Replayed(Resolve(D, asOf).revisions, Resolve(D, asOf).rejected, D, asOf)
<1> DEFINE A == KnownAt(D, asOf)
           S == Distinct(A)
           s == InOrder(S)
           n == Cardinality(S)
<1>1. A = D
    BY DEF KnownAt
<1>2. S = D
    <2>1. S \subseteq D /\ \A r \in D : \E q \in S : Key(q) = Key(r)
        BY <1>1, DistinctFacts
    <2> HIDE DEF S
    <2> QED
        BY <2>1 DEF OnePerRow
<1> HIDE DEF A, S
<1>3. /\ n \in Nat /\ s \in [1..n -> D] /\ \A i, j \in 1..n : Key(s[i]) = Key(s[j]) => i = j
      /\ \A r \in D : \E i \in 1..n : s[i] = r
    BY <1>2, InOrderFacts
<1> HIDE DEF s
<1>4. Len(s) = n
    BY <1>3
<1> HIDE DEF n
<1>5. PICK f : Folds(f, n, s) /\ Replay(s) = f[n]
    BY <1>3, <1>4, ReplayFolds
<1> DEFINE UpTo(i) == {s[j] : j \in 1..i}
           J(i) == \E V, W : f[i] = [revisions |-> V, rejected |-> W] /\ Replayed(V, W, UpTo(i), asOf)
<1>6. J(0)
    <2>1. f[0] = [revisions |-> {}, rejected |-> {}]
        BY <1>3, <1>5 DEF Folds, NoRevisions
    <2>2. UpTo(0) = {}
        OBVIOUS
    <2>3. Replayed({}, {}, {}, asOf)
        BY FS_EmptySet DEF Replayed, OnePerRow
    <2> QED
        BY <2>1, <2>2, <2>3
<1>7. ASSUME NEW i \in 0..n, i < n, J(i) PROVE J(i + 1)
    <2>1. PICK V, W : f[i] = [revisions |-> V, rejected |-> W] /\ Replayed(V, W, UpTo(i), asOf)
        BY <1>7
    <2>2. f[i + 1] = ResolveRow(f[i], s[i + 1])
        <3>1. i + 1 \in 0..n /\ i + 1 # 0 /\ (i + 1) - 1 = i
            BY <1>3, <1>7
        <3> QED
            BY <1>5, <3>1 DEF Folds
    <2>3. i + 1 \in 1..n /\ \A j \in 1..i : j \in 1..n /\ j # i + 1
        BY <1>3, <1>7
    <2>4. s[i + 1] \in D /\ \A q \in UpTo(i) : q \in D /\ Key(q) # Key(s[i + 1])
        BY <1>3, <2>3
    <2>5. UpTo(i + 1) = UpTo(i) \union {s[i + 1]}
        <3>1. 1..(i + 1) = (1..i) \union {i + 1}
            BY <1>3
        <3> QED
            BY <3>1
    <2> HIDE DEF UpTo
    <2>6. \E V2, W2 : /\ ResolveRow([revisions |-> V, rejected |-> W], s[i + 1])
                             = [revisions |-> V2, rejected |-> W2]
                      /\ Replayed(V2, W2, UpTo(i) \union {s[i + 1]}, asOf)
        <3>1. \A q \in D : IsRow(q) /\ AsFiled(q) /\ q.knowledge <= asOf /\ q.recorded <= asOf
            BY DEF RowsOK
        <3> DEFINE r == s[i + 1]
        <3>2. IsRow(r) /\ AsFiled(r) /\ r.knowledge <= asOf /\ r.recorded <= asOf
            BY <2>4, <3>1
        <3>3. \A q \in UpTo(i) : IsRow(q) /\ AsFiled(q) /\ Key(q) # Key(r)
            BY <2>4, <3>1
        <3> HIDE DEF r
        <3>4. \E V2, W2 : /\ ResolveRow([revisions |-> V, rejected |-> W], r)
                                = [revisions |-> V2, rejected |-> W2]
                          /\ Replayed(V2, W2, UpTo(i) \union {r}, asOf)
            BY <2>1, <3>2, <3>3, ReplayStep
        <3> QED
            BY <3>4 DEF r
    <2> QED
        BY <2>1, <2>2, <2>5, <2>6
<1>8. UpTo(n) = D
    BY <1>3
<1> HIDE DEF J
<1>9. J(n)
    <2> DEFINE T == {i \in 0..n : ~J(i)}
    <2>1. SUFFICES ASSUME T # {} PROVE FALSE
        BY <1>3
    <2>2. PICK i \in T : \A k \in T : i <= k
        <3>1. T \subseteq Nat
            BY <1>3
        <3> HIDE DEF T
        <3> QED
            BY <2>1, <3>1, LeastExists
    <2>3. i # 0 /\ i - 1 \in 0..n /\ i - 1 < n /\ (i - 1) + 1 = i
        BY <1>3, <1>6, <2>2
    <2>4. J(i - 1)
        BY <2>2, <2>3
    <2> QED
        BY <1>7, <2>2, <2>3, <2>4
<1>10. PICK V, W : f[n] = [revisions |-> V, rejected |-> W] /\ Replayed(V, W, D, asOf)
    BY <1>8, <1>9 DEF J
<1>11. Resolve(D, asOf) = [revisions |-> V, rejected |-> W]
    BY <1>5, <1>10 DEF Resolve, s, S, A
<1> QED
    BY <1>10, <1>11

\* The first of the rows of an event is one of them.
LEMMA FirstKnownIn ==
    ASSUME NEW S, IsFiniteSet(S), S # {}, \A r \in S : IsRow(r)
    PROVE  FirstKnown(S) \in S
<1> DEFINE R == {p \in S \X S : \/ p[1].knowledge < p[2].knowledge
                                \/ p[1].knowledge = p[2].knowledge /\ p[1].owner < p[2].owner}
<1>1. \A x, y \in S : <<x, y>> \in R <=> \/ x.knowledge < y.knowledge
                                         \/ x.knowledge = y.knowledge /\ x.owner < y.owner
    OBVIOUS
<1> HIDE DEF R
<1>2. \A x \in S : x.knowledge \in Int /\ x.owner \in Int
    BY DEF IsRow
<1>3. StrictOrder(R, S)
    BY <1>1, <1>2 DEF StrictOrder
<1>4. PICK x \in S : \A y \in S : <<y, x>> \notin R
    BY <1>3, FirstExists
<1>5. \A q \in S : \/ x.knowledge < q.knowledge
                   \/ x.knowledge = q.knowledge /\ x.owner <= q.owner
    <2> TAKE q \in S
    <2>1. ~(\/ q.knowledge < x.knowledge
            \/ q.knowledge = x.knowledge /\ q.owner < x.owner)
        BY <1>1, <1>4
    <2>2. {x.knowledge, q.knowledge, x.owner, q.owner} \subseteq Int
        BY <1>2
    <2> QED
        BY <2>1, <2>2
<1> QED
    BY <1>5 DEF FirstKnown

\* What is known of a row at an instant.
Seen(r, asOf) ==
    /\ r.accepted # None
    /\ Later(Later(r.knowledge, r.recorded), r.accepted) <= asOf
    /\ r.date <= asOf

Active(V) == {x \in V : x.status = "ACTIVE"}

\* The rows D known at an instant, once each, what they leave, and those that block.
Resolved(D, V, W, U, records, asOf) ==
    /\ RowsOK(D) /\ OnePerRow(D)
    /\ \A r \in D : r \in records /\ Seen(r, asOf)
    /\ \A r \in records : Seen(r, asOf) => \E q \in D : Key(q) = Key(r)
    /\ Replayed(V, W, D, asOf)
    /\ U \subseteq D
    /\ \A r \in D : (\E w \in W : w.row = r) => r \in U

\* The events of an instant are those of the rows that stand and of those that block.
LEMMA FactsAre ==
    ASSUME NEW records, RowsOK(records), NEW asOf \in Int
    PROVE  \E D, V, W, U :
              /\ Resolved(D, V, W, U, records, asOf)
              /\ EconomicEvents(records, asOf) = EventsOf(Active(V) \union U, U, Blocked(U))
<1> DEFINE seen == {r \in records : Seen(r, asOf)}
           D == AvailableRows(records, asOf)
           resolution == Resolve(D, asOf)
           V == resolution.revisions
           W == resolution.rejected
           U == UnresolvedOf(D, resolution)
<1>1. RowsOK(seen)
    BY FS_Subset DEF RowsOK
<1>2. D = Distinct(seen)
    BY DEF AvailableRows, Seen
<1>3. /\ RowsOK(D) /\ OnePerRow(D) /\ D \subseteq seen
      /\ \A r \in seen : \E q \in D : Key(q) = Key(r)
    <2> HIDE DEF seen, D
    <2> QED
        BY <1>1, <1>2, DistinctFacts
<1> HIDE DEF D
<1>4. \A r \in D : r.knowledge <= asOf /\ r.recorded <= asOf
    <2> SUFFICES ASSUME NEW r \in D PROVE r.knowledge <= asOf /\ r.recorded <= asOf
        OBVIOUS
    <2>1. r.knowledge \in Int /\ r.recorded \in Int /\ r.accepted \in Int \union {None} /\ Seen(r, asOf)
        BY <1>3 DEF RowsOK, IsRow, AsFiled
    <2> QED
        BY <2>1, NoneAssumption DEF Seen, Later
<1>5. Replayed(V, W, D, asOf)
    BY <1>3, <1>4, ResolveFacts
<1>6. Effective(resolution, asOf) = Active(V)
    <2> DEFINE standing == {r \in V : IsEffective(r, asOf)}
    <2>1. \A x \in V : x.knowledge <= asOf /\ ~Before(x, x)
        <3> SUFFICES ASSUME NEW x \in V PROVE x.knowledge <= asOf /\ ~Before(x, x)
            OBVIOUS
        <3>1. PICK r \in D : Stems(x, r)
            BY <1>5 DEF Replayed, Revision
        <3>2. \A y \in {x} : IsRow(y)
            BY <3>1 DEF Stems
        <3>3. ~Before(x, x)
            BY <3>2, BeforeIsOrder DEF StrictOrder, BeforeIn
        <3> QED
            BY <1>4, <3>1, <3>3 DEF Stems
    <2>2. standing = Active(V)
        BY <1>5, <2>1 DEF IsEffective, Active, Replayed, Revision
    <2>3. \A x, y \in Active(V) : y.tid = x.tid => ~Before(x, y)
        BY <1>5, <2>1 DEF Active, Replayed
    <2>4. Effective(resolution, asOf) = {r \in standing : \A q \in standing : q.tid = r.tid => ~Before(r, q)}
        BY DEF Effective
    <2> HIDE DEF standing, resolution
    <2> QED
        BY <2>2, <2>3, <2>4
<1>7. U \subseteq D /\ \A r \in D : (\E w \in W : w.row = r) => r \in U
    BY DEF UnresolvedOf
<1>8. EconomicEvents(records, asOf) = EventsOf(Active(V) \union U, U, Blocked(U))
    BY <1>6 DEF EconomicEvents, EventsAmong, EventsResolved, EventsWith, D
<1>9. Resolved(D, V, W, U, records, asOf)
    <2> HIDE DEF resolution, U
    <2> QED
        BY <1>3, <1>5, <1>7 DEF Resolved
<1> HIDE DEF resolution, U
<1> QED
    BY <1>8, <1>9

\* An event shows the first of its rows; nothing that blocks its issuer makes it eligible.
Shows(e, first, shown, U) ==
    /\ first \in shown
    /\ e.key = EventKey(first) /\ e.cik = first.cik /\ e.date = first.date
    /\ e.title = first.title /\ e.code = first.code
    /\ e.owners = {r.owner : r \in {q \in shown : EventKey(q) = e.key}}
    /\ e.eligible = (QualifiedTrade(first) /\ first.cik \notin Blocked(U))

\* Every event shows the rows of one key, and every shown row is in an event.
LEMMA EventsAre ==
    ASSUME NEW shown, IsFiniteSet(shown), \A r \in shown : IsRow(r), NEW U
    PROVE  /\ \A e \in EventsOf(shown, U, Blocked(U)).events : \E first \in shown : Shows(e, first, shown, U)
           /\ \A r \in shown : \E e \in EventsOf(shown, U, Blocked(U)).events : e.key = EventKey(r)
<1> DEFINE of(key) == {r \in shown : EventKey(r) = key}
           keys == {EventKey(r) : r \in shown}
           event(key) == EventOf(FirstKnown(of(key)), of(key), U, Blocked(U))
<1>1. EventsOf(shown, U, Blocked(U)).events = {event(key) : key \in keys}
    BY DEF EventsOf
<1>2. ASSUME NEW key \in keys
      PROVE  \E first \in shown : Shows(event(key), first, shown, U) /\ event(key).key = key
    <2>1. of(key) # {} /\ of(key) \subseteq shown /\ IsFiniteSet(of(key)) /\ \A r \in of(key) : IsRow(r)
        BY FS_Subset
    <2> DEFINE first == FirstKnown(of(key))
    <2>2. first \in of(key)
        <3> HIDE DEF of
        <3> QED
            BY <2>1, FirstKnownIn
    <2>3. first \in shown /\ EventKey(first) = key
        BY <2>2
    <2> HIDE DEF first
    <2> DEFINE e == EventOf(first, of(key), U, Blocked(U))
    <2>4. /\ e.key = EventKey(first) /\ e.cik = first.cik /\ e.date = first.date
          /\ e.title = first.title /\ e.code = first.code
          /\ e.owners = {r.owner : r \in of(key)}
          /\ e.eligible = (QualifiedTrade(first) /\ first.cik \notin Blocked(U))
        BY DEF EventOf
    <2>5. e = event(key)
        BY DEF first
    <2> HIDE DEF e, event
    <2> QED
        BY <2>3, <2>4, <2>5 DEF Shows
<1> HIDE DEF event
<1>3. \A r \in shown : EventKey(r) \in keys
    OBVIOUS
<1> HIDE DEF keys
<1> QED
    BY <1>1, <1>2, <1>3

\* What is active or unresolved is a row of the history.
LEMMA RowsShown ==
    ASSUME NEW D, NEW V, NEW W, NEW U, NEW records, NEW asOf, Resolved(D, V, W, U, records, asOf)
    PROVE  /\ IsFiniteSet(Active(V) \union U)
           /\ \A x \in Active(V) \union U : IsRow(x) /\ \E r \in D : Stems(x, r)
           /\ \A x, y \in Active(V) \union U : x.accession = y.accession => x.cik = y.cik
<1>1. IsFiniteSet(Active(V)) /\ IsFiniteSet(U)
    BY FS_Subset DEF Resolved, Replayed, RowsOK, Active
<1>2. IsFiniteSet(Active(V) \union U)
    BY <1>1, FS_Union
<1>3. \A x \in Active(V) : \E r \in D : Stems(x, r)
    BY DEF Resolved, Replayed, Revision, Active
<1>4. \A x \in U : \E r \in D : Stems(x, r)
    BY DEF Resolved, RowsOK, Stems
<1>5. \A x \in Active(V) \union U : IsRow(x) /\ \E r \in D : Stems(x, r)
    BY <1>3, <1>4 DEF Stems
<1>6. \A r, q \in D : r.accession = q.accession => r.cik = q.cik
    BY DEF Resolved, RowsOK
<1>7. \A x, y \in Active(V) \union U : x.accession = y.accession => x.cik = y.cik
    BY <1>5, <1>6 DEF Stems
<1> QED
    BY <1>2, <1>5, <1>7

\* An eligible event shows rows that stand: none of them is an unlinked amendment.
LEMMA EligibleRows ==
    ASSUME NEW D, NEW V, NEW W, NEW U, NEW records, NEW asOf, Resolved(D, V, W, U, records, asOf),
           NEW e \in EventsOf(Active(V) \union U, U, Blocked(U)).events, e.eligible
    PROVE  \E first \in Active(V) :
              /\ Shows(e, first, Active(V) \union U, U)
              /\ QualifiedTrade(first) /\ first.cik \notin Blocked(U) /\ first.owner \in e.owners
              /\ \A o \in e.owners :
                    \E r \in Active(V) : /\ r.accession = e.key[1] /\ RowOf(r) = <<o, e.key[2], e.key[3]>>
                                         /\ r.cik = first.cik
<1> DEFINE both == Active(V) \union U
<1>1. PICK first \in both : Shows(e, first, both, U)
    BY RowsShown, EventsAre
<1>2. QualifiedTrade(first) /\ first.cik \notin Blocked(U) /\ e.key = EventKey(first)
    BY <1>1 DEF Shows
<1>3. \A r \in both : r.cik = first.cik => r \in Active(V)
    BY <1>2 DEF Blocked
<1>4. \A r \in both : EventKey(r) = e.key => r.cik = first.cik
    <2>1. \A x, y \in both : x.accession = y.accession => x.cik = y.cik
        BY RowsShown
    <2>2. \A r \in both : EventKey(r) = e.key => r.accession = first.accession
        BY <1>2 DEF EventKey
    <2> HIDE DEF both
    <2> QED
        BY <1>1, <2>1, <2>2 DEF Shows
<1>5. e.owners = {r.owner : r \in {q \in both : EventKey(q) = e.key}}
    BY <1>1 DEF Shows
<1> HIDE DEF both
<1>6. ASSUME NEW o \in e.owners
      PROVE  \E r \in Active(V) : /\ r.accession = e.key[1] /\ RowOf(r) = <<o, e.key[2], e.key[3]>>
                                  /\ r.cik = first.cik
    <2>1. PICK r \in both : EventKey(r) = e.key /\ r.owner = o
        BY <1>5
    <2>2. r.accession = e.key[1] /\ RowOf(r) = <<o, e.key[2], e.key[3]>>
        BY <2>1 DEF EventKey, RowOf
    <2> QED
        BY <1>3, <1>4, <2>1, <2>2
<1>7. first \in Active(V) /\ first.owner \in e.owners
    BY <1>1, <1>2, <1>3, <1>5
<1> QED
    BY <1>1, <1>2, <1>6, <1>7 DEF both

\* A row that stands is named by no amendment of its issuer, unless the issuer is blocked.
LEMMA AmendedIsGone ==
    ASSUME NEW D, NEW V, NEW W, NEW U, NEW records, NEW asOf, Resolved(D, V, W, U, records, asOf),
           NEW q \in D, q.amendment, q.cik \notin Blocked(U),
           NEW acc, \A p : RevisionOf(p.rid) = p.accession /\ Links(q, p) => p.accession = acc
    PROVE  \A y \in Active(V) : ~(y.accession = acc /\ RowOf(y) = RowOf(q))
<1> SUFFICES ASSUME NEW y \in Active(V), y.accession = acc, RowOf(y) = RowOf(q) PROVE FALSE
    OBVIOUS
<1>1. ~\E w \in W : w.row = q
    BY DEF Resolved, Blocked
<1>2. PICK p \in V : p.status = "SUPERSEDED" /\ Amends(q, p)
    BY <1>1 DEF Resolved, Replayed, Settled
<1>3. RevisionOf(p.rid) = p.accession
    BY DEF Resolved, Replayed, Revision
<1>4. p.accession = acc
    BY <1>2, <1>3 DEF Amends
<1>5. Key(p) = Key(y)
    BY <1>2, <1>4 DEF Amends, SameRow, Key
<1>6. p = y
    BY <1>5 DEF Resolved, Replayed, OnePerRow, Active
<1> QED
    BY <1>2, <1>6 DEF Active

\* A row that is known stands, or an amendment that is known replaced it.
LEMMA StandsOrAmended ==
    ASSUME NEW D, NEW V, NEW W, NEW U, NEW records, NEW asOf, Resolved(D, V, W, U, records, asOf),
           RowsOK(records), NEW r \in records, Seen(r, asOf), r.cik \notin Blocked(U)
    PROVE  \E q \in D : \E x \in V :
              /\ Key(q) = Key(r) /\ Stems(x, q)
              /\ \/ x \in Active(V)
                 \/ RevisionOf(x.rid) = x.accession /\ \E a \in D : Amends(a, x)
<1>1. PICK q \in D : Key(q) = Key(r)
    BY DEF Resolved
<1>2. q.cik = r.cik
    BY <1>1 DEF Resolved, RowsOK, Key
<1>3. ~\E w \in W : w.row = q
    BY <1>2 DEF Resolved, Blocked
<1>4. PICK x \in V : Key(x) = Key(q)
    BY <1>3 DEF Resolved, Replayed, Settled
<1>5. Revision(x, D, asOf)
    BY DEF Resolved, Replayed
<1>6. PICK d \in D : Stems(x, d)
    BY <1>5 DEF Revision
<1>7. d = q
    BY <1>4, <1>6 DEF Stems, Key, Resolved, OnePerRow
<1> QED
    BY <1>1, <1>5, <1>6, <1>7 DEF Revision, Active

(* The rows of the history. *)
LEMMA FiniteImage ==
    ASSUME NEW f, IsFiniteSet(DOMAIN f)
    PROVE  IsFiniteSet({f[x] : x \in DOMAIN f})
<1>1. [x \in DOMAIN f |-> f[x]] \in Surjection(DOMAIN f, {f[x] : x \in DOMAIN f})
    BY DEF Surjection
<1> QED
    BY <1>1, FS_Surjection

\* Where the first reason of a sequence is None, no reason holds.
LEMMA FirstIsNone ==
    ASSUME NEW reasons, Len(reasons) \in Nat, First(reasons) = None,
           \A i \in 1..Len(reasons) : reasons[i].code # None
    PROVE  \A i \in 1..Len(reasons) : ~reasons[i].holds
<1> DEFINE holding == {i \in 1..Len(reasons) : reasons[i].holds}
           first == CHOOSE i \in holding : \A j \in holding : i <= j
<1>1. SUFFICES ASSUME holding # {} PROVE FALSE
    OBVIOUS
<1>2. \E i \in holding : \A j \in holding : i <= j
    <2>1. holding \subseteq Nat
        OBVIOUS
    <2> HIDE DEF holding
    <2> QED
        BY <1>1, <2>1, LeastExists
<1>3. first \in holding
    BY <1>2
<1>4. First(reasons) = reasons[first].code
    BY <1>1 DEF First
<1> HIDE DEF first
<1> QED
    BY <1>3, <1>4

\* An owner that is accepted has a number.
LEMMA OwnersAre ==
    ASSUME NEW d, NEW o \in Owners(d), d.owners[o].cik \in Int \union {Bad, None}
    PROVE  d.owners[o].cik \in Int
<1> DEFINE reasons == << Reason("MISSING_OWNER_IDENTITY", ~d.owners[o].named),
                         Reason("MISSING_OWNER_CIK", d.owners[o].cik \in {None, Bad}) >>
<1>1. First(reasons) = None
    BY DEF Owners, OwnerFault
<1>2. /\ Len(reasons) = 2 /\ reasons[2].holds = (d.owners[o].cik \in {None, Bad})
      /\ reasons[1].code = "MISSING_OWNER_IDENTITY" /\ reasons[2].code = "MISSING_OWNER_CIK"
    BY DEF Reason
<1>3. \A i \in 1..Len(reasons) : reasons[i].code # None
    BY <1>2, NoneAssumption
<1> HIDE DEF reasons
<1>4. ~reasons[2].holds
    BY <1>1, <1>2, <1>3, FirstIsNone
<1> QED
    BY <1>2, <1>4

\* A document without a fault has legible references.
LEMMA FaultFacts ==
    ASSUME NEW d, DocumentFault(d) = None
    PROVE  d.accession # Bad /\ Bad \notin {d.amends, d.supersedes}
<1> DEFINE reasons == <<
    Reason("INVALID_PAYLOAD",         d.payload = "type"),
    Reason("PAYLOAD_TOO_LARGE",       d.payload = "large"),
    Reason("UNSAFE_XML",              d.payload = "dtd"),
    Reason("INVALID_XML",             d.payload = "broken"),
    Reason("UNSUPPORTED_DOCUMENT",    d.payload = "otherRoot"),
    Reason("XML_NESTING_LIMIT",       d.payload = "deep"),
    Reason("INVALID_ACCESSION",       d.accession = Bad),
    Reason("MISSING_ISSUER",          d.cik \in {None, Bad} \/ ~d.named),
    Reason("UNSUPPORTED_FORM",        d.form \notin Forms),
    Reason("INVALID_SOURCE_URL",      d.url = Bad),
    Reason("INVALID_AMENDMENT_LINK",  Bad \in {d.amends, d.supersedes}),
    Reason("MISSING_OWNER",           d.owners = <<>>),
    Reason("TRANSACTION_ROW_LIMIT",   d.payload = "manyRows") >>
<1>1. First(reasons) = None
    BY DEF DocumentFault
<1>2. /\ Len(reasons) = 13 /\ reasons[7].holds = (d.accession = Bad)
      /\ reasons[11].holds = (Bad \in {d.amends, d.supersedes})
    BY DEF Reason
<1>3. \A i \in 1..13 : reasons[i].code # None
    BY NoneAssumption DEF Reason
<1> HIDE DEF reasons
<1>4. \A i \in 1..Len(reasons) : ~reasons[i].holds
    <2>1. Len(reasons) \in Nat /\ \A i \in 1..Len(reasons) : reasons[i].code # None
        BY <1>2, <1>3
    <2> QED
        BY <1>1, <2>1, FirstIsNone
<1>5. 7 \in 1..Len(reasons) /\ 11 \in 1..Len(reasons)
    BY <1>2
<1> QED
    BY <1>2, <1>4, <1>5

\* Filings that are stored were listed, and stamped with the instant they came.
StampOf(d, t) == [d EXCEPT !.observed = t, !.recorded = t]

\* Two filings that differ at most in the day they are listed and the instants they came.
Alike(c, d) ==
    /\ c.payload = d.payload /\ c.accession = d.accession /\ c.cik = d.cik /\ c.named = d.named
    /\ c.ticker = d.ticker /\ c.form = d.form /\ c.url = d.url /\ c.amends = d.amends
    /\ c.supersedes = d.supersedes /\ c.owners = d.owners /\ c.planBox = d.planBox /\ c.planNotes = d.planNotes
    /\ c.rows = d.rows /\ c.hash = d.hash /\ c.accepted = d.accepted /\ c.corrects = d.corrects

\* The stamp of a filing says what the filing says and carries the instant of the run.
LEMMA StampAlike ==
    ASSUME NEW w \in DOMAIN Worlds, NEW d \in Worlds[w], NEW t
    PROVE  /\ Alike(StampOf(d, t), d) /\ StampOf(d, t).day = d.day
           /\ StampOf(d, t).observed = t /\ StampOf(d, t).recorded = t
BY FilingsAssumption DEF StampOf, Alike

\* Saying the same is symmetric and transitive.
LEMMA AlikeFacts ==
    ASSUME NEW c, NEW d, Alike(c, d)
    PROVE  Alike(d, c) /\ \A e : Alike(d, e) => Alike(c, e)
BY DEF Alike

\* Two filings under one accession are one, whatever the day they are listed.
LEMMA OneFiling ==
    ASSUME NEW w \in DOMAIN Worlds, NEW c \in Worlds[w], NEW d \in Worlds[w], c.accession = d.accession
    PROVE  Alike(c, d)
<1>1. [c EXCEPT !.day = d.day] = d
    BY AccessionsAssumption
<1>2. Alike(c, [c EXCEPT !.day = d.day])
    BY FilingsAssumption DEF Alike
<1> QED
    BY <1>1, <1>2

\* What a row says of the filing it is from, and how it names what it amends.
Says(r, d) ==
    LET row == d.rows[r.table][r.seq]
    IN  /\ r.accession = d.accession /\ r.cik = d.cik
        /\ r.table \in TableTypes /\ r.seq \in RowsFiled(d, r.table) /\ r.owner \in CikOf(d)
        /\ row.date \notin {None, Bad} /\ row.price # Bad
        /\ r.table = Shares => r.shares # None
        /\ r.title = row.title /\ r.date = row.date /\ r.code = row.code /\ r.side = row.side
        /\ r.shares = Known(row.shares) /\ r.price = Known(row.price) /\ r.value = RowValue(row)

Told(r, d) ==
    /\ Says(r, d)
    /\ r.hash = d.hash /\ r.amendment = (d.form \in {"3/A", "4/A", "5/A"})
    /\ r.amends = d.amends /\ r.supersedes = d.supersedes /\ Bad \notin {d.amends, d.supersedes}

\* A row that is told by a filing is told by every one that says the same.
LEMMA SaysAlike ==
    ASSUME NEW c, NEW d, Alike(c, d)
    PROVE  /\ CikOf(c) = CikOf(d) /\ \A table : RowsFiled(c, table) = RowsFiled(d, table)
           /\ \A r : (Says(r, c) => Says(r, d)) /\ (Told(r, c) => Told(r, d))
<1>1. CikOf(c) = CikOf(d) /\ \A table : RowsFiled(c, table) = RowsFiled(d, table)
    BY DEF Alike, CikOf, RowsFiled
<1>2. c.rows = d.rows /\ c.accession = d.accession /\ c.cik = d.cik
    BY DEF Alike
<1>3. \A r : Says(r, c) => Says(r, d)
    BY <1>1, <1>2 DEF Says
<1> QED
    BY <1>1, <1>3 DEF Told, Alike

\* What a row says of its filing, the revision that stems from it still says.
LEMMA SaysStill ==
    ASSUME NEW x, NEW r, NEW d, Stems(x, r), Says(r, d)
    PROVE  Says(x, d)
<1>1. x.owner = r.owner /\ x.table = r.table /\ x.seq = r.seq
    BY DEF Stems, RowOf
<1> QED
    BY <1>1 DEF Says, Stems

\* A parsed row is a row as it was filed, told by its filing.
LEMMA RowIs ==
    ASSUME NEW w \in DOMAIN Worlds, NEW d \in Worlds[w], NEW t \in Nat, NEW r \in Records(StampOf(d, t))
    PROVE  /\ IsRow(r) /\ AsFiled(r) /\ Told(r, d)
           /\ r.accepted = d.accepted /\ r.recorded = t /\ r.knowledge = Later(t, d.accepted)
<1> DEFINE e == StampOf(d, t)
<1>1. Alike(e, d) /\ e.observed = t /\ e.recorded = t
    BY StampAlike
<1> HIDE DEF e
<1>2. DocumentFault(e) = None
    BY DEF Records, e
<1>3. PICK key \in RowKeys(e) : r = CanonicalRow(e, key[1], key[2], key[3]) /\ RowAccepted(e, key)
    BY <1>2 DEF Records, e
<1> DEFINE table == key[1]
           n == key[2]
           o == key[3]
           row == e.rows[table][n]
<1>4. /\ table \in TableTypes /\ n \in 1..Len(e.rows[table])
      /\ o \in Owners(e) /\ o \in 1..Len(e.owners)
    BY DEF RowKeys, Owners
<1>5. /\ e.rows = d.rows /\ e.owners = d.owners /\ e.accession = d.accession /\ e.hash = d.hash
      /\ e.cik = d.cik /\ e.form = d.form /\ e.amends = d.amends /\ e.supersedes = d.supersedes
      /\ e.accepted = d.accepted
    BY <1>1 DEF Alike
<1>6. /\ Len(d.rows[table]) \in Nat /\ d.accepted \in Int \union {None} /\ d.hash \in Int
      /\ d.accession \in Int \union {Bad} /\ d.owners[o].cik \in Int \union {Bad, None}
    BY <1>4, <1>5, FilingsAssumption, AccessionsAssumption
<1>7. /\ e.accession \in Int /\ e.owners[o].cik \in Int /\ n \in Int
      /\ Bad \notin {e.amends, e.supersedes}
    BY <1>2, <1>4, <1>5, <1>6, FaultFacts, OwnersAre
<1>8. Later(e.observed, e.accepted) \in Int /\ t # None
    BY <1>1, <1>5, <1>6, NoneAssumption DEF Later
<1> HIDE DEF table, n, o
<1>9. /\ r.accession = e.accession /\ r.hash = e.hash /\ r.cik = e.cik
      /\ r.amendment = (e.form \in {"3/A", "4/A", "5/A"})
      /\ r.amends = e.amends /\ r.supersedes = e.supersedes
      /\ r.owner = e.owners[o].cik /\ r.table = table /\ r.seq = n
      /\ r.knowledge = Later(e.observed, e.accepted) /\ r.accepted = e.accepted
      /\ r.recorded = IF e.recorded = None THEN e.observed ELSE e.recorded
      /\ r.validFrom = r.recorded /\ r.validTo = None /\ r.status = "ACTIVE"
    BY <1>3 DEF CanonicalRow, table, n, o
<1>10. /\ r.tid = <<e.accession, e.owners[o].cik, table, n>> /\ r.rid = <<r.tid, e.hash>>
       /\ r.title = row.title /\ r.date = row.date /\ r.code = row.code /\ r.side = row.side
       /\ r.shares = Known(row.shares) /\ r.price = Known(row.price) /\ r.value = RowValue(row)
    BY <1>3 DEF CanonicalRow, table, n, o
<1>11. {"tid", "rid", "accession", "owner", "table", "seq", "hash", "cik", "knowledge", "recorded",
        "amendment", "amends", "supersedes", "revision", "status", "validFrom", "validTo",
        "title", "date", "code", "side", "shares", "price", "value"} \subseteq DOMAIN r
    BY <1>3 DEF CanonicalRow
<1>12. row.date \notin {None, Bad} /\ row.price # Bad /\ (table = Shares => Known(row.shares) # None)
    BY <1>3 DEF RowAccepted, RowReadable, Shares, table, n
<1>13. IsRow(r)
    BY <1>1, <1>4, <1>5, <1>6, <1>7, <1>8, <1>9, <1>11 DEF IsRow
<1>14. AsFiled(r)
    BY <1>5, <1>6, <1>9, <1>10 DEF AsFiled, OwnerLocator
<1>15. r.seq \in RowsFiled(d, r.table) /\ r.owner \in CikOf(d)
    BY <1>4, <1>5, <1>9 DEF RowsFiled, CikOf
<1>16. Says(r, d)
    BY <1>4, <1>5, <1>9, <1>10, <1>12, <1>15 DEF Says
<1>17. Told(r, d)
    BY <1>5, <1>7, <1>9, <1>16 DEF Told
<1> QED
    BY <1>1, <1>5, <1>8, <1>9, <1>13, <1>14, <1>17

\* A filing has finitely many rows.
LEMMA RecordsFinite ==
    ASSUME NEW d, Len(d.owners) \in Nat, \A table \in TableTypes : Len(d.rows[table]) \in Nat
    PROVE  IsFiniteSet(Records(d))
<1> DEFINE m == Len(d.rows["NON_DERIVATIVE"]) + Len(d.rows["DERIVATIVE"])
           P == (TableTypes \X (1..m)) \X (1..Len(d.owners))
           f == [p \in P |-> <<p[1][1], p[1][2], p[2]>>]
           K == {f[p] : p \in DOMAIN f}
<1>0. m \in Nat /\ \A table \in TableTypes : 1..Len(d.rows[table]) \subseteq 1..m
    <2>1. \A a, b \in Nat : a + b \in Nat /\ 1..a \subseteq 1..(a + b) /\ 1..b \subseteq 1..(a + b)
        OBVIOUS
    <2>2. Len(d.rows["NON_DERIVATIVE"]) \in Nat /\ Len(d.rows["DERIVATIVE"]) \in Nat
        BY DEF TableTypes
    <2>3. \A table \in TableTypes : table = "NON_DERIVATIVE" \/ table = "DERIVATIVE"
        BY DEF TableTypes
    <2> QED
        BY <2>1, <2>2, <2>3
<1> HIDE DEF m
<1>1. IsFiniteSet(P)
    <2>1. IsFiniteSet(TableTypes)
        <3>1. IsFiniteSet({"NON_DERIVATIVE"}) /\ TableTypes = {"NON_DERIVATIVE"} \union {"DERIVATIVE"}
            BY FS_Singleton DEF TableTypes
        <3> QED
            BY <3>1, FS_AddElement
    <2>2. IsFiniteSet(1..m) /\ IsFiniteSet(1..Len(d.owners))
        <3>1. 1 \in Int /\ m \in Int /\ Len(d.owners) \in Int
            BY <1>0
        <3>2. IsFiniteSet(1..m)
            BY <3>1, FS_Interval
        <3>3. IsFiniteSet(1..Len(d.owners))
            BY <3>1, FS_Interval
        <3> QED
            BY <3>2, <3>3
    <2>3. IsFiniteSet(TableTypes \X (1..m))
        BY <2>1, <2>2, FS_Product
    <2> QED
        BY <2>2, <2>3, FS_Product
<1>2. IsFiniteSet(K)
    <2>1. DOMAIN f = P
        OBVIOUS
    <2> HIDE DEF f
    <2> QED
        BY <1>1, <2>1, FiniteImage
<1>3. RowKeys(d) \subseteq K
    <2> SUFFICES ASSUME NEW k \in RowKeys(d) PROVE k \in K
        OBVIOUS
    <2>1. k = <<k[1], k[2], k[3]>> /\ k[1] \in TableTypes /\ k[2] \in 1..m /\ k[3] \in 1..Len(d.owners)
        BY <1>0 DEF RowKeys, Owners
    <2>2. <<<<k[1], k[2]>>, k[3]>> \in P
        BY <2>1
    <2>3. f[<<<<k[1], k[2]>>, k[3]>>] = k
        BY <2>1, <2>2
    <2> QED
        BY <2>2, <2>3
<1> DEFINE A == {k \in RowKeys(d) : RowAccepted(d, k)}
           g == [k \in A |-> CanonicalRow(d, k[1], k[2], k[3])]
<1>4. IsFiniteSet(A)
    <2> HIDE DEF K
    <2> QED
        BY <1>2, <1>3, FS_Subset
<1>5. IsFiniteSet({g[k] : k \in DOMAIN g}) /\ DOMAIN g = A
    <2>1. DOMAIN g = A
        OBVIOUS
    <2> HIDE DEF g, A
    <2> QED
        BY <1>4, <2>1, FiniteImage
<1>6. Records(d) \subseteq {g[k] : k \in DOMAIN g}
    BY DEF Records
<1> HIDE DEF g
<1> QED
    BY <1>5, <1>6, FS_Subset

\* A document that is read to the last row.
Whole(d) ==
    /\ DocumentFault(d) = None /\ Owners(d) = 1..Len(d.owners)
    /\ \A k \in RowKeys(d) : RowAccepted(d, k)

\* A filing that puts nothing in quarantine is parsed whole.
LEMMA WholeIs ==
    ASSUME NEW d, Quarantines(d) = {}
    PROVE  Whole(d)
<1>1. DocumentFault(d) = None
    BY DEF Quarantines
<1>2. Owners(d) = 1..Len(d.owners)
    BY <1>1 DEF Quarantines, Owners
<1>3. \A k \in RowKeys(d) : RowAccepted(d, k)
    BY <1>1 DEF Quarantines
<1> QED
    BY <1>1, <1>2, <1>3 DEF Whole

\* Two filings that say the same are parsed whole together.
LEMMA WholeAlike ==
    ASSUME NEW c, NEW d, Alike(c, d), Whole(c)
    PROVE  Whole(d)
<1>1. c.rows = d.rows /\ c.owners = d.owners
    BY DEF Alike
<1>2. DocumentFault(d) = DocumentFault(c)
    BY DEF DocumentFault, Alike
<1>3. Owners(d) = Owners(c)
    BY <1>1 DEF Owners
<1>4. RowKeys(d) = RowKeys(c)
    BY <1>1, <1>3 DEF RowKeys
<1>5. ASSUME NEW k \in RowKeys(c) PROVE RowAccepted(d, k)
    <2>1. RowReadable(c.rows[k[1]][k[2]], k[1]) /\ Canonical(CanonicalRow(c, k[1], k[2], k[3]))
        BY DEF Whole, RowAccepted
    <2> DEFINE a == CanonicalRow(c, k[1], k[2], k[3])
               b == CanonicalRow(d, k[1], k[2], k[3])
    <2>2. /\ a.schema = b.schema /\ a.table = b.table /\ a.code = b.code /\ a.shares = b.shares
          /\ a.value = b.value /\ a.derivation = b.derivation /\ a.economic = b.economic
        BY <1>1 DEF CanonicalRow
    <2> HIDE DEF a, b
    <2>3. Canonical(a) => Canonical(b)
        BY <2>2 DEF Canonical
    <2> QED
        BY <1>1, <2>1, <2>3 DEF RowAccepted, a, b
<1> QED
    BY <1>1, <1>2, <1>3, <1>4, <1>5 DEF Whole

\* A filing that is parsed whole gives every row of every owner.
LEMMA WholeRows ==
    ASSUME NEW d, Whole(d), NEW owner \in CikOf(d), NEW table \in TableTypes, NEW n \in RowsFiled(d, table)
    PROVE  \E r \in Records(d) :
              r.accession = d.accession /\ r.owner = owner /\ r.table = table /\ r.seq = n
<1>1. PICK o \in 1..Len(d.owners) : owner = d.owners[o].cik
    BY DEF CikOf
<1>2. <<table, n, o>> \in RowKeys(d)
    BY DEF RowKeys, RowsFiled, Whole
<1> DEFINE r == CanonicalRow(d, table, n, o)
<1>3. r \in Records(d)
    <2>1. RowAccepted(d, <<table, n, o>>)
        BY <1>2 DEF Whole
    <2> DEFINE k == <<table, n, o>>
    <2>2. k \in {q \in RowKeys(d) : RowAccepted(d, q)} /\ r = CanonicalRow(d, k[1], k[2], k[3])
        BY <1>2, <2>1
    <2> HIDE DEF k, r
    <2> QED
        BY <2>2 DEF Records, Whole
<1>4. r.accession = d.accession /\ r.owner = owner /\ r.table = table /\ r.seq = n
    BY <1>1 DEF CanonicalRow
<1> QED
    BY <1>3, <1>4

\* A filing that is stored was listed on the day, after it was accepted.
Stored(f, day) ==
    \E d \in Filed : \E t \in 0..clock :
       d.day = day /\ d.accepted \in Int /\ d.accepted <= t /\ f = Parsed(StampOf(d, t))

\* A day without a failure has every filing that was listed.
Covered(c) == \A d \in Filed : d.day = c.day => \E f \in c.filings : f.accession = d.accession

StampsInv ==
    /\ clock \in Nat /\ world \in DOMAIN Worlds
    /\ \A c \in checkpoints :
          /\ c.day \in Published /\ c.day < clock
          /\ \A f \in c.filings : Stored(f, c.day)
          /\ c.failed = {} => Covered(c)

\* No day is stored to begin with.
LEMMA StampsStart == EvidenceInit => StampsInv
    BY DEF EvidenceInit, StampsInv

\* A day that is stored holds stamped filings of that day, and all of them unless one failed.
LEMMA DayStored ==
    ASSUME StampsInv, NEW day \in Published, AcquireDay(day)
    PROVE  \A c \in checkpoints' : c \notin checkpoints =>
              /\ c.day = day /\ \A f \in c.filings : Stored(f, day)
              /\ c.failed = {} => Covered(c)
<1> DEFINE onDay == {d \in Filed : d.day = day}
           old == {c \in checkpoints : c.day = day}
           stored == UNION {c.filings : c \in old}
           missing == {d \in onDay : \A s \in stored : s.accession # d.accession}
<1>1. PICK good \in SUBSET {d \in missing : Fetchable(d)} :
          checkpoints' = (checkpoints \ old) \union
             {[day |-> day, filings |-> stored \union {Stamped(d) : d \in good},
               failed |-> {d.accession : d \in missing \ good},
               discovered |-> Cardinality(onDay)]}
    BY DEF AcquireDay
<1> SUFFICES ASSUME NEW c \in checkpoints', c \notin checkpoints
             PROVE  /\ c.day = day /\ \A f \in c.filings : Stored(f, day)
                    /\ c.failed = {} => Covered(c)
    OBVIOUS
<1>2. /\ c.day = day /\ c.filings = stored \union {Stamped(d) : d \in good}
      /\ c.failed = {d.accession : d \in missing \ good}
    BY <1>1
<1>3. \A f \in stored : Stored(f, day)
    BY DEF StampsInv
<1>4. ASSUME NEW d \in good PROVE Stored(Stamped(d), day) /\ Stamped(d).accession = d.accession
    <2>1. d \in Filed /\ d.day = day /\ Fetchable(d)
        OBVIOUS
    <2>2. Stamped(d) = Parsed(StampOf(d, clock)) /\ clock \in 0..clock
        BY DEF Stamped, StampOf, StampsInv
    <2>3. d.accepted \in Int /\ d.accepted <= clock
        BY <2>1, FilingsAssumption DEF Fetchable, StampsInv, Filed
    <2>4. StampOf(d, clock).accession = d.accession
        BY <2>1, StampAlike DEF StampsInv, Filed, Alike
    <2> QED
        BY <2>1, <2>2, <2>3, <2>4 DEF Stored, Parsed
<1>5. \A f \in c.filings : Stored(f, day)
    <2> HIDE DEF stored
    <2> QED
        BY <1>2, <1>3, <1>4
<1>6. ASSUME c.failed = {}, NEW d \in Filed, d.day = day
      PROVE  \E f \in c.filings : f.accession = d.accession
    <2>1. CASE d \in missing
        <3>1. d \in good
            BY <1>2, <1>6, <2>1
        <3>2. Stamped(d) \in c.filings
            BY <1>2, <3>1
        <3> QED
            BY <1>4, <3>1, <3>2
    <2>2. CASE d \notin missing
        <3>1. PICK s \in stored : s.accession = d.accession
            BY <1>6, <2>2
        <3>2. s \in c.filings
            BY <1>2
        <3> QED
            BY <3>1, <3>2
    <2> QED
        BY <2>1, <2>2
<1> QED
    BY <1>2, <1>5, <1>6 DEF Covered

\* Every step keeps the stored filings those of the SEC days.
LEMMA StampsStay ==
    ASSUME StampsInv, [EvidenceNext]_evidenceVars
    PROVE  StampsInv'
<1>1. ASSUME clock' \in Nat, clock <= clock', UNCHANGED <<world, checkpoints>>
      PROVE  StampsInv'
    <2>1. 0..clock \subseteq 0..clock' /\ clock \in Nat
        BY <1>1 DEF StampsInv
    <2>2. Filed' = Filed /\ Published' = Published
        BY <1>1 DEF Filed, Published
    <2>3. \A f, day : Stored(f, day) => Stored(f, day)'
        BY <2>1, <2>2 DEF Stored
    <2>4. \A c \in checkpoints : c.day \in Published => (c.day < clock => c.day < clock')
        BY <1>1, <2>1, FilingsAssumption DEF StampsInv, Published, Filed
    <2> QED
        BY <1>1, <2>2, <2>3, <2>4 DEF StampsInv, Covered
<1>2. ASSUME NEW day \in Published, AcquireDay(day) PROVE StampsInv'
    <2>1. clock' = clock /\ world' = world /\ day < clock
        BY <1>2 DEF AcquireDay
    <2>2. Filed' = Filed /\ Published' = Published
        BY <2>1 DEF Filed, Published
    <2>3. \A f, e : Stored(f, e) <=> Stored(f, e)'
        BY <2>1, <2>2 DEF Stored
    <2>4. \A c : Covered(c) <=> Covered(c)'
        BY <2>2 DEF Covered
    <2>5. \A c \in checkpoints' : c \notin checkpoints =>
              /\ c.day = day /\ \A f \in c.filings : Stored(f, day)
              /\ c.failed = {} => Covered(c)
        BY <1>2, DayStored
    <2> QED
        BY <2>1, <2>2, <2>3, <2>4, <2>5 DEF StampsInv
<1>3. CASE Tick
    BY <1>1, <1>3 DEF Tick, StampsInv
<1>4. CASE Observe \/ Create \/ Upload \/ PublishHistory \/ Verify \/ LoseJob \/ UNCHANGED evidenceVars
    <2>1. UNCHANGED <<clock, world, checkpoints>>
        BY <1>4 DEF Observe, Create, Upload, PublishHistory, Verify, LoseJob, evidenceVars
    <2> QED
        BY <1>1, <2>1 DEF StampsInv
<1> QED
    BY <1>2, <1>3, <1>4 DEF EvidenceNext

\* Every row of the history is a row of a filing, as it came at an instant.
LEMMA HistoryRows ==
    ASSUME StampsInv
    PROVE  \A r \in History : \E d \in Filed : \E t \in 0..clock :
              /\ r \in Records(StampOf(d, t))
              /\ d.day \in ExpectedDays /\ d.accepted \in Int /\ d.accepted <= t
<1> SUFFICES ASSUME NEW r \in History
             PROVE  \E d \in Filed : \E t \in 0..clock :
                       /\ r \in Records(StampOf(d, t))
                       /\ d.day \in ExpectedDays /\ d.accepted \in Int /\ d.accepted <= t
    OBVIOUS
<1>1. PICK f \in Selected(checkpoints) : r \in f.records
    BY DEF History, ParsedRows
<1>2. PICK c \in checkpoints : f \in c.filings
    BY DEF Selected
<1>3. c.day \in ExpectedDays /\ Stored(f, c.day)
    BY <1>2 DEF StampsInv, ExpectedDays
<1>4. PICK d \in Filed, t \in 0..clock :
         d.day = c.day /\ d.accepted \in Int /\ d.accepted <= t /\ f = Parsed(StampOf(d, t))
    BY <1>3 DEF Stored
<1>5. f.records = Records(StampOf(d, t))
    BY <1>4 DEF Parsed
<1> QED
    BY <1>1, <1>3, <1>4, <1>5

\* The history is finite.
LEMMA HistoryFinite ==
    ASSUME StampsInv
    PROVE  IsFiniteSet(History)
<1> DEFINE P == Filed \X (0..clock)
           g == [p \in P |-> Records(StampOf(p[1], p[2]))]
           R == {g[p] : p \in DOMAIN g}
<1>1. IsFiniteSet(P)
    <2>1. IsFiniteSet(Filed)
        BY AccessionsAssumption DEF StampsInv, Filed
    <2>2. IsFiniteSet(0..clock)
        BY FS_Interval DEF StampsInv
    <2> QED
        BY <2>1, <2>2, FS_Product
<1>2. IsFiniteSet(R)
    <2>1. DOMAIN g = P
        OBVIOUS
    <2> HIDE DEF g
    <2> QED
        BY <1>1, <2>1, FiniteImage
<1>3. \A T \in R : IsFiniteSet(T)
    <2> SUFFICES ASSUME NEW p \in P PROVE IsFiniteSet(Records(StampOf(p[1], p[2])))
        OBVIOUS
    <2> DEFINE d == p[1]
               e == StampOf(d, p[2])
    <2>1. /\ world \in DOMAIN Worlds /\ d \in Worlds[world] /\ Len(d.owners) \in Nat
          /\ \A table \in TableTypes : Len(d.rows[table]) \in Nat
        BY AccessionsAssumption, FilingsAssumption DEF StampsInv, Filed
    <2>2. e.owners = d.owners /\ e.rows = d.rows
        BY <2>1, StampAlike DEF Alike
    <2> HIDE DEF e
    <2>3. Len(e.owners) \in Nat /\ \A table \in TableTypes : Len(e.rows[table]) \in Nat
        BY <2>1, <2>2
    <2>4. IsFiniteSet(Records(e))
        BY <2>3, RecordsFinite
    <2> QED
        BY <2>4 DEF e
<1>4. History \subseteq UNION R
    <2> SUFFICES ASSUME NEW r \in History PROVE r \in UNION R
        OBVIOUS
    <2>1. PICK d \in Filed, t \in 0..clock : r \in Records(StampOf(d, t))
        BY HistoryRows
    <2>2. <<d, t>> \in P /\ g[<<d, t>>] = Records(StampOf(d, t))
        OBVIOUS
    <2>3. g[<<d, t>>] \in R
        BY <2>2
    <2> HIDE DEF R, g
    <2> QED
        BY <2>1, <2>2, <2>3
<1>5. IsFiniteSet(UNION R)
    <2> HIDE DEF R
    <2> QED
        BY <1>2, <1>3, FS_UNION
<1> HIDE DEF R
<1> QED
    BY <1>4, <1>5, FS_Subset

\* What the history tells, a filing of a published day told before now.
LEMMA HistoryTold ==
    ASSUME StampsInv, NEW r \in History
    PROVE  /\ IsRow(r) /\ AsFiled(r)
           /\ \E d \in Filed : Told(r, d) /\ d.day \in ExpectedDays
           /\ r.date <= clock => Seen(r, clock)
<1>1. PICK d \in Filed, t \in 0..clock :
         r \in Records(StampOf(d, t)) /\ d.day \in ExpectedDays /\ d.accepted \in Int /\ d.accepted <= t
    BY HistoryRows
<1>2. world \in DOMAIN Worlds /\ d \in Worlds[world] /\ clock \in Nat /\ t \in Nat /\ t <= clock
    BY DEF StampsInv, Filed
<1>3. /\ IsRow(r) /\ AsFiled(r) /\ Told(r, d)
      /\ r.accepted = d.accepted /\ r.recorded = t /\ r.knowledge = Later(t, d.accepted)
    BY <1>1, <1>2, RowIs
<1>4. Later(t, d.accepted) = t /\ Later(t, t) = t
    BY <1>1, <1>2 DEF Later
<1>5. r.accepted # None /\ Later(Later(r.knowledge, r.recorded), r.accepted) <= clock
    BY <1>1, <1>2, <1>3, <1>4, NoneAssumption
<1> QED
    BY <1>1, <1>3, <1>5 DEF Seen

\* The history is a set of rows as they were filed, as the replay takes them.
LEMMA HistoryOK ==
    ASSUME StampsInv
    PROVE  RowsOK(History)
<1>1. \A r \in History : IsRow(r) /\ AsFiled(r)
    BY HistoryTold
<1>2. \A r, q \in History : r.accession = q.accession => r.hash = q.hash /\ r.cik = q.cik
    <2> SUFFICES ASSUME NEW r \in History, NEW q \in History, r.accession = q.accession
                 PROVE  r.hash = q.hash /\ r.cik = q.cik
        OBVIOUS
    <2>1. PICK d \in Filed : Told(r, d)
        BY HistoryTold
    <2>2. PICK c \in Filed : Told(q, c)
        BY HistoryTold
    <2>3. Alike(c, d)
        BY <2>1, <2>2, OneFiling DEF Told, Says, StampsInv, Filed
    <2> QED
        BY <2>1, <2>2, <2>3 DEF Told, Says, Alike
<1> QED
    BY <1>1, <1>2, HistoryFinite DEF RowsOK

\* A row is told by the filing of its accession, on whatever day that one was listed.
LEMMA ToldBy ==
    ASSUME StampsInv, NEW r \in History, NEW d \in Filed, r.accession = d.accession
    PROVE  Told(r, d)
<1>1. PICK c \in Filed : Told(r, c)
    BY HistoryTold
<1>2. Alike(c, d)
    BY <1>1, OneFiling DEF Told, Says, StampsInv, Filed
<1> QED
    BY <1>1, <1>2, SaysAlike

\* What a row of an amendment names is the filing the amendment corrects.
LEMMA LinksCorrected ==
    ASSUME StampsInv, NEW r, NEW d \in Filed, Told(r, d), r.amendment
    PROVE  \A p : RevisionOf(p.rid) = p.accession /\ Links(r, p) => p.accession = d.corrects
<1>1. /\ d.amends \in {None, Bad, d.corrects}
      /\ d.supersedes \in {None, Bad} \/ RevisionOf(d.supersedes) = d.corrects
    BY AccessionsAssumption DEF StampsInv, Filed, Told
<1>2. r.amends = d.amends /\ r.supersedes = d.supersedes /\ d.amends # Bad /\ d.supersedes # Bad
    BY DEF Told
<1> QED
    BY <1>1, <1>2 DEF Links

\* What corrects a filing is an amendment, in every row.
LEMMA CorrectionsAmend ==
    ASSUME StampsInv, NEW r, NEW d \in Filed, Told(r, d), d.corrects # None
    PROVE  r.amendment
BY AccessionsAssumption DEF StampsInv, Filed, Told

\* The events a snapshot shows are the events of the history, fewer of them eligible; a window
\* it calls complete is of an issuer that nothing bars, and every day in it is stored whole.
Narrows(e, g, resolved, quarantined) ==
    /\ e.key = g.key /\ e.cik = g.cik /\ e.date = g.date /\ e.code = g.code /\ e.owners = g.owners
    /\ e.eligible = (/\ g.eligible /\ g.cik \in resolved \ quarantined
                     /\ CommonTitle(g.title) /\ ~ExcludedTitle(g.title))

StoredWhole(day) ==
    \E c \in checkpoints : c.day = day /\ c.failed = {} /\ \A f \in c.filings : ~f.quarantined

WindowStored == \A day \in ExpectedDays : day >= clock - Window + 1 => StoredWhole(day)

ViewIs(events, blocked, resolved, quarantined) ==
    /\ \A e \in View.events : \E g \in events : Narrows(e, g, resolved, quarantined)
    /\ \A g \in events : \E e \in View.events : Narrows(e, g, resolved, quarantined)
    /\ \A cik \in DOMAIN View.basis : View.basis[cik].coverage = "COMPLETE" =>
          cik \notin blocked /\ cik \in resolved \ quarantined /\ WindowStored

\* Narrowing keeps the events and takes eligibility away alone (daily_research).
LEMMA NarrowedIs ==
    ASSUME NEW events, \A g \in events : {"key", "cik", "date", "code", "owners", "eligible"} \subseteq DOMAIN g,
           NEW resolved, NEW quarantined
    PROVE  /\ \A e \in Narrowed(events, resolved, quarantined) :
                 \E g \in events : Narrows(e, g, resolved, quarantined)
           /\ \A g \in events :
                 \E e \in Narrowed(events, resolved, quarantined) : Narrows(e, g, resolved, quarantined)
<1> DEFINE narrow(g) == [g EXCEPT !.eligible = /\ @ /\ g.cik \in resolved \ quarantined
                                                /\ CommonTitle(g.title) /\ ~ExcludedTitle(g.title)]
<1>1. Narrowed(events, resolved, quarantined) = {narrow(g) : g \in events}
    BY DEF Narrowed
<1>2. \A g \in events : Narrows(narrow(g), g, resolved, quarantined)
    BY DEF Narrows
<1> HIDE DEF narrow
<1> QED
    BY <1>1, <1>2

\* An issuer labelled complete is resolved, free of quarantine, and its window is stored.
LEMMA CoverageIs ==
    ASSUME StampsInv, NEW events, NEW blocked, NEW resolved, NEW quarantined,
           NEW view, view = SnapshotOf(events, blocked, quarantined, resolved, ExpectedDays,
                                       {DayEvidence(c) : c \in checkpoints}, clock),
           NEW cik \in DOMAIN view.basis, view.basis[cik].coverage = "COMPLETE"
    PROVE  cik \notin blocked /\ cik \in resolved \ quarantined /\ WindowStored
<1> DEFINE evidence == {DayEvidence(c) : c \in checkpoints}
           barred == cik \in blocked \union quarantined \/ cik \notin resolved
           start == clock - Window + 1
           relevant == {day \in ExpectedDays : day >= start /\ day <= clock}
<1>1. view.basis[cik] = Basis(events, cik, Window, clock, barred, ExpectedDays, evidence)
    BY DEF SnapshotOf
<1> HIDE DEF evidence, barred
<1>2. ~barred /\ \A day \in relevant : \E e \in evidence : e.day = day /\ e.complete
    BY <1>1 DEF Basis
<1>3. ASSUME NEW day \in ExpectedDays, day >= start PROVE StoredWhole(day)
    <2>1. day <= clock
        BY FilingsAssumption DEF ExpectedDays, Published, StampsInv, Filed
    <2>2. PICK c \in checkpoints : DayEvidence(c).day = day /\ DayEvidence(c).complete
        BY <1>2, <1>3, <2>1 DEF evidence
    <2> QED
        BY <2>2 DEF DayEvidence, StoredWhole
<1> QED
    BY <1>2, <1>3 DEF barred, WindowStored

\* What a run shows comes from the resolved history.
LEMMA EventsShown ==
    ASSUME StampsInv
    PROVE  \E D, V, W, U, resolved, quarantined :
              /\ Resolved(D, V, W, U, History, clock)
              /\ ViewIs(EventsOf(Active(V) \union U, U, Blocked(U)).events, Blocked(U), resolved, quarantined)
<1>1. clock \in Int
    BY DEF StampsInv
<1>2. PICK D, V, W, U :
         /\ Resolved(D, V, W, U, History, clock)
         /\ EconomicEvents(History, clock) = EventsOf(Active(V) \union U, U, Blocked(U))
    BY <1>1, HistoryOK, FactsAre
<1> DEFINE facts == EventsOf(Active(V) \union U, U, Blocked(U))
<1>3. PICK resolved, quarantined :
         View = SnapshotOf(Narrowed(facts.events, resolved, quarantined), facts.blocked, quarantined,
                           resolved, ExpectedDays, {DayEvidence(c) : c \in checkpoints}, clock)
    <2>1. \E resolved, quarantined :
             View = SnapshotOfFacts(EconomicEvents(History, clock), quarantined, resolved, ExpectedDays,
                                    {DayEvidence(c) : c \in checkpoints}, clock)
        BY DEF View, Snapshot, SnapshotOfFilings, SnapshotOfRows, History
    <2> HIDE DEF facts
    <2> QED
        BY <1>2, <2>1 DEF SnapshotOfFacts, facts
<1>4. \A g \in facts.events : {"key", "cik", "date", "code", "owners", "eligible"} \subseteq DOMAIN g
    BY DEF EventsOf, EventOf
<1>5. facts.blocked = Blocked(U)
    BY DEF EventsOf
<1> HIDE DEF facts
<1>6. View.events = Narrowed(facts.events, resolved, quarantined)
    BY <1>3 DEF SnapshotOf
<1>7. \A cik \in DOMAIN View.basis : View.basis[cik].coverage = "COMPLETE" =>
         cik \notin facts.blocked /\ cik \in resolved \ quarantined /\ WindowStored
    BY <1>3, CoverageIs
<1>8. ViewIs(facts.events, facts.blocked, resolved, quarantined)
    BY <1>4, <1>6, <1>7, NarrowedIs DEF ViewIs
<1> QED
    BY <1>2, <1>5, <1>8 DEF facts

\* In one state, a row and its correction do not both count for an owner.
LEMMA EveryRowOnce ==
    ASSUME StampsInv
    PROVE  CountedOnce
<1> SUFFICES ASSUME NEW e \in View.events, NEW f \in View.events, e.eligible, f.eligible,
                    NEW d \in Filed, d.accession = f.key[1], d.corrects = e.key[1],
                    f.key[2] = e.key[2], f.key[3] = e.key[3],
                    NEW o \in e.owners, o \in f.owners
             PROVE  FALSE
    BY DEF CountedOnce
<1>1. PICK D, V, W, U, resolved, quarantined :
         /\ Resolved(D, V, W, U, History, clock)
         /\ ViewIs(EventsOf(Active(V) \union U, U, Blocked(U)).events, Blocked(U), resolved, quarantined)
    BY EventsShown
<1> DEFINE events == EventsOf(Active(V) \union U, U, Blocked(U)).events
<1>2. PICK g \in events : e.key = g.key /\ e.owners = g.owners /\ g.eligible
    BY <1>1 DEF ViewIs, Narrows
<1>3. PICK h \in events : f.key = h.key /\ f.owners = h.owners /\ h.eligible
    BY <1>1 DEF ViewIs, Narrows
<1>4. \A x \in events : x.eligible => \A w \in x.owners : \E y \in Active(V) :
         /\ y.accession = x.key[1] /\ RowOf(y) = <<w, x.key[2], x.key[3]>> /\ y.cik \notin Blocked(U)
    <2> SUFFICES ASSUME NEW x \in events, x.eligible
                 PROVE  \A w \in x.owners : \E y \in Active(V) :
                           /\ y.accession = x.key[1] /\ RowOf(y) = <<w, x.key[2], x.key[3]>>
                           /\ y.cik \notin Blocked(U)
        OBVIOUS
    <2>1. \E first \in Active(V) :
             /\ first.cik \notin Blocked(U)
             /\ \A w \in x.owners : \E y \in Active(V) :
                   y.accession = x.key[1] /\ RowOf(y) = <<w, x.key[2], x.key[3]>> /\ y.cik = first.cik
        BY <1>1, EligibleRows
    <2> HIDE DEF events
    <2> QED
        BY <2>1
<1> HIDE DEF events
<1>5. PICK y \in Active(V) : y.accession = e.key[1] /\ RowOf(y) = <<o, e.key[2], e.key[3]>>
    BY <1>2, <1>4
<1>6. PICK z \in Active(V) :
         z.accession = f.key[1] /\ RowOf(z) = <<o, f.key[2], f.key[3]>> /\ z.cik \notin Blocked(U)
    BY <1>3, <1>4
<1>7. PICK q \in D : Stems(z, q)
    BY <1>1, RowsShown
<1>8. q \in History /\ q.accession = d.accession /\ q.cik \notin Blocked(U) /\ RowOf(q) = RowOf(y)
    BY <1>1, <1>5, <1>6, <1>7 DEF Resolved, Stems
<1>9. IsRow(y)
    BY <1>1, RowsShown
<1>10. d.corrects # None
    BY <1>5, <1>9, NoneAssumption DEF IsRow
<1>11. Told(q, d) /\ q.amendment
    BY <1>8, <1>10, ToldBy, CorrectionsAmend
<1>12. \A p : RevisionOf(p.rid) = p.accession /\ Links(q, p) => p.accession = d.corrects
    BY <1>11, LinksCorrected
<1>13. ~(y.accession = d.corrects /\ RowOf(y) = RowOf(q))
    BY <1>1, <1>8, <1>11, <1>12, AmendedIsGone
<1> QED
    BY <1>5, <1>8, <1>13

(* A row and its correction never both count for an owner. *)
THEOREM EveryRowCountsOnce == EvidenceSpec => []CountedOnce
<1>1. EvidenceSpec => []StampsInv
    BY StampsStart, StampsStay, PTL DEF EvidenceSpec
<1>2. StampsInv => CountedOnce
    BY EveryRowOnce
<1> QED
    BY <1>1, <1>2, PTL

(* A window labelled complete is complete.                                 *)

\* Of the filings stored under an accession one is selected.
LEMMA SelectedHolds ==
    ASSUME StampsInv, NEW c \in checkpoints, NEW f \in c.filings
    PROVE  \E g \in Selected(checkpoints) : g.accession = f.accession
<1> DEFINE all == UNION {e.filings : e \in checkpoints}
           same == {g \in all : g.accession = f.accession}
           days == {g.day : g \in same}
<1>1. f \in same
    OBVIOUS
<1>2. \A g \in all : g.day \in Nat
    <2> SUFFICES ASSUME NEW e \in checkpoints, NEW g \in e.filings PROVE g.day \in Nat
        OBVIOUS
    <2>1. PICK d \in Filed, t \in 0..clock : g = Parsed(StampOf(d, t))
        BY DEF StampsInv, Stored
    <2>2. g.day = d.day /\ d.day \in Nat
        BY <2>1, StampAlike, FilingsAssumption DEF Parsed, StampsInv, Filed
    <2> QED
        BY <2>2
<1>3. days \subseteq Nat /\ days # {}
    BY <1>1, <1>2
<1>4. PICK least \in days : \A day \in days : least <= day
    <2> HIDE DEF days
    <2> QED
        BY <1>3, LeastExists
<1>5. PICK g \in same : g.day = least
    BY <1>4
<1>6. g \in all /\ g.accession = f.accession /\ \A q \in all : q.accession = g.accession => g.day <= q.day
    BY <1>4, <1>5
<1>7. g \in Selected(checkpoints)
    BY <1>6 DEF Selected
<1> QED
    BY <1>6, <1>7

\* Of a filing of a day that is stored whole every row of every owner is in the history.
LEMMA WholeInHistory ==
    ASSUME StampsInv, NEW d \in Filed, StoredWhole(d.day)
    PROVE  \A owner \in CikOf(d) : \A table \in TableTypes : \A n \in RowsFiled(d, table) :
              \E r \in History : r.accession = d.accession /\ r.owner = owner /\ r.table = table /\ r.seq = n
<1>0. world \in DOMAIN Worlds /\ d \in Worlds[world] /\ \A e : e \in Filed <=> e \in Worlds[world]
    BY DEF StampsInv, Filed
<1>1. PICK c \in checkpoints : c.day = d.day /\ c.failed = {} /\ \A f \in c.filings : ~f.quarantined
    BY DEF StoredWhole
<1>2. PICK f \in c.filings : f.accession = d.accession
    BY <1>1 DEF StampsInv, Covered
<1>3. PICK d1 \in Filed, t1 \in 0..clock : f = Parsed(StampOf(d1, t1))
    BY DEF StampsInv, Stored
<1>4. f.quarantined = (Quarantines(StampOf(d1, t1)) # {}) /\ f.accession = StampOf(d1, t1).accession
    BY <1>3 DEF Parsed
<1>5. Whole(StampOf(d1, t1))
    BY <1>1, <1>4, WholeIs
<1>6. Alike(StampOf(d1, t1), d1)
    BY <1>0, StampAlike
<1>7. d1.accession = d.accession
    BY <1>2, <1>4, <1>6 DEF Alike
<1>8. Whole(d)
    BY <1>0, <1>5, <1>6, <1>7, WholeAlike, OneFiling
<1>9. PICK g \in Selected(checkpoints) : g.accession = d.accession
    BY <1>2, SelectedHolds
<1>10. PICK d2 \in Filed, t2 \in 0..clock : g = Parsed(StampOf(d2, t2))
    BY DEF Selected, StampsInv, Stored
<1> DEFINE e == StampOf(d2, t2)
<1>11. g.records = Records(e) /\ g.accession = e.accession
    BY <1>10 DEF Parsed
<1>12. Alike(e, d2)
    BY <1>0, StampAlike
<1> HIDE DEF e
<1>13. Alike(d2, d)
    <2>1. d2.accession = d.accession
        BY <1>9, <1>11, <1>12 DEF Alike
    <2> QED
        BY <1>0, <2>1, OneFiling
<1>14. Alike(e, d) /\ Alike(d, e)
    BY <1>12, <1>13, AlikeFacts
<1>15. Whole(e)
    BY <1>8, <1>14, WholeAlike
<1>16. CikOf(e) = CikOf(d) /\ \A table : RowsFiled(e, table) = RowsFiled(d, table)
    BY <1>14, SaysAlike
<1> SUFFICES ASSUME NEW owner \in CikOf(d), NEW table \in TableTypes, NEW n \in RowsFiled(d, table)
             PROVE  \E r \in History :
                       r.accession = d.accession /\ r.owner = owner /\ r.table = table /\ r.seq = n
    OBVIOUS
<1>17. owner \in CikOf(e) /\ n \in RowsFiled(e, table)
    BY <1>16
<1>18. PICK r \in Records(e) : r.accession = e.accession /\ r.owner = owner /\ r.table = table /\ r.seq = n
    BY <1>15, <1>17, WholeRows
<1>19. r \in History
    BY <1>11, <1>18 DEF History, ParsedRows
<1> QED
    BY <1>9, <1>11, <1>18, <1>19

\* What is shown says what was filed.
LEMMA ShownSays ==
    ASSUME StampsInv, NEW D, NEW V, NEW W, NEW U, Resolved(D, V, W, U, History, clock),
           NEW x \in Active(V) \union U
    PROVE  /\ \E d \in Filed : Says(x, d) /\ d.day \in ExpectedDays
           /\ \A d \in Filed : x.accession = d.accession => Says(x, d)
           /\ x.date <= clock
<1>1. PICK r \in D : Stems(x, r)
    BY RowsShown
<1>2. r \in History /\ Seen(r, clock)
    BY DEF Resolved
<1>3. \E d \in Filed : Says(x, d) /\ d.day \in ExpectedDays
    <2>1. PICK d \in Filed : Told(r, d) /\ d.day \in ExpectedDays
        BY <1>2, HistoryTold
    <2> QED
        BY <1>1, <2>1, SaysStill DEF Told
<1>4. ASSUME NEW d \in Filed, x.accession = d.accession PROVE Says(x, d)
    <2>1. r.accession = d.accession
        BY <1>1, <1>4 DEF Stems
    <2> QED
        BY <1>1, <1>2, <2>1, ToldBy, SaysStill DEF Told
<1> QED
    BY <1>1, <1>2, <1>3, <1>4 DEF Stems, Seen

\* The purchases of common stock among the rows are the qualified ones.
LEMMA PurchaseIs ==
    ASSUME StampsInv, NEW x, NEW d \in Filed, Says(x, d), x.date <= clock, x.table = Shares
    PROVE  Purchase(d.rows[Shares][x.seq]) <=>
              /\ QualifiedTrade(x) /\ x.code = "P" /\ x.date >= clock - Window + 1
              /\ CommonTitle(x.title) /\ ~ExcludedTitle(x.title)
<1> DEFINE row == d.rows[Shares][x.seq]
<1>1. /\ row.date \notin {None, Bad} /\ row.price # Bad /\ x.shares # None
      /\ x.title = row.title /\ x.date = row.date /\ x.code = row.code /\ x.side = row.side
      /\ x.shares = Known(row.shares) /\ x.price = Known(row.price) /\ x.value = RowValue(row)
    BY DEF Says
<1>2. row.shares # Bad /\ x.shares = row.shares /\ x.price = row.price
    BY <1>1 DEF Known
<1>3. {row.shares, row.price} \subseteq Nat \union {None, Bad}
    <2>1. d \in Worlds[world] /\ world \in DOMAIN Worlds /\ Shares \in TableTypes
        BY DEF StampsInv, Filed, Shares, TableTypes
    <2>2. x.seq \in 1..Len(d.rows[Shares])
        BY DEF Says, RowsFiled
    <2> QED
        BY <2>1, <2>2, FilingsAssumption
<1>4. x.price # None => x.value # None
    <2> SUFFICES ASSUME x.price # None PROVE x.value # None
        OBVIOUS
    <2>1. row.shares \in Nat /\ row.price \in Nat
        BY <1>1, <1>2, <1>3
    <2>2. x.value = row.shares * row.price
        BY <1>1, <1>2 DEF RowValue
    <2>3. row.shares * row.price \in Int
        BY <2>1
    <2> QED
        BY <2>2, <2>3, NoneAssumption
<1>5. Dated(row)
    BY <1>1 DEF Dated
<1>6. QualifiedTrade(x) /\ x.code = "P" <=>
         /\ row.code = "P" /\ row.side = "A"
         /\ row.shares \notin {None, 0} /\ row.price \notin {None, 0}
    <2>1. x.table = "NON_DERIVATIVE"
        BY DEF Shares
    <2>2. x.code = "P" => (<<x.code, x.side>> \in {<<"P", "A">>, <<"S", "D">>} <=> x.side = "A")
        OBVIOUS
    <2> HIDE DEF row
    <2> QED
        BY <1>1, <1>2, <1>4, <2>1, <2>2 DEF QualifiedTrade
<1> HIDE DEF row
<1>7. Purchase(row) <=> /\ row.date >= clock - Window + 1
                        /\ row.code = "P" /\ row.side = "A"
                        /\ row.shares \notin {None, 0} /\ row.price \notin {None, 0}
                        /\ CommonTitle(row.title) /\ ~ExcludedTitle(row.title)
    BY <1>5 DEF Purchase
<1>8. Purchase(row) <=>
          /\ QualifiedTrade(x) /\ x.code = "P" /\ x.date >= clock - Window + 1
          /\ CommonTitle(x.title) /\ ~ExcludedTitle(x.title)
    BY <1>1, <1>6, <1>7
<1> QED
    BY <1>8 DEF row

\* A purchase that no known amendment replaces for one of its owners is counted.
LEMMA StandingCounts ==
    ASSUME StampsInv, NEW D, NEW V, NEW W, NEW U, Resolved(D, V, W, U, History, clock),
           NEW d \in Filed, d.day \in ExpectedDays, StoredWhole(d.day), d.cik \notin Blocked(U),
           NEW n \in RowsFiled(d, Shares), Purchase(d.rows[Shares][n]),
           NEW owner \in CikOf(d),
           \A q \in Filed : q.day \in ExpectedDays => ~Replaces(q, d, n, owner)
    PROVE  \E g \in EventsOf(Active(V) \union U, U, Blocked(U)).events :
              /\ g.key = <<d.accession, Shares, n>> /\ g.cik = d.cik /\ g.code = "P"
              /\ g.date >= clock - Window + 1 /\ g.eligible
              /\ CommonTitle(g.title) /\ ~ExcludedTitle(g.title)
<1> DEFINE row == d.rows[Shares][n]
           both == Active(V) \union U
           events == EventsOf(both, U, Blocked(U)).events
<1>1. PICK r \in History : r.accession = d.accession /\ r.owner = owner /\ r.table = Shares /\ r.seq = n
    BY WholeInHistory DEF Shares, TableTypes
<1>2. Told(r, d)
    BY <1>1, ToldBy
<1>3. r.date <= clock /\ r.cik = d.cik
    BY <1>1, <1>2 DEF Told, Says, Purchase, Dated
<1>4. Seen(r, clock) /\ r.cik \notin Blocked(U)
    BY <1>3, HistoryTold
<1>5. PICK q \in D, x \in V :
         /\ Key(q) = Key(r) /\ Stems(x, q)
         /\ \/ x \in Active(V)
            \/ RevisionOf(x.rid) = x.accession /\ \E a \in D : Amends(a, x)
    BY <1>4, HistoryOK, StandsOrAmended
<1>6. x.accession = d.accession /\ RowOf(x) = <<owner, Shares, n>>
    BY <1>1, <1>5 DEF Stems, Key, RowOf
<1>7. x.cik = d.cik
    <2>1. q \in History /\ q.accession = d.accession
        BY <1>1, <1>5 DEF Resolved, Key
    <2>2. Told(q, d)
        BY <2>1, ToldBy
    <2> QED
        BY <1>5, <2>2 DEF Stems, Told, Says
<1>8. x \in Active(V)
    <2> SUFFICES ASSUME NEW a \in D, Amends(a, x), RevisionOf(x.rid) = x.accession PROVE FALSE
        BY <1>5
    <2>1. a \in History /\ Seen(a, clock) /\ a.amendment /\ Links(a, x)
        BY DEF Resolved, Amends
    <2>2. a.cik = d.cik /\ a.owner = owner /\ a.table = Shares /\ a.seq = n
        BY <1>6, <1>7 DEF Amends, SameRow, RowOf
    <2>3. PICK c \in Filed : Told(a, c) /\ c.day \in ExpectedDays
        BY <2>1, HistoryTold
    <2>4. c.corrects = d.accession
        BY <1>6, <2>1, <2>3, LinksCorrected
    <2>5. /\ c.cik = d.cik /\ owner \in CikOf(c) /\ n \in RowsFiled(c, Shares)
          /\ c.rows[Shares][n].date \notin {None, Bad} /\ c.rows[Shares][n].date = a.date
        BY <2>2, <2>3 DEF Told, Says
    <2>6. a.date <= clock
        BY <2>1 DEF Seen
    <2>7. Replaces(c, d, n, owner)
        BY <2>4, <2>5, <2>6 DEF Replaces, Dated
    <2> QED
        BY <2>3, <2>7
<1>9. EventKey(x) = <<d.accession, Shares, n>>
    BY <1>6 DEF EventKey, RowOf
<1>10. IsFiniteSet(both) /\ \A y \in both : IsRow(y)
    BY RowsShown
<1>11. x \in both
    BY <1>8
<1> HIDE DEF both
<1>12. PICK g \in events : g.key = <<d.accession, Shares, n>>
    BY <1>9, <1>10, <1>11, EventsAre
<1>13. PICK first \in both : Shows(g, first, both, U)
    BY <1>10, EventsAre
<1>14. first.accession = d.accession /\ first.table = Shares /\ first.seq = n
    BY <1>12, <1>13 DEF Shows, EventKey
<1>15. Says(first, d) /\ first.date <= clock
    BY <1>14, ShownSays DEF both
<1>16. /\ QualifiedTrade(first) /\ first.code = "P" /\ first.date >= clock - Window + 1
       /\ CommonTitle(first.title) /\ ~ExcludedTitle(first.title)
    BY <1>14, <1>15, PurchaseIs
<1>17. first.cik = d.cik
    BY <1>15 DEF Says
<1>18. /\ g.cik = d.cik /\ g.code = "P" /\ g.date >= clock - Window + 1 /\ g.eligible
       /\ CommonTitle(g.title) /\ ~ExcludedTitle(g.title)
    BY <1>13, <1>16, <1>17 DEF Shows
<1> HIDE DEF events
<1>19. \E e \in events : /\ e.key = <<d.accession, Shares, n>> /\ e.cik = d.cik /\ e.code = "P"
                         /\ e.date >= clock - Window + 1 /\ e.eligible
                         /\ CommonTitle(e.title) /\ ~ExcludedTitle(e.title)
    BY <1>12, <1>18
<1> QED
    BY <1>19 DEF events, both

\* Event g is a purchase that was filed and that nothing filed in the window replaces for every owner.
Bought(g) ==
    \E d \in Filed : \E n \in RowsFiled(d, Shares) : \E owner \in CikOf(d) :
       /\ d.day \in ExpectedDays /\ d.cik = g.cik /\ g.key = <<d.accession, Shares, n>>
       /\ Purchase(d.rows[Shares][n])
       /\ \A q \in Filed : q.day \in ExpectedDays /\ q.day >= clock - Window + 1
                             => ~Replaces(q, d, n, owner)

\* A purchase that is counted was filed, and no amendment of the window replaces it for the owner
\* whose row is shown.
LEMMA CountedStands ==
    ASSUME StampsInv, WindowStored,
           NEW D, NEW V, NEW W, NEW U, Resolved(D, V, W, U, History, clock),
           NEW g \in EventsOf(Active(V) \union U, U, Blocked(U)).events, g.eligible, g.code = "P",
           g.date >= clock - Window + 1, CommonTitle(g.title), ~ExcludedTitle(g.title)
    PROVE  Bought(g)
<1>1. PICK x \in Active(V) :
         /\ Shows(g, x, Active(V) \union U, U) /\ QualifiedTrade(x) /\ x.cik \notin Blocked(U)
    BY EligibleRows
<1>2. g.key = EventKey(x) /\ g.cik = x.cik /\ g.date = x.date /\ g.title = x.title /\ g.code = x.code
    BY <1>1 DEF Shows
<1>3. PICK d \in Filed : Says(x, d) /\ d.day \in ExpectedDays
    BY ShownSays
<1>4. x.date <= clock
    BY ShownSays
<1>5. x.table = Shares
    BY <1>1 DEF QualifiedTrade, Shares
<1>6. /\ x.accession = d.accession /\ x.cik = d.cik /\ x.seq \in RowsFiled(d, Shares) /\ x.owner \in CikOf(d)
    BY <1>3, <1>5 DEF Says
<1>7. Purchase(d.rows[Shares][x.seq])
    BY <1>1, <1>2, <1>3, <1>4, <1>5, PurchaseIs
<1>8. g.key = <<d.accession, Shares, x.seq>>
    BY <1>2, <1>5, <1>6 DEF EventKey
<1>9. ASSUME NEW q \in Filed, q.day \in ExpectedDays, q.day >= clock - Window + 1,
             Replaces(q, d, x.seq, x.owner)
      PROVE  FALSE
    <2>1. /\ q.corrects = d.accession /\ q.cik = d.cik /\ x.owner \in CikOf(q)
          /\ x.seq \in RowsFiled(q, Shares) /\ Dated(q.rows[Shares][x.seq])
        BY <1>9 DEF Replaces
    <2>2. StoredWhole(q.day)
        BY <1>9 DEF WindowStored
    <2>3. PICK r \in History :
             r.accession = q.accession /\ r.owner = x.owner /\ r.table = Shares /\ r.seq = x.seq
        BY <2>1, <2>2, WholeInHistory DEF Shares, TableTypes
    <2>4. Told(r, q)
        BY <2>3, ToldBy
    <2>5. Seen(r, clock)
        <3>1. r.date <= clock
            BY <2>1, <2>3, <2>4 DEF Told, Says, Dated
        <3> QED
            BY <3>1, HistoryTold
    <2>6. PICK s \in D : Key(s) = Key(r)
        BY <2>5 DEF Resolved
    <2>7. s \in History /\ s.accession = q.accession /\ RowOf(s) = RowOf(x)
        BY <1>5, <2>3, <2>6 DEF Resolved, Key, RowOf
    <2>8. Told(s, q)
        BY <2>7, ToldBy
    <2>9. IsRow(x)
        BY RowsShown
    <2>10. q.corrects # None
        BY <1>6, <2>1, <2>9, NoneAssumption DEF IsRow
    <2>11. s.amendment
        BY <2>8, <2>10, CorrectionsAmend
    <2>12. s.cik \notin Blocked(U)
        BY <1>1, <1>6, <2>1, <2>8 DEF Told, Says
    <2>13. \A p : RevisionOf(p.rid) = p.accession /\ Links(s, p) => p.accession = q.corrects
        BY <2>8, <2>11, LinksCorrected
    <2>14. ~(x.accession = q.corrects /\ RowOf(x) = RowOf(s))
        BY <2>11, <2>12, <2>13, AmendedIsGone
    <2> QED
        BY <1>6, <2>1, <2>7, <2>14
<1> QED
    BY <1>2, <1>3, <1>6, <1>7, <1>8, <1>9 DEF Bought

\* A purchase stands when, for one of its owners, none of the corrections replaces it.
LEMMA StandingIs ==
    ASSUME NEW cik, NEW among, NEW corrections, NEW key
    PROVE  key \in Standing(cik, among, corrections) <=>
              \E d \in among : \E n \in RowsFiled(d, Shares) : \E owner \in CikOf(d) :
                 /\ d.cik = cik /\ key = <<d.accession, Shares, n>> /\ Purchase(d.rows[Shares][n])
                 /\ \A q \in corrections : ~Replaces(q, d, n, owner)
BY DEF Standing

\* The rows of a history that is handed on are those of the filings of its days.
LEMMA NothingMissing ==
    ASSUME StampsInv, HistoryReasons(checkpoints, ExpectedDays, clock) = {}
    PROVE  UNION {{<<d.accession, owner, table, n>> : owner \in CikOf(d), n \in RowsFiled(d, table)} :
                     d \in {e \in Filed : e.day \in ExpectedDays}, table \in TableTypes}
             = {<<r.accession, r.owner, r.table, r.seq>> : r \in History}
<1> DEFINE filed == {e \in Filed : e.day \in ExpectedDays}
           quarantined == \E c \in checkpoints : \E f \in c.filings : f.quarantined
           failing == \E c \in checkpoints : c.failed # {}
           missing == ExpectedDays # {c.day : c \in checkpoints}
<1>1. ~missing /\ ~failing /\ ~quarantined
    <2>1. PICK unresolved :
             HistoryReasons(checkpoints, ExpectedDays, clock)
               = Holding(<< Reason("MISSING_PUBLISHED_DAYS", missing),
                            Reason("INCOMPLETE_SEC_ACQUISITION", failing),
                            Reason("SEC_ROW_QUARANTINE", quarantined),
                            Reason("UNRESOLVED_AMENDMENTS", unresolved) >>)
        BY DEF HistoryReasons
    <2> HIDE DEF missing, failing, quarantined
    <2> DEFINE reasons == << Reason("MISSING_PUBLISHED_DAYS", missing),
                             Reason("INCOMPLETE_SEC_ACQUISITION", failing),
                             Reason("SEC_ROW_QUARANTINE", quarantined),
                             Reason("UNRESOLVED_AMENDMENTS", unresolved) >>
    <2>2. /\ Len(reasons) = 4 /\ reasons[1].holds = missing
          /\ reasons[2].holds = failing /\ reasons[3].holds = quarantined
        BY DEF Reason
    <2>3. Holding(reasons) = {}
        BY <2>1
    <2> HIDE DEF reasons
    <2>4. \A j \in 1..4 : ~reasons[j].holds
        BY <2>2, <2>3 DEF Holding
    <2> QED
        BY <2>2, <2>4
<1>2. \A d \in filed : StoredWhole(d.day)
    BY <1>1 DEF StoredWhole
<1>3. ASSUME NEW d \in filed, NEW table \in TableTypes, NEW owner \in CikOf(d), NEW n \in RowsFiled(d, table)
      PROVE  \E r \in History : <<d.accession, owner, table, n>> = <<r.accession, r.owner, r.table, r.seq>>
    <2>1. PICK r \in History : r.accession = d.accession /\ r.owner = owner /\ r.table = table /\ r.seq = n
        BY <1>2, WholeInHistory
    <2> QED
        BY <2>1
<1>4. ASSUME NEW r \in History
      PROVE  \E d \in filed : \E table \in TableTypes : \E owner \in CikOf(d) : \E n \in RowsFiled(d, table) :
                <<r.accession, r.owner, r.table, r.seq>> = <<d.accession, owner, table, n>>
    <2>1. PICK d \in Filed : Told(r, d) /\ d.day \in ExpectedDays
        BY HistoryTold
    <2> QED
        BY <2>1 DEF Told, Says
<1> DEFINE Lines(d, table) == {<<d.accession, owner, table, n>> : owner \in CikOf(d), n \in RowsFiled(d, table)}
           lines == UNION {Lines(d, table) : d \in filed, table \in TableTypes}
           kept == {<<r.accession, r.owner, r.table, r.seq>> : r \in History}
<1>5. \A d \in filed, table \in TableTypes : Lines(d, table) \subseteq kept
    BY <1>3
<1>6. \A x \in kept : \E d \in filed : \E table \in TableTypes : x \in Lines(d, table)
    BY <1>4
<1> HIDE DEF filed, Lines, kept
<1>7. lines \subseteq kept
    BY <1>5
<1>8. kept \subseteq lines
    BY <1>6
<1>9. lines = kept
    BY <1>7, <1>8
<1> QED
    BY <1>9 DEF lines, kept, Lines, filed

\* In one state, a complete window counts what was filed and stands (_basis).
LEMMA CompleteWindows ==
    ASSUME StampsInv
    PROVE  CompleteIsComplete
<1> DEFINE start == clock - Window + 1
           filed == {d \in Filed : d.day \in ExpectedDays}
           lately == {d \in filed : d.day >= start}
           Counted(cik) == {e.key : e \in {q \in View.events :
                                             q.cik = cik /\ q.eligible /\ q.code = "P" /\ q.date >= start}}
<1>1. ASSUME NEW cik \in DOMAIN View.basis, View.basis[cik].coverage = "COMPLETE"
      PROVE  /\ Standing(cik, lately, filed) \subseteq Counted(cik)
             /\ Counted(cik) \subseteq Standing(cik, filed, lately)
    <2>1. PICK D, V, W, U, resolved, quarantined :
             /\ Resolved(D, V, W, U, History, clock)
             /\ ViewIs(EventsOf(Active(V) \union U, U, Blocked(U)).events, Blocked(U), resolved, quarantined)
        BY EventsShown
    <2> DEFINE events == EventsOf(Active(V) \union U, U, Blocked(U)).events
    <2>2. cik \notin Blocked(U) /\ cik \in resolved \ quarantined /\ WindowStored
        BY <1>1, <2>1 DEF ViewIs
    <2>3. ASSUME NEW key \in Standing(cik, lately, filed) PROVE key \in Counted(cik)
        <3>1. PICK d \in lately : \E n \in RowsFiled(d, Shares) : \E owner \in CikOf(d) :
                 /\ d.cik = cik /\ key = <<d.accession, Shares, n>> /\ Purchase(d.rows[Shares][n])
                 /\ \A q \in filed : ~Replaces(q, d, n, owner)
            BY <2>3, StandingIs
        <3>0. PICK n \in RowsFiled(d, Shares) : \E owner \in CikOf(d) :
                 /\ d.cik = cik /\ key = <<d.accession, Shares, n>> /\ Purchase(d.rows[Shares][n])
                 /\ \A q \in filed : ~Replaces(q, d, n, owner)
            BY <3>1
        <3>7. PICK owner \in CikOf(d) :
                 /\ d.cik = cik /\ key = <<d.accession, Shares, n>> /\ Purchase(d.rows[Shares][n])
                 /\ \A q \in filed : ~Replaces(q, d, n, owner)
            BY <3>0
        <3>2. d \in Filed /\ d.day \in ExpectedDays /\ StoredWhole(d.day)
            BY <2>2 DEF WindowStored
        <3>3. \A q \in Filed : q.day \in ExpectedDays => ~Replaces(q, d, n, owner)
            BY <3>7
        <3>4. PICK g \in events :
                 /\ g.key = key /\ g.cik = cik /\ g.code = "P" /\ g.date >= start /\ g.eligible
                 /\ CommonTitle(g.title) /\ ~ExcludedTitle(g.title)
            BY <2>1, <2>2, <3>7, <3>2, <3>3, StandingCounts
        <3>5. PICK e \in View.events : Narrows(e, g, resolved, quarantined)
            BY <2>1 DEF ViewIs
        <3>6. e.key = key /\ e.cik = cik /\ e.eligible /\ e.code = "P" /\ e.date >= start
            BY <2>2, <3>4, <3>5 DEF Narrows
        <3> QED
            BY <3>6
    <2>4. ASSUME NEW key \in Counted(cik) PROVE key \in Standing(cik, filed, lately)
        <3>1. PICK e \in View.events :
                 e.key = key /\ e.cik = cik /\ e.eligible /\ e.code = "P" /\ e.date >= start
            BY <2>4
        <3>2. PICK g \in events : Narrows(e, g, resolved, quarantined)
            BY <2>1 DEF ViewIs
        <3>3. /\ g.key = key /\ g.cik = cik /\ g.code = "P" /\ g.date >= start /\ g.eligible
              /\ CommonTitle(g.title) /\ ~ExcludedTitle(g.title)
            BY <3>1, <3>2 DEF Narrows
        <3>0. Bought(g)
            BY <2>1, <2>2, <3>2, <3>3, CountedStands
        <3>4. PICK d \in Filed : \E n \in RowsFiled(d, Shares) : \E owner \in CikOf(d) :
                 /\ d.day \in ExpectedDays /\ d.cik = g.cik /\ g.key = <<d.accession, Shares, n>>
                 /\ Purchase(d.rows[Shares][n])
                 /\ \A q \in Filed : q.day \in ExpectedDays /\ q.day >= start => ~Replaces(q, d, n, owner)
            BY <3>0 DEF Bought
        <3>6. PICK n \in RowsFiled(d, Shares) : \E owner \in CikOf(d) :
                 /\ d.day \in ExpectedDays /\ d.cik = g.cik /\ g.key = <<d.accession, Shares, n>>
                 /\ Purchase(d.rows[Shares][n])
                 /\ \A q \in Filed : q.day \in ExpectedDays /\ q.day >= start => ~Replaces(q, d, n, owner)
            BY <3>4
        <3>7. PICK owner \in CikOf(d) :
                 /\ d.day \in ExpectedDays /\ d.cik = g.cik /\ g.key = <<d.accession, Shares, n>>
                 /\ Purchase(d.rows[Shares][n])
                 /\ \A q \in Filed : q.day \in ExpectedDays /\ q.day >= start => ~Replaces(q, d, n, owner)
            BY <3>6
        <3>5. /\ d \in filed /\ d.cik = cik /\ key = <<d.accession, Shares, n>>
              /\ \A q \in lately : ~Replaces(q, d, n, owner)
            BY <3>3, <3>7
        <3> HIDE DEF filed, lately
        <3> QED
            BY <3>7, <3>5, StandingIs
    <2> QED
        BY <2>3, <2>4
<1>2. HistoryReasons(checkpoints, ExpectedDays, clock) = {} =>
         UNION {{<<d.accession, owner, table, n>> : owner \in CikOf(d), n \in RowsFiled(d, table)} :
                   d \in filed, table \in TableTypes}
           = {<<r.accession, r.owner, r.table, r.seq>> : r \in History}
    BY NothingMissing
<1> QED
    BY <1>1, <1>2 DEF CompleteIsComplete

\* A window labelled complete counts every purchase that was filed in it and stands, and none that
\* the window corrects; a history that is handed on lacks no row (_basis, DayEvidence).
THEOREM CompleteWindowsAreComplete == EvidenceSpec => []CompleteIsComplete
<1>1. EvidenceSpec => []StampsInv
    BY StampsStart, StampsStay, PTL DEF EvidenceSpec
<1>2. StampsInv => CompleteIsComplete
    BY CompleteWindows
<1> QED
    BY <1>1, <1>2, PTL

-----------------------------------------------------------------------------
\* The sort keys are positive numbers; the last entry of a set is cited apart.
LEMMA EntriesAreNat == Entries \subseteq Nat \ {0}
  BY EntriesAssumption

USE EntriesAreNat, KeysAssumption, RunsAssumption

\* Of every set of entries LastOfFiling keeps one of each filing.
LEMMA LastOfFilingCovers ==
  ASSUME NEW S \in SUBSET Entries, NEW e \in S
  PROVE  \E f \in LastOfFiling(S) : Filing[f] = Filing[e]
<1> DEFINE Same == {f \in S : Filing[f] = Filing[e]}
<1>1. Same \in SUBSET Entries /\ Same # {}
  OBVIOUS
<1>2. PICK m \in Same : \A f \in Same : f <= m
  BY <1>1, EntriesAssumption
<1>3. m \in LastOfFiling(S)
  BY <1>2 DEF LastOfFiling
<1> QED
  BY <1>2, <1>3

\* A row at or below a selected one, and past the cursor, could be selected.
LEMMA FreshBelow ==
  ASSUME TypeOK, NEW c \in Fresh, NEW e \in rows,
         cursor < e, e <= c, Accepted[e] >= window.since
  PROVE  e \in Fresh
<1>0. c \in Entries /\ e \in Entries /\ Entries \subseteq Nat
  BY DEF TypeOK, Fresh
<1>1a. window.through \in Throughs \cup {0}
  BY DEF TypeOK
<1>1b. window.through \in Nat
  <2>1. Throughs \subseteq Nat
    OBVIOUS
  <2>2. 0 \in Nat
    OBVIOUS
  <2> HIDE EntriesAreNat, KeysAssumption, RunsAssumption
  <2>3. \A x \in Throughs \cup {0} : x \in Nat
    BY <2>1, <2>2, Zenon
  <2> QED
    BY <1>1a, <2>3, Zenon
<1>1c. Accepted[c] \in Nat /\ Accepted[e] \in Nat
  BY <1>0
<1>1. window.through \in Nat /\ Accepted[c] \in Nat /\ Accepted[e] \in Nat
  BY <1>1b, <1>1c
<1>2. Accepted[e] <= Accepted[c] /\ Accepted[c] <= window.through
  BY <1>0, <1>1 DEF Fresh
<1> QED
  BY <1>0, <1>1, <1>2 DEF Fresh
-----------------------------------------------------------------------------
(* Types *)

\* The initial state is typed.
LEMMA InitTyped == Init => TypeOK
<1> SUFFICES ASSUME Init PROVE TypeOK
  OBVIOUS
<1>1. output \in [entries : SUBSET Entries, complete : BOOLEAN]
  BY DEF Init, NoOutput
<1>2. window \in [since : Sinces \cup {0}, through : Throughs \cup {0}]
  BY DEF Init
<1>3. flawed \in BOOLEAN /\ committed \in BOOLEAN
  BY DEF Init
<1> QED
  BY <1>1, <1>2, <1>3 DEF Init, TypeOK, Cursors

\* Every step keeps the types.
LEMMA StepTyped == TypeOK /\ [Next]_vars => TypeOK'
<1> SUFFICES ASSUME TypeOK, [Next]_vars PROVE TypeOK'
  OBVIOUS
<1> USE DEF TypeOK
<1>1. ASSUME NEW e \in Entries, List(e) PROVE TypeOK'
  BY <1>1 DEF List, run
<1>2. ASSUME NEW e \in Entries, Get(e) PROVE TypeOK'
  <2>1. output' \in [entries : SUBSET Entries, complete : BOOLEAN]
    BY <1>2 DEF Get
  <2>2. flawed' \in BOOLEAN
    BY <1>2 DEF Get
  <2> QED
    BY <1>2, <2>1, <2>2 DEF Get, sec
<1>3. ASSUME NEW i \in Issuers, Follow(i) PROVE TypeOK'
  BY <1>3 DEF Follow, run
<1>4. ASSUME NEW i \in Issuers, ReadSubmissions(i) PROVE TypeOK'
  <2>1. rows' \subseteq Entries /\ rows \subseteq rows'
    BY <1>4 DEF ReadSubmissions
  <2>2. flawed' \in BOOLEAN
    BY <1>4 DEF ReadSubmissions
  <2> QED
    BY <1>4, <2>1, <2>2 DEF ReadSubmissions, sec
<1>5. CASE Restore
  BY <1>5 DEF Restore, run, sec, NoOutput, Cursors
<1>6. CASE DamageCursor
  BY <1>6 DEF DamageCursor, run, sec
<1>7. CASE RecoverCursor
  <2>1. cursor' \in Cursors /\ pending' \in Cursors
    BY <1>7 DEF RecoverCursor, Cursors
  <2>2. window' \in [since : Sinces \cup {0}, through : Throughs \cup {0}]
    BY <1>7 DEF RecoverCursor
  <2> QED
    BY <1>7, <2>1, <2>2 DEF RecoverCursor, sec
<1>8. CASE Select
  BY <1>8 DEF Select, sec, NoOutput, LastOfFiling, Fresh
<1>9. CASE WriteOutput
  <2>1. output' \in [entries : SUBSET Entries, complete : BOOLEAN]
    BY <1>9 DEF WriteOutput
  <2>2. delivered' \subseteq Filings
    BY <1>9 DEF WriteOutput, Filings
  <2> QED
    BY <1>9, <2>1, <2>2 DEF WriteOutput, sec, run
<1>10. CASE WriteCursor
  BY <1>10 DEF WriteCursor, sec, run
<1>11. CASE CommitBatch
  BY <1>11 DEF CommitBatch, sec, run, Filings
<1>12. CASE Publish
  BY <1>12 DEF Publish, sec, run, Cursors
<1>13. CASE Crash
  BY <1>13 DEF Crash, sec, run
<1>14. CASE UNCHANGED vars
  BY <1>14 DEF vars, sec, run
<1> QED
  BY <1>1, <1>2, <1>3, <1>4, <1>5, <1>6, <1>7, <1>8, <1>9, <1>10, <1>11, <1>12, <1>13,
     <1>14 DEF Next

\* Every reachable state is well typed (the variables of update_sec and of the
\* workflow around it).
THEOREM TypeCorrect == Spec => []TypeOK
  BY InitTyped, StepTyped, PTL DEF Spec
-----------------------------------------------------------------------------
(* The inductive invariant *)

\* A step that leaves the run's rows, window and cursor alone leaves what it
\* may select alone.
LEMMA SameFresh ==
  ASSUME UNCHANGED <<rows, window, cursor>>
  PROVE  Fresh' = Fresh
  BY DEF Fresh

\* No run has begun and nothing is canonical to begin with.
LEMMA InitCursorInv == Init => CursorInv /\ EvidenceInv /\ EvidenceLast
  BY DEF Init, CursorInv, EvidenceInv, EvidenceLast

\* The steps of the SEC, of the operator and of the canonical store leave the
\* run alone.
LEMMA OutsideKeepsCursorInv ==
  ASSUME CursorInv, UNCHANGED <<pc, pending, run, output>>
  PROVE  CursorInv'
<1>1. Fresh' = Fresh
  BY SameFresh DEF run
<1> QED
  BY <1>1 DEF CursorInv, Covers, run

\* The run's rows, once all are listed, are covered by the page.
LEMMA SelectCovers ==
  ASSUME TypeOK, Select
  PROVE  Covers(page \cup output.entries)'
<1>1. Fresh' = Fresh /\ page' = LastOfFiling(Fresh)
  BY SameFresh DEF Select
<1>2. Fresh \in SUBSET Entries
  BY DEF Fresh, TypeOK
<1>3. \A e \in Fresh : \E f \in LastOfFiling(Fresh) : Filing[f] = Filing[e]
  BY <1>2, LastOfFilingCovers
<1> QED
  BY <1>1, <1>3 DEF Covers

\* An entry leaves the page for the output, or the run is flawed.
LEMMA GetCovers ==
  ASSUME TypeOK, CursorInv, NEW d \in Entries, Get(d), ~flawed'
  PROVE  Covers(page \cup output.entries)'
<1>1. Fresh' = Fresh
  BY SameFresh DEF Get
<1>2. ~flawed /\ output' = [output EXCEPT !.entries = @ \cup {d}] /\ page' = page \ {d}
  BY DEF Get
<1>3. output'.entries = output.entries \cup {d}
  BY <1>2 DEF TypeOK
<1>4. page \cup output.entries \subseteq page' \cup output'.entries
  BY <1>2, <1>3
<1>5. Covers(page \cup output.entries)
  BY <1>2 DEF CursorInv, Get
<1> QED
  BY <1>1, <1>4, <1>5 DEF Covers

\* The output is complete when nothing was flawed.
LEMMA WriteOutputCovers ==
  ASSUME TypeOK, CursorInv, WriteOutput, ~flawed'
  PROVE  output'.complete /\ Covers(output.entries)'
<1>1. ~flawed /\ page = {} /\ output' = [output EXCEPT !.complete = ~flawed]
  BY DEF WriteOutput, run
<1>2. output \in [entries : SUBSET Entries, complete : BOOLEAN]
  BY DEF TypeOK
<1>3. output'.complete = ~flawed /\ output'.entries = output.entries
  BY <1>1, <1>2, Zenon
<1>4. output'.complete
  BY <1>1, <1>3, Zenon
<1>5. Fresh' = Fresh
  BY SameFresh DEF WriteOutput, run
<1>6. Covers(output.entries)
  BY <1>1 DEF CursorInv, WriteOutput, Covers
<1> QED
  BY <1>3, <1>4, <1>5, <1>6 DEF Covers

\* A cursor that moves is a selected row, and the output covers it.
LEMMA WriteCursorMoves ==
  ASSUME TypeOK, CursorInv, WriteCursor, pending' # cursor
  PROVE  pending' \in Fresh /\ ~flawed /\ output.complete /\ Covers(output.entries)
<1>1. pending = cursor
  BY DEF CursorInv, WriteCursor
<1>2. PICK c \in Cursors :
        /\ IsNext(c)
        /\ pending' = IF ~flawed /\ c # 0 /\ c # cursor THEN c ELSE pending
  BY DEF WriteCursor
<1>3. ~flawed /\ c # cursor /\ pending' = c
  BY <1>1, <1>2
<1>4. c \in Fresh
  BY <1>2, <1>3 DEF IsNext
<1>5. output.complete /\ Covers(output.entries)
  BY <1>3, Zenon DEF CursorInv, WriteCursor
<1> QED
  BY <1>3, <1>4, <1>5, Zenon

\* Every step keeps the cursor and the run in agreement.
LEMMA StepCursorInv == TypeOK /\ CursorInv /\ [Next]_vars => CursorInv'
<1> SUFFICES ASSUME TypeOK, CursorInv, [Next]_vars PROVE CursorInv'
  OBVIOUS
<1>1. ASSUME NEW e \in Entries, List(e) PROVE CursorInv'
  BY <1>1, OutsideKeepsCursorInv DEF List
<1>2. ASSUME NEW e \in Entries, Get(e) PROVE CursorInv'
  <2>1. ~flawed' => Covers(page \cup output.entries)'
    BY <1>2, GetCovers
  <2>2. pc' = "getting" /\ pending' = pending /\ cursor' = cursor /\ pending = cursor
    BY <1>2 DEF Get, CursorInv
  <2> QED
    BY <2>1, <2>2, Zenon DEF CursorInv
<1>3. ASSUME NEW i \in Issuers, Follow(i) PROVE CursorInv'
  BY <1>3, OutsideKeepsCursorInv DEF Follow
<1>4. ASSUME NEW i \in Issuers, ReadSubmissions(i) PROVE CursorInv'
  BY <1>4 DEF ReadSubmissions, CursorInv
<1>5. CASE Restore
  BY <1>5 DEF Restore, CursorInv
<1>6. CASE DamageCursor
  BY <1>6 DEF DamageCursor, CursorInv
<1>7. CASE RecoverCursor
  <2>1. pc' = "listing" /\ pending' = cursor'
    BY <1>7 DEF RecoverCursor
  <2> QED
    BY <2>1 DEF CursorInv
<1>8. CASE Select
  <2>1. Covers(page \cup output.entries)'
    BY <1>8, SelectCovers
  <2>2. pc' = "getting" /\ pending' = cursor'
    BY <1>8 DEF Select, CursorInv
  <2> QED
    BY <2>1, <2>2, Zenon DEF CursorInv
<1>9. CASE WriteOutput
  <2>1. pc' = "written" /\ pending' = cursor'
    BY <1>9 DEF WriteOutput, CursorInv, run
  <2> QED
    BY <1>9, <2>1, WriteOutputCovers, Zenon DEF CursorInv
<1>10. CASE WriteCursor
  <2>1. pc' = "done" /\ output' = output /\ UNCHANGED <<rows, window, cursor>>
    BY <1>10 DEF WriteCursor, run
  <2>2. Fresh' = Fresh
    BY <2>1, SameFresh
  <2>3. pending' # cursor' =>
          pending' \in Fresh' /\ output'.complete /\ Covers(output.entries)'
    BY <1>10, <2>1, <2>2, WriteCursorMoves, Zenon DEF Covers
  <2> QED
    BY <2>1, <2>3, Zenon DEF CursorInv
<1>11. CASE CommitBatch
  BY <1>11, OutsideKeepsCursorInv DEF CommitBatch
<1>12. CASE Publish
  BY <1>12 DEF Publish, CursorInv
<1>13. CASE Crash
  BY <1>13 DEF Crash, CursorInv
<1>14. CASE UNCHANGED vars
  BY <1>14, OutsideKeepsCursorInv DEF vars
<1> QED
  BY <1>1, <1>2, <1>3, <1>4, <1>5, <1>6, <1>7, <1>8, <1>9, <1>10, <1>11, <1>12, <1>13,
     <1>14 DEF Next

\* A run starts from the published cursor or from nothing.
LEMMA StepStartInv == StartInv /\ [Next]_vars => StartInv'
<1> SUFFICES ASSUME StartInv, [Next]_vars PROVE StartInv'
  OBVIOUS
<1> USE DEF StartInv
<1>1. CASE UNCHANGED <<pc, pending, cursor, published>>
  BY <1>1
<1>2. CASE Restore \/ DamageCursor \/ RecoverCursor
  BY <1>2 DEF Restore, DamageCursor, RecoverCursor, run, Corrupt
<1>3. CASE (\E i \in Issuers : ReadSubmissions(i)) \/ Select \/ (\E e \in Entries : Get(e))
  BY <1>3 DEF ReadSubmissions, Select, Get
<1>4. CASE WriteOutput \/ WriteCursor
  BY <1>4 DEF WriteOutput, WriteCursor, run
<1>5. CASE Publish \/ Crash
  BY <1>5 DEF Publish, Crash
<1> QED
  BY <1>1, <1>2, <1>3, <1>4, <1>5 DEF Next, vars, run, List, Follow, CommitBatch

\* The evidence of a commit is about the output as it is.
LEMMA StepEvidence ==
  TypeOK /\ EvidenceInv /\ EvidenceLast /\ [Next]_vars => EvidenceInv' /\ EvidenceLast'
<1> SUFFICES ASSUME TypeOK, EvidenceInv, EvidenceLast, [Next]_vars
             PROVE  EvidenceInv' /\ EvidenceLast'
  OBVIOUS
<1> USE DEF EvidenceInv, EvidenceLast
<1>1. ASSUME NEW e \in Entries, List(e) PROVE EvidenceInv' /\ EvidenceLast'
  BY <1>1 DEF List
<1>2. ASSUME NEW e \in Entries, Get(e) PROVE EvidenceInv' /\ EvidenceLast'
  BY <1>2 DEF Get
<1>3. ASSUME NEW i \in Issuers, Follow(i) PROVE EvidenceInv' /\ EvidenceLast'
  BY <1>3 DEF Follow
<1>4. ASSUME NEW i \in Issuers, ReadSubmissions(i) PROVE EvidenceInv' /\ EvidenceLast'
  BY <1>4 DEF ReadSubmissions
<1>5. CASE Restore
  BY <1>5 DEF Restore
<1>6. CASE DamageCursor
  BY <1>6 DEF DamageCursor
<1>7. CASE RecoverCursor
  BY <1>7 DEF RecoverCursor
<1>8. CASE Select
  BY <1>8 DEF Select
<1>9. CASE WriteOutput
  BY <1>9 DEF WriteOutput
<1>10. CASE WriteCursor
  BY <1>10 DEF WriteCursor
<1>11. CASE CommitBatch
  BY <1>11 DEF CommitBatch
<1>12. CASE Publish
  BY <1>12 DEF Publish
<1>13. CASE Crash
  BY <1>13 DEF Crash
<1>14. CASE UNCHANGED vars
  BY <1>14 DEF vars
<1> QED
  BY <1>1, <1>2, <1>3, <1>4, <1>5, <1>6, <1>7, <1>8, <1>9, <1>10, <1>11, <1>12, <1>13,
     <1>14 DEF Next

\* The invariant behind the promises of the cursor.
THEOREM Invariance == Spec => []IInv
<1>1. Init => IInv
  BY InitTyped, InitCursorInv DEF IInv, StartInv, Init
<1>2. IInv /\ [Next]_vars => IInv'
  BY StepTyped, StepCursorInv, StepStartInv, StepEvidence DEF IInv
<1> QED
  BY <1>1, <1>2, PTL DEF Spec

-----------------------------------------------------------------------------
(* The promises *)

\* The cursor of update-sec moves only over rows whose filings are in the
\* complete output written before it, for every interleaving with the SEC.
THEOREM CursorMovesOnlyOverOutput == Spec => CursorMovesOverOutput
<1> DEFINE Moves ==
      pc = "written" /\ pending' # pending =>
        /\ output.complete
        /\ \A e \in rows :
             cursor < e /\ e <= pending' /\ Accepted[e] >= window.since
               => \E f \in output.entries : Filing[f] = Filing[e]
<1>1. IInv /\ [Next]_vars => [Moves]_vars
  <2> SUFFICES ASSUME TypeOK, CursorInv, [Next]_vars, pc = "written", pending' # pending
               PROVE  Moves
    BY DEF IInv
  <2>1. WriteCursor
    BY DEF Next, vars, List, Get, Follow, ReadSubmissions, Restore, DamageCursor,
           RecoverCursor, Select, WriteOutput, CommitBatch, Publish, Crash
  <2>2. pending = cursor
    BY DEF CursorInv
  <2>3. pending' \in Fresh /\ output.complete /\ Covers(output.entries)
    BY <2>1, <2>2, WriteCursorMoves
  <2>4. ASSUME NEW e \in rows, cursor < e, e <= pending', Accepted[e] >= window.since
        PROVE  \E f \in output.entries : Filing[f] = Filing[e]
    BY <2>3, <2>4, FreshBelow DEF Covers
  <2> QED
    BY <2>3, <2>4
<1> QED
  BY <1>1, Invariance, PTL DEF CursorMovesOverOutput, Spec

\* Neither the cursor file within a run nor the published cursor over all runs
\* moves back, unless the run started from nothing (update_sec, daily.yml).
THEOREM CursorOnlyAdvances == Spec => CursorNeverRetreats
<1> DEFINE Moves == /\ pc # "idle" /\ pending \in Cursors /\ pending' \in Cursors
                         => pending <= pending'
                    /\ published' < published => cursor = 0
<1>1. IInv /\ [Next]_vars => [Moves]_vars
  <2> SUFFICES ASSUME TypeOK, CursorInv, StartInv, [Next]_vars PROVE Moves
    BY DEF IInv
  <2>1. cursor \in Nat /\ published \in Nat /\ Corrupt \notin Cursors /\ Cursors \subseteq Nat
    BY EntriesAssumption DEF Cursors, TypeOK, Corrupt
  <2>2. ASSUME pc # "idle", pending \in Cursors, pending' \in Cursors PROVE pending <= pending'
    <3>1. CASE pending' = pending
      BY <2>1, <2>2, <3>1
    <3>2. CASE pending' # pending
      <4>1. WriteCursor
        BY <2>1, <2>2, <3>2 DEF Next, vars, List, Get, Follow, ReadSubmissions, Restore, DamageCursor,
               RecoverCursor, Select, WriteOutput, CommitBatch, Publish, Crash
      <4>2. pending = cursor
        BY <4>1 DEF CursorInv, WriteCursor
      <4>3. pending' > cursor
        BY <3>2, <4>1, <4>2, WriteCursorMoves DEF Fresh
      <4> QED
        BY <2>1, <2>2, <4>2, <4>3
    <3> QED
      BY <3>1, <3>2
  <2>3. ASSUME published' < published PROVE cursor = 0
    <3>1. published' # published
      BY <2>1, <2>3
    <3>2. Publish /\ pc = "done" /\ published' = pending /\ pending \in Entries
      BY <3>1 DEF Next, vars, List, Get, Follow, ReadSubmissions, Restore, DamageCursor,
             RecoverCursor, Select, WriteOutput, WriteCursor, CommitBatch, Publish, Crash
    <3>3. pending \in Nat /\ pending >= cursor
      BY <2>1, <3>2 DEF CursorInv, Fresh, Cursors
    <3>4. cursor \in {0, published}
      BY <3>2 DEF StartInv
    <3> QED
      BY <2>1, <2>3, <3>2, <3>3, <3>4
  <2> QED
    BY <2>2, <2>3
<1> QED
  BY <1>1, Invariance, PTL DEF CursorNeverRetreats, Spec

\* The published cursor moves only over rows whose filings are in the
\* canonical store.
THEOREM PublishedOverCanonical == Spec => PublishedIsCanonical
<1> DEFINE Moves ==
      published' # published =>
        \A e \in rows :
          cursor < e /\ e <= published' /\ Accepted[e] >= window.since
            => Filing[e] \in canonical
<1>1. IInv /\ [Next]_vars => [Moves]_vars
  <2> SUFFICES ASSUME TypeOK, CursorInv, EvidenceInv, [Next]_vars, published' # published,
                      NEW e \in rows, cursor < e, e <= published', Accepted[e] >= window.since
               PROVE  Filing[e] \in canonical
    BY DEF IInv
  <2>1. Publish
    BY DEF Next, vars, sec, List, Get, Follow, ReadSubmissions, Restore, DamageCursor,
           RecoverCursor, Select, WriteOutput, WriteCursor, CommitBatch, Crash
  <2>2. pc = "done" /\ published' = pending /\ committed
    BY <2>1 DEF Publish, BatchProven
  <2>3. e \in Nat /\ cursor \in Nat
    BY DEF TypeOK, Cursors
  <2>4. pending # cursor
    BY <2>2, <2>3
  <2>5. pending \in Fresh /\ Covers(output.entries)
    BY <2>2, <2>4 DEF CursorInv
  <2>6. \E f \in output.entries : Filing[f] = Filing[e]
    BY <2>2, <2>5, FreshBelow DEF Covers
  <2> QED
    BY <2>2, <2>6 DEF EvidenceInv
<1> QED
  BY <1>1, Invariance, PTL DEF PublishedIsCanonical, Spec
=============================================================================
