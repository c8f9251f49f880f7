----------------------------- MODULE DailyProofs -----------------------------
(***************************************************************************)
(* Proofs about the daily run.  First the evaluation, for any signals, bars *)
(* and horizons; then Daily, for any tests, worlds, days and locks; then    *)
(* the Market it reads its bars from, for any symbols, sources, answers,    *)
(* shards and workers.                                                      *)
(***************************************************************************)
EXTENDS Market, Daily, SequenceTheorems, FiniteSetTheorems, FunctionTheorems, WellFoundedInduction, TLAPS

(***************************************************************************)
(* Enumerations in an order.                                               *)
(***************************************************************************)
StrictOrder(R, S) ==
    /\ \A x \in S : <<x, x>> \notin R
    /\ \A x, y, z \in S : <<x, y>> \in R /\ <<y, z>> \in R => <<x, z>> \in R
    /\ \A x, y \in S : x = y \/ <<x, y>> \in R \/ <<y, x>> \in R

Below(x, S, R) == {y \in S : <<y, x>> \in R}
RankIn(x, S, R) == Cardinality(Below(x, S, R))

\* In a strict order of a finite set the rank is a number that grows along the order.
LEMMA RankFacts ==
    ASSUME NEW S, NEW R, IsFiniteSet(S), StrictOrder(R, S)
    PROVE  /\ Cardinality(S) \in Nat
           /\ \A x \in S : RankIn(x, S, R) \in 0..(Cardinality(S) - 1)
           /\ \A x, y \in S : <<x, y>> \in R => RankIn(x, S, R) < RankIn(y, S, R)
           /\ \A x, y \in S : RankIn(x, S, R) = RankIn(y, S, R) => x = y
<1> DEFINE n == Cardinality(S)
<1>1. n \in Nat
    BY FS_CardinalityType
<1>2. \A x \in S : IsFiniteSet(Below(x, S, R)) /\ RankIn(x, S, R) \in Nat
    BY FS_Subset, FS_CardinalityType DEF Below, RankIn
<1>3. ASSUME NEW x \in S PROVE RankIn(x, S, R) < n
    <2>1. Below(x, S, R) \in SUBSET S /\ x \notin Below(x, S, R)
        BY DEF Below, StrictOrder
    <2>2. RankIn(x, S, R) <= n /\ (n = RankIn(x, S, R) => S = Below(x, S, R))
        BY <2>1, FS_Subset DEF RankIn
    <2> QED
        BY <1>1, <1>2, <2>1, <2>2
<1>4. ASSUME NEW x \in S, NEW y \in S, <<x, y>> \in R
      PROVE  RankIn(x, S, R) < RankIn(y, S, R)
    <2>1. Below(x, S, R) \in SUBSET Below(y, S, R)
        BY <1>4 DEF Below, StrictOrder
    <2>2. x \in Below(y, S, R) /\ x \notin Below(x, S, R)
        BY <1>4 DEF Below, StrictOrder
    <2>3. RankIn(x, S, R) <= RankIn(y, S, R)
            /\ (RankIn(y, S, R) = RankIn(x, S, R) => Below(y, S, R) = Below(x, S, R))
        BY <1>2, <2>1, FS_Subset DEF RankIn
    <2> QED
        BY <1>2, <2>2, <2>3
<1>5. ASSUME NEW x \in S, NEW y \in S, x # y PROVE RankIn(x, S, R) # RankIn(y, S, R)
    <2>1. <<x, y>> \in R \/ <<y, x>> \in R
        BY <1>5 DEF StrictOrder
    <2> QED
        BY <1>2, <1>4, <2>1
<1> QED
    BY <1>1, <1>2, <1>3, <1>4, <1>5

\* Every number below the size of the set is a rank.
LEMMA RankOnto ==
    ASSUME NEW S, NEW R, IsFiniteSet(S), StrictOrder(R, S), NEW k \in 0..(Cardinality(S) - 1)
    PROVE  \E x \in S : RankIn(x, S, R) = k
<1> DEFINE n == Cardinality(S)
           T == 0..(n - 1)
           f == [x \in S |-> RankIn(x, S, R)]
<1>1. n \in Nat /\ \A x \in S : RankIn(x, S, R) \in T
    BY RankFacts
<1>2. \A x, y \in S : RankIn(x, S, R) = RankIn(y, S, R) => x = y
    BY RankFacts
<1>3. f \in Injection(S, T)
    BY <1>1, <1>2, Fun_IsInj
<1>4. IsFiniteSet(T) /\ Cardinality(T) = n
    BY <1>1, FS_Interval
<1>5. f \in Surjection(S, T)
    BY <1>3, <1>4, FS_Injection
<1> QED
    BY <1>5 DEF Surjection

Enumeration(S, R) == [i \in 1..Cardinality(S) |-> CHOOSE x \in S : RankIn(x, S, R) = i - 1]

\* The enumeration by rank goes through the set once, along the order.
LEMMA Enumerated ==
    ASSUME NEW S, NEW R, IsFiniteSet(S), StrictOrder(R, S)
    PROVE  /\ Enumeration(S, R) \in [1..Cardinality(S) -> S]
           /\ \A i \in 1..Cardinality(S) : RankIn(Enumeration(S, R)[i], S, R) = i - 1
           /\ \A x \in S : \E i \in 1..Cardinality(S) : Enumeration(S, R)[i] = x
           /\ \A i, j \in 1..Cardinality(S) :
                i < j <=> <<Enumeration(S, R)[i], Enumeration(S, R)[j]>> \in R
           /\ \A i \in 1..Cardinality(S) : \A x \in S :
                RankIn(x, S, R) = i - 1 => Enumeration(S, R)[i] = x
<1> DEFINE n == Cardinality(S)
           s == Enumeration(S, R)
<1>1. n \in Nat /\ \A x \in S : RankIn(x, S, R) \in 0..(n - 1)
    BY RankFacts
<1>2. ASSUME NEW i \in 1..n PROVE s[i] \in S /\ RankIn(s[i], S, R) = i - 1
    <2>1. i - 1 \in 0..(n - 1)
        BY <1>1
    <2>2. \E x \in S : RankIn(x, S, R) = i - 1
        BY <2>1, RankOnto
    <2> QED
        BY <2>2 DEF Enumeration
<1>3. \A x, y \in S : RankIn(x, S, R) = RankIn(y, S, R) => x = y
    BY RankFacts
<1>4. ASSUME NEW x \in S PROVE \E i \in 1..n : s[i] = x
    <2>1. RankIn(x, S, R) + 1 \in 1..n
        BY <1>1
    <2> QED
        BY <1>1, <1>2, <1>3, <2>1
<1>5. ASSUME NEW i \in 1..n, NEW j \in 1..n PROVE i < j <=> <<s[i], s[j]>> \in R
    <2>1. i < j => <<s[i], s[j]>> \in R
        <3> SUFFICES ASSUME i < j PROVE <<s[i], s[j]>> \in R
            OBVIOUS
        <3>1. s[i] = s[j] \/ <<s[i], s[j]>> \in R \/ <<s[j], s[i]>> \in R
            BY <1>2 DEF StrictOrder
        <3>2. <<s[j], s[i]>> \in R => RankIn(s[j], S, R) < RankIn(s[i], S, R)
            BY <1>2, RankFacts
        <3> QED
            BY <1>1, <1>2, <3>1, <3>2
    <2>2. <<s[i], s[j]>> \in R => RankIn(s[i], S, R) < RankIn(s[j], S, R)
        BY <1>2, RankFacts
    <2> QED
        BY <1>1, <1>2, <2>1, <2>2
<1>6. s \in [1..n -> S]
    BY <1>2 DEF Enumeration
<1>7. \A i \in 1..n : \A x \in S : RankIn(x, S, R) = i - 1 => s[i] = x
    BY <1>2, <1>3
<1> HIDE DEF s, n
<1> QED
    BY <1>2, <1>4, <1>5, <1>6, <1>7 DEF s, n

\* An initial segment is enumerated as the beginning of the whole.
LEMMA InitialSegment ==
    ASSUME NEW S, NEW R, IsFiniteSet(S), StrictOrder(R, S), NEW T \in SUBSET S,
           \A x \in T : \A y \in S : <<y, x>> \in R => y \in T
    PROVE  /\ IsFiniteSet(T) /\ StrictOrder(R, T) /\ Cardinality(T) <= Cardinality(S)
           /\ Cardinality(T) \in Nat /\ Cardinality(S) \in Nat
           /\ \A i \in 1..Cardinality(T) : Enumeration(T, R)[i] = Enumeration(S, R)[i]
<1>1. IsFiniteSet(T) /\ StrictOrder(R, T) /\ Cardinality(T) <= Cardinality(S)
    BY FS_Subset DEF StrictOrder
<1>2. Cardinality(T) \in Nat /\ Cardinality(S) \in Nat
    BY <1>1, FS_CardinalityType
<1>3. \A x \in T : RankIn(x, T, R) = RankIn(x, S, R)
    <2> SUFFICES ASSUME NEW x \in T PROVE Below(x, T, R) = Below(x, S, R)
        BY DEF RankIn
    <2> QED
        BY DEF Below
<1>4. ASSUME NEW i \in 1..Cardinality(T) PROVE Enumeration(T, R)[i] = Enumeration(S, R)[i]
    <2>1. Enumeration(T, R)[i] \in T /\ RankIn(Enumeration(T, R)[i], T, R) = i - 1
        <3>1. /\ Enumeration(T, R) \in [1..Cardinality(T) -> T]
              /\ \A j \in 1..Cardinality(T) : RankIn(Enumeration(T, R)[j], T, R) = j - 1
            BY <1>1, Enumerated
        <3> QED
            BY <3>1
    <2>2. i \in 1..Cardinality(S)
        BY <1>1, <1>2
    <2>3. RankIn(Enumeration(T, R)[i], S, R) = i - 1
        BY <1>3, <2>1
    <2> QED
        BY <2>1, <2>2, <2>3, Enumerated
<1> QED
    BY <1>1, <1>2, <1>4

\* A non-empty set of numbers has a least one.
LEMMA LeastExists ==
    ASSUME NEW T, T \subseteq Nat, T # {}
    PROVE  \E x \in T : \A y \in T : x <= y
<1>1. PICK x \in T : \A y \in T : ~(<<y, x>> \in OpToRel(<, Nat))
    BY NatLessThanWellFounded, WFMin
<1>2. \A y \in T : ~(y < x)
    BY <1>1 DEF OpToRel
<1> QED
    BY <1>2

(***************************************************************************)
(* What is kept of the scheduled signals.                                  *)
(***************************************************************************)
EarlierIn(S) == {p \in S \X S : Earlier(p[1], p[2])}

\* Scheduled signals of one run: every signal once.
Dated(S) ==
    /\ IsFiniteSet(S)
    /\ \A d \in S : d.index \in Nat /\ Availability(d.signal) \in Nat /\ d.signal.id \in Int
    /\ \A d, e \in S : d.signal.id = e.signal.id => d = e

\* Earlier is a strict order of dated slots.
LEMMA EarlierIsOrder ==
    ASSUME NEW S, Dated(S)
    PROVE  StrictOrder(EarlierIn(S), S)
<1>1. \A x, y \in S : <<x, y>> \in EarlierIn(S) <=> Earlier(x, y)
    BY DEF EarlierIn
<1>2. \A x \in S : ~Earlier(x, x)
    BY DEF Earlier, Dated
<1>3. \A x, y, z \in S : Earlier(x, y) /\ Earlier(y, z) => Earlier(x, z)
    BY DEF Earlier, Dated
<1>4. \A x, y \in S : x = y \/ Earlier(x, y) \/ Earlier(y, x)
    BY DEF Earlier, Dated
<1> QED
    BY <1>1, <1>2, <1>3, <1>4 DEF StrictOrder

\* The slots in order are their enumeration by Earlier.
LEMMA InOrderIs ==
    ASSUME NEW S
    PROVE  InOrderOf(S, Earlier) = Enumeration(S, EarlierIn(S))
<1> DEFINE A(i) == CHOOSE x \in S : Cardinality({y \in S : Earlier(y, x)}) = i - 1
           B(i) == CHOOSE x \in S : RankIn(x, S, EarlierIn(S)) = i - 1
<1>1. \A x \in S : Below(x, S, EarlierIn(S)) = {y \in S : Earlier(y, x)}
    BY DEF Below, EarlierIn
<1>2. \A i \in 1..Cardinality(S) : A(i) = B(i)
    BY <1>1 DEF RankIn
<1>3. InOrderOf(S, Earlier) = [i \in 1..Cardinality(S) |-> A(i)]
    BY DEF InOrderOf
<1>4. Enumeration(S, EarlierIn(S)) = [i \in 1..Cardinality(S) |-> B(i)]
    BY DEF Enumeration
<1> HIDE DEF A, B
<1> QED
    BY <1>2, <1>3, <1>4

Silences(e, d) ==
    Exposure(e) = Exposure(d) /\ Earlier(e, d) /\ d.index - e.index <= DedupSessions

\* A signal is in K exactly when none of K silences it.
Kernel(K, S) == K \subseteq S /\ \A d \in S : d \in K <=> ~\E e \in K : Silences(e, d)

Base == [kept |-> {}, dropped |-> {}]
Fold(f, m, q) == f = [i \in 0..m |-> IF i = 0 THEN Base ELSE Keep(f[i - 1], q[i])]

\* A sequence of slots has a fold, by the least length that would have none.
LEMMA FoldExists ==
    ASSUME NEW n \in Nat, NEW q
    PROVE  \E f : Fold(f, n, q)
<1> DEFINE T == {m \in Nat : ~\E f : Fold(f, m, q)}
<1>1. SUFFICES ASSUME T # {} PROVE FALSE
    OBVIOUS
<1>2. PICK m \in T : \A k \in T : m <= k
    BY <1>1, LeastExists
<1>3. CASE m = 0
    <2>1. PICK f : f = [i \in 0..0 |-> Base]
        OBVIOUS
    <2>2. Fold(f, 0, q)
        BY <2>1 DEF Fold
    <2> QED
        BY <1>2, <1>3, <2>2
<1>4. CASE m # 0
    <2>1. m - 1 \in Nat /\ m - 1 \notin T /\ m \in Nat
        BY <1>2, <1>4
    <2>2. PICK f : Fold(f, m - 1, q)
        BY <2>1
    <2>3. PICK g : g = [i \in 0..m |-> IF i = m THEN Keep(f[m - 1], q[m]) ELSE f[i]]
        OBVIOUS
    <2>4. g[m] = Keep(g[m - 1], q[m])
        BY <2>1, <2>3
    <2>5. g[0] = Base
        BY <1>4, <2>1, <2>2, <2>3 DEF Fold
    <2>6. ASSUME NEW i \in 1..(m - 1) PROVE g[i] = Keep(g[i - 1], q[i])
        <3>1. i \in 0..m /\ i - 1 \in 0..m /\ i # m /\ i - 1 # m /\ i \in 0..(m - 1) /\ i # 0
            BY <2>1
        <3>2. f[i] = Keep(f[i - 1], q[i])
            BY <2>2, <3>1 DEF Fold
        <3>3. g[i] = f[i] /\ g[i - 1] = f[i - 1]
            BY <2>3, <3>1
        <3> QED
            BY <3>2, <3>3
    <2>7. \A i \in 0..m : g[i] = IF i = 0 THEN Base ELSE Keep(g[i - 1], q[i])
        BY <2>1, <2>4, <2>5, <2>6, <1>4
    <2>8. g = [i \in 0..m |-> g[i]]
        BY <2>3
    <2>9. Fold(g, m, q)
        BY <2>7, <2>8 DEF Fold
    <2> QED
        BY <1>2, <2>9
<1> QED
    BY <1>3, <1>4

\* Deduplicate is the last value of its fold.
LEMMA DeduplicateFolds ==
    ASSUME NEW S, Dated(S)
    PROVE  \E f : Fold(f, Cardinality(S), Enumeration(S, EarlierIn(S))) /\ Deduplicate(S) = f[Cardinality(S)]
<1> DEFINE n == Cardinality(S)
           q == InOrderOf(S, Earlier)
           f == CHOOSE f : f = [i \in 0..n |-> IF i = 0 THEN Base ELSE Keep(f[i - 1], q[i])]
<1>1. n \in Nat
    BY FS_CardinalityType DEF Dated
<1>2. Deduplicate(S) = f[n]
    BY DEF Deduplicate, Base
<1>3. \E g : Fold(g, n, q)
    BY <1>1, FoldExists
<1>4. Fold(f, n, q)
    BY <1>3 DEF Fold
<1> QED
    BY <1>2, <1>4, InOrderIs

\* A slot is dropped when one of its exposure was kept within the span, and kept otherwise.
LEMMA KeepFacts ==
    ASSUME NEW K, NEW D, NEW d
    PROVE  LET held == \E e \in K : Exposure(e) = Exposure(d) /\ d.index - e.index <= DedupSessions
           IN  Keep([kept |-> K, dropped |-> D], d)
                 = IF held THEN [kept |-> K, dropped |-> D \union {d}] ELSE [kept |-> K \union {d}, dropped |-> D]
BY DEF Keep

\* What Deduplicate keeps is a kernel: no two near ones, and one near each that is dropped.
LEMMA DeduplicateKernel ==
    ASSUME NEW S, Dated(S)
    PROVE  \E K : Deduplicate(S) = [kept |-> K, dropped |-> S \ K] /\ Kernel(K, S)
<1> DEFINE n == Cardinality(S)
           R == EarlierIn(S)
           q == Enumeration(S, R)
           Seen(i) == {q[j] : j \in 1..i}
<1>1. PICK f : Fold(f, n, q) /\ Deduplicate(S) = f[n]
    BY DeduplicateFolds
<1> DEFINE J(i) == \E K : f[i] = [kept |-> K, dropped |-> Seen(i) \ K] /\ Kernel(K, Seen(i))
           T == {i \in 0..n : ~J(i)}
<1>2. n \in Nat
    BY FS_CardinalityType DEF Dated
<1>3. /\ q \in [1..n -> S] /\ \A x \in S : \E i \in 1..n : q[i] = x
      /\ \A i, j \in 1..n : i < j <=> Earlier(q[i], q[j])
    <2>1. IsFiniteSet(S) /\ StrictOrder(R, S)
        BY EarlierIsOrder DEF Dated
    <2>2. /\ q \in [1..n -> S] /\ \A x \in S : \E i \in 1..n : q[i] = x
          /\ \A i, j \in 1..n : i < j <=> <<q[i], q[j]>> \in R
        BY <2>1, Enumerated
    <2> HIDE DEF q, n
    <2> QED
        BY <2>2 DEF EarlierIn
<1> HIDE DEF q
<1>4. f[0] = Base /\ \A i \in 1..n : f[i] = Keep(f[i - 1], q[i])
    <2>1. \A i \in 0..n : f[i] = IF i = 0 THEN Base ELSE Keep(f[i - 1], q[i])
        BY <1>1, <1>2 DEF Fold
    <2> QED
        BY <1>2, <2>1
<1>5. J(0)
    BY <1>4 DEF Kernel, Base
<1>6. ASSUME NEW i \in 1..n, J(i - 1) PROVE J(i)
    <2>1. PICK K : f[i - 1] = [kept |-> K, dropped |-> Seen(i - 1) \ K] /\ Kernel(K, Seen(i - 1))
        BY <1>6
    <2> DEFINE d == q[i]
               held == \E e \in K : Exposure(e) = Exposure(d) /\ d.index - e.index <= DedupSessions
    <2>2. Seen(i) = Seen(i - 1) \union {d}
        BY <1>2
    <2>3. \A e \in Seen(i - 1) : Earlier(e, d) /\ ~Earlier(d, e) /\ e \in S /\ d \in S
        BY <1>2, <1>3
    <2>4. d \notin Seen(i - 1) /\ ~Earlier(d, d)
        BY <1>2, <1>3
    <2>5. K \subseteq Seen(i - 1)
        BY <2>1 DEF Kernel
    <2>6. held <=> \E e \in K : Silences(e, d)
        BY <2>3, <2>5 DEF Silences
    <2>7. f[i] = IF held THEN [kept |-> K, dropped |-> (Seen(i - 1) \ K) \union {d}]
                         ELSE [kept |-> K \union {d}, dropped |-> Seen(i - 1) \ K]
        <3> DEFINE D == Seen(i - 1) \ K
        <3>1. f[i] = Keep([kept |-> K, dropped |-> D], d)
            BY <1>4, <2>1
        <3> HIDE DEF D, d
        <3>2. Keep([kept |-> K, dropped |-> D], d)
                = IF \E e \in K : Exposure(e) = Exposure(d) /\ d.index - e.index <= DedupSessions
                  THEN [kept |-> K, dropped |-> D \union {d}] ELSE [kept |-> K \union {d}, dropped |-> D]
            BY KeepFacts
        <3> QED
            BY <3>1, <3>2 DEF D
    <2>8. \A e \in Seen(i) : ~Silences(d, e)
        BY <2>2, <2>3, <2>4 DEF Silences
    <2>9. \A e \in Seen(i - 1) : e \in K <=> ~\E x \in K : Silences(x, e)
        BY <2>1 DEF Kernel
    <2> HIDE DEF d, held, Seen
    <2>10. CASE held
        <3>1. Kernel(K, Seen(i))
            BY <2>10, <2>2, <2>4, <2>5, <2>6, <2>9 DEF Kernel
        <3>2. f[i] = [kept |-> K, dropped |-> Seen(i) \ K]
            BY <2>10, <2>2, <2>4, <2>5, <2>7
        <3> QED
            BY <3>1, <3>2
    <2>11. CASE ~held
        <3>1. Kernel(K \union {d}, Seen(i))
            BY <2>11, <2>2, <2>4, <2>5, <2>6, <2>8, <2>9 DEF Kernel
        <3>2. f[i] = [kept |-> K \union {d}, dropped |-> Seen(i) \ (K \union {d})]
            BY <2>11, <2>2, <2>4, <2>5, <2>7
        <3> QED
            BY <3>1, <3>2
    <2> QED
        BY <2>10, <2>11
<1> HIDE DEF J
<1>7. J(n)
    <2> SUFFICES ASSUME ~J(n) PROVE FALSE
        OBVIOUS
    <2>1. T # {} /\ T \subseteq Nat
        BY <1>2
    <2>2. PICK i \in T : \A j \in T : i <= j
        BY <2>1, LeastExists
    <2>3. i # 0 /\ i \in 1..n /\ i - 1 \in 0..n /\ i - 1 \notin T
        BY <1>2, <1>5, <2>2
    <2> QED
        BY <1>6, <2>2, <2>3
<1>8. Seen(n) = S
    BY <1>2, <1>3
<1> QED
    BY <1>1, <1>7, <1>8 DEF J

\* The slots have one kernel.
LEMMA KernelUnique ==
    ASSUME NEW S, Dated(S), NEW K, NEW L, Kernel(K, S), Kernel(L, S)
    PROVE  K = L
<1> DEFINE R == EarlierIn(S)
           T == {RankIn(x, S, R) : x \in {y \in S : (y \in K) # (y \in L)}}
<1>1. StrictOrder(R, S) /\ IsFiniteSet(S)
    BY EarlierIsOrder DEF Dated
<1>2. /\ \A x \in S : RankIn(x, S, R) \in Nat
      /\ \A x, y \in S : Earlier(x, y) => RankIn(x, S, R) < RankIn(y, S, R)
    <2>1. /\ Cardinality(S) \in Nat /\ \A x \in S : RankIn(x, S, R) \in 0..(Cardinality(S) - 1)
          /\ \A x, y \in S : <<x, y>> \in R => RankIn(x, S, R) < RankIn(y, S, R)
        BY <1>1, RankFacts
    <2>2. \A x, y \in S : Earlier(x, y) => <<x, y>> \in R
        BY DEF EarlierIn
    <2> HIDE DEF R
    <2>3. \A x \in S : RankIn(x, S, R) \in Nat
        BY <2>1
    <2>4. ASSUME NEW x \in S, NEW y \in S, Earlier(x, y) PROVE RankIn(x, S, R) < RankIn(y, S, R)
        BY <2>1, <2>2, <2>4, Zenon
    <2> QED
        BY <2>3, <2>4, Zenon
<1>3. SUFFICES ASSUME T # {} PROVE FALSE
    BY DEF Kernel
<1>4. PICK x \in S : /\ (x \in K) # (x \in L)
                     /\ \A y \in S : (y \in K) # (y \in L) => RankIn(x, S, R) <= RankIn(y, S, R)
    <2>1. T \subseteq Nat
        BY <1>2
    <2>2. PICK r \in T : \A k \in T : r <= k
        BY <1>3, <2>1, LeastExists
    <2> QED
        BY <2>2
<1>5. \A y \in S : Silences(y, x) => (y \in K <=> y \in L)
    <2> SUFFICES ASSUME NEW y \in S, Silences(y, x), (y \in K) # (y \in L) PROVE FALSE
        OBVIOUS
    <2>1. RankIn(y, S, R) < RankIn(x, S, R) /\ RankIn(x, S, R) <= RankIn(y, S, R)
        BY <1>2, <1>4 DEF Silences
    <2> QED
        BY <1>2, <2>1
<1>6. K \subseteq S /\ L \subseteq S
    BY DEF Kernel
<1>7. x \in K <=> x \in L
    BY <1>5, <1>6 DEF Kernel
<1> QED
    BY <1>4, <1>7

\* What is kept of an initial segment is what is kept of the whole, cut there.
LEMMA CutKernel ==
    ASSUME NEW S, Dated(S), NEW T \in SUBSET S, \A x \in T : \A y \in S : Earlier(y, x) => y \in T
    PROVE  /\ Dated(T)
           /\ Deduplicate(T).kept = Deduplicate(S).kept \cap T
           /\ Deduplicate(T).dropped = Deduplicate(S).dropped \cap T
<1>1. Dated(T)
    BY FS_Subset DEF Dated
<1>2. PICK K : Deduplicate(S) = [kept |-> K, dropped |-> S \ K] /\ Kernel(K, S)
    BY DeduplicateKernel
<1>3. PICK L : Deduplicate(T) = [kept |-> L, dropped |-> T \ L] /\ Kernel(L, T)
    BY <1>1, DeduplicateKernel
<1>4. Kernel(K \cap T, T)
    BY <1>2 DEF Kernel, Silences
<1>5. L = K \cap T
    BY <1>1, <1>3, <1>4, KernelUnique
<1> QED
    BY <1>1, <1>2, <1>3, <1>5

(***************************************************************************)
(* The calendar of a run and the schedule of its signals.                  *)
(***************************************************************************)
GoodBars(B) ==
    IsFiniteSet(B) /\ \A b \in B : b.date \in Nat /\ b.open \in Nat \ {0} /\ b.close \in Nat

Dates(B) == {b.date : b \in {x \in B : x.symbol = "SPY"}}
LessIn == {p \in Nat \X Nat : p[1] < p[2]}

Calendar(s) ==
    /\ Len(s) \in Nat /\ s \in [1..Len(s) -> Nat]
    /\ \A i, j \in 1..Len(s) : i < j <=> s[i] < s[j]

\* The dates of good bars are finitely many numbers.
LEMMA DatesFacts ==
    ASSUME NEW B, GoodBars(B)
    PROVE  Dates(B) \subseteq Nat /\ IsFiniteSet(Dates(B)) /\ StrictOrder(LessIn, Dates(B))
<1> DEFINE C == {x \in B : x.symbol = "SPY"}
           f == [x \in C |-> x.date]
<1>1. Dates(B) \subseteq Nat
    BY DEF Dates, GoodBars
<1>2. IsFiniteSet(C)
    BY FS_Subset DEF GoodBars
<1>3. f \in Surjection(C, Dates(B))
    BY DEF Surjection, Dates
<1>4. IsFiniteSet(Dates(B))
    BY <1>2, <1>3, FS_Surjection
<1>5. StrictOrder(LessIn, Dates(B))
    BY <1>1 DEF StrictOrder, LessIn
<1> QED
    BY <1>1, <1>4, <1>5

\* The sessions are the dates in their order.
LEMMA SessionsAre ==
    ASSUME NEW B, GoodBars(B)
    PROVE  Sessions(B) = Enumeration(Dates(B), LessIn)
<1> DEFINE S == Dates(B)
           F(i) == CHOOSE x \in S : Cardinality({y \in S : y < x}) = i - 1
           G(i) == CHOOSE x \in S : RankIn(x, S, LessIn) = i - 1
<1>1. \A x \in S : Below(x, S, LessIn) = {y \in S : y < x}
    BY DatesFacts DEF Below, LessIn
<1>2. \A i \in 1..Cardinality(S) : F(i) = G(i)
    BY <1>1 DEF RankIn
<1>3. Sessions(B) = [i \in 1..Cardinality(S) |-> F(i)]
    BY DEF InOrderOf, Sessions, Dates
<1>4. Enumeration(S, LessIn) = [i \in 1..Cardinality(S) |-> G(i)]
    BY DEF Enumeration
<1> HIDE DEF F, G, S
<1> QED
    BY <1>2, <1>3, <1>4 DEF S

\* The sessions are a calendar of exactly the dates.
LEMMA SessionsFacts ==
    ASSUME NEW B, GoodBars(B)
    PROVE  /\ Calendar(Sessions(B)) /\ Len(Sessions(B)) = Cardinality(Dates(B))
           /\ \A i \in 1..Len(Sessions(B)) : Sessions(B)[i] \in Dates(B)
           /\ \A d \in Dates(B) : \E i \in 1..Len(Sessions(B)) : Sessions(B)[i] = d
<1> DEFINE S == Dates(B)
           n == Cardinality(S)
           s == Sessions(B)
<1>1. S \subseteq Nat /\ IsFiniteSet(S) /\ StrictOrder(LessIn, S) /\ n \in Nat
    BY DatesFacts, FS_CardinalityType
<1>2. /\ s \in [1..n -> S] /\ \A d \in S : \E i \in 1..n : s[i] = d
      /\ \A i, j \in 1..n : i < j <=> <<s[i], s[j]>> \in LessIn
    BY <1>1, SessionsAre, Enumerated
<1> HIDE DEF s, n, S
<1>3. Len(s) = n
    <2>1. s \in [1..n -> Nat]
        BY <1>1, <1>2
    <2>2. s \in Seq(Nat)
        <3>1. [1..n -> Nat] \in {[1..m -> Nat] : m \in Nat}
            BY <1>1
        <3>2. Seq(Nat) = UNION {[1..m -> Nat] : m \in Nat}
            BY SeqDef
        <3> QED
            BY <2>1, <3>1, <3>2, Zenon
    <2>3. DOMAIN s = 1..n /\ DOMAIN s = 1..Len(s) /\ Len(s) \in Nat
        BY <2>1, <2>2, LenProperties
    <2> QED
        BY <1>1, <2>3
<1>4. \A i, j \in 1..n : i < j <=> s[i] < s[j]
    BY <1>1, <1>2 DEF LessIn
<1>5. \A i \in 1..n : s[i] \in S
    BY <1>2
<1>6. s \in [1..n -> Nat]
    BY <1>1, <1>2
<1>7. Calendar(s)
    BY <1>1, <1>3, <1>4, <1>6 DEF Calendar
<1> QED
    BY <1>2, <1>3, <1>5, <1>7 DEF s, n, S

\* The session of an event is the first that closes no earlier than it is available.
LEMMA EventIndexFacts ==
    ASSUME NEW s, Calendar(s), NEW a \in Nat
    PROVE  /\ EventIndex(a, s) = None => \A j \in 1..Len(s) : CloseOf(s[j]) < a
           /\ EventIndex(a, s) # None =>
                /\ EventIndex(a, s) \in 1..Len(s) /\ a <= CloseOf(s[EventIndex(a, s)])
                /\ \A j \in 1..Len(s) : a <= CloseOf(s[j]) => EventIndex(a, s) <= j
<1> DEFINE T == {i \in DOMAIN s : CloseOf(s[i]) >= a}
<1>1. DOMAIN s = 1..Len(s) /\ Len(s) \in Nat /\ \A i \in 1..Len(s) : s[i] \in Nat
    BY DEF Calendar
<1>2. EventIndex(a, s) = IF T = {} THEN None ELSE CHOOSE i \in T : \A j \in T : i <= j
    BY DEF EventIndex
<1>3. CASE T = {}
    <2>1. \A j \in 1..Len(s) : CloseOf(s[j]) < a
        BY <1>1, <1>3, SMTT(20) DEF CloseOf
    <2>2. EventIndex(a, s) = None
        BY <1>2, <1>3
    <2> QED
        BY <2>1, <2>2
<1>4. CASE T # {}
    <2>1. T \subseteq Nat
        BY <1>1
    <2>2. \E i \in T : \A j \in T : i <= j
        BY <1>4, <2>1, LeastExists
    <2>3. EventIndex(a, s) \in T /\ \A j \in T : EventIndex(a, s) <= j
        BY <1>2, <1>4, <2>2
    <2>4. EventIndex(a, s) # None
        BY <2>1, <2>3, CalendarAssumption
    <2> QED
        BY <1>1, <2>3, <2>4 DEF CloseOf
<1> QED
    BY <1>3, <1>4

\* The signals of a run that was not refused.
GoodSignals(G) ==
    /\ IsFiniteSet(G)
    /\ \A g \in G : g.id \in Int /\ Availability(g) \in Nat
    /\ \A g, h \in G : g.id = h.id => g = h

IndexOf(g, s) == EventIndex(Availability(g), s)
OnCalendar(g, s) == IndexOf(g, s) # None /\ PeriodOf(s[IndexOf(g, s)]) # None
SlotOf(g, s) == [signal |-> g, index |-> IndexOf(g, s), session |-> s[IndexOf(g, s)],
                 period |-> PeriodOf(s[IndexOf(g, s)])]

\* The schedule is the slots of the signals that fall on the calendar.
LEMMA ScheduleIs ==
    ASSUME NEW G, NEW s
    PROVE  Schedule(G, s) = {SlotOf(g, s) : g \in {x \in G : OnCalendar(x, s)}}
<1> DEFINE dated == {[signal |-> g, index |-> IndexOf(g, s)] : g \in G}
           kept == {x \in dated : x.index # None /\ PeriodOf(s[x.index]) # None}
           slot(d) == [signal |-> d.signal, index |-> d.index, session |-> s[d.index],
                       period |-> PeriodOf(s[d.index])]
<1>1. Schedule(G, s) = {slot(d) : d \in kept}
    BY DEF Schedule, IndexOf
<1>2. kept = {[signal |-> g, index |-> IndexOf(g, s)] : g \in {x \in G : OnCalendar(x, s)}}
    BY DEF OnCalendar
<1>3. \A g : slot([signal |-> g, index |-> IndexOf(g, s)]) = SlotOf(g, s)
    BY DEF SlotOf
<1> DEFINE K == {x \in G : OnCalendar(x, s)}
           entry(g) == [signal |-> g, index |-> IndexOf(g, s)]
<1>4. kept = {entry(g) : g \in K} /\ \A g : slot(entry(g)) = SlotOf(g, s)
    BY <1>2, <1>3
<1> HIDE DEF kept, slot, K, entry
<1>5. Schedule(G, s) = {SlotOf(g, s) : g \in K}
    BY <1>1, <1>4
<1> QED
    BY <1>5 DEF K

\* A session is of the sealed period when it is no earlier than its first day.
LEMMA PeriodFacts ==
    ASSUME NEW n \in Int, PeriodOf(n) # None
    PROVE  PeriodOf(n) \in Periods /\ (PeriodOf(n) = "oos" <=> n >= Windows["oos"].first)
<1> DEFINE ps == {p \in Periods : Windows[p].first <= n /\ n <= Windows[p].last}
<1>1. ps # {} /\ PeriodOf(n) \in ps
    BY DEF PeriodOf
<1>2. \A p \in Periods \ {"oos"} : Windows[p].last < Windows["oos"].first
    BY CalendarAssumption
<1>3. \A p \in Periods : Windows[p].first \in Int /\ Windows[p].last \in Int
    BY CalendarAssumption
<1> QED
    BY <1>1, <1>2, <1>3 DEF Periods

\* A slot is dated, of its signal, and its session closes after the signal is available.
LEMMA ScheduleFacts ==
    ASSUME NEW G, GoodSignals(G), NEW s, Calendar(s)
    PROVE  /\ Dated(Schedule(G, s))
           /\ \A d \in Schedule(G, s) :
                /\ d.signal \in G /\ OnCalendar(d.signal, s) /\ d = SlotOf(d.signal, s)
                /\ d.index \in 1..Len(s) /\ d.session = s[d.index] /\ d.session \in Nat
                /\ Availability(d.signal) <= CloseOf(d.session)
                /\ d.period \in Periods /\ d.period = PeriodOf(d.session)
<1> DEFINE S == Schedule(G, s)
           f == [d \in S |-> d.signal]
<1>1. ASSUME NEW d \in S
      PROVE  d.signal \in G /\ OnCalendar(d.signal, s) /\ d = SlotOf(d.signal, s)
    BY ScheduleIs DEF SlotOf
<1>2. ASSUME NEW d \in S
      PROVE  /\ d.index \in 1..Len(s) /\ d.session = s[d.index] /\ d.session \in Nat
             /\ Availability(d.signal) <= CloseOf(d.session)
             /\ d.period \in Periods /\ d.period = PeriodOf(d.session)
    <2>1. /\ d.index = IndexOf(d.signal, s) /\ d.session = s[d.index] /\ d.period = PeriodOf(s[d.index])
          /\ d.signal \in G /\ OnCalendar(d.signal, s)
        BY <1>1 DEF SlotOf
    <2>2. Availability(d.signal) \in Nat
        BY <2>1 DEF GoodSignals
    <2>3. d.index \in 1..Len(s) /\ Availability(d.signal) <= CloseOf(s[d.index])
        BY <2>1, <2>2, EventIndexFacts DEF OnCalendar, IndexOf
    <2>4. s[d.index] \in Nat
        BY <2>3 DEF Calendar
    <2>5. PeriodOf(s[d.index]) # None
        BY <2>1 DEF OnCalendar
    <2> QED
        BY <2>1, <2>3, <2>4, <2>5, PeriodFacts
<1>3. \A d, e \in S : d.signal.id = e.signal.id => d = e
    BY <1>1 DEF GoodSignals
<1>4. f \in Injection(S, G)
    <2>1. f \in [S -> G]
        BY <1>1
    <2>2. \A d, e \in S : f[d] = f[e] => d = e
        BY <1>1
    <2> QED
        BY <2>1, <2>2, Fun_IsInj
<1>5. IsFiniteSet(S)
    BY <1>4, FS_Injection DEF GoodSignals
<1>6. \A d \in S : d.index \in Nat /\ Availability(d.signal) \in Nat /\ d.signal.id \in Int
    BY <1>1, <1>2 DEF GoodSignals
<1> HIDE DEF S
<1> QED
    BY <1>1, <1>2, <1>3, <1>5, <1>6 DEF S, Dated

(***************************************************************************)
(* What a run gives.                                                       *)
(***************************************************************************)
EventsOf(r) ==
    r.visible.development.all \union r.visible.validation.all \union r.sealed.results.all
UniqueOf(G, B) == Deduplicate(Schedule(G, Sessions(B)))

\* What is kept of the schedule is its kernel, and the rest is dropped.
LEMMA UniqueFacts ==
    ASSUME NEW G, GoodSignals(G), NEW B, GoodBars(B)
    PROVE  /\ UniqueOf(G, B).kept \subseteq Schedule(G, Sessions(B))
           /\ UniqueOf(G, B).dropped = Schedule(G, Sessions(B)) \ UniqueOf(G, B).kept
           /\ Kernel(UniqueOf(G, B).kept, Schedule(G, Sessions(B)))
<1> DEFINE S == Schedule(G, Sessions(B))
<1>1. Dated(S)
    BY ScheduleFacts, SessionsFacts
<1>2. PICK K : Deduplicate(S) = [kept |-> K, dropped |-> S \ K] /\ Kernel(K, S)
    BY <1>1, DeduplicateKernel
<1> HIDE DEF S
<1>3. Deduplicate(S).kept = K /\ Deduplicate(S).dropped = S \ K /\ K \subseteq S
    BY <1>2 DEF Kernel
<1> QED
    BY <1>2, <1>3 DEF S, UniqueOf

\* The events of a run are the outcomes of the slots it keeps.
LEMMA RunEvents ==
    ASSUME NEW G, GoodSignals(G), NEW B, GoodBars(B)
    PROVE  EventsOf(Run(G, B)) = {Outcome(d, Sessions(B), B) : d \in UniqueOf(G, B).kept}
<1> DEFINE es == {Outcome(d, Sessions(B), B) : d \in UniqueOf(G, B).kept}
<1>1. Run(G, B) = Result(es, UniqueOf(G, B).dropped)
    BY DEF Run, RunOver, UniqueOf
<1>2. \A e \in es : e.period \in Periods
    <2>1. \A d \in UniqueOf(G, B).kept : d.period \in Periods
        BY UniqueFacts, SessionsFacts, ScheduleFacts
    <2>2. \A d : Outcome(d, Sessions(B), B).period = d.period
        BY DEF Outcome
    <2> QED
        BY <2>1, <2>2
<1> HIDE DEF es
<1>3. EventsOf(Run(G, B)) = {e \in es : e.period \in Periods}
    BY <1>1 DEF EventsOf, Result, PeriodResults, Periods
<1> QED
    BY <1>2, <1>3 DEF es

\* A run without a fault has no faulty signal and none that is ahead of its session.
LEMMA FaultFree ==
    ASSUME NEW G, NEW B, NEW a, RunFault(G, B, a) = None
    PROVE  /\ \A g \in G : ~SignalFault(g)
           /\ \A d \in Schedule(G, Sessions(B)) : ~SignalAhead(d.signal, d.session, B)
BY CalendarAssumption DEF RunFault

\* The signals and the bars of a test are good ones.
LEMMA TestIsGood ==
    ASSUME NEW t \in Tests
    PROVE  /\ GoodBars(t.bars)
           /\ \A G \in SUBSET t.signals : (\A g \in G : ~SignalFault(g)) => GoodSignals(G)
<1>1. GoodBars(t.bars)
    BY TestsAssumption DEF GoodBars
<1>2. ASSUME NEW G \in SUBSET t.signals, \A g \in G : ~SignalFault(g)
      PROVE  GoodSignals(G)
    <2>1. IsFiniteSet(G)
        BY TestsAssumption, FS_Subset
    <2>2. \A g \in G : g.id \in Int /\ {g.accepted, g.knowledge} \subseteq Nat \union {None}
        BY TestsAssumption
    <2>3. \A g \in G : ~(g.accepted = None /\ g.knowledge = None)
        BY <1>2 DEF SignalFault
    <2>4. \A g \in G : Availability(g) \in Nat
        BY <2>2, <2>3 DEF Availability
    <2>5. \A g, h \in G : g.id = h.id => g = h
        BY TestsAssumption
    <2> QED
        BY <2>1, <2>2, <2>4, <2>5 DEF GoodSignals
<1> QED
    BY <1>1, <1>2

Checked(G, B) == RunFault(G, B, LastClose(B)) = None

EngineOK == /\ engine = Run(FullSignals(test.signals), test.bars)
            /\ Checked(FullSignals(test.signals), test.bars)

ShownOf(r) == IF Sealed THEN r.sealed.results.all ELSE r.visible.validation.all

\* A group of the report is what one family's run shows.
FamilyOK(g) ==
    \E f \in DOMAIN FamilyNames :
        /\ Checked(FamilySignals(test.signals, f), test.bars)
        /\ families[g] = ShownOf(Run(FamilySignals(test.signals, f), test.bars))

Written == Report(PeriodShown, test.stage, Groups, Shown.all, test.evidence, test.complete, test.lower)

EvaluationInv ==
    /\ test \in Tests
    /\ engine = None \/ EngineOK
    /\ step \in {"ran", "opened", "compared", "reported"} => EngineOK
    /\ ~Sealed => opened = 0
    /\ step = "start" => engine = None
    /\ \A g \in DOMAIN families : FamilyOK(g)
    /\ report # None => step = "reported" /\ report = Written

\* No backtest was run to begin with.
LEMMA EvaluationInvInit == EvaluationInit => EvaluationInv
BY DEF EvaluationInit, EvaluationInv

\* Every evaluation keeps what is said of the backtests.
LEMMA EvaluationInvNext == EvaluationInv /\ [Evaluate]_evaluationVars => EvaluationInv'
<1> SUFFICES ASSUME EvaluationInv, [Evaluate]_evaluationVars PROVE EvaluationInv'
    OBVIOUS
<1>1. CASE UNCHANGED evaluationVars
    BY <1>1 DEF EvaluationInv, evaluationVars, EngineOK, FamilyOK, Written, Sealed, PeriodShown, Shown,
                Groups, ShownOf
<1>2. CASE RunEngine
    <2>1. UNCHANGED <<test, families, opened, report>> /\ step = "start" /\ step' \in {"ran", "refused"}
        BY <1>2 DEF RunEngine
    <2>2. (engine' = engine /\ step' = "refused") \/ EngineOK'
        BY <1>2 DEF RunEngine, EngineOK, Checked
    <2>3. (\A g \in DOMAIN families : FamilyOK(g))'
        BY <2>1 DEF EvaluationInv, FamilyOK, ShownOf, Sealed
    <2>4. engine = None /\ report = None
        BY <2>1 DEF EvaluationInv
    <2> QED
        BY <2>1, <2>2, <2>3, <2>4 DEF EvaluationInv, Sealed
<1>3. CASE OpenSealed
    <2>1. UNCHANGED <<test, engine, families, report>> /\ step = "ran" /\ step' = "opened"
          /\ opened' = opened + (IF Sealed THEN 1 ELSE 0)
        BY <1>3 DEF OpenSealed
    <2>2. EngineOK' <=> EngineOK
        BY <2>1 DEF EngineOK
    <2>3. (\A g \in DOMAIN families : FamilyOK(g))'
        BY <2>1 DEF EvaluationInv, FamilyOK, ShownOf, Sealed
    <2>4. ~Sealed => opened' = 0
        BY <2>1 DEF EvaluationInv
    <2> QED
        BY <2>1, <2>2, <2>3, <2>4 DEF EvaluationInv, Sealed
<1>4. CASE RunFamilies
    <2> DEFINE present == {f \in DOMAIN FamilyNames : FamilySignals(test.signals, f) # {}}
               of(g) == CHOOSE f \in present : FamilyNames[f] = g
               made == [g \in {FamilyNames[f] : f \in present} |->
                           ShownOf(Run(FamilySignals(test.signals, of(g)), test.bars))]
    <2>1. UNCHANGED <<test, engine, opened, report>> /\ step = "opened" /\ step' \in {"compared", "refused"}
        BY <1>4 DEF RunFamilies
    <2>2. \/ families' = families
          \/ /\ \A f \in present : Checked(FamilySignals(test.signals, f), test.bars)
             /\ families' = made
        BY <1>4 DEF RunFamilies, Checked, ShownOf
    <2>3. EngineOK' <=> EngineOK
        BY <2>1 DEF EngineOK
    <2>4. (\A g \in DOMAIN families : FamilyOK(g))'
        <3>1. CASE families' = families
            BY <2>1, <3>1 DEF EvaluationInv, FamilyOK, ShownOf, Sealed
        <3>2. CASE /\ \A f \in present : Checked(FamilySignals(test.signals, f), test.bars)
                   /\ families' = made
            <4>1. ASSUME NEW g \in DOMAIN made
                  PROVE  of(g) \in DOMAIN FamilyNames
                           /\ Checked(FamilySignals(test.signals, of(g)), test.bars)
                <5>1. of(g) \in present
                    OBVIOUS
                <5> QED
                    BY <3>2, <5>1
            <4>2. \A g \in DOMAIN made : made[g] = ShownOf(Run(FamilySignals(test.signals, of(g)), test.bars))
                OBVIOUS
            <4> HIDE DEF of, made
            <4> QED
                BY <2>1, <3>2, <4>1, <4>2 DEF FamilyOK, ShownOf, Sealed
        <3> QED
            BY <2>2, <3>1, <3>2
    <2> QED
        BY <2>1, <2>3, <2>4 DEF EvaluationInv, Sealed
<1>5. CASE WriteReport
    <2>1. UNCHANGED <<test, engine, families, opened>> /\ step = "compared" /\ step' \in {"reported", "refused"}
        BY <1>5 DEF WriteReport
    <2>2. report' = report \/ (step' = "reported" /\ report' = Written)
        BY <1>5 DEF WriteReport, Written
    <2>3. EngineOK' <=> EngineOK
        BY <2>1 DEF EngineOK
    <2>4. Written' = Written
        BY <2>1 DEF Written, PeriodShown, Groups, Shown, Sealed
    <2>5. (\A g \in DOMAIN families : FamilyOK(g))'
        BY <2>1 DEF EvaluationInv, FamilyOK, ShownOf, Sealed
    <2>6. report = None
        BY <2>1 DEF EvaluationInv
    <2> QED
        BY <2>1, <2>2, <2>3, <2>4, <2>5, <2>6 DEF EvaluationInv, Sealed
<1> QED
    BY <1>1, <1>2, <1>3, <1>4, <1>5 DEF Evaluate

\* The engine's run is of good signals and bars.
LEMMA EngineFacts ==
    ASSUME EvaluationInv, engine # None
    PROVE  /\ GoodSignals(FullSignals(test.signals)) /\ GoodBars(test.bars)
           /\ EngineOK /\ test \in Tests /\ FullSignals(test.signals) \subseteq test.signals
           /\ EngineEvents = {Outcome(d, EvaluationSessions, test.bars) :
                                d \in UniqueOf(FullSignals(test.signals), test.bars).kept}
           /\ \A d \in Schedule(FullSignals(test.signals), EvaluationSessions) :
                ~SignalAhead(d.signal, d.session, test.bars)
<1> DEFINE G == FullSignals(test.signals)
<1>1. EngineOK /\ test \in Tests /\ G \subseteq test.signals
    BY DEF EvaluationInv, FullSignals
<1>2. /\ \A g \in G : ~SignalFault(g)
      /\ \A d \in Schedule(G, EvaluationSessions) : ~SignalAhead(d.signal, d.session, test.bars)
    BY <1>1, FaultFree DEF EngineOK, Checked, EvaluationSessions
<1>3. GoodSignals(G) /\ GoodBars(test.bars)
    BY <1>1, <1>2, TestIsGood
<1>4. EngineEvents = EventsOf(Run(G, test.bars))
    BY <1>1 DEF EngineOK, EngineEvents, EventsOf
<1> HIDE DEF G
<1>5. EngineEvents = {Outcome(d, EvaluationSessions, test.bars) : d \in UniqueOf(G, test.bars).kept}
    BY <1>3, <1>4, RunEvents DEF EvaluationSessions
<1> QED
    BY <1>1, <1>2, <1>3, <1>5 DEF G

\* The fields of an outcome.
LEMMA OutcomeFields ==
    ASSUME NEW d, NEW s, NEW B
    PROVE  LET e == Outcome(d, s, B)
           IN  /\ e.signal = d.signal /\ e.period = d.period /\ e.session = d.session /\ e.index = d.index
               /\ e.entry = IF d.index + 1 > Len(s) THEN None ELSE s[d.index + 1]
BY DEF Outcome

\* The invariant gives that entries follow what they rest on.
LEMMA EnteredHolds == ASSUME EvaluationInv PROVE EnteredOnKnowledge
<1> DEFINE G == FullSignals(test.signals)
           s == EvaluationSessions
<1> SUFFICES ASSUME engine # None, NEW e \in EngineEvents, e.entry # None
             PROVE  \E eve \in {s[i] : i \in DOMAIN s} :
                        /\ eve < e.entry
                        /\ {Availability(e.signal), e.signal.featureAsOf, e.signal.featureAvailable}
                              \subseteq (0..CloseOf(eve)) \union {None}
    BY Zenon DEF EnteredOnKnowledge
<1>1. GoodSignals(G) /\ GoodBars(test.bars) /\ test \in Tests /\ G \subseteq test.signals
    BY EngineFacts
<1>2. PICK d \in UniqueOf(G, test.bars).kept : e = Outcome(d, s, test.bars)
    BY EngineFacts
<1>3. d \in Schedule(G, s)
    BY <1>1, UniqueFacts DEF EvaluationSessions
<1>4. Calendar(s)
    BY <1>1, SessionsFacts DEF EvaluationSessions
<1>5. /\ d.signal \in G /\ d.index \in 1..Len(s) /\ d.session = s[d.index] /\ d.session \in Nat
      /\ Availability(d.signal) <= CloseOf(d.session)
    BY <1>1, <1>3, <1>4, ScheduleFacts
<1>6. e.signal = d.signal /\ d.index + 1 \in 1..Len(s) /\ e.entry = s[d.index + 1]
    BY <1>2, <1>4, <1>5, OutcomeFields DEF Calendar
<1>7. d.session \in {s[i] : i \in DOMAIN s} /\ d.session < e.entry
    BY <1>4, <1>5, <1>6 DEF Calendar
<1>8. Availability(d.signal) \in Nat /\ {d.signal.featureAsOf, d.signal.featureAvailable} \subseteq Nat \union {None}
    BY <1>1, <1>5, TestsAssumption DEF GoodSignals
<1>9. ~After(d.signal.featureAsOf, CloseOf(d.session)) /\ ~After(d.signal.featureAvailable, CloseOf(d.session))
    BY <1>3, EngineFacts DEF SignalAhead
<1>10. {Availability(e.signal), d.signal.featureAsOf, d.signal.featureAvailable}
         \subseteq (0..CloseOf(d.session)) \union {None}
    BY <1>5, <1>6, <1>8, <1>9, SMTT(20) DEF After, CloseOf
<1> HIDE DEF s
<1> QED
    BY <1>6, <1>7, <1>10

\* The invariant gives that only near duplicates are dropped.
LEMMA DuplicatesHold == ASSUME EvaluationInv PROVE DuplicatesAreNear
<1> DEFINE G == FullSignals(test.signals)
           S == Schedule(G, EvaluationSessions)
           K == UniqueOf(G, test.bars).kept
           keeps(d) == d.signal \in {e.signal : e \in EngineEvents}
           near(d, e) == Exposure(d) = Exposure(e) /\ d.index - e.index \in 0..DedupSessions
<1> SUFFICES ASSUME engine # None, NEW d \in S
             PROVE  keeps(d) # \E e \in S \ {d} : keeps(e) /\ near(d, e) /\ Earlier(e, d)
    BY Zenon DEF DuplicatesAreNear
<1>1. GoodSignals(G) /\ GoodBars(test.bars)
    BY EngineFacts
<1>2. Kernel(K, S) /\ Dated(S)
    BY <1>1, UniqueFacts, ScheduleFacts, SessionsFacts DEF EvaluationSessions
<1>3. EngineEvents = {Outcome(x, EvaluationSessions, test.bars) : x \in K}
    BY EngineFacts
<1> HIDE DEF G, S, K
<1>4. ASSUME NEW e \in S PROVE keeps(e) <=> e \in K
    <2>1. {x.signal : x \in EngineEvents} = {x.signal : x \in K}
        <3>1. \A x : Outcome(x, EvaluationSessions, test.bars).signal = x.signal
            BY OutcomeFields
        <3> QED
            BY <1>3, <3>1
    <2>2. K \subseteq S /\ \A x \in S : x.signal.id = e.signal.id => x = e
        BY <1>2 DEF Kernel, Dated
    <2> QED
        BY <2>1, <2>2
<1> HIDE DEF keeps
<1>5. ASSUME NEW e \in S, Earlier(e, d) PROVE e # d /\ (near(d, e) <=> Silences(e, d))
    <2>1. e.index \in Nat /\ d.index \in Nat /\ e.index <= d.index /\ DedupSessions \in Nat
        BY <1>2, <1>5, CalendarAssumption DEF Dated, Earlier
    <2>2. e # d
        BY <1>2, <1>5 DEF Dated, Earlier
    <2>3. d.index - e.index \in 0..DedupSessions <=> d.index - e.index <= DedupSessions
        BY <2>1
    <2> QED
        BY <1>5, <2>2, <2>3 DEF Silences
<1>6. \A e : Silences(e, d) => Earlier(e, d)
    BY DEF Silences
<1> HIDE DEF near
<1>7. d \in K <=> ~\E e \in K : Silences(e, d)
    BY <1>2 DEF Kernel
<1>8. (\E e \in S \ {d} : keeps(e) /\ near(d, e) /\ Earlier(e, d)) <=> \E e \in K : Silences(e, d)
    <2>1. K \subseteq S
        BY <1>2 DEF Kernel
    <2> QED
        BY <1>4, <1>5, <1>6, <2>1
<1> QED
    BY <1>4, <1>7, <1>8

(***************************************************************************)
(* What counts was seen whole.                                             *)
(***************************************************************************)
LEMMA BarFacts ==
    ASSUME NEW B, NEW ticker, NEW on
    PROVE  /\ BarOn(B, ticker, on) # None => BarOn(B, ticker, on) \in B
           /\ (\E b \in B : b.symbol = ticker /\ b.date = on) => BarOn(B, ticker, on) \in B
BY DEF BarOn

\* A percentage is an integer.
LEMMA PercentType ==
    ASSUME NEW to \in Nat, NEW from \in Nat \ {0}
    PROVE  Percent(to, from) \in Int
BY DEF Percent

SeenWhole(e, h, s, B) ==
    /\ e.open # None /\ e.returns[h].exit # None
    /\ \A i \in DOMAIN s :
          s[i] \in e.entry..e.returns[h].exit => BarOn(B, e.signal.ticker, s[i]) # None

\* A return is eligible exactly when every session of it was seen.
LEMMA OutcomeWhole ==
    ASSUME NEW B, GoodBars(B), NEW d, d.index \in 1..Len(Sessions(B)), NEW h \in Horizons
    PROVE  LET e == Outcome(d, Sessions(B), B)
           IN  Eligible(e, h) # None <=> SeenWhole(e, h, Sessions(B), B)
<1> DEFINE s == Sessions(B)
           n == Len(s)
           e == Outcome(d, s, B)
           entry == d.index + 1
           exit == entry + h
           ticker == d.signal.ticker
           bar == BarOn(B, ticker, s[entry])
           lost == IF entry > n THEN <<"MISSING", "ENTRY_SESSION", 0>>
                   ELSE IF bar = None THEN Missing(ticker, "ENTRY", 0) ELSE None
<1>1. Calendar(s) /\ \A i \in 1..n : s[i] \in Dates(B)
    BY SessionsFacts
<1>2. h \in Nat /\ n \in Nat /\ entry \in Nat /\ entry >= 1 /\ exit \in Nat /\ entry <= exit
    BY <1>1, CalendarAssumption, SMTT(20) DEF Calendar
<1>3. /\ e.signal = d.signal /\ e.entry = (IF entry > n THEN None ELSE s[entry])
      /\ e.open = (IF lost = None THEN bar.open ELSE None)
      /\ e.returns = IF lost # None THEN [k \in Horizons |-> NoReturn(None, lost)]
                     ELSE [k \in Horizons |-> ForwardReturn(ticker, entry, k, s, B)]
    BY DEF Outcome
<1> SUFFICES Eligible(e, h) # None <=> SeenWhole(e, h, s, B)
    OBVIOUS
<1> HIDE DEF e, s
<1>4. CASE entry > n \/ bar = None
    <2>1. lost # None
        BY <1>4, CalendarAssumption DEF Missing
    <2> HIDE DEF lost
    <2>2. e.open = None /\ e.returns[h] = NoReturn(None, lost)
        BY <1>3, <2>1
    <2> QED
        BY <2>2 DEF Eligible, NoReturn, SeenWhole
<1>5. CASE entry <= n /\ bar # None
    <2>1. lost = None
        BY <1>2, <1>5
    <2>2. bar \in B /\ bar.open \in Nat \ {0}
        BY <1>5, BarFacts DEF GoodBars
    <2>3. e.open # None /\ e.entry = s[entry] /\ e.returns[h] = ForwardReturn(ticker, entry, h, s, B)
        BY <1>2, <1>3, <1>5, <2>1, <2>2, CalendarAssumption
    <2> HIDE DEF lost
    <2> DEFINE r == ForwardReturn(ticker, entry, h, s, B)
               path == {s[i] : i \in entry..exit}
               final == BarOn(B, ticker, s[exit])
               hole == \E x \in path : BarOn(B, ticker, x) = None
               stock == Percent(final.close, bar.open)
               market == Percent(BarOn(B, "SPY", s[exit]).close, BarOn(B, "SPY", s[entry]).open)
    <2>4. CASE exit > n
        <3>1. r = NoReturn(None, Missing(ticker, "RETURN", h))
            BY <2>4 DEF ForwardReturn
        <3> HIDE DEF r
        <3> QED
            BY <2>3, <3>1 DEF Eligible, NoReturn, SeenWhole, r
    <2>5. CASE exit <= n /\ final = None
        <3>1. r = NoReturn(s[exit], Missing(ticker, "RETURN", h))
            BY <1>2, <2>5 DEF ForwardReturn, ExitBar
        <3>2. s[exit] \in s[entry]..s[exit] /\ exit \in DOMAIN s
            BY <1>1, <1>2, <2>5, SMTT(20) DEF Calendar
        <3> HIDE DEF r
        <3>3. ~SeenWhole(e, h, s, B)
            BY <1>3, <2>3, <2>5, <3>1, <3>2 DEF NoReturn, SeenWhole, r
        <3>4. Eligible(e, h) = None
            BY <2>3, <3>1 DEF Eligible, NoReturn, r
        <3> QED
            BY <3>3, <3>4
    <2>6. CASE exit <= n /\ final # None
        <3>1. /\ r.exit = s[exit] /\ r.excess = stock - market
              /\ r.reason = None /\ r.incomplete = hole
            <4> DEFINE lows == {BarOn(B, ticker, x).low : x \in path}
                       mae == IF hole THEN None
                              ELSE Percent(CHOOSE l \in lows : \A m \in lows : l <= m, bar.open)
                       seen == [exit |-> s[exit], stock |-> stock, spy |-> market,
                                excess |-> stock - market, mae |-> mae, reason |-> None,
                                incomplete |-> hole]
            <4>1. r = IF exit > n THEN NoReturn(None, Missing(ticker, "RETURN", h))
                      ELSE IF final = None THEN NoReturn(s[exit], Missing(ticker, "RETURN", h))
                      ELSE seen
                BY DEF ForwardReturn, ExitBar
            <4>2. ~(exit > n)
                BY <1>2, <2>6
            <4> HIDE DEF seen, r
            <4>3. r = seen
                BY <4>1, <4>2, <2>6, Zenon
            <4> HIDE DEF mae, hole, stock, market
            <4> QED
                BY <4>3 DEF seen
        <3>2. entry \in 1..n /\ exit \in 1..n
            BY <1>2, <1>5, <2>6
        <3>3. BarOn(B, "SPY", s[exit]) \in B /\ BarOn(B, "SPY", s[entry]) \in B
            BY <1>1, <3>2, BarFacts DEF Dates
        <3>4. final \in B
            BY <2>6, BarFacts
        <3>5. stock \in Int /\ market \in Int
            BY <2>2, <3>3, <3>4, PercentType DEF GoodBars
        <3>6. r.excess # None
            BY <3>1, <3>5, CalendarAssumption
        <3>7. Eligible(e, h) # None <=> ~hole
            BY <2>3, <3>1, <3>6 DEF Eligible, r
        <3>8. s[exit] # None
            BY <1>1, <3>2, CalendarAssumption DEF Calendar
        <3>9. SeenWhole(e, h, s, B) <=> \A i \in 1..n : s[i] \in s[entry]..s[exit] => BarOn(B, ticker, s[i]) # None
            BY <1>1, <1>3, <2>3, <3>1, <3>8, ZenonT(20) DEF SeenWhole, Calendar, r
        <3>10. \A i \in 1..n : s[i] \in s[entry]..s[exit] <=> i \in entry..exit
            BY <1>1, <1>2, <3>2, SMTT(60) DEF Calendar
        <3>11. hole <=> \E i \in entry..exit : BarOn(B, ticker, s[i]) = None
            OBVIOUS
        <3>12. entry..exit \subseteq 1..n
            BY <1>2, <3>2
        <3> HIDE DEF hole
        <3> QED
            BY <3>7, <3>9, <3>10, <3>11, <3>12
    <2> QED
        BY <1>2, <2>4, <2>5, <2>6
<1> QED
    BY <1>2, <1>4, <1>5

\* Every group of a report holds outcomes of its own test.
LEMMA GroupsAreOutcomes ==
    ASSUME EvaluationInv, step = "reported", NEW g \in DOMAIN Groups, NEW e \in Groups[g]
    PROVE  \E d : d.index \in 1..Len(EvaluationSessions) /\ e = Outcome(d, EvaluationSessions, test.bars)
<1> DEFINE Made(G) == {Outcome(d, EvaluationSessions, test.bars) : d \in UniqueOf(G, test.bars).kept}
<1>1. ASSUME NEW G \in SUBSET test.signals, Checked(G, test.bars), e \in EventsOf(Run(G, test.bars))
      PROVE  \E d : d.index \in 1..Len(EvaluationSessions) /\ e = Outcome(d, EvaluationSessions, test.bars)
    <2>1. test \in Tests
        BY DEF EvaluationInv
    <2>2. GoodSignals(G) /\ GoodBars(test.bars)
        BY <1>1, <2>1, FaultFree, TestIsGood DEF Checked
    <2>3. PICK d \in UniqueOf(G, test.bars).kept : e = Outcome(d, EvaluationSessions, test.bars)
        BY <1>1, <2>2, RunEvents DEF EvaluationSessions
    <2>4. d \in Schedule(G, EvaluationSessions)
        BY <2>2, UniqueFacts DEF EvaluationSessions
    <2>5. d.index \in 1..Len(EvaluationSessions)
        BY <2>2, <2>4, ScheduleFacts, SessionsFacts DEF EvaluationSessions
    <2> QED
        BY <2>3, <2>5
<1>2. \A r : ShownOf(r) \subseteq EventsOf(r)
    BY DEF ShownOf, EventsOf
<1>3. EngineOK
    BY DEF EvaluationInv
<1>4. Shown.all = ShownOf(engine) /\ Shown = IF Sealed THEN engine.sealed.results ELSE engine.visible.validation
    BY DEF Shown, ShownOf, PeriodShown
<1>5. Shown.top \subseteq Shown.all
    <2> DEFINE G == FullSignals(test.signals)
               es == {Outcome(d, Sessions(test.bars), test.bars) : d \in UniqueOf(G, test.bars).kept}
    <2>1. engine = Result(es, UniqueOf(G, test.bars).dropped)
        BY <1>3 DEF EngineOK, Run, RunOver, UniqueOf
    <2> HIDE DEF es
    <2>2. \E p : Shown = PeriodResults(es, p)
        BY <1>4, <2>1 DEF Result
    <2> QED
        BY <2>2 DEF PeriodResults, TopDecile
<1>6. CASE g \in {"full_engine", "simple_benchmark"}
    <2>1. e \in Shown.all
        BY <1>5, <1>6 DEF Groups
    <2>2. FullSignals(test.signals) \subseteq test.signals
        BY DEF FullSignals
    <2>3. e \in EventsOf(Run(FullSignals(test.signals), test.bars))
        BY <1>2, <1>3, <1>4, <2>1 DEF EngineOK
    <2> QED
        BY <1>1, <1>3, <2>2, <2>3 DEF EngineOK
<1>7. CASE g \notin {"full_engine", "simple_benchmark"}
    <2>1. g \in DOMAIN families /\ Groups[g] = families[g]
        BY <1>7 DEF Groups
    <2>2. PICK f \in DOMAIN FamilyNames :
            /\ Checked(FamilySignals(test.signals, f), test.bars)
            /\ families[g] = ShownOf(Run(FamilySignals(test.signals, f), test.bars))
        BY <2>1 DEF EvaluationInv, FamilyOK
    <2>3. FamilySignals(test.signals, f) \subseteq test.signals
        BY DEF FamilySignals
    <2> QED
        BY <1>1, <1>2, <2>1, <2>2, <2>3
<1> QED
    BY <1>6, <1>7

\* The invariant gives that only whole paths count.
LEMMA WholePathsHold == ASSUME EvaluationInv PROVE OnlyWholePathsCount
<1> SUFFICES ASSUME report # None, NEW h \in Horizons, NEW g \in DOMAIN Groups
             PROVE  report.table[g][h].observed
                      = Cardinality({e \in Groups[g] : SeenWhole(e, h, EvaluationSessions, test.bars)})
    BY Zenon DEF OnlyWholePathsCount, SeenWhole
<1>1. step = "reported" /\ report = Written /\ test \in Tests
    BY DEF EvaluationInv
<1>2. report.table[g][h] = Summary(Groups[g], h)
    BY <1>1 DEF Written, Report
<1>3. report.table[g][h].observed = Cardinality({e \in Groups[g] : Eligible(e, h) # None})
    BY <1>2 DEF Summary
<1>4. \A e \in Groups[g] : Eligible(e, h) # None <=> SeenWhole(e, h, EvaluationSessions, test.bars)
    BY <1>1, GroupsAreOutcomes, OutcomeWhole, TestIsGood DEF EvaluationSessions
<1>5. {e \in Groups[g] : Eligible(e, h) # None}
        = {e \in Groups[g] : SeenWhole(e, h, EvaluationSessions, test.bars)}
    BY <1>4
<1> QED
    BY <1>3, <1>5

(***************************************************************************)
(* Nothing looks ahead.                                                    *)
(***************************************************************************)
LEMMA VisibleIs ==
    ASSUME NEW es, NEW gone, NEW es2, NEW gone2,
           es2 = {e \in es : e.period # "oos"}, gone2 = {d \in gone : d.period # "oos"}
    PROVE  Result(es, gone).visible = Result(es2, gone2).visible
<1>1. \A p \in {"development", "validation"} : {e \in es : e.period = p} = {e \in es2 : e.period = p}
    OBVIOUS
<1>2. es \ {e \in es : e.period = "oos"} = es2 \ {e \in es2 : e.period = "oos"}
    OBVIOUS
<1>3. {x \in gone : x.period # "oos"} = {x \in gone2 : x.period # "oos"}
    OBVIOUS
<1>4. \A p \in {"development", "validation"} : PeriodResults(es, p) = PeriodResults(es2, p)
    BY <1>1 DEF PeriodResults
<1>5. Attrition(es \ {e \in es : e.period = "oos"}) = Attrition(es2 \ {e \in es2 : e.period = "oos"})
    BY <1>2, Zenon
<1>6. VisibleDuplicates(gone) = VisibleDuplicates(gone2)
    BY <1>3, Zenon DEF VisibleDuplicates
<1>7. \A x, y : Result(x, y).visible
                  = [development |-> PeriodResults(x, "development"),
                     validation |-> PeriodResults(x, "validation"),
                     attrition |-> Attrition(x \ {e \in x : e.period = "oos"}),
                     duplicates |-> VisibleDuplicates(y)]
    BY DEF Result
<1> DEFINE A(x) == Attrition(x \ {e \in x : e.period = "oos"})
<1>8. A(es) = A(es2)
    BY <1>5
<1>9. \A x, y : Result(x, y).visible
                  = [development |-> PeriodResults(x, "development"),
                     validation |-> PeriodResults(x, "validation"),
                     attrition |-> A(x), duplicates |-> VisibleDuplicates(y)]
    BY <1>7
<1>10. Result(es, gone).visible
           = [development |-> PeriodResults(es, "development"),
              validation |-> PeriodResults(es, "validation"),
              attrition |-> A(es), duplicates |-> VisibleDuplicates(gone)]
    BY <1>9, Zenon
<1>11. Result(es2, gone2).visible
           = [development |-> PeriodResults(es2, "development"),
              validation |-> PeriodResults(es2, "validation"),
              attrition |-> A(es2), duplicates |-> VisibleDuplicates(gone2)]
    BY <1>9, Zenon
<1>12. PeriodResults(es, "development") = PeriodResults(es2, "development")
         /\ PeriodResults(es, "validation") = PeriodResults(es2, "validation")
    BY <1>4
<1> QED
    BY <1>6, <1>8, <1>10, <1>11, <1>12, Zenon

\* The invariant gives that the sealed period leaves no trace before it may be opened.
LEMMA SealIsKept == ASSUME EvaluationInv PROVE SealHolds
<1> DEFINE G == FullSignals(test.signals)
           B == test.bars
           s == EvaluationSessions
           V == {g \in G : LET i == EventIndex(Availability(g), s)
                           IN  i # None => PeriodOf(s[i]) # "oos"}
           S == Schedule(G, s)
           T == Schedule(V, s)
<1> SUFFICES ASSUME engine # None, ~Sealed
             PROVE  opened = 0 /\ engine.visible = Run(V, B).visible
    BY Zenon DEF SealHolds
<1>1. opened = 0
    BY DEF EvaluationInv
<1>2. GoodSignals(G) /\ GoodBars(B) /\ engine = Run(G, B)
    BY EngineFacts DEF EngineOK
<1>3. V \subseteq G /\ GoodSignals(V)
    BY <1>2, FS_Subset DEF GoodSignals
<1>4. Calendar(s)
    BY <1>2, SessionsFacts DEF EvaluationSessions
<1>5. /\ Dated(S)
      /\ \A d \in S : /\ d.signal \in G /\ OnCalendar(d.signal, s) /\ d = SlotOf(d.signal, s)
                      /\ d.index \in 1..Len(s) /\ d.session = s[d.index] /\ d.session \in Nat
                      /\ d.period \in Periods /\ d.period = PeriodOf(d.session)
    BY <1>2, <1>4, ScheduleFacts
<1>6. \A g \in G : g \in V <=> (IndexOf(g, s) # None => PeriodOf(s[IndexOf(g, s)]) # "oos")
    BY DEF IndexOf
<1>7. T = {SlotOf(g, s) : g \in {x \in V : OnCalendar(x, s)}} /\ S = {SlotOf(g, s) : g \in {x \in G : OnCalendar(x, s)}}
    BY ScheduleIs
<1> HIDE DEF V, G, S, T, s, B
<1>8. T = {d \in S : d.period # "oos"}
    <2>1. ASSUME NEW g \in V, OnCalendar(g, s) PROVE SlotOf(g, s) \in S /\ SlotOf(g, s).period # "oos"
        BY <1>3, <1>6, <1>7, <2>1 DEF OnCalendar, SlotOf
    <2>2. ASSUME NEW d \in S, d.period # "oos" PROVE d \in T
        <3>1. d.signal \in V
            BY <1>5, <1>6, <2>2 DEF SlotOf
        <3> QED
            BY <1>5, <1>7, <3>1
    <2> QED
        BY <1>7, <2>1, <2>2
<1>9. ASSUME NEW x \in T, NEW y \in S, Earlier(y, x) PROVE y \in T
    <2>1. y.index <= x.index /\ x \in S /\ x.period # "oos" /\ x.index \in 1..Len(s) /\ y.index \in 1..Len(s)
        BY <1>5, <1>8, <1>9 DEF Earlier, Calendar
    <2>2. y.session <= x.session
        BY <1>4, <1>5, <2>1 DEF Calendar
    <2>3. PeriodOf(x.session) # None /\ PeriodOf(y.session) # None
        BY <1>5, <2>1, CalendarAssumption DEF OnCalendar, SlotOf
    <2>4. x.session < Windows["oos"].first
        BY <1>5, <2>1, <2>3, PeriodFacts, CalendarAssumption DEF Periods
    <2>5. y.period # "oos"
        BY <1>5, <2>1, <2>2, <2>3, <2>4, PeriodFacts, CalendarAssumption, SMTT(20) DEF Periods
    <2> QED
        BY <1>8, <2>5
<1> DEFINE K == Deduplicate(S).kept
           D == Deduplicate(S).dropped
           es == {Outcome(d, s, B) : d \in K}
           es2 == {Outcome(d, s, B) : d \in Deduplicate(T).kept}
<1>10. Deduplicate(T).kept = K \cap T /\ Deduplicate(T).dropped = D \cap T /\ T \in SUBSET S
    <2>1. T \in SUBSET S
        BY <1>8
    <2>2. \A x \in T : \A y \in S : Earlier(y, x) => y \in T
        BY <1>9
    <2> QED
        BY <1>5, <2>1, <2>2, CutKernel
<1>11. K \subseteq S /\ D \subseteq S
    BY <1>2, UniqueFacts DEF UniqueOf, S, G, s, B, EvaluationSessions
<1>12. es2 = {e \in es : e.period # "oos"}
    <2>1. \A d : Outcome(d, s, B).period = d.period
        BY OutcomeFields
    <2>2. \A d \in K : d \in T <=> d.period # "oos"
        BY <1>8, <1>11
    <2> HIDE DEF K
    <2> QED
        BY <1>10, <2>1, <2>2
<1>13. Deduplicate(T).dropped = {d \in D : d.period # "oos"}
    BY <1>8, <1>10, <1>11
<1>14. Run(G, B) = Result(es, D) /\ Run(V, B) = Result(es2, Deduplicate(T).dropped)
    BY DEF Run, RunOver, S, T, s, B, EvaluationSessions
<1> HIDE DEF es, es2, D, K
<1> QED
    BY <1>1, <1>2, <1>12, <1>13, <1>14, VisibleIs

\* A return of the bars up to its exit is the return of all of them.
ReturnIsCut(B, C, s, z, entry, h, ticker) ==
    Calendar(s) /\ Calendar(z) /\ entry \in Nat /\ h \in Nat
    /\ entry >= 1 /\ entry + h = Len(z) /\ Len(z) <= Len(s)
    /\ (\A i \in 1..Len(z) : z[i] = s[i])
    /\ (\A b : b \in C <=> b \in B /\ b.date <= s[entry + h])
    => /\ \A i \in 1..Len(z) : BarOn(C, ticker, z[i]) = BarOn(B, ticker, s[i])
       /\ ForwardReturn(ticker, entry, h, z, C) = ForwardReturn(ticker, entry, h, s, B)

\* A return that ends within the cut is that of the cut bars.
LEMMA SameReturn == \A B, C, s, z, entry, h, ticker : ReturnIsCut(B, C, s, z, entry, h, ticker)
<1> SUFFICES ASSUME NEW B, NEW C, NEW s, NEW z, Calendar(s), Calendar(z),
                    NEW entry \in Nat, NEW h \in Nat,
                    NEW ticker, entry >= 1, entry + h = Len(z), Len(z) <= Len(s),
                    \A i \in 1..Len(z) : z[i] = s[i],
                    \A b : b \in C <=> b \in B /\ b.date <= s[entry + h]
             PROVE  /\ \A i \in 1..Len(z) : BarOn(C, ticker, z[i]) = BarOn(B, ticker, s[i])
                    /\ ForwardReturn(ticker, entry, h, z, C) = ForwardReturn(ticker, entry, h, s, B)
    BY DEF ReturnIsCut
<1> DEFINE n == entry + h
<1>1. n \in Nat /\ n = Len(z) /\ n \in 1..Len(s) /\ entry \in 1..n /\ \A i \in 1..n : i \in 1..Len(s)
    <2>1. Len(s) \in Nat /\ Len(z) \in Nat
        BY DEF Calendar
    <2> QED
        BY <2>1
<1>2. \A i \in 1..n : s[i] \in Nat /\ s[i] <= s[n]
    BY <1>1, SMTT(20) DEF Calendar
<1>3. ASSUME NEW i \in 1..n, NEW x PROVE BarOn(C, x, z[i]) = BarOn(B, x, s[i])
    <2>1. {b \in C : b.symbol = x /\ b.date = s[i]} = {b \in B : b.symbol = x /\ b.date = s[i]}
        BY <1>2
    <2>2. z[i] = s[i]
        BY <1>1
    <2> DEFINE PickOf(bs) == IF bs = {} THEN None ELSE CHOOSE b \in bs : TRUE
    <2>3. BarOn(C, x, s[i]) = PickOf({b \in C : b.symbol = x /\ b.date = s[i]})
        BY DEF BarOn
    <2>4. BarOn(B, x, s[i]) = PickOf({b \in B : b.symbol = x /\ b.date = s[i]})
        BY DEF BarOn
    <2> HIDE DEF PickOf
    <2> QED
        BY <2>1, <2>2, <2>3, <2>4, Zenon
<1>4. entry..n \subseteq 1..n
    BY <1>1
<1> DEFINE Return(q, Q) ==
             LET path == {q[i] : i \in entry..n}
                 first == BarOn(Q, ticker, q[entry])
                 final == BarOn(Q, ticker, q[n])
                 lows == {BarOn(Q, ticker, d).low : d \in path}
                 hole == \E d \in path : BarOn(Q, ticker, d) = None
                 stock == Percent(final.close, first.open)
                 market == Percent(BarOn(Q, "SPY", q[n]).close, BarOn(Q, "SPY", q[entry]).open)
             IN  IF final = None THEN NoReturn(q[n], Missing(ticker, "RETURN", h))
                 ELSE [exit |-> q[n], stock |-> stock, spy |-> market, excess |-> stock - market,
                       mae |-> IF hole THEN None
                               ELSE Percent(CHOOSE l \in lows : \A m \in lows : l <= m, first.open),
                       reason |-> None, incomplete |-> hole]
<1>5. ForwardReturn(ticker, entry, h, z, C) = Return(z, C)
    <2>1. ~(n > Len(z))
        BY <1>1
    <2> QED
        BY <2>1, Zenon DEF ForwardReturn, ExitBar
<1>6. ForwardReturn(ticker, entry, h, s, B) = Return(s, B)
    <2>1. ~(n > Len(s))
        BY <1>1
    <2> QED
        BY <2>1, Zenon DEF ForwardReturn, ExitBar
<1>7. Return(z, C) = Return(s, B)
    <2>1. /\ BarOn(C, ticker, z[entry]) = BarOn(B, ticker, s[entry])
          /\ BarOn(C, ticker, z[n]) = BarOn(B, ticker, s[n])
          /\ BarOn(C, "SPY", z[entry]) = BarOn(B, "SPY", s[entry])
          /\ BarOn(C, "SPY", z[n]) = BarOn(B, "SPY", s[n])
          /\ z[n] = s[n]
        BY <1>1, <1>3
    <2>2. {z[i] : i \in entry..n} = {s[i] : i \in entry..n}
        BY <1>1, <1>4
    <2>3. \A d \in {s[i] : i \in entry..n} : BarOn(C, ticker, d) = BarOn(B, ticker, d)
        BY <1>1, <1>3, <1>4
    <2>4. {BarOn(C, ticker, d).low : d \in {s[i] : i \in entry..n}}
            = {BarOn(B, ticker, d).low : d \in {s[i] : i \in entry..n}}
        BY <2>3
    <2>5. (\E d \in {s[i] : i \in entry..n} : BarOn(C, ticker, d) = None)
            <=> \E d \in {s[i] : i \in entry..n} : BarOn(B, ticker, d) = None
        BY <2>3
    <2> QED
        BY <2>1, <2>2, <2>4, <2>5
<1> QED
    BY <1>1, <1>3, <1>5, <1>6, <1>7

\* An outcome that is known has its exit on the calendar and its entry among the bars.
LEMMA OutcomeKnown ==
    ASSUME NEW s, Calendar(s), NEW d, d.index \in 1..Len(s), NEW h \in Horizons, NEW B,
           Outcome(d, s, B).returns[h].excess # None
    PROVE  /\ d.index + 1 + h \in 1..Len(s) /\ Outcome(d, s, B).returns[h].exit = s[d.index + 1 + h]
           /\ BarOn(B, d.signal.ticker, s[d.index + 1]) # None
           /\ Outcome(d, s, B).returns[h] = ForwardReturn(d.signal.ticker, d.index + 1, h, s, B)
<1> DEFINE n == Len(s)
           e == Outcome(d, s, B)
           entry == d.index + 1
           exit == entry + h
           ticker == d.signal.ticker
           bar == BarOn(B, ticker, s[entry])
           lost == IF entry > n THEN <<"MISSING", "ENTRY_SESSION", 0>>
                   ELSE IF bar = None THEN Missing(ticker, "ENTRY", 0) ELSE None
           r == ForwardReturn(ticker, entry, h, s, B)
<1>1. h \in Nat /\ n \in Nat /\ entry \in Nat /\ entry >= 1 /\ exit \in Nat /\ entry <= exit
    BY CalendarAssumption DEF Calendar
<1>2. e.returns = IF lost # None THEN [k \in Horizons |-> NoReturn(None, lost)]
                  ELSE [k \in Horizons |-> ForwardReturn(ticker, entry, k, s, B)]
    BY DEF Outcome
<1>3. e.returns[h].excess # None
    OBVIOUS
<1> SUFFICES /\ exit \in 1..n /\ e.returns[h].exit = s[exit]
             /\ bar # None /\ e.returns[h] = r
    OBVIOUS
<1> HIDE DEF e
<1>4. lost = None
    <2> SUFFICES ASSUME lost # None PROVE FALSE
        OBVIOUS
    <2> HIDE DEF lost
    <2>1. e.returns[h] = NoReturn(None, lost)
        BY <1>2
    <2> QED
        BY <1>3, <2>1 DEF NoReturn
<1>5. entry <= n /\ bar # None
    BY <1>1, <1>4, CalendarAssumption DEF Missing
<1> HIDE DEF lost
<1>6. e.returns[h] = r
    BY <1>2, <1>4
<1>7. exit <= n
    <2> SUFFICES ASSUME exit > n PROVE FALSE
        BY <1>1
    <2>1. r = NoReturn(None, Missing(ticker, "RETURN", h))
        BY DEF ForwardReturn
    <2> HIDE DEF r
    <2> QED
        BY <1>3, <1>6, <2>1 DEF NoReturn
<1>8. r.exit = s[exit]
    <2>1. ~(exit > n)
        BY <1>1, <1>7
    <2> QED
        BY <2>1 DEF ForwardReturn, NoReturn, ExitBar
<1> QED
    BY <1>1, <1>5, <1>6, <1>7, <1>8

\* The sessions of the bars up to a session are the sessions up to it.
LEMMA CutSessions ==
    ASSUME NEW B, GoodBars(B), NEW m \in 1..Len(Sessions(B)), NEW C,
           C = {b \in B : b.date <= Sessions(B)[m]}
    PROVE  /\ GoodBars(C) /\ Len(Sessions(C)) = m
           /\ \A i \in 1..m : Sessions(C)[i] = Sessions(B)[i]
<1> DEFINE s == Sessions(B)
           z == Sessions(C)
           S == Dates(B)
           T == Dates(C)
<1>1. GoodBars(C)
    BY FS_Subset DEF GoodBars
<1>2. /\ Calendar(s) /\ Len(s) = Cardinality(S) /\ \A i \in 1..Len(s) : s[i] \in S
      /\ Calendar(z) /\ Len(z) = Cardinality(T) /\ \A i \in 1..Len(z) : z[i] \in T
      /\ \A x \in T : \E i \in 1..Len(z) : z[i] = x
    BY <1>1, SessionsFacts
<1>3. S \subseteq Nat /\ IsFiniteSet(S) /\ StrictOrder(LessIn, S)
    BY DatesFacts
<1>4. s = Enumeration(S, LessIn) /\ z = Enumeration(T, LessIn)
    BY <1>1, SessionsAre
<1>5. T = {x \in S : x <= s[m]}
    BY DEF Dates
<1> HIDE DEF s, z, S, T
<1>6. s[m] \in S /\ s[m] \in Nat
    BY <1>2, <1>3 DEF s
<1>7. T \in SUBSET S /\ \A x \in T : \A y \in S : <<y, x>> \in LessIn => y \in T
    BY <1>3, <1>5, <1>6 DEF LessIn
<1>8. Len(z) <= Len(s) /\ \A i \in 1..Len(z) : z[i] = s[i]
    <2>1. /\ Cardinality(T) <= Cardinality(S)
          /\ \A i \in 1..Cardinality(T) : Enumeration(T, LessIn)[i] = Enumeration(S, LessIn)[i]
        BY <1>3, <1>7, InitialSegment
    <2> QED
        BY <1>2, <1>4, <2>1
<1>9. s[m] \in T
    BY <1>5, <1>6
<1>10. PICK i \in 1..Len(z) : z[i] = s[m]
    BY <1>2, <1>9
<1>11. Len(s) \in Nat /\ Len(z) \in Nat /\ m \in 1..Len(s)
    BY <1>2 DEF Calendar, s
<1>12. m <= Len(z)
    BY <1>2, <1>8, <1>10, <1>11 DEF Calendar
<1>13. Len(z) <= m
    <2> SUFFICES ASSUME Len(z) > m PROVE FALSE
        BY <1>11
    <2>1. Len(z) \in 1..Len(z) /\ z[Len(z)] \in T /\ z[Len(z)] = s[Len(z)] /\ Len(z) \in 1..Len(s)
        BY <1>2, <1>8, <1>11
    <2>2. s[m] < s[Len(z)]
        BY <1>2, <1>11, <2>1 DEF Calendar
    <2>3. s[Len(z)] <= s[m] /\ s[Len(z)] \in Nat
        BY <1>3, <1>5, <2>1
    <2> QED
        BY <1>6, <2>2, <2>3
<1>14. Len(z) = m
    BY <1>11, <1>12, <1>13
<1> QED
    BY <1>1, <1>8, <1>14 DEF s, z

\* Signals up to a close fall where they fall on the whole calendar.
ScheduleIsCut(G, s, z, m, V) ==
    GoodSignals(G) /\ Calendar(s) /\ Calendar(z) /\ m \in 1..Len(s)
    /\ Len(z) = m /\ (\A i \in 1..m : z[i] = s[i])
    /\ V = {g \in G : Availability(g) <= CloseOf(s[m])}
    => Schedule(V, z) = {d \in Schedule(G, s) : d.index <= m}

\* The schedule of cut bars is the schedule, cut.
LEMMA CutSchedule == \A G, s, z, m, V : ScheduleIsCut(G, s, z, m, V)
<1> SUFFICES ASSUME NEW G, GoodSignals(G), NEW s, Calendar(s), NEW z, Calendar(z), NEW m \in 1..Len(s),
                    Len(z) = m, \A i \in 1..m : z[i] = s[i],
                    NEW V, V = {g \in G : Availability(g) <= CloseOf(s[m])}
             PROVE  Schedule(V, z) = {d \in Schedule(G, s) : d.index <= m}
    BY DEF ScheduleIsCut
<1>1. /\ Len(s) \in Nat /\ m \in Nat /\ \A i \in 1..m : i \in 1..Len(s)
      /\ \A i \in 1..Len(s) : s[i] \in Nat
      /\ \A i, j \in 1..Len(s) : i <= j => s[i] <= s[j]
    <2>1. Len(s) \in Nat /\ \A i \in 1..Len(s) : s[i] \in Nat
        BY DEF Calendar
    <2>2. \A i, j \in 1..Len(s) : i < j => s[i] < s[j]
        BY DEF Calendar
    <2>3. m \in Nat /\ \A i \in 1..m : i \in 1..Len(s)
        BY <2>1
    <2>4. ASSUME NEW i \in 1..Len(s), NEW j \in 1..Len(s), i <= j PROVE s[i] <= s[j]
        <3>1. i = j \/ i < j
            BY <2>1, <2>4
        <3> QED
            BY <2>1, <2>2, <3>1
    <2> QED
        BY <2>1, <2>3, <2>4
<1>2. ASSUME NEW g \in V
      PROVE  IndexOf(g, z) = IndexOf(g, s) /\ IndexOf(g, s) # None /\ IndexOf(g, s) \in 1..m
    <2> DEFINE a == Availability(g)
               i == EventIndex(a, s)
               k == EventIndex(a, z)
    <2>1. a \in Nat /\ a <= CloseOf(s[m]) /\ CloseOf(z[m]) = CloseOf(s[m]) /\ CloseOf(s[m]) \in Nat /\ m \in 1..m
        BY <1>1 DEF GoodSignals, CloseOf
    <2>2. i # None /\ k # None
        BY <1>1, <2>1, EventIndexFacts
    <2>3. i \in 1..Len(s) /\ a <= CloseOf(s[i]) /\ \A j \in 1..Len(s) : a <= CloseOf(s[j]) => i <= j
        BY <2>1, <2>2, EventIndexFacts
    <2>4. k \in 1..m /\ a <= CloseOf(z[k]) /\ \A j \in 1..m : a <= CloseOf(z[j]) => k <= j
        BY <2>1, <2>2, EventIndexFacts
    <2> HIDE DEF i, k, a
    <2>5. i <= m /\ i \in 1..m
        BY <1>1, <2>1, <2>3
    <2>6. CloseOf(z[k]) = CloseOf(s[k]) /\ CloseOf(z[i]) = CloseOf(s[i])
        BY <2>4, <2>5
    <2>7. i <= k /\ k <= i
        BY <1>1, <2>3, <2>4, <2>5, <2>6
    <2>8. i = k
        BY <2>4, <2>5, <2>7
    <2> QED
        BY <2>2, <2>5, <2>8 DEF IndexOf, i, k, a
<1>3. ASSUME NEW g \in V PROVE SlotOf(g, z) = SlotOf(g, s) /\ (OnCalendar(g, z) <=> OnCalendar(g, s))
    <2>1. z[IndexOf(g, z)] = s[IndexOf(g, s)]
        BY <1>2
    <2> QED
        BY <1>2, <2>1 DEF SlotOf, OnCalendar
<1>4. \A d \in Schedule(G, s) :
        /\ d.signal \in G /\ OnCalendar(d.signal, s) /\ d = SlotOf(d.signal, s)
        /\ d.index \in 1..Len(s) /\ d.session = s[d.index] /\ Availability(d.signal) <= CloseOf(d.session)
    BY ScheduleFacts
<1>5. ASSUME NEW g \in V, OnCalendar(g, s) PROVE SlotOf(g, s) \in Schedule(G, s) /\ SlotOf(g, s).index <= m
    <2>1. SlotOf(g, s) \in Schedule(G, s)
        BY <1>5, ScheduleIs
    <2> QED
        BY <1>1, <1>2, <2>1 DEF SlotOf
<1>6. ASSUME NEW d \in Schedule(G, s), d.index <= m PROVE d.signal \in V
    <2>1. d.session <= s[m] /\ d.session \in Nat /\ s[m] \in Nat
        BY <1>1, <1>4, <1>6
    <2>2. Availability(d.signal) \in Nat /\ Availability(d.signal) <= CloseOf(d.session)
        BY <1>4 DEF GoodSignals
    <2>3. Availability(d.signal) <= CloseOf(s[m])
        BY <2>1, <2>2 DEF CloseOf
    <2> QED
        BY <1>4, <2>3
<1>7. Schedule(V, z) = {SlotOf(g, s) : g \in {x \in V : OnCalendar(x, s)}}
    BY <1>3, ScheduleIs
<1> QED
    BY <1>4, <1>5, <1>6, <1>7

\* The invariant gives that outcomes are what a run ending at their exit says.
LEMMA OutcomesHold == ASSUME EvaluationInv PROVE OutcomesStand
<1> DEFINE G == FullSignals(test.signals)
           B == test.bars
           s == EvaluationSessions
<1> SUFFICES ASSUME engine # None, NEW e \in EngineEvents, NEW h \in Horizons,
                    e.returns[h].excess # None
             PROVE  \E f \in EventsOf(Run({x \in G : Availability(x) <= CloseOf(e.returns[h].exit)},
                                          {b \in B : b.date <= e.returns[h].exit})) :
                        f.signal = e.signal /\ f.entry = e.entry /\ f.returns[h] = e.returns[h]
    BY Zenon DEF OutcomesStand, EventsOf
<1>1. GoodSignals(G) /\ GoodBars(B) /\ Calendar(s)
    BY EngineFacts, SessionsFacts DEF EvaluationSessions
<1>2. PICK d \in UniqueOf(G, B).kept : e = Outcome(d, s, B)
    BY EngineFacts
<1> DEFINE S == Schedule(G, s)
           m == d.index + 1 + h
<1>3. d \in S /\ Dated(S) /\ d.index \in 1..Len(s) /\ Availability(d.signal) <= CloseOf(d.session)
    BY <1>1, <1>2, UniqueFacts, ScheduleFacts DEF EvaluationSessions
<1>4. /\ m \in 1..Len(s) /\ e.returns[h].exit = s[m]
      /\ BarOn(B, d.signal.ticker, s[d.index + 1]) # None
      /\ e.returns[h] = ForwardReturn(d.signal.ticker, d.index + 1, h, s, B)
    BY <1>1, <1>2, <1>3, OutcomeKnown
<1> DEFINE V == {x \in G : Availability(x) <= CloseOf(s[m])}
           C == {b \in B : b.date <= s[m]}
           z == Sessions(C)
           T == Schedule(V, z)
<1>5. GoodBars(C) /\ Len(z) = m /\ \A i \in 1..m : z[i] = s[i]
    BY <1>1, <1>4, CutSessions DEF EvaluationSessions
<1>6. GoodSignals(V)
    BY <1>1, FS_Subset DEF GoodSignals
<1>7. Calendar(z)
    BY <1>5, SessionsFacts
<1>8. h \in Nat /\ d.index \in Nat /\ d.index + 1 \in 1..m /\ d.index + 1 >= 1 /\ m <= Len(s) /\ d.index <= m
    BY <1>3, <1>4, CalendarAssumption
<1>9. /\ V = {x \in G : Availability(x) <= CloseOf(s[m])} /\ C = {b \in B : b.date <= s[m]}
      /\ m = d.index + 1 + h /\ T = Schedule(V, z) /\ S = Schedule(G, s)
      /\ S = Schedule(G, Sessions(B)) /\ z = Sessions(C)
    BY DEF EvaluationSessions
<1> HIDE DEF m, s, S, T, V, C, z, B, G
<1>10. T = {x \in S : x.index <= m}
    <2>1. ScheduleIsCut(G, s, z, m, V)
        BY CutSchedule
    <2>2. Schedule(V, z) = {x \in Schedule(G, s) : x.index <= m}
        BY <1>1, <1>4, <1>5, <1>7, <1>9, <2>1 DEF ScheduleIsCut
    <2> QED
        BY <1>9, <2>2, Zenon
<1>11. d \in UniqueOf(V, C).kept
    <2>1. ASSUME NEW x \in T, NEW y \in S, Earlier(y, x) PROVE y \in T
        <3>1. x \in S /\ x.index <= m
            BY <1>10
        <3>2. x.index \in Nat /\ y.index \in Nat /\ m \in Nat
            BY <1>3, <1>8, <1>9, <3>1 DEF Dated
        <3>3. y.index <= x.index
            BY <2>1, <3>2 DEF Earlier
        <3> QED
            BY <1>10, <3>1, <3>2, <3>3
    <2>2. T \in SUBSET S
        BY <1>10
    <2>3. Deduplicate(T).kept = Deduplicate(S).kept \cap T
        BY <1>3, <2>1, <2>2, CutKernel
    <2>4. d \in T
        BY <1>3, <1>8, <1>10
    <2>5. d \in Deduplicate(S).kept
        BY <1>2, <1>9 DEF UniqueOf
    <2> QED
        BY <1>9, <2>3, <2>4, <2>5 DEF UniqueOf
<1>12. /\ \A i \in 1..m : BarOn(C, d.signal.ticker, z[i]) = BarOn(B, d.signal.ticker, s[i])
       /\ ForwardReturn(d.signal.ticker, d.index + 1, h, z, C)
            = ForwardReturn(d.signal.ticker, d.index + 1, h, s, B)
    <2> DEFINE entry == d.index + 1
    <2>1. entry \in Nat /\ entry >= 1 /\ entry + h = Len(z) /\ Len(z) <= Len(s) /\ entry + h = m
        BY <1>5, <1>8, <1>9
    <2>2. \A i \in 1..Len(z) : z[i] = s[i]
        BY <1>5
    <2>3. \A b : b \in C <=> b \in B /\ b.date <= s[entry + h]
        BY <1>9, <2>1
    <2> HIDE DEF entry
    <2>4. /\ \A i \in 1..Len(z) : BarOn(C, d.signal.ticker, z[i]) = BarOn(B, d.signal.ticker, s[i])
          /\ ForwardReturn(d.signal.ticker, entry, h, z, C) = ForwardReturn(d.signal.ticker, entry, h, s, B)
        <3>1. ReturnIsCut(B, C, s, z, entry, h, d.signal.ticker)
            BY SameReturn
        <3> QED
            BY <1>1, <1>7, <1>8, <2>1, <2>2, <2>3, <3>1 DEF ReturnIsCut
    <2> QED
        BY <1>5, <2>4 DEF entry
<1> DEFINE f == Outcome(d, z, C)
<1>13. f \in EventsOf(Run(V, C))
    BY <1>5, <1>6, <1>9, <1>11, RunEvents, ZenonT(40)
<1>14. /\ f.signal = e.signal /\ f.entry = e.entry
       /\ f.returns[h] = ForwardReturn(d.signal.ticker, d.index + 1, h, z, C)
    <2>1. BarOn(C, d.signal.ticker, z[d.index + 1]) # None
        BY <1>4, <1>8, <1>12
    <2>2. ~(d.index + 1 > Len(z)) /\ ~(d.index + 1 > Len(s)) /\ z[d.index + 1] = s[d.index + 1]
        BY <1>5, <1>8, <1>4
    <2>3. f.returns = [k \in Horizons |-> ForwardReturn(d.signal.ticker, d.index + 1, k, z, C)]
        BY <2>1, <2>2 DEF Outcome
    <2>4. f.signal = d.signal /\ f.entry = z[d.index + 1]
        BY <2>2, OutcomeFields
    <2>5. e.signal = d.signal /\ e.entry = s[d.index + 1]
        BY <1>2, <2>2, OutcomeFields
    <2> HIDE DEF f
    <2> QED
        BY <2>2, <2>3, <2>4, <2>5
<1> HIDE DEF f
<1>15. \E x \in EventsOf(Run(V, C)) : x.signal = e.signal /\ x.entry = e.entry /\ x.returns[h] = e.returns[h]
    BY <1>4, <1>12, <1>13, <1>14
<1> QED
    BY <1>4, <1>9, <1>15 DEF G, B, s

-----------------------------------------------------------------------------
\* What is said of the backtests holds at all times.
LEMMA EvaluationInvariant == DailySpec => []EvaluationInv
<1>1. DailyInit => EvaluationInv
    BY EvaluationInvInit DEF DailyInit
<1>2. EvaluationInv /\ [DailyNext]_<<evaluationVars, dailyVars>> => EvaluationInv'
    BY EvaluationInvNext DEF DailyNext
<1> QED
    BY <1>1, <1>2, PTL DEF DailySpec

(* No number of a report looks ahead (engine.py, _event_index and _outcome).    *)
THEOREM TheBacktestIsBlind == DailySpec => []BacktestIsBlind
<1>1. EvaluationInv => BacktestIsBlind
    BY EnteredHolds, OutcomesHold, SealIsKept DEF BacktestIsBlind
<1> QED
    BY <1>1, EvaluationInvariant, PTL

(* Every exposure counts once, as long as it lasts, and only if it was seen     *)
(* (engine.py, _schedule_and_deduplicate).                                      *)
THEOREM EverythingCountsFairly == DailySpec => []CountedFairly
<1>1. EvaluationInv => CountedFairly
    BY DuplicatesHold, WholePathsHold DEF CountedFairly
<1> QED
    BY <1>1, EvaluationInvariant, PTL

-----------------------------------------------------------------------------
(***************************************************************************)
(* The manifest names the snapshot.                                        *)
(***************************************************************************)

\* The files of the runs.
FilesOK ==
    /\ DOMAIN inputs = Runs /\ DOMAIN snapshots = Runs /\ DOMAIN manifests = Runs
    /\ DOMAIN work = {"at", "run", "result"}
    /\ work # Idle => work.run \in Runs
    /\ work = Idle \/ work.at \in {"staged", "placed"}

ManifestInv == FilesOK /\ ManifestNamesSnapshot

\* There is no manifest to begin with.
LEMMA ManifestInit == DailyInit => ManifestInv
BY DEF DailyInit, ManifestInv, FilesOK, ManifestNamesSnapshot, Idle

\* Every step keeps the manifest the name of the snapshot of its run.
LEMMA ManifestNext == ManifestInv /\ [DailyNext]_<<evaluationVars, dailyVars>> => ManifestInv'
<1> SUFFICES ASSUME ManifestInv, [DailyNext]_<<evaluationVars, dailyVars>> PROVE ManifestInv'
    OBVIOUS
<1> USE DEF ManifestInv, FilesOK, ManifestNamesSnapshot
<1>1. CASE UNCHANGED <<inputs, work, snapshots, manifests>>
    BY <1>1
<1>2. CASE \E d \in Runs : Prepare(d)
    BY <1>2 DEF Prepare
<1>3. ASSUME NEW d \in Runs, Compute(d) PROVE ManifestInv'
    <2>1. work'.run = d /\ work'.at = "staged"
        BY <1>3 DEF Compute
    <2> QED
        BY <1>3, <2>1 DEF Compute
<1>4. CASE Place
    <2>1. work # Idle /\ work.run \in Runs
        BY <1>4 DEF Place, Idle
    <2>2. \/ work' = [work EXCEPT !.at = "placed"]
          \/ work' = Idle
        BY <1>4 DEF Place
    <2>3. FilesOK'
        BY <1>4, <2>1, <2>2 DEF Place, Idle
    <2>4. \A d \in Runs : snapshots[d] # None => snapshots'[d] = snapshots[d]
        BY <1>4 DEF Place
    <2> QED
        BY <1>4, <2>3, <2>4 DEF Place
<1>5. CASE PublishManifest
    BY <1>5 DEF PublishManifest, Idle
<1>6. CASE CrashRun
    BY <1>6 DEF CrashRun, Idle
<1> QED
    BY <1>1, <1>2, <1>3, <1>4, <1>5, <1>6
    DEF DailyNext, Operate, NextDay, Relock, dailyVars

\* What manifest.json lists is the snapshot of its run, byte for byte: crashes,
\* repeated runs and a changed lock never set them apart (pipeline/daily.py).
THEOREM ManifestsAreTrue == DailySpec => []ManifestNamesSnapshot
BY ManifestInit, ManifestNext, PTL DEF DailySpec, ManifestInv

(***************************************************************************)
(* No alert goes out without a sealed gate.                                *)
(***************************************************************************)

\* What one run's alerts need of the report it was told.
GoodAlerts(out, told) ==
    \A c \in DOMAIN out.scores : \A a \in out.scores[c].alerts : a.held = {} =>
        /\ told # None /\ told.stage = "sealed-oos"
        /\ told.gate.status = "PASS" /\ told.gate.eligible >= MinimumEvents
        /\ told.provenance = out.lock /\ out.dashboard.status = "VALIDATED"

\* A gate that failed holds back every alert of the run.
LEMMA FailedGateHolds ==
    ASSUME NEW q, NEW complete, q.passed = FALSE
    PROVE  QualityReasons(q, complete) # {}
<1>1. "QUALITY_GATE_FAILED" \in QualityReasons(q, complete)
    BY DEF QualityReasons
<1> QED
    BY <1>1

\* Every alert of an issuer carries the reasons of the run's quality.
LEMMA AlertsCarryReasons ==
    ASSUME NEW rows, NEW entries, NEW contexts, NEW issuer, NEW prior, NEW at, NEW q, NEW complete,
           NEW a \in IssuerResult(rows, entries, contexts, issuer, prior, at, q, complete).alerts
    PROVE  a.held = QualityReasons(q, complete)
<1>1. ASSUME NEW s, NEW b \in Candidates(issuer, s, q, complete)
      PROVE  b.held = QualityReasons(q, complete)
    BY <1>1 DEF Candidates
<1>2. ASSUME NEW facts, NEW new, NEW latest,
             NEW b \in Advanced(facts, new, latest, prior, issuer, q, complete).alerts
      PROVE  b.held = QualityReasons(q, complete)
    BY <1>1, <1>2 DEF Advanced
<1>3. ASSUME NEW c, NEW own, NEW company, NEW divergence, NEW technical,
             NEW b \in ResultOf(c, own, company, divergence, technical, prior, at, issuer, q, complete).alerts
      PROVE  b.held = QualityReasons(q, complete)
    BY <1>2, <1>3 DEF ResultOf, CompleteResult, Judged, Stale
<1> QED
    BY <1>3 DEF IssuerResult, Stale

\* An alert is held for the reasons of the quality report.
LEMMA ScoresCarryReasons ==
    ASSUME NEW rows, NEW contexts, NEW priors, NEW at, NEW q, NEW complete,
           NEW c \in DOMAIN DailyScores(rows, contexts, priors, at, q, complete),
           NEW a \in DailyScores(rows, contexts, priors, at, q, complete)[c].alerts
    PROVE  a.held = QualityReasons(q, complete)
BY AlertsCarryReasons DEF DailyScores

\* A quality passes only with the gate of a sealed report under the run's lock.
PassesByGate(quality, told, locked) ==
    quality.alert.passed # FALSE =>
        /\ quality.disposition = "PASS"
        /\ told # None /\ told.stage = "sealed-oos"
        /\ told.gate.status = "PASS" /\ told.gate.eligible >= MinimumEvents
        /\ told.provenance = locked

\* A quality that is not failed passes by the gate of a sealed report under the run's lock.
LEMMA PassNeedsGate ==
    ASSUME NEW in, NEW parse, NEW coverage, NEW fresh, NEW locked
    PROVE  PassesByGate(Assessed(in, parse, coverage, fresh, locked), in.report, locked)
<1> DEFINE quality == Assessed(in, parse, coverage, fresh, locked)
           operational == AtLeast(parse, 995) /\ AtLeast(coverage, 900) /\ AtLeast(in.core, 850) /\ fresh
           allowed == operational /\ locked.frozen
                     /\ Lineage(in.report, locked) /\ in.report.gate.status = "PASS"
<1> SUFFICES ASSUME quality.alert.passed # FALSE
             PROVE  /\ quality.disposition = "PASS"
                    /\ in.report # None /\ in.report.stage = "sealed-oos"
                    /\ in.report.gate.status = "PASS" /\ in.report.gate.eligible >= MinimumEvents
                    /\ in.report.provenance = locked
    BY DEF PassesByGate
<1>1. quality.alert.passed = allowed
    BY DEF Assessed
<1>2. quality.disposition = IF allowed THEN "PASS" ELSE IF operational THEN "DEGRADED" ELSE "BLOCKED"
    BY DEF Assessed
<1>3. allowed
    <2> HIDE DEF operational
    <2>1. allowed \in BOOLEAN
        OBVIOUS
    <2> HIDE DEF allowed, quality
    <2> QED
        BY <1>1, <2>1 DEF quality
<1> QED
    BY <1>2, <1>3 DEF Lineage

\* What a run puts out has alerts of the gate alone.
LEMMA OutputsGood ==
    ASSUME NEW in, NEW at, NEW locked
    PROVE  GoodAlerts(Outputs(in, at, locked), in.report)
<1>1. ASSUME NEW rows, NEW active, NEW tickers, NEW sectors, NEW entries, NEW contexts, NEW prior,
             NEW parse, NEW coverage, NEW fresh
      PROVE  GoodAlerts(Scored(rows, active, tickers, sectors, entries, contexts,
                               Assessed(in, parse, coverage, fresh, locked), prior, at, locked), in.report)
    <2> DEFINE quality == Assessed(in, parse, coverage, fresh, locked)
               scores == DailyScores(active, contexts, prior, at, quality.alert, locked.frozen)
               pulse == MarketPulse(entries, sectors, {"daily", "weekly"}, at)
               out == Bundle(rows, tickers, scores, entries, contexts, pulse, quality, locked)
    <2>1. out.scores = scores /\ out.lock = locked
        BY DEF Bundle
    <2>2. quality.disposition = "PASS" => out.dashboard.status = "VALIDATED"
        BY DEF Bundle, DashboardInput
    <2>3. ASSUME NEW c \in DOMAIN scores, NEW a \in scores[c].alerts, a.held = {}
          PROVE  quality.alert.passed # FALSE
        <3>1. a.held = QualityReasons(quality.alert, locked.frozen)
            BY ScoresCarryReasons
        <3> HIDE DEF quality, scores
        <3> QED
            BY <2>3, <3>1, FailedGateHolds
    <2>4. PassesByGate(quality, in.report, locked)
        BY PassNeedsGate
    <2>5. GoodAlerts(out, in.report)
        <3> HIDE DEF quality, scores, out
        <3> QED
            BY <2>1, <2>2, <2>3, <2>4 DEF GoodAlerts, PassesByGate
    <2> QED
        BY <2>5 DEF Scored
<1> QED
    BY <1>1 DEF Outputs, Mapped, OutputsOver, QualityOf

\* What a run computed is good by the report it was told, which is the one that
\* was written, after the sealed period was opened once at most.
GateInv ==
    /\ FilesOK
    /\ step \in {"start", "ran"} => opened = 0
    /\ step \in {"opened", "compared", "reported"} => opened = IF Sealed THEN 1 ELSE 0
    /\ \A d \in Runs : inputs[d] # None =>
          step \in {"reported", "refused"} /\ inputs[d].report \in {None, report}
    /\ work # Idle => inputs[work.run] # None /\ GoodAlerts(work.result, inputs[work.run].report)
    /\ \A d \in Runs : snapshots[d] # None =>
          inputs[d] # None /\ GoodAlerts(snapshots[d], inputs[d].report)

\* There is no alert to begin with.
LEMMA GateInit == DailyInit => GateInv
BY ManifestInit DEF DailyInit, EvaluationInit, GateInv, ManifestInv, Idle

\* An evaluation ends before a report is handed on, and opens the sealed period once.
LEMMA EvaluationGate ==
    ASSUME GateInv, Evaluate, UNCHANGED dailyVars
    PROVE  GateInv'
<1> USE DEF GateInv, dailyVars
<1>1. step \notin {"reported", "refused"} /\ test' = test
    BY DEF Evaluate, RunEngine, OpenSealed, RunFamilies, WriteReport
<1>2. \A d \in Runs : inputs[d] = None
    BY <1>1
<1>3. FilesOK' /\ Sealed' = Sealed
    BY <1>1 DEF FilesOK, Sealed
<1>4. /\ step' \in {"start", "ran"} => opened' = 0
      /\ step' \in {"opened", "compared", "reported"} => opened' = IF Sealed THEN 1 ELSE 0
    BY DEF Evaluate, RunEngine, OpenSealed, RunFamilies, WriteReport, Sealed
<1> QED
    BY <1>2, <1>3, <1>4 DEF Sealed

\* A report that is written and passed is of a complete evaluation of its stage.
LEMMA WrittenPasses ==
    ASSUME report = Written, report.stage = "sealed-oos", report.gate.status = "PASS"
    PROVE  Sealed /\ test.complete
<1>1. report.stage = test.stage
    BY DEF Written, Report
<1>2. PeriodShown = "oos" /\ Sealed
    BY <1>1 DEF Sealed, PeriodShown
<1>3. report.gate = GateOf(Groups, test.evidence, test.complete, test.lower)
    BY <1>2 DEF Written, Report
<1>4. ~test.complete => report.gate = [status |-> "FAIL", best |-> None, eligible |-> 0]
    BY <1>3 DEF GateOf
<1> QED
    BY <1>2, <1>4

\* Every step keeps every alert an alert of the gate.
LEMMA GateNext == GateInv /\ FilesOK' /\ [DailyNext]_<<evaluationVars, dailyVars>> => GateInv'
<1> SUFFICES ASSUME GateInv, FilesOK', [DailyNext]_<<evaluationVars, dailyVars>> PROVE GateInv'
    OBVIOUS
<1> USE DEF GateInv
<1>0. UNCHANGED evaluationVars => Sealed' = Sealed /\ UNCHANGED <<step, opened, report>>
    BY DEF evaluationVars, Sealed
<1>1. CASE Evaluate /\ UNCHANGED dailyVars
    BY <1>1, EvaluationGate
<1>2. CASE UNCHANGED <<evaluationVars, inputs, work, snapshots>>
    BY <1>2 DEF evaluationVars, Sealed
<1>3. ASSUME NEW d \in Runs, Prepare(d), UNCHANGED evaluationVars PROVE GateInv'
    <2>1. /\ work = Idle /\ inputs[d] = None /\ snapshots' = snapshots /\ work' = work
          /\ \A e \in Runs : e # d => inputs'[e] = inputs[e]
          /\ inputs'[d].report \in {None, report}
        <3>2. PICK prior \in {world.start} \union {snapshots[e].states : e \in {x \in Runs : x < d /\ snapshots[x] # None}},
                   told \in {None, report} : inputs' = [inputs EXCEPT ![d] =
                  [canonical |-> SeenRows(world.trades, CloseOf(d))
                                   \ {r \in SeenRows(world.trades, CloseOf(d)) : DayOf(r.known) = d},
                   batch |-> {r \in SeenRows(world.trades, CloseOf(d)) : DayOf(r.known) = d},
                   records |-> Cardinality(SeenRows(world.trades, CloseOf(d))),
                   ambiguous |-> FALSE, market |-> MarketFile(world.market, d, CloseOf(day)),
                   identities |-> {i \in world.identities : i.known <= CloseOf(d)},
                   fresh |-> world.fresh, core |-> world.core, prior |-> prior, report |-> told]]
            BY <1>3 DEF Prepare
        <3>3. inputs'[d].report = told
            BY <3>2 DEF FilesOK
        <3> QED
            BY <1>3, <3>2, <3>3 DEF Prepare, FilesOK
    <2>2. step \in {"reported", "refused"}
        BY <1>3 DEF Prepare, Evaluated
    <2> QED
        BY <1>0, <1>3, <2>1, <2>2
<1>4. ASSUME NEW d \in Runs, Compute(d), UNCHANGED evaluationVars PROVE GateInv'
    <2>1. /\ inputs[d] # None /\ inputs' = inputs /\ snapshots' = snapshots
          /\ work'.run = d /\ work'.result = Outputs(inputs[d], CloseOf(d), lock)
        BY <1>4 DEF Compute
    <2>2. GoodAlerts(Outputs(inputs[d], CloseOf(d), lock), inputs[d].report)
        BY <2>1, OutputsGood
    <2>3. inputs'[work'.run] # None /\ GoodAlerts(work'.result, inputs'[work'.run].report)
        BY <2>1, <2>2
    <2> QED
        BY <1>0, <1>4, <2>1, <2>3
<1>5. CASE Place /\ UNCHANGED evaluationVars
    <2>1. work # Idle /\ work.run \in Runs
        BY <1>5 DEF Place, Idle, FilesOK
    <2>2. \/ work'.run = work.run /\ work'.result = work.result
          \/ work' = Idle
        BY <1>5 DEF Place, FilesOK
    <2>3. /\ inputs' = inputs
          /\ \A d \in Runs : 
                 snapshots'[d] = snapshots[d] \/ (d = work.run /\ snapshots'[d] = work.result)
        BY <1>5 DEF Place, FilesOK
    <2> QED
        BY <1>0, <1>5, <2>1, <2>2, <2>3
<1>6. CASE PublishManifest /\ UNCHANGED evaluationVars
    BY <1>0, <1>6 DEF PublishManifest
<1>7. CASE CrashRun /\ UNCHANGED evaluationVars
    BY <1>0, <1>7 DEF CrashRun
<1> QED
    BY <1>1, <1>2, <1>3, <1>4, <1>5, <1>6, <1>7
    DEF DailyNext, Operate, NextDay, Relock, dailyVars

\* An alert goes out unheld only from a run that was told the report of a complete
\* evaluation which opened the sealed period once and passed its gate on enough
\* outcomes, under the run's own lock (daily.py:785, cli.py, the sealed boundary).
THEOREM AlertsAreGated == DailySpec => []AlertsNeedSealedGate
<1>1. DailyInit => GateInv /\ ManifestInv
    BY GateInit, ManifestInit
<1>2. GateInv /\ ManifestInv /\ [DailyNext]_<<evaluationVars, dailyVars>> => GateInv' /\ ManifestInv'
    BY ManifestNext, GateNext DEF ManifestInv
<1>3. GateInv /\ EvaluationInv => AlertsNeedSealedGate
    <2> SUFFICES ASSUME GateInv, EvaluationInv, NEW d \in Done,
                        NEW c \in DOMAIN snapshots[d].scores,
                        NEW a \in snapshots[d].scores[c].alerts, a.held = {}
                 PROVE  /\ report # None /\ inputs[d].report = report
                        /\ Sealed /\ opened = 1 /\ test.complete
                        /\ report.gate.status = "PASS" /\ report.gate.eligible >= MinimumEvents
                        /\ report.provenance = snapshots[d].lock
                        /\ snapshots[d].dashboard.status = "VALIDATED"
        BY DEF AlertsNeedSealedGate
    <2> DEFINE told == inputs[d].report
    <2>1. /\ told # None /\ told.stage = "sealed-oos"
          /\ told.gate.status = "PASS" /\ told.gate.eligible >= MinimumEvents
          /\ told.provenance = snapshots[d].lock
          /\ snapshots[d].dashboard.status = "VALIDATED"
        BY DEF GateInv, GoodAlerts, Done
    <2>2. report # None /\ told = report
        BY <2>1 DEF GateInv, Done
    <2>3. step = "reported" /\ report = Written
        BY <2>2 DEF EvaluationInv
    <2>4. Sealed /\ test.complete
        BY <2>1, <2>2, <2>3, WrittenPasses
    <2>5. opened = 1
        BY <2>3, <2>4 DEF GateInv
    <2> QED
        BY <2>1, <2>2, <2>4, <2>5
<1> QED
    BY <1>1, <1>2, <1>3, EvaluationInvariant, PTL DEF DailySpec

(***************************************************************************)
(* Sums over finite sets.                                                  *)
(***************************************************************************)
PickFrom(S) == CHOOSE x \in S : TRUE
Total(f, S) == MapThenSumSet(LAMBDA x : f[x], S)
SumFun(g, f, S) ==
    g = [s \in SUBSET S |-> IF s = {} THEN 0 ELSE f[PickFrom(s)] + g[s \ {PickFrom(s)}]]

\* Total is the value of its recursive function.
LEMMA TotalIs == \A f, S : Total(f, S) = (CHOOSE g : SumFun(g, f, S))[S]
BY DEF Total, MapThenSumSet, MapThenFoldSet, SumFun, PickFrom

\* A set and what is left of it without one member.
LEMMA OneLess ==
    ASSUME NEW S, IsFiniteSet(S), NEW x \in S
    PROVE  /\ IsFiniteSet(S \ {x}) /\ Cardinality(S) \in Nat /\ Cardinality(S \ {x}) \in Nat
           /\ Cardinality(S \ {x}) = Cardinality(S) - 1
BY FS_RemoveElement, FS_CardinalityType, FS_Subset

\* What is picked from a non-empty set is in it.
LEMMA PickIn == \A S : S # {} => PickFrom(S) \in S
BY DEF PickFrom

\* Of the sets for which a statement fails one is the smallest.
LEMMA SmallestExists ==
    ASSUME NEW W, W # {}, \A U \in W : IsFiniteSet(U)
    PROVE  \E U \in W : \A V \in W : Cardinality(U) <= Cardinality(V)
<1> DEFINE T == {Cardinality(U) : U \in W}
<1>1. T \subseteq Nat /\ T # {}
    BY FS_CardinalityType
<1>2. PICK m \in T : \A k \in T : m <= k
    BY <1>1, LeastExists
<1> QED
    BY <1>2

\* A finite set has a sum function, by the least size that would have none.
LEMMA SumFunExists ==
    ASSUME NEW f, NEW S, IsFiniteSet(S)
    PROVE  \E g : SumFun(g, f, S)
<1> DEFINE Upto(n) == {s \in SUBSET S : Cardinality(s) <= n}
           Step(g, s) == IF s = {} THEN 0 ELSE f[PickFrom(s)] + g[s \ {PickFrom(s)}]
           Good(g, n) == g = [s \in Upto(n) |-> Step(g, s)]
           T == {m \in Nat : ~\E g : Good(g, m)}
<1>1. \A s \in SUBSET S : IsFiniteSet(s) /\ Cardinality(s) \in Nat
    BY FS_Subset, FS_CardinalityType
<1>2. ASSUME NEW s \in SUBSET S, s # {}
      PROVE  s \ {PickFrom(s)} \in SUBSET S /\ Cardinality(s \ {PickFrom(s)}) = Cardinality(s) - 1
    BY <1>1, <1>2, PickIn, OneLess
<1>3. T = {}
    <2>1. SUFFICES ASSUME T # {} PROVE FALSE
        OBVIOUS
    <2>2. PICK m \in T : \A k \in T : m <= k
        <3> HIDE DEF Good
        <3> QED
            BY <2>1, LeastExists
    <2>3. CASE m = 0
        <3>1. \A s \in Upto(0) : s = {}
            BY <1>1, FS_EmptySet
        <3>2. Good([s \in Upto(0) |-> 0], 0)
            BY <3>1
        <3> QED
            BY <2>2, <2>3, <3>2
    <2>4. CASE m # 0
        <3>1. m - 1 \in Nat /\ m \in Nat /\ m - 1 \notin T
            <4>1. m \in Nat
                BY <2>2
            <4> HIDE DEF T
            <4> QED
                BY <2>2, <2>4, <4>1
        <3>2. PICK g : Good(g, m - 1)
            BY <3>1
        <3>3. PICK h : h = [s \in Upto(m) |-> IF s = {} THEN 0 ELSE f[PickFrom(s)] + g[s \ {PickFrom(s)}]]
            OBVIOUS
        <3>4. ASSUME NEW s \in Upto(m - 1) PROVE h[s] = g[s]
            <4>1. s \in Upto(m)
                BY <1>1, <3>1
            <4> QED
                BY <3>2, <3>3, <4>1
        <3>5. ASSUME NEW s \in Upto(m) PROVE h[s] = Step(h, s)
            <4>1. CASE s = {}
                BY <3>3, <4>1
            <4>2. CASE s # {}
                <5>1. s \ {PickFrom(s)} \in Upto(m - 1)
                    BY <1>1, <1>2, <3>1, <4>2
                <5>2. h[s \ {PickFrom(s)}] = g[s \ {PickFrom(s)}]
                    BY <3>4, <5>1
                <5> QED
                    BY <3>3, <4>2, <5>2
            <4> QED
                BY <4>1, <4>2
        <3>6. h = [s \in Upto(m) |-> h[s]]
            BY <3>3
        <3> HIDE DEF Upto, Step
        <3>7. Good(h, m)
            BY <3>5, <3>6
        <3> QED
            BY <2>2, <3>7
    <2> QED
        BY <2>3, <2>4
<1>4. Cardinality(S) \in Nat
    BY FS_CardinalityType
<1>5. PICK g : Good(g, Cardinality(S))
    <2> HIDE DEF Good
    <2> QED
        BY <1>3, <1>4
<1>6. Upto(Cardinality(S)) = SUBSET S
    BY FS_Subset
<1> QED
    BY <1>5, <1>6 DEF SumFun

\* The sum function of a set gives its subsets the sums of their own.
LEMMA SumFunAgrees ==
    ASSUME NEW f, NEW S, IsFiniteSet(S), NEW U \in SUBSET S,
           NEW g, NEW h, SumFun(g, f, S), SumFun(h, f, U)
    PROVE  g[U] = h[U]
<1> DEFINE W == {V \in SUBSET U : g[V] # h[V]}
<1>1. SUFFICES ASSUME W # {} PROVE FALSE
    OBVIOUS
<1>2. \A V \in SUBSET U : IsFiniteSet(V)
    BY FS_Subset
<1>3. PICK V \in W : \A X \in W : Cardinality(V) <= Cardinality(X)
    BY <1>1, <1>2, SmallestExists
<1>4. V # {}
    BY <1>3 DEF SumFun
<1>5. /\ V \ {PickFrom(V)} \in SUBSET U
      /\ Cardinality(V \ {PickFrom(V)}) < Cardinality(V)
      /\ ~(Cardinality(V) <= Cardinality(V \ {PickFrom(V)}))
    BY <1>2, <1>3, <1>4, PickIn, OneLess
<1>6. g[V \ {PickFrom(V)}] = h[V \ {PickFrom(V)}]
    BY <1>3, <1>5
<1>7. g[V] = f[PickFrom(V)] + g[V \ {PickFrom(V)}]
    BY <1>3, <1>4 DEF SumFun
<1>8. h[V] = f[PickFrom(V)] + h[V \ {PickFrom(V)}]
    BY <1>3, <1>4 DEF SumFun
<1> QED
    BY <1>3, <1>6, <1>7, <1>8

\* The total of a set is one picked value and the total of the rest.
LEMMA TotalStep ==
    ASSUME NEW f, NEW S, IsFiniteSet(S)
    PROVE  /\ S = {} => Total(f, S) = 0
           /\ S # {} => Total(f, S) = f[PickFrom(S)] + Total(f, S \ {PickFrom(S)})
<1> DEFINE g == CHOOSE h : SumFun(h, f, S)
<1>1. SumFun(g, f, S)
    BY SumFunExists
<1>2. Total(f, S) = g[S]
    BY TotalIs
<1> HIDE DEF g
<1>3. CASE S = {}
    BY <1>1, <1>2, <1>3 DEF SumFun
<1>4. CASE S # {}
    <2> DEFINE U == S \ {PickFrom(S)}
               h == CHOOSE k : SumFun(k, f, U)
    <2>1. U \in SUBSET S /\ IsFiniteSet(U)
        BY FS_Subset
    <2>2. SumFun(h, f, U)
        BY <2>1, SumFunExists
    <2>3. Total(f, U) = h[U]
        BY TotalIs
    <2> HIDE DEF h
    <2>4. g[U] = h[U]
        BY <1>1, <2>1, <2>2, SumFunAgrees
    <2>5. g[S] = f[PickFrom(S)] + g[U]
        BY <1>1, <1>4 DEF SumFun
    <2> QED
        BY <1>2, <1>4, <2>3, <2>4, <2>5
<1> QED
    BY <1>3, <1>4

\* A sum may leave out any member first.
SumsWell(f, U) ==
    /\ Total(f, U) \in Int
    /\ \A x \in U : Total(f, U) = f[x] + Total(f, U \ {x})

\* The total may be taken in any order.
LEMMA TotalAny ==
    ASSUME NEW f, NEW S, IsFiniteSet(S), \A x \in S : f[x] \in Int
    PROVE  SumsWell(f, S)
<1> DEFINE W == {U \in SUBSET S : ~SumsWell(f, U)}
<1>1. SUFFICES ASSUME W # {} PROVE FALSE
    BY DEF W
<1>2. \A U \in SUBSET S : IsFiniteSet(U)
    BY FS_Subset
<1>3. PICK U \in W : \A X \in W : Cardinality(U) <= Cardinality(X)
    BY <1>1, <1>2, SmallestExists
<1>4. ASSUME NEW x \in U
      PROVE  U \ {x} \in SUBSET S /\ SumsWell(f, U \ {x})
    <2>1. U \ {x} \in SUBSET S /\ ~(Cardinality(U) <= Cardinality(U \ {x}))
        BY <1>2, <1>3, OneLess
    <2> QED
        BY <1>3, <2>1
<1>5. U \in SUBSET S /\ IsFiniteSet(U)
    BY <1>2, <1>3
<1>6. CASE U = {}
    <2>1. Total(f, U) = 0
        BY <1>5, <1>6, TotalStep
    <2>2. SumsWell(f, U)
        BY <1>6, <2>1 DEF SumsWell
    <2> QED
        BY <1>3, <2>2
<1>7. CASE U # {}
    <2> DEFINE c == PickFrom(U)
    <2>1. c \in U /\ Total(f, U) = f[c] + Total(f, U \ {c})
        BY <1>5, <1>7, PickIn, TotalStep
    <2> HIDE DEF c
    <2>2. Total(f, U \ {c}) \in Int /\ f[c] \in Int
        BY <1>4, <1>5, <2>1 DEF SumsWell
    <2>3. Total(f, U) \in Int
        BY <2>1, <2>2
    <2>4. ASSUME NEW x \in U PROVE Total(f, U) = f[x] + Total(f, U \ {x})
        <3>1. CASE x = c
            BY <2>1, <3>1
        <3>2. CASE x # c
            <4>1. Total(f, U \ {c}) = f[x] + Total(f, (U \ {c}) \ {x})
                BY <1>4, <2>1, <3>2 DEF SumsWell
            <4>2. Total(f, U \ {x}) = f[c] + Total(f, (U \ {x}) \ {c})
                BY <1>4, <2>1, <3>2 DEF SumsWell
            <4>3. (U \ {c}) \ {x} = (U \ {x}) \ {c}
                OBVIOUS
            <4>4. (U \ {c}) \ {x} \in SUBSET S /\ f[x] \in Int /\ IsFiniteSet(U \ {c})
                BY <1>2, <1>5
            <4>5. SumsWell(f, (U \ {c}) \ {x})
                <5>1. /\ Cardinality(U) \in Nat /\ Cardinality(U \ {c}) \in Nat
                      /\ Cardinality(U \ {c}) = Cardinality(U) - 1
                    BY <1>5, <2>1, OneLess
                <5>2. x \in U \ {c}
                    BY <3>2
                <5>3. /\ Cardinality((U \ {c}) \ {x}) \in Nat
                      /\ Cardinality((U \ {c}) \ {x}) = Cardinality(U \ {c}) - 1
                    BY <4>4, <5>2, OneLess
                <5>4. ~(Cardinality(U) <= Cardinality((U \ {c}) \ {x}))
                    BY <5>1, <5>3
                <5> QED
                    BY <1>3, <4>4, <5>4
            <4>6. Total(f, (U \ {c}) \ {x}) \in Int
                BY <4>5 DEF SumsWell
            <4> DEFINE rest == Total(f, (U \ {c}) \ {x})
            <4>7. Total(f, U \ {x}) = f[c] + rest /\ Total(f, U \ {c}) = f[x] + rest /\ rest \in Int
                BY <4>1, <4>2, <4>3, <4>6
            <4>8. Total(f, U) = f[c] + Total(f, U \ {c}) /\ f[x] \in Int /\ f[c] \in Int
                BY <2>1, <2>2, <4>4
            <4> HIDE DEF rest
            <4> QED
                BY <4>7, <4>8
        <3> QED
            BY <3>1, <3>2
    <2> QED
        BY <1>3, <2>3, <2>4 DEF SumsWell
<1> QED
    BY <1>6, <1>7

\* A sum over the rows of some entries is a sum over the entries.
RowsIn(E) == {x.row : x \in E}
RowsDiffer(E) == \A x, y \in E : x.row = y.row => x = y

\* Without an entry, the rows are those of the others.
LEMMA RowsLess ==
    ASSUME NEW E, RowsDiffer(E), NEW x \in E
    PROVE  RowsIn(E \ {x}) = RowsIn(E) \ {x.row} /\ x.row \in RowsIn(E)
BY DEF RowsIn, RowsDiffer

\* Finitely many entries have finitely many rows.
LEMMA FiniteRows ==
    ASSUME NEW E, IsFiniteSet(E)
    PROVE  IsFiniteSet(RowsIn(E))
<1> DEFINE f == [x \in E |-> x.row]
<1>1. f \in Surjection(E, RowsIn(E))
    BY DEF Surjection, RowsIn
<1> QED
    BY <1>1, FS_Surjection

\* Entries with different rows are as many as their rows.
LEMMA SameCount ==
    ASSUME NEW E, IsFiniteSet(E), RowsDiffer(E)
    PROVE  Cardinality(E) = Cardinality(RowsIn(E))
<1> DEFINE f == [x \in E |-> x.row]
<1>1. f \in Bijection(E, RowsIn(E))
    <2>1. f \in [E -> RowsIn(E)]
        BY DEF RowsIn
    <2>2. \A x, y \in E : f[x] = f[y] => x = y
        BY DEF RowsDiffer
    <2>3. \A t \in RowsIn(E) : \E x \in E : f[x] = t
        BY DEF RowsIn
    <2> HIDE DEF f
    <2>4. f \in Injection(E, RowsIn(E))
        BY <2>1, <2>2, Fun_IsInj
    <2>5. f \in Surjection(E, RowsIn(E))
        BY <2>1, <2>3, Fun_IsSurj
    <2> QED
        BY <2>4, <2>5 DEF Bijection
<1> QED
    BY <1>1, FS_Bijection DEF ExistsBijection

\* Entries with different rows have the total of their rows.
LEMMA SameTotal ==
    ASSUME NEW E, IsFiniteSet(E), RowsDiffer(E), NEW f, NEW v,
           \A x \in E : f[x] = v[x.row] /\ f[x] \in Int
    PROVE  Total(f, E) = Total(v, RowsIn(E))
<1> DEFINE W == {U \in SUBSET E : Total(f, U) # Total(v, RowsIn(U))}
<1>1. SUFFICES ASSUME W # {} PROVE FALSE
    BY DEF W
<1>2. \A U \in SUBSET E : IsFiniteSet(U)
    BY FS_Subset
<1>3. PICK U \in W : \A X \in W : Cardinality(U) <= Cardinality(X)
    BY <1>1, <1>2, SmallestExists
<1>4. U \in SUBSET E /\ IsFiniteSet(U) /\ IsFiniteSet(RowsIn(U)) /\ RowsDiffer(U)
    BY <1>2, <1>3, FiniteRows DEF RowsDiffer
<1>5. CASE U = {}
    <2>1. RowsIn(U) = {}
        BY <1>5 DEF RowsIn
    <2>2. Total(f, U) = 0 /\ Total(v, RowsIn(U)) = 0
        BY <1>4, <1>5, <2>1, TotalStep
    <2> QED
        BY <1>3, <2>2
<1>6. CASE U # {}
    <2>1. PICK x : x \in U
        BY <1>6
    <2>2. Total(f, U) = f[x] + Total(f, U \ {x})
        BY <1>4, <2>1, TotalAny DEF SumsWell
    <2>3. \A r \in RowsIn(U) : v[r] \in Int
        BY <1>4 DEF RowsIn
    <2>4. Total(v, RowsIn(U)) = v[x.row] + Total(v, RowsIn(U) \ {x.row})
        <3>1. SumsWell(v, RowsIn(U))
            BY <1>4, <2>3, TotalAny
        <3>2. x.row \in RowsIn(U)
            BY <2>1 DEF RowsIn
        <3> QED
            BY <3>1, <3>2 DEF SumsWell
    <2>5. U \ {x} \in SUBSET E /\ ~(Cardinality(U) <= Cardinality(U \ {x}))
        <3>1. /\ Cardinality(U) \in Nat /\ Cardinality(U \ {x}) \in Nat
              /\ Cardinality(U \ {x}) = Cardinality(U) - 1
            BY <1>4, <2>1, OneLess
        <3> QED
            BY <1>4, <3>1
    <2>6. Total(f, U \ {x}) = Total(v, RowsIn(U \ {x}))
        BY <1>3, <2>5
    <2> QED
        BY <1>3, <1>4, <2>1, <2>2, <2>4, <2>6, RowsLess
<1> QED
    BY <1>5, <1>6

(***************************************************************************)
(* What a run of a day says is computed from what its day could see.       *)
(***************************************************************************)

\* The rows and the bars a run was given.
Prepares(w, in, d) ==
    /\ in.canonical \union in.batch = SeenRows(w.trades, CloseOf(d))
    /\ \E now : in.market = MarketFile(w.market, d, CloseOf(now))

\* What is computed of them, under one lock or another.
ComputedBy(out, in, d) == \E l : out = Outputs(in, CloseOf(d), l)

RunsInv ==
    /\ FilesOK /\ world \in Worlds
    /\ \A d \in Runs : inputs[d] # None => Prepares(world, inputs[d], d)
    /\ work # Idle => inputs[work.run] # None /\ ComputedBy(work.result, inputs[work.run], work.run)
    /\ \A d \in Runs : snapshots[d] # None =>
          inputs[d] # None /\ ComputedBy(snapshots[d], inputs[d], d)

\* No day was run to begin with.
LEMMA RunsInit == DailyInit => RunsInv
BY DEF DailyInit, RunsInv, FilesOK, Idle

\* Every step keeps what the snapshots say what their own inputs give.
LEMMA RunsNext == RunsInv /\ FilesOK' /\ [DailyNext]_<<evaluationVars, dailyVars>> => RunsInv'
<1> SUFFICES ASSUME RunsInv, FilesOK', [DailyNext]_<<evaluationVars, dailyVars>> PROVE RunsInv'
    OBVIOUS
<1> USE DEF RunsInv
<1>1. world' = world
    BY DEF DailyNext, Operate, NextDay, Prepare, Compute, Place, PublishManifest, CrashRun, Relock, dailyVars
<1>2. CASE UNCHANGED <<inputs, work, snapshots>>
    BY <1>1, <1>2
<1>3. ASSUME NEW d \in Runs, Prepare(d) PROVE RunsInv'
    <2>1. /\ work = Idle /\ inputs[d] = None /\ snapshots' = snapshots /\ work' = work
          /\ \A e \in Runs : e # d => inputs'[e] = inputs[e]
        BY <1>3 DEF Prepare, FilesOK
    <2>2. Prepares(world, inputs'[d], d)
        <3> DEFINE seen == SeenRows(world.trades, CloseOf(d))
        <3>1. PICK prior \in {world.start} \union {snapshots[e].states : e \in {x \in Runs : x < d /\ snapshots[x] # None}},
                   told \in {None, report} : inputs' = [inputs EXCEPT ![d] =
                  [canonical |-> seen \ {r \in seen : DayOf(r.known) = d},
                   batch |-> {r \in seen : DayOf(r.known) = d},
                   records |-> Cardinality(seen),
                   ambiguous |-> FALSE, market |-> MarketFile(world.market, d, CloseOf(day)),
                   identities |-> {i \in world.identities : i.known <= CloseOf(d)},
                   fresh |-> world.fresh, core |-> world.core, prior |-> prior, report |-> told]]
            BY <1>3 DEF Prepare
        <3> HIDE DEF seen
        <3>2. /\ inputs'[d].canonical = seen \ {r \in seen : DayOf(r.known) = d}
              /\ inputs'[d].batch = {r \in seen : DayOf(r.known) = d}
              /\ inputs'[d].market = MarketFile(world.market, d, CloseOf(day))
            BY <3>1 DEF FilesOK
        <3>3. inputs'[d].canonical \union inputs'[d].batch = seen
            BY <3>2
        <3> QED
            BY <3>2, <3>3 DEF Prepares, seen
    <2>3. \A e \in Runs : inputs'[e] # None => Prepares(world, inputs'[e], e)
        BY <1>1, <2>1, <2>2
    <2> QED
        BY <1>1, <2>1, <2>3
<1>4. ASSUME NEW d \in Runs, Compute(d) PROVE RunsInv'
    <2>1. /\ inputs[d] # None /\ inputs' = inputs /\ snapshots' = snapshots
          /\ work'.run = d /\ work'.result = Outputs(inputs[d], CloseOf(d), lock)
        BY <1>4 DEF Compute
    <2>2. ComputedBy(work'.result, inputs'[work'.run], work'.run)
        BY <2>1 DEF ComputedBy
    <2>3. \A e \in Runs : inputs'[e] # None => Prepares(world, inputs'[e], e)
        BY <1>1, <2>1
    <2> QED
        BY <1>1, <2>1, <2>2, <2>3
<1>5. CASE Place
    <2>1. work # Idle /\ work.run \in Runs
        BY <1>5 DEF Place, Idle, FilesOK
    <2>2. \/ work'.run = work.run /\ work'.result = work.result
          \/ work' = Idle
        BY <1>5 DEF Place, FilesOK
    <2>3. /\ inputs' = inputs
          /\ \A d \in Runs :
                 snapshots'[d] = snapshots[d] \/ (d = work.run /\ snapshots'[d] = work.result)
        BY <1>5 DEF Place, FilesOK
    <2>4. \A e \in Runs : inputs'[e] # None => Prepares(world, inputs'[e], e)
        BY <1>1, <2>3
    <2> QED
        BY <1>1, <2>1, <2>2, <2>3, <2>4
<1>6. CASE PublishManifest
    BY <1>1, <1>6 DEF PublishManifest, Prepares
<1>7. CASE CrashRun
    BY <1>1, <1>7 DEF CrashRun, Prepares
<1> QED
    BY <1>2, <1>3, <1>4, <1>5, <1>6, <1>7
    DEF DailyNext, Operate, NextDay, Relock, dailyVars

-----------------------------------------------------------------------------
(* Scores. *)

\* Rows as one run sees them, all valid and none superseded later.
GoodRows(R, at) ==
    /\ IsFiniteSet(R)
    /\ \A r \in R :
          /\ {r.id, r.owner, r.date, r.known} \subseteq Int
          /\ {r.from, r.to, r.accepted, r.value, r.shares, r.price} \subseteq Int \union {None}
          /\ r.known <= at /\ ~After(r.from, at) /\ (r.to = None \/ r.to <= at)
    /\ \A r, q \in R : r.id = q.id => r = q

\* A function of finite domain has finitely many values.
LEMMA FiniteImage ==
    ASSUME NEW f, IsFiniteSet(DOMAIN f)
    PROVE  IsFiniteSet({f[x] : x \in DOMAIN f})
<1>1. [x \in DOMAIN f |-> f[x]] \in Surjection(DOMAIN f, {f[x] : x \in DOMAIN f})
    BY DEF Surjection
<1> QED
    BY <1>1, FS_Surjection

\* The rows seen at an instant are known and valid by then.
LEMMA SeenFacts ==
    ASSUME NEW w \in Worlds, NEW at \in Int
    PROVE  GoodRows(SeenRows(w.trades, at), at)
<1> DEFINE K == {x \in w.trades : x.known <= at /\ ~After(x.from, at)}
           R == SeenRows(w.trades, at)
<1>1. R = {SeenAs(r, at) : r \in K}
    BY DEF SeenRows
<1>2. IsFiniteSet(K)
    BY WorldsAssumption, FS_Subset
<1>3. IsFiniteSet(R)
    <2> DEFINE f == [x \in K |-> SeenAs(x, at)]
    <2>1. DOMAIN f = K /\ R = {f[x] : x \in K}
        BY <1>1
    <2> HIDE DEF f, K, R
    <2> QED
        BY <1>2, <2>1, FiniteImage
<1>4. ASSUME NEW x \in K
      PROVE  LET r == SeenAs(x, at)
             IN  /\ r.id = x.id
                 /\ {r.id, r.owner, r.date, r.known} \subseteq Int
                 /\ {r.from, r.to, r.accepted, r.value, r.shares, r.price} \subseteq Int \union {None}
                 /\ r.known <= at /\ ~After(r.from, at) /\ (r.to = None \/ r.to <= at)
    <2> DEFINE r == SeenAs(x, at)
    <2>1. /\ {"id", "owner", "date", "known", "from", "to", "status", "accepted", "value", "shares", "price"}
                \subseteq DOMAIN x
          /\ {x.id, x.owner, x.date, x.known} \subseteq Int
          /\ {x.from, x.to, x.accepted, x.value, x.shares, x.price} \subseteq Int \union {None}
          /\ x.known <= at /\ ~After(x.from, at)
        BY WorldsAssumption
    <2>2. CASE After(x.to, at)
        <3>1. r = [x EXCEPT !.status = "ACTIVE", !.to = None]
            BY <2>2 DEF SeenAs
        <3>2. /\ r.id = x.id /\ r.owner = x.owner /\ r.date = x.date /\ r.known = x.known
              /\ r.from = x.from /\ r.to = None /\ r.accepted = x.accepted /\ r.value = x.value
              /\ r.shares = x.shares /\ r.price = x.price
            BY <2>1, <3>1
        <3> HIDE DEF r
        <3> QED
            BY <2>1, <3>2 DEF r
    <2>3. CASE ~After(x.to, at)
        <3>1. r = x
            BY <2>3 DEF SeenAs
        <3>2. x.to = None \/ x.to <= at
            BY <2>1, <2>3 DEF After
        <3> HIDE DEF r
        <3> QED
            BY <2>1, <3>1, <3>2 DEF r
    <2> QED
        BY <2>2, <2>3
<1>5. \A x, y \in K : x.id = y.id => x = y
    BY WorldsAssumption
<1> HIDE DEF K, R
<1>6. \A r \in R : \E x \in K : r = SeenAs(x, at)
    BY <1>1
<1>7. ASSUME NEW r \in R, NEW q \in R, r.id = q.id PROVE r = q
    <2>1. PICK x \in K : r = SeenAs(x, at)
        BY <1>6
    <2>2. PICK y \in K : q = SeenAs(y, at)
        BY <1>6
    <2>3. x = y
        BY <1>4, <1>5, <1>7, <2>1, <2>2
    <2> QED
        BY <2>1, <2>2, <2>3
<1> QED
    BY <1>3, <1>4, <1>6, <1>7 DEF GoodRows, R

\* What is effective among the rows of a run.
Now(R) == {r \in R : r.status = "ACTIVE" /\ r.to = None}

\* What is live at an instant is what is effective among the rows seen then.
LEMMA LiveIsNow ==
    ASSUME NEW R, NEW at \in Int, GoodRows(R, at)
    PROVE  /\ Live(R, at) = Now(R) /\ ActiveBuys(R, at) = {r \in Now(R) : IsBuy(r)}
           /\ {r \in Now(R) : IsActive(r)} = Now(R)
<1>1. \A r \in R : Effective(r, at) <=> r.status = "ACTIVE" /\ r.to = None
    BY CalendarAssumption DEF Effective, GoodRows
<1> QED
    BY <1>1 DEF Live, Now, ActiveBuys, IsActive

\* The order of the cluster context.
BuysBefore(p, q) == \/ p.date < q.date
                    \/ p.date = q.date /\ (p.owner < q.owner \/ (p.owner = q.owner /\ p.id < q.id))
FirstBuys(S) == {p \in S : \A q \in S \ {p} : BuysBefore(p, q)}
BuysOf(B, issuer) == {q \in B : q.issuer = issuer}
PickOne(S) == CHOOSE x \in S : TRUE

\* The cluster of an issuer is scored at its first purchase.
LEMMA ContextIsFirst ==
    ASSUME NEW B, NEW issuer
    PROVE  ClusterContext(B, issuer) =
             IF BuysOf(B, issuer) = {} THEN None
             ELSE ClusterScore(B, PickOne(FirstBuys(BuysOf(B, issuer))))
<1> DEFINE of == {r \in B : r.issuer = issuer}
           before(p, q) == \/ p.date < q.date
                           \/ p.date = q.date /\ (p.owner < q.owner \/ (p.owner = q.owner /\ p.id < q.id))
<1>1. ClusterContext(B, issuer) =
        IF of = {} THEN None ELSE ClusterScore(B, CHOOSE r \in of : \A q \in of \ {r} : before(r, q))
    BY Zenon DEF ClusterContext
<1>2. of = BuysOf(B, issuer)
    BY DEF BuysOf
<1>3. (CHOOSE r \in of : \A q \in of \ {r} : before(r, q)) = PickOne(FirstBuys(of))
    BY Zenon DEF PickOne, FirstBuys, BuysBefore
<1> QED
    BY <1>1, <1>2, <1>3

\* Of finitely many purchases one is the first.
LEMMA FirstExists ==
    ASSUME NEW S, IsFiniteSet(S), S # {},
           \A r \in S : r.date \in Int /\ r.owner \in Int /\ r.id \in Int,
           \A r, q \in S : r.id = q.id => r = q
    PROVE  FirstBuys(S) # {}
<1> DEFINE R == {p \in S \X S : BuysBefore(p[1], p[2])}
<1>1. StrictOrder(R, S)
    <2>1. \A x, y \in S : <<x, y>> \in R <=> BuysBefore(x, y)
        OBVIOUS
    <2> HIDE DEF R
    <2>2. \A x \in S : ~BuysBefore(x, x)
        BY DEF BuysBefore
    <2>3. \A x, y, z \in S : BuysBefore(x, y) /\ BuysBefore(y, z) => BuysBefore(x, z)
        BY DEF BuysBefore
    <2>4. \A x, y \in S : x = y \/ BuysBefore(x, y) \/ BuysBefore(y, x)
        BY DEF BuysBefore
    <2> QED
        BY <2>1, <2>2, <2>3, <2>4 DEF StrictOrder
<1>2. Cardinality(S) \in Nat /\ Cardinality(S) # 0
    BY FS_CardinalityType, FS_EmptySet
<1>3. PICK p \in S : RankIn(p, S, R) = 0
    <2>1. 0 \in 0..(Cardinality(S) - 1)
        BY <1>2
    <2> HIDE DEF R
    <2> QED
        BY <1>1, <2>1, RankOnto
<1>4. Below(p, S, R) = {}
    <2>1. IsFiniteSet(Below(p, S, R))
        BY FS_Subset DEF Below
    <2> QED
        BY <1>3, <2>1, FS_EmptySet DEF RankIn
<1>5. \A q \in S \ {p} : BuysBefore(p, q)
    BY <1>1, <1>4 DEF Below, StrictOrder
<1> QED
    BY <1>5 DEF FirstBuys

-----------------------------------------------------------------------------
(* What a run tells of a row depends on the rows up to it.                  *)

BuysIn(N) == {r \in N : IsBuy(r)}
Told(N, r) ==
    EntryWith(r,
        IF r \in BuysIn(N) THEN ClusterScore(BuysIn(N), r) ELSE None,
        IF r \in BuysIn(N) THEN Opportunistic(N, r) ELSE [score |-> None, first |-> FALSE],
        IF r \in BuysIn(N) THEN Conviction(N, r, ClusterContext(BuysIn(N), r.issuer), None, FALSE)
        ELSE [score |-> None, reasons |-> {}])

\* An enriched entry is its row and what the effective rows tell of it.
LEMMA EnrichedIs ==
    ASSUME NEW R, NEW at \in Int, GoodRows(R, at)
    PROVE  Enriched(R, at) = {Told(Now(R), r) : r \in R}
<1> DEFINE N == Now(R)
           B == BuysIn(N)
<1>1. Live(R, at) = N /\ ActiveBuys(R, at) = B /\ {r \in N : IsActive(r)} = N
    BY LiveIsNow DEF BuysIn
<1>2. Enriched(R, at) = EnrichedAmong(R, N, B)
    BY <1>1, Zenon DEF Enriched
<1>3. \A r : r \in N /\ IsBuy(r) <=> r \in B
    BY DEF BuysIn
<1>4. {x \in N : IsActive(x)} = N
    BY <1>1
<1> DEFINE Got(r) ==
              EntryWith(r,
                IF r \in B THEN ClusterScore(B, r) ELSE None,
                IF r \in B THEN Opportunistic({x \in N : IsActive(x)}, r)
                ELSE [score |-> None, first |-> FALSE],
                IF r \in N /\ IsBuy(r)
                THEN Conviction(N, r, ClusterContext(B, r.issuer), None, FALSE)
                ELSE [score |-> None, reasons |-> {}])
<1>5. ASSUME NEW r PROVE Got(r) = Told(N, r)
    <2> HIDE DEF N
    <2>1. CASE r \in BuysIn(N)
        BY <1>3, <1>4, <2>1, Zenon DEF Told
    <2>2. CASE r \notin BuysIn(N)
        BY <1>3, <1>4, <2>2, Zenon DEF Told
    <2> QED
        BY <2>1, <2>2
<1>6. Enriched(R, at) = {Got(r) : r \in R}
    BY <1>2, Zenon DEF EnrichedAmong
<1> HIDE DEF N, B, Got
<1>7. {Got(r) : r \in R} = {Told(N, r) : r \in R}
    BY <1>5
<1> QED
    BY <1>6, <1>7 DEF N

\* The shares that the latest of some earlier trades leaves.
PostOf(P) ==
    LET said == {q \in P : q.post # None}
        latest == {q \in said : \A p \in said : p.date <= q.date}
    IN  IF said = {} THEN None ELSE (CHOOSE q \in latest : \A p \in latest : q.id <= p.id).post

\* The holding before a trade is that of the owner's own past.
LEMMA PostIs == \A N, r : PreviousPost(N, r) = PostOf(OwnPast(N, r))
BY Zenon DEF PreviousPost, PostOf

KnownOf(R, r) == {q \in R : q.issuer = r.issuer /\ q.date <= r.date}

\* Two sets of rows that knew the same at a trade hold the same past of it.
LEMMA SamePast ==
    ASSUME NEW R, NEW Q, NEW at \in Int, NEW bt \in Int, GoodRows(R, at), GoodRows(Q, bt),
           NEW r \in R, KnownOf(R, r) = KnownOf(Q, r)
    PROVE  /\ OwnPast(Now(R), r) = OwnPast(Now(Q), r)
           /\ PastBuys(Now(R), r) = PastBuys(Now(Q), r)
           /\ ClusterOwners(BuysIn(Now(R)), r) = ClusterOwners(BuysIn(Now(Q)), r)
<1>1. /\ r.date \in Int
      /\ \A q \in R \union Q : q.date \in Int
    BY DEF GoodRows
<1>2. \A q : q.date \in Int /\ q.issuer = r.issuer /\ q.date <= r.date => (q \in R <=> q \in Q)
    BY DEF KnownOf
<1>3. \A q : q \in OwnPast(Now(R), r) <=> q \in OwnPast(Now(Q), r)
    BY <1>1, <1>2 DEF OwnPast, Now
<1>4. OwnPast(Now(R), r) = OwnPast(Now(Q), r)
    BY <1>3
<1>5. PastBuys(Now(R), r) = PastBuys(Now(Q), r)
    BY <1>4, Zenon DEF PastBuys
<1>6. {p \in BuysIn(Now(R)) : p.issuer = r.issuer /\ p.date \in (r.date - ClusterDays)..r.date}
        = {p \in BuysIn(Now(Q)) : p.issuer = r.issuer /\ p.date \in (r.date - ClusterDays)..r.date}
    BY <1>1, <1>2, DaysAssumption DEF BuysIn, Now
<1>7. ClusterOwners(BuysIn(Now(R)), r) = ClusterOwners(BuysIn(Now(Q)), r)
    BY <1>6, Zenon DEF ClusterOwners
<1> QED
    BY <1>4, <1>5, <1>7

\* The purchases up to a purchase decide which one is the first.
LEMMA FirstStays ==
    ASSUME NEW R, NEW Q, NEW at \in Int, NEW bt \in Int, GoodRows(R, at), GoodRows(Q, bt),
           NEW r \in BuysIn(Now(R)), KnownOf(R, r) = KnownOf(Q, r),
           NEW p \in FirstBuys(BuysOf(BuysIn(Now(R)), r.issuer))
    PROVE  /\ p \in FirstBuys(BuysOf(BuysIn(Now(Q)), r.issuer))
           /\ p \in R /\ p.date <= r.date /\ p.issuer = r.issuer
<1>1. /\ r \in R /\ p \in R /\ p.issuer = r.issuer /\ r.date \in Int /\ p.date \in Int
      /\ \A q \in R \union Q : q.date \in Int
      /\ r \in BuysOf(BuysIn(Now(R)), r.issuer)
      /\ p \in BuysOf(BuysIn(Now(R)), r.issuer)
    BY DEF GoodRows, FirstBuys, BuysOf, BuysIn, Now
<1>2. p.date <= r.date
    BY <1>1 DEF FirstBuys, BuysBefore
<1>3. \A q : q.date \in Int /\ q.issuer = r.issuer /\ q.date <= r.date => (q \in R <=> q \in Q)
    BY DEF KnownOf
<1>4. p \in BuysOf(BuysIn(Now(Q)), r.issuer)
    BY <1>1, <1>2, <1>3 DEF BuysOf, BuysIn, Now
<1>5. ASSUME NEW q \in BuysOf(BuysIn(Now(Q)), r.issuer) \ {p} PROVE BuysBefore(p, q)
    <2>1. q \in Q /\ q.issuer = r.issuer /\ q.date \in Int
        BY <1>1 DEF BuysOf, BuysIn, Now
    <2>2. CASE q.date <= r.date
        <3>1. q \in BuysOf(BuysIn(Now(R)), r.issuer)
            BY <1>3, <2>1, <2>2 DEF BuysOf, BuysIn, Now
        <3> QED
            BY <3>1 DEF FirstBuys
    <2>3. CASE q.date > r.date
        BY <1>1, <1>2, <2>1, <2>3 DEF BuysBefore
    <2> QED
        BY <1>1, <2>1, <2>2, <2>3
<1> QED
    BY <1>1, <1>2, <1>4, <1>5 DEF FirstBuys

\* Two sets of rows that knew the same at a purchase give its issuer the same cluster.
LEMMA SameContext ==
    ASSUME NEW R, NEW Q, NEW at \in Int, NEW bt \in Int, GoodRows(R, at), GoodRows(Q, bt),
           NEW r \in BuysIn(Now(R)), KnownOf(R, r) = KnownOf(Q, r)
    PROVE  ClusterContext(BuysIn(Now(R)), r.issuer) = ClusterContext(BuysIn(Now(Q)), r.issuer)
<1> DEFINE A == BuysOf(BuysIn(Now(R)), r.issuer)
           C == BuysOf(BuysIn(Now(Q)), r.issuer)
<1>1. r \in R /\ r.date \in Int
    BY DEF GoodRows, BuysIn, Now
<1>2. r \in Q /\ r \in BuysIn(Now(Q)) /\ KnownOf(Q, r) = KnownOf(R, r)
    BY <1>1 DEF KnownOf, BuysIn, Now
<1>3. r \in A /\ r \in C
    BY <1>2 DEF BuysOf
<1>4. FirstBuys(A) \subseteq FirstBuys(C)
    BY FirstStays
<1>5. FirstBuys(C) \subseteq FirstBuys(A)
    BY <1>2, FirstStays
<1>6. FirstBuys(A) # {}
    <2>1. A \subseteq R /\ IsFiniteSet(A)
        BY FS_Subset DEF GoodRows, BuysOf, BuysIn, Now
    <2>2. /\ \A q \in A : q.date \in Int /\ q.owner \in Int /\ q.id \in Int
          /\ \A p, q \in A : p.id = q.id => p = q
        BY <2>1 DEF GoodRows
    <2> HIDE DEF A
    <2> QED
        BY <1>3, <2>1, <2>2, FirstExists
<1> DEFINE p == PickOne(FirstBuys(A))
<1>7. p \in FirstBuys(A)
    BY <1>6, Zenon DEF PickOne
<1>8. p \in R /\ p.date <= r.date /\ p.issuer = r.issuer /\ p.date \in Int
    <2> HIDE DEF p
    <2> QED
        BY <1>7, FirstStays DEF GoodRows
<1>9. KnownOf(R, p) = KnownOf(Q, p)
    <2> HIDE DEF p
    <2>1. \A q \in R \union Q : q.date \in Int
        BY DEF GoodRows
    <2> QED
        BY <1>1, <1>8, <2>1 DEF KnownOf
<1>10. ClusterOwners(BuysIn(Now(R)), p) = ClusterOwners(BuysIn(Now(Q)), p)
    <2> HIDE DEF p
    <2> QED
        BY <1>8, <1>9, SamePast
<1>11. ClusterScore(BuysIn(Now(R)), p) = ClusterScore(BuysIn(Now(Q)), p)
    BY <1>10, Zenon DEF ClusterScore
<1>12. FirstBuys(A) = FirstBuys(C)
    BY <1>4, <1>5
<1>13. A # {} /\ C # {}
    BY <1>3
<1> HIDE DEF A, C
<1> QED
    BY <1>11, <1>12, <1>13, ContextIsFirst, Zenon DEF A, C

\* Two sets of rows that knew the same at a trade tell the same of it.
LEMMA TellsTheSame ==
    ASSUME NEW R, NEW Q, NEW at \in Int, NEW bt \in Int, GoodRows(R, at), GoodRows(Q, bt),
           NEW r \in R, KnownOf(R, r) = KnownOf(Q, r)
    PROVE  Told(Now(R), r) = Told(Now(Q), r)
<1>1. r.date \in Int /\ r \in KnownOf(R, r)
    BY DEF GoodRows, KnownOf
<1>2. r \in Q
    BY <1>1 DEF KnownOf
<1>3. r \in BuysIn(Now(R)) <=> r \in BuysIn(Now(Q))
    BY <1>2 DEF BuysIn, Now
<1>4. CASE r \notin BuysIn(Now(R))
    BY <1>3, <1>4, Zenon DEF Told
<1>5. CASE r \in BuysIn(Now(R))
    <2>1. /\ OwnPast(Now(R), r) = OwnPast(Now(Q), r)
          /\ PastBuys(Now(R), r) = PastBuys(Now(Q), r)
          /\ ClusterOwners(BuysIn(Now(R)), r) = ClusterOwners(BuysIn(Now(Q)), r)
        BY SamePast
    <2>2. ClusterScore(BuysIn(Now(R)), r) = ClusterScore(BuysIn(Now(Q)), r)
        BY <2>1, Zenon DEF ClusterScore
    <2>3. Opportunistic(Now(R), r) = Opportunistic(Now(Q), r)
        BY <2>1, ZenonT(60) DEF Opportunistic
    <2>4. PreviousPost(Now(R), r) = PreviousPost(Now(Q), r)
        BY <2>1, PostIs, Zenon
    <2>5. ClusterContext(BuysIn(Now(R)), r.issuer) = ClusterContext(BuysIn(Now(Q)), r.issuer)
        BY <1>5, SameContext
    <2>6. Conviction(Now(R), r, ClusterContext(BuysIn(Now(R)), r.issuer), None, FALSE)
            = Conviction(Now(Q), r, ClusterContext(BuysIn(Now(Q)), r.issuer), None, FALSE)
        BY <2>1, <2>4, <2>5, ZenonT(60) DEF Conviction
    <2> QED
        BY <1>3, <1>5, <2>2, <2>3, <2>6, Zenon DEF Told
<1> QED
    BY <1>4, <1>5

-----------------------------------------------------------------------------
(* The parts of a snapshot.                                                 *)

SectorsAt(in, at) == SectorOf(in.identities, TickerOf(in.identities, at), at)

\* What a run puts out, in its parts.
LEMMA OutputParts ==
    ASSUME NEW in, NEW at, NEW l
    PROVE  LET rows == in.canonical \union in.batch
               out == Outputs(in, at, l)
           IN  /\ out.entries = Enriched(rows, at)
               /\ out.contexts = Contexts(in.market, TickerOf(in.identities, at), SectorsAt(in, at), at)
               /\ out.pulse = MarketPulse(Enriched(rows, at), SectorsAt(in, at), {"daily", "weekly"}, at)
<1> DEFINE rows == in.canonical \union in.batch
           tickers == TickerOf(in.identities, at)
           sectors == SectorsAt(in, at)
           quality == QualityOf(in, {r.issuer : r \in {x \in rows : IsQualified(x, at)}}, tickers, sectors, at, l)
           scores == DailyScores({r \in rows : r.issuer \in {q.issuer : q \in {x \in rows : IsQualified(x, at)}}},
                                 Contexts(in.market, tickers, sectors, at), in.prior, at, quality.alert, l.frozen)
<1>1. Outputs(in, at, l) =
        Bundle(rows, tickers, scores, Enriched(rows, at), Contexts(in.market, tickers, sectors, at),
               MarketPulse(Enriched(rows, at), sectors, {"daily", "weekly"}, at), quality, l)
    BY Zenon DEF Outputs, Mapped, OutputsOver, Scored, SectorsAt
<1> HIDE DEF rows, tickers, sectors, quality, scores
<1>2. ASSUME NEW entries, NEW contexts, NEW pulse
      PROVE  LET out == Bundle(rows, tickers, scores, entries, contexts, pulse, quality, l)
             IN  out.entries = entries /\ out.contexts = contexts /\ out.pulse = pulse
    BY DEF Bundle
<1>3. LET out == Outputs(in, at, l)
      IN  /\ out.entries = Enriched(rows, at)
          /\ out.contexts = Contexts(in.market, tickers, sectors, at)
          /\ out.pulse = MarketPulse(Enriched(rows, at), sectors, {"daily", "weekly"}, at)
    <2> DEFINE E == Enriched(rows, at)
               C == Contexts(in.market, tickers, sectors, at)
               P == MarketPulse(Enriched(rows, at), sectors, {"daily", "weekly"}, at)
    <2>1. Outputs(in, at, l) = Bundle(rows, tickers, scores, E, C, P, quality, l)
        BY <1>1
    <2> HIDE DEF E, C, P
    <2>2. LET out == Bundle(rows, tickers, scores, E, C, P, quality, l)
          IN  out.entries = E /\ out.contexts = C /\ out.pulse = P
        BY <1>2
    <2> QED
        BY <2>1, <2>2, Zenon DEF E, C, P
<1> QED
    BY <1>3 DEF rows, tickers, sectors

RowsOf(w, d) == SeenRows(w.trades, CloseOf(d))
Tells(R, r) == Told(Now(R), r)

\* A snapshot says what the rows, the market file and the identities of its day give.
LEMMA RunFacts ==
    ASSUME RunsInv, NEW d \in Done
    PROVE  /\ d \in Nat /\ CloseOf(d) \in Int /\ DayOf(CloseOf(d)) = d
           /\ GoodRows(RowsOf(world, d), CloseOf(d))
           /\ snapshots[d].entries = {Tells(RowsOf(world, d), r) : r \in RowsOf(world, d)}
           /\ snapshots[d].contexts = Contexts(inputs[d].market, TickerOf(inputs[d].identities, CloseOf(d)),
                                              SectorsAt(inputs[d], CloseOf(d)), CloseOf(d))
           /\ snapshots[d].pulse = MarketPulse(snapshots[d].entries, SectorsAt(inputs[d], CloseOf(d)),
                                              {"daily", "weekly"}, CloseOf(d))
           /\ \E now : inputs[d].market = MarketFile(world.market, d, CloseOf(now))
<1>1. d \in Runs /\ snapshots[d] # None
    BY DEF Done
<1>2. d \in Nat /\ CloseOf(d) \in Int /\ DayOf(CloseOf(d)) = d
    BY <1>1, DaysAssumption DEF Runs, CloseOf, DayOf
<1>3. /\ world \in Worlds /\ Prepares(world, inputs[d], d)
      /\ ComputedBy(snapshots[d], inputs[d], d)
    BY <1>1 DEF RunsInv
<1>4. GoodRows(RowsOf(world, d), CloseOf(d))
    BY <1>2, <1>3, SeenFacts DEF RowsOf
<1>5. PICK l : snapshots[d] = Outputs(inputs[d], CloseOf(d), l)
    BY <1>3 DEF ComputedBy
<1>6. /\ inputs[d].canonical \union inputs[d].batch = RowsOf(world, d)
      /\ \E now : inputs[d].market = MarketFile(world.market, d, CloseOf(now))
    BY <1>3 DEF Prepares, RowsOf
<1>7. /\ snapshots[d].entries = Enriched(RowsOf(world, d), CloseOf(d))
      /\ snapshots[d].contexts = Contexts(inputs[d].market, TickerOf(inputs[d].identities, CloseOf(d)),
                                         SectorsAt(inputs[d], CloseOf(d)), CloseOf(d))
      /\ snapshots[d].pulse = MarketPulse(Enriched(RowsOf(world, d), CloseOf(d)), SectorsAt(inputs[d], CloseOf(d)),
                                         {"daily", "weekly"}, CloseOf(d))
    <2> DEFINE in == inputs[d]
               at == CloseOf(d)
               out == Outputs(in, at, l)
    <2>1. /\ out.entries = Enriched(in.canonical \union in.batch, at)
          /\ out.contexts = Contexts(in.market, TickerOf(in.identities, at), SectorsAt(in, at), at)
          /\ out.pulse = MarketPulse(Enriched(in.canonical \union in.batch, at), SectorsAt(in, at),
                                     {"daily", "weekly"}, at)
        <3> HIDE DEF in, at
        <3> QED
            BY OutputParts
    <2> QED
        BY <1>5, <1>6, <2>1, Zenon
<1>8. Enriched(RowsOf(world, d), CloseOf(d)) = {Tells(RowsOf(world, d), r) : r \in RowsOf(world, d)}
    BY <1>2, <1>4, EnrichedIs, Zenon DEF Tells
<1> QED
    BY <1>2, <1>4, <1>6, <1>7, <1>8

\* What is told of a row is of that row.
LEMMA TellsOfRow == \A R, r : Tells(R, r).row = r
BY DEF Tells, Told, EntryWith

\* The invariant gives that scores do not move with what is learnt later.
LEMMA ScoresHold == ASSUME RunsInv PROVE ScoresStand
<1> SUFFICES ASSUME NEW d \in Done, NEW e \in Done, NEW x \in snapshots[d].entries,
                    NEW y \in EntryOf(e, x.row.id),
                    {z.row : z \in {w \in snapshots[d].entries : w.row.issuer = x.row.issuer /\ w.row.date <= x.row.date}}
                      = {z.row : z \in {w \in snapshots[e].entries : w.row.issuer = x.row.issuer /\ w.row.date <= x.row.date}}
             PROVE  x = y
    BY DEF ScoresStand
<1> DEFINE R == RowsOf(world, d)
           Q == RowsOf(world, e)
<1>1. /\ GoodRows(R, CloseOf(d)) /\ CloseOf(d) \in Int
      /\ GoodRows(Q, CloseOf(e)) /\ CloseOf(e) \in Int
      /\ snapshots[d].entries = {Tells(R, r) : r \in R}
      /\ snapshots[e].entries = {Tells(Q, r) : r \in Q}
    BY RunFacts
<1> HIDE DEF R, Q
<1>2. PICK r \in R : x = Tells(R, r)
    BY <1>1
<1>3. x.row = r
    BY <1>2, TellsOfRow
<1>4. PICK q \in Q : y = Tells(Q, q) /\ y \in snapshots[e].entries /\ y.row.id = r.id
    BY <1>1, <1>3 DEF EntryOf
<1>5. \A S : {z.row : z \in {w \in {Tells(S, p) : p \in S} : w.row.issuer = r.issuer /\ w.row.date <= r.date}}
                = KnownOf(S, r)
    BY TellsOfRow DEF KnownOf
<1>6. KnownOf(R, r) = KnownOf(Q, r)
    BY <1>1, <1>3, <1>5
<1>7. r \in KnownOf(R, r)
    BY <1>1 DEF KnownOf, GoodRows
<1>8. r \in Q /\ q = r
    BY <1>1, <1>4, <1>6, <1>7, TellsOfRow DEF KnownOf, GoodRows
<1> QED
    BY <1>1, <1>2, <1>4, <1>6, <1>8, TellsTheSame, Zenon DEF Tells

-----------------------------------------------------------------------------
(* The ratios of a period, all but that of convictions, are of its rows.    *)

InPeriod(E, p) == {e \in E : e.row.date \in p.first..p.last}
SideIn(T, side) == {r \in T : SideOf(r) = side}
DollarsIn(r) == Points(DollarsOf(r) # None, DollarsOf(r))
SharesIn(r) == Points(r.shares # None, r.shares)
DollarsOver(T) == Total([r \in T |-> DollarsIn(r)], T)
SharesOver(T) == Total([r \in T |-> SharesIn(r)], T)
OwnersIn(T) == {r.owner : r \in T} \ {0}
IssuersIn(T) == {r.issuer : r \in T}
WeighedIn(e) == DollarsIn(e.row) * (IF e.conviction = None THEN 1 ELSE e.conviction)

\* The entries of one side, in a period.
Taken(E, p, side) == {e \in InPeriod(E, p) : SideOf(e.row) = side}

\* The ratios of a period compare its purchases with its sales.
LEMMA AggregateIs ==
    ASSUME NEW E, NEW p
    PROVE  Aggregate(E, p) =
            [transactions |-> PulseRatio(Cardinality(Taken(E, p, "P")), Cardinality(Taken(E, p, "S"))),
             insiders |-> PulseRatio(Cardinality({e.row.owner : e \in Taken(E, p, "P")} \ {0}),
                                     Cardinality({e.row.owner : e \in Taken(E, p, "S")} \ {0})),
             dollars |-> PulseRatio(MapThenSumSet(LAMBDA e : DollarsIn(e.row), Taken(E, p, "P")),
                                    MapThenSumSet(LAMBDA e : DollarsIn(e.row), Taken(E, p, "S"))),
             volume |-> PulseRatio(MapThenSumSet(LAMBDA e : SharesIn(e.row), Taken(E, p, "P")),
                                   MapThenSumSet(LAMBDA e : SharesIn(e.row), Taken(E, p, "S"))),
             breadth |-> PulseRatio(Cardinality({e.row.issuer : e \in Taken(E, p, "P")}),
                                    Cardinality({e.row.issuer : e \in Taken(E, p, "S")})),
             conviction |-> PulseRatio(MapThenSumSet(LAMBDA e : WeighedIn(e), Taken(E, p, "P")),
                                       MapThenSumSet(LAMBDA e : WeighedIn(e), Taken(E, p, "S")))]
BY Zenon DEF Aggregate, Taken, InPeriod, DollarsIn, SharesIn, WeighedIn

\* A sum over entries is a total.
LEMMA MappedSum ==
    ASSUME NEW S
    PROVE  /\ MapThenSumSet(LAMBDA e : DollarsIn(e.row), S) = Total([e \in S |-> DollarsIn(e.row)], S)
           /\ MapThenSumSet(LAMBDA e : SharesIn(e.row), S) = Total([e \in S |-> SharesIn(e.row)], S)
<1>1. MapThenSumSet(LAMBDA e : DollarsIn(e.row), S) = Total([e \in S |-> DollarsIn(e.row)], S)
    BY DEF MapThenSumSet, MapThenFoldSet, Total
<1>2. MapThenSumSet(LAMBDA e : SharesIn(e.row), S) = Total([e \in S |-> SharesIn(e.row)], S)
    BY DEF MapThenSumSet, MapThenFoldSet, Total
<1> QED
    BY <1>1, <1>2

\* What may be summed: a row's dollars and shares are numbers.
Amounts(r) == {r.value, r.shares, r.price} \subseteq Int \union {None}

\* The dollars and shares of a row are integers.
LEMMA AmountsAdd ==
    ASSUME NEW r, Amounts(r)
    PROVE  DollarsIn(r) \in Int /\ SharesIn(r) \in Int
<1>1. DollarsOf(r) \in Int \union {None}
    BY DEF DollarsOf, Amounts
<1> QED
    BY <1>1 DEF DollarsIn, SharesIn, Points, Amounts

\* Entries with different rows have the counts and sums of their rows.
LEMMA SameSums ==
    ASSUME NEW E, IsFiniteSet(E), RowsDiffer(E), \A x \in E : Amounts(x.row)
    PROVE  /\ Cardinality(E) = Cardinality(RowsIn(E))
           /\ MapThenSumSet(LAMBDA e : DollarsIn(e.row), E) = DollarsOver(RowsIn(E))
           /\ MapThenSumSet(LAMBDA e : SharesIn(e.row), E) = SharesOver(RowsIn(E))
           /\ {e.row.owner : e \in E} \ {0} = OwnersIn(RowsIn(E))
           /\ {e.row.issuer : e \in E} = IssuersIn(RowsIn(E))
<1>1. Cardinality(E) = Cardinality(RowsIn(E))
    BY SameCount
<1>2. Total([e \in E |-> DollarsIn(e.row)], E) = DollarsOver(RowsIn(E))
    <2> DEFINE f == [e \in E |-> DollarsIn(e.row)]
               v == [r \in RowsIn(E) |-> DollarsIn(r)]
    <2>1. \A x \in E : f[x] = v[x.row] /\ f[x] \in Int
        BY AmountsAdd DEF RowsIn
    <2> HIDE DEF f, v
    <2>2. Total(f, E) = Total(v, RowsIn(E))
        BY <2>1, SameTotal
    <2> QED
        BY <2>2 DEF f, v, DollarsOver
<1>3. Total([e \in E |-> SharesIn(e.row)], E) = SharesOver(RowsIn(E))
    <2> DEFINE f == [e \in E |-> SharesIn(e.row)]
               v == [r \in RowsIn(E) |-> SharesIn(r)]
    <2>1. \A x \in E : f[x] = v[x.row] /\ f[x] \in Int
        BY AmountsAdd DEF RowsIn
    <2> HIDE DEF f, v
    <2>2. Total(f, E) = Total(v, RowsIn(E))
        BY <2>1, SameTotal
    <2> QED
        BY <2>2 DEF f, v, SharesOver
<1>4. {e.row.owner : e \in E} \ {0} = OwnersIn(RowsIn(E))
    BY DEF OwnersIn, RowsIn
<1>5. {e.row.issuer : e \in E} = IssuersIn(RowsIn(E))
    BY DEF IssuersIn, RowsIn
<1> QED
    BY <1>1, <1>2, <1>3, <1>4, <1>5, MappedSum

\* The five ratios of the rows of a period.
RatiosOf(T) ==
    [transactions |-> PulseRatio(Cardinality(SideIn(T, "P")), Cardinality(SideIn(T, "S"))),
     insiders |-> PulseRatio(Cardinality(OwnersIn(SideIn(T, "P"))), Cardinality(OwnersIn(SideIn(T, "S")))),
     dollars |-> PulseRatio(DollarsOver(SideIn(T, "P")), DollarsOver(SideIn(T, "S"))),
     volume |-> PulseRatio(SharesOver(SideIn(T, "P")), SharesOver(SideIn(T, "S"))),
     breadth |-> PulseRatio(Cardinality(IssuersIn(SideIn(T, "P"))), Cardinality(IssuersIn(SideIn(T, "S"))))]

\* All ratios but conviction depend on the rows alone.
LEMMA RatiosOfRows ==
    ASSUME NEW E, NEW p, IsFiniteSet(E), RowsDiffer(E), \A x \in E : Amounts(x.row)
    PROVE  /\ DOMAIN Aggregate(E, p) = {"transactions", "insiders", "dollars", "volume", "breadth", "conviction"}
           /\ \A f \in DOMAIN Aggregate(E, p) \ {"conviction"} :
                  Aggregate(E, p)[f] = RatiosOf(RowsIn(InPeriod(E, p)))[f]
<1> DEFINE T == RowsIn(InPeriod(E, p))
           buys == Taken(E, p, "P")
           sales == Taken(E, p, "S")
<1>1. ASSUME NEW side
      PROVE  /\ IsFiniteSet(Taken(E, p, side)) /\ RowsDiffer(Taken(E, p, side))
             /\ \A x \in Taken(E, p, side) : Amounts(x.row)
             /\ RowsIn(Taken(E, p, side)) = SideIn(T, side)
    <2>1. Taken(E, p, side) \subseteq E
        BY DEF Taken, InPeriod
    <2>2. IsFiniteSet(Taken(E, p, side))
        BY <2>1, FS_Subset
    <2>3. RowsIn(Taken(E, p, side)) = SideIn(T, side)
        BY DEF Taken, RowsIn, SideIn
    <2> QED
        BY <2>1, <2>2, <2>3 DEF RowsDiffer
<1> DEFINE bought == SideIn(T, "P")
           sold == SideIn(T, "S")
           a1 == PulseRatio(Cardinality(bought), Cardinality(sold))
           a2 == PulseRatio(Cardinality(OwnersIn(bought)), Cardinality(OwnersIn(sold)))
           a3 == PulseRatio(DollarsOver(bought), DollarsOver(sold))
           a4 == PulseRatio(SharesOver(bought), SharesOver(sold))
           a5 == PulseRatio(Cardinality(IssuersIn(bought)), Cardinality(IssuersIn(sold)))
           a6 == PulseRatio(MapThenSumSet(LAMBDA e : WeighedIn(e), buys), MapThenSumSet(LAMBDA e : WeighedIn(e), sales))
<1>2. /\ RowsIn(buys) = bought /\ Cardinality(buys) = Cardinality(bought)
      /\ MapThenSumSet(LAMBDA e : DollarsIn(e.row), buys) = DollarsOver(bought)
      /\ MapThenSumSet(LAMBDA e : SharesIn(e.row), buys) = SharesOver(bought)
      /\ {e.row.owner : e \in buys} \ {0} = OwnersIn(bought)
      /\ {e.row.issuer : e \in buys} = IssuersIn(bought)
    BY <1>1, SameSums
<1>3. /\ RowsIn(sales) = sold /\ Cardinality(sales) = Cardinality(sold)
      /\ MapThenSumSet(LAMBDA e : DollarsIn(e.row), sales) = DollarsOver(sold)
      /\ MapThenSumSet(LAMBDA e : SharesIn(e.row), sales) = SharesOver(sold)
      /\ {e.row.owner : e \in sales} \ {0} = OwnersIn(sold)
      /\ {e.row.issuer : e \in sales} = IssuersIn(sold)
    BY <1>1, SameSums
<1>4. Aggregate(E, p) = [transactions |-> a1, insiders |-> a2, dollars |-> a3, volume |-> a4,
                         breadth |-> a5, conviction |-> a6]
    BY <1>2, <1>3, AggregateIs, Zenon
<1>5. RatiosOf(T) = [transactions |-> a1, insiders |-> a2, dollars |-> a3, volume |-> a4, breadth |-> a5]
    BY Zenon DEF RatiosOf
<1> HIDE DEF T, a1, a2, a3, a4, a5, a6
<1> QED
    BY <1>4, <1>5 DEF T

\* The daily pulse of the market is the ratios of the day.
LEMMA PulseRatios ==
    ASSUME NEW entries, NEW sectorOf, NEW at, NEW d, DayOf(at) = d
    PROVE  MarketPulse(entries, sectorOf, {"daily", "weekly"}, at)["daily"]["market"].ratios
             = Aggregate({e \in entries : Counts(e.row, at)}, [first |-> d, last |-> d])
<1> DEFINE counted == {e \in entries : Counts(e.row, at)}
           sector(e) == IF e.row.issuer \in DOMAIN sectorOf THEN sectorOf[e.row.issuer] ELSE None
           scopes == {"market"} \union ({sector(e) : e \in counted} \ {None})
           within(scope) == {e \in counted : scope \in {"market", sector(e)}}
<1>1. MarketPulse(entries, sectorOf, {"daily", "weekly"}, at)
        = [grain \in {"daily", "weekly"} |-> [scope \in scopes |-> PulseOf(within(scope), grain, d)]]
    BY Zenon DEF MarketPulse
<1>2. "market" \in scopes /\ within("market") = counted
    OBVIOUS
<1> HIDE DEF scopes, within, counted
<1>3. MarketPulse(entries, sectorOf, {"daily", "weekly"}, at)["daily"]["market"] = PulseOf(counted, "daily", d)
    BY <1>1, <1>2
<1>4. PulseOf(counted, "daily", d).ratios = Aggregate(counted, PeriodBounds("daily", d))
    <2>1. \A r, q : PulseScore(r, q).ratios = r
        BY DEF PulseScore
    <2>2. \A r, q : PulseAmong(r, q).ratios = r
        BY <2>1, Zenon DEF PulseAmong
    <2>3. \A E, now, periods : PulseIn(E, now, periods).ratios = Aggregate(E, now)
        BY <2>2, Zenon DEF PulseIn
    <2> QED
        BY <2>3, Zenon DEF PulseOf
<1>5. PeriodBounds("daily", d) = [first |-> d, last |-> d]
    BY DEF PeriodBounds
<1> QED
    BY <1>3, <1>4, <1>5 DEF counted

\* The invariant gives that the pulse of a day does not move with what is learnt later.
LEMMA PulseHolds == ASSUME RunsInv PROVE PulseAgrees
<1> SUFFICES ASSUME NEW d \in Done, NEW e \in Done, d < e,
                    {x.row : x \in {y \in {z \in snapshots[d].entries : Counts(z.row, CloseOf(d))} :
                                      y.row.date = d /\ y.row.known <= CloseOf(d)}}
                      = {x.row : x \in {y \in {z \in snapshots[e].entries : Counts(z.row, CloseOf(e))} :
                                      y.row.date = d /\ y.row.known <= CloseOf(d)}}
             PROVE  LET again == Aggregate(KnownIn({z \in snapshots[e].entries : Counts(z.row, CloseOf(e))},
                                                   [first |-> d, last |-> d]), [first |-> d, last |-> d])
                        said == snapshots[d].pulse["daily"]["market"].ratios
                    IN  \A f \in DOMAIN said \ {"conviction"} : again[f] = said[f]
    BY DEF PulseAgrees
<1> DEFINE R == RowsOf(world, d)
           Q == RowsOf(world, e)
           p == [first |-> d, last |-> d]
           D == {z \in snapshots[d].entries : Counts(z.row, CloseOf(d))}
           E == KnownIn({z \in snapshots[e].entries : Counts(z.row, CloseOf(e))}, p)
<1>1. /\ d \in Nat /\ DayOf(CloseOf(d)) = d
      /\ GoodRows(R, CloseOf(d)) /\ CloseOf(d) \in Int
      /\ GoodRows(Q, CloseOf(e)) /\ CloseOf(e) \in Int
      /\ snapshots[d].entries = {Tells(R, r) : r \in R}
      /\ snapshots[e].entries = {Tells(Q, r) : r \in Q}
      /\ snapshots[d].pulse = MarketPulse(snapshots[d].entries, SectorsAt(inputs[d], CloseOf(d)),
                                         {"daily", "weekly"}, CloseOf(d))
    BY RunFacts
<1>2. snapshots[d].pulse["daily"]["market"].ratios = Aggregate(D, p)
    BY <1>1, PulseRatios
<1>3. ASSUME NEW S, NEW at, GoodRows(S, at)
      PROVE  LET F == {Tells(S, r) : r \in S}
             IN  /\ IsFiniteSet(F) /\ RowsDiffer(F)
                 /\ \A x \in F : Amounts(x.row) /\ x.row.date \in Int /\ x.row.known \in Int /\ x.row.known <= at
    <2> DEFINE f == [r \in S |-> Tells(S, r)]
    <2>1. IsFiniteSet({f[r] : r \in S})
        <3>1. DOMAIN f = S /\ IsFiniteSet(S)
            BY <1>3 DEF GoodRows
        <3> HIDE DEF f
        <3> QED
            BY <3>1, FiniteImage
    <2>2. {f[r] : r \in S} = {Tells(S, r) : r \in S}
        OBVIOUS
    <2>3. RowsDiffer({Tells(S, r) : r \in S})
        BY TellsOfRow DEF RowsDiffer
    <2>4. \A x \in {Tells(S, r) : r \in S} : Amounts(x.row) /\ x.row.date \in Int /\ x.row.known \in Int /\ x.row.known <= at
        BY <1>3, TellsOfRow DEF GoodRows, Amounts
    <2> QED
        BY <2>1, <2>2, <2>3, <2>4
<1>4. /\ IsFiniteSet(D) /\ RowsDiffer(D) /\ \A x \in D : Amounts(x.row)
      /\ \A x \in D : x.row.date \in Int /\ x.row.known <= CloseOf(d)
    <2>1. D \subseteq snapshots[d].entries
        OBVIOUS
    <2> HIDE DEF D, R
    <2> QED
        BY <1>1, <1>3, <2>1, FS_Subset DEF RowsDiffer
<1>5. /\ IsFiniteSet(E) /\ RowsDiffer(E) /\ \A x \in E : Amounts(x.row)
      /\ \A x \in snapshots[e].entries : x.row.date \in Int /\ x.row.known \in Int
    <2>1. E \subseteq snapshots[e].entries
        BY DEF KnownIn
    <2> HIDE DEF E, Q
    <2> QED
        BY <1>1, <1>3, <2>1, FS_Subset DEF RowsDiffer
<1>6. RowsIn(InPeriod(D, p)) = {x.row : x \in {y \in D : y.row.date = d /\ y.row.known <= CloseOf(d)}}
    <2>1. InPeriod(D, p) = {y \in D : y.row.date = d /\ y.row.known <= CloseOf(d)}
        <3> HIDE DEF D
        <3> QED
            BY <1>1, <1>4 DEF InPeriod
    <2> QED
        BY <2>1 DEF RowsIn
<1>7. RowsIn(InPeriod(E, p)) = {x.row : x \in {y \in {z \in snapshots[e].entries : Counts(z.row, CloseOf(e))} :
                                                   y.row.date = d /\ y.row.known <= CloseOf(d)}}
    <2>1. InPeriod(E, p) = {y \in {z \in snapshots[e].entries : Counts(z.row, CloseOf(e))} :
                               y.row.date = d /\ y.row.known <= CloseOf(d)}
        BY <1>1, <1>5, CalendarAssumption DEF InPeriod, KnownIn
    <2> QED
        BY <2>1 DEF RowsIn
<1>8. RowsIn(InPeriod(E, p)) = RowsIn(InPeriod(D, p))
    BY <1>6, <1>7
<1> HIDE DEF D, E, p, R, Q
<1>9. \A f \in DOMAIN Aggregate(D, p) \ {"conviction"} : Aggregate(E, p)[f] = Aggregate(D, p)[f]
    BY <1>4, <1>5, <1>8, RatiosOfRows
<1> QED
    BY <1>2, <1>9 DEF D, E, p

-----------------------------------------------------------------------------
(* What is filtered of a sequence is a sequence.                            *)

Filtering(f, s, K, n) ==
    f = [i \in 0..n |-> IF i = 0 THEN <<>> ELSE IF s[i] \in K THEN Append(f[i - 1], s[i]) ELSE f[i - 1]]

\* Filtering a sequence has a recursive function, by the least length that would have none.
LEMMA FilteringExists ==
    ASSUME NEW s, NEW K, NEW n \in Nat
    PROVE  \E f : Filtering(f, s, K, n)
<1> DEFINE T == {m \in Nat : ~\E f : Filtering(f, s, K, m)}
<1>1. SUFFICES ASSUME T # {} PROVE FALSE
    OBVIOUS
<1>2. PICK m \in T : \A k \in T : m <= k
    BY <1>1, LeastExists
<1>3. m \in Nat
    BY <1>2
<1>4. CASE m = 0
    <2>1. PICK f : f = [i \in 0..0 |-> <<>>]
        OBVIOUS
    <2>2. Filtering(f, s, K, 0)
        BY <2>1 DEF Filtering
    <2> QED
        BY <1>2, <1>4, <2>2
<1>5. CASE m # 0
    <2>1. m - 1 \in Nat /\ m - 1 \notin T
        <3> HIDE DEF T
        <3> QED
            BY <1>2, <1>3, <1>5
    <2>2. PICK f : Filtering(f, s, K, m - 1)
        BY <2>1
    <2>3. PICK g : g = [i \in 0..m |-> IF i = m THEN IF s[m] \in K THEN Append(f[m - 1], s[m]) ELSE f[m - 1]
                                       ELSE f[i]]
        OBVIOUS
    <2>4. ASSUME NEW i \in 0..m
          PROVE  g[i] = IF i = 0 THEN <<>> ELSE IF s[i] \in K THEN Append(g[i - 1], s[i]) ELSE g[i - 1]
        <3>1. CASE i = m
            <4>1. i # 0 /\ i - 1 \in 0..m /\ i - 1 # m
                BY <1>3, <1>5, <3>1
            <4>2. g[i - 1] = f[m - 1]
                BY <2>3, <3>1, <4>1
            <4> QED
                BY <2>3, <3>1, <4>1, <4>2
        <3>2. CASE i # m
            <4>1. i \in 0..(m - 1) /\ g[i] = f[i]
                BY <1>3, <2>3, <3>2
            <4>2. f[i] = IF i = 0 THEN <<>> ELSE IF s[i] \in K THEN Append(f[i - 1], s[i]) ELSE f[i - 1]
                BY <2>2, <4>1 DEF Filtering
            <4>3. i # 0 => g[i - 1] = f[i - 1]
                BY <1>3, <2>3, <4>1
            <4> QED
                BY <4>1, <4>2, <4>3
        <3> QED
            BY <3>1, <3>2
    <2>5. g = [i \in 0..m |-> g[i]]
        BY <2>3
    <2>6. Filtering(g, s, K, m)
        BY <2>4, <2>5 DEF Filtering
    <2> QED
        BY <1>2, <2>6
<1> QED
    BY <1>4, <1>5

\* A filtered sequence has elements of the sequence.
LEMMA FilteredType ==
    ASSUME NEW X, NEW s \in Seq(X), NEW K
    PROVE  Filtered(s, K) \in Seq(X)
<1> DEFINE n == Len(s)
           f == CHOOSE f : Filtering(f, s, K, n)
           T == {m \in 0..n : f[m] \notin Seq(X)}
<1>1. n \in Nat /\ \A i \in 1..n : s[i] \in X
    OBVIOUS
<1>2. Filtering(f, s, K, n)
    BY <1>1, FilteringExists
<1>3. Filtered(s, K) = f[n]
    BY DEF Filtered, Filtering
<1> HIDE DEF f, n
<1>4. T = {}
    <2>1. SUFFICES ASSUME T # {} PROVE FALSE
        OBVIOUS
    <2>2. T \subseteq Nat
        BY <1>1
    <2>3. PICK m \in T : \A k \in T : m <= k
        <3> HIDE DEF T
        <3> QED
            BY <2>1, <2>2, LeastExists
    <2>4. m \in 0..n /\ f[m] \notin Seq(X)
        BY <2>3
    <2>5. m # 0
        BY <1>2, <2>4 DEF Filtering
    <2>6. m - 1 \in 0..n /\ m - 1 \notin T
        <3>1. m - 1 \in 0..n
            BY <1>1, <2>4, <2>5
        <3> HIDE DEF T
        <3> QED
            BY <2>3, <2>4, <3>1
    <2>7. f[m - 1] \in Seq(X) /\ s[m] \in X
        BY <1>1, <2>4, <2>5, <2>6
    <2>8. f[m] = IF s[m] \in K THEN Append(f[m - 1], s[m]) ELSE f[m - 1]
        BY <1>2, <2>4, <2>5 DEF Filtering
    <2> QED
        BY <2>4, <2>7, <2>8
<1> QED
    BY <1>1, <1>3, <1>4

IsBars(s) == \E X : s \in Seq(X)

\* What is read from a market file is a sequence of bars.
LEMMA BarsAre ==
    ASSUME NEW w \in Worlds, NEW last, NEW now, NEW x, NEW at
    PROVE  IsBars(Bars(MarketFile(w.market, last, now), x, at))
<1> DEFINE m == MarketFile(w.market, last, now)
<1>1. CASE x \notin DOMAIN m
    <2>1. Bars(m, x, at) = <<>>
        BY <1>1 DEF Bars
    <2> QED
        BY <2>1 DEF IsBars
<1>2. CASE x \in DOMAIN m
    <2>1. x \in DOMAIN w.market
        BY <1>2 DEF MarketFile
    <2>2. PICK X : w.market[x] \in Seq(X)
        BY <2>1, WorldsAssumption
    <2>3. m[x] \in Seq(X)
        <3>1. \E K : m[x] = Filtered(w.market[x], K)
            BY <2>1 DEF MarketFile
        <3> HIDE DEF m
        <3> QED
            BY <2>2, <3>1, FilteredType
    <2>4. Prepared(m[x], at) \in Seq(X)
        <3> HIDE DEF m
        <3> QED
            BY <2>3, FilteredType DEF Prepared
    <2>5. Bars(m, x, at) = Prepared(m[x], at)
        <3> HIDE DEF m
        <3> QED
            BY <1>2, Zenon DEF Bars
    <2> HIDE DEF m
    <2>6. IsBars(Bars(m, x, at))
        BY <2>4, <2>5 DEF IsBars
    <2> QED
        BY <2>6 DEF m
<1> QED
    BY <1>1, <1>2

-----------------------------------------------------------------------------
(* The facts of a row depend on the bars up to it.                          *)

\* t goes on where the n bars of s end.
GoesOn(s, t, n) ==
    /\ n \in Nat \ {0} /\ DOMAIN s = 1..n /\ Len(s) = n
    /\ Len(t) \in Nat /\ n <= Len(t) /\ DOMAIN t = 1..Len(t)
    /\ \A k \in 1..n : s[k] = t[k]

\* A sequence that begins with another goes on from it.
LEMMA PrefixGoesOn ==
    ASSUME NEW s, NEW t, IsBars(s), IsBars(t), s # <<>>, Len(t) >= Len(s), SubSeq(t, 1, Len(s)) = s
    PROVE  GoesOn(s, t, Len(s))
<1>1. PICK X : s \in Seq(X)
    BY DEF IsBars
<1>2. PICK Y : t \in Seq(Y)
    BY DEF IsBars
<1>3. Len(s) \in Nat \ {0} /\ DOMAIN s = 1..Len(s) /\ Len(t) \in Nat /\ DOMAIN t = 1..Len(t)
    BY <1>1, <1>2
<1>4. \A k \in 1..Len(s) : SubSeq(t, 1, Len(s))[k] = t[k]
    BY <1>2, <1>3
<1> QED
    BY <1>3, <1>4 DEF GoesOn

\* Later bars leave the mean of an earlier one as it was.
LEMMA SameMean ==
    ASSUME NEW s, NEW t, NEW n, GoesOn(s, t, n), NEW k \in 1..n, NEW w \in Nat \ {0}
    PROVE  MeanSum(s, k, w) = MeanSum(t, k, w)
<1>1. CASE k < w
    BY <1>1 DEF MeanSum
<1>2. CASE ~(k < w)
    <2> DEFINE ks == (k - w + 1)..k
    <2>1. \A j \in ks : s[j].close = t[j].close
        BY <1>2 DEF GoesOn
    <2>2. MapThenSumSet(LAMBDA j : s[j].close, ks) = Total([j \in ks |-> s[j].close], ks)
        <3> HIDE DEF ks
        <3> QED
            BY ZenonT(60) DEF MapThenSumSet, MapThenFoldSet, Total
    <2>3. MapThenSumSet(LAMBDA j : t[j].close, ks) = Total([j \in ks |-> t[j].close], ks)
        <3> HIDE DEF ks
        <3> QED
            BY ZenonT(60) DEF MapThenSumSet, MapThenFoldSet, Total
    <2>4. [j \in ks |-> s[j].close] = [j \in ks |-> t[j].close]
        BY <2>1
    <2>5. MapThenSumSet(LAMBDA j : s[j].close, ks) = MapThenSumSet(LAMBDA j : t[j].close, ks)
        <3> HIDE DEF ks
        <3> QED
            BY <2>2, <2>3, <2>4
    <2>6. MeanSum(s, k, w) = MapThenSumSet(LAMBDA j : s[j].close, ks)
        BY <1>2, Zenon DEF MeanSum
    <2>7. MeanSum(t, k, w) = MapThenSumSet(LAMBDA j : t[j].close, ks)
        BY <1>2, Zenon DEF MeanSum
    <2> HIDE DEF ks
    <2> QED
        BY <2>5, <2>6, <2>7
<1> QED
    BY <1>1, <1>2

\* Later bars leave the year before an earlier one as it was.
LEMMA SameYear ==
    ASSUME NEW s, NEW t, NEW n, GoesOn(s, t, n), NEW k \in 1..n
    PROVE  YearBefore(s, k) = YearBefore(t, k) /\ YearBefore(s, k) \subseteq 1..n
<1>1. YearBefore(s, k) \subseteq 1..n
    BY DEF YearBefore, GoesOn
<1>2. \A j : j \in YearBefore(s, k) <=> j \in YearBefore(t, k)
    BY SpanAssumption DEF YearBefore, GoesOn
<1> QED
    BY <1>1, <1>2

\* Later bars leave the return of an earlier one as it was.
LEMMA SameReturn3m ==
    ASSUME NEW s, NEW t, NEW n, GoesOn(s, t, n), NEW k \in 1..n
    PROVE  Return3m(s, k) = Return3m(t, k)
<1>1. s[k] = t[k]
    BY DEF GoesOn
<1>2. CASE k > Span.quarter
    <2>1. s[k - Span.quarter] = t[k - Span.quarter]
        BY <1>2, SpanAssumption DEF GoesOn
    <2> QED
        BY <1>1, <2>1, Zenon DEF Return3m
<1>3. CASE ~(k > Span.quarter)
    BY <1>3, Zenon DEF Return3m
<1> QED
    BY <1>2, <1>3

\* Later bars leave the drawdown of an earlier one as it was.
LEMMA SameDrawdown ==
    ASSUME NEW s, NEW t, NEW n, GoesOn(s, t, n), NEW k \in 1..n
    PROVE  Drawdown(s, k) = Drawdown(t, k)
<1>1. s[k] = t[k]
    BY DEF GoesOn
<1>2. {s[j].close : j \in YearBefore(s, k)} = {t[j].close : j \in YearBefore(t, k)}
    <2>1. \A j \in YearBefore(s, k) : s[j] = t[j]
        BY SameYear DEF GoesOn
    <2>2. YearBefore(s, k) = YearBefore(t, k)
        BY SameYear
    <2> QED
        BY <2>1, <2>2
<1> QED
    BY <1>1, <1>2, Zenon DEF Drawdown

\* Later bars leave the lows as they were.
LEMMA SameLow ==
    ASSUME NEW s, NEW t, NEW n, GoesOn(s, t, n), NEW k \in 1..n
    PROVE  NewLow(s, k) = NewLow(t, k)
<1>1. CASE k = 1
    BY <1>1 DEF NewLow
<1>2. CASE k # 1
    <2>1. k - 1 \in 1..n /\ s[k] = t[k]
        BY <1>2 DEF GoesOn
    <2>2. YearBefore(s, k - 1) = YearBefore(t, k - 1) /\ YearBefore(s, k - 1) \subseteq 1..n
        BY <2>1, SameYear
    <2>3. \A j \in YearBefore(s, k - 1) : s[j] = t[j]
        BY <2>2 DEF GoesOn
    <2>4. (\A j \in YearBefore(s, k - 1) : s[k].close <= s[j].close)
            = (\A j \in YearBefore(t, k - 1) : t[k].close <= t[j].close)
        BY <2>1, <2>2, <2>3, Zenon
    <2> QED
        BY <1>2, <2>4, Zenon DEF NewLow
<1> QED
    BY <1>1, <1>2

\* Later bars leave the absence of a low as it was.
LEMMA SameNoLow ==
    ASSUME NEW s, NEW t, NEW n, GoesOn(s, t, n)
    PROVE  NoLow(s, n) = NoLow(t, n)
<1>1. CASE n <= Span.short
    BY <1>1, Zenon DEF NoLow
<1>2. CASE ~(n <= Span.short)
    <2>1. \A k \in (n - Span.short + 1)..n : k \in 1..n
        BY <1>2, SpanAssumption DEF GoesOn
    <2>2. \A k \in (n - Span.short + 1)..n : NewLow(s, k) = NewLow(t, k)
        BY <2>1, SameLow
    <2>3. (\A k \in (n - Span.short + 1)..n : NewLow(s, k) = FALSE)
            = (\A k \in (n - Span.short + 1)..n : NewLow(t, k) = FALSE)
        BY <2>2, Zenon
    <2> QED
        BY <1>2, <2>3, Zenon DEF NoLow
<1> QED
    BY <1>1, <1>2

\* Later bars leave the days above the long mean as they were.
LEMMA SameDaysAbove ==
    ASSUME NEW s, NEW t, NEW n, GoesOn(s, t, n)
    PROVE  DaysAboveLong(s, n) = DaysAboveLong(t, n)
<1>1. CASE n < Span.long + Span.above - 1
    BY <1>1, Zenon DEF DaysAboveLong
<1>2. CASE ~(n < Span.long + Span.above - 1)
    <2>1. \A k \in (n - Span.above + 1)..n : k \in 1..n
        BY <1>2, SpanAssumption DEF GoesOn
    <2>2. ASSUME NEW k \in 1..n PROVE AboveLong(s, k) <=> AboveLong(t, k)
        <3>1. s[k] = t[k] /\ Span.long \in Nat \ {0}
            BY SpanAssumption DEF GoesOn
        <3>2. MeanSum(s, k, Span.long) = MeanSum(t, k, Span.long)
            BY <3>1, SameMean
        <3> QED
            BY <3>1, <3>2, Zenon DEF AboveLong
    <2>3. {k \in (n - Span.above + 1)..n : AboveLong(s, k)} = {k \in (n - Span.above + 1)..n : AboveLong(t, k)}
        BY <2>1, <2>2
    <2> QED
        BY <1>2, <2>3, Zenon DEF DaysAboveLong
<1> QED
    BY <1>1, <1>2

ReturnOf(to, from) == (1000 * to) \div from - 1000
ReturnAt(s, k) == ReturnOf(s[k].adj, s[k - 1].adj)
SquareAt(s, k) == ReturnAt(s, k) * ReturnAt(s, k)
SpanTo(k) == (k - Span.short + 1)..k

\* The short span before a bar is inside both sequences.
LEMMA SpanInside ==
    ASSUME NEW s, NEW t, NEW n, GoesOn(s, t, n), NEW k \in 1..n, ~(k <= Span.short)
    PROVE  /\ s[k] = t[k] /\ s[k - Span.short] = t[k - Span.short]
           /\ \A j \in SpanTo(k) : j > 1 /\ s[j] = t[j] /\ s[j - 1] = t[j - 1]
<1>1. Span.short \in Nat \ {0} /\ n \in Nat
    BY SpanAssumption DEF GoesOn
<1>2. k - Span.short \in 1..n
    BY <1>1
<1>3. \A j \in SpanTo(k) : j > 1 /\ j \in 1..n /\ j - 1 \in 1..n
    BY <1>1 DEF SpanTo
<1> QED
    BY <1>2, <1>3 DEF GoesOn

\* Later bars leave the volatility at an earlier one as it was.
LEMMA SameVolatility ==
    ASSUME NEW s, NEW t, NEW n, GoesOn(s, t, n), NEW k \in 1..n
    PROVE  Volatility(s, k) = Volatility(t, k)
<1>1. \A u : Volatility(u, k) =
        IF k <= Span.short \/ \E j \in SpanTo(k) \union {k - Span.short} : u[j].adj <= 0 THEN None
        ELSE Span.short * MapThenSumSet(LAMBDA j : SquareAt(u, j), SpanTo(k))
               - MapThenSumSet(LAMBDA j : ReturnAt(u, j), SpanTo(k)) * MapThenSumSet(LAMBDA j : ReturnAt(u, j), SpanTo(k))
    BY Zenon DEF Volatility, SquareAt, ReturnAt, ReturnOf, SpanTo
<1>2. CASE k <= Span.short
    BY <1>1, <1>2, Zenon
<1>3. CASE ~(k <= Span.short)
    <2>1. /\ s[k - Span.short] = t[k - Span.short]
          /\ \A j \in SpanTo(k) : s[j] = t[j] /\ s[j - 1] = t[j - 1]
        BY <1>3, SpanInside
    <2>2. \A j \in SpanTo(k) : ReturnAt(s, j) = ReturnAt(t, j) /\ SquareAt(s, j) = SquareAt(t, j)
        <3>1. \A j \in SpanTo(k) : ReturnAt(s, j) = ReturnAt(t, j)
            <4> TAKE j \in SpanTo(k)
            <4>1. s[j].adj = t[j].adj /\ s[j - 1].adj = t[j - 1].adj
                BY <2>1, Zenon
            <4> QED
                BY <4>1, Zenon DEF ReturnAt
        <3>2. \A j \in SpanTo(k) : SquareAt(s, j) = SquareAt(t, j)
            BY <3>1, Zenon DEF SquareAt
        <3> QED
            BY <3>1, <3>2
    <2>3. (\E j \in SpanTo(k) \union {k - Span.short} : s[j].adj <= 0)
            = (\E j \in SpanTo(k) \union {k - Span.short} : t[j].adj <= 0)
        BY <2>1, Zenon
    <2>4. \A u : /\ MapThenSumSet(LAMBDA j : ReturnAt(u, j), SpanTo(k)) = Total([j \in SpanTo(k) |-> ReturnAt(u, j)], SpanTo(k))
                 /\ MapThenSumSet(LAMBDA j : SquareAt(u, j), SpanTo(k)) = Total([j \in SpanTo(k) |-> SquareAt(u, j)], SpanTo(k))
        <3> TAKE u
        <3>1. MapThenSumSet(LAMBDA j : ReturnAt(u, j), SpanTo(k)) = Total([j \in SpanTo(k) |-> ReturnAt(u, j)], SpanTo(k))
            BY ZenonT(60) DEF MapThenSumSet, MapThenFoldSet, Total
        <3>2. MapThenSumSet(LAMBDA j : SquareAt(u, j), SpanTo(k)) = Total([j \in SpanTo(k) |-> SquareAt(u, j)], SpanTo(k))
            BY ZenonT(60) DEF MapThenSumSet, MapThenFoldSet, Total
        <3> QED
            BY <3>1, <3>2
    <2>5. /\ [j \in SpanTo(k) |-> ReturnAt(s, j)] = [j \in SpanTo(k) |-> ReturnAt(t, j)]
          /\ [j \in SpanTo(k) |-> SquareAt(s, j)] = [j \in SpanTo(k) |-> SquareAt(t, j)]
        BY <2>2
    <2>6. /\ MapThenSumSet(LAMBDA j : ReturnAt(s, j), SpanTo(k)) = MapThenSumSet(LAMBDA j : ReturnAt(t, j), SpanTo(k))
          /\ MapThenSumSet(LAMBDA j : SquareAt(s, j), SpanTo(k)) = MapThenSumSet(LAMBDA j : SquareAt(t, j), SpanTo(k))
        BY <2>4, <2>5, ZenonT(60)
    <2> QED
        BY <1>1, <1>3, <2>3, <2>6, Zenon
<1> QED
    BY <1>2, <1>3

ValidAt(s, k) == k > 1 /\ s[k].volume > 0 /\ s[k].adj > 0 /\ s[k - 1].adj > 0
SignedAt(s, k) == IF s[k].adj > s[k - 1].adj THEN s[k].volume
                  ELSE IF s[k].adj < s[k - 1].adj THEN -s[k].volume ELSE 0
VolumeAt(s, k) == s[k].volume

\* Later bars leave the signed volume at an earlier one as it was.
LEMMA SameSigned ==
    ASSUME NEW s, NEW t, NEW n, GoesOn(s, t, n), NEW k \in 1..n
    PROVE  SignedVolume(s, k) = SignedVolume(t, k)
<1>1. \A u : SignedVolume(u, k) =
        IF k <= Span.short \/ ~(\A j \in SpanTo(k) : ValidAt(u, j)) THEN None
        ELSE (100 * MapThenSumSet(LAMBDA j : SignedAt(u, j), SpanTo(k)))
               \div MapThenSumSet(LAMBDA j : VolumeAt(u, j), SpanTo(k))
    BY Zenon DEF SignedVolume, SignedAt, VolumeAt, ValidAt, SpanTo
<1>2. CASE k <= Span.short
    BY <1>1, <1>2, Zenon
<1>3. CASE ~(k <= Span.short)
    <2>1. \A j \in SpanTo(k) : s[j] = t[j] /\ s[j - 1] = t[j - 1]
        BY <1>3, SpanInside
    <2>2. \A j \in SpanTo(k) : SignedAt(s, j) = SignedAt(t, j) /\ VolumeAt(s, j) = VolumeAt(t, j)
        BY <2>1, Zenon DEF SignedAt, VolumeAt
    <2>3. \A j \in SpanTo(k) : ValidAt(s, j) <=> ValidAt(t, j)
        BY <2>1, Zenon DEF ValidAt
    <2>4. (\A j \in SpanTo(k) : ValidAt(s, j)) = (\A j \in SpanTo(k) : ValidAt(t, j))
        BY <2>3, Zenon
    <2>5. \A u : /\ MapThenSumSet(LAMBDA j : SignedAt(u, j), SpanTo(k)) = Total([j \in SpanTo(k) |-> SignedAt(u, j)], SpanTo(k))
                 /\ MapThenSumSet(LAMBDA j : VolumeAt(u, j), SpanTo(k)) = Total([j \in SpanTo(k) |-> VolumeAt(u, j)], SpanTo(k))
        <3> TAKE u
        <3>1. MapThenSumSet(LAMBDA j : SignedAt(u, j), SpanTo(k)) = Total([j \in SpanTo(k) |-> SignedAt(u, j)], SpanTo(k))
            BY ZenonT(60) DEF MapThenSumSet, MapThenFoldSet, Total
        <3>2. MapThenSumSet(LAMBDA j : VolumeAt(u, j), SpanTo(k)) = Total([j \in SpanTo(k) |-> VolumeAt(u, j)], SpanTo(k))
            BY ZenonT(60) DEF MapThenSumSet, MapThenFoldSet, Total
        <3> QED
            BY <3>1, <3>2
    <2>6. /\ [j \in SpanTo(k) |-> SignedAt(s, j)] = [j \in SpanTo(k) |-> SignedAt(t, j)]
          /\ [j \in SpanTo(k) |-> VolumeAt(s, j)] = [j \in SpanTo(k) |-> VolumeAt(t, j)]
        BY <2>2
    <2>7. /\ MapThenSumSet(LAMBDA j : SignedAt(s, j), SpanTo(k)) = MapThenSumSet(LAMBDA j : SignedAt(t, j), SpanTo(k))
          /\ MapThenSumSet(LAMBDA j : VolumeAt(s, j), SpanTo(k)) = MapThenSumSet(LAMBDA j : VolumeAt(t, j), SpanTo(k))
        BY <2>5, <2>6, ZenonT(60)
    <2> QED
        BY <1>1, <1>3, <2>4, <2>7, Zenon
<1> QED
    BY <1>2, <1>3

\* Later bars leave the median volume at an earlier one as it was.
LEMMA SameMedian ==
    ASSUME NEW s, NEW t, NEW n, GoesOn(s, t, n), NEW k \in 1..n
    PROVE  MedianVolume(s, k) = MedianVolume(t, k)
<1>1. CASE k < Span.short
    BY <1>1, Zenon DEF MedianVolume
<1>2. CASE ~(k < Span.short)
    <2>1. \A j \in 1..Span.short : k - Span.short + j \in 1..n
        BY <1>2, SpanAssumption DEF GoesOn
    <2>2. [j \in 1..Span.short |-> s[k - Span.short + j].volume] = [j \in 1..Span.short |-> t[k - Span.short + j].volume]
        BY <2>1 DEF GoesOn
    <2> QED
        BY <1>2, <2>2, Zenon DEF MedianVolume
<1> QED
    BY <1>1, <1>2

\* Later bars leave the slope of the short mean as it was.
LEMMA SameSlope ==
    ASSUME NEW s, NEW t, NEW n, GoesOn(s, t, n)
    PROVE  ShortSlope(s, n) = ShortSlope(t, n)
<1>1. CASE n < Span.short + 4
    BY <1>1, Zenon DEF ShortSlope
<1>2. CASE ~(n < Span.short + 4)
    <2>1. /\ n - 0 \in 1..n /\ n - 1 \in 1..n /\ n - 3 \in 1..n /\ n - 4 \in 1..n
          /\ Span.short \in Nat \ {0}
        BY <1>2, SpanAssumption DEF GoesOn
    <2>2. /\ MeanSum(s, n - 0, Span.short) = MeanSum(t, n - 0, Span.short)
          /\ MeanSum(s, n - 1, Span.short) = MeanSum(t, n - 1, Span.short)
          /\ MeanSum(s, n - 3, Span.short) = MeanSum(t, n - 3, Span.short)
          /\ MeanSum(s, n - 4, Span.short) = MeanSum(t, n - 4, Span.short)
        BY <2>1, SameMean
    <2> QED
        BY <1>2, <2>2, Zenon DEF ShortSlope
<1> QED
    BY <1>1, <1>2

\* A sequence that goes on without a break had none.
LEMMA SameBroken ==
    ASSUME NEW s, NEW t, NEW n, GoesOn(s, t, n), ~Broken(t)
    PROVE  ~Broken(s)
<1> SUFFICES ASSUME NEW k \in 2..n,
                    /\ s[k - 1].close > 0
                    /\ 2 * s[k].close <= s[k - 1].close \/ s[k].close >= 2 * s[k - 1].close
                    /\ ~(s[k].adjusted /\ s[k - 1].adjusted)
             PROVE  Broken(t)
    BY DEF Broken, GoesOn
<1>1. k \in 2..Len(t) /\ s[k] = t[k] /\ s[k - 1] = t[k - 1]
    BY DEF GoesOn
<1> QED
    BY <1>1, Zenon DEF Broken

\* Later bars leave the facts of an earlier one as they were.
LEMMA SameFacts ==
    ASSUME NEW s, NEW t, NEW n, GoesOn(s, t, n)
    PROVE  \A broken, mean, slope, signed :
              PriceFacts(s, n, broken, mean, slope, signed) = PriceFacts(t, n, broken, mean, slope, signed)
<1> TAKE broken, mean, slope, signed
<1> DEFINE then == n - Span.short
           Contraction(u) == ~broken /\ then > 0 /\ Shrunk(Volatility(u, n), 16, Volatility(u, then), 25)
           DryUp(u) == ~broken /\ then > 0 /\ Shrunk(MedianVolume(u, n), 4, MedianVolume(u, then), 5)
           Under(u) == ~broken /\ n >= Span.long /\ Span.long * u[n].close < MeanSum(u, n, Span.long)
<1>1. n \in 1..n /\ s[n] = t[n] /\ Span.long \in Nat \ {0}
    BY SpanAssumption DEF GoesOn
<1>2. /\ Return3m(s, n) = Return3m(t, n) /\ Drawdown(s, n) = Drawdown(t, n) /\ NewLow(s, n) = NewLow(t, n)
      /\ NoLow(s, n) = NoLow(t, n) /\ DaysAboveLong(s, n) = DaysAboveLong(t, n)
    BY <1>1, SameReturn3m, SameDrawdown, SameLow, SameNoLow, SameDaysAbove
<1>3. MeanSum(s, n, Span.long) = MeanSum(t, n, Span.long)
    BY <1>1, SameMean
<1>4. Volatility(s, n) = Volatility(t, n) /\ MedianVolume(s, n) = MedianVolume(t, n)
    BY <1>1, SameVolatility, SameMedian
<1>5. Contraction(s) = Contraction(t) /\ DryUp(s) = DryUp(t)
    <2>1. CASE then > 0
        <3>1. then \in 1..n
            BY <2>1, SpanAssumption DEF GoesOn
        <3> HIDE DEF then
        <3>2. Volatility(s, then) = Volatility(t, then) /\ MedianVolume(s, then) = MedianVolume(t, then)
            BY <3>1, SameVolatility, SameMedian
        <3> QED
            BY <1>4, <3>2, Zenon
    <2>2. CASE ~(then > 0)
        <3> HIDE DEF then
        <3> QED
            BY <2>2
    <2> QED
        BY <2>1, <2>2
<1>6. Under(s) = Under(t)
    BY <1>1, <1>3, Zenon
<1> DEFINE Row(bar, return, drawdown, below, newLow, noLow, daysAbove, contraction, dryUp) ==
        [date |-> bar.date, close |-> bar.close,
         return |-> Unless(broken, return),
         drawdown |-> Unless(broken, drawdown),
         belowLong |-> below,
         longKnown |-> ~broken /\ n >= Span.long,
         newLow |-> Unless(broken, newLow),
         noLow |-> Unless(broken, noLow),
         daysAbove |-> Unless(broken, daysAbove),
         contraction |-> contraction,
         dryUp |-> dryUp,
         flat |-> /\ ~broken /\ slope # None /\ bar.close > 0
                  /\ 100 * slope \in -(Span.short * bar.close)..(Span.short * bar.close),
         aboveShort |-> ~broken /\ mean # None /\ Span.short * bar.close >= mean,
         volume |-> Unless(broken, signed[n]),
         volumePercentile |->
             IF broken THEN None
             ELSE MidRank(signed[n], SelectSeq(SubSeq(signed, 1, n - 1), LAMBDA x : x # None),
                          DailyHistory)]
<1>7. \A u : PriceFacts(u, n, broken, mean, slope, signed) =
        Row(u[n], Return3m(u, n), Drawdown(u, n), Under(u), NewLow(u, n), NoLow(u, n), DaysAboveLong(u, n),
            Contraction(u), DryUp(u))
    BY Zenon DEF PriceFacts
<1> HIDE DEF Contraction, DryUp, Under, Row
<1> QED
    BY <1>1, <1>2, <1>5, <1>6, <1>7, Zenon

\* Later bars leave the row of an earlier one as it was.
LEMMA SameRow ==
    ASSUME NEW s, NEW t, NEW n, GoesOn(s, t, n), ~Broken(t)
    PROVE  PriceRow(s, n) = PriceRow(t, n)
<1>1. Broken(s) = Broken(t)
    <2>1. ~Broken(s)
        BY SameBroken
    <2>2. Broken(s) \in BOOLEAN /\ Broken(t) \in BOOLEAN
        BY Zenon DEF Broken
    <2> QED
        BY <2>1, <2>2
<1>2. n \in 1..n /\ Span.short \in Nat \ {0}
    BY SpanAssumption DEF GoesOn
<1>3. MeanSum(s, n, Span.short) = MeanSum(t, n, Span.short) /\ ShortSlope(s, n) = ShortSlope(t, n)
    BY <1>2, SameMean, SameSlope
<1>4. [k \in 1..n |-> SignedVolume(s, k)] = [k \in 1..n |-> SignedVolume(t, k)]
    BY SameSigned
<1>5. PriceRow(s, n) = PriceFacts(s, n, Broken(t), MeanSum(t, n, Span.short), ShortSlope(t, n),
                                  [k \in 1..n |-> SignedVolume(t, k)])
    BY <1>1, <1>3, <1>4, Zenon DEF PriceRow
<1>6. PriceRow(t, n) = PriceFacts(t, n, Broken(t), MeanSum(t, n, Span.short), ShortSlope(t, n),
                                  [k \in 1..n |-> SignedVolume(t, k)])
    BY <1>1, Zenon DEF PriceRow
<1>7. \A broken, mean, slope, signed :
        PriceFacts(s, n, broken, mean, slope, signed) = PriceFacts(t, n, broken, mean, slope, signed)
    BY SameFacts
<1> QED
    BY <1>5, <1>6, <1>7, Zenon

-----------------------------------------------------------------------------
(* A context starts with the row of the last bar.                           *)

\* The context of a company says of its bar what the bar's row says.
LEMMA RowLeads == \A row, levels, sector : \A f \in DOMAIN row : ContextOf(row, levels, sector)[f] = row[f]
BY DEF ContextOf, Joined

\* A context has a last bar, and says what its row says.
LEMMA ContextRow ==
    ASSUME NEW market, NEW tickers, NEW sectors, NEW at,
           NEW c \in DOMAIN Contexts(market, tickers, sectors, at)
    PROVE  LET s == Bars(market, tickers[c], at)
           IN  /\ s # <<>>
               /\ \A f \in DOMAIN PriceRow(s, Len(s)) :
                      Contexts(market, tickers, sectors, at)[c][f] = PriceRow(s, Len(s))[f]
<1> DEFINE seen == [x \in {y \in DOMAIN market : Bars(market, y, at) # <<>>} |-> Bars(market, x, at)]
           universe == {tickers[x] : x \in DOMAIN tickers} \intersect DOMAIN seen
           sector(x) == IF x \in DOMAIN sectors THEN sectors[x] ELSE None
           of == {x \in DOMAIN tickers : tickers[x] \in universe}
           s == Bars(market, tickers[c], at)
<1>1. Contexts(market, tickers, sectors, at) =
        [x \in of |-> ContextOf(PriceRow(seen[tickers[x]], Len(seen[tickers[x]])),
                                Levels(seen, universe, tickers[x], "SPY", at),
                                Levels(seen, universe, tickers[x], sector(x), at))]
    BY Zenon DEF Contexts, ContextsIn
<1>2. c \in of
    <2> HIDE DEF of, seen, universe, sector
    <2> QED
        BY <1>1
<1>3. tickers[c] \in DOMAIN seen /\ seen[tickers[c]] = s /\ s # <<>>
    BY <1>2
<1> HIDE DEF seen, universe, of, sector, s
<1>4. \E levels, bench : Contexts(market, tickers, sectors, at)[c] = ContextOf(PriceRow(s, Len(s)), levels, bench)
    BY <1>1, <1>2, <1>3
<1> QED
    BY <1>3, <1>4, RowLeads DEF s

\* The invariant gives that the facts of bars do not move with what is learnt later.
LEMMA FactsHold == ASSUME RunsInv PROVE FactsStand
<1> SUFFICES ASSUME NEW d \in Done, NEW e \in Done, d < e
             PROVE
        LET then == TickerOf(inputs[d].identities, CloseOf(d))
            now == TickerOf(inputs[e].identities, CloseOf(e))
        IN  \A c \in DOMAIN snapshots[d].contexts \intersect DOMAIN now : then[c] = now[c] =>
                LET s == Bars(inputs[d].market, then[c], CloseOf(d))
                    t == Bars(inputs[e].market, now[c], CloseOf(e))
                    fact == snapshots[d].contexts[c]
                    row == PriceRow(t, Len(s))
                IN  Len(t) >= Len(s) /\ SubSeq(t, 1, Len(s)) = s /\ ~Broken(t) =>
                        \A f \in DOMAIN row : fact[f] = row[f]
    BY DEF FactsStand
<1> DEFINE then == TickerOf(inputs[d].identities, CloseOf(d))
           now == TickerOf(inputs[e].identities, CloseOf(e))
<1> SUFFICES ASSUME NEW c \in DOMAIN snapshots[d].contexts,
                    LET s == Bars(inputs[d].market, then[c], CloseOf(d))
                        t == Bars(inputs[e].market, now[c], CloseOf(e))
                    IN  Len(t) >= Len(s) /\ SubSeq(t, 1, Len(s)) = s /\ ~Broken(t)
             PROVE  LET s == Bars(inputs[d].market, then[c], CloseOf(d))
                        t == Bars(inputs[e].market, now[c], CloseOf(e))
                    IN  \A f \in DOMAIN PriceRow(t, Len(s)) : snapshots[d].contexts[c][f] = PriceRow(t, Len(s))[f]
    BY Zenon
<1> DEFINE s == Bars(inputs[d].market, then[c], CloseOf(d))
           t == Bars(inputs[e].market, now[c], CloseOf(e))
<1>1. /\ world \in Worlds
      /\ snapshots[d].contexts = Contexts(inputs[d].market, then, SectorsAt(inputs[d], CloseOf(d)), CloseOf(d))
      /\ \E n : inputs[d].market = MarketFile(world.market, d, CloseOf(n))
      /\ \E n : inputs[e].market = MarketFile(world.market, e, CloseOf(n))
    BY RunFacts DEF RunsInv
<1>2. IsBars(s) /\ IsBars(t)
    <2> HIDE DEF then, now
    <2> QED
        BY <1>1, BarsAre
<1>3. /\ s # <<>>
      /\ \A f \in DOMAIN PriceRow(s, Len(s)) : snapshots[d].contexts[c][f] = PriceRow(s, Len(s))[f]
    <2> HIDE DEF then
    <2> QED
        BY <1>1, ContextRow
<1>4. Len(t) >= Len(s) /\ SubSeq(t, 1, Len(s)) = s /\ ~Broken(t)
    OBVIOUS
<1> HIDE DEF s, t
<1>5. PriceRow(s, Len(s)) = PriceRow(t, Len(s))
    BY <1>2, <1>3, <1>4, PrefixGoesOn, SameRow
<1>6. \A f \in DOMAIN PriceRow(t, Len(s)) : snapshots[d].contexts[c][f] = PriceRow(t, Len(s))[f]
    BY <1>3, <1>5
<1> QED
    BY <1>6 DEF s, t

\* What a run says of a past purchase, day or period is what that day's own run
\* said: nothing looks ahead of the day it is about (features/pulse.py:509,
\* features/price.py:246, features/conviction.py:410).
THEOREM NothingLooksAhead == DailySpec => []RunsAgree
<1>1. DailyInit => RunsInv /\ ManifestInv
    BY RunsInit, ManifestInit
<1>2. RunsInv /\ ManifestInv /\ [DailyNext]_<<evaluationVars, dailyVars>> => RunsInv' /\ ManifestInv'
    BY ManifestNext, RunsNext DEF ManifestInv
<1>3. RunsInv => RunsAgree
    BY ScoresHold, FactsHold, PulseHolds DEF RunsAgree
<1> QED
    BY <1>1, <1>2, <1>3, PTL DEF DailySpec

-----------------------------------------------------------------------------
(* The inductive invariant. *)

\* Digests are taken of what a source sent.
GenuineInv ==
    /\ \A src \in Sources, s \in Symbols : disk[src][s].manifest.genuine
    /\ \A s \in Symbols, src \in Sources : call[s][src].payload.genuine
    /\ \A s \in Symbols : bars[s].genuine

\* A symbol is in one shard and at one place there.
PlacesInv ==
    /\ \A i \in 1..Shards : shard[i].waiting \cap shard[i].busy = {}
    /\ \A i, j \in 1..Shards :
          i # j => (shard[i].waiting \union shard[i].busy)
                     \cap (shard[j].waiting \union shard[j].busy) = {}

Open(s) == \E i \in 1..Shards : s \in shard[i].waiting \union shard[i].busy

\* Nothing is known yet of a symbol that is going to be refreshed.
OpenInv == \A s \in Symbols : Open(s) \/ failures[s] = Deferred =>
             bars[s] = Nothing /\ s \notin replayed /\ s \notin disagreed

ServedInv == \A s \in replayed : session \in DOMAIN bars[s].rows

IInv == TypeOK /\ GenuineInv /\ PlacesInv /\ OpenInv /\ ServedInv /\ DisagreementStands

-----------------------------------------------------------------------------
(* Lemmas about the operators *)

\* The payload of no answer is genuine and without rows.
LEMMA NothingType == Nothing \in Payloads /\ Nothing.genuine /\ Nothing.rows = <<>>
BY DEF Nothing, Payloads, Histories

\* What a source sends is a genuine payload.
LEMMA SentType ==
  ASSUME NEW src \in Sources, NEW s \in Symbols, NEW d \in 1..LastSession,
         NEW rows \in Answer(src, s, d)
  PROVE  Sent(rows) \in Payloads /\ Sent(rows).genuine
<1>1. rows \in Histories
  BY DEF Histories
<1> QED BY <1>1 DEF Sent, Payloads

\* A pass puts its symbols into the shards, each into one.
LEMMA CutFacts ==
  ASSUME NEW requested \in SUBSET Symbols
  PROVE  /\ Cut(requested) \in [1..Shards -> [waiting : SUBSET Symbols, busy : SUBSET Symbols,
                                              spent : BOOLEAN]]
         /\ \A i \in 1..Shards : Cut(requested)[i].waiting \subseteq requested
                                 /\ Cut(requested)[i].busy = {}
         /\ \A i, j \in 1..Shards :
              i # j => Cut(requested)[i].waiting \cap Cut(requested)[j].waiting = {}
<1> DEFINE position(s) == Cardinality({t \in requested : t < s})
           W(i) == {s \in requested : position(s) % Shards = i - 1}
<1>1. Cut(requested) = [i \in 1..Shards |-> [waiting |-> W(i), busy |-> {}, spent |-> FALSE]]
  BY DEF Cut
<1>2. \A i, j \in 1..Shards : i # j => W(i) \cap W(j) = {}
  <2> SUFFICES ASSUME NEW i \in 1..Shards, NEW j \in 1..Shards, NEW s \in W(i), s \in W(j)
               PROVE  i = j
    OBVIOUS
  <2>1. position(s) % Shards = i - 1 /\ position(s) % Shards = j - 1
    OBVIOUS
  <2> HIDE DEF position
  <2> QED BY <2>1, BoundsAssumption
<1>3. \A i \in 1..Shards : W(i) \subseteq requested
  OBVIOUS
<1> HIDE DEF W
<1> QED BY <1>1, <1>2, <1>3

\* A shard with other symbols waiting or in progress.
LEMMA WithWaiting ==
  ASSUME NEW x \in [waiting : SUBSET Symbols, busy : SUBSET Symbols, spent : BOOLEAN],
         NEW V \in SUBSET Symbols
  PROVE  /\ [x EXCEPT !.waiting = V] \in [waiting : SUBSET Symbols, busy : SUBSET Symbols,
                                          spent : BOOLEAN]
         /\ [x EXCEPT !.waiting = V].waiting = V /\ [x EXCEPT !.waiting = V].busy = x.busy
OBVIOUS

\* A shard with other busy symbols keeps the waiting ones.
LEMMA WithBusy ==
  ASSUME NEW x \in [waiting : SUBSET Symbols, busy : SUBSET Symbols, spent : BOOLEAN],
         NEW B \in SUBSET Symbols
  PROVE  /\ [x EXCEPT !.busy = B] \in [waiting : SUBSET Symbols, busy : SUBSET Symbols,
                                       spent : BOOLEAN]
         /\ [x EXCEPT !.busy = B].busy = B /\ [x EXCEPT !.busy = B].waiting = x.waiting
OBVIOUS

\* The initial state satisfies the invariant.
LEMMA InitInv == Init => IInv
<1> SUFFICES ASSUME Init PROVE IInv
  OBVIOUS
<1>1. shard = Cut({}) /\ \A i \in 1..Shards : shard[i].waiting = {} /\ shard[i].busy = {}
  BY CutFacts DEF Init
<1>2. TypeOK
  <2>1. shard \in [1..Shards -> [waiting : SUBSET Symbols, busy : SUBSET Symbols,
                                spent : BOOLEAN]]
    BY <1>1, CutFacts
  <2>2. disk \in [Sources -> [Symbols -> [payload : Payloads, manifest : Payloads]]]
    BY NothingType DEF Init
  <2>3. call \in [Symbols -> [Sources -> [at : {"none", "asked", "stored", "got", "failed"},
                                        payload : Payloads]]]
    BY NothingType DEF Init, NoCall
  <2>4. bars \in [Symbols -> Payloads] /\ replayed \subseteq Symbols /\ disagreed \subseteq Symbols
        /\ failures \in [Symbols -> {"", "MARKET_PROVIDER_UNAVAILABLE", Deferred}]
    BY NothingType DEF Init
  <2>5. session \in 1..LastSession /\ pass \in 0..3 /\ runs \in 0..MaxRuns
        /\ damaged \in 0..MaxDamage
    <3>1. session = 1 /\ pass = 0 /\ runs = 0 /\ damaged = 0
      BY DEF Init
    <3> QED BY <3>1, BoundsAssumption
  <2> QED BY <2>1, <2>2, <2>3, <2>4, <2>5 DEF TypeOK
<1>3. GenuineInv
  BY NothingType DEF Init, GenuineInv, NoCall
<1>4. PlacesInv
  BY <1>1 DEF PlacesInv
<1>5. OpenInv /\ ServedInv /\ DisagreementStands
  BY <1>1 DEF Init, OpenInv, Open, ServedInv, DisagreementStands, Deferred
<1> QED BY <1>2, <1>3, <1>4, <1>5 DEF IInv

-----------------------------------------------------------------------------
(* One step *)

\* What the sources sent, or the caches hold of it.
Sound(found) == \A a \in DOMAIN found : found[a] \in Payloads /\ found[a].genuine

Concluded(s, found) ==
  /\ bars' \in [Symbols -> Payloads]
  /\ failures' \in [Symbols -> {"", "MARKET_PROVIDER_UNAVAILABLE", Deferred}]
  /\ disagreed' \subseteq Symbols
  /\ \A t \in Symbols : bars'[t].genuine
  /\ \A t \in Symbols :
        t # s => /\ bars'[t] = bars[t] /\ failures'[t] = failures[t]
                 /\ t \in disagreed' <=> t \in disagreed
  /\ failures'[s] # Deferred
  /\ s \in disagreed' => bars'[s] = Nothing
  /\ CrossValid(found) /\ DOMAIN found # {}
       => \E a \in DOMAIN found : bars'[s] = found[a]

\* A worker is done with s: s is in no shard any more, and nothing is served of
\* it that its sources did not send.
LEMMA ConcludeKeeps ==
  ASSUME IInv, NEW s \in Symbols, NEW found,
         Sound(found),
         s \notin replayed, s \notin disagreed, bars[s] = Nothing, Conclude(s, found)
  PROVE  Concluded(s, found)
<1>1. CASE DOMAIN found # {} /\ CrossValid(found)
  <2>1. PICK a \in DOMAIN found : bars' = [bars EXCEPT ![s] = found[a]]
    BY <1>1 DEF Conclude
  <2>2. failures' = [failures EXCEPT ![s] = ""] /\ disagreed' = disagreed
    BY <1>1 DEF Conclude
  <2> QED BY <1>1, <2>1, <2>2 DEF IInv, TypeOK, GenuineInv, Deferred, Concluded, Sound
<1>2. CASE ~(DOMAIN found # {} /\ CrossValid(found))
  <2>1. /\ failures' = [failures EXCEPT ![s] = "MARKET_PROVIDER_UNAVAILABLE"]
        /\ disagreed' = disagreed \/ disagreed' = disagreed \union {s}
        /\ bars' = bars
    BY <1>2 DEF Conclude
  <2> QED BY <1>2, <2>1 DEF IInv, TypeOK, GenuineInv, Deferred, Concluded, Sound
<1> QED BY <1>1, <1>2

\* The shards after s left a place of shard i.
Left(i, s) ==
  /\ shard' \in [1..Shards -> [waiting : SUBSET Symbols, busy : SUBSET Symbols,
                               spent : BOOLEAN]]
  /\ s \in shard[i].waiting \union shard[i].busy
  /\ shard'[i].waiting = shard[i].waiting \ {s} /\ shard'[i].busy = shard[i].busy \ {s}
  /\ \A j \in 1..Shards : j # i => shard'[j] = shard[j]

\* When a symbol leaves its shard, each symbol still has one place at most, and none is opened.
LEMMA LeftPlaces ==
  ASSUME IInv, NEW i \in 1..Shards, NEW s \in Symbols, Left(i, s)
  PROVE  PlacesInv' /\ ~Open(s)' /\ \A t \in Symbols : Open(t)' => Open(t)
<1>1. PlacesInv'
  BY DEF IInv, PlacesInv, Left
<1>2. ~Open(s)'
  BY DEF IInv, PlacesInv, Left, Open
<1>3. \A t \in Symbols : Open(t)' => Open(t)
  BY DEF Left, Open
<1> QED BY <1>1, <1>2, <1>3

\* s is answered by the caches alone, with the session of the refresh.
Replays(s, found) ==
  /\ replayed' = replayed \union {s}
  /\ CrossValid(found) /\ DOMAIN found # {}
  /\ \A a \in DOMAIN found : session \in DOMAIN found[a].rows

\* s is done with: by a worker, or answered by the caches.
LEMMA DoneKeeps ==
  ASSUME IInv, NEW i \in 1..Shards, NEW s \in Symbols, Left(i, s), NEW found,
         Sound(found), Conclude(s, found), session' = session,
         replayed' = replayed \/ Replays(s, found)
  PROVE  /\ OpenInv' /\ ServedInv' /\ DisagreementStands' /\ PlacesInv'
         /\ Concluded(s, found)
<1>1. Open(s) /\ s \notin replayed /\ s \notin disagreed /\ bars[s] = Nothing
  BY DEF Left, Open, IInv, OpenInv
<1>2. Concluded(s, found)
  BY <1>1, ConcludeKeeps
<1>3. PlacesInv' /\ ~Open(s)' /\ \A t \in Symbols : Open(t)' => Open(t)
  BY LeftPlaces
<1>4. \A t \in Symbols : t # s => (t \in replayed' => t \in replayed)
  BY DEF Replays
<1>5. OpenInv'
  <2> SUFFICES ASSUME NEW t \in Symbols, Open(t)' \/ failures'[t] = Deferred
               PROVE  bars'[t] = Nothing /\ t \notin replayed' /\ t \notin disagreed'
    BY DEF OpenInv
  <2>1. t # s
    BY <1>2, <1>3 DEF Concluded
  <2>2. bars'[t] = bars[t] /\ failures'[t] = failures[t] /\ (t \in disagreed' <=> t \in disagreed)
    BY <1>2, <2>1 DEF Concluded
  <2>3. Open(t) \/ failures[t] = Deferred
    BY <1>3, <2>2
  <2>4. bars[t] = Nothing /\ t \notin replayed /\ t \notin disagreed
    BY <2>3 DEF IInv, OpenInv
  <2> QED BY <1>4, <2>1, <2>2, <2>4
<1>6. ServedInv'
  <2> SUFFICES ASSUME NEW t \in replayed' PROVE session' \in DOMAIN bars'[t].rows
    BY DEF ServedInv
  <2>1. CASE t = s
    <3>1. Replays(s, found)
      BY <1>1, <2>1
    <3>2. PICK a \in DOMAIN found : bars'[s] = found[a]
      BY <1>2, <3>1 DEF Concluded, Replays
    <3> QED BY <2>1, <3>1, <3>2 DEF Replays
  <2>2. CASE t # s
    <3>1. t \in replayed /\ t \in Symbols
      BY <2>2 DEF Replays, IInv, TypeOK
    <3>2. bars'[t] = bars[t]
      BY <1>2, <2>2, <3>1 DEF Concluded
    <3> QED BY <3>1, <3>2 DEF IInv, ServedInv
  <2> QED BY <2>1, <2>2
<1>7. DisagreementStands'
  BY <1>1, <1>2 DEF IInv, DisagreementStands, Concluded
<1> QED BY <1>2, <1>3, <1>5, <1>6, <1>7

\* Start keeps the invariant.
LEMMA StartKeeps == ASSUME IInv, Start PROVE IInv'
<1>1. Symbols \in SUBSET Symbols
  OBVIOUS
<1>2. shard' = Cut(Symbols)
  BY DEF Start
<1>3. TypeOK'
  <2>1. shard' \in [1..Shards -> [waiting : SUBSET Symbols, busy : SUBSET Symbols,
                                  spent : BOOLEAN]]
    BY <1>1, <1>2, CutFacts
  <2>2. session' \in 1..LastSession /\ pass' \in 0..3
    <3>1. session' \in {session, session + 1} \cap (1..LastSession) /\ pass' = 1
      BY DEF Start
    <3> QED BY <3>1
  <2>3. runs' \in 0..MaxRuns /\ damaged' \in 0..MaxDamage
    <3>1. runs \in 0..MaxRuns /\ damaged \in 0..MaxDamage
      BY DEF IInv, TypeOK
    <3>2. runs < MaxRuns /\ runs' = runs + 1 /\ damaged' = damaged
      BY DEF Start
    <3> QED BY <3>1, <3>2, BoundsAssumption
  <2>4. disk' = disk /\ call' = call
    BY DEF Start
  <2>5. bars' \in [Symbols -> Payloads] /\ replayed' \subseteq Symbols /\ disagreed' \subseteq Symbols
        /\ failures' \in [Symbols -> {"", "MARKET_PROVIDER_UNAVAILABLE", Deferred}]
    BY NothingType DEF Start
  <2> QED BY <2>1, <2>2, <2>3, <2>4, <2>5 DEF IInv, TypeOK
<1>4. GenuineInv'
  BY NothingType DEF IInv, GenuineInv, Start
<1>5. PlacesInv'
  BY <1>1, <1>2, CutFacts DEF PlacesInv
<1>6. OpenInv' /\ ServedInv' /\ DisagreementStands'
  BY DEF Start, OpenInv, ServedInv, DisagreementStands
<1> QED BY <1>3, <1>4, <1>5, <1>6 DEF IInv

\* Crash keeps the invariant.
LEMMA CrashKeeps == ASSUME IInv, Crash PROVE IInv'
<1>1. {} \in SUBSET Symbols
  OBVIOUS
<1>2. shard' = Cut({})
  BY DEF Crash
<1>3. TypeOK'
  <2>1. shard' \in [1..Shards -> [waiting : SUBSET Symbols, busy : SUBSET Symbols,
                                  spent : BOOLEAN]]
    BY <1>1, <1>2, CutFacts
  <2>2. session' = session /\ runs' = runs /\ damaged' = damaged /\ disk' = disk
    BY DEF Crash
  <2>5. pass' \in 0..3
    <3>1. pass' = 0
      BY DEF Crash
    <3> QED BY <3>1
  <2>3. call' \in [Symbols -> [Sources -> [at : {"none", "asked", "stored", "got", "failed"},
                                          payload : Payloads]]]
    BY NothingType DEF Crash, NoCall
  <2>4. bars' \in [Symbols -> Payloads] /\ replayed' \subseteq Symbols /\ disagreed' \subseteq Symbols
        /\ failures' \in [Symbols -> {"", "MARKET_PROVIDER_UNAVAILABLE", Deferred}]
    BY NothingType DEF Crash
  <2> QED BY <2>1, <2>2, <2>3, <2>4, <2>5 DEF IInv, TypeOK
<1>4. GenuineInv'
  BY NothingType DEF IInv, GenuineInv, Crash, NoCall
<1>5. PlacesInv'
  BY <1>1, <1>2, CutFacts DEF PlacesInv
<1>6. OpenInv' /\ ServedInv' /\ DisagreementStands'
  BY DEF Crash, OpenInv, ServedInv, DisagreementStands
<1> QED BY <1>3, <1>4, <1>5, <1>6 DEF IInv

\* Expire keeps the invariant.
LEMMA ExpireKeeps ==
  ASSUME IInv, NEW i \in 1..Shards, Expire(i) PROVE IInv'
<1>1. /\ shard' = [shard EXCEPT ![i].spent = TRUE]
      /\ UNCHANGED <<session, disk, pass, call, bars, replayed, failures, disagreed, runs,
                     damaged>>
  BY DEF Expire
<1>2. shard \in [1..Shards -> [waiting : SUBSET Symbols, busy : SUBSET Symbols, spent : BOOLEAN]]
  BY DEF IInv, TypeOK
<1>3. shard' \in [1..Shards -> [waiting : SUBSET Symbols, busy : SUBSET Symbols, spent : BOOLEAN]]
  BY <1>1, <1>2
<1>4. \A j \in 1..Shards : shard'[j].waiting = shard[j].waiting /\ shard'[j].busy = shard[j].busy
  BY <1>1, <1>2
<1>5. TypeOK'
  BY <1>1, <1>3 DEF IInv, TypeOK
<1>6. GenuineInv' /\ ServedInv' /\ DisagreementStands'
  BY <1>1 DEF IInv, GenuineInv, ServedInv, DisagreementStands
<1>7. PlacesInv'
  BY <1>4 DEF IInv, PlacesInv
<1>8. OpenInv'
  <2>1. \A t : Open(t)' => Open(t)
    BY <1>4 DEF Open
  <2> QED BY <1>1, <2>1 DEF IInv, OpenInv
<1> QED BY <1>5, <1>6, <1>7, <1>8 DEF IInv

\* EndPass keeps the invariant.
LEMMA EndPassKeeps == ASSUME IInv, EndPass PROVE IInv'
<1>1. UNCHANGED <<session, disk, call, bars, replayed, failures, disagreed, runs, damaged>>
  BY DEF EndPass
<1>2. pass' \in 0..3
  BY DEF EndPass, NextPass
<1>3. Pending \in SUBSET Symbols
  BY DEF Pending
<1>4. GenuineInv' /\ ServedInv' /\ DisagreementStands'
  BY <1>1 DEF IInv, GenuineInv, ServedInv, DisagreementStands
<1>5. CASE pass' = 2
  <2>1. shard' = Cut(Pending)
    BY <1>5 DEF EndPass
  <2>2. /\ shard' \in [1..Shards -> [waiting : SUBSET Symbols, busy : SUBSET Symbols,
                                     spent : BOOLEAN]]
        /\ PlacesInv'
    BY <1>3, <2>1, CutFacts DEF PlacesInv
  <2>3. TypeOK'
    BY <1>1, <1>2, <2>2 DEF IInv, TypeOK
  <2>4. \A t : Open(t)' => t \in Pending
    BY <1>3, <2>1, CutFacts DEF Open
  <2>5. OpenInv'
    BY <1>1, <2>4 DEF IInv, OpenInv, Pending
  <2> QED BY <1>4, <2>2, <2>3, <2>5 DEF IInv
<1>6. CASE pass' # 2
  <2>1. shard' = shard
    BY <1>6 DEF EndPass
  <2>2. TypeOK'
    BY <1>1, <1>2, <2>1 DEF IInv, TypeOK
  <2>3. PlacesInv' /\ OpenInv'
    BY <1>1, <2>1 DEF IInv, PlacesInv, OpenInv, Open
  <2> QED BY <1>4, <2>2, <2>3 DEF IInv
<1> QED BY <1>5, <1>6

\* The calls are typed.
LEMMA CallType ==
  ASSUME IInv
  PROVE  call \in [Symbols -> [Sources -> [at : {"none", "asked", "stored", "got", "failed"},
                                           payload : Payloads]]]
BY DEF IInv, TypeOK

\* The files are typed.
LEMMA DiskType ==
  ASSUME IInv
  PROVE  disk \in [Sources -> [Symbols -> [payload : Payloads, manifest : Payloads]]]
BY DEF IInv, TypeOK

\* A file whose payload or whose manifest is replaced.
LEMMA WithPayload ==
  ASSUME IInv, NEW src \in Sources, NEW s \in Symbols, NEW p \in Payloads,
         disk' = [disk EXCEPT ![src][s].payload = p]
  PROVE  /\ disk' \in [Sources -> [Symbols -> [payload : Payloads, manifest : Payloads]]]
         /\ \A x \in Sources, t \in Symbols : disk'[x][t].manifest = disk[x][t].manifest
BY DiskType

\* A genuine manifest leaves every other as it was.
LEMMA WithManifest ==
  ASSUME IInv, NEW src \in Sources, NEW s \in Symbols, NEW p \in Payloads, p.genuine,
         disk' = [disk EXCEPT ![src][s].manifest = p]
  PROVE  /\ disk' \in [Sources -> [Symbols -> [payload : Payloads, manifest : Payloads]]]
         /\ \A x \in Sources, t \in Symbols :
               disk'[x][t].manifest.genuine \/ disk'[x][t].manifest = disk[x][t].manifest
BY DiskType

\* The requests of a symbol, or one of them, replaced.
LEMMA WithCall ==
  ASSUME IInv, NEW s \in Symbols, NEW src \in Sources, NEW p \in Payloads, p.genuine,
         NEW at \in {"none", "asked", "stored", "got", "failed"},
         call' = [call EXCEPT ![s][src] = [at |-> at, payload |-> p]]
  PROVE  /\ call' \in [Symbols -> [Sources -> [at : {"none", "asked", "stored", "got", "failed"},
                                               payload : Payloads]]]
         /\ \A t \in Symbols, x \in Sources :
               call'[t][x].payload.genuine \/ call'[t][x].payload = call[t][x].payload
BY CallType

\* A call that moves on leaves every payload as it was.
LEMMA WithCallAt ==
  ASSUME IInv, NEW s \in Symbols, NEW src \in Sources,
         NEW at \in {"none", "asked", "stored", "got", "failed"},
         call' = [call EXCEPT ![s][src].at = at]
  PROVE  /\ call' \in [Symbols -> [Sources -> [at : {"none", "asked", "stored", "got", "failed"},
                                               payload : Payloads]]]
         /\ \A t \in Symbols, x \in Sources : call'[t][x].payload = call[t][x].payload
BY CallType

\* What does not touch the result and the shards.
RestUnchanged ==
  UNCHANGED <<session, pass, shard, bars, replayed, failures, disagreed, runs>>

\* A step of the files and the calls alone keeps the invariant when all are genuine.
LEMMA FilesKeep ==
  ASSUME IInv, RestUnchanged, damaged' \in 0..MaxDamage,
         disk' \in [Sources -> [Symbols -> [payload : Payloads, manifest : Payloads]]],
         call' \in [Symbols -> [Sources -> [at : {"none", "asked", "stored", "got", "failed"},
                                           payload : Payloads]]],
         \A x \in Sources, t \in Symbols : disk'[x][t].manifest.genuine,
         \A t \in Symbols, x \in Sources : call'[t][x].payload.genuine
  PROVE  IInv'
<1>1. TypeOK'
  BY DEF IInv, TypeOK, RestUnchanged
<1>2. GenuineInv'
  BY DEF IInv, GenuineInv, RestUnchanged
<1>3. PlacesInv' /\ ServedInv' /\ DisagreementStands'
  BY DEF IInv, PlacesInv, ServedInv, DisagreementStands, RestUnchanged
<1>4. OpenInv'
  BY DEF IInv, OpenInv, Open, RestUnchanged
<1> QED BY <1>1, <1>2, <1>3, <1>4 DEF IInv

\* The files and the calls are typed and genuine.
LEMMA FileTypes ==
  ASSUME IInv
  PROVE  /\ disk \in [Sources -> [Symbols -> [payload : Payloads, manifest : Payloads]]]
         /\ call \in [Symbols -> [Sources -> [at : {"none", "asked", "stored", "got", "failed"},
                                              payload : Payloads]]]
         /\ damaged \in 0..MaxDamage
         /\ \A x \in Sources, t \in Symbols : disk[x][t].manifest.genuine
         /\ \A t \in Symbols, x \in Sources : call[t][x].payload.genuine
BY DEF IInv, TypeOK, GenuineInv

\* Receive keeps the invariant.
LEMMA ReceiveKeeps ==
  ASSUME IInv, NEW s \in Symbols, NEW src \in Sources, Receive(s, src) PROVE IInv'
<1>1. RestUnchanged /\ damaged' = damaged
  BY DEF Receive, RestUnchanged
<1>2. CASE UNCHANGED disk /\ call' = [call EXCEPT ![s][src].at = "failed"]
  <2>1. /\ call' \in [Symbols -> [Sources -> [at : {"none", "asked", "stored", "got", "failed"},
                                              payload : Payloads]]]
        /\ \A t \in Symbols, x \in Sources : call'[t][x].payload = call[t][x].payload
    <3>1. call' = [call EXCEPT ![s][src].at = "failed"]
      BY <1>2
    <3> QED BY <3>1, WithCallAt
  <2> QED BY <1>1, <1>2, <2>1, FileTypes, FilesKeep
<1>3. CASE \E rows \in Answer(src, s, session) :
             /\ disk' = [disk EXCEPT ![src][s].payload = Sent(rows)]
             /\ call' = [call EXCEPT ![s][src] = [at |-> "stored", payload |-> Sent(rows)]]
  <2>1. PICK rows \in Answer(src, s, session) :
             /\ disk' = [disk EXCEPT ![src][s].payload = Sent(rows)]
             /\ call' = [call EXCEPT ![s][src] = [at |-> "stored", payload |-> Sent(rows)]]
    BY <1>3
  <2>2. Sent(rows) \in Payloads /\ Sent(rows).genuine
    BY SentType DEF IInv, TypeOK
  <2>3. /\ disk' \in [Sources -> [Symbols -> [payload : Payloads, manifest : Payloads]]]
        /\ \A x \in Sources, t \in Symbols : disk'[x][t].manifest = disk[x][t].manifest
    BY <2>1, <2>2, WithPayload
  <2>4. /\ call' \in [Symbols -> [Sources -> [at : {"none", "asked", "stored", "got", "failed"},
                                              payload : Payloads]]]
        /\ \A t \in Symbols, x \in Sources :
              call'[t][x].payload.genuine \/ call'[t][x].payload = call[t][x].payload
    BY <2>1, <2>2, WithCall
  <2> QED BY <1>1, <2>3, <2>4, FileTypes, FilesKeep
<1> QED BY <1>2, <1>3 DEF Receive

\* Certify keeps the invariant.
LEMMA CertifyKeeps ==
  ASSUME IInv, NEW s \in Symbols, NEW src \in Sources, Certify(s, src) PROVE IInv'
<1>1. RestUnchanged /\ damaged' = damaged
  BY DEF Certify, RestUnchanged
<1>2. CASE UNCHANGED disk /\ call' = [call EXCEPT ![s][src] =
                                       [at |-> "failed", payload |-> Nothing]]
  <2>1. /\ call' \in [Symbols -> [Sources -> [at : {"none", "asked", "stored", "got", "failed"},
                                              payload : Payloads]]]
        /\ \A t \in Symbols, x \in Sources :
              call'[t][x].payload.genuine \/ call'[t][x].payload = call[t][x].payload
    BY <1>2, NothingType, WithCall
  <2> QED BY <1>1, <1>2, <2>1, FileTypes, FilesKeep
<1>3. CASE /\ disk' = [disk EXCEPT ![src][s].manifest = call[s][src].payload]
           /\ call' = [call EXCEPT ![s][src].at = "got"]
  <2>1. call[s][src].payload \in Payloads /\ call[s][src].payload.genuine
    BY FileTypes
  <2>2. /\ disk' \in [Sources -> [Symbols -> [payload : Payloads, manifest : Payloads]]]
        /\ \A x \in Sources, t \in Symbols :
              disk'[x][t].manifest.genuine \/ disk'[x][t].manifest = disk[x][t].manifest
    <3>1. disk' = [disk EXCEPT ![src][s].manifest = call[s][src].payload]
      BY <1>3
    <3> DEFINE p == call[s][src].payload
    <3>2. p \in Payloads /\ p.genuine /\ disk' = [disk EXCEPT ![src][s].manifest = p]
      BY <2>1, <3>1
    <3> HIDE DEF p
    <3> QED BY <3>2, WithManifest
  <2>3. /\ call' \in [Symbols -> [Sources -> [at : {"none", "asked", "stored", "got", "failed"},
                                              payload : Payloads]]]
        /\ \A t \in Symbols, x \in Sources : call'[t][x].payload = call[t][x].payload
    <3>1. call' = [call EXCEPT ![s][src].at = "got"]
      BY <1>3
    <3> QED BY <3>1, WithCallAt
  <2> QED BY <1>1, <2>2, <2>3, FileTypes, FilesKeep
<1> QED BY <1>2, <1>3 DEF Certify

\* Damage keeps the invariant.
LEMMA DamageKeeps ==
  ASSUME IInv, NEW src \in Sources, NEW s \in Symbols, Damage(src, s) PROVE IInv'
<1>1. RestUnchanged /\ call' = call
  BY DEF Damage, RestUnchanged
<1>2. damaged' \in 0..MaxDamage
  <2>1. damaged < MaxDamage /\ damaged' = damaged + 1
    BY DEF Damage
  <2> QED BY <2>1, FileTypes, BoundsAssumption
<1> DEFINE p == [disk[src][s].payload EXCEPT !.genuine = FALSE]
<1>3. p \in Payloads
  <2>1. disk[src][s].payload \in Payloads
    BY DiskType
  <2> QED BY <2>1 DEF Payloads
<1>4. disk' = [disk EXCEPT ![src][s].payload = p]
  BY FileTypes DEF Damage
<1> HIDE DEF p
<1>5. /\ disk' \in [Sources -> [Symbols -> [payload : Payloads, manifest : Payloads]]]
      /\ \A x \in Sources, t \in Symbols : disk'[x][t].manifest = disk[x][t].manifest
  BY <1>3, <1>4, WithPayload
<1> QED BY <1>1, <1>2, <1>5, FileTypes, FilesKeep

\* The shards are typed; no symbol of one both waits and is busy.
LEMMA ShardType ==
  ASSUME IInv
  PROVE  /\ shard \in [1..Shards -> [waiting : SUBSET Symbols, busy : SUBSET Symbols,
                                     spent : BOOLEAN]]
         /\ \A i \in 1..Shards : shard[i].waiting \cap shard[i].busy = {}
BY DEF IInv, TypeOK, PlacesInv

\* A symbol that is taken off the waiting ones leaves its shard.
LEMMA LeavesWaiting ==
  ASSUME IInv, NEW i \in 1..Shards, NEW s \in Symbols, s \in shard[i].waiting,
         shard' = [shard EXCEPT ![i].waiting = @ \ {s}]
  PROVE  Left(i, s)
BY ShardType DEF Left

\* A symbol that is taken off the busy ones leaves its shard.
LEMMA LeavesBusy ==
  ASSUME IInv, NEW i \in 1..Shards, NEW s \in Symbols, s \in shard[i].busy,
         shard' = [shard EXCEPT ![i].busy = @ \ {s}]
  PROVE  Left(i, s)
BY ShardType DEF Left

\* A worker concluded on s, and nothing but s changed.
LEMMA ConcludedKeeps ==
  ASSUME IInv, NEW i \in 1..Shards, NEW s \in Symbols, Left(i, s), NEW found,
         Sound(found), Conclude(s, found), UNCHANGED <<session, disk, pass, runs, damaged>>,
         replayed' = replayed \/ Replays(s, found),
         call' \in [Symbols -> [Sources -> [at : {"none", "asked", "stored", "got", "failed"},
                                           payload : Payloads]]],
         \A t \in Symbols, x \in Sources : call'[t][x].payload.genuine
  PROVE  IInv'
<1>1. /\ OpenInv' /\ ServedInv' /\ DisagreementStands' /\ PlacesInv'
      /\ Concluded(s, found)
  BY DoneKeeps
<1>2. replayed' \subseteq Symbols
  BY DEF IInv, TypeOK, Replays
<1>3. TypeOK'
  <2>1. /\ bars' \in [Symbols -> Payloads] /\ disagreed' \subseteq Symbols
        /\ failures' \in [Symbols -> {"", "MARKET_PROVIDER_UNAVAILABLE", Deferred}]
    BY <1>1 DEF Concluded
  <2>2. shard' \in [1..Shards -> [waiting : SUBSET Symbols, busy : SUBSET Symbols,
                                  spent : BOOLEAN]]
    BY DEF Left
  <2> QED BY <1>2, <2>1, <2>2 DEF IInv, TypeOK
<1>4. GenuineInv'
  <2>1. \A t \in Symbols : bars'[t].genuine
    BY <1>1 DEF Concluded
  <2> QED BY <2>1 DEF IInv, GenuineInv
<1> QED BY <1>1, <1>3, <1>4 DEF IInv

\* Finish keeps the invariant.
LEMMA FinishKeeps ==
  ASSUME IInv, NEW i \in 1..Shards, NEW s \in Symbols, Finish(i, s) PROVE IInv'
<1> DEFINE got == {src \in Sources : call[s][src].at = "got"}
           found == [src \in got |-> call[s][src].payload]
<1>1. Left(i, s)
  BY LeavesBusy DEF Finish
<1>2. Conclude(s, found) /\ UNCHANGED <<session, disk, pass, runs, damaged>> /\ replayed' = replayed
  BY DEF Finish
<1>3. Sound(found)
  BY FileTypes DEF Sound
<1>4. call' = [call EXCEPT ![s] = NoCall]
  BY DEF Finish
<1>5. NoCall \in [Sources -> [at : {"none", "asked", "stored", "got", "failed"},
                             payload : Payloads]]
      /\ \A x \in Sources : NoCall[x].payload.genuine
  BY NothingType DEF NoCall
<1>6. call' \in [Symbols -> [Sources -> [at : {"none", "asked", "stored", "got", "failed"},
                                        payload : Payloads]]]
  BY <1>4, <1>5, CallType
<1>7. \A t \in Symbols, x \in Sources : call'[t][x].payload.genuine
  BY <1>4, <1>5, FileTypes
<1> HIDE DEF found
<1> QED BY <1>1, <1>2, <1>3, <1>6, <1>7, ConcludedKeeps

\* A symbol is deferred, answered by the caches, or asked of the sources.
LEMMA DeferKeeps ==
  ASSUME IInv, NEW i \in 1..Shards, NEW s \in Symbols, s \in shard[i].waiting,
         shard' = [shard EXCEPT ![i].waiting = @ \ {s}],
         failures' = [failures EXCEPT ![s] = Deferred],
         UNCHANGED <<call, bars, replayed, disagreed, session, disk, pass, runs, damaged>>
  PROVE  IInv'
<1>1. Left(i, s)
  BY LeavesWaiting
<1>2. PlacesInv' /\ ~Open(s)' /\ \A t \in Symbols : Open(t)' => Open(t)
  BY <1>1, LeftPlaces
<1>3. Open(s)
  BY DEF Open
<1>4. failures' \in [Symbols -> {"", "MARKET_PROVIDER_UNAVAILABLE", Deferred}]
      /\ \A t \in Symbols : t # s => failures'[t] = failures[t]
  BY DEF IInv, TypeOK
<1>5. OpenInv'
  BY <1>2, <1>3, <1>4 DEF IInv, OpenInv
<1>6. TypeOK'
  BY <1>1, <1>4 DEF IInv, TypeOK, Left
<1>7. GenuineInv' /\ ServedInv' /\ DisagreementStands'
  BY DEF IInv, GenuineInv, ServedInv, DisagreementStands
<1> QED BY <1>2, <1>5, <1>6, <1>7 DEF IInv

\* A symbol that is concluded from its cached files keeps the invariant.
LEMMA ReplayKeeps ==
  ASSUME IInv, NEW i \in 1..Shards, NEW s \in Symbols, s \in shard[i].waiting,
         Cached(s) # {}, NEW found, found = [src \in Cached(s) |-> disk[src][s].payload],
         shard' = [shard EXCEPT ![i].waiting = @ \ {s}], Conclude(s, found),
         replayed' = IF CrossValid(found) THEN replayed \union {s} ELSE replayed,
         UNCHANGED <<call, session, disk, pass, runs, damaged>>
  PROVE  IInv'
<1>1. Left(i, s)
  BY LeavesWaiting
<1>2. \A src \in Cached(s) : /\ src \in Sources
                             /\ disk[src][s].payload = disk[src][s].manifest
                             /\ session \in DOMAIN disk[src][s].payload.rows
  BY DEF Cached, CacheHasSession
<1>3. Sound(found)
  BY <1>2, FileTypes DEF Sound
<1>4. replayed' = replayed \/ Replays(s, found)
  BY <1>2 DEF Replays
<1> QED BY <1>1, <1>3, <1>4, FileTypes, ConcludedKeeps

\* A symbol whose sources are asked keeps the invariant.
LEMMA AskKeeps ==
  ASSUME IInv, NEW i \in 1..Shards, NEW s \in Symbols, s \in shard[i].waiting,
         shard' = [shard EXCEPT ![i].waiting = @ \ {s}, ![i].busy = @ \union {s}],
         call' = [call EXCEPT ![s] =
                    [src \in Sources |-> [at |-> "asked", payload |-> Nothing]]],
         UNCHANGED <<bars, replayed, failures, disagreed, session, disk, pass, runs, damaged>>
  PROVE  IInv'
<1>1. /\ shard' \in [1..Shards -> [waiting : SUBSET Symbols, busy : SUBSET Symbols,
                                   spent : BOOLEAN]]
      /\ shard'[i].waiting = shard[i].waiting \ {s} /\ shard'[i].busy = shard[i].busy \union {s}
      /\ \A j \in 1..Shards : j # i => shard'[j] = shard[j]
  <2> DEFINE V == shard[i].waiting \ {s}
             B == shard[i].busy \union {s}
             y == [[shard[i] EXCEPT !.waiting = V] EXCEPT !.busy = B]
  <2>1. shard' = [shard EXCEPT ![i] = y]
    BY ShardType
  <2>2. V \in SUBSET Symbols /\ B \in SUBSET Symbols
    BY ShardType
  <2>3. shard[i] \in [waiting : SUBSET Symbols, busy : SUBSET Symbols, spent : BOOLEAN]
    BY ShardType
  <2>4. /\ y \in [waiting : SUBSET Symbols, busy : SUBSET Symbols, spent : BOOLEAN]
        /\ y.waiting = V /\ y.busy = B
    <3> HIDE DEF V, B
    <3> QED BY <2>2, <2>3, WithWaiting, WithBusy
  <2> HIDE DEF y
  <2> QED BY <2>1, <2>4, ShardType
<1>2. \A j \in 1..Shards : shard'[j].waiting \union shard'[j].busy
                           = shard[j].waiting \union shard[j].busy
  BY <1>1
<1>3. PlacesInv'
  BY <1>1, <1>2 DEF IInv, PlacesInv
<1>4. OpenInv'
  <2>1. \A t : Open(t)' => Open(t)
    BY <1>2 DEF Open
  <2> QED BY <2>1 DEF IInv, OpenInv
<1>5. call' \in [Symbols -> [Sources -> [at : {"none", "asked", "stored", "got", "failed"},
                                        payload : Payloads]]]
  BY CallType, NothingType
<1>6. \A t \in Symbols, x \in Sources : call'[t][x].payload.genuine
  BY FileTypes, NothingType
<1>7. TypeOK'
  BY <1>1, <1>5 DEF IInv, TypeOK
<1>8. GenuineInv' /\ ServedInv' /\ DisagreementStands'
  BY <1>6 DEF IInv, GenuineInv, ServedInv, DisagreementStands
<1> QED BY <1>3, <1>4, <1>7, <1>8 DEF IInv

\* Begin keeps the invariant.
LEMMA BeginKeeps ==
  ASSUME IInv, NEW i \in 1..Shards, NEW s \in Symbols, Begin(i, s) PROVE IInv'
<1> DEFINE found == [src \in Cached(s) |-> disk[src][s].payload]
<1>1. s \in shard[i].waiting /\ UNCHANGED <<session, disk, pass, runs, damaged>>
  BY DEF Begin
<1>2. CASE /\ shard' = [shard EXCEPT ![i].waiting = @ \ {s}]
           /\ failures' = [failures EXCEPT ![s] = Deferred]
           /\ UNCHANGED <<call, bars, replayed, disagreed>>
  BY <1>1, <1>2, DeferKeeps
<1>3. CASE /\ Cached(s) # {}
           /\ shard' = [shard EXCEPT ![i].waiting = @ \ {s}]
           /\ Conclude(s, found)
           /\ replayed' = IF CrossValid(found) THEN replayed \union {s} ELSE replayed
           /\ UNCHANGED call
  BY <1>1, <1>3, ReplayKeeps
<1>4. CASE /\ shard' = [shard EXCEPT ![i].waiting = @ \ {s}, ![i].busy = @ \union {s}]
           /\ call' = [call EXCEPT ![s] =
                        [src \in Sources |-> [at |-> "asked", payload |-> Nothing]]]
           /\ UNCHANGED <<bars, replayed, failures, disagreed>>
  BY <1>1, <1>4, AskKeeps
<1> QED BY <1>2, <1>3, <1>4 DEF Begin

\* Every step keeps the invariant.
LEMMA NextKeeps == IInv /\ [Next]_vars => IInv'
<1> SUFFICES ASSUME IInv, [Next]_vars PROVE IInv'
  OBVIOUS
<1>1. CASE UNCHANGED vars
  BY <1>1 DEF vars, IInv, TypeOK, GenuineInv, PlacesInv, OpenInv, Open, ServedInv,
              DisagreementStands
<1>2. ASSUME NEW i \in 1..Shards, NEW s \in Symbols, Begin(i, s) PROVE IInv'
  BY <1>2, BeginKeeps
<1>3. ASSUME NEW i \in 1..Shards, NEW s \in Symbols, Finish(i, s) PROVE IInv'
  BY <1>3, FinishKeeps
<1>4. ASSUME NEW s \in Symbols, NEW src \in Sources, Receive(s, src) PROVE IInv'
  BY <1>4, ReceiveKeeps
<1>5. ASSUME NEW s \in Symbols, NEW src \in Sources, Certify(s, src) PROVE IInv'
  BY <1>5, CertifyKeeps
<1>6. ASSUME NEW i \in 1..Shards, Expire(i) PROVE IInv'
  BY <1>6, ExpireKeeps
<1>7. ASSUME NEW s \in Symbols, NEW src \in Sources, Damage(src, s) PROVE IInv'
  BY <1>7, DamageKeeps
<1>8. Start \/ EndPass \/ Crash => IInv'
  BY StartKeeps, EndPassKeeps, CrashKeeps
<1> QED BY <1>1, <1>2, <1>3, <1>4, <1>5, <1>6, <1>7, <1>8 DEF Next, Work

-----------------------------------------------------------------------------
(* The theorems *)

\* The invariant holds at all times.
LEMMA Invariant == Spec => []IInv
BY InitInv, NextKeeps, PTL DEF Spec

\* The caches, the shards, the requests and the result have their types: market_shards and
\* RedundantEODProvider._fetch_result (TypeOK).
THEOREM TypeCorrect == Spec => []TypeOK
<1>1. IInv => TypeOK
  BY DEF IInv
<1> QED BY <1>1, Invariant, PTL

\* A history served is one a source sent, whatever a crash between a payload and its manifest
\* or the disk made of a cache, and one served without a request holds the session of the
\* refresh: EODCache and RedundantEODProvider._cached_result (ServedIsVerified).
THEOREM ServesWhatWasSent == Spec => []ServedIsVerified
<1>1. IInv => ServedIsVerified
  BY DEF IInv, GenuineInv, ServedInv, ServedIsVerified
<1> QED BY <1>1, Invariant, PTL

\* Within a refresh, no shard, worker or recovery pass serves a symbol whose sources disagreed:
\* market_shards and redundant.py (DisagreementStands).
THEOREM DisagreementsStand == Spec => []DisagreementStands
<1>1. IInv => DisagreementStands
  BY DEF IInv
<1> QED BY <1>1, Invariant, PTL
=============================================================================
