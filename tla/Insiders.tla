------------------------------- MODULE Insiders -------------------------------
(***************************************************************************)
(* What the filed trades of insiders say of a purchase, an owner and an    *)
(* issuer on a day (features/conviction.py, cluster.py, opportunistic.py,  *)
(* cost_basis.py, divergence.py).                                          *)
(*                                                                         *)
(* A row has an id (its place among the rows), an issuer, an owner (0:     *)
(* none), a date, the instants accepted and known, a status and its        *)
(* validity, a code, whether it acquires or disposes (ad), a class, a      *)
(* table, its dollars, shares, price and the shares owned after it, the    *)
(* roles listed for the owner, and whether a plan made it.  Scores are     *)
(* whole points.                                                           *)
(***************************************************************************)
EXTENDS Orders

CONSTANTS HistoryDays,      \* 2 years
          FirstBuyDays,     \* 3 years
          ReentryDays,      \* 1 year
          MinPrior,         \* 4 trades
          Cadence,          \* 14..180 days between routine purchases
          ClusterDays,      \* 30
          ActivityDays,     \* 30
          MaxPeriods,       \* 120 periods of ActivityDays
          BasisDays,        \* 90
          SymbolicDollars   \* 1,000

RolePoints == [CEO |-> 100, CFO |-> 95, CHAIRMAN |-> 90, OFFICER |-> 75, DIRECTOR |-> 65,
               TEN_PERCENT_OWNER |-> 55] @@ ("OTHER" :> 35)

(* The first listed role that has points; then the title, then the relationship. *)
RoleOf(r) ==
    LET listed == {i \in DOMAIN r.roles : r.roles[i] \in DOMAIN RolePoints}
        ranked == <<"CEO", "CFO", "CHAIRMAN", "OFFICER", "DIRECTOR", "TEN_PERCENT_OWNER">>
        told == {i \in DOMAIN ranked : ranked[i] \in r.told}
    IN  IF listed # {} THEN r.roles[MinOf(listed)]
        ELSE IF told # {} THEN ranked[MinOf(told)] ELSE "OTHER"

DollarsOf(r) ==
    IF r.value # None THEN r.value
    ELSE IF r.shares # None /\ r.price # None THEN r.shares * r.price ELSE None

(* A row that the day could not have seen fails the whole run. *)
RowsAhead(rows, at) ==
    \E r \in rows : r.date = None \/ r.date > DayOf(at) \/ After(r.accepted, at) \/ After(r.known, at)

Effective(r, at) ==
    /\ r.status \in {"ACTIVE", "SUPERSEDED"}
    /\ ~After(r.from, at)
    /\ IF r.to = None THEN r.status = "ACTIVE" ELSE at < r.to

IsActive(r) == r.status = "ACTIVE"
IsBuy(r) == r.ad \in {"", "A"} /\ (r.code = "P" \/ r.class = "OPEN_MARKET_PURCHASE")
IsSale(r) == r.ad \in {"", "D"} /\ (r.code = "S" \/ r.class = "OPEN_MARKET_SALE")

Live(rows, at) == {r \in rows : Effective(r, at)}

\* Mutant: the trades of the same day, and of later days, count as history.
OwnPastAnyDay(rows, r) == {q \in rows \ {r} : q.issuer = r.issuer /\ q.owner = r.owner}

OwnPast(rows, r) == {q \in rows : q.issuer = r.issuer /\ q.owner = r.owner /\ q.date < r.date}
PastBuys(rows, r) == {q \in OwnPast(rows, r) : IsBuy(q)}

-----------------------------------------------------------------------------
(* Conviction: how much one purchase says.                                  *)

DollarPercentile(value, prior) ==
    LET past == {q \in prior : DollarsOf(q) # None /\ DollarsOf(q) >= 0}
        less == Cardinality({q \in past : DollarsOf(q) < value})
        same == Cardinality({q \in past : DollarsOf(q) = value})
    IN  IF value = None \/ value < 0 \/ past = {} THEN None
        ELSE (50 * (2 * less + same + 1)) \div Cardinality(past)

(* The shares after the latest earlier trade that says so, the first row of its day. *)
PreviousPost(rows, r) ==
    LET said == {q \in OwnPast(rows, r) : q.post # None}
        latest == {q \in said : \A p \in said : p.date <= q.date}
    IN  IF said = {} THEN None ELSE (CHOOSE q \in latest : \A p \in latest : q.id <= p.id).post

OwnershipIncrease(post, previous, shares) ==
    IF post # None /\ previous # None THEN Points(post > previous, 100)
    ELSE IF shares # None THEN Points(shares > 0, 100) ELSE None

IsLargest(value, prior) ==
    value # None /\ \A q \in prior : DollarsOf(q) # None => value > DollarsOf(q)

Averaging(drawdown, prior, price) ==
    LET depth == IF drawdown <= -20 THEN 100 ELSE Points(drawdown < 0, 50)
        below == price # None /\ \E q \in prior : q.price # None /\ price < q.price
    IN  IF drawdown = None THEN None ELSE Clamp(depth + Points(below, 15))

Penalty(r, routine) ==
    Points(r.plan, 15) + Points(routine, 10)
      + Points(DollarsOf(r) # None /\ DollarsOf(r) <= SymbolicDollars, 10)

Conviction(rows, r, cluster, drawdown, routine) ==
    LET prior == PastBuys(rows, r)
        percentile == DollarPercentile(DollarsOf(r), prior)
        own == OwnershipIncrease(r.post, PreviousPost(rows, r), r.shares)
        largest == IsLargest(DollarsOf(r), prior)
        average == Averaging(drawdown, prior, r.price)
        known == <<percentile, own, average, cluster>>
        seen == Cardinality({i \in DOMAIN known : known[i] # None})
        weighted == 4 * RolePoints[RoleOf(r)] + 4 * Neutral(percentile) + 3 * Neutral(own)
                      + 3 * Points(prior = {}, 100) + 2 * Points(largest, 100)
                      + 2 * Neutral(average) + 2 * Neutral(cluster)
    IN  [score |-> Clamp(weighted \div 20 - Penalty(r, routine)),
         reasons |-> {c \in {"FIRST_BUY", "LARGEST_BUY"} :
                        (c = "FIRST_BUY" /\ prior = {}) \/ (c = "LARGEST_BUY" /\ largest)},
         confidence |-> IF seen >= 3 THEN "HIGH" ELSE IF seen >= 1 THEN "MEDIUM" ELSE "LOW"]

-----------------------------------------------------------------------------
(* Clusters of buyers, and routine or opportunistic buyers.                 *)

ActiveBuys(rows, at) == {r \in Live(rows, at) : IsActive(r) /\ IsBuy(r)}

ClusterOwners(buys, r) ==
    {q.owner : q \in {p \in buys : p.issuer = r.issuer
                                     /\ p.date \in (r.date - ClusterDays)..r.date}} \ {0}

ClusterScore(buys, r) ==
    LET n == Cardinality(ClusterOwners(buys, r))
    IN  IF n >= 3 THEN 100 ELSE Points(n >= 2, 70)

(* Both readers of the cluster context take its first row for the issuer, and it is *)
(* sorted by date: every purchase is scored with the cluster of the first one.      *)
ClusterContext(buys, issuer) ==
    LET of == {r \in buys : r.issuer = issuer}
        before(p, q) == \/ p.date < q.date
                        \/ p.date = q.date /\ (p.owner < q.owner \/ (p.owner = q.owner /\ p.id < q.id))
    IN  IF of = {} THEN None
        ELSE ClusterScore(buys, CHOOSE r \in of : \A q \in of \ {r} : before(r, q))

(* A sequence of positive numbers varies by at most num / den of its mean. *)
VariesAtMost(seq, num, den) ==
    LET n == Len(seq)
        sum == FoldLeft(LAMBDA a, x : a + x, 0, seq)
        squares == FoldLeft(LAMBDA a, x : a + x * x, 0, seq)
    IN  n > 0 /\ sum > 0 /\ den * den * n * squares <= (den * den + num * num) * sum * sum

Median2Of(seq) == LET n == Len(seq) IN seq[(n + 1) \div 2] + seq[(n + 2) \div 2]

(* Gaps between days of purchase; the purchases of one day leave no gap. *)
Gaps(buys) ==
    LET days == InOrderOf({q.date : q \in buys}, <)
        gap == [i \in 1..(Len(days) - 1) |-> days[i + 1] - days[i]]
    IN  IF Len(days) < 2 THEN <<>> ELSE SortSeq(gap, <)

IsRoutine(prior) ==
    LET gaps == Gaps(prior)
        paid == {q \in prior : DollarsOf(q) # None /\ DollarsOf(q) > 0}
        values == [i \in 1..Cardinality(paid) |-> DollarsOf(InOrderOf(paid, LAMBDA p, q : p.id < q.id)[i])]
    IN  /\ gaps # <<>> /\ VariesAtMost(gaps, 1, 2) /\ VariesAtMost(values, 3, 4)
        /\ Median2Of(gaps) \in (2 * MinOf(Cadence))..(2 * MaxOf(Cadence))

Opportunistic(eligible, r) ==
    LET past == OwnPast(eligible, r)
        prior == PastBuys(eligible, r)
        first == \A q \in prior : q.date < r.date - FirstBuyDays
        reentry == prior # {} /\ \A q \in prior : r.date - q.date >= ReentryDays
        little == Cardinality({q \in past : q.date >= r.date - HistoryDays}) < MinPrior
    IN  [first |-> first,
         score |-> IF little /\ ~(first \/ reentry) THEN 50
                   ELSE IF first \/ reentry THEN 90
                   ELSE IF IsRoutine(prior) THEN 20 ELSE 80]

-----------------------------------------------------------------------------
(* The price insiders paid, and what a later price makes of it.              *)

QualifiedBuys(rows, at) ==
    {r \in Live(rows, at) : /\ IsBuy(r) /\ r.table = "NON_DERIVATIVE"
                            /\ r.shares # None /\ r.shares > 0 /\ r.price # None /\ r.price > 0}

(* The shares and dollars of a window; an owner of None stands for every owner. *)
Basis(rows, at, window, issuer, owner) ==
    LET of == {r \in QualifiedBuys(rows, at) :
                  /\ r.issuer = issuer /\ owner \in {None, r.owner}
                  /\ r.date \in (DayOf(at) - window)..DayOf(at)}
    IN  [shares |-> MapThenSumSet(LAMBDA r : r.shares, of),
         dollars |-> MapThenSumSet(LAMBDA r : r.shares * r.price, of)]

-----------------------------------------------------------------------------
(* Divergence: insiders buy more while the price is weak.                    *)

Weakness(return, drawdown) ==
    LET scores == (IF return = None THEN {} ELSE {Clamp(-5 * return)})
                    \union (IF drawdown = None THEN {} ELSE {Clamp((-5 * drawdown) \div 2)})
    IN  IF scores = {} THEN None ELSE MaxOf(scores)

SpentIn(rows, first, last) ==
    LET dollars(r) == IF DollarsOf(r) = None \/ DollarsOf(r) < 0 THEN 0 ELSE DollarsOf(r)
    IN  MapThenSumSet(dollars, {r \in rows : IsBuy(r) /\ r.date \in first..last})

(* The purchases of the periods before the current one, until no row is older. *)
EarlierActivity(rows, start) ==
    LET first(k) == start - k * ActivityDays
        done(k) == k = MaxPeriods \/ \A r \in rows : r.date >= first(k)
        last == CHOOSE k \in 1..MaxPeriods : done(k) /\ \A j \in 1..(k - 1) : ~done(j)
    IN  [k \in 1..last |-> SpentIn(rows, first(k), first(k) + ActivityDays - 1)]

ActivityPercentile(spent, history) ==
    LET less == Cardinality({k \in DOMAIN history : history[k] < spent})
        same == Cardinality({k \in DOMAIN history : history[k] = spent})
    IN  Clamp((50 * (2 * less + same + 1)) \div Len(history))

Acceleration(spent, previous) ==
    IF previous <= 0 THEN Points(spent > 0, 100) ELSE Clamp((100 * spent) \div previous - 100)

Divergence(rows, at, issuer, weakness, cluster) ==
    LET own == {r \in Live(rows, at) : IsActive(r) /\ r.issuer = issuer}
        start == DayOf(at) - ActivityDays + 1
        spent == SpentIn(own, start, DayOf(at))
        sales == {r \in own : /\ IsSale(r) /\ r.date >= start
                              /\ DollarsOf(r) # None /\ DollarsOf(r) > 0}
        history == EarlierActivity(own, start)
        faster == Acceleration(spent, history[1])
    IN  [weakness |-> weakness, activity |-> ActivityPercentile(spent, history),
         faster |-> IF cluster # None /\ cluster > faster THEN cluster ELSE faster,
         noSales |-> Points(sales = {}, 100)]
=============================================================================
