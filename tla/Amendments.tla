----------------------------- MODULE Amendments ------------------------------
(***************************************************************************)
(* Point-in-time resolution of amendment chains                            *)
(* (normalization/amendments.py).  The rows known at an instant are taken  *)
(* in the order they became known; an amendment replaces exactly one       *)
(* earlier revision of the same row or is quarantined.                     *)
(***************************************************************************)
EXTENDS Filings, SequencesExt

(* _order: the instants, then the accession and the revision. *)
OrderKey(r) == <<r.knowledge, r.recorded, r.accession, r.owner,
                 IF r.table = "DERIVATIVE" THEN 0 ELSE 1, r.seq, r.hash>>

Before(a, b) ==
    LET x == OrderKey(a)
        y == OrderKey(b)
    IN  \E i \in 1..Len(x) : x[i] < y[i] /\ \A j \in 1..(i - 1) : x[j] = y[j]

RowOf(r) == <<r.owner, r.table, r.seq>>
SameRow(a, b) == a.cik = b.cik /\ RowOf(a) = RowOf(b)
ContentIdentity(r) == <<r.accession, RowOf(r), r.hash>>

(* A redelivered row is the one that was known first. *)
KnownAt(records, asOf) == {r \in records : r.knowledge <= asOf}
Distinct(records) ==
    {CHOOSE r \in records : /\ ContentIdentity(r) = identity
                            /\ \A q \in records : ContentIdentity(q) = identity => ~Before(q, r) :
        identity \in {ContentIdentity(r) : r \in records}}

(* The predecessor of an amendment among the revisions so far, or why there is none. *)
Declared(revisions, r) ==
    LET found == {p \in revisions : p.rid = r.supersedes}
    IN  IF found = {} THEN [code |-> "UNRESOLVED_AMENDMENT"]
        ELSE LET p == CHOOSE q \in found : TRUE
             IN  IF ~SameRow(p, r) THEN [code |-> "AMENDMENT_IDENTITY_MISMATCH"]
                 ELSE IF r.amends \notin {None, p.accession} THEN [code |-> "AMENDMENT_LINK_CONFLICT"]
                 ELSE [code |-> None, row |-> p]

ByRow(revisions, r) ==
    LET accession == IF r.amends = None THEN r.accession ELSE r.amends
        found == {p \in revisions : p.accession = accession /\ SameRow(p, r)}
    IN  IF found = {} THEN [code |-> "UNRESOLVED_AMENDMENT"]
        ELSE IF Cardinality(found) > 1 THEN [code |-> "AMBIGUOUS_AMENDMENT"]
        ELSE [code |-> None, row |-> CHOOSE p \in found : TRUE]

Predecessor(revisions, r) ==
    LET found == IF r.supersedes # None THEN Declared(revisions, r) ELSE ByRow(revisions, r)
        from == Later(r.validFrom, r.knowledge)
    IN  IF found.code # None THEN found
        ELSE IF found.row.status = "SUPERSEDED" THEN [code |-> "AMENDMENT_CHAIN_FORK"]
        ELSE IF from < found.row.validFrom THEN [code |-> "AMENDMENT_TIME_CONFLICT"]
        ELSE found

Correct(revisions, p, r) ==
    LET from == Later(r.validFrom, r.knowledge)
    IN  (revisions \ {p}) \union
           {[p EXCEPT !.status = "SUPERSEDED", !.validTo = from],
            [r EXCEPT !.tid = p.tid, !.rid = <<p.rid, r.accession, r.hash>>,
                      !.revision = p.revision + 1, !.amendment = TRUE,
                      !.supersedes = p.rid, !.validFrom = from]}

ResolveRow(state, r) ==
    IF ~r.amendment THEN [state EXCEPT !.revisions = @ \union {r}]
    ELSE LET found == Predecessor(state.revisions, r)
         IN  IF found.code = None
             THEN [state EXCEPT !.revisions = Correct(@, found.row, r)]
             ELSE [state EXCEPT !.rejected = @ \union {[row |-> r, code |-> found.code]}]

InOrder(records) ==
    [i \in 1..Cardinality(records) |->
        CHOOSE r \in records : Cardinality({q \in records : Before(q, r)}) = i - 1]

NoRevisions == [revisions |-> {}, rejected |-> {}]
Replay(rows) ==
    LET upTo[i \in 0..Len(rows)] ==
            IF i = 0 THEN NoRevisions ELSE ResolveRow(upTo[i - 1], rows[i])
    IN  upTo[Len(rows)]

Resolve(records, asOf) == Replay(InOrder(Distinct(KnownAt(records, asOf))))

IsEffective(r, asOf) ==
    /\ r.status = "ACTIVE" /\ r.knowledge <= asOf /\ r.validFrom <= asOf
    /\ r.validTo = None \/ asOf < r.validTo

(* The latest effective revision of each transaction. *)
Effective(resolution, asOf) ==
    LET rows == {r \in resolution.revisions : IsEffective(r, asOf)}
    IN  {r \in rows : \A q \in rows : q.tid = r.tid => ~Before(r, q)}

=============================================================================
