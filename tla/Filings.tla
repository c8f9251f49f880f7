------------------------------- MODULE Filings -------------------------------
(***************************************************************************)
(* An SEC ownership document and the canonical rows made of it             *)
(* (ingestion/sec/parser.py, domain/models.py).                            *)
(*                                                                         *)
(* A document is a record of what the parser tells apart.  A number that   *)
(* cannot be read is Bad, an element that is absent is None.  A document   *)
(* that is refused gives one quarantine; otherwise every row gives, for    *)
(* every owner, a canonical row or a quarantine of that row alone.         *)
(***************************************************************************)
EXTENDS Integers, Sequences, FiniteSets

CONSTANTS None, Bad

TableTypes == {"NON_DERIVATIVE", "DERIVATIVE"}
Forms == {"3", "3/A", "4", "4/A", "5", "5/A"}

(* The first reason that applies, in the order the parser asks. *)
First(reasons) ==
    LET holding == {i \in 1..Len(reasons) : reasons[i].holds}
    IN  IF holding = {} THEN None
        ELSE reasons[CHOOSE i \in holding : \A j \in holding : i <= j].code

Reason(code, holds) == [code |-> code, holds |-> holds]

DocumentFault(d) == First(<<
    Reason("INVALID_PAYLOAD",         d.payload = "type"),
    Reason("PAYLOAD_TOO_LARGE",       d.payload = "large"),
    Reason("UNSAFE_XML",              d.payload = "dtd"),
    Reason("INVALID_XML",             d.payload = "broken"),
    Reason("UNSUPPORTED_DOCUMENT",    d.payload = "otherRoot"),
    Reason("XML_NESTING_LIMIT",       d.payload = "deep"),
    Reason("INVALID_ACCESSION",       d.accession = Bad),
    Reason("MISSING_ISSUER",          d.cik \in {None, Bad} \/ ~d.named),
    Reason("UNSUPPORTED_FORM",        d.form \notin Forms),
    Reason("INVALID_SOURCE_URL",      d.url = Bad),
    Reason("INVALID_AMENDMENT_LINK",  Bad \in {d.amends, d.supersedes}),
    Reason("MISSING_OWNER",           d.owners = <<>>),
    Reason("TRANSACTION_ROW_LIMIT",   d.payload = "manyRows") >>)

(* Owners without a name or a CIK are quarantined; the others own every row. *)
OwnerFault(o) == First(<< Reason("MISSING_OWNER_IDENTITY", ~o.named),
                          Reason("MISSING_OWNER_CIK", o.cik \in {None, Bad}) >>)

Owners(d) == {i \in 1..Len(d.owners) : OwnerFault(d.owners[i]) = None}

(* Roles are read from the words of the title and from the relationship flags. *)
Roles(o) == (o.title \intersect {"CEO", "CFO", "CHAIRMAN"})
              \union (o.flags \intersect {"DIRECTOR", "OFFICER", "TEN_PERCENT_OWNER", "OTHER"})

Known(n) == IF n = Bad THEN None ELSE n        \* _decimal: None unless finite and not negative

(* Rule 10b5-1: the box of the document, or a footnote of the row that names the rule. *)
DocumentPlan(d) == IF d.planBox = None THEN "UNKNOWN" ELSE d.planBox
RowPlan(d, row) ==
    IF DocumentPlan(d) = "TRUE" \/ row.notes \intersect d.planNotes # {}
    THEN "TRUE" ELSE DocumentPlan(d)

Classes == [P |-> "OPEN_MARKET_PURCHASE", S |-> "OPEN_MARKET_SALE", A |-> "AWARD",
            M |-> "OPTION_EXERCISE", G |-> "GIFT", F |-> "TAX_WITHHOLDING",
            T |-> "TRANSFER", X |-> "TRANSFER"]

Classify(code) == IF code \in DOMAIN Classes THEN Classes[code] ELSE "OTHER"

EconomicClass(code, side) ==
    LET class == IF code = None THEN "UNKNOWN" ELSE Classify(code)
    IN  IF class = "AWARD" THEN "GRANT_AWARD"
        ELSE IF class \notin {"TRANSFER", "OTHER"} THEN class
        ELSE IF side = "A" THEN "OTHER_ACQUISITION" ELSE "OTHER_DISPOSITION"

(* What one row must have.  A derivative without a share count may give a total value. *)
RowReadable(row, table) ==
    /\ row.title # None /\ row.date \notin {None, Bad}
    /\ row.code # Bad
    /\ row.code # None \/ table = "DERIVATIVE"
    /\ row.side \in {"A", "D"}
    /\ row.ownership \in {"D", "I"}
    /\ \/ Known(row.shares) # None
       \/ table = "DERIVATIVE" /\ row.shares = None /\ Known(row.total) # None
    /\ row.price # Bad /\ row.post # Bad

RowValue(row) ==
    IF Known(row.shares) = None THEN Known(row.total)
    ELSE IF Known(row.price) = None THEN None
    ELSE row.shares * row.price

Derivation(row) ==
    IF Known(row.shares) = None THEN "SOURCE"
    ELSE IF Known(row.price) = None THEN "UNAVAILABLE"
    ELSE "SHARES_TIMES_PRICE"

SchemaVersion(row) ==
    IF row.code = None THEN "1.2.0" ELSE IF Known(row.shares) = None THEN "1.1.0" ELSE "1.0.0"

(* canonical_quantity: the model refuses a row its schema version does not describe. *)
Canonical(r) ==
    CASE r.schema = "1.0.0" -> r.shares # None /\ r.code # None
      [] r.schema = "1.1.0" -> /\ r.table = "DERIVATIVE" /\ r.code # None
                               /\ r.shares = None /\ r.value # None
                               /\ r.derivation = "SOURCE"
      [] r.schema = "1.2.0" -> /\ r.table = "DERIVATIVE" /\ r.code = None
                               /\ r.shares # None
                               /\ r.economic = "UNKNOWN"

Flags(d, row) ==
    (IF d.ticker = Bad THEN {"UNRESOLVED_ISSUER_TICKER"} ELSE {})
      \union (IF row.code = None THEN {"MISSING_TRANSACTION_CODE"} ELSE {})
      \union (IF Known(row.price) = None THEN {"MISSING_PRICE"} ELSE {})

(* The source times: nothing is known before it was observed or accepted. *)
Later(a, b) == IF b = None \/ a >= b THEN a ELSE b

CanonicalRow(d, table, n, o) ==
    LET row == d.rows[table][n]
        tid == <<d.accession, d.owners[o].cik, table, n>>
        recorded == IF d.recorded = None THEN d.observed ELSE d.recorded
    IN  [tid |-> tid, rid |-> <<tid, d.hash>>, schema |-> SchemaVersion(row),
         accession |-> d.accession, owner |-> d.owners[o].cik, table |-> table, seq |-> n,
         hash |-> d.hash, cik |-> d.cik, ticker |-> Known(d.ticker),
         roles |-> Roles(d.owners[o]), title |-> row.title, date |-> row.date,
         code |-> row.code, side |-> row.side, shares |-> Known(row.shares),
         price |-> Known(row.price), value |-> RowValue(row), derivation |-> Derivation(row),
         post |-> Known(row.post), ownership |-> row.ownership,
         economic |-> IF row.code = None THEN "UNKNOWN" ELSE EconomicClass(row.code, row.side),
         plan |-> RowPlan(d, row), flags |-> Flags(d, row),
         accepted |-> d.accepted, observed |-> d.observed,
         knowledge |-> Later(d.observed, d.accepted), recorded |-> recorded,
         amendment |-> d.form \in {"3/A", "4/A", "5/A"},
         amends |-> d.amends, supersedes |-> d.supersedes,
         revision |-> 1, status |-> "ACTIVE", validFrom |-> recorded, validTo |-> None]

RowKeys(d) == UNION {{table} \X (1..Len(d.rows[table])) \X Owners(d) : table \in TableTypes}

RowAccepted(d, key) ==
    /\ RowReadable(d.rows[key[1]][key[2]], key[1])
    /\ Canonical(CanonicalRow(d, key[1], key[2], key[3]))

Records(d) ==
    IF DocumentFault(d) # None THEN {}
    ELSE {CanonicalRow(d, key[1], key[2], key[3]) : key \in {k \in RowKeys(d) : RowAccepted(d, k)}}

Quarantines(d) ==
    IF DocumentFault(d) # None THEN {<<DocumentFault(d)>>}
    ELSE {<<OwnerFault(d.owners[o]), o>> : o \in (1..Len(d.owners)) \ Owners(d)}
           \union {<<"INVALID_TRANSACTION", key>> : key \in {k \in RowKeys(d) : ~RowAccepted(d, k)}}

=============================================================================
