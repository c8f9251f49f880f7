------------------------------- MODULE Identity -------------------------------
(***************************************************************************)
(* Who an issuer is, and since when that is known                          *)
(* (normalization/identity.py, pipeline/identity_observations.py,          *)
(* ingestion/sec/identity.py and the market universe of                    *)
(* pipeline/live_inputs.py).  Dates and instants share one clock.          *)
(***************************************************************************)
EXTENDS Filings

CONSTANTS Sector,       \* the sector ETF of an industry code, "UNKNOWN" for the others
          Year          \* the length of a year on the clock (365 days)

Holding(reasons) == {reasons[i].code : i \in {j \in 1..Len(reasons) : reasons[j].holds}}

(* Security titles: the words _COMMON looks for, and the words of _EXCLUDED_TEXT. *)
CommonTitle(title) == title \in {"COMMON", "COMMON_UNIT"}
ExcludedTitle(title) == title \in {"COMMON_UNIT", "PREFERRED"}

(* A ticker is valid during [from, to), and usable once it is known. *)
ValidAt(interval, asOf) ==
    IF asOf = None THEN interval.known = None
    ELSE /\ interval.known # None => interval.known <= asOf
         /\ interval.from # None => interval.from <= asOf
         /\ interval.to # None => asOf < interval.to

From(interval) == IF interval.from = None THEN 0 ELSE interval.from

(* The latest interval; an open end wins, then the larger ticker. *)
Newest(intervals) ==
    CHOOSE i \in intervals : \A j \in intervals :
        \/ From(j) < From(i)
        \/ From(j) = From(i) /\ (j.to = None => i.to = None)
                             /\ ((j.to = None) = (i.to = None) => j.ticker <= i.ticker)

(* IssuerIdentityIndex.resolve_ticker: the current map of the SEC is not a     *)
(* history; at an instant it serves only when it was known by then.            *)
ResolveTicker(index, cik, asOf, filing) ==
    LET current == {m \in index.current : m.cik = cik}
        valid == {i \in index.intervals : i.cik = cik /\ ValidAt(i, asOf)}
        knownBy(at) == at # None /\ asOf # None /\ at <= asOf
        mapped == CHOOSE m \in current : \A n \in current : m.ticker <= n.ticker
    IN  IF filing.ticker # None /\ (asOf = None \/ knownBy(filing.known))
        THEN [ticker |-> filing.ticker, method |-> "filing_preferred"]
        ELSE IF current # {} /\ asOf = None
        THEN [ticker |-> mapped.ticker, method |-> "current_mapping_fallback"]
        ELSE IF valid # {}
        THEN [ticker |-> Newest(valid).ticker, method |-> "valid_time_interval"]
        ELSE IF current # {} /\ knownBy(mapped.known)
        THEN [ticker |-> mapped.ticker, method |-> "current_mapping_fallback"]
        ELSE [ticker |-> None, method |-> "no_point_in_time_mapping"]

(* evaluate_security_universe: US operating common stock on NYSE, Nasdaq or AMEX. *)
UniverseReasons(row, asOf) == Holding(<<
    Reason("membership_known_after_as_of", row.known # None /\ row.known > asOf),
    Reason("membership_not_yet_effective", row.from # None /\ row.from > asOf),
    Reason("membership_expired",           row.to # None /\ asOf >= row.to),
    Reason("invalid_cik",                  row.cik = None),
    Reason("non_us_operating_exchange",    row.exchange \notin {"NYSE", "NASDAQ", "AMEX"}),
    Reason("non_us_domicile",              row.country \notin {None, "US"}),
    Reason("excluded_security_type",       ExcludedTitle(row.title)),
    Reason("is_etf",                       row.fund),
    Reason("blank_check_or_spac_shell",    row.sic = "6770") >>)

SectorOf(sic) == IF sic \in DOMAIN Sector THEN Sector[sic] ELSE "UNKNOWN"

(* The rows of the SEC's ticker map: a malformed row is quarantined alone. *)
MapRecords(map) == {row \in map : row.ticker # Bad /\ row.cik # Bad}

(* _common_listing_proofs: the symbols that a recent filing ties to common stock. *)
ListingProofs(cik, records, asOf) ==
    {r.ticker : r \in {q \in records :
        /\ q.cik = cik /\ q.ticker # None
        /\ Later(q.knowledge, q.recorded) <= asOf
        /\ q.accepted # None /\ q.accepted <= asOf /\ q.accepted >= asOf - Year
        /\ q.date <= asOf /\ q.table = "NON_DERIVATIVE"
        /\ CommonTitle(q.title) /\ ~ExcludedTitle(q.title)}}

(* Several listings need a proof; no class is picked by size or by order. *)
Pairs(cik, map, records, asOf) ==
    LET pairs == {<<row.ticker, row.exchange>> : row \in {q \in MapRecords(map) : q.cik = cik}}
        proven == ListingProofs(cik, records, asOf)
    IN  IF Cardinality(pairs) > 1 THEN {p \in pairs : p[1] \in proven} ELSE pairs

ObservationRow(cik, profile, pair, asOf) ==
    [cik |-> cik, known |-> asOf, from |-> asOf, to |-> None, status |-> "RESOLVED",
     ticker |-> pair[1], exchange |-> pair[2], sic |-> profile.sic, country |-> "US",
     title |-> None, fund |-> FALSE, sector |-> SectorOf(profile.sic), reason |-> None]

Tombstone(cik, reason, asOf) ==
    [cik |-> cik, known |-> asOf, from |-> asOf, to |-> None, status |-> "UNRESOLVED",
     ticker |-> None, exchange |-> None, sic |-> None, country |-> None,
     title |-> None, fund |-> FALSE, sector |-> None, reason |-> reason]

(* identity_observation: every issuer asked for gives a row, resolved or not. *)
Observation(cik, profile, map, records, asOf) ==
    LET rows == {row \in MapRecords(map) : row.cik = cik}
        pairs == Pairs(cik, map, records, asOf)
        pair == IF Cardinality(pairs) = 1 THEN CHOOSE p \in pairs : TRUE ELSE <<None, None>>
        row == ObservationRow(cik, profile, pair, asOf)
        reason == First(<<
            Reason("METADATA_FETCH_FAILED",        profile.fetched = FALSE),
            Reason("INVALID_COMPANY_METADATA",     profile.cik # cik \/ ~profile.named),
            Reason("NOT_OPERATING_ENTITY",         ~profile.operating),
            Reason("US_INCORPORATION_UNCONFIRMED", ~profile.us),
            Reason("MISSING_SIC",                  profile.sic = None),
            Reason("NO_CURRENT_LISTING",           rows = {}),
            Reason("SOURCE_LISTING_DISAGREEMENT",
                   \/ profile.tickers # {q.ticker : q \in rows}
                   \/ profile.exchanges # {q.exchange : q \in rows}),
            Reason("AMBIGUOUS_LISTING",            Cardinality(pairs) # 1),
            Reason("EXCLUDED_UNIVERSE",            UniverseReasons(row, asOf) # {}) >>)
    IN  IF reason = None THEN row ELSE Tombstone(cik, reason, asOf)

(* merge_observations: two different rows of one issuer at one instant are an error. *)
Conflicting(rows) == \E r, q \in rows : r # q /\ r.cik = q.cik /\ r.known = q.known

(* _latest_identity_observations: the revision is chosen before it is judged,  *)
(* so a failed refresh never brings an older mapping back.                     *)
\* Mutant: an observation counts whenever it was made.
VisibleAlways(rows, asOf) == rows
Visible(rows, asOf) ==
    {r \in rows : r.known <= asOf /\ (r.from # None => r.from <= asOf)}

LatestObservations(rows, asOf) ==
    {r \in Visible(rows, asOf) :
        \A q \in Visible(rows, asOf) : q.cik = r.cik => q.known < r.known \/ q = r}

(* _common_stock_titles: the issuers that a filing known by then ties to common stock. *)
CommonStockIssuers(records, asOf) ==
    {r.cik : r \in {q \in records :
        q.knowledge <= asOf /\ q.table = "NON_DERIVATIVE" /\ CommonTitle(q.title)}}

(* _identity_candidates: a ticker claimed by two issuers identifies neither. *)
IdentityCandidates(rows, records, asOf) ==
    LET common == CommonStockIssuers(records, asOf)
        candidates == {r \in LatestObservations(rows, asOf) :
            /\ r.status = "RESOLVED" /\ r.ticker # None
            /\ r.to # None => asOf < r.to
            /\ r.title = "COMMON" \/ r.cik \in common
            /\ UniverseReasons(r, asOf) = {}}
    IN  {r \in candidates : \A q \in candidates : q.ticker = r.ticker => q.cik = r.cik}

(* _qualified: a priced open-market trade of the last year. *)
TradedWithin(r, asOf) ==
    /\ r.knowledge <= asOf /\ r.date <= asOf /\ r.date >= asOf - Year
    /\ r.table = "NON_DERIVATIVE" /\ r.status = "ACTIVE"
    /\ <<r.code, r.side>> \in {<<"P", "A">>, <<"S", "D">>}
    /\ r.shares \notin {None, 0} /\ r.price \notin {None, 0}

(* _select_market_universe: the issuers with trades, their symbols and benchmarks. *)
MarketUniverse(effective, rows, asOf) ==
    LET active == {r.cik : r \in {q \in effective : TradedWithin(q, asOf)}}
        selected == {i \in IdentityCandidates(rows, effective, asOf) : i.cik \in active}
    IN  [active |-> active, selected |-> selected,
         symbols |-> {i.ticker : i \in selected},
         benchmarks |-> {"SPY"} \union ({i.sector : i \in selected} \ {"UNKNOWN", None})]

=============================================================================
