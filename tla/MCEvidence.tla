------------------------------ MODULE MCEvidence ------------------------------
(* Two issuers, two SEC days and the filings that make them hard: an amendment *)
(* with and without a link, joint owners, an accession listed on two days, a   *)
(* filing that is readable only in part, an owner that files for two issuers,  *)
(* a joint filing that only one of its owners corrects, in one row of two, by  *)
(* the accession or by the revision; a submission that is never accepted.      *)
EXTENDS Evidence

MCSector == [i \in {"100"} |-> "XLK"]

Person(cik) == [cik |-> cik, named |-> TRUE, title |-> {}, flags |-> {"DIRECTOR"}]

Row(code, date, price) ==
    [title |-> "COMMON", date |-> date, code |-> code, side |-> IF code = "S" THEN "D" ELSE "A",
     shares |-> 2, total |-> None, price |-> price, post |-> None, ownership |-> "D", notes |-> {}]

Filing(accession, day, cik, form, owners, row) ==
    [payload |-> "xml", accession |-> accession, day |-> day, cik |-> cik, named |-> TRUE,
     ticker |-> cik, form |-> form, url |-> "sec", amends |-> None, supersedes |-> None,
     owners |-> owners, planBox |-> None, planNotes |-> {},
     rows |-> [t \in TableTypes |-> IF t = "NON_DERIVATIVE" THEN <<row>> ELSE <<>>],
     hash |-> accession, accepted |-> day, observed |-> 0, recorded |-> None, corrects |-> None]

Buy == Filing(1, 1, 10, "4", <<Person(1)>>, Row("P", 1, 5))
Relisted == [Buy EXCEPT !.day = 2]
Linked == [Filing(2, 2, 10, "4/A", <<Person(1)>>, Row("P", 1, 4))
             EXCEPT !.amends = 1, !.corrects = 1]
Early == Filing(1, 0, 10, "4", <<Person(1)>>, Row("P", 0, 5))
Again == [Early EXCEPT !.day = 1]
Corrected == [Filing(2, 1, 10, "4/A", <<Person(1)>>, Row("P", 0, 4))
                EXCEPT !.amends = 1, !.corrects = 1]
Both == Filing(8, 1, 10, "4", <<Person(1), Person(2)>>, Row("P", 1, 5))
ForOne == [Filing(9, 2, 10, "4/A", <<Person(1)>>, Row("P", 1, 4))
             EXCEPT !.amends = 8, !.corrects = 8]
Unlinked == [Filing(3, 2, 10, "4/A", <<Person(1)>>, Row("P", 1, 3)) EXCEPT !.corrects = 1]
Joint == Filing(4, 2, 20, "4", <<Person(2), Person(3)>>, Row("P", 2, 6))
Partial == Filing(5, 2, 10, "4", <<Person(4), [Person(5) EXCEPT !.cik = None]>>, Row("P", 2, 7))
Broken == Filing(6, 2, 20, "4", <<Person(2)>>, Row("P", 1, Bad))
Option == Filing(7, 1, 20, "4", <<Person(2)>>, [Row("P", 1, 9) EXCEPT !.title = "PREFERRED"])
Twice == [Both EXCEPT !.rows["NON_DERIVATIVE"] = <<Row("P", 1, 5), Row("P", 0, 6)>>]
Revised == [Filing(2, 2, 10, "4/A", <<Person(1)>>, Row("P", 1, 4))
               EXCEPT !.supersedes = <<<<8, 1, "NON_DERIVATIVE", 1>>, 8>>, !.corrects = 8]
Unclocked == [Joint EXCEPT !.accepted = None]

MCWorlds == <<{Buy, Relisted, Joint}, {Buy, Linked, Joint}, {Buy, Unlinked, Joint},
             {Buy, Partial}, {Buy, Option, Joint}, {Buy, Linked, Unlinked}, {Buy, Broken, Joint},
             {Early, Again, Corrected}, {Both, ForOne}, {Twice, Revised}, {Buy, Unclocked}>>

Profile(cik, ticker) ==
    [fetched |-> TRUE, cik |-> cik, named |-> TRUE, operating |-> TRUE, us |-> TRUE,
     sic |-> "100", tickers |-> {ticker}, exchanges |-> {"NYSE"}]
Listing(cik, ticker) == [cik |-> cik, ticker |-> ticker, exchange |-> "NYSE"]

(* Both issuers listed; the ticker of the second moved to the first; no answer at all. *)
MCAnswers ==
    {[map |-> {Listing(10, 10), Listing(20, 20)},
      profiles |-> [cik \in {10, 20} |-> Profile(cik, cik)]],
     [map |-> {Listing(10, 20)}, profiles |-> [cik \in {10, 20} |-> Profile(cik, 20)]],
     [map |-> {Listing(10, 10), Listing(20, 20)},
      profiles |-> [cik \in {10, 20} |-> [Profile(cik, cik) EXCEPT !.fetched = FALSE]]]}
=============================================================================
