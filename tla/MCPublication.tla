---------------------------- MODULE MCPublication ----------------------------
(* Three kinds of refresh: facts without scores, validated scores, and bad   *)
(* market coverage without facts, on a machine with delivery allowed.         *)
EXTENDS Publication

Measured(n) == [num |-> n, den |-> 10, rate |-> <<n, 10>>,
                result |-> IF n = 10 THEN "PASS" ELSE "FAIL"]

Quality(disposition, market, issues) ==
    [disposition |-> disposition, canonical |-> TRUE, methodology |-> TRUE, fresh |-> TRUE,
     gates |-> [g \in Gates |-> Measured(IF g = "market" THEN market ELSE 10)],
     issues |-> issues]

Facts == [status |-> "EXPERIMENTAL", quality |-> Quality("DEGRADED", 5, {"MARKET_LOW"}),
          rows |-> 1, signals |-> FALSE,
          research |-> [facts |-> TRUE, dashboard |-> "DEGRADED", predictive |-> "BLOCKED"]]
Scores == [status |-> "VALIDATED", quality |-> Quality("PASS", 10, {}),
           rows |-> 2, signals |-> TRUE, research |-> None]
Poor == [status |-> "EXPERIMENTAL", quality |-> Quality("DEGRADED", 5, {"MARKET_LOW"}),
         rows |-> 0, signals |-> FALSE, research |-> None]

MCTemplates == {Facts, Scores, Poor}

MCHosts == {[environment |-> "production", delivery |-> TRUE,
             channels |-> {"telegram"}, configured |-> {"telegram"}]}

MCInitial == PublicationOf([run |-> 0, asOf |-> 0, status |-> "VALIDATED",
                            quality |-> Quality("PASS", 10, {}), rows |-> 3,
                            signals |-> 0, research |-> None, settings |-> None])

=============================================================================
