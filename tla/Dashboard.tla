------------------------------ MODULE Dashboard ------------------------------
(***************************************************************************)
(* What the exporter of the dashboard computes and refuses                 *)
(* (export/dashboard.py, export/research_policy.py,                        *)
(* notifications/settings.py): the quality evidence, the manifest, the     *)
(* validation of a publication directory and the two publication policies. *)
(* A publication is a record of what these rules tell apart; rows, hashes  *)
(* and JSON are abstracted.  A directory is a publication and the set of   *)
(* its files that are written; equal content has equal hashes.             *)
(***************************************************************************)
EXTENDS Integers, FiniteSets

CONSTANTS MethodologyComplete,   \* what load_scoring_lock attests
          None                   \* an absent value

ASSUME LockAssumption == MethodologyComplete \in BOOLEAN

(* Quality evidence: three measured gates, three flags, a disposition and its issues. *)

Threshold == [parse |-> 995, market |-> 900, core |-> 850]    \* per mille
Gates == DOMAIN Threshold

Result(m, g) ==
    IF m.den = 0 THEN "NOT_EVALUATED"
    ELSE IF 1000 * m.num >= Threshold[g] * m.den THEN "PASS" ELSE "FAIL"

Coherent(m, g) ==
    /\ m.num \in 0..m.den
    /\ IF m.den = 0 THEN m.rate = None ELSE m.rate = <<m.num, m.den>>
    /\ m.result = Result(m, g)

Unmeasured == [num |-> 0, den |-> 0, rate |-> None, result |-> "NOT_EVALUATED"]

DefaultQuality ==
    [disposition |-> "BLOCKED", canonical |-> FALSE, methodology |-> FALSE, fresh |-> FALSE,
     gates |-> [g \in Gates |-> Unmeasured], issues |-> {"QUALITY_EVIDENCE_MISSING"}]

QualityValid(q, status) ==
    /\ \A g \in Gates : Coherent(q.gates[g], g)
    /\ q.disposition = "PASS" =>
          /\ \A g \in Gates : q.gates[g].result = "PASS"
          /\ q.canonical /\ q.methodology /\ q.fresh
          /\ q.issues = {}
    /\ q.disposition # "PASS" => q.issues # {}
    /\ (status = "SUCCEEDED") = (q.disposition = "PASS")

(* The lock, never the caller, says whether the methodology is complete. *)
MadeQuality(given) ==
    LET q == IF given = None THEN DefaultQuality ELSE given
    IN  [q EXCEPT !.methodology = MethodologyComplete,
                  !.issues = IF MethodologyComplete THEN @
                             ELSE @ \union {"SCORING_METHODOLOGY_INCOMPLETE"}]

(* Masked settings: alerts are allowed when nothing blocks them. *)

DefaultSettings ==
    [environment |-> "local", delivery |-> FALSE, blocking |-> {"SETTINGS_STATUS_NOT_PROVIDED"},
     channels |-> {}, configured |-> {}, alertsAllowed |-> FALSE]

SettingsValid(s) ==
    s.alertsAllowed => /\ s.environment = "production"
                       /\ s.delivery
                       /\ s.blocking = {}
                       /\ s.channels # {}
                       /\ s.channels \subseteq s.configured

SecretsMissing == [telegram |-> "TELEGRAM_SECRETS_MISSING", email |-> "EMAIL_SECRETS_MISSING"]

BlockingReasons(host, alertsAllowed, issues) ==
    issues
      \union (IF alertsAllowed THEN {} ELSE {"QUALITY_GATE_NOT_PASS"})
      \union (IF host.delivery THEN {} ELSE {"DELIVERY_DISABLED_BY_POLICY"})
      \union (IF host.environment = "production" THEN {} ELSE {"NON_PRODUCTION_ENVIRONMENT"})
      \union (IF host.channels = {} THEN {"NO_ENABLED_CHANNELS"} ELSE {})
      \union {SecretsMissing[c] : c \in host.channels \ host.configured}

BuiltSettings(host, alertsAllowed, issues) ==
    LET reasons == BlockingReasons(host, alertsAllowed, issues)
    IN  [environment |-> host.environment, delivery |-> host.delivery, blocking |-> reasons,
         channels |-> host.channels, configured |-> host.configured,
         alertsAllowed |-> reasons = {}]

(* The two publication policies over a validated manifest. *)

OperationallyHealthy(q) ==
    /\ q.canonical /\ q.methodology /\ q.fresh
    /\ \A g \in Gates : q.gates[g].result = "PASS"

PagesAllowed(p) ==
    OperationallyHealthy(p.quality) /\ p.quality.disposition \in {"PASS", "DEGRADED"}

AlertsAllowed(p) ==
    PagesAllowed(p) /\ p.quality.disposition = "PASS" /\ p.manifestStatus = "SUCCEEDED"

ExperimentalPages(p) ==
    /\ p.manifestStatus = "DEGRADED"
    /\ p.quality.canonical /\ p.quality.fresh
    /\ p.quality.gates["parse"].result = "PASS"
    /\ p.quality.gates["market"].result = "PASS"
    /\ {"LIVE_EXPERIMENTAL_ROLLING_WINDOW", "SCORING_METHODOLOGY_INCOMPLETE"}
          \subseteq p.quality.issues
    /\ p.rows > 0

(* A publication from the exporter's input. *)

PublicationOf(data) ==
    LET q == MadeQuality(data.quality)
    IN  [run |-> data.run, asOf |-> data.asOf, status |-> data.status, quality |-> q,
         manifestStatus |-> IF data.status = "VALIDATED" /\ q.disposition = "PASS"
                            THEN "SUCCEEDED" ELSE "DEGRADED",
         rows |-> data.rows, signals |-> data.signals, research |-> data.research,
         settings |-> IF data.settings = None THEN DefaultSettings ELSE data.settings]

(* The files of a publication other than its manifest, in the order they are written. *)
FileOrder == <<"dashboard", "research", "settings", "signals", "manifest">>

Listed(p) ==
    {"dashboard", "settings"} \union (IF p.research = None THEN {} ELSE {"research"})
                              \union (IF p.signals = None THEN {} ELSE {"signals"})

ResearchValid(p) ==
    p.research # None => p.research.run = p.run /\ p.research.asOf = p.asOf

(* Every signal was scored by this run under the checked-in lock. *)
SignalsValid(p) ==
    p.signals # None => p.signals = p.run

ManifestValid(p) ==
    /\ QualityValid(p.quality, p.manifestStatus)
    /\ (p.status = "VALIDATED") = (p.quality.disposition = "PASS")

DirectoryValid(dir) ==
    LET p == dir.of
    IN  /\ dir # None
        /\ dir.written = Listed(p) \union {"manifest"}
        /\ ManifestValid(p)
        /\ ResearchValid(p)
        /\ SignalsValid(p)
        /\ (p.status = "VALIDATED") = (p.manifestStatus = "SUCCEEDED")
        /\ SettingsValid(p.settings)
        /\ p.settings.alertsAllowed => /\ p.manifestStatus = "SUCCEEDED"
                                       /\ p.quality.disposition = "PASS"

(* What the deployment gate accepts: SEC facts, or the older policies. *)
DeploymentAllowed(dir) ==
    LET p == dir.of
    IN  /\ DirectoryValid(dir)
        /\ IF p.research # None
           THEN /\ p.quality.canonical
                /\ p.research.facts
                /\ p.research.dashboard # "BLOCKED"
                /\ p.research.predictive = "BLOCKED"
           ELSE PagesAllowed(p) \/ ExperimentalPages(p)

(* The input under which a publication is exported again. *)
InputOf(p, settings) ==
    [run |-> p.run, asOf |-> p.asOf, status |-> p.status, quality |-> p.quality,
     rows |-> p.rows, signals |-> p.signals, research |-> p.research, settings |-> settings]

=============================================================================
