-------------------------------- MODULE Market --------------------------------
(***************************************************************************)
(* The price refresh of the daily research run: market_shards cuts the     *)
(* requested symbols into shards, each shard refreshes its own with a pool *)
(* of workers under a time budget, and the symbols the budget left out get *)
(* one more pass.  A symbol is read from two sources through a cache on    *)
(* disk that outlives the run: RedundantEODProvider takes what the caches  *)
(* hold of the latest closed session, otherwise asks every source, and     *)
(* refuses sources that disagree.                                          *)
(*                                                                         *)
(* A history is a function from sessions to closes.  The payload of a      *)
(* cache and its manifest are two files, replaced one after the other: the *)
(* manifest is here the payload whose digest, length and last session it   *)
(* holds.  `genuine` tells a payload as a source sent it from one whose    *)
(* bytes the disk changed.                                                 *)
(***************************************************************************)
EXTENDS Integers, FiniteSets

CONSTANTS
    Symbols,         \* the symbols of the refresh, numbered by their names
    Priority,        \* those a shard starts with: the benchmarks
    Sources,         \* the sources, numbered as they are configured
    Shards,          \* into how many shards a pass is cut
    Workers,         \* symbols a shard refreshes at a time
    Tolerance,       \* the difference two sources may have, in percent
    Answer(_, _, _), \* Answer(src, s, day): the histories src may send of s
                     \* when `day` is the latest closed session
    LastSession,         \* bound: sessions that close
    MaxRuns,         \* bound: refreshes started
    MaxDamage        \* bound: payloads the disk damages

ASSUME NumbersAssumption == Symbols \subseteq Nat /\ Sources \subseteq Nat
ASSUME BoundsAssumption ==
    /\ Shards \in Nat \ {0} /\ LastSession \in Nat \ {0}
    /\ MaxRuns \in Nat /\ MaxDamage \in Nat

VARIABLES
    session,    \* latest_closed_session at the start of the refresh
    disk,       \* per source and symbol: the payload and its manifest
    pass,       \* 0 no refresh, 1 the first pass, 2 the recovery, 3 ended
    shard,      \* per shard: symbols waiting, in progress, budget exhausted
    call,       \* per symbol in progress and source: what became of the request
    bars,       \* the histories the refresh returns
    replayed,   \* symbols answered from the caches alone
    failures,   \* why a symbol has no history
    disagreed,  \* symbols of this refresh whose sources disagreed
    runs,       \* refreshes started
    damaged     \* payloads damaged

vars == <<session, disk, pass, shard, call, bars, replayed, failures,
          disagreed, runs, damaged>>

Nothing == [rows |-> <<>>, genuine |-> TRUE]

Sent(rows) == [rows |-> rows, genuine |-> TRUE]

NoCall == [src \in Sources |-> [at |-> "none", payload |-> Nothing]]

Running == pass \in {1, 2}

Latest(rows) == CHOOSE d \in DOMAIN rows : \A e \in DOMAIN rows : e <= d

-----------------------------------------------------------------------------
(* The cache of one source. *)

\* Mutant: the payload is not compared with the digest of its manifest.
CacheHasSessionUnverified(src, s) ==
    LET file == disk[src][s]
    IN  file.manifest # Nothing /\ session \in DOMAIN file.payload.rows

\* What a source's cache must be to stand for a request: the pair matches, the
\* hint does not rule the session out, and the parsed rows hold it.
CacheHasSession(src, s) ==
    LET file == disk[src][s]
    IN  /\ file.manifest # Nothing
        /\ file.payload = file.manifest
        /\ Latest(file.manifest.rows) >= session
        /\ session \in DOMAIN file.payload.rows

Cached(s) == {src \in Sources : CacheHasSession(src, s)}

-----------------------------------------------------------------------------
(* Selecting between the sources. *)

Abs(n) == IF n < 0 THEN -n ELSE n

Larger(a, b) == IF a >= b THEN a ELSE b

\* The reference and a candidate have a common session and, on the latest of
\* them, closes within the tolerance.
Agree(left, right) ==
    LET overlap == DOMAIN left \cap DOMAIN right
        day == CHOOSE d \in overlap : \A e \in overlap : e <= d
    IN  /\ overlap # {}
        /\ 100 * Abs(left[day] - right[day])
             <= Tolerance * Larger(left[day], right[day])

\* found: a payload of each source that has one; the first is the reference.
CrossValid(found) ==
    \A a, b \in DOMAIN found :
       (\A c \in DOMAIN found : a <= c) /\ a < b
         => Agree(found[a].rows, found[b].rows)

\* The history with the latest session, of the first configured source.
Freshest(found, a) ==
    \A b \in DOMAIN found :
       \/ Latest(found[a].rows) > Latest(found[b].rows)
       \/ Latest(found[a].rows) = Latest(found[b].rows) /\ a <= b

\* Why a shard whose budget is spent leaves out the symbols it has not started.
Deferred == "MARKET_REFRESH_BUDGET_EXHAUSTED"

\* A worker is done with s, for which it found the payloads `found`.
Conclude(s, found) ==
    IF DOMAIN found # {} /\ CrossValid(found)
    THEN /\ \E a \in DOMAIN found : /\ Freshest(found, a)
                                    /\ bars' = [bars EXCEPT ![s] = found[a]]
         /\ failures' = [failures EXCEPT ![s] = ""]
         /\ UNCHANGED disagreed
    ELSE /\ failures' = [failures EXCEPT ![s] = "MARKET_PROVIDER_UNAVAILABLE"]
         /\ disagreed' = IF DOMAIN found = {} THEN disagreed ELSE disagreed \union {s}
         /\ UNCHANGED bars

-----------------------------------------------------------------------------
(* A refresh. *)

\* requested[index::3].
Cut(requested) ==
    LET position(s) == Cardinality({t \in requested : t < s})
    IN  [i \in 1..Shards |->
           [waiting |-> {s \in requested : position(s) % Shards = i - 1},
            busy |-> {}, spent |-> FALSE]]

\* A shard's own order: the benchmarks first.
Before(s, t) == IF (s \in Priority) = (t \in Priority) THEN s < t ELSE s \in Priority

Start ==
    /\ ~Running
    /\ runs < MaxRuns
    /\ runs' = runs + 1
    /\ session' \in {session, session + 1} \cap (1..LastSession)
    /\ pass' = 1
    /\ shard' = Cut(Symbols)
    /\ bars' = [s \in Symbols |-> Nothing]
    /\ failures' = [s \in Symbols |-> ""]
    /\ replayed' = {}
    /\ disagreed' = {}
    /\ UNCHANGED <<disk, call, damaged>>

Expire(i) ==
    /\ Running
    /\ ~shard[i].spent
    /\ shard[i].waiting # {}
    /\ shard' = [shard EXCEPT ![i].spent = TRUE]
    /\ UNCHANGED <<session, disk, pass, call, bars, replayed, failures,
                   disagreed, runs, damaged>>

\* A worker takes the next symbol: too late, answered by the caches, or asked
\* of every source.
Begin(i, s) ==
    /\ Running
    /\ s \in shard[i].waiting /\ \A t \in shard[i].waiting : ~Before(t, s)
    /\ Cardinality(shard[i].busy) < Workers
    /\ \/ /\ shard[i].spent
          /\ shard' = [shard EXCEPT ![i].waiting = @ \ {s}]
          /\ failures' = [failures EXCEPT ![s] = Deferred]
          /\ UNCHANGED <<call, bars, replayed, disagreed>>
       \/ /\ ~shard[i].spent /\ Cached(s) # {}
          /\ shard' = [shard EXCEPT ![i].waiting = @ \ {s}]
          /\ LET found == [src \in Cached(s) |-> disk[src][s].payload]
             IN  /\ Conclude(s, found)
                 /\ replayed' = IF CrossValid(found) THEN replayed \union {s}
                                ELSE replayed
          /\ UNCHANGED call
       \/ /\ ~shard[i].spent /\ Cached(s) = {}
          /\ shard' = [shard EXCEPT ![i].waiting = @ \ {s}, ![i].busy = @ \union {s}]
          /\ call' = [call EXCEPT ![s] =
                        [src \in Sources |-> [at |-> "asked", payload |-> Nothing]]]
          /\ UNCHANGED <<bars, replayed, failures, disagreed>>
    /\ UNCHANGED <<session, disk, pass, runs, damaged>>

\* A source answers, and its payload replaces the one on disk before the
\* manifest does; or it is out, redirects, or sends what does not parse.
Receive(s, src) ==
    /\ call[s][src].at = "asked"
    /\ \/ \E rows \in Answer(src, s, session) :
            /\ disk' = [disk EXCEPT ![src][s].payload = Sent(rows)]
            /\ call' = [call EXCEPT ![s][src] =
                          [at |-> "stored", payload |-> Sent(rows)]]
       \/ /\ call' = [call EXCEPT ![s][src].at = "failed"]
          /\ UNCHANGED disk
    /\ UNCHANGED <<session, pass, shard, bars, replayed, failures, disagreed,
                   runs, damaged>>

\* The manifest follows; a disk that refuses it fails the source.
Certify(s, src) ==
    /\ call[s][src].at = "stored"
    /\ \/ /\ disk' = [disk EXCEPT ![src][s].manifest = call[s][src].payload]
          /\ call' = [call EXCEPT ![s][src].at = "got"]
       \/ /\ call' = [call EXCEPT ![s][src] =
                        [at |-> "failed", payload |-> Nothing]]
          /\ UNCHANGED disk
    /\ UNCHANGED <<session, pass, shard, bars, replayed, failures, disagreed,
                   runs, damaged>>

\* Every source of the symbol has ended.
Finish(i, s) ==
    /\ s \in shard[i].busy
    /\ \A src \in Sources : call[s][src].at \in {"got", "failed"}
    /\ LET got == {src \in Sources : call[s][src].at = "got"}
       IN  Conclude(s, [src \in got |-> call[s][src].payload])
    /\ shard' = [shard EXCEPT ![i].busy = @ \ {s}]
    /\ call' = [call EXCEPT ![s] = NoCall]
    /\ UNCHANGED <<session, disk, pass, replayed, runs, damaged>>

\* Mutant: the recovery takes every symbol that failed.
PendingEveryFailure == {s \in Symbols : failures[s] # ""}

\* The recovery takes the symbols the budget left out, and only those.
Pending == {s \in Symbols : failures[s] = Deferred}

\* Mutant: passes follow one another while a symbol is left out.
NextPassAgain(left) == IF left # {} THEN 2 ELSE 3

\* One bounded recovery.
NextPass(left) == IF pass = 1 /\ left # {} THEN 2 ELSE 3

EndPass ==
    /\ Running
    /\ \A i \in 1..Shards : shard[i].waiting = {} /\ shard[i].busy = {}
    /\ pass' = NextPass(Pending)
    /\ shard' = IF pass' = 2 THEN Cut(Pending) ELSE shard
    /\ UNCHANGED <<session, disk, call, bars, replayed, failures, disagreed,
                   runs, damaged>>

-----------------------------------------------------------------------------
(* Faults. *)

\* The runner is lost; the caches are saved as they are.
Crash ==
    /\ Running
    /\ pass' = 0
    /\ shard' = Cut({})
    /\ call' = [s \in Symbols |-> NoCall]
    /\ bars' = [s \in Symbols |-> Nothing]
    /\ failures' = [s \in Symbols |-> ""]
    /\ replayed' = {}
    /\ disagreed' = {}
    /\ UNCHANGED <<session, disk, runs, damaged>>

\* Between two refreshes a payload changes: what parses holds rows no source
\* sent.
Damage(src, s) ==
    /\ ~Running
    /\ damaged < MaxDamage
    /\ disk[src][s].payload # Nothing
    /\ disk' = [disk EXCEPT ![src][s].payload.genuine = FALSE]
    /\ damaged' = damaged + 1
    /\ UNCHANGED <<session, pass, shard, call, bars, replayed, failures,
                   disagreed, runs>>

-----------------------------------------------------------------------------
Init ==
    /\ session = 1
    /\ disk = [src \in Sources |->
                 [s \in Symbols |-> [payload |-> Nothing, manifest |-> Nothing]]]
    /\ pass = 0
    /\ shard = Cut({})
    /\ call = [s \in Symbols |-> NoCall]
    /\ bars = [s \in Symbols |-> Nothing]
    /\ replayed = {}
    /\ failures = [s \in Symbols |-> ""]
    /\ disagreed = {}
    /\ runs = 0
    /\ damaged = 0

Work ==
    \/ \E i \in 1..Shards, s \in Symbols : Begin(i, s) \/ Finish(i, s)
    \/ \E s \in Symbols, src \in Sources : Receive(s, src) \/ Certify(s, src)
    \/ EndPass

Next ==
    \/ Start
    \/ Work
    \/ \E i \in 1..Shards : Expire(i)
    \/ Crash
    \/ \E s \in Symbols, src \in Sources : Damage(src, s)

\* Requests have time limits and the workers are threads: a refresh that is not
\* interrupted goes on.  Nothing starts one, ends a budget or loses a runner by
\* necessity.
Fairness == WF_vars(Work)

Spec == Init /\ [][Next]_vars /\ Fairness

-----------------------------------------------------------------------------
(* Properties. *)

\* Type correctness: what the caches, the requests and the result hold.
Histories == {<<>>} \union UNION {Answer(src, s, day) :
                                    src \in Sources, s \in Symbols, day \in 1..LastSession}
Payloads == [rows : Histories, genuine : BOOLEAN]

TypeOK ==
    /\ session \in 1..LastSession
    /\ disk \in [Sources -> [Symbols -> [payload : Payloads, manifest : Payloads]]]
    /\ pass \in 0..3
    /\ shard \in [1..Shards -> [waiting : SUBSET Symbols, busy : SUBSET Symbols,
                                spent : BOOLEAN]]
    /\ call \in [Symbols -> [Sources -> [at : {"none", "asked", "stored", "got", "failed"},
                                         payload : Payloads]]]
    /\ bars \in [Symbols -> Payloads]
    /\ failures \in [Symbols -> {"", "MARKET_PROVIDER_UNAVAILABLE", Deferred}]
    /\ replayed \subseteq Symbols /\ disagreed \subseteq Symbols
    /\ runs \in 0..MaxRuns /\ damaged \in 0..MaxDamage

\* A history served is one a source sent, whatever a crash between the two
\* files or the disk made of a cache, and one served without a request holds
\* the session the refresh is about.
ServedIsVerified ==
    \A s \in Symbols :
       /\ bars[s].genuine
       /\ s \in replayed => session \in DOMAIN bars[s].rows

\* Within a refresh a disagreement stands: the symbol's requests left both
\* answers in the caches, where a second look could find only the fresher one,
\* and the recovery does not take that look.
DisagreementStands == \A s \in disagreed : bars[s] = Nothing

\* A refresh ends or is lost: no symbol keeps the passes going.
RefreshEnds == Running ~> ~Running
=============================================================================
