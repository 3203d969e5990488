------------------------------- MODULE Routing -------------------------------
(***************************************************************************)
(* Health reports and rankings (BackendService.record_health and           *)
(* rank_candidates, table "backend_health_check").  A ranking reads the    *)
(* backends that serve the model in one statement and their health in the  *)
(* next, while reports arrive late, with the instant their sender gives    *)
(* or that of the start of their transaction, and backends change.         *)
(***************************************************************************)
EXTENDS Scoring

CONSTANTS
    Reporters,      \* requests that report health, each of them served once
    Rankers,        \* requests for a ranking
    Backends,       \* ids of backends
    Targets,        \* the backends reports are about, or NoBackend
    Offers,         \* weight and cost of backends
    Policies,       \* policies that clients name, known or not
    Latencies,      \* latencies that reports give, or Unmeasured
    MaxTime,        \* bound on the clock
    NoTxn, NoBackend, NoCall, NotServing

Requests == Reporters \cup Rankers

Offer == [weight : Nat \ {0}, cost : Nat]

ASSUME RoutingAssumption ==
    /\ Reporters \cap Rankers = {} /\ MaxTime \in Nat
    /\ Backends \subseteq Nat /\ IsFiniteSet(Backends) /\ Targets \subseteq Backends \cup {NoBackend}
    /\ Offers \subseteq Offer /\ Latencies \subseteq Nat \cup {Unmeasured}
    /\ NotServing \notin Offer /\ NoTxn \notin Requests /\ NoBackend \notin Backends

Instants == 0 .. MaxTime
Now      == -1      \* the sender gives no instant

ReportCalls == [backend : Targets, healthy : BOOLEAN, latency : Latencies, at : Instants \cup {Now}]
RankCalls   == [policy : Policies]

(* Who reports a failure reports no latency.                                *)
Reports ==
         [backend : Backends, at : Instants, health : {"healthy"},
          latency : Latencies]
    \cup [backend : Backends, at : Instants, health : {"unhealthy"}, latency : {Unmeasured}]

NoReport == [health |-> "unknown", latency |-> Unmeasured, at |-> Now]

VARIABLES
    now,            \* the clock
    serving,        \* the offer of each backend that is active and bound to the model
    report,         \* table backend_health_check: the row of each request, if any
    pc, call,
    candidates,     \* the backends a ranking has read, with their offers
    health,         \* the report it has read for each of them
    reply,          \* HTTP status, 0 before there is one
    known           \* for checking: the requests that had committed when a ranking began

vars == <<now, serving, report, pc, call, candidates, health, reply, known>>

InFlight == {"report", "candidates", "health", "commit"}
Ended    == {"committed", "rolledBack"}

(* The reports that a SELECT finds.                                         *)
Visible(b) == {p \in Reporters : pc[p] = "committed" /\ report[p] # NoReport /\ report[p].backend = b}

TypeOK ==
    /\ now \in Instants
    /\ serving \in [Backends -> Offers \cup {NotServing}]
    /\ report \in [Requests -> Reports \cup {NoReport}]
    /\ pc \in [Requests -> {"idle"} \cup InFlight \cup Ended]
    /\ call \in [Requests -> ReportCalls \cup RankCalls \cup {NoCall}]
    /\ \A r \in Requests : /\ DOMAIN candidates[r] \subseteq Backends
                           /\ DOMAIN health[r] \in {{}, DOMAIN candidates[r]}
                           /\ known[r] \subseteq Requests
    /\ reply \in [Requests -> {0, 200, 201, 404, 422, 500}]

Init ==
    /\ now = 0
    /\ serving \in [Backends -> Offers \cup {NotServing}]
    /\ report = [r \in Requests |-> NoReport]
    /\ pc = [r \in Requests |-> "idle"]
    /\ call = [r \in Requests |-> NoCall]
    /\ candidates = [r \in Requests |-> <<>>]
    /\ health = [r \in Requests |-> <<>>]
    /\ reply = [r \in Requests |-> 0]
    /\ known = [r \in Requests |-> {}]

-----------------------------------------------------------------------------
GoTo(r, label) == pc' = [pc EXCEPT ![r] = label]

Fail(r, code) ==
    /\ report' = [report EXCEPT ![r] = NoReport]
    /\ reply' = [reply EXCEPT ![r] = code]
    /\ GoTo(r, "rolledBack")

Answer(r, code) ==
    /\ reply' = [reply EXCEPT ![r] = code]
    /\ GoTo(r, "commit")

(* A transaction's instant is that of its start: now() of PostgreSQL.       *)
BeginReport(r, c) ==
    /\ pc[r] = "idle"
    /\ call' = [call EXCEPT ![r] = [c EXCEPT !.at = IF @ = Now THEN now ELSE @]]
    /\ GoTo(r, "report")
    /\ UNCHANGED <<now, serving, report, candidates, health, reply, known>>

BeginRank(r, c) ==
    /\ pc[r] = "idle"
    /\ call' = [call EXCEPT ![r] = c]
    /\ known' = [known EXCEPT ![r] = {p \in Reporters : pc[p] = "committed"}]
    /\ GoTo(r, "candidates")
    /\ UNCHANGED <<now, serving, report, candidates, health, reply>>

Row(c, latency) ==
    [backend |-> c.backend, at |-> c.at,
     health |-> IF c.healthy THEN "healthy" ELSE "unhealthy", latency |-> latency]

(* Mutant: the latency of a failed probe is stored.                         *)
ReportKeepsLatency(r) ==
    /\ pc[r] = "report"
    /\ \/ /\ call[r].backend # NoBackend
          /\ report' = [report EXCEPT ![r] = Row(call[r], call[r].latency)]
          /\ Answer(r, 201)
       \/ call[r].backend = NoBackend /\ Fail(r, 404)
    /\ UNCHANGED <<now, serving, call, candidates, health, known>>

(* The look for the backend and the INSERT are one step: no backend is ever *)
(* deleted.                                                                 *)
Report(r) ==
    /\ pc[r] = "report"
    /\ \/ /\ call[r].backend # NoBackend
          /\ report' = [report EXCEPT
                ![r] = Row(call[r], IF call[r].healthy THEN call[r].latency ELSE Unmeasured)]
          /\ Answer(r, 201)
       \/ call[r].backend = NoBackend /\ Fail(r, 404)
    /\ UNCHANGED <<now, serving, call, candidates, health, known>>

ListCandidates(r) ==
    LET found == {b \in Backends : serving[b] # NotServing}
    IN  /\ pc[r] = "candidates"
        /\ \/ /\ call[r].policy \in DOMAIN POLICY_FACTORS
              /\ candidates' = [candidates EXCEPT ![r] = [b \in found |-> serving[b]]]
              /\ \/ found = {} /\ Answer(r, 200)
                 \/ found # {} /\ GoTo(r, "health") /\ UNCHANGED reply
              /\ UNCHANGED report
           \/ /\ call[r].policy \notin DOMAIN POLICY_FACTORS
              /\ Fail(r, 422)
              /\ UNCHANGED candidates
        /\ UNCHANGED <<now, serving, call, health, known>>

(* Mutant: the order is forgotten.                                          *)
LatestAny(b) == IF Visible(b) = {} THEN {NoReport} ELSE {report[p] : p \in Visible(b)}

(* The newest reports of a backend by checked_at; of several with the same  *)
(* instant the database returns any one.                                    *)
Latest(b) ==
    IF Visible(b) = {} THEN {NoReport}
    ELSE {report[p] : p \in {p \in Visible(b) : \A q \in Visible(b) : report[q].at <= report[p].at}}

ReadHealth(r) ==
    /\ pc[r] = "health"
    /\ \E map \in [DOMAIN candidates[r] -> UNION {Latest(b) : b \in DOMAIN candidates[r]}] :
          /\ \A b \in DOMAIN map : map[b] \in Latest(b)
          /\ health' = [health EXCEPT ![r] = map]
    /\ Answer(r, 200)
    /\ UNCHANGED <<now, serving, report, call, candidates, known>>

Commit(r) ==
    /\ pc[r] = "commit"
    /\ GoTo(r, "committed")
    /\ UNCHANGED <<now, serving, report, call, candidates, health, reply, known>>

(* A statement or the commit fails, or the process or the connection dies.  *)
Aborted(r) ==
    /\ pc[r] \in InFlight
    /\ Fail(r, IF pc[r] = "commit" THEN reply[r] ELSE 500)
    /\ UNCHANGED <<now, serving, call, candidates, health, known>>

(* Other requests commit a change of a backend or of its models.            *)
Change(b, offer) ==
    /\ serving' = [serving EXCEPT ![b] = offer]
    /\ UNCHANGED <<now, report, pc, call, candidates, health, reply, known>>

Tick ==
    /\ now < MaxTime
    /\ now' = now + 1
    /\ UNCHANGED <<serving, report, pc, call, candidates, health, reply, known>>

Next == \/ \E r \in Reporters : (\E c \in ReportCalls : BeginReport(r, c)) \/ Report(r)
        \/ \E r \in Rankers : \/ \E c \in RankCalls : BeginRank(r, c)
                              \/ ListCandidates(r) \/ ReadHealth(r)
        \/ \E r \in Requests : Commit(r) \/ Aborted(r)
        \/ \E b \in Backends, offer \in Offers \cup {NotServing} : Change(b, offer)
        \/ Tick

Spec == Init /\ [][Next]_vars

-----------------------------------------------------------------------------
(* What a ranking answers. *)

Payload(r) ==
    {[id |-> b, weight |-> candidates[r][b].weight, cost |-> candidates[r][b].cost,
      health |-> health[r][b].health, latency |-> health[r][b].latency] : b \in DOMAIN candidates[r]}

Ranking(r) == Ranked(call[r].policy, Payload(r))

Rankings == {r \in Rankers : pc[r] \in {"commit", "committed"}}

-----------------------------------------------------------------------------
(* Correctness. *)

(* A report that had been committed when a ranking began counts: for its    *)
(* backend the ranking uses this report or one with no earlier instant, in  *)
(* whatever order reports arrive (BackendRepository.latest_health_map).     *)
ReportsCount ==
    \A r \in Rankings : \A p \in known[r] :
        report[p] # NoReport /\ report[p].backend \in DOMAIN candidates[r]
            => /\ health[r][report[p].backend] # NoReport
               /\ report[p].at <= health[r][report[p].backend].at

(* The backend has been reported unhealthy, and not healthy with the same  *)
(* or a later instant since.                                                *)
Failing(r, b) ==
    \E p \in known[r] :
        /\ report[p] # NoReport /\ report[p].backend = b /\ report[p].health = "unhealthy"
        /\ \A q \in Reporters :
              report[q] # NoReport /\ report[q].backend = b /\ report[q].at >= report[p].at
                  => report[q].health = "unhealthy"

Chosen(r) ==
    LET ranking == Ranking(r)
        total   == Total(ranking, Eligible(ranking))
    IN  IF Eligible(ranking) = {} THEN {}
        ELSE {ranking[Pick(ranking, k, total)].id : k \in 0 .. total}

(* A backend that is failing is never chosen, whatever the fraction         *)
(* (pick_by_weight over rank_candidates).                                   *)
FailingNeverChosen ==
    \A r \in Rankings : \A b \in Chosen(r) : ~ Failing(r, b)

(* The next two hold of all candidates that Scoring makes, whatever the     *)
(* state: it is enough to look at them while nothing has happened.          *)
Untouched == now = 0 /\ \A r \in Requests : pc[r] = "idle"

(* A candidate that is no worse in anything than another one is ranked      *)
(* before it, under every policy and in spite of all roundings, unless      *)
(* their scores are equal; then the smaller id comes first, so that the     *)
(* order is the same every time (score_candidates).                         *)
BetterRanksFirst ==
    Untouched =>
        \A policy \in DOMAIN POLICY_FACTORS :
            \A x \in Candidates(1), y \in Candidates(2) : WellRanked(policy, x, y)

(* The choice is fair: the fractions that fall to a candidate are its share *)
(* of the scores, and one that is excluded has none (pick_by_weight,        *)
(* test_pick_by_weight_distribution_matches_weights).                       *)
SharesAreScores ==
    Untouched =>
        \A policy \in DOMAIN POLICY_FACTORS :
            \A x \in Candidates(1), y \in Candidates(2) : FairShares(Ranked(policy, {x, y}))
=============================================================================
