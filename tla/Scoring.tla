------------------------------- MODULE Scoring -------------------------------
(***************************************************************************)
(* The score of a backend, the ranking of candidates and the choice among  *)
(* them (service/scoring.py).  A number between 0 and 1 is a number of     *)
(* parts; the code rounds to 1 / 1000000, here to 1 / Parts, so that few   *)
(* values meet the roundings, also to 0.  Floats are exact here: where the *)
(* code multiplies binary fractions, a result half way between two parts   *)
(* goes to the even one.                                                   *)
(***************************************************************************)
EXTENDS Integers, Sequences, FiniteSets, FiniteSetsExt, SequencesExt

CONSTANTS
    Parts,          \* parts of 1 that results are rounded to
    LatencyBaseline, CostBaseline,
    Weights, Costs, Measured    \* for checking: weights, costs and latencies to score

ASSUME ScaleAssumption ==
    /\ Parts \in Nat \ {0} /\ Parts % 2 = 0
    /\ LatencyBaseline \in Nat \ {0} /\ CostBaseline \in Nat \ {0}
    /\ Weights \subseteq Nat \ {0} /\ Costs \subseteq Nat /\ Measured \subseteq Nat

Unmeasured == -1    \* latency_ms is None

(* Twice the exponent of each factor; that of health is always 1.           *)
POLICY_FACTORS ==
    [weighted_random |-> [latency |-> 2, cost |-> 2],
     least_latency   |-> [latency |-> 6, cost |-> 0],
     round_robin     |-> [latency |-> 0, cost |-> 0],
     session_sticky  |-> [latency |-> 1, cost |-> 1]]

(* In halves.                                                               *)
HEALTH_FACTOR == [healthy |-> 2, unknown |-> 1, unhealthy |-> 0]

Power(x, n) ==
    LET power[k \in 0 .. n] == IF k = 0 THEN 1 ELSE x * power[k - 1] IN power[n]

Square(x) == x * x

(* The integer next to num / den.                                           *)
Round(num, den) ==
    LET q == num \div den
        r == num % den
    IN  IF 2 * r < den \/ (2 * r = den /\ q % 2 = 0) THEN q ELSE q + 1

(* The integer up to limit that is next to the root of num / den.           *)
RoundRoot(num, den, limit) ==
    CHOOSE n \in 0 .. limit :
        LET low  == IF n = 0 THEN -1 ELSE Square(2 * n - 1) * den
            high == Square(2 * n + 1) * den
        IN  \/ low < 4 * num /\ 4 * num < high
            \/ 4 * num \in {low, high} /\ n % 2 = 0

-----------------------------------------------------------------------------
LatencyFactor(latency) ==
    IF latency = Unmeasured THEN Parts \div 2
    ELSE Round((10 * LatencyBaseline - 6 * Min({latency, LatencyBaseline})) * Parts,
               10 * LatencyBaseline)

CostFactor(cost) ==
    IF cost <= 0 THEN Parts ELSE Round(Min({CostBaseline, cost}) * Parts, cost)

(* weight * health * latency^a * cost^b, where a or b may be one half.      *)
Score(policy, c) ==
    LET f == POLICY_FACTORS[policy]
    IN  RoundRoot(Square(c.weight * HEALTH_FACTOR[c.health] * Parts)
                     * (Power(LatencyFactor(c.latency), f.latency)
                        * Power(CostFactor(c.cost), f.cost)),
                  4 * (Power(Parts, f.latency) * Power(Parts, f.cost)),
                  c.weight * Parts)

Scored(policy, c) ==
    [id |-> c.id, score |-> Score(policy, c), excluded |-> HEALTH_FACTOR[c.health] = 0]

(* Mutant: the best come last.                                              *)
PrecedesUpwards(x, y) == x.score < y.score \/ (x.score = y.score /\ x.id < y.id)

(* Higher scores come first, equal ones in the order of the ids.            *)
Precedes(x, y) == x.score > y.score \/ (x.score = y.score /\ x.id < y.id)

Ranked(policy, candidates) ==
    CHOOSE s \in SetToSeqs({Scored(policy, c) : c \in candidates}) :
        \A i, j \in DOMAIN s : i < j => Precedes(s[i], s[j])

-----------------------------------------------------------------------------
(* Mutant: nobody is left out.                                              *)
EligibleAll(ranked) == DOMAIN ranked

(* The positions of those that are not left out.                            *)
Eligible(ranked) == {i \in DOMAIN ranked : ~ ranked[i].excluded}

(* The sum of the scores at some positions: all their parts, counted.       *)
Total(ranked, positions) ==
    Cardinality(UNION {{i} \X (1 .. ranked[i].score) : i \in positions})

(* Up to this position.                                                     *)
Running(ranked, i) == Total(ranked, {j \in Eligible(ranked) : j <= i})

(* Mutant: the end of a share belongs to the next one.                      *)
PickBefore(ranked, num, den) ==
    LET eligible == Eligible(ranked)
        cursor   == Max({0, Min({num, den})}) * Total(ranked, eligible)
        reached  == {i \in eligible : cursor < Running(ranked, i) * den}
    IN  IF Total(ranked, eligible) = 0 THEN Min(eligible)
        ELSE IF reached = {} THEN Max(eligible) ELSE Min(reached)

(* The position, among the eligible, of the one that gets the fraction      *)
(* num / den of the scores; the walk always arrives, the last line of the   *)
(* code is for float sums.                                                  *)
Pick(ranked, num, den) ==
    LET eligible == Eligible(ranked)
        cursor   == Max({0, Min({num, den})}) * Total(ranked, eligible)
        reached  == {i \in eligible : cursor <= Running(ranked, i) * den}
    IN  IF Total(ranked, eligible) = 0 THEN Min(eligible)
        ELSE IF reached = {} THEN Max(eligible) ELSE Min(reached)
-----------------------------------------------------------------------------
(* Correctness, for all candidates that these values make. *)

Healths == [health : {"unknown", "unhealthy"}, latency : {Unmeasured}]
               \cup [health : {"healthy"}, latency : Measured \cup {Unmeasured}]

Candidates(id) ==
    {[id |-> id, weight |-> w, cost |-> c, health |-> h.health, latency |-> h.latency] :
        w \in Weights, c \in Costs, h \in Healths}

NoWorse(c, d) ==
    /\ c.weight >= d.weight
    /\ HEALTH_FACTOR[c.health] >= HEALTH_FACTOR[d.health]
    /\ (c.latency = Unmeasured) = (d.latency = Unmeasured) /\ c.latency <= d.latency
    /\ c.cost <= d.cost

(* x, with the smaller id, and y come in the right order.                   *)
WellRanked(policy, x, y) ==
    LET ranked == Ranked(policy, {x, y})
        tie    == ranked[1].score = ranked[2].score
    IN  /\ NoWorse(x, y) => ranked[1].id = x.id
        /\ NoWorse(y, x) => ranked[1].id = y.id \/ tie
        /\ tie => ranked[1].id = x.id

(* Of as many equally distant fractions as there are parts in all scores,   *)
(* each candidate gets as many as it has parts.                             *)
FairShares(ranked) ==
    LET total     == Total(ranked, Eligible(ranked))
        chosen(k) == ranked[Pick(ranked, k, total)].id
    IN  total > 0 => \A i \in DOMAIN ranked :
            Cardinality({k \in 1 .. total : chosen(k) = ranked[i].id}) = ranked[i].score
=============================================================================
