\* Late and equal reports, changing backends, rankings in between.
SPECIFICATION Spec
CONSTANTS
    Parts = 6
    LatencyBaseline = 10
    CostBaseline = 1
    Weights = {1, 2}
    Costs = {0, 2, 20}
    Measured = {0, 5, 20}
    Reporters = {p1, p2}
    Rankers = {q1}
    Targets = {1, 2, NoBackend}
    Backends = {1, 2}
    Offers <- MCOffers
    Policies = {"least_latency", "magic"}
    Latencies = {5}
    MaxTime = 2
    NoTxn = NoTxn
    NoBackend = NoBackend
    NoCall = NoCall
    NotServing = NotServing
SYMMETRY Symmetry
INVARIANTS TypeOK ReportsCount FailingNeverChosen BetterRanksFirst SharesAreScores
