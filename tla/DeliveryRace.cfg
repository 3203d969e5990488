\* Two more commits in one push or two, and three builds.
SPECIFICATION Spec
CONSTANTS
    c1 = c1
    c2 = c2
    Codes = {c1, c2}
    MovedAway <- MCMoved
    Expects <- MCSame
    InitVersion = 1
    MaxCommits = 3
    MaxPush = 2
    MaxBuilds = 3
    MaxTries = 2
    NoVersion = NoVersion
INVARIANTS TypeOK NothingForgotten RedIsHeard
PROPERTIES NeverBackwards
