\* One push of code that expects another version of the schema.
SPECIFICATION Spec
CONSTANTS
    c1 = c1
    c2 = c2
    Codes = {c1, c2}
    MovedAway = {}
    Expects <- MCExpects
    InitVersion = 1
    MaxCommits = 2
    MaxPush = 1
    MaxBuilds = 2
    MaxTries = 2
    NoVersion = NoVersion
INVARIANTS GreenMeansConsistent
