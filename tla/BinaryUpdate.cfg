SPECIFICATION FairSpec
CONSTANTS
    b1 = b1
    b2 = b2
    bad = bad
    None = None
    Bootstrap = Bootstrap
    Bundles = {b1, b2, bad}
    Unhealthy = {bad}
    Retained = 1
    MaxFaults = 2
    MaxDrifts = 1
INVARIANTS
    TypeOK
    NoRecordMeansConsistent
    RunningIsAccountedFor
    ReferencesAreWhole
    AnswerIsTrue
PROPERTIES
    ConfirmedForGood
    Recovers
