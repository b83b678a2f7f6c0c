SPECIFICATION FairSpec
CONSTANTS
    Versions <- MCVersions
    Digests = {good, bad}
    Unhealthy = {bad}
    Retained = 1
    MaxFaults = 2
    MaxDrifts = 1
    None = None
INVARIANTS
    TypeOK
    NoRecordMeansConsistent
    RunningIsAccountedFor
    NoDanglingReference
    AnswerIsTrue

    
