SPECIFICATION FairSpec
CONSTANTS
    b1 = b1
    b2 = b2
    Bootstrap = Bootstrap
    None = None
    Configs <- MCConfigs
    Bundles = {b1, b2}
    Loads <- MCLoads
    MaxFaults = 2
INVARIANTS
    TypeOK
    RunsWhatIsApplied
    ConfirmedPairWorks
PROPERTIES
    RestartDecides
