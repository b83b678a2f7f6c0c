SPECIFICATION Spec
CONSTANTS
    alice = alice
    Users = {alice}
    None = None
    MaxTraffic = 3
    MaxSeconds = 2
    MaxRestarts = 2
    MaxSteps = 2
    MaxFaults = 1
INVARIANTS
    TypeOK
    NeverOvercounted
PROPERTIES
    LabelsNeverDecrease
