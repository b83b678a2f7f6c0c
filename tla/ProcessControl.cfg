SPECIFICATION FairSpec
CONSTANTS
    Configs = {good, other, bad}
    Unhealthy = {bad}
    Pids <- MCPids
    None = None
    MaxFaults = 2
INVARIANTS
    TypeOK
    ReplacementRunsCurrent
    StoppedStaysStopped
PROPERTIES
    CallReturns
    XrayReturns
