SPECIFICATION Spec
CONSTANTS
    Configs = {good, other, bad}
    Unhealthy = {bad}
    Pids <- MCPids
    None = None
    MaxFaults = 1
INVARIANTS
    ConfirmedRunsCurrent
