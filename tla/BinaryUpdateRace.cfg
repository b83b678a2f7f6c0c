SPECIFICATION Spec
CONSTANTS
    b1 = b1
    b2 = b2
    bad = bad
    None = None
    Bootstrap = Bootstrap
    Bundles = {b1, b2, bad}
    Unhealthy = {bad}
    Retained = 1
    MaxFaults = 0
    MaxDrifts = 0
INVARIANT FailureIsRestored
