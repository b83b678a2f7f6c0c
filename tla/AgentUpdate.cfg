SPECIFICATION FairSpec
CONSTANTS
    a = a
    b = b
    x = x
    d = d
    c1 = c1
    c2 = c2
    c3 = c3
    None = None
    Binaries = {a, b, x, d}
    Version <- MCRebuild
    Healthy <- MCHealthy
    Installed = a
    Commands = {c2, c3}
    CommandBinary <- MCCommandBinary
    Package = b
    Retained = 1
    MaxFaults = 2
INVARIANTS
    TypeOK
    UnprotectedIsProven
    RollbackTargetIsProven
PROPERTIES
    NodeReturns
