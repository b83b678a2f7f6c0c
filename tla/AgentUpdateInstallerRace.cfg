SPECIFICATION Spec
CONSTANTS
    a = a
    b = b
    x = x
    d = d
    c1 = c1
    c2 = c2
    c3 = c3
    None = None
    Binaries = {a, b, x, d}
    Version <- MCVersion
    Healthy <- MCHealthy
    Installed = a
    Commands = {}
    CommandBinary <- MCCommandBinary
    Package = b
    Retained = 3
    MaxFaults = 0
INVARIANTS
    InstallerSuccessIsProven
