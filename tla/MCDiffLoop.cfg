CONSTANTS
    k1 = k1
    k2 = k2
    k3 = k3
    b1 = b1
    b2 = b2
    None = None
    Keys <- MCKeys
    Bodies <- MCBodies
    MaxDocs = 2
SPECIFICATION Spec
CHECK_DEADLOCK FALSE
PROPERTY ImplementsAbstract
