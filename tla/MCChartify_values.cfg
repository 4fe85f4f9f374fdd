CONSTANTS
    k1 = k1
    k2 = k2
    b1 = b1
    b2 = b2
    Keys <- MCKeys
    CrdKeys <- MCCrdKeys
    Bodies <- MCBodies
    MaxDocs = 2
    MaxRuns = 2
    NoFile = NoFile
    Torn = Torn
    InitValues <- MCInitValues
    None = None
SYMMETRY Symmetry
SPECIFICATION Spec
\* main exits after its last run; the program really stops there.
CHECK_DEADLOCK FALSE
INVARIANT
    ValuesErrorLeavesOutputUntouched
