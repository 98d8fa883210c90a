SPECIFICATION Spec
CONSTANTS
    s1 = s1
    s2 = s2
    s3 = s3
    noTree = noTree
    throttled = throttled
    Scripts <- MCThree
    Configs <- MCConfigs
    Overlap = FALSE
    NoTree <- MCNoTree
    Throttled <- MCThrottled
SYMMETRY MCSymmetry
INVARIANTS
    TypeOK
    SettledConsistent
    OneMonitor
