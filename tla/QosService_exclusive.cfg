SPECIFICATION Spec
CONSTANTS
    s1 = s1
    s2 = s2
    s3 = s3
    noTree = noTree
    throttled = throttled
    Scripts <- MCTwo
    Configs <- MCTwoBandwidths
    Overlap = TRUE
    NoTree <- MCNoTree
    Throttled <- MCThrottled
INVARIANTS
    Exclusive
