SPECIFICATION FairSpec
CONSTANTS
    l1 = l1
    l2 = l2
    c1 = c1
    c2 = c2
    p = p
    foreign = foreign
    Lans <- MCLans
    Clients <- MCClients
    Bodies <- MCBodies
    Lengths <- MCLengths
    Foreign <- MCForeign
    Options <- MCOptions
    Strays <- MCStrays
    Room = 1
    MaxSent = 2
INVARIANTS
    TypeOK
    FitsBuffer
    NeverBlocks
PROPERTIES
    Served
    ImplementsRelay
