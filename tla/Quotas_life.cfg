SPECIFICATION FairSpec
CONSTANTS
    a = a
    b = b
    c = c
    d = d
    ip = ip
    noId = noId
    none = none
    Sections = {a, b, c}
    Place <- MCPlace
    Others <- MCOthers
    Base <- MCBase
    Slashed <- MCSlashed
    NoId <- MCNoId
    None <- MCNone
    MaxUse = 1
    Edits <- MCEdits
    Restores = {r1}
    Backups = {b1}
    Overlap = FALSE
INVARIANTS
    TypeOK
    IdsDistinct
    BackupScheduled
PROPERTIES
    RestoreEnds
    ImplementsLedger
