SPECIFICATION Spec
CONSTANTS
    a = a
    b = b
    c = c
    d = d
    ip = ip
    noId = noId
    none = none
    Sections = {d}
    Place <- MCPlace
    Others <- MCOthers
    Base <- MCBase
    Slashed <- MCSlashed
    NoId <- MCNoId
    None <- MCNone
    MaxUse = 2
    Edits <- MCEdits
    Restores = {r1, r2}
    Backups = {b1, b2}
    Overlap = TRUE
SYMMETRY Alike
INVARIANTS
    ChargedOnce
    NotForgotten
