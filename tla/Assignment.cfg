SPECIFICATION Spec
CONSTANTS
    Scholars = {s1, s2}
    Items = {i1, i2}
    Labs = {l1, l2}
    Ids = {x}
    Emails = {a, b}
    NoOne = NoOne
    NoItem = NoItem
    NoLab = NoLab
    Idle = Idle
    Requests = {r1, r2}
    Location <- MCLocation
    MaxCodes = 2
    Settings <- MCSettings
SYMMETRY Symmetry
CHECK_DEADLOCK FALSE
INVARIANTS
    TypeOK
    SharedIdHasAReason
    PointerIsIssuedUnlessMoved
    MirrorsAgree
PROPERTIES
    NewestCodeOnly
    MovesOnlyByConsent
