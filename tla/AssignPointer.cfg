SPECIFICATION Spec
CONSTANTS
    Scholars = {s1, s2}
    Items = {i1}
    Labs = {l1}
    Ids = {x}
    Emails = {a}
    NoOne = NoOne
    NoItem = NoItem
    NoLab = NoLab
    Idle = Idle
    Requests = {}
    Location <- MCLocation
    MaxCodes = 2
    Settings <- MCIssue
CHECK_DEADLOCK FALSE
INVARIANT
    PointerIsIssued
