\* The manager edits or cancels while two workers answer.
SPECIFICATION Spec
CONSTANTS
    Invitations = {i1, i2}
    Tabs = {t1}
    Slots = {s1, s2}
    NoSlot = NoSlot
    Employer = Employer
    MaxCapacity = 1
    Horizon = 0
    LastTime = 2
    MaxTimers = 0
    MaxEdits = 1
    MaxFaults = 0
    EditsOverlap = TRUE
INVARIANTS
    SeatedAreAccepted
    CountersWithinTotal
SYMMETRY AnyNames
CHECK_DEADLOCK FALSE
