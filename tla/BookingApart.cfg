\* Two workers answer at the same time, one answer each; the manager's request
\* runs while no answer is in progress.
SPECIFICATION Spec
CONSTANTS
    Invitations = {i1, i2}
    Tabs = {t1}
    Slots = {s1, s2}
    NoSlot = NoSlot
    Employer = Employer
    MaxCapacity = 2
    Horizon = 1
    LastTime = 2
    MaxTimers = 1
    MaxEdits = 1
    MaxFaults = 1
    EditsOverlap = FALSE
INVARIANTS
    TypeOK
    ListsAgree
PROPERTIES
    NoLateBooking
    ImplementsSeatPlan
SYMMETRY AnyNames
CHECK_DEADLOCK FALSE
