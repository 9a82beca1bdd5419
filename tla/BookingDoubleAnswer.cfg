\* Two answers of one worker in progress at once, no edit of the campaign.
SPECIFICATION Spec
CONSTANTS
    Invitations = {i1, i2}
    Tabs = {t1, t2}
    Slots = {s1, s2}
    NoSlot = NoSlot
    Employer = Employer
    MaxCapacity = 1
    Horizon = 1
    LastTime = 2
    MaxTimers = 0
    MaxEdits = 0
    MaxFaults = 0
    EditsOverlap = FALSE
INVARIANT
    WithinCapacity
SYMMETRY AnyNames
CHECK_DEADLOCK FALSE
