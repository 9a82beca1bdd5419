\* Two webhook requests for the same order overlap; nothing fails.
CONSTANTS
    Orders <- MCOrders
    Deliveries = {d1, d2}
    Spends <- MCSpends
    NoOrder = NoOrder
    Amount <- MCAmount
    Cost <- MCCost
    JobAttempts = 5
    MaxPoint = 100
    MaxConcurrent = 2
    MaxFaults = 0
    MaxCrashes = 0
    QueueCanFail = FALSE
SPECIFICATION Spec
INVARIANT CreditedOnce
CHECK_DEADLOCK FALSE
