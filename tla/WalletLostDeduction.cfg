\* A purchase runs while a top-up's transaction is open; nothing fails and no
\* webhook request is repeated.
CONSTANTS
    Orders <- MCOrders
    Deliveries = {d1, d2}
    Spends <- MCSpends
    NoOrder = NoOrder
    Amount <- MCAmount
    Cost <- MCCost
    JobAttempts = 5
    MaxPoint = 100
    MaxConcurrent = 2
    MaxFaults = 0
    MaxCrashes = 0
    QueueCanFail = FALSE
SPECIFICATION Spec
INVARIANT SpentPointsStaySpent
CHECK_DEADLOCK FALSE
