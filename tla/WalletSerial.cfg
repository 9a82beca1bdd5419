\* One wallet request in flight at a time, the code's real five attempts, and as
\* many database failures as a payment is meant to survive.
CONSTANTS
    Orders <- MCOrders
    Deliveries = {d1, d2, d3}
    Spends <- MCSpends
    NoOrder = NoOrder
    Amount <- MCAmount
    Cost <- MCCost
    JobAttempts = 5
    MaxPoint = 100
    MaxConcurrent = 1
    MaxFaults = 5
    MaxCrashes = 0
    QueueCanFail = FALSE
SPECIFICATION FairSpec
INVARIANT LedgerAddsUp
PROPERTIES ImplementsPointAccount RetriesCredit
\* The environment has finitely many requests: the system may stop.
CHECK_DEADLOCK FALSE
