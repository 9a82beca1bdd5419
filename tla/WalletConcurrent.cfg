\* Everything overlaps: three webhook requests, two purchases, database failures,
\* a crash, a queue that may refuse, and a point column that can overflow.
CONSTANTS
    Orders <- MCOrders
    Deliveries = {d1, d2, d3}
    Spends <- MCSpends
    NoOrder = NoOrder
    Amount <- MCAmount
    Cost <- MCCost
    JobAttempts = 2
    MaxPoint = 4
    MaxConcurrent = 3
    MaxFaults = 2
    MaxCrashes = 1
    QueueCanFail = TRUE
SPECIFICATION FairSpec
INVARIANTS TypeOK NeverOverdrawn PointsAreFunded CompletedIffCredited DoneMeansCredited
PROPERTY WebhookSettles
\* The environment has finitely many requests: the system may stop.
CHECK_DEADLOCK FALSE
