\* Two campaigns, three requests of the employer, a failure and a crash.
SPECIFICATION FairSpec
CONSTANTS
    Campaigns = {c1, c2}
    Workers = {w1}
    Requests = {r1, r2, r3}
    NoCampaign = NoCampaign
    Points = 1
    Prices <- MCPrices
    MaxFaults = 1
    MaxCrashes = 1
INVARIANTS TypeOK SentIsPaid PaidOnce PaidMeansSent CancelledIsQuiet
PROPERTY SendingEnds
\* The employer has finitely many requests: the system may stop.
CHECK_DEADLOCK FALSE
