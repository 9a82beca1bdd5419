\* One worker, two campaigns of either kind, two requests at a time.
SPECIFICATION FairSpec
CONSTANTS
    Workers = {w1}
    MaxCampaigns = 2
    Requests = {r1, r2}
INVARIANT TypeOK
PROPERTIES VerdictStands HandedOver
