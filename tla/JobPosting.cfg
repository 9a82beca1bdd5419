\* Two postings, two requests at a time, any of them failing anywhere.
SPECIFICATION FairSpec
CONSTANTS
    Jobs = {j1, j2}
    Requests = {r1, r2}
    NoJob = NoJob
    Points = 1
    PostPrice = 1
    Packages <- MCPackages
INVARIANTS TypeOK ListedForAReason FreeOnce NothingOwed
PROPERTY ExpiryIsNoticed
