------------------------------ MODULE JobPosting ------------------------------
(***************************************************************************)
(* The job postings of one company: how a posting is created, published    *)
(* for free or for points, boosted, edited, expired and deleted, and which *)
(* lists show it.                                                          *)
(*                                                                         *)
(* A request looks at the posting, charges the wallet and changes the      *)
(* posting in separate calls of the database.  History variables record    *)
(* which postings there was a reason to publish, and what has been paid    *)
(* for and not yet delivered.                                              *)
(***************************************************************************)
EXTENDS Integers, FiniteSets

CONSTANTS
    Jobs,           \* postings the company may create
    Requests,       \* the employer's requests that may be open at once
    NoJob,          \* what an idle request is about
    Points,         \* the company's points at the start
    PostPrice,      \* JOB_POST_POINT_COST
    Packages        \* the boost packages on sale: days and price

ASSUME JobAssumption ==
    /\ NoJob \notin Jobs
    /\ IsFiniteSet(Requests)
    /\ Points \in Nat /\ PostPrice \in Nat
    /\ Packages \subseteq [days : Nat \ {0}, price : Nat]

VARIABLES
    job,            \* status, due date, boost flag and days of boost left of each posting
    firstPostUsed,  \* company.firstJobPostUsedAt is set
    balance,        \* CompanyWallet.balancePoint
    pc,             \* where each request stands
    req,            \* its posting, the days it buys and the days it has read
    licensed,       \* postings paid for, free or released by a moderator
    free,           \* postings published for free
    owed,           \* posts and days of boost charged and not delivered
    calm            \* no request was overtaken by another writer, none failed

flight == <<pc, req>>
vars == <<job, firstPostUsed, balance, flight, licensed, free, owed, calm>>

-----------------------------------------------------------------------------
JobStatus == {"WARNING", "PUBLISHED", "EXPIRED", "DELETED"}
Due == {"ahead", "past"}     \* expiredAt; one that is not set stays ahead
Posting == [status : JobStatus \cup {"absent"}, due : Due, boosted : BOOLEAN, left : Nat]
NoPosting == [status |-> "absent", due |-> "ahead", boosted |-> FALSE, left |-> 0]

Place == {"idle", "created", "publishingFree", "charging", "publishing",
          "chargingBoost", "boosting", "extending"}
NoRequest == [job |-> NoJob, days |-> 0, price |-> 0, read |-> 0]
InFlight == {r \in Requests : pc[r] # "idle"}
Existing == {j \in Jobs : job[j].status # "absent"}
Published == {j \in Jobs : job[j].status = "PUBLISHED"}

\* A posting may be there from the start, released by a moderator and boosted.
OldPosting == [status |-> "PUBLISHED", due |-> "ahead", boosted |-> TRUE, left |-> 1]

Init ==
    /\ job \in [Jobs -> {NoPosting, OldPosting}]
    /\ firstPostUsed = FALSE
    /\ balance = Points
    /\ pc = [r \in Requests |-> "idle"]
    /\ req = [r \in Requests |-> NoRequest]
    /\ licensed = {j \in Jobs : job[j] = OldPosting}
    /\ free = {}
    /\ owed = [j \in Jobs |-> [posts |-> 0, days |-> 0]]
    /\ calm = TRUE

Goto(r, place, what) ==
    /\ pc' = [pc EXCEPT ![r] = place]
    /\ req' = [req EXCEPT ![r] = what]
Proceed(r, place) == Goto(r, place, req[r])
Finish(r) == Goto(r, "idle", NoRequest)
About(j) == [NoRequest EXCEPT !.job = j]

\* Anything that comes in while a request is open ends the calm.
Undisturbed == calm' = (calm /\ InFlight = {})
Arrive(r, place, what) ==
    /\ pc[r] = "idle"
    /\ Goto(r, place, what)
    /\ Undisturbed

-----------------------------------------------------------------------------
(* createJob.                                                              *)

\* A date that has passed is refused; what is accepted is inserted as WARNING.
CreateJob(r, j) ==
    /\ job[j].status = "absent"
    /\ job' = [job EXCEPT ![j].status = "WARNING"]
    /\ Arrive(r, "created", About(j))
    /\ UNCHANGED <<firstPostUsed, balance, licensed, free, owed>>

CheckFree(r) ==
    /\ pc[r] = "created"
    /\ Proceed(r, IF firstPostUsed THEN "charging" ELSE "publishingFree")
    /\ UNCHANGED <<job, firstPostUsed, balance, licensed, free, owed, calm>>

FreeUseForgotten == firstPostUsed                                \* mutant
FreeUseRecorded == TRUE

\* publishFirstJobForFree, one transaction: it does not look at the flag again.
PublishFree(r) ==
    LET j == req[r].job IN
    /\ pc[r] = "publishingFree"
    /\ firstPostUsed' = FreeUseRecorded
    /\ job' = [job EXCEPT ![j].status = "PUBLISHED"]
    /\ free' = free \cup {j}
    /\ licensed' = licensed \cup {j}
    /\ Finish(r)
    /\ UNCHANGED <<balance, owed, calm>>

-----------------------------------------------------------------------------
(* createJobPostingCheckout, and the paid end of createJob.                *)

\* Whatever is not PUBLISHED may be paid for, a deleted posting too.
ReceivePost(r, j) ==
    /\ j \in Existing \ Published
    /\ Arrive(r, "charging", About(j))
    /\ UNCHANGED <<job, firstPostUsed, balance, licensed, free, owed>>

Unchecked(price) == TRUE                                         \* mutant
Affordable(price) == price <= balance
RefusalIgnored(r, place) == Proceed(r, place)                      \* mutant
Refused(r, place) == Finish(r)

\* deductPoints: one guarded UPDATE.
Charge(r, price, place, paid) ==
    IF Affordable(price)
    THEN /\ balance' = balance - price
         /\ owed' = paid
         /\ Proceed(r, place)
    ELSE /\ Refused(r, place)
         /\ UNCHANGED <<balance, owed>>

ChargePost(r) ==
    /\ pc[r] = "charging"
    /\ Charge(r, PostPrice, "publishing", [owed EXCEPT ![req[r].job].posts = @ + 1])
    /\ licensed' = IF Affordable(PostPrice) THEN licensed \cup {req[r].job} ELSE licensed
    /\ UNCHANGED <<job, firstPostUsed, free, calm>>

\* publishJobByPoint sets PUBLISHED by id alone.  It delivers a post when the
\* posting was not published already.
PublishByPoint(r) ==
    LET j == req[r].job IN
    /\ pc[r] = "publishing"
    /\ job' = [job EXCEPT ![j].status = "PUBLISHED"]
    /\ owed' = IF j \in Published THEN owed ELSE [owed EXCEPT ![j].posts = @ - 1]
    /\ Finish(r)
    /\ UNCHANGED <<firstPostUsed, balance, licensed, free, calm>>

-----------------------------------------------------------------------------
(* createBoostCheckout.                                                    *)

ReceiveBoost(r, j, package) ==
    /\ j \in Published
    /\ Arrive(r, "chargingBoost",
              [job |-> j, days |-> package.days, price |-> package.price, read |-> 0])
    /\ UNCHANGED <<job, firstPostUsed, balance, licensed, free, owed>>

ChargeBoost(r) ==
    /\ pc[r] = "chargingBoost"
    /\ Charge(r, req[r].price, "boosting", [owed EXCEPT ![req[r].job].days = @ + req[r].days])
    /\ UNCHANGED <<job, firstPostUsed, licensed, free, calm>>

\* activateBoostByPoint: the transaction reads the end of the boost that runs,
\* then writes the new end as an absolute date.
ReadBoost(r) ==
    /\ pc[r] = "boosting"
    /\ Goto(r, "extending", [req[r] EXCEPT !.read = job[req[r].job].left])
    /\ UNCHANGED <<job, firstPostUsed, balance, licensed, free, owed, calm>>

ExtendedFromNow(read, days) == days                              \* mutant
Extended(read, days) == read + days

ExtendBoost(r) ==
    LET j == req[r].job
        left == Extended(req[r].read, req[r].days)
    IN
    /\ pc[r] = "extending"
    /\ job' = [job EXCEPT ![j].boosted = TRUE, ![j].left = left]
    /\ owed' = [owed EXCEPT ![j].days = @ - (left - job[j].left)]
    /\ Finish(r)
    /\ UNCHANGED <<firstPostUsed, balance, licensed, free, calm>>

-----------------------------------------------------------------------------
(* updateJob, deleteJob, and the moderator's updateJobStatus.              *)

\* The employer's edits and deletions are one write each, by id: an edit may set
\* any date and changes no status.
UpdateJob(j, due) ==
    /\ j \in Existing
    /\ job' = [job EXCEPT ![j].due = due]
    /\ UNCHANGED <<firstPostUsed, balance, flight, licensed, free, owed, calm>>

\* Refused while an interview of the posting is ahead, which changes nothing.
DeleteJob(j) ==
    /\ j \in Existing
    /\ job' = [job EXCEPT ![j].status = "DELETED"]
    /\ Undisturbed
    /\ UNCHANGED <<firstPostUsed, balance, flight, licensed, free, owed>>

UpdateJobStatus(j, status) ==
    /\ j \in Existing
    /\ job' = [job EXCEPT ![j].status = status]
    /\ licensed' = IF status = "PUBLISHED" THEN licensed \cup {j} ELSE licensed
    /\ Undisturbed
    /\ UNCHANGED <<firstPostUsed, balance, flight, free, owed>>

-----------------------------------------------------------------------------
(* Time, the hourly job, the lists, and failures.                          *)

DateComes(j) ==
    /\ job[j].due = "ahead"
    /\ job' = [job EXCEPT ![j].due = "past"]
    /\ UNCHANGED <<firstPostUsed, balance, flight, licensed, free, owed, calm>>

\* No transaction stays open for a day.
DayPasses ==
    /\ \A r \in Requests : pc[r] # "extending"
    /\ \E j \in Jobs : job[j].left > 0
    /\ job' = [j \in Jobs |-> [job[j] EXCEPT !.left = IF @ > 0 THEN @ - 1 ELSE 0]]
    /\ UNCHANGED <<firstPostUsed, balance, flight, licensed, free, owed, calm>>

OnlyUnpublished(j) == job[j].due = "past" /\ job[j].status = "WARNING"   \* mutant
Overdue(j) == job[j].due = "past" /\ job[j].status \notin {"absent", "EXPIRED", "DELETED"}

\* handleExpiredJobs, every hour: one UPDATE of all of them.
MarkExpiredJobs ==
    /\ \E j \in Jobs : Overdue(j)
    /\ job' = [j \in Jobs |-> IF Overdue(j) THEN [job[j] EXCEPT !.status = "EXPIRED"] ELSE job[j]]
    /\ Undisturbed
    /\ UNCHANGED <<firstPostUsed, balance, flight, licensed, free, owed>>

Lapsed(j) == job[j].boosted /\ job[j].left = 0

\* deactivateExpiredBoosts, which every search and every list of boosted
\* postings begins with.
DeactivateExpiredBoosts ==
    /\ \E j \in Jobs : Lapsed(j)
    /\ job' = [j \in Jobs |-> IF Lapsed(j) THEN [job[j] EXCEPT !.boosted = FALSE] ELSE job[j]]
    /\ UNCHANGED <<firstPostUsed, balance, flight, licensed, free, owed, calm>>

\* The call a request is about to make fails, and the request with it.
RequestFails(r) ==
    /\ pc[r] # "idle"
    /\ calm' = FALSE
    /\ Finish(r)
    /\ UNCHANGED <<job, firstPostUsed, balance, licensed, free, owed>>

Next ==
    \/ \E r \in Requests :
          \/ \E j \in Jobs : CreateJob(r, j) \/ ReceivePost(r, j)
          \/ CheckFree(r) \/ PublishFree(r)
          \/ ChargePost(r) \/ PublishByPoint(r)
          \/ \E j \in Jobs, p \in Packages : ReceiveBoost(r, j, p)
          \/ ChargeBoost(r) \/ ReadBoost(r) \/ ExtendBoost(r)
          \/ RequestFails(r)
    \/ \E j \in Jobs :
          \/ \E due \in Due : UpdateJob(j, due)
          \/ DeleteJob(j)
          \/ \E s \in JobStatus : UpdateJobStatus(j, s)
          \/ DateComes(j)
    \/ DayPasses
    \/ MarkExpiredJobs
    \/ DeactivateExpiredBoosts

Spec == Init /\ [][Next]_vars

\* The hourly job runs for ever, and nothing else is assumed to.
FairSpec == Spec /\ WF_vars(MarkExpiredJobs)

-----------------------------------------------------------------------------
(* The lists.                                                              *)

SearchResults(allStatus) ==
    IF allStatus THEN {j \in Existing : job[j].status # "DELETED"} ELSE Published
NewestJobs == Published
BoostedJobs == {j \in Published : job[j].boosted /\ job[j].left > 0}
RelatedJobs(j) == Published \ {j}
WarningJobs == {j \in Jobs : job[j].status = "WARNING"}
JobsByCompanyId(status) == {j \in Existing : job[j].status = status}

Listed == SearchResults(FALSE) \cup NewestJobs \cup BoostedJobs
             \cup UNION {RelatedJobs(j) : j \in Jobs}

-----------------------------------------------------------------------------
(* What the posting of jobs promises.                                      *)

\* Every variable keeps its domain, under every interleaving.  Among other
\* things the balance is never overdrawn, and never is more delivered - a post,
\* a day of boost - than was charged (activateBoostByPoint may lose an
\* extension, but cannot invent one).
TypeOK ==
    /\ job \in [Jobs -> Posting]
    /\ firstPostUsed \in BOOLEAN
    /\ balance \in Nat
    /\ pc \in [Requests -> Place]
    /\ req \in [Requests -> [job : Jobs \cup {NoJob}, days : Nat, price : Nat, read : Nat]]
    /\ licensed \subseteq Jobs /\ free \subseteq licensed
    /\ owed \in [Jobs -> [posts : Nat, days : Nat]]
    /\ calm \in BOOLEAN

\* No public list shows a posting that was neither paid for, nor the free one,
\* nor released by a moderator, whatever overlaps or fails
\* (createJob, createJobPostingCheckout, updateJobStatus).
ListedForAReason == Listed \subseteq licensed

\* Posting is free once per company: createJob reads firstJobPostUsedAt and
\* publishes later, so no more postings are free than requests were open at
\* once, and only one when requests do not overlap.
FreeOnce ==
    /\ Cardinality(free) <= Cardinality(Requests)
    /\ calm => Cardinality(free) <= 1

\* While no request is overtaken or fails, all that was charged has been
\* delivered when none is open: the posting was published by each charge for it,
\* and each boost bought has added its days to the boost that was running.
NothingOwed ==
    calm /\ InFlight = {} => \A j \in Jobs : owed[j] = [posts |-> 0, days |-> 0]

\* A posting whose date has come leaves the public lists and the moderator's,
\* and the employer sees it as expired, unless it is given another date or
\* deleted - however often it is published again in the meantime.
ExpiryIsNoticed ==
    \A j \in Jobs :
        (j \in Listed \cup WarningJobs /\ job[j].due = "past")
            ~> (j \in JobsByCompanyId("EXPIRED") \cup JobsByCompanyId("DELETED")
                   \/ job[j].due # "past")
=============================================================================
