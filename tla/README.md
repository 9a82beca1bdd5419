# Formal models of the WorkLink backend

The repository (`src/`) is the backend of a job-matching site: a NestJS server over
PostgreSQL (Prisma), with Redis for caches and Bull queues, cron jobs in the server
process, and SePay as the payment provider. Employers buy points, spend them on
publishing jobs, boosting them and inviting workers to interviews; workers apply,
answer invitations and book interview slots.

Every request runs as a Node handler that awaits database calls one after the other,
and several server processes may run at once. So the unit of atomicity is one database
statement, or one transaction whose effect does not depend on what it read earlier.
`prisma.$transaction` runs at READ COMMITTED: a value read earlier in a transaction may be
stale when it is used, a statement re-evaluates its own `WHERE` on the latest row, the
writes of a transaction become visible together, and an error rolls all of them back.
The models are written at that grain.

Paths below are relative to `src/src/modules/` unless they start with `src/`.

## Inventory

Legend: **M** modelled, **P** partly, **-** not modelled (see the last section).

| | Component | State | Operations | What is hard about it | What makes it correct |
|-|-|-|-|-|-|
| M | wallet (`wallet/`) | `PaymentOrder`, `CompanyWallet`, `WalletTransaction` | `createTopupCheckout`, `processTopupWebhookPayload`, `deductPoints`, history | status read outside the transaction; balance written as an absolute value next to a guarded relative update; acknowledged before processed | an order is credited once; the balance is never negative, never more than was paid in; status, balance and history commit together; no full payment is dismissed uncredited |
| M | payment queue (`src/src/infrastructure/queue/payment/`) | Bull jobs, attempts, failed set | enqueue after a failed webhook, process, retry | job repeats a half-known attempt; crash; queue refuses; overflow repeats for ever | a job ends; five attempts, not four or six |
| P | interview invitations: answers and slots | `InterviewInvitation`, `InterviewInvitationSlot.bookedCount`, campaign counters | `respondToInvitation`, `updateCampaign`, `cancelCampaign`, `updateCampaignStats`, adding workers | concurrent answers, compare-and-set, edits from a copy, deadline checked twice, counters refreshed after the commit | `bookedCount` = holders; no seat in a full slot; nobody seated late or on a slot that is gone |
| P | interview invitations: create and send | campaign `DRAFT / IN_PROGRESS / COMPLETED / CANCELLED`, invitations, payment | `createCampaign`, `sendCampaign`, timer, `updateCampaign`, `cancelCampaign` | charge and status in different calls; two sends at once; timer overwrites `CANCELLED` | no campaign is sent unpaid; paid once and sent once paid, unless requests overlap or fail; a cancelled one waits for nobody; a sending ends |
| P | interview reminders | notifications with their links | five-minute cron, four passes | look-then-insert, overlapping or failing runs, answers in between | whoever has accepted is reminded, once, although one run fails |
| P | jobs: publishing, boosting (`job/`) | job status, `expiredAt`, `boostExpiredAt`, `firstJobPostUsedAt` | create, publish, boost, edit, expire, delete, the lists | charge and effect in different transactions; first post free decided on a stale read; absolute boost date | nothing is listed for nothing; one free post; every charge has its effect; an overdue posting is noticed |
| M | jobs: applications | `JobApplication`, campaigns, invitations | apply, cancel, review, hand-over to a campaign, both kinds of acceptance | unconditional writes after a check; unique keys as the only guard; swallowed errors; cancelled campaigns reopened by a sending | a verdict is not overwritten; the hand-over arrives; totals agree with the invitations |
| M | jobs: views, saved jobs, reports | view counter, `SavedJob`, `JobReport`, notifications | `recordView`, `saveJob`, `reportJob`, the decision | look-then-insert; the notification after the row | a view per address and day; what is decided is told |
| P | companies (`company/`) | company status, `CompanyProfileUpdateRequest`, reviews and their reports | register, edit, review, review an update, review a company, report, hide | status read, files uploaded, then written; request read, applied and closed by id | no profile is shown that no manager has seen; at most one pending request; every listed report has its review |
| P | users (`users/`) | accounts, reset tokens, failed log-ins | sign-up, log-in, reset, change, delete, block | count-then-create; check-then-use tokens; counter read before it is raised | one manager; a token works once; wrong attempts lock |
| M | sessions and tokens | `Session.jti`, revocation, expiry | log-in, refresh, logout, deletion | jti compared, then overwritten | a token is exchanged once; a deleted account has no session |
| P | cached catalogues (`sector/`, `occupation/`) | Redis keys over two tables | cache-aside reads, edits, invalidations | old value stored after the invalidation; key not invalidated | a cached list is the table's, but for three known cases |
| M | AI matching and scoring (`ai-matching/`) | weights | score functions, `updateConfigs` | null fields, the boost, similarities down to -1, partial weights | no score above 1, the same occupation never behind another, and the boost costs nobody a match |
| P | embeddings | one vector per posting | build when published or edited | a model call between reading the text and storing | a published posting is matched by its own text |
| P | administration (`admin/`) | payment packages, point prices | create, edit, default | checks, then writes | an employer's choice of days names one package |
| P | chat (`chat/`) | messages, read marks, rooms | send, broadcast, page, mark read | pages while messages arrive; `createdAt` in another order than the commits, and not unique; broadcast after the commit | a client that pages back misses nothing but messages of one millisecond |
| M | support tickets (`support/`) | tickets | create under a random code, update, list | code drawn, then inserted; status read, then resolution time written | time of resolution exactly while resolved |
| - | email queue, statistics, notifications, terms | rows, snapshots | calls of a mailer, aggregates, single-row writes | none of their own | - |
| - | guards, middleware, storage, mail, redis, health | none | per-request checks, wrappers | none | - |
| P | schema (`schema.prisma`) | keys, foreign keys | `onDelete` actions, unique keys | - | taken into the modules that use the rows |

How they interact: jobs, boosting and `sendCampaign` call `deductPoints` of the wallet; the
payment worker calls the same `processTopupWebhookPayload` as the controller; a suitable
applicant and an accepted slot-less invitation add a worker to a campaign; an acceptance
upserts a `JobApplication`; nearly everything creates notifications. The server's only
other concurrency is the Bull workers, the cron jobs and `setTimeout` of `sendCampaign`.

## Modules

| Module | Role |
|-|-|
| `PointAccount` | abstract: what a point wallet promises |
| `Wallet` | the wallet, the webhook, the payment queue, in the code's steps |
| `MCWallet` | small instances of `Wallet` |
| `WalletProofs` | theorems about `Wallet` for all values of its constants |
| `SeatPlan` | abstract: what the slots of a campaign promise |
| `InterviewBooking` | answers, edits, cancellation, counters of one campaign |
| `MCInterviewBooking` | small instances, symmetry |
| `BookingProofs` | theorems about `InterviewBooking` for all values of its constants |
| `CampaignSend` | the campaigns of one job: creating, paying, sending, editing, cancelling, the timer |
| `MCCampaignSend` | a small instance of `CampaignSend` |
| `CampaignProofs` | theorems about `CampaignSend` for all values of its constants |
| `JobPosting`, `MCJobPosting` | the postings of a company: creating, paying, boosting, expiring, listing |
| `Applications`, `MCApplications` | applications for one job and the hand-over to its campaigns |
| `JobPostingProofs`, `ApplicationsProofs` | theorems about these two for all values of their constants |
| `Sessions`, `Passwords`, `SignUps` | the accounts: tokens, log-in and reset, the single manager |
| `Companies`, `Reviews` | a company's profile and its review; reviews of it and reports of those |
| `Catalogue`, `Packages` | the cached lists of sectors and occupations; the boost packages on offer |
| `Reminders`, `Tickets`, `Chat` | the reminder cron; support tickets; one conversation |
| `JobViews`, `JobReports` | the view counter; saved and reported postings |
| `Embeddings`, `Matching` | when a posting's embedding is built; the scores and their weights |
| `Office`, `MCOffice` | the last fourteen in one specification, a behaviour of one at a time |
| `AccountsProofs` | theorems about `Sessions`, `Passwords`, `SignUps` for all values of their constants |
| `ManagementProofs` | the same for `Companies`, `Packages`, `Catalogue`, `Embeddings`, `Matching` |
| `OfficeProofs` | the same for `JobViews`, `JobReports`, `Tickets`, `Reviews`, `Chat`, `Reminders`, and the fourteen put together |
| `MCSignUps` | a small instance of `SignUps` alone |

Definitions marked `mutant` next to a definition are that definition with a plausible bug;
each property has one that breaks it.

### Wallet

One company. `order` is `PaymentOrder.status`; `balance`, `totalTopup`, `totalSpent` are the
columns of `CompanyWallet`; `ledger` is its `WalletTransaction` rows in commit order;
`charged` records which calls of `deductPoints` committed.

Each webhook request *d* is at a `stage`, one for each await of its processing:

| Stage | Step to the next | Code (`wallet/wallet.service.ts`) |
|-|-|-|
| `unsent` | `HandleTopupWebhook` | controller answers 200 and starts the processing in the background (`wallet.controller.ts:148`) |
| `reading` | `ReadOrder` | order row read outside any transaction, the early returns (336-372) |
| `checked` | `ReadWallet` | transaction opens, wallet read by an upsert (388-400) |
| `txOpen` | `CommitTopup` | writes and commit: status by id, absolute balance, ledger row (401-433) |
| any of these | `ProcessingFails` | a call throws; the controller queues a job, a job counts the attempt |
| `waiting` | `StartJob` | the payment worker, one job at a time |
| `done`, `failed`, `lost` | - | processed or dismissed; failed set; gone with the process |

`DeductPoints` is one step: the guarded `UPDATE` judges the latest row and keeps its lock
until the commit. A purchase of cost zero returns at once and is not a step; the model calls each
purchase at most once. `Crash` rolls transactions back, loses the requests the controller had
acknowledged and hands active jobs out again. The upsert of `ReadWallet` has an empty
`update`: that it takes no row lock is an assumption about Prisma, marked external.

Two things the code has and the model says plainly: `src/README.md:114` and `:204` describe a webhook that is queued first;
the code processes it directly and queues only after an error, so a crash between the 200 and
the commit loses it (`lost`), and only SePay repeating it brings it back. And
`retryFailedJob` of the queue service has no caller, so a failed job stays failed. The
development-only simulation endpoint calls the same processing function and adds no
behaviour.

### InterviewBooking

One campaign with slots. `status` and `chosen` are the invitation rows; `open`, `startAt`,
`capacity`, `booked` the slot rows; `counts` the campaign's counters; `pc`, `req`, `edit`,
`tally` are what the requests in progress hold in local variables.

| Action | Code (`interview-invitation/service/interview-invitation.service.ts`) |
|-|-|
| `ReceiveAnswer` | `respondToInvitation` up to its transaction: owner, deadline, status, slot chosen |
| `ReadInvitation`, `ReadSlot` | the reads at the head of the transaction and the refusals on them |
| `Accept`, `AcceptRefused` | compare-and-set on `bookedCount`, release of the old seat, the write of the invitation; or the rollback |
| `Reject` | release and write |
| `ReadStats`, `WriteStats` | `updateCampaignStats` after the commit: a read of all invitations, a separate write |
| `ReadCampaign`, `UpdateCampaign`, `CancelCampaign` | the manager's read outside the transaction, then the transaction that works on that copy |
| `SendTimerFires` | the `setTimeout` of `sendCampaign`: writes `COMPLETED` without looking |
| `AddWorker` | a worker added to the campaign, which may have been cancelled since it was looked up |
| `RequestFails`, `Tick` | a throwing call, a dying server; time |

What the readers of a campaign are shown is computed from the rows, not from the columns the answers use: `ShownStatus` turns an overdue
`PENDING` into `EXPIRED`, `ShownBooked`, `RemainingSeats` and `CompanySlots` count the accepted invitations of a slot, `PendingKind` chooses
which kind of invitation a worker's list calls it. `ListsAgree` says that these agree with what an answer will be told.

Transactions with several writes commit in one action. This loses nothing: their writes are
blind or relative, or compare-and-sets that Postgres evaluates on the latest row, and the
row locks they take are held until the commit; only what they *read* earlier
can be stale, and those reads are separate actions. The query for the number of slots is merged
with the reading of the invitation just before it. At most one manager's request runs at a
time. Left out: the `JobApplication` an acceptance upserts, notifications, campaigns without
slots and the automatic addition that follows them, reminders.

The model keeps several things of the code that a reader may not expect: `respondToInvitation` never looks at the
campaign's status, so a `REJECTED` invitation of a cancelled campaign can be accepted; the timer
turns `CANCELLED` back into `COMPLETED`; `updateCampaign` without `slots` deletes every slot;
its capacity change is not compared with the seats taken; a campaign whose sending failed
stays a draft with invitations that can be answered; counters may be stale once concurrent answers
have settled.

### CampaignSend

The campaigns of one job, all with slots. `campaign` is `InterviewInvitationCampaign.status`,
`invitation` the status of each campaign's invitations, `balance` the company's points; `charges` counts how often a campaign was
charged and `timers` the pending `setTimeout`s of its sendings. Each request of the employer stands at
a place `pc` between two database calls, and `req` holds what it has read.

| Action | Code (`interview-invitation/service/interview-invitation.service.ts`) |
|-|-|
| `ReceiveCreate`, `CreateCampaign` | `createCampaign`: workers with a live invitation are dropped (378-411), then the transaction (439-489), then on to `sendCampaign` |
| `ReceiveSend`, `ReadCampaign` | `sendCampaign`: the row and the refusals (673-698); a campaign already sent is returned as it is |
| `Charge` | the price is read and `deductPoints` called (700-715), which refuses when the points do not suffice; the one guarded `UPDATE` that `Wallet` models as `DeductPoints` |
| `StartSending` | the blind write of `IN_PROGRESS` and the timer (717-732) |
| `TimerFires`, `TimerFails` | the write of `COMPLETED` five seconds later, which looks at nothing; its logged failure |
| `ReceiveUpdate`, `UpdateCampaign` | `updateCampaign`: the copy and the check of the status (502-514), then the reset of those of the copy whose slot changed (586-623) |
| `ReceiveCancel`, `CancelCampaign` | `cancelCampaign`: the read and the check (1375-1393), then the transaction (1406-1447), whose update of invitations is left out when the copy had none alive |
| `Answer` | `respondToInvitation` by its effect; `InterviewBooking` has its steps |
| `AddWorker` | `addWorkerToCampaign` of `job/repositories/job.repository.ts` |
| `RequestFails`, `Crash` | a call throws; the server dies and loses its timers |

`calm` is a history variable: no two of the employer's requests have overlapped, none has failed, the
server has not crashed, and no applicant was added during one of them. Much of what one would expect of this code
holds only then, and the properties say so. What the model reaches without it, as the code does:
two sends that overlap both pass the status check and both charge; a failure or crash
between the charge and the status leaves a paid draft, and sending it again charges again; a send that
overlaps a cancellation writes `IN_PROGRESS` over `CANCELLED`; an addition or an edit that overlaps one leaves a cancelled
campaign with a waiting invitation. Two more happen even in calm: the timer turns a
cancelled campaign into `COMPLETED`, and a campaign created without enough points stays behind as
a draft whose invitations can be answered (`createCampaign` fails although it has committed).

A failed call is taken to have had no effect, so a lost commit acknowledgement is not modelled. `price` is read
anew by each charge, as an administrator may change it; a price of 0 charges nothing and still sends.
Left out: slot-less campaigns, notifications (all that `resendCampaign` sends), `SCHEDULED`, which no code sets, and the deadline rules of `createCampaign`.

### JobPosting

`job` is each posting's status, whether its date has passed, its boost flag and the days of boost left;
`balance` the company's points, `firstPostUsed` whether `firstJobPostUsedAt` is set. A posting may be there
from the start, released by a moderator and boosted. Each request stands between two database calls. `licensed`, `free` and `owed` are history: which
postings there was a reason to publish, which were free, what was charged and is not delivered yet.

| Action | Code (`job/service/job.service.ts`, `job/repositories/job.repository.ts`) |
|-|-|
| `CreateJob`, `CheckFree`, `PublishFree` | `createJob` inserts `WARNING`, reads `firstJobPostUsedAt`, publishes for free in a transaction that does not look again |
| `ReceivePost`, `ChargePost`, `PublishByPoint` | `createJobPostingCheckout` and the paid end of `createJob`: status check, `deductPoints`, `PUBLISHED` by id alone |
| `ReceiveBoost`, `ChargeBoost`, `ReadBoost`, `ExtendBoost` | `createBoostCheckout`, then `activateBoostByPoint`, which reads the old end and writes an absolute one |
| `UpdateJob`, `DeleteJob`, `UpdateJobStatus` | the employer's date, the deletion, the moderator |
| `MarkExpiredJobs`, `DeactivateExpiredBoosts` | the hourly job; the clean-up that every search runs first |
| `DateComes`, `DayPasses`, `RequestFails` | time; a throwing call or a dead process |

`SearchResults`, `NewestJobs`, `BoostedJobs`, `RelatedJobs`, `WarningJobs`, `JobsByCompanyId` are the status, date and
boost conditions of the queries, and the properties are about what they show. The model reaches, as the
code does: two free posts, a post paid twice, an extension lost, points spent for nothing after a failure, and a
deleted posting that is paid for and published.

### Applications

One job: `application` is each worker's `JobApplication.status`, `campaign` the status, kind and `totalCount` of
its campaigns, `invitation` their rows. Two hand-overs put a worker into the latest campaign: `MarkSuitable`,
`FindCampaign`, `CheckInvited`, `AddWorkerToCampaign` (an employer's verdict), and `AcceptWithoutSlot`, `FindSlots`,
`CheckInvitedThere`, `AddWorkerToCampaign` (an acceptance without a slot); each may race with the other, with
`CreateCampaign`, `CancelCampaign` and with itself, and the unique key of campaign and worker decides. Seats are the
subject of `InterviewBooking`, paying of `CampaignSend`; an answer, an edit and a cancellation are one step here.
An edit may take all slots away or give a campaign its first (`UpdateCampaign`), which changes its kind for both hand-overs, and
asks whoever had chosen a changed slot again. `CANCELLED` is not final: `sendCampaign` writes `IN_PROGRESS` after the payment (718) and
`COMPLETED` when its timer fires (726-728) whatever the status is by then, and the campaign is active again with its
invitations cancelled. `ReopenBySending` is that effect of a sending; when the sending began, and that it happens
once per sending, is left open, so the model reopens at least as often as the code. The totals therefore promise that
accepted, rejected and pending add up only for a campaign that was never cancelled (`cancelled` is history). The several reads by which
`createCampaign` drops workers who are invited are one step here and in `CampaignSend`.

### Office

Fourteen parts that share no state with each other. `Office` is their disjoint sum: `part` is chosen at the start, the chosen
part moves, the others rest. A product would multiply their states and show nothing more; each part
also has a specification of its own (`SessionsSpec` and so on).

| Module | State and steps | What it says plainly |
|-|-|-|
| `Sessions` | sessions with their `jti`; a refresh is the guard's read, the service's read, the write by id | a log-in let in before the account is deleted makes a live session after it |
| `Passwords` | wrong attempts, reset tokens; read first, write later | overlapping log-ins pass the limit by as many as had read before |
| `SignUps` | accounts by status, role and e-mail; count, then create | see finding 4 |
| `Companies` | status, profile (the number of the edit it is), update requests | the transaction for an approved company begins with an `UPDATE` of its row, so two edits make one request; an edit whose status was read before a review goes past it |
| `Catalogue` | two tables, one cache key; a read is fetch and store, an edit is check, write, invalidate | sector edits drop `sector:all` only; a moved occupation stays in its old sector's list. A sector with a brand-new name is left out: it drops the same key as a restored one |
| `Packages` | packages, the fallback duration; check, then write | a default package of another type that becomes a boost package makes two defaults. The two statements of a write are one step, as nothing is promised of edits that overlap |
| `Reminders` | clock in steps of 2.5 minutes, runs of the cron in four phases, reminders sent per recipient | two overlapping runs remind twice. The slot keeps its time: an edit may move it (560-569), and who takes it again after a reminder of the old time gets none of the new, as the link names invitation, slot and lead only |
| `JobViews` | views of the last day per address, the counter | overlapping visits count twice |
| `JobReports` | reports, notifications, saved postings | a failure after the row leaves it unannounced |
| `Tickets` | tickets by code; draw, then insert; read, then write | an update without a status writes the time of the status it read |
| `Reviews` | reviews and reports; look, then write | `updateReview` strips only the author and the company from its body (699-701), so it writes the status and nested reports too: a hidden review can be shown again, and loses its reports by an edit. A review that has reports cannot be deleted, as their foreign key refuses it. An edit that renumbers the review or takes over a report of another is left out |
| `Chat` | messages, broadcasts, one client's pages | `createdAt` is set at the insert and the row shows at the commit, so a page may hold a later message before an earlier one is there; messages of one millisecond have no fixed order, and a page may skip those of the cursor's; a message whose sender fails before the broadcast stays in `broadcasts` for ever |
| `Embeddings` | a posting's text and the text its vector was built from | a moderator's release builds nothing; of two builds the slower wins |
| `Matching` | a worker, a job, the weights | the similarity of two texts is a cosine from -1 to 1 that the code does not cut off at 0, so a score may be negative; `updateConfigs` checks the sum of the weights it is given, not of those stored: partial updates can make a total of 2 |

The flags `sessionCalm`, `quiet`, `companyCalm`, `packagesCalm`, `tickedApart`, `viewsApart`, `reportsCalm`, `ticketsCalm`,
`buildsCalm` are history: no two calls of that part have overlapped (and, for some, none has failed). Each
property says which of its clauses need the flag; the others hold under every overlap. `wholeUpdates` says that every update has
set all the weights, `retyped` that a default package has changed its type, `released` that a moderator has published.

Run `tlc -config <cfg> <module>`; times are for two workers.

| Run | Question | Bounds | Answer |
|-|-|-|-|
| `WalletConcurrent` | What survives any overlap? | 2 orders, 3 webhook requests, 2 purchases, 2 failures, 1 crash, queue may refuse, columns overflow at 4, 2 attempts | `NeverOverdrawn`, `PointsAreFunded`, `CompletedIffCredited`, `DoneMeansCredited`, and every accepted webhook settles (631 000 states, 76 s) |
| `WalletSerial` | What holds while wallet requests do not overlap? | as above, one request in flight, the real 5 attempts, 5 failures, no crash | `PointAccount` is implemented, history adds up, a payment is credited despite five failures (572 000 states, 67 s) |
| `WalletDoubleCredit` | Is a repeated webhook ignored? | 2 requests, no failure | no: `CreditedOnce` is violated |
| `WalletLostDeduction` | Do spent points stay spent? | 2 requests, no failure | no: `SpentPointsStaySpent` is violated |
| `BookingApart` | Are the seats right when answers overlap, one per worker, and edits fall between answers? | 2 invitations, 2 slots, capacity 2, 1 edit, 1 timer, 1 failure, 2 instants | `ListsAgree`, `NoLateBooking`, `SeatPlan` implemented (4.9 M states, 108 s) |
| `BookingOverlapping` | What survives an edit or cancellation that overlaps answers? | 2 invitations, 2 slots, capacity 1, 1 edit | `SeatedAreAccepted`, `CountersWithinTotal` (3.0 M states, 108 s) |
| `BookingDoubleAnswer` | Is the capacity respected when one worker answers twice at once? | 2 answers per worker, capacity 1, no edit | no: `WithinCapacity` is violated |
| `CampaignSend` | Is what is sent paid, once, and does every sending end? | 2 campaigns, 1 worker, 3 requests, 1 point, prices 0 and 1, 1 failure, 1 crash | `SentIsPaid` under every overlap; `PaidOnce`, `PaidMeansSent`, `CancelledIsQuiet` while calm; `SendingEnds` unless a timer is lost (305 000 states, 15 s) |
| `JobPosting` | Is what is listed paid for, and what is paid for delivered? | 2 postings, 2 requests, 1 point, 1 boost package, any request may fail | `ListedForAReason` under every overlap; `FreeOnce`, `NothingOwed` while calm; `ExpiryIsNoticed` (446,312 states, a minute) |
| `Applications` | Do verdicts stand and hand-overs arrive? | 1 worker, 2 campaigns of either kind, 2 requests | totals agree (`TypeOK`), `HandedOver` under every overlap; `VerdictStands` while calm (601 000 states, 100 s) |
| `Office` | What do the fourteen parts promise? | two calls at once in each | eleven properties (711 000 states up to symmetry, 2 min) |
| `TwoManagers` | Is there a single manager? | 3 people, 2 e-mail addresses | no: `OneManager` is violated |

Why the bounds are enough. Wallet: a race needs two requests on one order and a third on
another; two purchases make the balance run out between them; cost and amount are 1 and 2
so that a balance can cover one purchase and not the other; the overflow is reached by the
two orders together or by one credited twice; two attempts let a job succeed, fail and be
exhausted. In the serial run the attempts are the code's own five, because the property counts them. Booking: capacity 1 and 2 meet "full"
and "one left" with two workers; two slots allow a move; times 0..2 against a clock 0..1
put each deadline and start before, at and after the answer. The deadline race needs an answer received before and
committed after it, which the clock between any two steps gives. Campaigns: three requests are a creation and two that race,
or create, send, cancel in a row; one worker suffices because no property relates two workers of a campaign; a
price of 1 meets a balance of 1 that pays one campaign and then refuses, a price of 0 lets sendings repeat. Postings: two postings are needed for the second
free one, two requests for every race, one point pays for one thing and refuses the next. Applications: workers of one job share
nothing but `totalCount`, which is incremented relatively, so one worker with two requests has all the races; two
campaigns make "latest" and "other" differ. Office: two calls make every race of a pair; `MaxAttempt = 2`, `MaxTries = 2`,
`PageSize = 1` and the two leads of 6 and 1 steps put the limits, the page ends and the windows within reach, and the
slot starts both on a tick and between two. A second reporter of a posting would be independent of the first. In `Packages`
two edits may overlap once and nothing begins after that, as nothing is promised then. The calls of a part are alike, so `Office` is checked up to
their exchange (symmetry, sound as the run checks no liveness). `NestedReports` has the edit of a review delete its reports or make the author's own. `Chat` gives
three messages any of three moments, so that all orders and ties of `createdAt` and commit occur with pages of one. `Matching` takes the two extremes of
similarity, -1 and 1, between which scores only grow, over 24 workers and 12 jobs, null fields included. Larger instances are the business of the proofs, which bound nothing.

Fairness. Only `WalletConcurrent` and `WalletSerial` check liveness, under weak fairness of
`Process(d)` (a handler that has started runs on: every database call answers or throws) and
of `StartJob(d)` (Bull's worker keeps taking jobs). Employers and SePay owe nothing, and nothing says a call
must succeed: failures are limited by `MaxFaults` only. Weak fairness per job suffices for `StartJob`
because the worker is free again after finitely many attempts. `CampaignSend` assumes weak fairness of `TimerFires(c)` alone: Node fires the timer of a living
process, and a timer that dies or whose write fails is recorded in `timerLost`, which `SendingEnds` excuses. `JobPosting` assumes weak fairness of `MarkExpiredJobs` alone: the cron runs every hour, and whatever
the employer does in between it runs again. `Applications` assumes weak fairness of the steps of a request that has begun. The
booking runs and `Office` check safety only.
All runs allow the system to stop, as the environment has finitely many requests.

## Findings

1. `WalletDoubleCredit`. `processTopupWebhookPayload` compares `order.status` with `COMPLETED` on a
   row read outside the transaction (351, 357) and sets it by id alone (403). Two requests for one order that both
   read `PENDING` both credit it, against the test "ignores already completed order (idempotency)".
2. `WalletLostDeduction`. The top-up writes the balance as an absolute value computed from
   an earlier read (394, 401, 411); a deduction that commits in between is undone, although
   `deductPoints` itself is atomic as its comment says.
3. `BookingDoubleAnswer`. `respondToInvitation` overwrites the invitation without a condition (1107, 1177).
   Two answers of one worker in progress at once give the same seat back twice; `bookedCount` is then
   below the number of holders and the slot is overbooked.
4. `TwoManagers`. `validateSingleManagerConstraint` counts the managers and `signUp` creates the account
   some calls later: two sign-ups at once make two, although the refusal says that the system allows a single manager account.
   (An administrator can also restore a deleted manager next to a new one.)

## Proofs

`tlapm` checks every step of `WalletProofs.tla`, `BookingProofs.tla`, `CampaignProofs.tla`, `JobPostingProofs.tla`, `ApplicationsProofs.tla`,
`AccountsProofs.tla`, `ManagementProofs.tla` and `OfficeProofs.tla`. The assumptions are the ones the modules name, `WalletAssumption` and so on: the domains
of the constants, that requests, invitations, workers and addresses are finitely many, that a null value is none of the real ones. Three say more:
`RemindersAssumption` that the two leads are more than two ticks apart (a day and a quarter of an hour in the code), `CatalogueAssumption` that a sector is not named like a cached list,
`MatchingAssumption` that salaries and ages are numbers or missing and a posting has an occupation, as the columns say, and that a similarity is from -1 to 1, as a cosine is. TLC evaluates each in its module's runs.

**Wallet, any concurrency.** `IInv` is the conjunction of `TypeOK`, `AttemptsLeft` (a job that may still run has attempts
left), `NeverOverdrawn`, `PointsAreFunded`, `SnapshotsSound` (what an open transaction read is between
zero and the total credited, so the absolute write keeps the balance there),
`CheckedOrdersExist`, `CompletedIffCredited`, `DoneMeansCredited`. One lemma per action.
Theorems: `WalletTypeOK`, `WalletSolvent` (with `WalletPointsFunded`), `WalletCreditAtomic`, `WalletNoPaymentForgotten`.

**Wallet, one request in flight.** Under `MaxConcurrent = 1` a started request excludes every other
wallet write (`RoomMeansIdle`), so an open transaction's snapshot is the balance and a checked
order is still unpaid: `SerialInv`. From it `SerialLedger` and
`SerialImplementsPointAccount`, the refinement.

**Booking, any overlap.** `BookingSeated` from the types of the rows and the copy
(`Typed`, `SeatedAreAccepted`, `CopyHasTheSlots`); `BookingCountersBounded` with
`TalliesWithinTotal`: a tally computed earlier never exceeds the invitations there are now, as rows are only added.

**Booking, answers one per worker, edits between answers** (`~EditsOverlap` and one element in
`Tabs`). `ApartInv` adds `EditsApart`, `AnswersFresh` (what an answer read of its own
invitation is still so), `CopyFresh`, `SeatsCounted`, `ClosedSlotsEmpty`, `RoomFound` (a
`bookedCount` that still equals the one read was below the capacity) and `LateAnswersStay`. From it `BookingSeatsCounted`,
`BookingListsAgree` (a list that counts holders shows room exactly where the compare-and-set on `bookedCount` would find it),
`BookingTypeOK`, `BookingNoLate` and the refinement `BookingImplementsSeatPlan`.

**Campaigns, any overlap.** `IInv` is `TypeOK`, `AboutCampaigns` (a request past its arrival is about a campaign that exists) and
`Paid`: whoever may still write a sent status, a request past its charge or a timer, belongs to a campaign that was
charged. `CampaignTypeOK`, `CampaignSentIsPaid`.

**Campaigns, calm.** `CalmInv` says that `calm` implies `Order`: at most one request in flight, an unpaid draft before a request that is
about to charge, a paid draft only for one about to write the status, nobody waiting in a campaign whose cancellation found nobody, edits only
of campaigns that are not cancelled, at most one charge, cancelled campaigns quiet. `CampaignPaidOnce` (with `CampaignPaidMeansSent`), `CampaignCancelledIsQuiet`.

**Postings, any overlap.** `TypeOK` says that `owed` never goes below zero, which is not inductive: `ExtendBoost` writes an absolute end and so takes from
`owed` whatever lies between the end that was read and the one that stands. `IInv` covers it. `PostsCovered`: the requests about to publish a posting are no more than
the posts owed. `DaysCovered`: the days of boost that charged requests will still add, counted as pairs of a request and a day so that they need no sum,
are no more than the days owed, also when the boost has grown behind the back of one that has read its end. `Licensed`: what is published, or about to be by points, has its licence.
`FreeBounded`: the free postings and the requests about to publish one are together no more than the requests, because the flag is set with the first.
`AboutJobs`: a request in progress is about a posting. Theorems: `JobPostingTypeOK`, `JobPostingListedForAReason`.

**Postings, calm.** `CalmOrder`: as long as nothing is overtaken and nothing fails, a request in progress is the only one (`Alone`), `owed` is what it has been charged, the posting
it will publish is not published, and the end of the boost it has read still stands. `JobPostingFreeOnce`, `JobPostingNothingOwed`.

**Applications, any overlap.** `RowsInv` is about the campaigns' rows: campaigns are numbered as they are created, one that is not created has no row,
`totalCount` is the number of rows, a campaign that was never cancelled has no cancelled invitation. It is inductive only because every request that is about to write rows works for a campaign that
exists (`FlightInv`; that the latest campaign is one of them needs the maximum of a bounded set, `MaxExists`). `ApplicationsTypeOK`, which includes `TotalsMatch`.

**Applications, calm.** `CalmOrder`: a request in progress is the only one, and what it has read of the application it will write is still so. `ApplicationsVerdictStands`.

**Parts of `Office`.** First each part on its own, about `SessionsSpec` and so on, then the whole.

- *Sessions.* A session's jti only grows, so a token that has been exchanged is older than its session's, no guard admits it, and no further call passes the comparison with it;
  the calls that are past the comparison count against the bound from then on (`Refreshing`). `SessionsTyped`, `SessionsRotate`.
- *Passwords.* `Counted`: the counter and the requests that will still increment it are together below the limit plus the number of requests, which is
  inductive where `GuessesBounded` is not. In calm the one open request still has what it read. `PasswordsGuessesBounded`, `PasswordsResetOnce`, `PasswordsSafe`.
- *Companies.* A review closes its request by id, so `Numbered` keeps ids unique and no greater than the number of requests, for which rewriting requests must not make two of them
  equal (`CompanyRewriteNumbered`). In calm a call that is about to apply a request read the pending one as it is. `CompaniesEditsAwaitReview`, `CompaniesReviewed`.
  That the ids stay in their range needs `CompanyBounds`: the requests and the calls about to add one are together fewer than the edits. `CompaniesTyped`.
- *Packages.* In calm the one open call is still valid by the rule it was checked with when it is written, so no two boost packages get the same days,
  and a type has one default unless a default package has changed its type. `PackagesUnambiguous`.
- *Catalogue.* `CatalogueInv`: a stale copy has one of its three known reasons, or a clerk who has written is about to delete its key. What an edit may change and may not is
  the lemma `EditsKeepTo`; a reader that stores an old value later is the first of the reasons. `CatalogueFollowsEdits`.
- *Embeddings.* In calm the text of a published posting is stored, or a build of that very text is under way. `EmbeddingsMatch`.
- *Matching.* Besides the worker and the posting that are compared, the state is the weights. With updates that set all of them they sum to a hundred, the score of each criterion is at most one,
  null fields included, and the weighted sum and its rounding grow with each share: so no score passes one, a boost, which adds a tenth and stops at one, costs no match. The
  tiers of the occupation are further apart than the texts can make up for, from -1 to 1, so the same occupation never scores below another. `MatchingCompares`, for every set of profiles, postings and similarities.
- *JobViews.* `ViewInv`: the rows of an address are numbered without a gap beyond their count, so that the next is a new row, and those of the day with the calls about to insert one
  are as few as the calls. `ViewsAddUp`.
- *JobReports.* In calm what has not been told yet is what the one open call is about to tell; a decision that is told belongs to a report that is there under every overlap. `ReportsAddUp`.
- *Tickets.* In calm the one open call will write a time exactly if it leaves the ticket resolved. `TicketsAddUp`.
- *Reviews.* Ids are given in order, one author has one review, and a report is of a review that is there: an insert meets the foreign key, a deletion is refused while there are reports, and an edit rewrites the reports of its own review only
  (`ReviewRewritten`). `ReviewsAddUp`.
- *Chat.* A message that was there when the client began and is newer than a fetched one has been fetched, or one of its moment has; whatever was committed later has, for a client that has stayed
  in the room, been received or is on its way. The step that needs an argument is the page: it is an upper end of what it is taken from, whatever the database does with ties, and what it is taken from is
  all that is older than the cursor, itself as old as anything fetched. Other steps leave what was passed as it is (`PagesStand`). `ChatMissesNothing`.
- *Reminders.* The window of a lead is two ticks wide. `InTime`: from the first tick of the window its run has reminded everybody, is on the way to (`OnTrack`: whoever is not reminded yet is in
  what it will insert or in a phase it has yet to look at), or is counted as missed because it failed or was still open at the next tick; the second run makes up for a missed first. Arithmetic
  on the clock is kept to a few lemmas (`FirstIs`, `AtOneTime`). `OneByOne`: runs that do not overlap insert only links that are not there. `RemindersReach`, for every start time and pair of leads.
- *The whole.* `OfficeInv` is the conjunction of the parts' invariants; `OfficeSteps` says that a step of `Office` is a step of each part or leaves its variables alone, and the theorems follow from the parts':
  `OfficeTyped`, `OfficeFeedback`, `OfficeKeepsPromises`.

The strengthening for the reminders, the longest of these, was model-checked on all 4.8 million states of a larger instance before it was proved.

Only model-checked: `WebhookSettles`, `RetriesCredit`, `SendingEnds`, `ExpiryIsNoticed` and `HandedOver` (liveness under fairness is out of
the prover's reach), and the violations, which are counterexamples. Every invariant, action property and refinement that a passing run checks is also a theorem.

## Plan

What is left, most important first:

1. An abstract specification of paid effects (charge and effect together) that `JobPosting` and `CampaignSend` implement while calm, with the proof.
2. The composition of `Applications` with the seats of `InterviewBooking`.
3. The lists of suitable applicants and the notifications of a campaign, of which only the effects on its rows are modelled.

## Not modelled, and why

- Statistics are aggregate queries and a nightly snapshot of them; nothing decides by them.
- The email queue, storage, mail, redis and health are calls of external services without a protocol of their own. The e-mail queue is
  the payment queue's protocol without its state.
- Notifications other than reminders and the answers to reports, terms and conditions, and profiles of users and workers are single-row writes.
- Guards, middleware and filters keep no state. Which role may call what is taken from the actions' callers.
- Of searches and lists only the conditions on status, date and boost are modelled, not text, price and place filters, nor pages.
- Texts and templates; the similarity that a language model computes (a number that the model of the scores chooses);
  the weights' floating-point rounding (scores are thousandths).
- The seed of the database and the test-only controllers (`prisma/seed.ts`, `queue-test/`).
