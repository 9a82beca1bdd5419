----------------------------- MODULE Applications -----------------------------
(***************************************************************************)
(* The applications for one job and its interview campaigns: workers apply *)
(* and withdraw, the employer gives verdicts and creates campaigns, and    *)
(* two hand-overs put a worker into the latest campaign: a SUITABLE        *)
(* verdict, and the acceptance of an invitation without time slots.        *)
(*                                                                         *)
(* Seats and answers are InterviewBooking's subject, sending and paying    *)
(* CampaignSend's: here an answer, a cancellation and an edit are one step *)
(* each, and of a sending there is only what it does to a cancelled        *)
(* campaign.                                                               *)
(***************************************************************************)
EXTENDS Integers, FiniteSets, FiniteSetsExt

CONSTANTS
    Workers,        \* workers who may apply or be invited
    MaxCampaigns,   \* bound on campaigns; they are numbered as they are created
    Requests        \* requests that may be open at once

ASSUME ApplicationsAssumption ==
    /\ IsFiniteSet(Workers)
    /\ MaxCampaigns \in Nat

VARIABLES
    application,    \* JobApplication.status of each worker
    campaign,       \* status, kind and totalCount of each campaign
    invitation,     \* InterviewInvitation.status of each campaign's workers
    cancelled,      \* history: campaigns that have been cancelled
    pc,             \* where each request stands
    req,            \* its workers, its campaign, the application it has read
    calm            \* no request was overtaken by another writer

rows == <<application, campaign, invitation, cancelled>>
flight == <<pc, req>>
vars == <<rows, flight, calm>>

-----------------------------------------------------------------------------
Campaigns == 1 .. MaxCampaigns
JobApplicationStatus == {"APPLIED", "VIEWED", "SUITABLE", "UNSUITABLE", "CANCELLED"}
InvitationStatus == {"none", "PENDING", "ACCEPTED", "REJECTED", "CANCELLED"}
Live == {"PENDING", "ACCEPTED"}
\* What is not cancelled is DRAFT, SCHEDULED, IN_PROGRESS or COMPLETED.
CampaignStatus == {"none", "active", "CANCELLED"}
NoCampaign == [status |-> "none", slots |-> FALSE, total |-> 0]

Place == {"idle", "looking", "applying", "withdrawing", "creating",
          "handing", "checking", "adding", "accepted", "checkingSlots"}
NoRequest == [workers |-> {}, campaign |-> 0, slots |-> FALSE, seen |-> "none"]
InFlight == {r \in Requests : pc[r] # "idle"}

Created == {c \in Campaigns : campaign[c].status # "none"}
Active == {c \in Created : campaign[c].status = "active"}
ActiveWithSlots == {c \in Active : campaign[c].slots}
Rows(c) == {w \in Workers : invitation[c][w] # "none"}
LiveIn(c) == {w \in Workers : invitation[c][w] \in Live}

Init ==
    /\ application = [w \in Workers |-> "none"]
    /\ campaign = [c \in Campaigns |-> NoCampaign]
    /\ invitation = [c \in Campaigns |-> [w \in Workers |-> "none"]]
    /\ cancelled = {}
    /\ pc = [r \in Requests |-> "idle"]
    /\ req = [r \in Requests |-> NoRequest]
    /\ calm = TRUE

Goto(r, place, what) ==
    /\ pc' = [pc EXCEPT ![r] = place]
    /\ req' = [req EXCEPT ![r] = what]
Finish(r) == Goto(r, "idle", NoRequest)
By(w) == [NoRequest EXCEPT !.workers = {w}]
WorkerOf(r) == CHOOSE w \in Workers : req[r].workers = {w}

\* Anything that comes in while a request is open ends the calm.
Undisturbed == calm' = (calm /\ InFlight = {})
Arrive(r, place, what) ==
    /\ pc[r] = "idle"
    /\ Goto(r, place, what)
    /\ Undisturbed
Apart == Undisturbed /\ UNCHANGED flight

-----------------------------------------------------------------------------
(* applyJob and cancelApplyJob.                                            *)

\* Refused, which changes nothing, while the posting is not PUBLISHED: the
\* moderator and the hourly job see to it that it may or may not be.
ReceiveApply(r, w) ==
    /\ Arrive(r, "looking", By(w))
    /\ UNCHANGED rows

LookAtApplication(r) ==
    LET w == WorkerOf(r) IN
    /\ pc[r] = "looking"
    /\ IF application[w] \in {"none", "CANCELLED"}
       THEN Goto(r, "applying", [By(w) EXCEPT !.seen = application[w]])
       ELSE Finish(r)
    /\ UNCHANGED <<rows, calm>>

\* A new row meets the unique key of job and worker; an old one is set by id.
Apply(r) ==
    LET w == WorkerOf(r) IN
    /\ pc[r] = "applying"
    /\ application' = IF req[r].seen = "none" /\ application[w] # "none" THEN application
                      ELSE [application EXCEPT ![w] = "APPLIED"]
    /\ Finish(r)
    /\ UNCHANGED <<campaign, invitation, cancelled, calm>>

UnlessRefused == {"APPLIED", "VIEWED", "SUITABLE"}                \* mutant
Withdrawable == {"APPLIED", "VIEWED"}

ReceiveCancel(r, w) ==
    /\ application[w] \in Withdrawable
    /\ Arrive(r, "withdrawing", By(w))
    /\ UNCHANGED rows

CancelApply(r) ==
    /\ pc[r] = "withdrawing"
    /\ application' = [application EXCEPT ![WorkerOf(r)] = "CANCELLED"]
    /\ Finish(r)
    /\ UNCHANGED <<campaign, invitation, cancelled, calm>>

-----------------------------------------------------------------------------
(* updateApplicationStatus: any status may follow any other.               *)

UpdateApplicationStatus(w, status) ==
    /\ application[w] # "none" /\ status # "SUITABLE"
    /\ application' = [application EXCEPT ![w] = status]
    /\ Apart
    /\ UNCHANGED <<campaign, invitation, cancelled>>

\* handleSuitableStatusChange writes the verdict, then hands the worker over;
\* an error of the hand-over is logged and dropped.
MarkSuitable(r, w) ==
    /\ application[w] # "none"
    /\ application' = [application EXCEPT ![w] = "SUITABLE"]
    /\ Arrive(r, "handing", By(w))
    /\ UNCHANGED <<campaign, invitation, cancelled>>

FindCampaign(r) ==
    /\ pc[r] = "handing"
    /\ IF Active = {} THEN Finish(r)
       ELSE Goto(r, "checking", [req[r] EXCEPT !.campaign = Max(Active)])
    /\ UNCHANGED <<rows, calm>>

AlreadyInvited(w) == \E c \in Campaigns : w \in LiveIn(c)

CheckInvited(r) ==
    /\ pc[r] = "checking"
    /\ IF AlreadyInvited(WorkerOf(r)) THEN Finish(r) ELSE Goto(r, "adding", req[r])
    /\ UNCHANGED <<rows, calm>>

TotalUnchecked(c, added) == campaign[c].total + 1                 \* mutant
TotalWith(c, added) == campaign[c].total + Cardinality(added)

\* addWorkerToCampaign, one transaction: the unique key of campaign and worker
\* rolls back all of it.
AddWorkerToCampaign(r) ==
    LET c == req[r].campaign
        added == req[r].workers \ Rows(c)
    IN
    /\ pc[r] = "adding"
    /\ invitation' = [invitation EXCEPT ![c] =
                         [w \in Workers |-> IF w \in added THEN "PENDING" ELSE @[w]]]
    /\ campaign' = [campaign EXCEPT ![c].total = TotalWith(c, added)]
    /\ Finish(r)
    /\ UNCHANGED <<application, cancelled, calm>>

-----------------------------------------------------------------------------
(* respondToInvitation, as far as it concerns the application.             *)

\* An acceptance makes the worker SUITABLE in the same transaction.
Accept(c, w) ==
    /\ invitation[c][w] \in Live \cup {"REJECTED"}
    /\ invitation' = [invitation EXCEPT ![c][w] = "ACCEPTED"]
    /\ application' = [application EXCEPT ![w] = "SUITABLE"]
    /\ UNCHANGED <<campaign, cancelled>>

AcceptWithSlot(c, w) == campaign[c].slots /\ Accept(c, w) /\ Undisturbed /\ UNCHANGED flight

AcceptWithoutSlot(r, c, w) ==
    /\ ~campaign[c].slots
    /\ Accept(c, w)
    /\ Arrive(r, "accepted", [By(w) EXCEPT !.campaign = c])

OldestWithSlots(except) == {c \in ActiveWithSlots : c < except}   \* mutant
Others(except) == ActiveWithSlots \ {except}

\* It then looks for the latest other campaign with slots, and adds the worker
\* unless that campaign has a live invitation of theirs.
FindSlots(r) ==
    LET found == Others(req[r].campaign) IN
    /\ pc[r] = "accepted"
    /\ IF found = {} THEN Finish(r)
       ELSE Goto(r, "checkingSlots", [req[r] EXCEPT !.campaign = Max(found)])
    /\ UNCHANGED <<rows, calm>>

CheckInvitedThere(r) ==
    /\ pc[r] = "checkingSlots"
    /\ IF WorkerOf(r) \in LiveIn(req[r].campaign) THEN Finish(r) ELSE Goto(r, "adding", req[r])
    /\ UNCHANGED <<rows, calm>>

Reject(c, w) ==
    /\ invitation[c][w] \in Live
    /\ invitation' = [invitation EXCEPT ![c][w] = "REJECTED"]
    /\ Apart
    /\ UNCHANGED <<application, campaign, cancelled>>

-----------------------------------------------------------------------------
(* createCampaign, updateCampaign, cancelCampaign and sendCampaign.        *)

InvitedKind(slots) == UNION {LiveIn(c) : c \in {d \in Created : campaign[d].slots = slots}}

\* Without a list of workers the SUITABLE applicants are taken.  Those with a
\* live invitation of the same kind are dropped; if nobody is left of somebody,
\* the request is refused.  The reads that tell this are one step.
ReceiveCreate(r, asked, slots) ==
    LET chosen == IF asked = {} THEN {w \in Workers : application[w] = "SUITABLE"} ELSE asked
        fresh == chosen \ InvitedKind(slots)
    IN
    /\ Cardinality(Created) + Cardinality({x \in Requests : pc[x] = "creating"}) < MaxCampaigns
    /\ chosen = {} \/ fresh # {}
    /\ Arrive(r, "creating", [NoRequest EXCEPT !.workers = fresh, !.slots = slots])
    /\ UNCHANGED rows

CreateCampaign(r) ==
    LET c == Cardinality(Created) + 1 IN
    /\ pc[r] = "creating"
    /\ c \in Campaigns
    /\ campaign' = [campaign EXCEPT ![c] =
          [status |-> "active", slots |-> req[r].slots, total |-> Cardinality(req[r].workers)]]
    /\ invitation' = [invitation EXCEPT ![c] =
          [w \in Workers |-> IF w \in req[r].workers THEN "PENDING" ELSE "none"]]
    /\ Finish(r)
    /\ UNCHANGED <<application, cancelled, calm>>

\* The slots of an edit replace those that are there, so that the campaign may
\* change its kind; who has chosen one that is changed or deleted is to choose again.
UpdateCampaign(c, slots, moved) ==
    /\ c \in Active
    /\ slots # campaign[c].slots \/ moved # {}
    /\ \A w \in moved : campaign[c].slots /\ invitation[c][w] = "ACCEPTED"
    /\ campaign' = [campaign EXCEPT ![c].slots = slots]
    /\ invitation' = [invitation EXCEPT ![c] =
          [w \in Workers |-> IF w \in moved THEN "PENDING" ELSE @[w]]]
    /\ Apart
    /\ UNCHANGED <<application, cancelled>>

CancelCampaign(c) ==
    /\ c \in Active
    /\ campaign' = [campaign EXCEPT ![c].status = "CANCELLED"]
    /\ invitation' = [invitation EXCEPT ![c] =
          [w \in Workers |-> IF w \in LiveIn(c) THEN "CANCELLED" ELSE @[w]]]
    /\ cancelled' = cancelled \cup {c}
    /\ Apart
    /\ UNCHANGED application

\* sendCampaign writes IN_PROGRESS after the payment, and COMPLETED when its timer
\* fires, whatever the status has become: a campaign that was cancelled in between
\* is open again, and its invitations are not.  A sending has found somebody to
\* invite; when it began, and how many there are, is left open.
ReopenBySending(c) ==
    /\ campaign[c].status = "CANCELLED" /\ Rows(c) # {}
    /\ campaign' = [campaign EXCEPT ![c].status = "active"]
    /\ Apart
    /\ UNCHANGED <<application, invitation, cancelled>>

-----------------------------------------------------------------------------
Step(r) ==
    \/ LookAtApplication(r) \/ Apply(r) \/ CancelApply(r)
    \/ FindCampaign(r) \/ CheckInvited(r) \/ AddWorkerToCampaign(r)
    \/ FindSlots(r) \/ CheckInvitedThere(r)
    \/ CreateCampaign(r)

Next ==
    \/ \E r \in Requests :
          \/ \E w \in Workers :
                \/ ReceiveApply(r, w) \/ ReceiveCancel(r, w) \/ MarkSuitable(r, w)
                \/ \E c \in Created : AcceptWithoutSlot(r, c, w)
          \/ \E asked \in SUBSET Workers, slots \in BOOLEAN :
                ReceiveCreate(r, asked, slots)
          \/ Step(r)
    \/ \E w \in Workers :
          \/ \E s \in JobApplicationStatus : UpdateApplicationStatus(w, s)
          \/ \E c \in Created : AcceptWithSlot(c, w) \/ Reject(c, w)
    \/ \E c \in Created :
          \/ CancelCampaign(c) \/ ReopenBySending(c)
          \/ \E slots \in BOOLEAN, moved \in SUBSET Workers : UpdateCampaign(c, slots, moved)

Spec == Init /\ [][Next]_vars

\* A request that has begun goes on.  One that fails is one that stops: the
\* safety properties, which assume no fairness, speak of it too.
FairSpec == Spec /\ \A r \in Requests : WF_vars(Step(r))

-----------------------------------------------------------------------------
(* What the employer is shown.                                             *)

InvitedWorkersByJob == {i \in Created \X Workers : i[2] \in Rows(i[1])}
InStatus(c, status) == Cardinality({w \in Workers : invitation[c][w] = status})
CampaignStats(c) ==
    [total |-> campaign[c].total, accepted |-> InStatus(c, "ACCEPTED"),
     rejected |-> InStatus(c, "REJECTED"), pending |-> InStatus(c, "PENDING")]

-----------------------------------------------------------------------------
(* What the applications promise.                                          *)

\* What the employer's screens show agrees, whatever overlaps or is rolled back by
\* the unique key of campaign and worker: a campaign's totalCount, which creations
\* set and both hand-overs increment, is the number of its invitations, and its
\* statistics account for all of them unless it has ever been cancelled.  That it
\* is not CANCELLED is not enough: a sending may have opened it again.
TotalsMatch ==
    /\ \A c \in Campaigns : campaign[c].total = Cardinality({i \in InvitedWorkersByJob : i[1] = c})
    /\ \A c \in Created \ cancelled :
          LET stats == CampaignStats(c)
          IN  stats.accepted + stats.rejected + stats.pending = stats.total

\* Every variable keeps its domain, and the counters are right.
TypeOK ==
    /\ application \in [Workers -> JobApplicationStatus \cup {"none"}]
    /\ campaign \in [Campaigns -> [status : CampaignStatus, slots : BOOLEAN,
                                   total : 0 .. Cardinality(Workers)]]
    /\ invitation \in [Campaigns -> [Workers -> InvitationStatus]]
    /\ cancelled \subseteq Created
    /\ pc \in [Requests -> Place]
    /\ \A r \in Requests :
          req[r] \in [workers : SUBSET Workers, campaign : Campaigns \cup {0},
                      slots : BOOLEAN, seen : {"none", "CANCELLED"}]
    /\ calm \in BOOLEAN
    /\ TotalsMatch

\* While no request is overtaken by another writer, a verdict - the employer's,
\* or SUITABLE by accepting an invitation - is only changed by the employer: no
\* withdrawal and no second application lands on it (cancelApplyJob, applyJob).
Processed == {"SUITABLE", "UNSUITABLE"}
VerdictStands ==
    [][\A w \in Workers :
          calm' /\ flight' # flight /\ application[w] \in Processed
              => application'[w] \in Processed]_vars

\* Both hand-overs arrive under any interleaving, the loser of a race on the unique
\* key finding the row there: a worker found SUITABLE gets a row in a campaign
\* unless there is none to go to, and one who accepts without a slot a row in a
\* second campaign unless no other one has slots.
CampaignsOf(w) == {c \in Created : w \in Rows(c)}
HandOver(w, place) == \E r \in Requests : pc[r] = place /\ req[r].workers = {w}
HandedOver ==
    \A w \in Workers :
        /\ HandOver(w, "handing") ~> (CampaignsOf(w) # {} \/ Active = {})
        /\ HandOver(w, "accepted")
              ~> (Cardinality(CampaignsOf(w)) > 1 \/ ActiveWithSlots \subseteq CampaignsOf(w))
=============================================================================
