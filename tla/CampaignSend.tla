----------------------------- MODULE CampaignSend -----------------------------
(***************************************************************************)
(* The interview campaigns of one job: an employer creates, sends, edits   *)
(* and cancels them, a sending is paid from the company's wallet, and a timer  *)
(* marks it completed five seconds later.                                  *)
(*                                                                         *)
(* Creating, reading, charging and changing the status are separate calls  *)
(* of the database, so two requests can interleave between them and a      *)
(* failure can leave the first ones done.                                  *)
(***************************************************************************)
EXTENDS Integers, FiniteSets

CONSTANTS
    Campaigns,      \* campaigns of the job
    Workers,        \* workers who may be invited
    Requests,       \* the employer's requests, each made once
    NoCampaign,     \* what a request is about before it has a campaign
    Points,         \* the company's points at the start
    Prices,         \* values of AI_INVITE_POINT_COST_PER_WORKER
    MaxFaults,      \* bound on failed database calls
    MaxCrashes      \* bound on server crashes

ASSUME CampaignAssumption ==
    /\ IsFiniteSet(Workers)
    /\ NoCampaign \notin Campaigns
    /\ Points \in Nat
    /\ Prices \subseteq Nat
    /\ MaxFaults \in Nat
    /\ MaxCrashes \in Nat

VARIABLES
    campaign,       \* campaign.status, "none" before the row exists
    invitation,     \* InterviewInvitation.status of each campaign's workers
    balance,        \* CompanyWallet.balancePoint
    charges,        \* how often each campaign was charged
    timers,         \* timers each campaign's sendings have left running
    pc,             \* where each request stands
    req,            \* its campaign, and the workers it has read
    calm,           \* no two of the employer's requests overlapped, none failed
    timerLost,      \* a timer died or its write failed
    faults,         \* failed database calls so far
    crashes         \* crashes so far

rows   == <<campaign, invitation>>
wallet == <<balance, charges>>
flight == <<pc, req>>
bounds == <<faults, crashes>>
vars   == <<rows, wallet, timers, flight, calm, timerLost, bounds>>

-----------------------------------------------------------------------------
CampaignStatus == {"none", "DRAFT", "IN_PROGRESS", "COMPLETED", "CANCELLED"}
Sent == {"IN_PROGRESS", "COMPLETED"}
InvitationStatus == {"none", "PENDING", "ACCEPTED", "REJECTED", "CANCELLED"}
Live == {"PENDING", "ACCEPTED"}

Pending(c) == {w \in Workers : invitation[c][w] = "PENDING"}
Accepted(c) == {w \in Workers : invitation[c][w] = "ACCEPTED"}
LiveIn(c) == {w \in Workers : invitation[c][w] \in Live}
Invited == UNION {LiveIn(c) : c \in Campaigns}

Place == {"unused", "creating", "sending", "charging", "charged", "cancelling",
          "updating", "done"}
InProgress == Place \ {"unused", "done"}
Request == [campaign : Campaigns \cup {NoCampaign}, workers : SUBSET Workers]
NoRequest == [campaign |-> NoCampaign, workers |-> {}]
InFlight == {r \in Requests : pc[r] \in InProgress}

Init ==
    /\ campaign = [c \in Campaigns |-> "none"]
    /\ invitation = [c \in Campaigns |-> [w \in Workers |-> "none"]]
    /\ balance = Points
    /\ charges = [c \in Campaigns |-> 0]
    /\ timers = [c \in Campaigns |-> 0]
    /\ pc = [r \in Requests |-> "unused"]
    /\ req = [r \in Requests |-> NoRequest]
    /\ calm = TRUE
    /\ timerLost = FALSE
    /\ faults = 0 /\ crashes = 0

Goto(r, place, what) ==
    /\ pc' = [pc EXCEPT ![r] = place]
    /\ req' = [req EXCEPT ![r] = what]
Finish(r) == Goto(r, "done", NoRequest)

\* A request that arrives while another one is in progress ends the calm.
Arrive(r, place, what) ==
    /\ pc[r] = "unused"
    /\ Goto(r, place, what)
    /\ calm' = (calm /\ InFlight = {})

-----------------------------------------------------------------------------
(* createCampaign, which ends by sending what it has created.              *)

\* Workers with a live invitation for the job are dropped; when that leaves
\* none of those asked for, the request is refused and changes nothing.  The
\* reads that tell this, one after another in the code, are one step.
ReceiveCreate(r, workers) ==
    /\ workers \ Invited = {} => workers = {}
    /\ Arrive(r, "creating", [campaign |-> NoCampaign, workers |-> workers \ Invited])
    /\ UNCHANGED <<rows, wallet, timers, timerLost, bounds>>

CreateCampaign(r, c) ==
    /\ pc[r] = "creating"
    /\ campaign[c] = "none"
    /\ campaign' = [campaign EXCEPT ![c] = "DRAFT"]
    /\ invitation' = [invitation EXCEPT ![c] =
                         [w \in Workers |-> IF w \in req[r].workers THEN "PENDING" ELSE "none"]]
    /\ IF req[r].workers = {} THEN Finish(r)
       ELSE Goto(r, "sending", [campaign |-> c, workers |-> {}])
    /\ UNCHANGED <<wallet, timers, calm, timerLost, bounds>>

-----------------------------------------------------------------------------
(* sendCampaign.                                                           *)

ReceiveSend(r, c) ==
    /\ campaign[c] # "none"
    /\ Arrive(r, "sending", [campaign |-> c, workers |-> {}])
    /\ UNCHANGED <<rows, wallet, timers, timerLost, bounds>>

SendableAgain(c) == campaign[c] # "CANCELLED" /\ Pending(c) # {}   \* mutant
Sendable(c) == campaign[c] = "DRAFT" /\ Pending(c) # {}

\* A campaign already sent is returned as it is, one that is cancelled or has
\* nobody to invite is refused.
ReadCampaign(r) ==
    LET c == req[r].campaign IN
    /\ pc[r] = "sending"
    /\ IF Sendable(c) THEN Goto(r, "charging", [campaign |-> c, workers |-> Pending(c)])
       ELSE Finish(r)
    /\ UNCHANGED <<rows, wallet, timers, calm, timerLost, bounds>>

CostOf(r, price) == price * Cardinality(req[r].workers)
Unchecked(r, price) == TRUE                                       \* mutant
Affordable(r, price) == CostOf(r, price) <= balance

RefusalIgnored(r) == Goto(r, "charged", req[r])                   \* mutant
Refused(r) == Finish(r)

\* deductPoints, at the price just read: one guarded UPDATE.
Charge(r, price) ==
    LET c == req[r].campaign IN
    /\ pc[r] = "charging"
    /\ IF Affordable(r, price)
       THEN /\ balance' = balance - CostOf(r, price)
            /\ charges' = [charges EXCEPT ![c] = @ + 1]
            /\ Goto(r, "charged", req[r])
       ELSE /\ Refused(r)
            /\ UNCHANGED wallet
    /\ UNCHANGED <<rows, timers, calm, timerLost, bounds>>

StatusForgotten(c) == campaign                                    \* mutant
StatusSending(c) == [campaign EXCEPT ![c] = "IN_PROGRESS"]
TimerForgotten(c) == timers                                       \* mutant
TimerSet(c) == [timers EXCEPT ![c] = @ + 1]

\* The status is written whatever it has become; then the timer is set.
StartSending(r) ==
    LET c == req[r].campaign IN
    /\ pc[r] = "charged"
    /\ campaign' = StatusSending(c)
    /\ timers' = TimerSet(c)
    /\ Finish(r)
    /\ UNCHANGED <<invitation, wallet, calm, timerLost, bounds>>

\* The timer writes COMPLETED whatever the status has become.
TimerFires(c) ==
    /\ timers[c] > 0
    /\ timers' = [timers EXCEPT ![c] = @ - 1]
    /\ campaign' = [campaign EXCEPT ![c] = "COMPLETED"]
    /\ UNCHANGED <<invitation, wallet, flight, calm, timerLost, bounds>>

-----------------------------------------------------------------------------
(* cancelCampaign.                                                         *)

ReceiveCancel(r, c) ==
    /\ campaign[c] \notin {"none", "CANCELLED"}
    /\ Arrive(r, "cancelling", [campaign |-> c, workers |-> LiveIn(c)])
    /\ UNCHANGED <<rows, wallet, timers, timerLost, bounds>>

OnlyAccepted == {"ACCEPTED"}                                      \* mutant
ToCancel == Live

CancelCampaign(r) ==
    LET c == req[r].campaign IN
    /\ pc[r] = "cancelling"
    /\ campaign' = [campaign EXCEPT ![c] = "CANCELLED"]
    /\ invitation' =
          IF req[r].workers = {} THEN invitation
          ELSE [invitation EXCEPT ![c] =
                   [w \in Workers |-> IF @[w] \in ToCancel THEN "CANCELLED" ELSE @[w]]]
    /\ Finish(r)
    /\ UNCHANGED <<wallet, timers, calm, timerLost, bounds>>

-----------------------------------------------------------------------------
(* updateCampaign.                                                         *)

ReceiveUpdate(r, c) ==
    /\ campaign[c] \notin {"none", "CANCELLED"}
    /\ Arrive(r, "updating", [campaign |-> c, workers |-> Accepted(c)])
    /\ UNCHANGED <<rows, wallet, timers, timerLost, bounds>>

\* Who had accepted when the campaign was read, in a slot that is changed or
\* deleted, is sent back to choose again, whatever has happened since.
UpdateCampaign(r) ==
    LET c == req[r].campaign IN
    /\ pc[r] = "updating"
    /\ \E moved \in SUBSET req[r].workers :
          invitation' = [invitation EXCEPT ![c] =
                            [w \in Workers |-> IF w \in moved THEN "PENDING" ELSE @[w]]]
    /\ Finish(r)
    /\ UNCHANGED <<campaign, wallet, timers, calm, timerLost, bounds>>

-----------------------------------------------------------------------------
(* The rest of the program, failures and crashes.                          *)

\* A worker answers (InterviewBooking shows the steps).
Answer(c, w, answer) ==
    /\ invitation[c][w] \in Live \cup {"REJECTED"}
    /\ invitation[c][w] = "REJECTED" => answer = "ACCEPTED"
    /\ invitation' = [invitation EXCEPT ![c][w] = answer]
    /\ UNCHANGED <<campaign, wallet, timers, flight, calm, timerLost, bounds>>

\* A suitable applicant is added to a campaign looked up before, which may have
\* been cancelled since; the look for a live invitation is as old, so that only
\* the unique key of the campaign and the worker refuses.
AddWorker(c, w) ==
    /\ campaign[c] # "none"
    /\ invitation[c][w] = "none"
    /\ invitation' = [invitation EXCEPT ![c][w] = "PENDING"]
    /\ calm' = (calm /\ InFlight = {} /\ campaign[c] # "CANCELLED")
    /\ UNCHANGED <<campaign, wallet, timers, flight, timerLost, bounds>>

\* A database call of a request throws: what was committed before stays.
RequestFails(r) ==
    /\ r \in InFlight
    /\ faults < MaxFaults
    /\ faults' = faults + 1
    /\ Finish(r)
    /\ calm' = FALSE
    /\ UNCHANGED <<rows, wallet, timers, timerLost, crashes>>

\* The timer's write throws, which is logged.
TimerFails(c) ==
    /\ timers[c] > 0
    /\ faults < MaxFaults
    /\ faults' = faults + 1
    /\ timers' = [timers EXCEPT ![c] = @ - 1]
    /\ timerLost' = TRUE
    /\ UNCHANGED <<rows, wallet, flight, calm, crashes>>

Crash ==
    /\ crashes < MaxCrashes
    /\ crashes' = crashes + 1
    /\ pc' = [r \in Requests |-> IF r \in InFlight THEN "done" ELSE pc[r]]
    /\ req' = [r \in Requests |-> NoRequest]
    /\ timers' = [c \in Campaigns |-> 0]
    /\ calm' = FALSE
    /\ timerLost' = TRUE
    /\ UNCHANGED <<rows, wallet, faults>>

-----------------------------------------------------------------------------
Next ==
    \/ \E r \in Requests :
          \/ \E workers \in SUBSET Workers : ReceiveCreate(r, workers)
          \/ \E c \in Campaigns :
                \/ CreateCampaign(r, c)
                \/ ReceiveSend(r, c) \/ ReceiveCancel(r, c) \/ ReceiveUpdate(r, c)
          \/ ReadCampaign(r)
          \/ \E price \in Prices : Charge(r, price)
          \/ StartSending(r)
          \/ CancelCampaign(r)
          \/ UpdateCampaign(r)
          \/ RequestFails(r)
    \/ \E c \in Campaigns :
          \/ TimerFires(c)
          \/ TimerFails(c)
          \/ \E w \in Workers :
                \/ \E answer \in {"ACCEPTED", "REJECTED"} : Answer(c, w, answer)
                \/ AddWorker(c, w)
    \/ Crash

\* A timer of a living server fires; nobody else owes a step.
Fairness == \A c \in Campaigns : WF_vars(TimerFires(c))

Spec == Init /\ [][Next]_vars
FairSpec == Spec /\ Fairness

-----------------------------------------------------------------------------
(* Properties.                                                             *)

\* Every variable stays in its domain; the points are never overdrawn.
TypeOK ==
    /\ campaign \in [Campaigns -> CampaignStatus]
    /\ invitation \in [Campaigns -> [Workers -> InvitationStatus]]
    /\ balance \in Nat
    /\ charges \in [Campaigns -> Nat]
    /\ timers \in [Campaigns -> Nat]
    /\ pc \in [Requests -> Place]
    /\ req \in [Requests -> Request]
    /\ calm \in BOOLEAN /\ timerLost \in BOOLEAN
    /\ faults \in 0..MaxFaults /\ crashes \in 0..MaxCrashes

\* No campaign is ever sent without having been paid, whatever overlaps, fails
\* or crashes (sendCampaign charges before it writes the status).
SentIsPaid == \A c \in Campaigns : campaign[c] \in Sent => charges[c] > 0

\* As long as requests neither overlap nor fail a campaign is paid once, however
\* often it is sent, cancelled and reopened by its timer
\* (interview-invitation.service.spec.ts: "returns early when campaign already
\* IN_PROGRESS").
PaidOnce == calm => \A c \in Campaigns : charges[c] <= 1

\* Nor is there then a campaign that was paid and left a draft: between requests
\* the charge and the status agree.
PaidMeansSent ==
    (calm /\ InFlight = {}) => \A c \in Campaigns : charges[c] > 0 => campaign[c] # "DRAFT"

\* Nor does a cancelled campaign keep an invitation that waits for an answer.
CancelledIsQuiet == calm => \A c \in Campaigns : campaign[c] = "CANCELLED" => Pending(c) = {}

\* A campaign in progress is eventually completed or cancelled, unless a timer
\* was lost: each sending leaves a timer that outlives the earlier ones.
SendingEnds ==
    \A c \in Campaigns :
        (campaign[c] = "IN_PROGRESS") ~> (campaign[c] # "IN_PROGRESS" \/ timerLost)
=============================================================================
