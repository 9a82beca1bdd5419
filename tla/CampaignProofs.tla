---------------------------- MODULE CampaignProofs ----------------------------
(***************************************************************************)
(* Theorems about CampaignSend for any number of campaigns, workers,       *)
(* requests, failures and crashes.                                         *)
(*                                                                         *)
(* SentIsPaid rests on who can still write IN_PROGRESS or COMPLETED: a     *)
(* request past its charge, and a timer such a request has left (Paid).    *)
(* The three properties of calm executions rest on there being one request *)
(* in progress at most, so that what it has read is still so (Calm).       *)
(***************************************************************************)
EXTENDS CampaignSend, FiniteSetTheorems, TLAPS

\* A request is about a campaign that exists once it has passed its creation.
AboutCampaigns ==
    \A r \in Requests :
        pc[r] \in {"sending", "charging", "charged", "cancelling", "updating"} =>
            req[r].campaign \in Campaigns /\ campaign[req[r].campaign] # "none"

\* Only campaigns that exist were charged; whoever will write a sent status, a
\* request past its charge or a timer, was paid for.
Paid ==
    /\ SentIsPaid
    /\ \A r \in Requests : pc[r] = "charged" => charges[req[r].campaign] > 0
    /\ \A c \in Campaigns : timers[c] > 0 => charges[c] > 0
    /\ \A c \in Campaigns : campaign[c] = "none" => charges[c] = 0

IInv == TypeOK /\ AboutCampaigns /\ Paid

Alone == \A r, q \in InFlight : r = q

\* A request about to charge has an unpaid draft before it.
UnpaidDraft ==
    \A r \in Requests : pc[r] = "charging" =>
        charges[req[r].campaign] = 0 /\ campaign[req[r].campaign] = "DRAFT"

\* A paid draft belongs to a request that is about to write its status.
PaidDraft ==
    \A c \in Campaigns : (campaign[c] = "DRAFT" /\ charges[c] > 0) =>
        \E r \in Requests : pc[r] = "charged" /\ req[r].campaign = c

\* A cancellation that found nobody to cancel leaves nobody waiting.
NobodyMissed ==
    \A r \in Requests : (pc[r] = "cancelling" /\ req[r].workers = {}) =>
        Pending(req[r].campaign) = {}

\* An edit in progress is about a campaign that is not cancelled.
StillOpen ==
    \A r \in Requests : pc[r] = "updating" => campaign[req[r].campaign] # "CANCELLED"

ChargedOnce == \A c \in Campaigns : charges[c] <= 1
Quiet == \A c \in Campaigns : campaign[c] = "CANCELLED" => Pending(c) = {}

Order ==
    /\ Alone /\ UnpaidDraft /\ PaidDraft /\ NobodyMissed /\ StillOpen
    /\ ChargedOnce /\ Quiet
CalmInv == calm => Order

-----------------------------------------------------------------------------
\* The price of a sending is a natural number.
LEMMA CostNat ==
    ASSUME TypeOK, NEW r \in Requests, NEW price \in Prices
    PROVE  CostOf(r, price) \in Nat
<1>1. IsFiniteSet(req[r].workers)
    BY CampaignAssumption, FS_Subset DEF TypeOK, Request
<1>2. Cardinality(req[r].workers) \in Nat
    BY <1>1, FS_CardinalityType
<1>3. price \in Nat
    BY CampaignAssumption
<1>4. QED
    BY <1>2, <1>3 DEF CostOf

\* What a request does to the control state, and that it touches no other's.
LEMMA GotoFlight ==
    ASSUME TypeOK, NEW r \in Requests, NEW place \in Place, NEW what \in Request,
           Goto(r, place, what)
    PROVE  /\ pc' \in [Requests -> Place] /\ req' \in [Requests -> Request]
           /\ pc'[r] = place /\ req'[r] = what
           /\ \A q \in Requests \ {r} : pc'[q] = pc[q] /\ req'[q] = req[q]
    BY DEF TypeOK, Goto

\* The requests that the actions make are well formed.
LEMMA RequestsTyped ==
    /\ NoRequest \in Request
    /\ \A c \in Campaigns, workers \in SUBSET Workers :
          [campaign |-> c, workers |-> workers] \in Request
    /\ \A workers \in SUBSET Workers :
          [campaign |-> NoCampaign, workers |-> workers] \in Request
    BY DEF Request, NoRequest

\* No campaign, no request and no timer at first.
LEMMA InitIInv == Init => IInv
<1> SUFFICES ASSUME Init PROVE IInv
    OBVIOUS
<1>1. TypeOK
  <2>1. /\ req = [r \in Requests |-> NoRequest] /\ NoRequest \in Request
        /\ pc = [r \in Requests |-> "unused"]
      BY RequestsTyped DEF Init
  <2>2. pc \in [Requests -> Place] /\ req \in [Requests -> Request]
      BY <2>1 DEF Place
  <2>3. invitation \in [Campaigns -> [Workers -> InvitationStatus]]
      BY DEF Init, InvitationStatus
  <2>4. campaign \in [Campaigns -> CampaignStatus]
      BY DEF Init, CampaignStatus
  <2>5. charges \in [Campaigns -> Nat] /\ timers \in [Campaigns -> Nat]
      BY DEF Init
  <2>6. balance = Points /\ faults = 0 /\ crashes = 0 /\ calm = TRUE /\ timerLost = FALSE
      BY DEF Init
  <2>7. balance \in Nat /\ faults \in 0..MaxFaults /\ crashes \in 0..MaxCrashes
      BY <2>6, CampaignAssumption
  <2>8. QED
      BY <2>2, <2>3, <2>4, <2>5, <2>6, <2>7 DEF TypeOK
<1>2. AboutCampaigns /\ Paid
    BY DEF Init, AboutCampaigns, Paid, SentIsPaid, Sent
<1>3. QED
    BY <1>1, <1>2 DEF IInv

\* Every step keeps the invariant.
LEMMA NextIInv == IInv /\ [Next]_vars => IInv'
<1> SUFFICES ASSUME IInv, [Next]_vars PROVE IInv'
    OBVIOUS
<1> USE CampaignAssumption DEF IInv, rows, wallet, flight, bounds
<1>1. ASSUME NEW r \in Requests, NEW workers \in SUBSET Workers, ReceiveCreate(r, workers)
      PROVE  IInv'
  <2> DEFINE what == [campaign |-> NoCampaign, workers |-> workers \ Invited]
  <2>1. Goto(r, "creating", what) /\ what \in Request /\ calm' \in BOOLEAN
      BY <1>1, RequestsTyped DEF ReceiveCreate, Arrive
  <2>2. UNCHANGED <<rows, wallet, timers, timerLost, bounds>>
      BY <1>1 DEF ReceiveCreate
  <2>3. TypeOK'
      BY <2>1, <2>2, GotoFlight DEF TypeOK, Place
  <2>4. AboutCampaigns'
      BY <2>1, <2>2, GotoFlight DEF TypeOK, AboutCampaigns, Place
  <2>5. Paid'
      BY <2>1, <2>2, GotoFlight DEF TypeOK, AboutCampaigns, Paid, SentIsPaid, Place
  <2>6. QED
      BY <2>3, <2>4, <2>5
<1>2. ASSUME NEW r \in Requests, NEW c \in Campaigns, CreateCampaign(r, c)
      PROVE  IInv'
  <2>1. invitation' \in [Campaigns -> [Workers -> InvitationStatus]]
      BY <1>2 DEF CreateCampaign, InvitationStatus, TypeOK
  <2>2. /\ campaign[c] = "none" /\ campaign' = [campaign EXCEPT ![c] = "DRAFT"]
        /\ UNCHANGED <<wallet, timers, calm, timerLost, bounds>>
      BY <1>2 DEF CreateCampaign
  <2>3. PICK place \in {"done", "sending"}, what \in Request :
            /\ Goto(r, place, what)
            /\ place = "sending" => what.campaign = c
      BY <1>2, RequestsTyped DEF CreateCampaign, Finish
  <2>4. TypeOK'
      BY <2>1, <2>2, <2>3, GotoFlight DEF TypeOK, Place, CampaignStatus
  <2>5. AboutCampaigns'
      BY <2>2, <2>3, GotoFlight DEF TypeOK, Place, AboutCampaigns
  <2>6. Paid'
      BY <2>2, <2>3, GotoFlight DEF TypeOK, Place, Paid, SentIsPaid, Sent
  <2>7. QED
      BY <2>4, <2>5, <2>6
<1>3. ASSUME NEW r \in Requests, NEW c \in Campaigns, ReceiveSend(r, c)
      PROVE  IInv'
  <2> DEFINE what == [campaign |-> c, workers |-> {}]
  <2>1. Goto(r, "sending", what) /\ what \in Request /\ calm' \in BOOLEAN /\ campaign[c] # "none"
      BY <1>3, RequestsTyped DEF ReceiveSend, Arrive
  <2>2. UNCHANGED <<rows, wallet, timers, timerLost, bounds>>
      BY <1>3 DEF ReceiveSend
  <2>3. TypeOK'
      BY <2>1, <2>2, GotoFlight DEF TypeOK, Place
  <2>4. AboutCampaigns'
      BY <2>1, <2>2, GotoFlight DEF TypeOK, AboutCampaigns, Place
  <2>5. Paid'
      BY <2>1, <2>2, GotoFlight DEF TypeOK, AboutCampaigns, Paid, SentIsPaid, Place
  <2>6. QED
      BY <2>3, <2>4, <2>5
<1>4. ASSUME NEW r \in Requests, NEW c \in Campaigns, ReceiveCancel(r, c)
      PROVE  IInv'
  <2> DEFINE what == [campaign |-> c, workers |-> LiveIn(c)]
  <2>1. Goto(r, "cancelling", what) /\ what \in Request /\ calm' \in BOOLEAN /\ campaign[c] # "none"
        /\ what.campaign = c
      BY <1>4, RequestsTyped DEF ReceiveCancel, Arrive, LiveIn
  <2> HIDE DEF what
  <2>2. UNCHANGED <<rows, wallet, timers, timerLost, bounds>>
      BY <1>4 DEF ReceiveCancel
  <2>3. TypeOK'
      BY <2>1, <2>2, GotoFlight DEF TypeOK, Place
  <2>4. AboutCampaigns'
      BY <2>1, <2>2, GotoFlight DEF TypeOK, AboutCampaigns, Place
  <2>5. Paid'
      BY <2>1, <2>2, GotoFlight DEF TypeOK, AboutCampaigns, Paid, SentIsPaid, Place
  <2>6. QED
      BY <2>3, <2>4, <2>5
<1>5. ASSUME NEW r \in Requests, ReadCampaign(r)
      PROVE  IInv'
  <2> DEFINE c == req[r].campaign
  <2>1. pc[r] = "sending" /\ c \in Campaigns /\ campaign[c] # "none" /\ Pending(c) \in SUBSET Workers
      BY <1>5 DEF ReadCampaign, Pending, AboutCampaigns
  <2>2. PICK place \in {"done", "charging"}, what \in Request :
            /\ Goto(r, place, what)
            /\ place = "charging" => what.campaign = c
      BY <1>5, <2>1, RequestsTyped DEF ReadCampaign, Finish
  <2>3. UNCHANGED <<rows, wallet, timers, calm, timerLost, bounds>>
      BY <1>5 DEF ReadCampaign
  <2>4. TypeOK'
      BY <2>1, <2>2, <2>3, GotoFlight DEF TypeOK, Place
  <2>5. AboutCampaigns'
      BY <2>1, <2>2, <2>3, GotoFlight DEF TypeOK, AboutCampaigns, Place
  <2>6. Paid'
      BY <2>1, <2>2, <2>3, GotoFlight DEF TypeOK, AboutCampaigns, Paid, SentIsPaid, Place
  <2>7. QED
      BY <2>4, <2>5, <2>6
<1>6. ASSUME NEW r \in Requests, NEW price \in Prices, Charge(r, price)
      PROVE  IInv'
  <2> DEFINE c == req[r].campaign
  <2>1. /\ pc[r] = "charging" /\ c \in Campaigns /\ campaign[c] # "none"
        /\ CostOf(r, price) \in Nat /\ req[r] \in Request
      BY <1>6, CostNat DEF Charge, AboutCampaigns, TypeOK
  <2>2. UNCHANGED <<rows, timers, calm, timerLost, bounds>>
      BY <1>6 DEF Charge
  <2>3. CASE Affordable(r, price)
    <3>1. balance' = balance - CostOf(r, price) /\ CostOf(r, price) <= balance
        BY <1>6, <2>3 DEF Charge, Affordable
    <3>2. balance' \in Nat
        BY <2>1, <3>1 DEF TypeOK
    <3>3. charges' = [charges EXCEPT ![c] = @ + 1] /\ Goto(r, "charged", req[r])
        BY <1>6, <2>3 DEF Charge
    <3>4. TypeOK'
        BY <2>1, <2>2, <3>2, <3>3, GotoFlight DEF TypeOK, Place
    <3>5. AboutCampaigns'
        BY <2>1, <2>2, <3>2, <3>3, GotoFlight DEF TypeOK, AboutCampaigns, Place
    <3>6. Paid'
        BY <2>1, <2>2, <3>2, <3>3, GotoFlight DEF TypeOK, AboutCampaigns, Paid, SentIsPaid, Place
    <3>7. QED
        BY <3>4, <3>5, <3>6
  <2>4. CASE ~Affordable(r, price)
    <3>1. UNCHANGED wallet /\ Goto(r, "done", NoRequest) /\ NoRequest \in Request
        BY <1>6, <2>4, RequestsTyped DEF Charge, Refused, Finish
    <3>2. TypeOK'
        BY <2>2, <3>1, GotoFlight DEF TypeOK, Place
    <3>3. AboutCampaigns'
        BY <2>2, <3>1, GotoFlight DEF TypeOK, AboutCampaigns, Place
    <3>4. Paid'
        BY <2>2, <3>1, GotoFlight DEF TypeOK, AboutCampaigns, Paid, SentIsPaid, Place
    <3>5. QED
        BY <3>2, <3>3, <3>4
  <2>5. QED
      BY <2>3, <2>4
<1>7. ASSUME NEW r \in Requests, StartSending(r)
      PROVE  IInv'
  <2> DEFINE c == req[r].campaign
  <2>1. /\ c \in Campaigns /\ charges[c] > 0 /\ Goto(r, "done", NoRequest) /\ NoRequest \in Request
        /\ campaign' = [campaign EXCEPT ![c] = "IN_PROGRESS"]
        /\ timers' = [timers EXCEPT ![c] = @ + 1]
        /\ UNCHANGED <<invitation, wallet, calm, timerLost, bounds>>
      BY <1>7, RequestsTyped DEF StartSending, StatusSending, TimerSet, Finish, AboutCampaigns, Paid
  <2>2. TypeOK'
      BY <2>1, GotoFlight DEF TypeOK, Sent, Place, CampaignStatus
  <2>3. AboutCampaigns'
      BY <2>1, GotoFlight DEF TypeOK, AboutCampaigns, Sent, Place, CampaignStatus
  <2>4. Paid'
      BY <2>1, GotoFlight DEF TypeOK, AboutCampaigns, Paid, SentIsPaid, Sent, Place, CampaignStatus
  <2>5. QED
      BY <2>2, <2>3, <2>4
<1>8. ASSUME NEW c \in Campaigns, TimerFires(c)
      PROVE  IInv'
    BY <1>8 DEF TimerFires, TypeOK, AboutCampaigns, Paid, SentIsPaid, Sent, CampaignStatus
<1>9. ASSUME NEW r \in Requests, CancelCampaign(r)
      PROVE  IInv'
  <2> DEFINE c == req[r].campaign
  <2>1. invitation' \in [Campaigns -> [Workers -> InvitationStatus]]
      BY <1>9 DEF CancelCampaign, InvitationStatus, TypeOK
  <2>2. /\ c \in Campaigns /\ campaign[c] # "none" /\ Goto(r, "done", NoRequest) /\ NoRequest \in Request
        /\ campaign' = [campaign EXCEPT ![c] = "CANCELLED"]
        /\ UNCHANGED <<wallet, timers, calm, timerLost, bounds>>
      BY <1>9, RequestsTyped DEF CancelCampaign, Finish, AboutCampaigns
  <2>3. TypeOK'
      BY <2>1, <2>2, GotoFlight DEF TypeOK, Sent, Place, CampaignStatus
  <2>4. AboutCampaigns'
      BY <2>1, <2>2, GotoFlight DEF TypeOK, AboutCampaigns, Sent, Place, CampaignStatus
  <2>5. Paid'
    <3>1. SentIsPaid' /\ \A d \in Campaigns : campaign'[d] = "none" => campaign[d] = "none"
        BY <2>2 DEF TypeOK, Paid, SentIsPaid, Sent
    <3>2. \A q \in Requests : pc'[q] = "charged" => pc[q] = "charged" /\ req'[q] = req[q]
        BY <2>2, GotoFlight DEF Place
    <3>3. QED
        BY <2>2, <3>1, <3>2 DEF Paid
  <2>6. QED
      BY <2>3, <2>4, <2>5
<1>10. ASSUME NEW c \in Campaigns, NEW w \in Workers,
              \/ \E answer \in {"ACCEPTED", "REJECTED"} : Answer(c, w, answer)
              \/ AddWorker(c, w)
       PROVE  IInv'
  <2>1. PICK new \in InvitationStatus : invitation' = [invitation EXCEPT ![c][w] = new]
      BY <1>10 DEF Answer, AddWorker, InvitationStatus
  <2>2. calm' \in BOOLEAN /\ UNCHANGED <<campaign, wallet, timers, flight, timerLost, bounds>>
      BY <1>10 DEF Answer, AddWorker, TypeOK
  <2>3. TypeOK'
      BY <2>1, <2>2 DEF TypeOK
  <2>4. AboutCampaigns'
      BY <2>1, <2>2 DEF TypeOK, AboutCampaigns
  <2>5. Paid'
      BY <2>1, <2>2 DEF TypeOK, AboutCampaigns, Paid, SentIsPaid
  <2>6. QED
      BY <2>3, <2>4, <2>5
<1>11. ASSUME NEW r \in Requests, RequestFails(r)
       PROVE  IInv'
  <2>1. /\ Goto(r, "done", NoRequest) /\ NoRequest \in Request /\ faults' \in 0..MaxFaults /\ calm' = FALSE
        /\ UNCHANGED <<rows, wallet, timers, timerLost, crashes>>
      BY <1>11, RequestsTyped DEF RequestFails, Finish, TypeOK
  <2>2. TypeOK'
      BY <2>1, GotoFlight DEF TypeOK, Place
  <2>3. AboutCampaigns'
      BY <2>1, GotoFlight DEF TypeOK, AboutCampaigns, Place
  <2>4. Paid'
      BY <2>1, GotoFlight DEF TypeOK, AboutCampaigns, Paid, SentIsPaid, Place
  <2>5. QED
      BY <2>2, <2>3, <2>4
<1>12. ASSUME NEW c \in Campaigns, TimerFails(c)
       PROVE  IInv'
    BY <1>12 DEF TimerFails, TypeOK, AboutCampaigns, Paid, SentIsPaid
<1>13. ASSUME Crash
       PROVE  IInv'
  <2>1. /\ pc' \in [Requests -> Place] /\ req' \in [Requests -> Request]
        /\ \A r \in Requests : pc'[r] \notin InProgress
      BY <1>13, RequestsTyped DEF Crash, InFlight, InProgress, Place, TypeOK
  <2>2. /\ timers' = [c \in Campaigns |-> 0] /\ crashes' \in 0..MaxCrashes
        /\ calm' = FALSE /\ timerLost' = TRUE /\ UNCHANGED <<rows, wallet, faults>>
      BY <1>13 DEF Crash, TypeOK
  <2>3. TypeOK'
      BY <2>1, <2>2 DEF TypeOK, Place, InProgress
  <2>4. AboutCampaigns'
      BY <2>1, <2>2 DEF TypeOK, AboutCampaigns, Place, InProgress
  <2>5. Paid'
      BY <2>1, <2>2 DEF TypeOK, AboutCampaigns, Paid, SentIsPaid, Place, InProgress
  <2>6. QED
      BY <2>3, <2>4, <2>5
<1>14. ASSUME NEW r \in Requests, NEW c \in Campaigns, ReceiveUpdate(r, c)
       PROVE  IInv'
  <2> DEFINE what == [campaign |-> c, workers |-> Accepted(c)]
  <2>1. Goto(r, "updating", what) /\ what \in Request /\ calm' \in BOOLEAN /\ campaign[c] # "none"
        /\ what.campaign = c
      BY <1>14, RequestsTyped DEF ReceiveUpdate, Arrive, Accepted
  <2> HIDE DEF what
  <2>2. UNCHANGED <<rows, wallet, timers, timerLost, bounds>>
      BY <1>14 DEF ReceiveUpdate
  <2>3. TypeOK'
      BY <2>1, <2>2, GotoFlight DEF TypeOK, Place
  <2>4. AboutCampaigns'
      BY <2>1, <2>2, GotoFlight DEF TypeOK, AboutCampaigns, Place
  <2>5. Paid'
      BY <2>1, <2>2, GotoFlight DEF TypeOK, AboutCampaigns, Paid, SentIsPaid, Place
  <2>6. QED
      BY <2>3, <2>4, <2>5
<1>15. ASSUME NEW r \in Requests, UpdateCampaign(r)
       PROVE  IInv'
  <2>1. invitation' \in [Campaigns -> [Workers -> InvitationStatus]]
    <3> DEFINE c == req[r].campaign
    <3>1. PICK moved \in SUBSET req[r].workers :
              invitation' = [invitation EXCEPT ![c] =
                                [w \in Workers |-> IF w \in moved THEN "PENDING" ELSE @[w]]]
        BY <1>15 DEF UpdateCampaign
    <3> DEFINE new == [w \in Workers |-> IF w \in moved THEN "PENDING" ELSE invitation[c][w]]
    <3>2. c \in Campaigns /\ invitation' = [invitation EXCEPT ![c] = new]
        BY <1>15, <3>1 DEF UpdateCampaign, AboutCampaigns
    <3>3. new \in [Workers -> InvitationStatus]
        BY <3>2 DEF InvitationStatus, TypeOK
    <3> HIDE DEF new
    <3>4. QED
        BY <3>2, <3>3 DEF TypeOK
  <2>2. /\ Goto(r, "done", NoRequest) /\ NoRequest \in Request
        /\ UNCHANGED <<campaign, wallet, timers, calm, timerLost, bounds>>
      BY <1>15, RequestsTyped DEF UpdateCampaign, Finish
  <2>3. TypeOK'
      BY <2>1, <2>2, GotoFlight DEF TypeOK, Place
  <2>4. AboutCampaigns'
      BY <2>2, GotoFlight DEF TypeOK, AboutCampaigns, Place
  <2>5. Paid'
      BY <2>2, GotoFlight DEF TypeOK, AboutCampaigns, Paid, SentIsPaid, Place
  <2>6. QED
      BY <2>3, <2>4, <2>5
<1>16. CASE UNCHANGED vars
    BY <1>16 DEF vars, TypeOK, AboutCampaigns, Paid, SentIsPaid
<1>17. QED
    BY <1>1, <1>2, <1>3, <1>4, <1>5, <1>6, <1>7, <1>8, <1>9, <1>10, <1>11, <1>12, <1>13, <1>14,
       <1>15, <1>16
    DEF Next

-----------------------------------------------------------------------------
(* Calm executions.                                                        *)

\* In a calm state no paid campaign is a draft, unless its request is charged.
LEMMA NoPaidDraft ==
    ASSUME Alone, PaidDraft, NEW r \in InFlight, pc[r] # "charged",
           NEW c \in Campaigns, campaign[c] = "DRAFT"
    PROVE  ~(charges[c] > 0)
    BY DEF Alone, PaidDraft, InFlight, InProgress, Place

\* With nobody in flight an arriving request keeps the order.
LEMMA ArrivalKeepsOrder ==
    ASSUME IInv, Order, InFlight = {}, UNCHANGED <<rows, wallet>>,
           NEW r \in Requests, NEW place \in {"creating", "sending", "cancelling", "updating"},
           NEW what \in Request, Goto(r, place, what),
           (place = "cancelling" /\ what.workers = {}) => Pending(what.campaign) = {},
           place = "updating" => campaign[what.campaign] # "CANCELLED"
    PROVE  Order'
<1>1. /\ pc'[r] = place /\ req'[r] = what
      /\ \A q \in Requests \ {r} : pc'[q] = pc[q] /\ req'[q] = req[q]
    BY GotoFlight DEF IInv, Place
<1>2. \A q \in Requests : pc[q] \notin InProgress
    BY DEF InFlight
<1>3. \A q \in Requests \ {r} : pc'[q] \notin InProgress
    BY <1>1, <1>2
<1>4. Alone'
    BY <1>3 DEF Alone, InFlight
<1>5. UnpaidDraft'
    BY <1>1, <1>3 DEF UnpaidDraft, InProgress, Place
<1>6. PaidDraft'
    BY <1>2 DEF PaidDraft, Order, InProgress, Place, rows, wallet
<1>7. NobodyMissed'
    BY <1>1, <1>3 DEF NobodyMissed, InProgress, Place, Pending, rows
<1>8. StillOpen'
    BY <1>1, <1>3 DEF StillOpen, InProgress, Place, rows
<1>9. ChargedOnce' /\ Quiet'
    BY DEF Order, ChargedOnce, Quiet, Pending, rows, wallet
<1>10. QED
    BY <1>4, <1>5, <1>6, <1>7, <1>8, <1>9 DEF Order

\* A step of the only request in flight leaves nobody else there.
LEMMA OnlyOneMoves ==
    ASSUME IInv, Alone, NEW r \in InFlight, NEW place \in Place, NEW what \in Request,
           Goto(r, place, what)
    PROVE  /\ pc'[r] = place /\ req'[r] = what
           /\ \A q \in Requests \ {r} : pc'[q] \notin InProgress
           /\ Alone'
<1>1. r \in Requests
    BY DEF InFlight
<1>2. /\ pc'[r] = place /\ req'[r] = what
      /\ \A q \in Requests \ {r} : pc'[q] = pc[q]
    BY <1>1, GotoFlight DEF IInv
<1>3. \A q \in Requests \ {r} : pc'[q] \notin InProgress
    BY <1>2 DEF Alone, InFlight
<1>4. QED
    BY <1>2, <1>3 DEF Alone, InFlight

\* One step per action.
LEMMA NextCalm == IInv /\ CalmInv /\ [Next]_vars => CalmInv'
<1> SUFFICES ASSUME IInv, CalmInv, [Next]_vars, calm' PROVE Order'
    BY DEF CalmInv
<1> USE RequestsTyped
<1>1. ASSUME NEW r \in Requests, NEW workers \in SUBSET Workers, ReceiveCreate(r, workers)
      PROVE  Order'
  <2> DEFINE what == [campaign |-> NoCampaign, workers |-> workers \ Invited]
  <2>1. Goto(r, "creating", what) /\ what \in Request /\ calm /\ InFlight = {}
      BY <1>1 DEF ReceiveCreate, Arrive
  <2>2. Order /\ UNCHANGED <<rows, wallet>>
      BY <1>1, <2>1 DEF ReceiveCreate, CalmInv
  <2> HIDE DEF what
  <2>3. QED
      BY <2>1, <2>2, ArrivalKeepsOrder
<1>2. ASSUME NEW r \in Requests, NEW c \in Campaigns, CreateCampaign(r, c)
      PROVE  Order'
  <2>1. pc[r] = "creating" /\ campaign[c] = "none" /\ Order
      BY <1>2 DEF CreateCampaign, CalmInv
  <2>2. /\ campaign' = [campaign EXCEPT ![c] = "DRAFT"] /\ UNCHANGED wallet
        /\ \A d \in Campaigns \ {c} : invitation'[d] = invitation[d]
      BY <1>2 DEF CreateCampaign, IInv, TypeOK
  <2>3. PICK place \in {"done", "sending"}, what \in Request : Goto(r, place, what)
      BY <1>2 DEF CreateCampaign, Finish
  <2>4. r \in InFlight
      BY <2>1 DEF InFlight, InProgress, Place
  <2>5. /\ pc'[r] = place
        /\ \A q \in Requests \ {r} : pc'[q] \notin InProgress
        /\ Alone'
      BY <2>1, <2>3, <2>4, OnlyOneMoves DEF Order, Place
  <2>6. UnpaidDraft' /\ NobodyMissed' /\ StillOpen'
      BY <2>5 DEF UnpaidDraft, NobodyMissed, StillOpen, InProgress, Place
  <2>7. PaidDraft'
      BY <2>1, <2>2, <2>4, NoPaidDraft DEF PaidDraft, Order, IInv, TypeOK, Paid, wallet
  <2>8. ChargedOnce' /\ Quiet'
      BY <2>1, <2>2 DEF Order, ChargedOnce, Quiet, Pending, IInv, TypeOK, wallet
  <2>9. QED
      BY <2>5, <2>6, <2>7, <2>8 DEF Order
<1>3. ASSUME NEW r \in Requests, NEW c \in Campaigns, ReceiveSend(r, c)
      PROVE  Order'
  <2> DEFINE what == [campaign |-> c, workers |-> {}]
  <2>1. Goto(r, "sending", what) /\ what \in Request /\ calm /\ InFlight = {}
      BY <1>3 DEF ReceiveSend, Arrive
  <2>2. Order /\ UNCHANGED <<rows, wallet>>
      BY <1>3, <2>1 DEF ReceiveSend, CalmInv
  <2> HIDE DEF what
  <2>3. QED
      BY <2>1, <2>2, ArrivalKeepsOrder
<1>4. ASSUME NEW r \in Requests, NEW c \in Campaigns, ReceiveCancel(r, c)
      PROVE  Order'
  <2> DEFINE what == [campaign |-> c, workers |-> LiveIn(c)]
  <2>1. /\ Goto(r, "cancelling", what) /\ calm /\ InFlight = {}
        /\ what \in Request /\ what.campaign = c /\ what.workers = LiveIn(c)
      BY <1>4 DEF ReceiveCancel, Arrive, LiveIn
  <2>2. Order /\ UNCHANGED <<rows, wallet>>
      BY <1>4, <2>1 DEF ReceiveCancel, CalmInv
  <2>3. LiveIn(c) = {} => Pending(c) = {}
      BY DEF LiveIn, Live, Pending
  <2> HIDE DEF what
  <2>4. QED
      BY <2>1, <2>2, <2>3, ArrivalKeepsOrder
<1>5. ASSUME NEW r \in Requests, ReadCampaign(r)
      PROVE  Order'
  <2> DEFINE c == req[r].campaign
  <2>1. pc[r] = "sending" /\ Order /\ c \in Campaigns /\ UNCHANGED <<rows, wallet>>
      BY <1>5 DEF ReadCampaign, CalmInv, IInv, AboutCampaigns
  <2>2. PICK place \in {"done", "charging"}, what \in Request :
            /\ Goto(r, place, what)
            /\ place = "charging" => what.campaign = c /\ campaign[c] = "DRAFT"
      BY <1>5, <2>1 DEF ReadCampaign, Finish, Sendable, Pending
  <2>3. r \in InFlight
      BY <2>1 DEF InFlight, InProgress, Place
  <2>4. /\ pc'[r] = place /\ req'[r] = what
        /\ \A q \in Requests \ {r} : pc'[q] \notin InProgress
        /\ Alone'
      BY <2>1, <2>2, <2>3, OnlyOneMoves DEF Order, Place
  <2>5. place = "charging" => charges[c] = 0
      BY <2>1, <2>2, <2>3, NoPaidDraft DEF Order, IInv, TypeOK
  <2>6. UnpaidDraft' /\ NobodyMissed' /\ StillOpen'
      BY <2>1, <2>2, <2>4, <2>5 DEF UnpaidDraft, NobodyMissed, StillOpen, InProgress, Place, rows, wallet
  <2>7. PaidDraft'
      BY <2>1, <2>3, NoPaidDraft DEF PaidDraft, Order, rows, wallet
  <2>8. ChargedOnce' /\ Quiet'
      BY <2>1 DEF Order, ChargedOnce, Quiet, Pending, rows, wallet
  <2>9. QED
      BY <2>4, <2>6, <2>7, <2>8 DEF Order
<1>6. ASSUME NEW r \in Requests, NEW price \in Prices, Charge(r, price)
      PROVE  Order'
  <2> DEFINE c == req[r].campaign
  <2>1. /\ pc[r] = "charging" /\ Order /\ c \in Campaigns /\ UNCHANGED rows
        /\ req[r] \in Request /\ charges[c] = 0
      BY <1>6 DEF Charge, CalmInv, IInv, AboutCampaigns, TypeOK, Order, UnpaidDraft
  <2>2. r \in InFlight
      BY <2>1 DEF InFlight, InProgress, Place
  <2>3. PICK place \in {"done", "charged"}, what \in Request :
            /\ Goto(r, place, what)
            /\ place = "charged" => /\ what.campaign = c
                                    /\ charges' = [charges EXCEPT ![c] = @ + 1]
            /\ place = "done" => UNCHANGED charges
      BY <1>6, <2>1 DEF Charge, Refused, Finish, wallet
  <2>4. /\ pc'[r] = place /\ req'[r] = what
        /\ \A q \in Requests \ {r} : pc'[q] \notin InProgress
        /\ Alone'
      BY <2>1, <2>2, <2>3, OnlyOneMoves DEF Order, Place
  <2>5. UnpaidDraft' /\ NobodyMissed' /\ StillOpen'
      BY <2>4 DEF UnpaidDraft, NobodyMissed, StillOpen, InProgress, Place
  <2>6. PaidDraft'
      BY <2>1, <2>2, <2>3, <2>4, NoPaidDraft DEF PaidDraft, Order, IInv, TypeOK, rows
  <2>7. ChargedOnce'
      BY <2>1, <2>3 DEF Order, ChargedOnce, IInv, TypeOK
  <2>8. Quiet'
      BY <2>1 DEF Order, Quiet, Pending, rows
  <2>9. QED
      BY <2>4, <2>5, <2>6, <2>7, <2>8 DEF Order
<1>7. ASSUME NEW r \in Requests, StartSending(r)
      PROVE  Order'
  <2> DEFINE c == req[r].campaign
  <2>1. /\ pc[r] = "charged" /\ Order /\ c \in Campaigns
        /\ campaign' = [campaign EXCEPT ![c] = "IN_PROGRESS"]
        /\ Goto(r, "done", NoRequest) /\ UNCHANGED <<invitation, wallet>>
      BY <1>7 DEF StartSending, StatusSending, Finish, CalmInv, IInv, AboutCampaigns
  <2>2. r \in InFlight
      BY <2>1 DEF InFlight, InProgress, Place
  <2>3. pc'[r] = "done" /\ Alone' /\ \A q \in Requests \ {r} : pc'[q] \notin InProgress
      BY <2>1, <2>2, OnlyOneMoves DEF Order, Place
  <2>4. UnpaidDraft' /\ NobodyMissed' /\ StillOpen'
      BY <2>3 DEF UnpaidDraft, NobodyMissed, StillOpen, InProgress, Place
  <2>5. \A q \in Requests : pc[q] = "charged" => q = r
      BY <2>1, <2>2 DEF Order, Alone, InFlight, InProgress, Place
  <2>6. PaidDraft'
      BY <2>1, <2>5 DEF PaidDraft, Order, IInv, TypeOK, wallet
  <2>7. ChargedOnce' /\ Quiet'
      BY <2>1 DEF Order, ChargedOnce, Quiet, Pending, IInv, TypeOK, wallet
  <2>8. QED
      BY <2>3, <2>4, <2>6, <2>7 DEF Order
<1>8. ASSUME NEW c \in Campaigns, TimerFires(c)
      PROVE  Order'
  <2>1. /\ Order /\ charges[c] > 0 /\ campaign' = [campaign EXCEPT ![c] = "COMPLETED"]
        /\ UNCHANGED <<invitation, wallet, flight>>
      BY <1>8 DEF TimerFires, CalmInv, IInv, Paid
  <2>2. Alone' /\ ChargedOnce' /\ NobodyMissed'
      BY <2>1 DEF Order, Alone, InFlight, ChargedOnce, NobodyMissed, Pending, wallet, flight
  <2>3. UnpaidDraft' /\ PaidDraft' /\ StillOpen'
      BY <2>1 DEF Order, UnpaidDraft, PaidDraft, StillOpen, IInv, TypeOK, wallet, flight
  <2>4. Quiet'
      BY <2>1 DEF Order, Quiet, Pending, IInv, TypeOK
  <2>5. QED
      BY <2>2, <2>3, <2>4 DEF Order
<1>9. ASSUME NEW r \in Requests, CancelCampaign(r)
      PROVE  Order'
  <2> DEFINE c == req[r].campaign
  <2>1. /\ pc[r] = "cancelling" /\ Order /\ c \in Campaigns
        /\ campaign' = [campaign EXCEPT ![c] = "CANCELLED"]
        /\ Goto(r, "done", NoRequest) /\ UNCHANGED wallet
      BY <1>9 DEF CancelCampaign, Finish, CalmInv, IInv, AboutCampaigns
  <2>2. r \in InFlight
      BY <2>1 DEF InFlight, InProgress, Place
  <2>3. pc'[r] = "done" /\ Alone' /\ \A q \in Requests \ {r} : pc'[q] \notin InProgress
      BY <2>1, <2>2, OnlyOneMoves DEF Order, Place
  <2>4. UnpaidDraft' /\ NobodyMissed' /\ StillOpen'
      BY <2>3 DEF UnpaidDraft, NobodyMissed, StillOpen, InProgress, Place
  <2>5. PaidDraft'
      BY <2>1, <2>2, NoPaidDraft DEF PaidDraft, Order, IInv, TypeOK, wallet
  <2>6. /\ \A w \in Workers : invitation'[c][w] # "PENDING"
        /\ \A d \in Campaigns \ {c} : invitation'[d] = invitation[d]
    <3>1. CASE req[r].workers = {}
      <4>1. invitation' = invitation
          BY <1>9, <3>1 DEF CancelCampaign
      <4>2. Pending(c) = {}
          BY <2>1, <3>1 DEF Order, NobodyMissed
      <4>3. QED
          BY <4>1, <4>2 DEF Pending
    <3>2. CASE req[r].workers # {}
      <4>1. invitation' = [invitation EXCEPT ![c] =
                   [w \in Workers |-> IF @[w] \in Live THEN "CANCELLED" ELSE @[w]]]
          BY <1>9, <3>2 DEF CancelCampaign, ToCancel
      <4>2. QED
          BY <2>1, <4>1 DEF Pending, Live, IInv, TypeOK
    <3>3. QED
        BY <3>1, <3>2
  <2>7. ChargedOnce' /\ Quiet'
      BY <2>1, <2>6 DEF Order, ChargedOnce, Quiet, Pending, IInv, TypeOK, wallet
  <2>8. QED
      BY <2>3, <2>4, <2>5, <2>7 DEF Order
<1>10. ASSUME NEW c \in Campaigns, NEW w \in Workers, NEW answer \in {"ACCEPTED", "REJECTED"},
              Answer(c, w, answer)
       PROVE  Order'
  <2>1. Order /\ UNCHANGED <<campaign, wallet, flight>>
      BY <1>10 DEF Answer, CalmInv
  <2>2. \A d \in Campaigns : Pending(d)' \subseteq Pending(d)
      BY <1>10 DEF Answer, Pending, IInv, TypeOK
  <2>3. Alone' /\ UnpaidDraft' /\ PaidDraft' /\ StillOpen' /\ ChargedOnce'
      BY <2>1 DEF Order, Alone, InFlight, UnpaidDraft, PaidDraft, StillOpen, ChargedOnce, wallet, flight
  <2>4. Quiet'
      BY <2>1, <2>2 DEF Order, Quiet
  <2>5. NobodyMissed'
      BY <2>1, <2>2 DEF Order, NobodyMissed, IInv, AboutCampaigns, flight
  <2>6. QED
      BY <2>3, <2>4, <2>5 DEF Order
<1>11. ASSUME NEW c \in Campaigns, NEW w \in Workers,
              AddWorker(c, w)
       PROVE  Order'
  <2>1. /\ Order /\ InFlight = {} /\ campaign[c] # "CANCELLED"
        /\ UNCHANGED <<campaign, wallet, flight>>
        /\ invitation' = [invitation EXCEPT ![c][w] = "PENDING"]
      BY <1>11 DEF AddWorker, CalmInv
  <2>2. Alone' /\ UnpaidDraft' /\ PaidDraft' /\ StillOpen' /\ ChargedOnce'
      BY <2>1 DEF Order, Alone, InFlight, UnpaidDraft, PaidDraft, StillOpen, ChargedOnce, wallet, flight
  <2>3. Quiet'
      BY <2>1 DEF Order, Quiet, Pending, IInv, TypeOK
  <2>4. NobodyMissed'
      BY <2>1 DEF NobodyMissed, InFlight, InProgress, Place, flight
  <2>5. QED
      BY <2>2, <2>3, <2>4 DEF Order
<1>12. ASSUME NEW r \in Requests, RequestFails(r)
       PROVE  Order'
    BY <1>12 DEF RequestFails
<1>13. CASE (\E c \in Campaigns : TimerFails(c)) \/ UNCHANGED vars
  <2>1. calm /\ UNCHANGED <<rows, wallet, flight>>
      BY <1>13 DEF TimerFails, vars
  <2>2. QED
      BY <2>1 DEF CalmInv, Order, Alone, InFlight, UnpaidDraft, PaidDraft, NobodyMissed,
                  StillOpen, ChargedOnce, Quiet, Pending, rows, wallet, flight
<1>14. CASE Crash
    BY <1>14 DEF Crash
<1>15. ASSUME NEW r \in Requests, NEW c \in Campaigns, ReceiveUpdate(r, c)
       PROVE  Order'
  <2> DEFINE what == [campaign |-> c, workers |-> Accepted(c)]
  <2>1. /\ Goto(r, "updating", what) /\ calm /\ InFlight = {}
        /\ what \in Request /\ what.campaign = c /\ campaign[c] # "CANCELLED"
      BY <1>15 DEF ReceiveUpdate, Arrive, Accepted
  <2>2. Order /\ UNCHANGED <<rows, wallet>>
      BY <1>15, <2>1 DEF ReceiveUpdate, CalmInv
  <2> HIDE DEF what
  <2>3. QED
      BY <2>1, <2>2, ArrivalKeepsOrder
<1>16. ASSUME NEW r \in Requests, UpdateCampaign(r)
       PROVE  Order'
  <2> DEFINE c == req[r].campaign
  <2>1. /\ pc[r] = "updating" /\ Order /\ c \in Campaigns /\ campaign[c] # "CANCELLED"
        /\ Goto(r, "done", NoRequest) /\ UNCHANGED <<campaign, wallet>>
      BY <1>16 DEF UpdateCampaign, Finish, CalmInv, IInv, AboutCampaigns, Order, StillOpen
  <2>2. r \in InFlight
      BY <2>1 DEF InFlight, InProgress, Place
  <2>3. pc'[r] = "done" /\ Alone' /\ \A q \in Requests \ {r} : pc'[q] \notin InProgress
      BY <2>1, <2>2, OnlyOneMoves DEF Order, Place
  <2>4. UnpaidDraft' /\ NobodyMissed' /\ StillOpen'
      BY <2>3 DEF UnpaidDraft, NobodyMissed, StillOpen, InProgress, Place
  <2>5. PaidDraft'
      BY <2>1, <2>2, NoPaidDraft DEF PaidDraft, Order, wallet
  <2>6. \A d \in Campaigns \ {c} : invitation'[d] = invitation[d]
      BY <1>16 DEF UpdateCampaign, IInv, TypeOK
  <2>7. ChargedOnce' /\ Quiet'
      BY <2>1, <2>6 DEF Order, ChargedOnce, Quiet, Pending, wallet
  <2>8. QED
      BY <2>3, <2>4, <2>5, <2>7 DEF Order
<1>17. QED
    BY <1>1, <1>2, <1>3, <1>4, <1>5, <1>6, <1>7, <1>8, <1>9, <1>10, <1>11, <1>12, <1>13, <1>14,
       <1>15, <1>16
    DEF Next

\* Nothing is in flight at first.
LEMMA InitCalm == Init => CalmInv
    BY DEF Init, CalmInv, Order, Alone, InFlight, InProgress, Place, UnpaidDraft, PaidDraft,
           NobodyMissed, StillOpen, ChargedOnce, Quiet

-----------------------------------------------------------------------------
\* Both invariants, from the start and over every step.
LEMMA CampaignInvariant == Spec => [](IInv /\ CalmInv)
    BY InitIInv, NextIInv, InitCalm, NextCalm, PTL DEF Spec

\* Type correctness.
THEOREM CampaignTypeOK == Spec => []TypeOK
<1>1. IInv => TypeOK
    BY DEF IInv
<1>2. QED
    BY <1>1, CampaignInvariant, PTL

\* No campaign is sent unpaid, whatever overlaps or fails.
THEOREM CampaignSentIsPaid == Spec => []SentIsPaid
<1>1. IInv => SentIsPaid
    BY DEF IInv, Paid
<1>2. QED
    BY <1>1, CampaignInvariant, PTL

\* While requests neither overlap nor fail, a campaign is paid once and its
\* payment and its status agree between requests.
THEOREM CampaignPaidOnce == Spec => [](PaidOnce /\ PaidMeansSent)
<1>1. IInv /\ CalmInv => PaidOnce /\ PaidMeansSent
  <2> SUFFICES ASSUME IInv, CalmInv, calm
               PROVE  /\ ChargedOnce
                      /\ InFlight = {} => \A c \in Campaigns : charges[c] > 0 => campaign[c] # "DRAFT"
      BY DEF PaidOnce, PaidMeansSent, ChargedOnce
  <2>1. QED
      BY DEF CalmInv, Order, PaidDraft, InFlight, InProgress, Place
<1>2. QED
    BY <1>1, CampaignInvariant, PTL

\* In particular no request then leaves behind a draft that has been paid for.
THEOREM CampaignPaidMeansSent == Spec => []PaidMeansSent
    BY CampaignPaidOnce, PTL

\* Nor does a cancelled campaign then keep a waiting invitation.
THEOREM CampaignCancelledIsQuiet == Spec => []CancelledIsQuiet
<1>1. CalmInv => CancelledIsQuiet
    BY DEF CalmInv, Order, Quiet, CancelledIsQuiet
<1>2. QED
    BY <1>1, CampaignInvariant, PTL
=============================================================================
