-------------------------- MODULE ApplicationsProofs --------------------------
(***************************************************************************)
(* Theorems about Applications for any number of workers, campaigns and    *)
(* requests.                                                               *)
(*                                                                         *)
(* That the counters and the lists agree under every overlap is a fact     *)
(* about the campaigns' rows, RowsInv, once every request that is about to *)
(* write them works for a campaign that exists, FlightInv.  That verdicts  *)
(* stand in calm is a fact about what the one request in progress has read *)
(* of an application.                                                      *)
(***************************************************************************)
EXTENDS Applications, FiniteSetTheorems, WellFoundedInduction, TLAPS

Campaign == [status : CampaignStatus, slots : BOOLEAN, total : Nat]
Request == [workers : SUBSET Workers, campaign : Campaigns \cup {0},
            slots : BOOLEAN, seen : {"none", "CANCELLED"}]

\* Campaigns are numbered as they are created; one that is not has no rows; totalCount
\* is the number of rows; a campaign never cancelled has no cancelled invitation, whatever
\* has become of the status of the others.
RowsInv ==
    /\ campaign \in [Campaigns -> Campaign]
    /\ invitation \in [Campaigns -> [Workers -> InvitationStatus]]
    /\ \E n \in 0 .. MaxCampaigns : Created = 1 .. n
    /\ \A c \in Campaigns \ Created : Rows(c) = {}
    /\ \A c \in Campaigns : campaign[c].total = Cardinality(Rows(c))
    /\ cancelled \subseteq Created
    /\ \A c \in Created \ cancelled, w \in Workers : invitation[c][w] # "CANCELLED"

\* A request that has found its campaign works for one that exists; all requests but
\* the creation of a campaign are about one worker.
AtCampaign == {"checking", "adding", "accepted", "checkingSlots"}
Singles == {{w} : w \in Workers}
FlightInv ==
    /\ application \in [Workers -> JobApplicationStatus \cup {"none"}]
    /\ pc \in [Requests -> Place]
    /\ req \in [Requests -> Request]
    /\ calm \in BOOLEAN
    /\ \A r \in Requests :
          /\ pc[r] \in AtCampaign => req[r].campaign \in Created
          /\ pc[r] \notin {"idle", "creating"} => req[r].workers \in Singles

IInv == RowsInv /\ FlightInv

-----------------------------------------------------------------------------
(* Lemmas about the operators.                                             *)

\* The latest of some campaigns is one of them.
LEMMA MaxExists ==
    ASSUME NEW n \in Nat, NEW S \in SUBSET (1 .. n), S # {}
    PROVE  Max(S) \in S
<1> DEFINE T == {n - c : c \in S}
<1>0. \A c \in S : c \in Nat /\ c <= n /\ n - c \in Nat
    OBVIOUS
<1>1. T \subseteq Nat /\ T # {}
    BY <1>0
<1>2. PICK m \in T : \A y \in T : ~(<<y, m>> \in OpToRel(<, Nat))
    BY <1>1, NatLessThanWellFounded, WFMin
<1>3. \A y \in T : ~(y < m)
    BY <1>1, <1>2 DEF OpToRel
<1>4. PICK c \in S : m = n - c
    OBVIOUS
<1>5. ASSUME NEW d \in S PROVE c >= d
  <2>1. n - d \in T
      OBVIOUS
  <2>2. ~(n - d < n - c)
      BY <2>1, <1>3, <1>4
  <2>3. QED
      BY <1>0, <2>2
<1> HIDE DEF T
<1>6. QED
    BY <1>5 DEF Max

\* The latest of some campaigns is one of them, as they are numbered.
LEMMA LatestTyped ==
    ASSUME RowsInv, NEW S \in SUBSET Created, S # {}
    PROVE  Max(S) \in Created
<1>1. PICK n \in 0 .. MaxCampaigns : Created = 1 .. n
    BY DEF RowsInv
<1>2. n \in Nat /\ S \in SUBSET (1 .. n)
    BY <1>1, ApplicationsAssumption
<1>3. Max(S) \in S
    BY <1>2, MaxExists
<1>4. QED
    BY <1>3

\* A request about a single worker has that worker.
LEMMA WorkerFound ==
    ASSUME NEW r \in Requests, req[r].workers \in Singles
    PROVE  WorkerOf(r) \in Workers /\ req[r].workers = {WorkerOf(r)}
    BY DEF Singles, WorkerOf

\* The requests that the actions make are well formed.
LEMMA RequestsTyped ==
    /\ NoRequest \in Request
    /\ \A w \in Workers : By(w) \in Request /\ By(w).workers \in Singles /\ By(w).seen = "none"
    BY DEF NoRequest, By, Request, Singles

\* The campaigns that are there, those that run, and those that run with slots.
LEMMA CreatedTyped ==
    Created \subseteq Campaigns /\ Active \subseteq Created /\ ActiveWithSlots \subseteq Active
    BY DEF Created, Active, ActiveWithSlots

\* The rows of a campaign are at most one per worker.
LEMMA RowsFinite ==
    ASSUME NEW c
    PROVE  /\ Rows(c) \subseteq Workers /\ IsFiniteSet(Rows(c))
           /\ Cardinality(Rows(c)) \in Nat /\ Cardinality(Rows(c)) <= Cardinality(Workers)
    BY FS_Subset, FS_CardinalityType, ApplicationsAssumption DEF Rows

\* What a request does to the control state.
LEMMA GotoFlight ==
    ASSUME FlightInv, NEW r \in Requests, NEW place \in Place, NEW what \in Request,
           Goto(r, place, what)
    PROVE  /\ pc' \in [Requests -> Place] /\ req' \in [Requests -> Request]
           /\ pc'[r] = place /\ req'[r] = what
           /\ \A q \in Requests \ {r} : pc'[q] = pc[q] /\ req'[q] = req[q]
    BY DEF FlightInv, Goto

\* A request goes on in good order, and no campaign disappears.
LEMMA RequestMoves ==
    ASSUME FlightInv, NEW r \in Requests, NEW place \in Place, NEW what \in Request,
           Goto(r, place, what),
           place \in AtCampaign => what.campaign \in Created,
           place \notin {"idle", "creating"} => what.workers \in Singles,
           application' \in [Workers -> JobApplicationStatus \cup {"none"}],
           calm' \in BOOLEAN, Created \subseteq Created'
    PROVE  FlightInv'
    BY GotoFlight DEF FlightInv

\* Requests in progress stay in order when campaigns are only added to.
LEMMA FlightStays ==
    ASSUME FlightInv, UNCHANGED flight, Created \subseteq Created', calm' \in BOOLEAN,
           application' \in [Workers -> JobApplicationStatus \cup {"none"}]
    PROVE  FlightInv'
    BY DEF FlightInv, flight

\* So do the rows that nothing touches.
LEMMA RowsStay == ASSUME RowsInv, UNCHANGED <<campaign, invitation, cancelled>>
                  PROVE  RowsInv' /\ Created' = Created
    BY DEF RowsInv, Created, Active, Rows

\* A step that may end the calm leaves a flag.
LEMMA UndisturbedTyped == ASSUME FlightInv, Undisturbed PROVE calm' \in BOOLEAN
    BY DEF FlightInv, Undisturbed

-----------------------------------------------------------------------------
(* The rows, when an invitation or a campaign changes.                     *)

\* An answer: one that has a row, and is not cancelled, keeps it.
LEMMA AnswerRows ==
    ASSUME RowsInv, NEW c \in Created, NEW w \in Workers, NEW status \in {"ACCEPTED", "REJECTED"},
           invitation[c][w] # "none",
           invitation' = [invitation EXCEPT ![c][w] = status], UNCHANGED <<campaign, cancelled>>
    PROVE  RowsInv' /\ Created' = Created
<1>1. Created' = Created /\ c \in Campaigns
    BY CreatedTyped DEF Created
<1>2. invitation' \in [Campaigns -> [Workers -> InvitationStatus]]
    BY <1>1 DEF RowsInv, InvitationStatus
<1>3. \A d \in Campaigns : Rows(d)' = Rows(d)
    BY <1>1 DEF RowsInv, Rows
<1>4. \A d \in Created \ cancelled, v \in Workers : invitation'[d][v] # "CANCELLED"
    BY <1>1, CreatedTyped DEF RowsInv
<1>5. QED
    BY <1>1, <1>2, <1>3, <1>4 DEF RowsInv

\* A worker is added: the unique key sees to it that a row is counted once.
LEMMA AddRows ==
    ASSUME RowsInv, NEW c \in Created, NEW workers \in SUBSET Workers,
           invitation' = [invitation EXCEPT ![c] =
               [w \in Workers |-> IF w \in workers \ Rows(c) THEN "PENDING" ELSE @[w]]],
           campaign' = [campaign EXCEPT ![c].total = @ + Cardinality(workers \ Rows(c))],
           UNCHANGED cancelled
    PROVE  RowsInv' /\ Created' = Created
<1> DEFINE added == workers \ Rows(c)
<1>1. /\ c \in Campaigns /\ IsFiniteSet(added) /\ Cardinality(added) \in Nat
    BY CreatedTyped, FS_Subset, FS_CardinalityType, ApplicationsAssumption
<1>2. campaign' \in [Campaigns -> Campaign]
  <2>1. campaign[c] \in Campaign /\ campaign[c].total \in Nat
      BY <1>1 DEF RowsInv, Campaign
  <2>2. campaign[c].total + Cardinality(added) \in Nat
      BY <1>1, <2>1
  <2>3. [campaign[c] EXCEPT !.total = @ + Cardinality(added)] \in Campaign
      BY <2>1, <2>2 DEF Campaign
  <2>4. QED
      BY <1>1, <2>3 DEF RowsInv
<1>3. Created' = Created
    BY <1>1 DEF RowsInv, Created, Campaign
<1>4. invitation' \in [Campaigns -> [Workers -> InvitationStatus]]
    BY <1>1 DEF RowsInv, InvitationStatus
<1>5. Rows(c)' = Rows(c) \cup added /\ \A d \in Campaigns : d # c => Rows(d)' = Rows(d)
    BY <1>1 DEF RowsInv, Rows
<1>6. Cardinality(Rows(c) \cup added) = Cardinality(Rows(c)) + Cardinality(added)
  <2>0. Rows(c) \cap added = {}
      OBVIOUS
  <2>1. Cardinality(Rows(c) \cap added) = 0
      BY <2>0, FS_EmptySet
  <2> HIDE DEF added
  <2>2. IsFiniteSet(Rows(c)) /\ Cardinality(Rows(c)) \in Nat
      BY RowsFinite
  <2>3. Cardinality(Rows(c) \cup added)
           = Cardinality(Rows(c)) + Cardinality(added) - Cardinality(Rows(c) \cap added)
      BY <1>1, <2>2, FS_Union
  <2>4. QED
      BY <1>1, <2>1, <2>2, <2>3
<1>7. \A d \in Campaigns : campaign'[d].total = Cardinality(Rows(d)')
  <2>1. campaign'[c].total = campaign[c].total + Cardinality(added)
      BY <1>1 DEF RowsInv, Campaign
  <2>2. \A d \in Campaigns : d # c => campaign'[d] = campaign[d]
      BY <1>1 DEF RowsInv
  <2>3. QED
      BY <1>1, <1>5, <1>6, <2>1, <2>2 DEF RowsInv
<1>8. \A d \in Created \ cancelled, v \in Workers : invitation'[d][v] # "CANCELLED"
    BY <1>1, CreatedTyped DEF RowsInv
<1>9. \A d \in Campaigns \ Created : Rows(d)' = {}
    BY <1>5 DEF RowsInv
<1>10. QED
    BY <1>2, <1>3, <1>4, <1>7, <1>8, <1>9 DEF RowsInv

\* A new campaign takes the next number.
LEMMA NewRows ==
    ASSUME RowsInv, NEW workers \in SUBSET Workers, NEW slots \in BOOLEAN,
           NEW c \in Campaigns, c = Cardinality(Created) + 1,
           campaign' = [campaign EXCEPT ![c] =
              [status |-> "active", slots |-> slots, total |-> Cardinality(workers)]],
           invitation' = [invitation EXCEPT ![c] =
              [w \in Workers |-> IF w \in workers THEN "PENDING" ELSE "none"]],
           UNCHANGED cancelled
    PROVE  RowsInv' /\ Created \subseteq Created'
<1>1. PICK n \in 0 .. MaxCampaigns : Created = 1 .. n
    BY DEF RowsInv
<1>2. c = n + 1 /\ n + 1 \in 0 .. MaxCampaigns /\ c \notin Created
  <2>1. n \in Nat /\ Cardinality(1 .. n) = n
      BY FS_Interval, ApplicationsAssumption
  <2>2. c = n + 1 /\ c \in 1 .. MaxCampaigns
      BY <1>1, <2>1 DEF Campaigns
  <2>3. QED
      BY <1>1, <2>1, <2>2, ApplicationsAssumption
<1>3. Cardinality(workers) \in Nat
    BY FS_Subset, FS_CardinalityType, ApplicationsAssumption
<1>4. campaign' \in [Campaigns -> Campaign]
    BY <1>3 DEF RowsInv, Campaign, CampaignStatus
<1>5. invitation' \in [Campaigns -> [Workers -> InvitationStatus]]
    BY DEF RowsInv, InvitationStatus
<1>6. Created' = Created \cup {c}
    BY <1>2, CreatedTyped DEF RowsInv, Created
<1>7. Created' = 1 .. (n + 1)
    BY <1>1, <1>2, <1>6
<1>8. Rows(c)' = workers /\ \A d \in Campaigns : d # c => Rows(d)' = Rows(d)
    BY DEF RowsInv, Rows
<1>9. \A d \in Campaigns : campaign'[d].total = Cardinality(Rows(d)')
    BY <1>8 DEF RowsInv
<1>10. \A d \in Campaigns \ Created' : Rows(d)' = {}
    BY <1>6, <1>8 DEF RowsInv
<1>11. \A d \in Created' \ cancelled, v \in Workers : invitation'[d][v] # "CANCELLED"
  <2>1. ASSUME NEW d \in Created' \ cancelled, NEW v \in Workers, d # c PROVE invitation'[d][v] # "CANCELLED"
    <3>1. d \in Created \ cancelled /\ d \in Campaigns
        BY <1>6, <2>1, CreatedTyped
    <3>2. QED
        BY <2>1, <3>1 DEF RowsInv
  <2>2. ASSUME NEW v \in Workers PROVE invitation'[c][v] # "CANCELLED"
      BY DEF RowsInv
  <2>3. QED
      BY <2>1, <2>2
<1>12. QED
    BY <1>2, <1>4, <1>5, <1>6, <1>7, <1>9, <1>10, <1>11 DEF RowsInv

\* A cancelled campaign keeps its rows.
LEMMA CancelRows ==
    ASSUME RowsInv, NEW c \in Active,
           campaign' = [campaign EXCEPT ![c].status = "CANCELLED"],
           invitation' = [invitation EXCEPT ![c] =
              [w \in Workers |-> IF w \in LiveIn(c) THEN "CANCELLED" ELSE @[w]]],
           cancelled' = cancelled \cup {c}
    PROVE  RowsInv' /\ Created' = Created
<1>1. c \in Campaigns /\ c \in Created
    BY CreatedTyped
<1>2. campaign' \in [Campaigns -> Campaign] /\ \A d \in Campaigns : campaign'[d].total = campaign[d].total
    BY <1>1 DEF RowsInv, Campaign, CampaignStatus
<1>3. invitation' \in [Campaigns -> [Workers -> InvitationStatus]]
    BY <1>1 DEF RowsInv, InvitationStatus
<1>4. Created' = Created
    BY <1>1 DEF RowsInv, Created, Campaign
<1>5. \A d \in Campaigns : Rows(d)' = Rows(d)
  <2>1. ASSUME NEW w \in Workers PROVE invitation'[c][w] # "none" <=> invitation[c][w] # "none"
      BY <1>1 DEF RowsInv, LiveIn, Live
  <2>2. \A d \in Campaigns : d # c => invitation'[d] = invitation[d]
      BY DEF RowsInv
  <2>3. QED
      BY <2>1, <2>2 DEF Rows
<1>6. \A d \in Created \ cancelled', v \in Workers : invitation'[d][v] # "CANCELLED"
    BY CreatedTyped DEF RowsInv
<1>7. QED
    BY <1>1, <1>2, <1>3, <1>4, <1>5, <1>6 DEF RowsInv

\* An edit changes the kind of the campaign, and sends some who have accepted back.
LEMMA EditRows ==
    ASSUME RowsInv, NEW c \in Created, NEW slots \in BOOLEAN, NEW moved \in SUBSET Workers,
           \A w \in moved : invitation[c][w] = "ACCEPTED",
           campaign' = [campaign EXCEPT ![c].slots = slots],
           invitation' = [invitation EXCEPT ![c] =
              [w \in Workers |-> IF w \in moved THEN "PENDING" ELSE @[w]]],
           UNCHANGED cancelled
    PROVE  RowsInv' /\ Created' = Created
<1>1. c \in Campaigns
    BY CreatedTyped
<1>2. campaign' \in [Campaigns -> Campaign] /\ \A d \in Campaigns : campaign'[d].total = campaign[d].total
    BY <1>1 DEF RowsInv, Campaign
<1>3. invitation' \in [Campaigns -> [Workers -> InvitationStatus]]
    BY <1>1 DEF RowsInv, InvitationStatus
<1>4. Created' = Created
    BY <1>1 DEF RowsInv, Created, Campaign
<1>5. \A d \in Campaigns : Rows(d)' = Rows(d)
  <2>1. ASSUME NEW w \in Workers PROVE invitation'[c][w] # "none" <=> invitation[c][w] # "none"
      BY <1>1 DEF RowsInv
  <2>2. \A d \in Campaigns : d # c => invitation'[d] = invitation[d]
      BY DEF RowsInv
  <2>3. QED
      BY <2>1, <2>2 DEF Rows
<1>6. \A d \in Created \ cancelled, v \in Workers : invitation'[d][v] # "CANCELLED"
    BY <1>1, CreatedTyped DEF RowsInv
<1>7. QED
    BY <1>2, <1>3, <1>4, <1>5, <1>6 DEF RowsInv

\* A campaign that is opened again keeps the rows it had.
LEMMA ReopenRows ==
    ASSUME RowsInv, NEW c \in Created, campaign' = [campaign EXCEPT ![c].status = "active"],
           UNCHANGED <<invitation, cancelled>>
    PROVE  RowsInv' /\ Created' = Created
<1>1. c \in Campaigns
    BY CreatedTyped
<1>2. campaign' \in [Campaigns -> Campaign] /\ \A d \in Campaigns : campaign'[d].total = campaign[d].total
    BY <1>1 DEF RowsInv, Campaign, CampaignStatus
<1>3. Created' = Created /\ \A d \in Campaigns : Rows(d)' = Rows(d)
    BY <1>1 DEF RowsInv, Created, Campaign, Rows
<1>4. QED
    BY <1>2, <1>3 DEF RowsInv

-----------------------------------------------------------------------------
(* Each action preserves the invariant.                                    *)

\* A request that only looks, or writes an application.
LEMMA LooksIInv ==
    ASSUME IInv, NEW r \in Requests, NEW place \in Place, NEW what \in Request,
           Goto(r, place, what),
           place \in AtCampaign => what.campaign \in Created,
           place \notin {"idle", "creating"} => what.workers \in Singles,
           application' \in [Workers -> JobApplicationStatus \cup {"none"}],
           calm' \in BOOLEAN, UNCHANGED <<campaign, invitation, cancelled>>
    PROVE  IInv'
    BY RowsStay, RequestMoves DEF IInv

\* A request that arrives about a worker.
LEMMA ArrivalsIInv ==
    ASSUME IInv, NEW r \in Requests, NEW w \in Workers,
           ReceiveApply(r, w) \/ ReceiveCancel(r, w) \/ MarkSuitable(r, w)
    PROVE  IInv'
<1>1. \E place \in {"looking", "withdrawing", "handing"} : Arrive(r, place, By(w))
    BY DEF ReceiveApply, ReceiveCancel, MarkSuitable
<1>2. PICK place \in {"looking", "withdrawing", "handing"} :
         Goto(r, place, By(w)) /\ calm' \in BOOLEAN
    BY <1>1, UndisturbedTyped DEF Arrive, IInv
<1>3. /\ application' \in [Workers -> JobApplicationStatus \cup {"none"}]
      /\ UNCHANGED <<campaign, invitation, cancelled>>
    BY DEF ReceiveApply, ReceiveCancel, MarkSuitable, rows, IInv, FlightInv, JobApplicationStatus
<1>4. QED
    BY <1>2, <1>3, RequestsTyped, LooksIInv DEF Place, AtCampaign

\* A request for a campaign, with the workers it asks for.
LEMMA ReceiveCreateIInv ==
    ASSUME IInv, NEW r \in Requests, NEW asked \in SUBSET Workers, NEW slots \in BOOLEAN,
           ReceiveCreate(r, asked, slots)
    PROVE  IInv'
<1> DEFINE chosen == IF asked = {} THEN {w \in Workers : application[w] = "SUITABLE"} ELSE asked
           what == [NoRequest EXCEPT !.workers = chosen \ InvitedKind(slots), !.slots = slots]
<1>1. Arrive(r, "creating", what) /\ UNCHANGED rows
    BY DEF ReceiveCreate
<1>2. what \in Request
    BY DEF NoRequest, Request
<1> HIDE DEF what
<1>3. QED
    BY <1>1, <1>2, LooksIInv, UndisturbedTyped DEF IInv, FlightInv, Arrive, rows, Place, AtCampaign

\* What is written is a status, and only the request's own worker's.
LEMMA ApplyIInv ==
    ASSUME IInv, NEW r \in Requests, LookAtApplication(r) \/ Apply(r) \/ CancelApply(r)
    PROVE  IInv'
<1>1. /\ pc[r] \notin {"idle", "creating"}
      /\ UNCHANGED <<campaign, invitation, cancelled, calm>>
    BY DEF LookAtApplication, Apply, CancelApply, rows
<1>2. WorkerOf(r) \in Workers
    BY <1>1, WorkerFound DEF IInv, FlightInv
<1>3. application' \in [Workers -> JobApplicationStatus \cup {"none"}]
    BY <1>2 DEF LookAtApplication, Apply, CancelApply, rows, IInv, FlightInv, JobApplicationStatus
<1>4. CASE Finish(r)
    BY <1>1, <1>3, <1>4, RequestsTyped, LooksIInv DEF Finish, Place, AtCampaign, IInv, FlightInv
<1>5. CASE ~Finish(r)
  <2> DEFINE what == [By(WorkerOf(r)) EXCEPT !.seen = application[WorkerOf(r)]]
  <2>1. /\ Goto(r, "applying", what)
        /\ application[WorkerOf(r)] \in {"none", "CANCELLED"}
      BY <1>5 DEF LookAtApplication, Apply, CancelApply
  <2>2. what \in Request /\ what.workers \in Singles
      BY <1>2, <2>1, RequestsTyped DEF Request
  <2> HIDE DEF what
  <2>3. QED
      BY <1>1, <1>3, <2>1, <2>2, LooksIInv DEF Place, AtCampaign, IInv, FlightInv
<1>6. QED
    BY <1>4, <1>5

\* Both hand-overs look for a campaign that exists.
LEMMA HandOverIInv ==
    ASSUME IInv, NEW r \in Requests,
           FindCampaign(r) \/ CheckInvited(r) \/ FindSlots(r) \/ CheckInvitedThere(r)
    PROVE  IInv'
<1>1. /\ pc[r] \in {"handing", "checking", "accepted", "checkingSlots"} /\ UNCHANGED rows
      /\ UNCHANGED calm
    BY DEF FindCampaign, CheckInvited, FindSlots, CheckInvitedThere
<1>2. /\ application' \in [Workers -> JobApplicationStatus \cup {"none"}] /\ calm' \in BOOLEAN
      /\ UNCHANGED <<campaign, invitation, cancelled>>
    BY <1>1 DEF rows, IInv, FlightInv
<1>3. req[r] \in Request /\ req[r].workers \in Singles
    BY <1>1 DEF IInv, FlightInv
<1>4. \A S \in SUBSET Created : S # {} => Max(S) \in Created
    BY LatestTyped DEF IInv
<1>5. CASE Finish(r)
    BY <1>2, <1>5, RequestsTyped, LooksIInv DEF Finish, Place, AtCampaign
<1>6. CASE ~Finish(r) /\ (FindCampaign(r) \/ FindSlots(r))
  <2>1. PICK S \in SUBSET Created, place \in {"checking", "checkingSlots"} :
           S # {} /\ Goto(r, place, [req[r] EXCEPT !.campaign = Max(S)])
    <3>1. Active \in SUBSET Created /\ Others(req[r].campaign) \in SUBSET Created
        BY CreatedTyped DEF Others
    <3>2. QED
        BY <1>6, <3>1 DEF FindCampaign, FindSlots
  <2> DEFINE what == [req[r] EXCEPT !.campaign = Max(S)]
  <2>2. what \in Request /\ what.workers \in Singles /\ what.campaign \in Created
      BY <1>3, <1>4, <2>1, CreatedTyped DEF Request
  <2> HIDE DEF what
  <2>3. QED
      BY <1>2, <2>1, <2>2, LooksIInv DEF Place, AtCampaign, what
<1>7. CASE ~Finish(r) /\ (CheckInvited(r) \/ CheckInvitedThere(r))
  <2>1. Goto(r, "adding", req[r]) /\ req[r].campaign \in Created
      BY <1>7 DEF CheckInvited, CheckInvitedThere, IInv, FlightInv, AtCampaign
  <2>2. QED
      BY <1>2, <1>3, <2>1, LooksIInv DEF Place, AtCampaign
<1>8. QED
    BY <1>5, <1>6, <1>7

\* The row is added and the total incremented, or the unique key refuses it.
LEMMA AddWorkerIInv ==
    ASSUME IInv, NEW r \in Requests, AddWorkerToCampaign(r)
    PROVE  IInv'
<1>1. PICK c \in Created, workers \in SUBSET Workers : c = req[r].campaign /\ workers = req[r].workers
    BY DEF AddWorkerToCampaign, IInv, FlightInv, AtCampaign, Request
<1>2. /\ invitation' = [invitation EXCEPT ![c] =
               [w \in Workers |-> IF w \in workers \ Rows(c) THEN "PENDING" ELSE @[w]]]
      /\ campaign' = [campaign EXCEPT ![c].total = @ + Cardinality(workers \ Rows(c))]
      /\ Goto(r, "idle", NoRequest) /\ UNCHANGED <<application, cancelled, calm>>
    BY <1>1 DEF AddWorkerToCampaign, TotalWith, Finish
<1>3. RowsInv' /\ Created' = Created
    BY <1>2, AddRows DEF IInv
<1>4. QED
    BY <1>2, <1>3, RequestMoves, RequestsTyped DEF IInv, FlightInv, Place, AtCampaign

\* The campaign and its rows are written together.
LEMMA CreateCampaignIInv ==
    ASSUME IInv, NEW r \in Requests, CreateCampaign(r)
    PROVE  IInv'
<1>1. PICK c \in Campaigns, workers \in SUBSET Workers, slots \in BOOLEAN :
         c = Cardinality(Created) + 1 /\ workers = req[r].workers /\ slots = req[r].slots
    BY DEF CreateCampaign, IInv, FlightInv, Request
<1>2. /\ campaign' = [campaign EXCEPT ![c] =
            [status |-> "active", slots |-> slots, total |-> Cardinality(workers)]]
      /\ invitation' = [invitation EXCEPT ![c] =
            [w \in Workers |-> IF w \in workers THEN "PENDING" ELSE "none"]]
      /\ Goto(r, "idle", NoRequest) /\ UNCHANGED <<application, cancelled, calm>>
    BY <1>1 DEF CreateCampaign, Finish
<1>3. RowsInv' /\ Created \subseteq Created'
    BY <1>1, <1>2, NewRows DEF IInv
<1>4. QED
    BY <1>2, <1>3, RequestMoves, RequestsTyped DEF IInv, FlightInv, Place, AtCampaign

\* The answers, of which an acceptance is a verdict too.
LEMMA AnswersIInv ==
    ASSUME IInv, NEW c \in Created, NEW w \in Workers,
           \/ AcceptWithSlot(c, w) \/ Reject(c, w)
           \/ \E r \in Requests : AcceptWithoutSlot(r, c, w)
    PROVE  IInv'
<1>1. /\ invitation[c][w] # "none" /\ UNCHANGED <<campaign, cancelled>>
      /\ \E status \in {"ACCEPTED", "REJECTED"} :
            invitation' = [invitation EXCEPT ![c][w] = status]
    BY DEF AcceptWithSlot, AcceptWithoutSlot, Accept, Reject, Live
<1>2. RowsInv' /\ Created' = Created
    BY <1>1, AnswerRows DEF IInv
<1>3. application' \in [Workers -> JobApplicationStatus \cup {"none"}]
    BY DEF AcceptWithSlot, AcceptWithoutSlot, Accept, Reject, IInv, FlightInv, JobApplicationStatus
<1>4. CASE AcceptWithSlot(c, w) \/ Reject(c, w)
    BY <1>2, <1>3, <1>4, FlightStays, UndisturbedTyped
       DEF AcceptWithSlot, Reject, Apart, IInv
<1>5. ASSUME NEW r \in Requests, AcceptWithoutSlot(r, c, w) PROVE IInv'
  <2> DEFINE what == [By(w) EXCEPT !.campaign = c]
  <2>1. Goto(r, "accepted", what) /\ calm' \in BOOLEAN
      BY <1>5, UndisturbedTyped DEF AcceptWithoutSlot, Arrive, IInv
  <2>2. what \in Request /\ what.campaign = c /\ what.workers \in Singles
      BY RequestsTyped, CreatedTyped DEF Request
  <2> HIDE DEF what
  <2>3. QED
      BY <1>2, <1>3, <2>1, <2>2, RequestMoves DEF IInv, Place
<1>6. QED
    BY <1>4, <1>5

\* The employer's other verdicts, and what he does to a campaign.
LEMMA EmployerIInv ==
    ASSUME IInv,
           \/ \E w \in Workers, s \in JobApplicationStatus : UpdateApplicationStatus(w, s)
           \/ \E c \in Created : CancelCampaign(c) \/ ReopenBySending(c)
           \/ \E c \in Created, slots \in BOOLEAN, moved \in SUBSET Workers :
                 UpdateCampaign(c, slots, moved)
    PROVE  IInv'
<1>1. ASSUME NEW w \in Workers, NEW s \in JobApplicationStatus, UpdateApplicationStatus(w, s)
      PROVE  IInv'
  <2>1. application' \in [Workers -> JobApplicationStatus \cup {"none"}]
      BY <1>1 DEF UpdateApplicationStatus, IInv, FlightInv
  <2>2. Undisturbed /\ UNCHANGED <<flight, campaign, invitation, cancelled>>
      BY <1>1 DEF UpdateApplicationStatus, Apart
  <2>3. QED
      BY <2>1, <2>2, RowsStay, FlightStays, UndisturbedTyped DEF IInv
<1>2. ASSUME NEW c \in Created, CancelCampaign(c)
      PROVE  IInv'
  <2>1. RowsInv' /\ Created' = Created
      BY <1>2, CancelRows DEF CancelCampaign, IInv
  <2>2. QED
      BY <1>2, <2>1, FlightStays, UndisturbedTyped DEF CancelCampaign, Apart, IInv, FlightInv
<1>3. ASSUME NEW c \in Created, ReopenBySending(c)
      PROVE  IInv'
  <2>1. RowsInv' /\ Created' = Created
      BY <1>3, ReopenRows DEF ReopenBySending, IInv
  <2>2. QED
      BY <1>3, <2>1, FlightStays, UndisturbedTyped DEF ReopenBySending, Apart, IInv, FlightInv
<1>4. ASSUME NEW c \in Created, NEW slots \in BOOLEAN, NEW moved \in SUBSET Workers,
             UpdateCampaign(c, slots, moved)
      PROVE  IInv'
  <2>1. RowsInv' /\ Created' = Created
      BY <1>4, EditRows DEF UpdateCampaign, IInv
  <2>2. QED
      BY <1>4, <2>1, FlightStays, UndisturbedTyped DEF UpdateCampaign, Apart, IInv, FlightInv
<1>5. QED
    BY <1>1, <1>2, <1>3, <1>4

\* No campaign and no application at first.
LEMMA InitIInv == Init => IInv
<1> SUFFICES ASSUME Init PROVE IInv
    OBVIOUS
<1>1. Created = {} /\ \A c \in Campaigns : Rows(c) = {} /\ campaign[c].total = 0
    BY DEF Init, NoCampaign, Created, Rows
<1>2. \E n \in 0 .. MaxCampaigns : Created = 1 .. n
  <2>1. 0 \in 0 .. MaxCampaigns /\ 1 .. 0 = {}
      BY ApplicationsAssumption
  <2>2. QED
      BY <1>1, <2>1
<1>3. cancelled = {} /\ Cardinality({}) = 0
    BY FS_EmptySet DEF Init
<1>4. /\ campaign \in [Campaigns -> Campaign]
      /\ invitation \in [Campaigns -> [Workers -> InvitationStatus]]
    BY DEF Init, NoCampaign, Campaign, CampaignStatus, InvitationStatus
<1>5. RowsInv
    BY <1>1, <1>2, <1>3, <1>4 DEF RowsInv
<1>6. FlightInv
    BY RequestsTyped DEF Init, FlightInv, Place, AtCampaign
<1>7. QED
    BY <1>5, <1>6 DEF IInv

\* One step per action.
LEMMA NextIInv == IInv /\ [Next]_vars => IInv'
<1> SUFFICES ASSUME IInv, [Next]_vars PROVE IInv'
    OBVIOUS
<1>1. ASSUME NEW r \in Requests, Step(r) PROVE IInv'
    BY <1>1, ApplyIInv, HandOverIInv, AddWorkerIInv, CreateCampaignIInv DEF Step
<1>2. CASE Next
    BY <1>1, <1>2, ArrivalsIInv, ReceiveCreateIInv, AnswersIInv, EmployerIInv DEF Next
<1>3. CASE UNCHANGED vars
    BY <1>3, RowsStay, FlightStays DEF vars, rows, IInv, FlightInv
<1>4. QED
    BY <1>2, <1>3

-----------------------------------------------------------------------------
(* The lists and the statistics agree.                                     *)

\* The list of invited workers has as many entries of a campaign as its total says.
LEMMA ListedRows ==
    ASSUME RowsInv, NEW c \in Campaigns
    PROVE  Cardinality({i \in InvitedWorkersByJob : i[1] = c}) = campaign[c].total
<1> DEFINE listed == {i \in InvitedWorkersByJob : i[1] = c}
<1>1. campaign[c].total = Cardinality(Rows(c))
    BY DEF RowsInv
<1>2. CASE c \in Created
  <2>1. listed = {c} \X Rows(c)
      BY <1>2, RowsFinite DEF InvitedWorkersByJob
  <2>2. IsFiniteSet({c}) /\ Cardinality({c}) = 1 /\ IsFiniteSet(Rows(c)) /\ Cardinality(Rows(c)) \in Nat
      BY FS_Singleton, RowsFinite
  <2>3. Cardinality({c} \X Rows(c)) = Cardinality({c}) * Cardinality(Rows(c))
      BY <2>2, FS_Product
  <2> HIDE DEF listed
  <2>4. Cardinality(listed) = campaign[c].total
      BY <1>1, <2>1, <2>2, <2>3
  <2>5. QED
      BY <2>4 DEF listed
<1>3. CASE c \notin Created
  <2>1. listed = {} /\ Rows(c) = {}
      BY <1>3 DEF InvitedWorkersByJob, RowsInv
  <2>2. QED
      BY <1>1, <2>1
<1>4. QED
    BY <1>2, <1>3

\* The three counts of a campaign that was never cancelled add up to its total, as none of
\* its rows is cancelled.
LEMMA StatsAddUp ==
    ASSUME RowsInv, NEW c \in Created \ cancelled
    PROVE  InStatus(c, "ACCEPTED") + InStatus(c, "REJECTED") + InStatus(c, "PENDING")
              = campaign[c].total
<1> DEFINE In(status) == {w \in Workers : invitation[c][w] = status}
<1>1. \A status : IsFiniteSet(In(status)) /\ Cardinality(In(status)) \in Nat
    BY FS_Subset, FS_CardinalityType, ApplicationsAssumption
<1>2. c \in Campaigns /\ \A w \in Workers : invitation[c][w] \in InvitationStatus \ {"CANCELLED"}
    BY CreatedTyped DEF RowsInv
<1>3. Rows(c) = (In("ACCEPTED") \cup In("REJECTED")) \cup In("PENDING")
    BY <1>2 DEF Rows, InvitationStatus
<1>4. /\ In("ACCEPTED") \cap In("REJECTED") = {}
      /\ (In("ACCEPTED") \cup In("REJECTED")) \cap In("PENDING") = {}
    OBVIOUS
<1> HIDE DEF In
<1>5. /\ IsFiniteSet(In("ACCEPTED") \cup In("REJECTED"))
      /\ Cardinality(In("ACCEPTED") \cup In("REJECTED"))
            = Cardinality(In("ACCEPTED")) + Cardinality(In("REJECTED"))
  <2>1. Cardinality(In("ACCEPTED") \cap In("REJECTED")) = 0
      BY <1>4, FS_EmptySet
  <2>2. /\ IsFiniteSet(In("ACCEPTED") \cup In("REJECTED"))
        /\ Cardinality(In("ACCEPTED") \cup In("REJECTED"))
              = Cardinality(In("ACCEPTED")) + Cardinality(In("REJECTED"))
                   - Cardinality(In("ACCEPTED") \cap In("REJECTED"))
      BY <1>1, FS_Union
  <2>3. QED
      BY <1>1, <2>1, <2>2
<1>6. Cardinality(Rows(c)) = Cardinality(In("ACCEPTED") \cup In("REJECTED")) + Cardinality(In("PENDING"))
  <2>1. Cardinality((In("ACCEPTED") \cup In("REJECTED")) \cap In("PENDING")) = 0
      BY <1>4, FS_EmptySet
  <2>2. Cardinality(Rows(c))
           = Cardinality(In("ACCEPTED") \cup In("REJECTED")) + Cardinality(In("PENDING"))
                - Cardinality((In("ACCEPTED") \cup In("REJECTED")) \cap In("PENDING"))
      BY <1>1, <1>3, <1>5, FS_Union
  <2>3. Cardinality(In("ACCEPTED") \cup In("REJECTED")) \in Nat
      BY <1>5, FS_CardinalityType
  <2>4. QED
      BY <1>1, <2>1, <2>2, <2>3
<1>7. campaign[c].total = Cardinality(Rows(c))
    BY <1>2 DEF RowsInv
<1>8. QED
    BY <1>5, <1>6, <1>7 DEF InStatus, In

\* What the employer's screens show agrees under every overlap - a campaign's total is
\* the number of its invitations, and the statistics of one that was never cancelled
\* account for all of them - and every variable keeps its domain.
THEOREM ApplicationsTypeOK == Spec => []TypeOK
<1>1. ASSUME IInv PROVE TypeOK
  <2>1. \A c \in Campaigns : campaign[c].total = Cardinality({i \in InvitedWorkersByJob : i[1] = c})
      BY <1>1, ListedRows DEF IInv
  <2>2. ASSUME NEW c \in Created \ cancelled
        PROVE  LET stats == CampaignStats(c)
               IN  stats.accepted + stats.rejected + stats.pending = stats.total
      BY <1>1, StatsAddUp DEF IInv, CampaignStats
  <2>4. TotalsMatch
      BY <2>1, <2>2 DEF TotalsMatch
  <2>5. campaign \in [Campaigns -> [status : CampaignStatus, slots : BOOLEAN,
                                    total : 0 .. Cardinality(Workers)]]
    <3>1. \A c \in Campaigns : campaign[c].total \in 0 .. Cardinality(Workers)
      <4>1. Cardinality(Workers) \in Nat
          BY FS_CardinalityType, ApplicationsAssumption
      <4>2. QED
          BY <1>1, <4>1, RowsFinite DEF IInv, RowsInv
    <3>2. QED
        BY <1>1, <3>1 DEF IInv, RowsInv, Campaign
  <2>6. QED
      BY <1>1, <2>4, <2>5 DEF TypeOK, IInv, RowsInv, FlightInv, Request
<1>2. QED
    BY InitIInv, NextIInv, <1>1, PTL DEF Spec

-----------------------------------------------------------------------------
(* Verdicts stand in calm.                                                 *)

\* While nothing overtakes it, a request in progress is the only one, and what it has
\* read of the application it is going to write is still so.
Fresh(r) ==
    \A w \in Workers :
        req[r].workers = {w} =>
            /\ pc[r] = "applying" => application[w] = req[r].seen
            /\ pc[r] = "withdrawing" => application[w] \in Withdrawable
CalmOrder ==
    calm => \A r \in InFlight : (\A q \in Requests \ {r} : pc[q] = "idle") /\ Fresh(r)

\* A request that goes on keeps the order of the calm if what it now holds is so.
LEMMA GoesOn ==
    ASSUME FlightInv, NEW r \in Requests, NEW place \in Place, NEW what \in Request,
           Goto(r, place, what),
           calm' => /\ \A q \in Requests \ {r} : pc[q] = "idle"
                    /\ \A w \in Workers :
                          what.workers = {w} =>
                              /\ place = "applying" => application'[w] = what.seen
                              /\ place = "withdrawing" => application'[w] \in Withdrawable
    PROVE  CalmOrder'
<1> SUFFICES ASSUME calm' PROVE CalmOrder'
    BY DEF CalmOrder
<1>1. /\ pc'[r] = place /\ req'[r] = what
      /\ \A q \in Requests \ {r} : pc'[q] = "idle"
    BY GotoFlight
<1>2. InFlight' \subseteq {r} /\ Fresh(r)'
    BY <1>1 DEF InFlight, Fresh
<1>3. QED
    BY <1>1, <1>2 DEF CalmOrder

\* A step beside the requests ends the calm if one is in progress, and needs nothing if none is.
LEMMA ComesApart == ASSUME Undisturbed, UNCHANGED flight PROVE CalmOrder'
    BY DEF Undisturbed, flight, CalmOrder, InFlight

\* A request that arrives is the only one, or ends the calm.
LEMMA ArrivesAlone ==
    ASSUME NEW r \in Requests, NEW place, NEW what, Arrive(r, place, what)
    PROVE  /\ Goto(r, place, what)
           /\ calm' => \A q \in Requests \ {r} : pc[q] = "idle"
    BY DEF Arrive, Undisturbed, InFlight

\* In calm the request whose turn it is is the only one, and what it has read is so.
LEMMA TurnCalm ==
    ASSUME CalmOrder, NEW r \in Requests, pc[r] # "idle", UNCHANGED calm
    PROVE  calm' => (\A q \in Requests \ {r} : pc[q] = "idle") /\ Fresh(r)
    BY DEF CalmOrder, InFlight

\* The order of the calm, from the start and over every step.
LEMMA CalmInductive ==
    /\ Init => CalmOrder
    /\ IInv /\ CalmOrder /\ [Next]_vars => CalmOrder'
<1>1. Init => CalmOrder
    BY DEF Init, CalmOrder, InFlight
<1> SUFFICES ASSUME IInv, CalmOrder, [Next]_vars PROVE CalmOrder'
    BY <1>1
<1>2. ASSUME NEW r \in Requests, Step(r) PROVE CalmOrder'
  <2>1. pc[r] # "idle" /\ UNCHANGED calm /\ req[r] \in Request
      BY <1>2 DEF Step, LookAtApplication, Apply, CancelApply, FindCampaign, CheckInvited,
                  AddWorkerToCampaign, FindSlots, CheckInvitedThere, CreateCampaign, IInv, FlightInv
  <2>2. calm' => \A q \in Requests \ {r} : pc[q] = "idle"
      BY <2>1, TurnCalm
  <2>3. CASE Finish(r)
      BY <2>2, <2>3, GoesOn, RequestsTyped DEF Finish, Place, IInv
  <2>4. CASE LookAtApplication(r) /\ ~Finish(r)
    <3> DEFINE w == WorkerOf(r)
               what == [By(w) EXCEPT !.seen = application[w]]
    <3>1. /\ Goto(r, "applying", what) /\ UNCHANGED application
          /\ application[w] \in {"none", "CANCELLED"} /\ w \in Workers
        BY <2>4, WorkerFound DEF LookAtApplication, rows, IInv, FlightInv
    <3>2. what \in Request /\ what.workers = {w} /\ what.seen = application[w]
        BY <3>1, RequestsTyped DEF Request, By, NoRequest
    <3> HIDE DEF what
    <3>3. \A v \in Workers : what.workers = {v} => v = w
        BY <3>2
    <3>4. QED
        BY <2>2, <3>1, <3>2, <3>3, GoesOn DEF Place, IInv
  <2>5. CASE ~LookAtApplication(r) /\ ~Finish(r)
    <3>1. PICK place \in {"checking", "adding", "checkingSlots"}, what \in Request :
             Goto(r, place, what)
      <4>1. CASE FindCampaign(r)
        <5>1. Goto(r, "checking", [req[r] EXCEPT !.campaign = Max(Active)]) /\ Active # {}
            BY <2>5, <4>1 DEF FindCampaign
        <5>2. QED
            BY <2>1, <5>1, LatestTyped, CreatedTyped DEF Request, IInv
      <4>2. CASE FindSlots(r)
        <5> DEFINE found == Others(req[r].campaign)
        <5>1. /\ Goto(r, "checkingSlots", [req[r] EXCEPT !.campaign = Max(found)])
              /\ found # {} /\ found \in SUBSET Created
            BY <2>5, <4>2, CreatedTyped DEF FindSlots, Others
        <5>2. QED
            BY <2>1, <5>1, LatestTyped, CreatedTyped DEF Request, IInv
      <4>3. CASE CheckInvited(r) \/ CheckInvitedThere(r)
          BY <2>1, <2>5, <4>3 DEF CheckInvited, CheckInvitedThere
      <4>4. QED
          BY <1>2, <2>5, <4>1, <4>2, <4>3 DEF Step, Apply, CancelApply, AddWorkerToCampaign, CreateCampaign
    <3>2. QED
        BY <2>2, <3>1, GoesOn DEF Place, IInv
  <2>6. QED
      BY <2>3, <2>4, <2>5
<1>3. ASSUME NEW r \in Requests, NEW w \in Workers,
             ReceiveApply(r, w) \/ ReceiveCancel(r, w) \/ MarkSuitable(r, w)
      PROVE  CalmOrder'
  <2>1. By(w) \in Request /\ \A v \in Workers : By(w).workers = {v} => v = w
      BY RequestsTyped DEF By, NoRequest
  <2>2. CASE ReceiveCancel(r, w)
    <3>1. application'[w] \in Withdrawable /\ Arrive(r, "withdrawing", By(w))
        BY <2>2 DEF ReceiveCancel, rows
    <3>2. QED
        BY <2>1, <3>1, ArrivesAlone, GoesOn DEF Place, IInv
  <2>3. CASE ReceiveApply(r, w) \/ MarkSuitable(r, w)
    <3>1. \E place \in {"looking", "handing"} : Arrive(r, place, By(w))
        BY <2>3 DEF ReceiveApply, MarkSuitable
    <3>2. QED
        BY <2>1, <3>1, ArrivesAlone, GoesOn DEF Place, IInv
  <2>4. QED
      BY <1>3, <2>2, <2>3
<1>4. ASSUME NEW r \in Requests, NEW w \in Workers, NEW c \in Created, AcceptWithoutSlot(r, c, w)
      PROVE  CalmOrder'
  <2> DEFINE what == [By(w) EXCEPT !.campaign = c]
  <2>1. Arrive(r, "accepted", what) /\ what \in Request
      BY <1>4, RequestsTyped, CreatedTyped DEF AcceptWithoutSlot, Request
  <2> HIDE DEF what
  <2>2. QED
      BY <2>1, ArrivesAlone, GoesOn DEF Place, IInv
<1>5. ASSUME NEW r \in Requests, NEW asked \in SUBSET Workers, NEW slots \in BOOLEAN,
             ReceiveCreate(r, asked, slots)
      PROVE  CalmOrder'
  <2> DEFINE chosen == IF asked = {} THEN {w \in Workers : application[w] = "SUITABLE"} ELSE asked
             what == [NoRequest EXCEPT !.workers = chosen \ InvitedKind(slots), !.slots = slots]
  <2>1. Arrive(r, "creating", what) /\ what \in Request
      BY <1>5 DEF ReceiveCreate, NoRequest, Request
  <2> HIDE DEF what
  <2>2. QED
      BY <2>1, ArrivesAlone, GoesOn DEF Place, IInv
<1>6. ASSUME \/ \E w \in Workers, s \in JobApplicationStatus : UpdateApplicationStatus(w, s)
             \/ \E w \in Workers, c \in Created : AcceptWithSlot(c, w) \/ Reject(c, w)
             \/ \E c \in Created : CancelCampaign(c) \/ ReopenBySending(c)
             \/ \E c \in Created, slots \in BOOLEAN, moved \in SUBSET Workers :
                   UpdateCampaign(c, slots, moved)
      PROVE  CalmOrder'
    BY <1>6, ComesApart DEF UpdateApplicationStatus, AcceptWithSlot, Reject, CancelCampaign,
                            ReopenBySending, UpdateCampaign, Apart
<1>7. CASE UNCHANGED vars
    BY <1>7 DEF vars, rows, flight, CalmOrder, InFlight, Fresh
<1>8. QED
    BY <1>2, <1>3, <1>4, <1>5, <1>6, <1>7 DEF Next

\* No withdrawal and no second application lands on a verdict in calm.
THEOREM ApplicationsVerdictStands == Spec => VerdictStands
<1>1. ASSUME IInv, CalmOrder, [Next]_vars, calm', flight' # flight,
             NEW w \in Workers, application[w] \in Processed
      PROVE  application'[w] \in Processed
  <2>1. CASE UNCHANGED application
      BY <1>1, <2>1
  <2>2. CASE \E r \in Requests, v \in Workers : MarkSuitable(r, v)
      BY <1>1, <2>2 DEF MarkSuitable, Processed, IInv, FlightInv
  <2>3. CASE \E r \in Requests, v \in Workers, c \in Created : AcceptWithoutSlot(r, c, v)
      BY <1>1, <2>3 DEF AcceptWithoutSlot, Accept, Processed, IInv, FlightInv
  <2>4. ASSUME NEW r \in Requests, Apply(r) \/ CancelApply(r)
        PROVE  application'[w] \in Processed
    <3>1. /\ pc[r] \in {"applying", "withdrawing"} /\ UNCHANGED calm
          /\ \A v \in Workers : v # WorkerOf(r) => application'[v] = application[v]
      <4>1. application \in [Workers -> JobApplicationStatus \cup {"none"}]
          BY <1>1 DEF IInv, FlightInv
      <4>2. CASE Apply(r)
          BY <4>1, <4>2 DEF Apply
      <4>3. CASE CancelApply(r)
          BY <4>1, <4>3 DEF CancelApply
      <4>4. QED
          BY <2>4, <4>2, <4>3
    <3>2. Fresh(r) /\ WorkerOf(r) \in Workers /\ req[r].workers = {WorkerOf(r)}
        BY <1>1, <3>1, TurnCalm, WorkerFound DEF IInv, FlightInv
    <3>3. application[WorkerOf(r)] \notin Processed
        BY <1>1, <3>1, <3>2 DEF Fresh, Withdrawable, Processed, IInv, FlightInv, Request
    <3>4. QED
        BY <1>1, <3>1, <3>3
  <2>5. ASSUME ~UNCHANGED application,
               ~(\E r \in Requests, v \in Workers : MarkSuitable(r, v)),
               ~(\E r \in Requests, v \in Workers, c \in Created : AcceptWithoutSlot(r, c, v))
        PROVE  \E r \in Requests : Apply(r) \/ CancelApply(r)
      BY <1>1, <2>5 DEF Next, Step, vars, rows, ReceiveApply, ReceiveCancel, ReceiveCreate,
             LookAtApplication, FindCampaign, CheckInvited, AddWorkerToCampaign, FindSlots,
             CheckInvitedThere, CreateCampaign, UpdateApplicationStatus, AcceptWithSlot, Reject,
             CancelCampaign, ReopenBySending, UpdateCampaign, Apart
  <2>6. QED
      BY <2>1, <2>2, <2>3, <2>4, <2>5
<1>2. ASSUME IInv, CalmOrder, [Next]_vars
      PROVE  [\A w \in Workers :
                 calm' /\ flight' # flight /\ application[w] \in Processed
                     => application'[w] \in Processed]_vars
    BY <1>1, <1>2
<1>3. QED
    BY InitIInv, NextIInv, CalmInductive, <1>2, PTL DEF Spec, VerdictStands

=============================================================================
