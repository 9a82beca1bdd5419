--------------------------- MODULE InterviewBooking ---------------------------
(***************************************************************************)
(* The slots of one interview campaign: workers accept, move between slots *)
(* and reject, while the employer edits or cancels the campaign and other  *)
(* services add workers to it.                                             *)
(*                                                                         *)
(* A worker's answer is judged on a read made before its transaction, the  *)
(* transaction reads the invitation and the slot again, reserves the seat  *)
(* by a compare-and-set on bookedCount, and the campaign's counters are    *)
(* refreshed after the commit by a read and a separate write.  The         *)
(* employer's transaction works on a copy of the campaign read before it.  *)
(***************************************************************************)
EXTENDS Integers, FiniteSets

CONSTANTS
    Invitations,    \* invitations (one worker each) the campaign may have
    Tabs,           \* the answers a worker can have in progress at once
    Slots,          \* interview slots the campaign may have
    NoSlot,         \* selectedSlotId = null
    Employer,       \* the request of the company's manager
    MaxCapacity,    \* bound on a slot's capacity
    Horizon,        \* bound on the clock
    LastTime,       \* bound on the times a campaign may name
    MaxTimers,      \* bound on the timers sendCampaign has left running
    MaxEdits,       \* bound on the manager's requests
    MaxFaults,      \* bound on requests that fail half-way
    EditsOverlap    \* whether the manager's request overlaps answers

ASSUME BookingAssumption ==
    /\ IsFiniteSet(Invitations)
    /\ NoSlot \notin Slots
    /\ Employer \notin Invitations \X Tabs
    /\ MaxCapacity \in Nat \ {0}
    /\ Horizon \in Nat /\ LastTime \in Nat
    /\ MaxTimers \in Nat
    /\ MaxEdits \in Nat
    /\ MaxFaults \in Nat
    /\ EditsOverlap \in BOOLEAN

VARIABLES
    status,         \* InterviewInvitation.status, "none" before the row exists
    chosen,         \* InterviewInvitation.selectedSlotId
    open,           \* the slot rows that exist
    deleted,        \* ids of the slot rows deleted
    startAt,        \* InterviewInvitationSlot.startAt
    capacity,       \* InterviewInvitationSlot.capacity
    booked,         \* InterviewInvitationSlot.bookedCount
    expiresAt,      \* campaign.expiresAt
    cancelled,      \* campaign.status = CANCELLED
    sending,        \* status writes sendCampaign's timer still owes
    counts,         \* campaign.pendingCount, acceptedCount, rejectedCount
    now,            \* the clock
    pc,             \* where each request stands
    req,            \* what a worker's request says and has read
    edit,           \* what the manager's request has read
    tally,          \* counts a request has computed and not yet written
    edits,          \* manager's requests so far
    faults          \* failed requests so far

invitationRows == <<status, chosen>>
slotRows       == <<open, deleted, startAt, capacity, booked>>
campaignRow    == <<expiresAt, cancelled, sending>>
bounds         == <<edits, faults>>
vars == <<invitationRows, slotRows, campaignRow, counts, now, pc, req, edit, tally, bounds>>

-----------------------------------------------------------------------------
Requests   == Invitations \X Tabs
Procs      == Requests \cup {Employer}
Inv(r)     == r[1]
Times      == 0..LastTime
Status     == {"none", "PENDING", "ACCEPTED", "REJECTED", "CANCELLED"}
Answerable == {"PENDING", "ACCEPTED", "REJECTED"}
Choice     == Slots \cup {NoSlot}
Counts     == [pending : Int, accepted : Int, rejected : Int]

\* late: received after the deadline (kept for NoLateBooking only).
Request == [answer : {"ACCEPTED", "REJECTED"}, target : Choice, deadline : Times,
            late : BOOLEAN, status : Status, slot : Choice, booked : Int]
Copy    == [status : [Invitations -> Status], chosen : [Invitations -> Choice],
            open : SUBSET Slots, startAt : [Slots -> Times]]

NoRequest == [answer |-> "REJECTED", target |-> NoSlot, deadline |-> 0,
              late |-> FALSE, status |-> "none", slot |-> NoSlot, booked |-> 0]
NoCopy    == [status |-> [i \in Invitations |-> "none"],
              chosen |-> [i \in Invitations |-> NoSlot],
              open |-> {}, startAt |-> [s \in Slots |-> 0]]
NoCounts  == [pending |-> 0, accepted |-> 0, rejected |-> 0]

Holders(s) == {i \in Invitations : chosen[i] = s}
Invited    == {i \in Invitations : status[i] # "none"}
Having(st) == Cardinality({i \in Invitations : status[i] = st})
CountsNow  == [pending |-> Having("PENDING"), accepted |-> Having("ACCEPTED"),
               rejected |-> Having("REJECTED")]
CopyNow    == [status |-> status, chosen |-> chosen, open |-> open, startAt |-> startAt]
Answering  == {r \in Requests : pc[r] # "idle"}

\* createCampaign has returned: the campaign it sent is IN_PROGRESS and owes the
\* COMPLETED write of its timer, or its sending failed and it is still a draft.  A
\* campaign created with nobody to invite is one of these after its first AddWorker.
Init ==
    /\ open \in (SUBSET Slots) \ {{}}
    /\ deleted = {}
    /\ startAt \in [Slots -> Times] /\ capacity \in [Slots -> 1..MaxCapacity]
    /\ expiresAt \in Times
    /\ \A s \in open : expiresAt < startAt[s]
    /\ \A s \in Slots \ open : startAt[s] = 0 /\ capacity[s] = 1
    /\ booked = [s \in Slots |-> 0]
    /\ \E invited \in (SUBSET Invitations) \ {{}} :
          status = [i \in Invitations |-> IF i \in invited THEN "PENDING" ELSE "none"]
    /\ chosen = [i \in Invitations |-> NoSlot]
    /\ counts = CountsNow
    /\ cancelled = FALSE
    /\ sending \in 0..MaxTimers
    /\ now = 0
    /\ pc = [p \in Procs |-> "idle"]
    /\ req = [r \in Requests |-> NoRequest]
    /\ edit = NoCopy
    /\ tally = [p \in Procs |-> NoCounts]
    /\ edits = 0 /\ faults = 0

-----------------------------------------------------------------------------
(* A worker's answer: respondToInvitation.                                 *)

\* The checks before the transaction, on an invitation read outside it.
MayAnswer(i, answer, target) ==
    /\ status[i] \in Answerable
    /\ now > expiresAt => status[i] = "ACCEPTED"
    /\ status[i] = "REJECTED" => answer = "ACCEPTED"
    /\ (answer = "ACCEPTED" /\ target = NoSlot) => open = {}

\* A refused answer changes nothing, so only an admitted one is a step.
ReceiveAnswer(r, answer, target) ==
    /\ pc[r] = "idle"
    /\ EditsOverlap \/ pc[Employer] = "idle"
    /\ target # NoSlot => answer = "ACCEPTED" /\ target \in open \cup deleted
    /\ MayAnswer(Inv(r), answer, target)
    /\ pc' = [pc EXCEPT ![r] = "judged"]
    /\ req' = [req EXCEPT ![r] = [NoRequest EXCEPT !.answer = answer, !.target = target,
                                     !.deadline = expiresAt, !.late = now > expiresAt]]
    /\ UNCHANGED <<invitationRows, slotRows, campaignRow, counts, now, edit, tally, bounds>>

\* The transaction reads the invitation; only an acceptance looks at its status.
ReadInvitation(r) ==
    /\ pc[r] = "judged"
    /\ IF req[r].answer = "ACCEPTED" => status[Inv(r)] \in Answerable
       THEN /\ pc' = [pc EXCEPT ![r] = IF req[r].target = NoSlot THEN "ready" ELSE "seen"]
            /\ req' = [req EXCEPT ![r].status = status[Inv(r)], ![r].slot = chosen[Inv(r)]]
       ELSE /\ pc' = [pc EXCEPT ![r] = "idle"]
            /\ req' = [req EXCEPT ![r] = NoRequest]
    /\ UNCHANGED <<invitationRows, slotRows, campaignRow, counts, now, edit, tally, bounds>>

Moves(r) == req[r].target \notin {NoSlot, req[r].slot}

LateMoveAllowed(r) ==                                             \* mutant
    /\ startAt[req[r].target] > now
    /\ booked[req[r].target] < capacity[req[r].target]
SeatFree(r) ==
    /\ ~(req[r].status = "ACCEPTED" /\ now >= req[r].deadline)
    /\ startAt[req[r].target] > now
    /\ booked[req[r].target] < capacity[req[r].target]

\* It then reads the slot it was asked for.
ReadSlot(r) ==
    /\ pc[r] = "seen"
    /\ IF req[r].target \in open /\ (Moves(r) => SeatFree(r))
       THEN /\ pc' = [pc EXCEPT ![r] = "ready"]
            /\ req' = [req EXCEPT ![r].booked = booked[req[r].target]]
       ELSE /\ pc' = [pc EXCEPT ![r] = "idle"]
            /\ req' = [req EXCEPT ![r] = NoRequest]
    /\ UNCHANGED <<invitationRows, slotRows, campaignRow, counts, now, edit, tally, bounds>>

\* The updateMany that gives a seat back: at most down to zero.
Released(s, n) == IF s \in open /\ booked[s] >= n THEN [booked EXCEPT ![s] = @ - n] ELSE booked

ReservedBlindly(r) == TRUE                                        \* mutant
Reserved(r) == booked[req[r].target] = req[r].booked

OldSeatKept(r) == [booked EXCEPT ![req[r].target] = @ + 1]        \* mutant
NewSeatUncounted(r) == Released(req[r].slot, 1)                   \* mutant
SeatsMoved(r) == [Released(req[r].slot, 1) EXCEPT ![req[r].target] = @ + 1]

SlotGone(r) == FALSE                                              \* mutant
SlotMissing(r) == req[r].target \notin open \cup {NoSlot}

\* Its writes: the compare-and-set, the release of the old seat, and the
\* invitation, which is overwritten without a condition (but its slot must
\* exist: a foreign key).  The JobApplication row is left out.
Accept(r) ==
    /\ pc[r] = "ready" /\ req[r].answer = "ACCEPTED"
    /\ ~SlotMissing(r)
    /\ Moves(r) => Reserved(r)
    /\ booked' = IF Moves(r) THEN SeatsMoved(r) ELSE booked
    /\ status' = [status EXCEPT ![Inv(r)] = "ACCEPTED"]
    /\ chosen' = [chosen EXCEPT ![Inv(r)] = req[r].target]
    /\ pc' = [pc EXCEPT ![r] = "committed"]
    /\ req' = [req EXCEPT ![r] = NoRequest]
    /\ UNCHANGED <<open, deleted, startAt, capacity, campaignRow, counts, now, edit, tally, bounds>>

\* Another reservation came between, or the slot is gone: all is rolled back.
AcceptRefused(r) ==
    /\ pc[r] = "ready" /\ req[r].answer = "ACCEPTED"
    /\ \/ SlotMissing(r)
       \/ Moves(r) /\ ~Reserved(r)
    /\ pc' = [pc EXCEPT ![r] = "idle"]
    /\ req' = [req EXCEPT ![r] = NoRequest]
    /\ UNCHANGED <<invitationRows, slotRows, campaignRow, counts, now, edit, tally, bounds>>

SeatsAfterReject(r) == Released(req[r].slot, 1)

\* A rejection releases the seat it has read and overwrites the invitation.
Reject(r) ==
    /\ pc[r] = "ready" /\ req[r].answer = "REJECTED"
    /\ booked' = SeatsAfterReject(r)
    /\ status' = [status EXCEPT ![Inv(r)] = "REJECTED"]
    /\ chosen' = [chosen EXCEPT ![Inv(r)] = NoSlot]
    /\ pc' = [pc EXCEPT ![r] = "committed"]
    /\ req' = [req EXCEPT ![r] = NoRequest]
    /\ UNCHANGED <<open, deleted, startAt, capacity, campaignRow, counts, now, edit, tally, bounds>>

-----------------------------------------------------------------------------
(* updateCampaignStats: a read of all invitations, then a write.           *)

ReadStats(p) ==
    /\ pc[p] = "committed"
    /\ pc' = [pc EXCEPT ![p] = "counted"]
    /\ tally' = [tally EXCEPT ![p] = CountsNow]
    /\ UNCHANGED <<invitationRows, slotRows, campaignRow, counts, now, req, edit, bounds>>

WriteStats(p) ==
    /\ pc[p] = "counted"
    /\ counts' = tally[p]
    /\ pc' = [pc EXCEPT ![p] = "idle"]
    /\ tally' = [tally EXCEPT ![p] = NoCounts]
    /\ UNCHANGED <<invitationRows, slotRows, campaignRow, now, req, edit, bounds>>

-----------------------------------------------------------------------------
(* The manager's requests: updateCampaign and cancelCampaign.              *)

\* Both read the campaign, its slots and its invitations outside a transaction.
ReadCampaign ==
    /\ pc[Employer] = "idle"
    /\ edits < MaxEdits
    /\ EditsOverlap \/ Answering = {}
    /\ ~cancelled
    /\ pc' = [pc EXCEPT ![Employer] = "judged"]
    /\ edit' = CopyNow
    /\ edits' = edits + 1
    /\ UNCHANGED <<invitationRows, slotRows, campaignRow, counts, now, req, tally, faults>>

\* The slots a request changes: it names other times, or another place.
Changed(kept, moved, newStart) == moved \cup {s \in kept : newStart[s] # edit.startAt[s]}

\* The invitations whose slot, in the copy, is changed or deleted.
ToReset(kept, moved, newStart) ==
    {i \in Invitations :
        edit.chosen[i] \in (edit.open \ kept) \cup Changed(kept, moved, newStart)}
ResetOn(reset, s) == Cardinality({i \in reset : edit.chosen[i] = s})
ResetAccepted(reset) == Cardinality({i \in reset : edit.status[i] = "ACCEPTED"})

OnlyPendingAdded(n) == [counts EXCEPT !.pending = @ + n]          \* mutant
CountsAfterReset(n) == [pending |-> counts.pending + n, accepted |-> counts.accepted - n,
                        rejected |-> counts.rejected]

\* kept: the slots the request names (those it leaves out are deleted, all of
\* them when it names none); moved: kept slots with a new place or end at the old
\* start; added: slots it creates.  Invitations are reset from the copy, whatever they have
\* become; deleting a slot also clears it from those that hold it now.
UpdateCampaign(kept, moved, added, newStart, newCapacity, newDeadline) ==
    LET gone  == edit.open \ kept
        reset == ToReset(kept, moved, newStart)
    IN
    /\ pc[Employer] = "judged"
    /\ expiresAt' = newDeadline
    /\ open' = kept \cup added
    /\ deleted' = deleted \cup gone
    /\ startAt' = [s \in Slots |-> IF s \in kept \cup added THEN newStart[s] ELSE 0]
    /\ capacity' = [s \in Slots |-> IF s \in kept \cup added THEN newCapacity[s] ELSE 1]
    /\ booked' = [s \in Slots |-> IF s \in kept THEN booked[s] - ResetOn(reset, s) ELSE 0]
    /\ status' = [i \in Invitations |-> IF i \in reset THEN "PENDING" ELSE status[i]]
    /\ chosen' = [i \in Invitations |->
                    IF i \in reset \/ chosen[i] \in gone THEN NoSlot ELSE chosen[i]]
    /\ counts' = CountsAfterReset(ResetAccepted(reset))
    /\ pc' = [pc EXCEPT ![Employer] = "idle"]
    /\ edit' = NoCopy
    /\ UNCHANGED <<cancelled, sending, now, req, tally, bounds>>

InCopy(s) == Cardinality({i \in Invitations :
                            edit.status[i] = "ACCEPTED" /\ edit.chosen[i] = s})
SeatsAfterCancel == [s \in Slots |->
                        IF booked[s] >= InCopy(s) THEN booked[s] - InCopy(s) ELSE booked[s]]

\* The invitations that are PENDING or ACCEPTED now are cancelled, but the
\* seats given back are those of the copy.
CancelCampaign ==
    /\ pc[Employer] = "judged"
    /\ cancelled' = TRUE
    /\ LET live == IF \E i \in Invitations : edit.status[i] \in {"PENDING", "ACCEPTED"}
                   THEN {i \in Invitations : status[i] \in {"PENDING", "ACCEPTED"}}
                   ELSE {}
       IN /\ status' = [i \in Invitations |-> IF i \in live THEN "CANCELLED" ELSE status[i]]
          /\ chosen' = [i \in Invitations |-> IF i \in live THEN NoSlot ELSE chosen[i]]
    /\ booked' = SeatsAfterCancel
    /\ pc' = [pc EXCEPT ![Employer] = "committed"]
    /\ edit' = NoCopy
    /\ UNCHANGED <<open, deleted, startAt, capacity, expiresAt, sending, counts, now,
                   req, tally, bounds>>

-----------------------------------------------------------------------------
(* The rest of the program, failures, and time.                            *)

\* Five seconds after the sending, sendCampaign's timer writes COMPLETED without
\* looking at the status.
SendTimerFires ==
    /\ sending > 0
    /\ sending' = sending - 1
    /\ cancelled' = FALSE
    /\ UNCHANGED <<invitationRows, slotRows, expiresAt, counts, now, pc, req, edit, tally, bounds>>

\* An applicant found suitable, or one who accepts a slot-less invitation for
\* the same job, is added to the campaign, which was not cancelled when it was
\* looked up but may be by now; the unique key refuses a second invitation.
AddWorker(i) ==
    /\ status[i] = "none"
    /\ status' = [status EXCEPT ![i] = "PENDING"]
    /\ counts' = [counts EXCEPT !.pending = @ + 1]
    /\ UNCHANGED <<chosen, slotRows, campaignRow, now, pc, req, edit, tally, bounds>>

\* A database call throws (a deadlock between two moves is one reason) or the
\* server dies: an open transaction rolls back, a committed one stays.
RequestFails(p) ==
    /\ pc[p] # "idle"
    /\ faults < MaxFaults
    /\ faults' = faults + 1
    /\ pc' = [pc EXCEPT ![p] = "idle"]
    /\ req' = [r \in Requests |-> IF r = p THEN NoRequest ELSE req[r]]
    /\ edit' = IF p = Employer THEN NoCopy ELSE edit
    /\ tally' = [tally EXCEPT ![p] = NoCounts]
    /\ UNCHANGED <<invitationRows, slotRows, campaignRow, counts, now, edits>>

Tick ==
    /\ now < Horizon
    /\ now' = now + 1
    /\ UNCHANGED <<invitationRows, slotRows, campaignRow, counts, pc, req, edit, tally, bounds>>

Next ==
    \/ \E r \in Requests :
          \/ \E answer \in {"ACCEPTED", "REJECTED"}, target \in Choice :
                ReceiveAnswer(r, answer, target)
          \/ ReadInvitation(r)
          \/ ReadSlot(r)
          \/ Accept(r)
          \/ AcceptRefused(r)
          \/ Reject(r)
    \/ \E p \in Procs : ReadStats(p) \/ WriteStats(p) \/ RequestFails(p)
    \/ ReadCampaign
    \/ \E kept \in SUBSET edit.open, added \in SUBSET (Slots \ (open \cup deleted)) :
          \E newStart \in [kept \cup added -> Times],
             newCapacity \in [kept \cup added -> 1..MaxCapacity], newDeadline \in Times :
             \E moved \in SUBSET {s \in kept : newStart[s] = edit.startAt[s]} :
                UpdateCampaign(kept, moved, added, newStart, newCapacity, newDeadline)
    \/ CancelCampaign
    \/ SendTimerFires
    \/ \E i \in Invitations : AddWorker(i)
    \/ Tick

Spec == Init /\ [][Next]_vars

-----------------------------------------------------------------------------
(* What the lists show.                                                    *)

\* getInvitationsForWorker shows a PENDING invitation as EXPIRED after the
\* deadline, and for each slot the seats that its invitations leave;
\* getCampaignsForCompany shows how many there are.
ShownStatus(i) == IF status[i] = "PENDING" /\ now > expiresAt THEN "EXPIRED" ELSE status[i]
ShownBooked(s) == Cardinality(Holders(s))
RemainingSeats(s) == IF capacity[s] > ShownBooked(s) THEN capacity[s] - ShownBooked(s) ELSE 0
CompanySlots == {[slot |-> s, booked |-> ShownBooked(s)] : s \in open}

\* getPendingInvitationsStatus: what a worker is said to have to answer.
PendingKind(i) ==
    IF status[i] # "PENDING" \/ now >= expiresAt THEN "none"
    ELSE IF open = {} THEN "job"
    ELSE IF \E s \in open : startAt[s] > now THEN "interview" ELSE "none"

-----------------------------------------------------------------------------
(* Properties.                                                             *)

\* Every variable stays in its domain; bookedCount never goes below zero,
\* although updateCampaign decrements it without a guard.
TypeOK ==
    /\ status \in [Invitations -> Status]
    /\ chosen \in [Invitations -> Choice]
    /\ open \in SUBSET Slots /\ deleted \in SUBSET Slots
    /\ startAt \in [Slots -> Times]
    /\ capacity \in [Slots -> 1..MaxCapacity]
    /\ booked \in [Slots -> Nat]
    /\ expiresAt \in Times /\ now \in 0..Horizon
    /\ cancelled \in BOOLEAN /\ sending \in 0..MaxTimers
    /\ counts \in Counts
    /\ pc \in [Procs -> {"idle", "judged", "seen", "ready", "committed", "counted"}]
    /\ req \in [Requests -> Request]
    /\ edit \in Copy
    /\ tally \in [Procs -> Counts]
    /\ edits \in 0..MaxEdits /\ faults \in 0..MaxFaults

\* bookedCount is the number of invitations that hold the slot, for every slot
\* row, although six statements in four handlers adjust it by one or by a sum.
SeatsCounted == \A s \in open : booked[s] = Cardinality(Holders(s))

\* The lists, which count invitations, agree with the answers, which are judged
\* by bookedCount and the clock: an invitation shown as EXPIRED admits no answer,
\* one that is said to wait for an answer can be accepted, and a slot is shown
\* with seats exactly while its compare-and-set could give one.
ListsAgree ==
    /\ \A row \in CompanySlots : row.booked = booked[row.slot]
    /\ \A s \in open : RemainingSeats(s) > 0 <=> booked[s] < capacity[s]
    /\ \A i \in Invitations :
          /\ ShownStatus(i) = "EXPIRED" =>
                \A answer \in {"ACCEPTED", "REJECTED"}, target \in Choice :
                   ~MayAnswer(i, answer, target)
          /\ PendingKind(i) = "job" => MayAnswer(i, "ACCEPTED", NoSlot)
          /\ PendingKind(i) = "interview" =>
                \E s \in open : startAt[s] > now /\ MayAnswer(i, "ACCEPTED", s)
          /\ PendingKind(i) # "none" => ShownStatus(i) = "PENDING"

\* Only an accepted invitation holds a seat, and only on a slot that exists.
SeatedAreAccepted ==
    \A i \in Invitations : chosen[i] # NoSlot => status[i] = "ACCEPTED" /\ chosen[i] \in open

\* An answer that arrives after the campaign's deadline never puts the worker
\* on a slot: the check before the transaction and the one in it together
\* leave no gap.
NoLateBooking ==
    [][\A i \in Invitations : chosen'[i] \notin {chosen[i], NoSlot} =>
          \E t \in Tabs : pc[<<i, t>>] = "ready" /\ ~req[<<i, t>>].late]_vars

\* The campaign's counters never claim more invitations than it has, in
\* whatever order the refreshes, the edits and the additions of workers land.
CountersWithinTotal ==
    counts.pending + counts.accepted + counts.rejected <= Cardinality(Invited)

\* The campaign is a SeatPlan: nobody takes a seat in a slot that is full.
Plan == INSTANCE SeatPlan WITH
    Candidates <- Invitations, seat <- chosen, room <- capacity
ImplementsSeatPlan == Plan!Spec

\* A slot never has more candidates than its capacity, as long as the manager
\* does not change it (create-campaign-slot.request.dto.ts: the capacity is the
\* "maximum number of candidates for the slot").
WithinCapacity == \A s \in open : Cardinality(Holders(s)) <= capacity[s]
=============================================================================
