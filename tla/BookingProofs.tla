---------------------------- MODULE BookingProofs ----------------------------
(***************************************************************************)
(* What holds of an interview campaign for any number of workers and       *)
(* slots.  The first part needs no assumption on what overlaps what; the   *)
(* second takes one answer per worker at a time and the manager's requests *)
(* apart from the answers, and shows that the campaign is a SeatPlan.      *)
(***************************************************************************)
EXTENDS InterviewBooking, FiniteSetTheorems, TLAPS

-----------------------------------------------------------------------------
(* An inductive invariant under any interleaving.                          *)

PC == {"idle", "judged", "seen", "ready", "committed", "counted"}

\* TypeOK, but for the sign of bookedCount: overlapping edits can lose track.
Typed ==
    /\ status \in [Invitations -> Status]
    /\ chosen \in [Invitations -> Choice]
    /\ open \in SUBSET Slots /\ deleted \in SUBSET Slots
    /\ startAt \in [Slots -> Times]
    /\ capacity \in [Slots -> 1..MaxCapacity]
    /\ booked \in [Slots -> Int]
    /\ expiresAt \in Times /\ now \in 0..Horizon
    /\ cancelled \in BOOLEAN /\ sending \in 0..MaxTimers
    /\ counts \in Counts
    /\ pc \in [Procs -> PC]
    /\ req \in [Requests -> Request]
    /\ edit \in Copy
    /\ tally \in [Procs -> Counts]
    /\ edits \in 0..MaxEdits /\ faults \in 0..MaxFaults

\* Only the manager's request changes the set of slots, so its copy of that
\* set is never stale.
CopyHasTheSlots == pc[Employer] = "judged" => edit.open = open

IInv == Typed /\ SeatedAreAccepted /\ CopyHasTheSlots

\* The pieces every proof of a step needs.
LEMMA Basics ==
    /\ Employer \in Procs /\ Requests \subseteq Procs /\ Employer \notin Requests
    /\ \A r \in Requests : Inv(r) \in Invitations
    /\ NoSlot \in Choice /\ Slots \subseteq Choice
    /\ NoRequest \in Request /\ NoCopy \in Copy /\ NoCounts \in Counts
    /\ 0 \in Times /\ 1 \in 1..MaxCapacity
    /\ {"PENDING", "ACCEPTED", "REJECTED", "CANCELLED", "none"} \subseteq Status
<1>1. 0 \in Times /\ 1 \in 1..MaxCapacity
    BY BookingAssumption DEF Times
<1>2. NoRequest \in Request
    BY <1>1 DEF NoRequest, Request, Choice, Status
<1>3. NoCopy \in Copy
    BY <1>1 DEF NoCopy, Copy, Choice, Status
<1>4. QED
    BY <1>1, <1>2, <1>3, BookingAssumption
       DEF Procs, Requests, Inv, Choice, NoCounts, Counts, Status

\* The number of invitations of a status.
LEMMA HavingType ==
    ASSUME Typed, NEW st
    PROVE  Having(st) \in Nat
<1>1. IsFiniteSet({i \in Invitations : status[i] = st})
    BY BookingAssumption, FS_Subset
<1>2. QED
    BY <1>1, FS_CardinalityType DEF Having

\* Invitations are finitely many.
LEMMA SubsetCount ==
    ASSUME NEW S \in SUBSET Invitations
    PROVE  Cardinality(S) \in Nat /\ IsFiniteSet(S)
    BY BookingAssumption, FS_Subset, FS_CardinalityType

\* Nobody is seated at first.
LEMMA InitIInv == Init => IInv
<1> SUFFICES ASSUME Init PROVE IInv
    OBVIOUS
<1> USE DEF Init
<1>1. status \in [Invitations -> Status]
    BY DEF Status
<1>2. Having("PENDING") \in Nat /\ Having("ACCEPTED") \in Nat /\ Having("REJECTED") \in Nat
    BY SubsetCount DEF Having
<1>3. counts \in Counts
    BY <1>2 DEF CountsNow, Counts
<1>4. Typed
    <2>1. chosen \in [Invitations -> Choice] /\ pc \in [Procs -> PC]
        BY Basics DEF PC
    <2>2. edits \in 0..MaxEdits /\ faults \in 0..MaxFaults /\ now \in 0..Horizon
        BY BookingAssumption
    <2>3. req \in [Requests -> Request] /\ edit \in Copy /\ tally \in [Procs -> Counts]
        BY Basics
    <2>4. open \in SUBSET Slots /\ deleted \in SUBSET Slots /\ booked \in [Slots -> Int]
        OBVIOUS
    <2>5. QED
        BY <1>1, <1>3, <2>1, <2>2, <2>3, <2>4 DEF Typed
<1>5. SeatedAreAccepted /\ CopyHasTheSlots
    BY Basics DEF SeatedAreAccepted, CopyHasTheSlots
<1>6. QED
    BY <1>4, <1>5 DEF IInv

-----------------------------------------------------------------------------
(* Each action keeps the types.                                            *)

\* An answer that arrives keeps what is known of the rows.
LEMMA ReceiveAnswerTyped ==
    ASSUME Typed, NEW r \in Requests, NEW answer \in {"ACCEPTED", "REJECTED"},
           NEW target \in Choice, ReceiveAnswer(r, answer, target)
    PROVE  Typed'
<1> USE DEF Typed, ReceiveAnswer, invitationRows, slotRows, campaignRow, bounds
<1>1. \A late \in BOOLEAN :
         [NoRequest EXCEPT !.answer = answer, !.target = target,
                           !.deadline = expiresAt, !.late = late] \in Request
    BY Basics DEF Request, NoRequest
<1>2. (now > expiresAt) \in BOOLEAN
    OBVIOUS
<1>3. req' \in [Requests -> Request]
    <2> DEFINE new == [NoRequest EXCEPT !.answer = answer, !.target = target,
                           !.deadline = expiresAt, !.late = now > expiresAt]
    <2>1. new \in Request
        BY <1>1, <1>2
    <2>2. req' = [req EXCEPT ![r] = new]
        OBVIOUS
    <2> HIDE DEF new
    <2>3. QED
        BY <2>1, <2>2
<1>4. pc' \in [Procs -> PC]
    BY DEF PC
<1>5. QED
    BY <1>3, <1>4

\* The invitation is read into the request.
LEMMA ReadInvitationTyped ==
    ASSUME Typed, NEW r \in Requests, ReadInvitation(r)
    PROVE  Typed'
<1> USE DEF Typed, ReadInvitation, invitationRows, slotRows, campaignRow, bounds
<1>1. req' \in [Requests -> Request]
    BY Basics DEF Request
<1>2. pc' \in [Procs -> PC]
    BY Basics DEF PC
<1>3. QED
    BY <1>1, <1>2

\* So is the bookedCount of the slot that was chosen.
LEMMA ReadSlotTyped ==
    ASSUME Typed, NEW r \in Requests, ReadSlot(r)
    PROVE  Typed'
<1> USE DEF Typed, ReadSlot, invitationRows, slotRows, campaignRow, bounds
<1>1. req' \in [Requests -> Request]
    <2>1. CASE req[r].target \in open
        <3>1. booked[req[r].target] \in Int
            BY <2>1
        <3>2. QED
            BY <3>1, Basics DEF Request
    <2>2. CASE req[r].target \notin open
        BY <2>2, Basics
    <2>3. QED
        BY <2>1, <2>2
<1>2. pc' \in [Procs -> PC]
    BY Basics DEF PC
<1>3. QED
    BY <1>1, <1>2

\* A decrement of the old slot, which may have been deleted, leaves a number per slot.
LEMMA ReleasedType ==
    ASSUME Typed, NEW s, NEW n \in Nat
    PROVE  Released(s, n) \in [Slots -> Int]
    BY DEF Typed, Released

\* A seat counted more.
LEMMA IncrementType ==
    ASSUME NEW f \in [Slots -> Int], NEW t \in Slots
    PROVE  [f EXCEPT ![t] = @ + 1] \in [Slots -> Int]
    OBVIOUS

\* The seat is taken, the old one released, the invitation written.
LEMMA AcceptTyped ==
    ASSUME Typed, NEW r \in Requests, Accept(r)
    PROVE  Typed'
<1> USE DEF Typed, Accept, campaignRow, bounds
<1>1. req[r] \in Request /\ Inv(r) \in Invitations
    BY Basics
<1>2. booked' \in [Slots -> Int]
    <2>1. Released(req[r].slot, 1) \in [Slots -> Int]
        BY ReleasedType
    <2>2. Moves(r) => req[r].target \in Slots
        BY <1>1 DEF Moves, Request, Choice
    <2>3. Moves(r) => SeatsMoved(r) \in [Slots -> Int]
        BY <2>1, <2>2, IncrementType DEF SeatsMoved
    <2>4. QED
        BY <2>3
<1>3. status' \in [Invitations -> Status] /\ chosen' \in [Invitations -> Choice]
    BY <1>1, Basics DEF Request
<1>4. req' \in [Requests -> Request] /\ pc' \in [Procs -> PC]
    BY Basics DEF PC
<1>5. QED
    BY <1>2, <1>3, <1>4

\* The seat is released, the invitation written.
LEMMA RejectTyped ==
    ASSUME Typed, NEW r \in Requests, Reject(r)
    PROVE  Typed'
<1> USE DEF Typed, Reject, campaignRow, bounds
<1>1. booked' \in [Slots -> Int]
    BY ReleasedType DEF SeatsAfterReject
<1>2. status' \in [Invitations -> Status] /\ chosen' \in [Invitations -> Choice]
    BY Basics
<1>3. req' \in [Requests -> Request] /\ pc' \in [Procs -> PC]
    BY Basics DEF PC
<1>4. QED
    BY <1>1, <1>2, <1>3

\* The counters are read and written by whoever refreshes them.
LEMMA StatsTyped ==
    ASSUME Typed, NEW p \in Procs, ReadStats(p) \/ WriteStats(p)
    PROVE  Typed'
<1> USE DEF Typed, invitationRows, slotRows, campaignRow, bounds
<1>1. CASE ReadStats(p)
    <2>1. CountsNow \in Counts
        BY HavingType DEF CountsNow, Counts
    <2>2. QED
        BY <1>1, <2>1 DEF ReadStats, PC
<1>2. CASE WriteStats(p)
    BY <1>2, Basics DEF WriteStats, PC
<1>3. QED
    BY <1>1, <1>2

\* The copy that the manager works on is one of the rows.
LEMMA ReadCampaignTyped ==
    ASSUME Typed, ReadCampaign
    PROVE  Typed'
<1> USE DEF Typed, ReadCampaign, invitationRows, slotRows, campaignRow, bounds
<1>1. CopyNow \in Copy
    BY DEF CopyNow, Copy
<1>2. edits' \in 0..MaxEdits
    BY BookingAssumption
<1>3. QED
    BY <1>1, <1>2, Basics DEF PC

\* Whoever sat in a slot that is deleted or moved is reset with it.
LEMMA UpdateCampaignTyped ==
    ASSUME IInv,
           NEW kept \in SUBSET edit.open, NEW added \in SUBSET (Slots \ (open \cup deleted)),
           NEW moved \in SUBSET kept, NEW newStart \in [kept \cup added -> Times],
           NEW newCapacity \in [kept \cup added -> 1..MaxCapacity], NEW newDeadline \in Times,
           UpdateCampaign(kept, moved, added, newStart, newCapacity, newDeadline)
    PROVE  Typed'
<1> DEFINE reset == ToReset(kept, moved, newStart)
<1> USE DEF IInv
<1>1. edit.open \subseteq Slots
    BY DEF Typed, Copy
<1>2. ResetAccepted(reset) \in Nat
    BY SubsetCount DEF ToReset, ResetAccepted
<1>3. \A s \in Slots : ResetOn(reset, s) \in Nat
    BY SubsetCount DEF ToReset, ResetOn
<1>4. booked' \in [Slots -> Int]
    BY <1>3 DEF UpdateCampaign, Typed
<1>5. counts' \in Counts
    <2>1. \A n \in Nat : CountsAfterReset(n) \in Counts
        BY DEF CountsAfterReset, Typed, Counts
    <2>2. QED
        BY <1>2, <2>1 DEF UpdateCampaign
<1>6. open' \in SUBSET Slots /\ deleted' \in SUBSET Slots
    BY <1>1 DEF UpdateCampaign, Typed
<1>7. startAt' \in [Slots -> Times] /\ capacity' \in [Slots -> 1..MaxCapacity]
    BY <1>6, Basics DEF UpdateCampaign
<1>8. status' \in [Invitations -> Status] /\ chosen' \in [Invitations -> Choice]
    BY Basics DEF UpdateCampaign, Typed
<1>9. pc' \in [Procs -> PC] /\ edit' \in Copy
    BY Basics DEF UpdateCampaign, Typed, PC
<1>10. QED
    BY <1>4, <1>5, <1>6, <1>7, <1>8, <1>9 DEF UpdateCampaign, Typed, bounds

\* Nobody of the copy keeps a seat.
LEMMA CancelCampaignTyped ==
    ASSUME Typed, CancelCampaign
    PROVE  Typed'
<1> USE DEF CancelCampaign, bounds
<1>1. \A s \in Slots : InCopy(s) \in Nat
    BY SubsetCount DEF InCopy
<1>2. booked' \in [Slots -> Int]
    BY <1>1 DEF SeatsAfterCancel, Typed
<1>3. status' \in [Invitations -> Status] /\ chosen' \in [Invitations -> Choice]
    BY Basics DEF Typed
<1>4. pc' \in [Procs -> PC] /\ edit' \in Copy
    BY Basics DEF Typed, PC
<1>5. QED
    BY <1>2, <1>3, <1>4 DEF Typed

\* The refusals, the timer, the clock, an added worker and a failure.
LEMMA OthersTyped ==
    ASSUME Typed,
           \/ \E r \in Requests : AcceptRefused(r)
           \/ SendTimerFires
           \/ \E i \in Invitations : AddWorker(i)
           \/ \E p \in Procs : RequestFails(p)
           \/ Tick
    PROVE  Typed'
<1> USE DEF Typed, invitationRows, slotRows, campaignRow, bounds
<1>1. ASSUME NEW r \in Requests, AcceptRefused(r) PROVE Typed'
    BY <1>1, Basics DEF AcceptRefused, PC
<1>2. CASE SendTimerFires
    <2>1. sending \in 0..MaxTimers /\ sending > 0 /\ sending' = sending - 1
        BY <1>2 DEF SendTimerFires
    <2>2. sending' \in 0..MaxTimers
        BY <2>1, BookingAssumption
    <2>3. QED
        BY <1>2, <2>2 DEF SendTimerFires
<1>3. ASSUME NEW i \in Invitations, AddWorker(i) PROVE Typed'
    BY <1>3, Basics DEF AddWorker, Counts
<1>4. ASSUME NEW p \in Procs, RequestFails(p) PROVE Typed'
    BY <1>4, Basics, BookingAssumption DEF RequestFails, PC
<1>5. CASE Tick
    BY <1>5, BookingAssumption DEF Tick
<1>6. QED
    BY <1>1, <1>2, <1>3, <1>4, <1>5

\* Every step keeps the types.
LEMMA NextTyped ==
    ASSUME IInv, [Next]_vars
    PROVE  Typed'
<1>1. Typed
    BY DEF IInv
<1>2. ASSUME NEW r \in Requests, NEW answer \in {"ACCEPTED", "REJECTED"},
             NEW target \in Choice, ReceiveAnswer(r, answer, target)
      PROVE  Typed'
    BY <1>1, <1>2, ReceiveAnswerTyped
<1>3. ASSUME NEW r \in Requests,
             \/ ReadInvitation(r) \/ ReadSlot(r) \/ Accept(r) \/ AcceptRefused(r) \/ Reject(r)
      PROVE  Typed'
    BY <1>1, <1>3, ReadInvitationTyped, ReadSlotTyped, AcceptTyped, RejectTyped, OthersTyped
<1>4. ASSUME NEW p \in Procs, ReadStats(p) \/ WriteStats(p) \/ RequestFails(p)
      PROVE  Typed'
    BY <1>1, <1>4, StatsTyped, OthersTyped
<1>5. ASSUME NEW kept \in SUBSET edit.open,
             NEW added \in SUBSET (Slots \ (open \cup deleted)),
             NEW moved \in SUBSET kept, NEW newStart \in [kept \cup added -> Times],
             NEW newCapacity \in [kept \cup added -> 1..MaxCapacity],
             NEW newDeadline \in Times,
             UpdateCampaign(kept, moved, added, newStart, newCapacity, newDeadline)
      PROVE  Typed'
    BY <1>5, UpdateCampaignTyped
<1>6. CASE ReadCampaign \/ CancelCampaign
    BY <1>1, <1>6, ReadCampaignTyped, CancelCampaignTyped
<1>7. CASE SendTimerFires \/ Tick \/ \E i \in Invitations : AddWorker(i)
    BY <1>1, <1>7, OthersTyped
<1>8. CASE UNCHANGED vars
    BY <1>1, <1>8 DEF vars, invitationRows, slotRows, campaignRow, bounds, Typed
<1>9. QED
    BY <1>2, <1>3, <1>4, <1>5, <1>6, <1>7, <1>8 DEF Next

-----------------------------------------------------------------------------
(* Seats and statuses.                                                     *)

\* Only the manager's request opens and deletes slots, and it starts from the
\* slots there are.
LEMMA NextCopy ==
    ASSUME IInv, [Next]_vars
    PROVE  CopyHasTheSlots'
<1> USE DEF CopyHasTheSlots, invitationRows, slotRows, campaignRow, bounds
<1>1. CopyHasTheSlots /\ pc \in [Procs -> PC] /\ pc' \in [Procs -> PC]
    BY NextTyped DEF IInv, Typed
<1>2. Employer \in Procs /\ Employer \notin Requests
    BY Basics
<1>3. ASSUME NEW r \in Requests, NEW answer, NEW target, ReceiveAnswer(r, answer, target)
      PROVE  CopyHasTheSlots'
    BY <1>1, <1>2, <1>3 DEF ReceiveAnswer
<1>4. ASSUME NEW r \in Requests,
             \/ ReadInvitation(r) \/ ReadSlot(r) \/ Accept(r) \/ AcceptRefused(r) \/ Reject(r)
      PROVE  CopyHasTheSlots'
    BY <1>1, <1>2, <1>4 DEF ReadInvitation, ReadSlot, Accept, AcceptRefused, Reject
<1>5. ASSUME NEW p \in Procs, ReadStats(p) \/ WriteStats(p) \/ RequestFails(p)
      PROVE  CopyHasTheSlots'
    BY <1>1, <1>2, <1>5 DEF ReadStats, WriteStats, RequestFails
<1>6. ASSUME NEW kept, NEW added, NEW moved, NEW newStart, NEW newCapacity, NEW newDeadline,
             UpdateCampaign(kept, moved, added, newStart, newCapacity, newDeadline)
      PROVE  CopyHasTheSlots'
    BY <1>1, <1>2, <1>6 DEF UpdateCampaign
<1>7. CASE ReadCampaign
    BY <1>7 DEF ReadCampaign, CopyNow
<1>8. CASE CancelCampaign
    BY <1>1, <1>2, <1>8 DEF CancelCampaign
<1>9. CASE SendTimerFires \/ Tick \/ \E i \in Invitations : AddWorker(i)
    BY <1>1, <1>9 DEF SendTimerFires, Tick, AddWorker
<1>10. CASE UNCHANGED vars
    BY <1>1, <1>10 DEF vars
<1>11. QED
    BY <1>3, <1>4, <1>5, <1>6, <1>7, <1>8, <1>9, <1>10 DEF Next

\* A seat and its invitation's status change together, and a deleted slot is
\* cleared from whoever holds it.
LEMMA NextSeated ==
    ASSUME IInv, [Next]_vars
    PROVE  SeatedAreAccepted'
<1> USE DEF SeatedAreAccepted, invitationRows, slotRows, campaignRow, bounds
<1>1. /\ SeatedAreAccepted /\ CopyHasTheSlots
      /\ status \in [Invitations -> Status] /\ chosen \in [Invitations -> Choice]
    BY DEF IInv, Typed
<1>2. ASSUME UNCHANGED <<status, chosen, open>>
      PROVE  SeatedAreAccepted'
    BY <1>1, <1>2
<1>3. ASSUME NEW r \in Requests, Accept(r)
      PROVE  SeatedAreAccepted'
    BY <1>1, <1>3, Basics DEF Accept, SlotMissing
<1>4. ASSUME NEW r \in Requests, Reject(r)
      PROVE  SeatedAreAccepted'
    BY <1>1, <1>4, Basics DEF Reject
<1>5. ASSUME NEW kept, NEW added, NEW moved, NEW newStart, NEW newCapacity, NEW newDeadline,
             UpdateCampaign(kept, moved, added, newStart, newCapacity, newDeadline)
      PROVE  SeatedAreAccepted'
    <2>1. edit.open = open /\ open' = kept \cup added
        BY <1>1, <1>5 DEF UpdateCampaign, CopyHasTheSlots
    <2>2. SUFFICES ASSUME NEW i \in Invitations, chosen'[i] # NoSlot
                   PROVE  status'[i] = "ACCEPTED" /\ chosen'[i] \in open'
        OBVIOUS
    <2>3. /\ i \notin ToReset(kept, moved, newStart)
          /\ chosen[i] \notin open \ kept
          /\ chosen'[i] = chosen[i] /\ status'[i] = status[i]
        BY <1>5, <2>1, <2>2 DEF UpdateCampaign
    <2>4. QED
        BY <1>1, <2>1, <2>2, <2>3
<1>6. CASE CancelCampaign
    BY <1>1, <1>6 DEF CancelCampaign
<1>7. ASSUME NEW i \in Invitations, AddWorker(i)
      PROVE  SeatedAreAccepted'
    BY <1>1, <1>7 DEF AddWorker
<1>8. ASSUME NEW r \in Requests,
             \/ \E answer, target : ReceiveAnswer(r, answer, target)
             \/ ReadInvitation(r) \/ ReadSlot(r) \/ AcceptRefused(r)
      PROVE  SeatedAreAccepted'
    BY <1>2, <1>8 DEF ReceiveAnswer, ReadInvitation, ReadSlot, AcceptRefused
<1>9. ASSUME NEW p \in Procs, ReadStats(p) \/ WriteStats(p) \/ RequestFails(p)
      PROVE  SeatedAreAccepted'
    BY <1>2, <1>9 DEF ReadStats, WriteStats, RequestFails
<1>10. CASE ReadCampaign \/ SendTimerFires \/ Tick \/ UNCHANGED vars
    BY <1>2, <1>10 DEF ReadCampaign, SendTimerFires, Tick, vars
<1>11. QED
    BY <1>3, <1>4, <1>5, <1>6, <1>7, <1>8, <1>9, <1>10 DEF Next

\* What holds under every overlap.
LEMMA BookingInvariant == Spec => []IInv
<1>1. IInv /\ [Next]_vars => IInv'
    BY NextTyped, NextCopy, NextSeated DEF IInv
<1>2. QED
    BY <1>1, InitIInv, PTL DEF Spec

\* Whatever overlaps, a seat belongs to an accepted invitation and to a slot
\* that exists.
THEOREM BookingSeated == Spec => []SeatedAreAccepted
<1>1. IInv => SeatedAreAccepted
    BY DEF IInv
<1>2. QED
    BY <1>1, BookingInvariant, PTL

-----------------------------------------------------------------------------
(* The campaign's counters.                                                *)

Sum(c) == c.pending + c.accepted + c.rejected

\* Counts that wait to be written were true of invitations that still exist.
TalliesWithinTotal ==
    \A p \in Procs : pc[p] = "counted" => Sum(tally[p]) <= Cardinality(Invited)

CountsInv == CountersWithinTotal /\ TalliesWithinTotal

\* Counting the invitations by status counts each at most once.
LEMMA CountsNowBounded == ASSUME Typed PROVE Sum(CountsNow) <= Cardinality(Invited)
<1> DEFINE P == {i \in Invitations : status[i] = "PENDING"}
           A == {i \in Invitations : status[i] = "ACCEPTED"}
           R == {i \in Invitations : status[i] = "REJECTED"}
<1>1. /\ IsFiniteSet(P) /\ IsFiniteSet(A) /\ IsFiniteSet(R) /\ IsFiniteSet(Invited)
      /\ IsFiniteSet(P \cup A)
      /\ Cardinality(P) \in Nat /\ Cardinality(A) \in Nat /\ Cardinality(R) \in Nat
      /\ Cardinality(Invited) \in Nat
    BY SubsetCount DEF Invited
<1>2. P \cap A = {} /\ (P \cup A) \cap R = {} /\ (P \cup A) \cup R \subseteq Invited
    BY DEF Invited
<1>3. Cardinality(P \cup A) = Cardinality(P) + Cardinality(A)
    <2>1. Cardinality(P \cup A) = Cardinality(P) + Cardinality(A) - Cardinality(P \cap A)
        BY <1>1, FS_Union
    <2>2. Cardinality(P \cap A) = 0
        BY <1>2, FS_EmptySet
    <2> HIDE DEF P, A
    <2>3. QED
        BY <1>1, <2>1, <2>2
<1>4. Cardinality((P \cup A) \cup R) = Cardinality(P \cup A) + Cardinality(R)
    <2>1. Cardinality((P \cup A) \cup R) =
              Cardinality(P \cup A) + Cardinality(R) - Cardinality((P \cup A) \cap R)
        BY <1>1, FS_Union
    <2>2. Cardinality((P \cup A) \cap R) = 0
        BY <1>2, FS_EmptySet
    <2>3. Cardinality(P \cup A) \in Nat
        BY <1>1, FS_CardinalityType
    <2> HIDE DEF P, A, R
    <2>4. QED
        BY <1>1, <2>1, <2>2, <2>3
<1>5. Cardinality((P \cup A) \cup R) <= Cardinality(Invited)
    BY <1>1, <1>2, FS_Subset
<1>6. /\ CountsNow.pending = Cardinality(P) /\ CountsNow.accepted = Cardinality(A)
      /\ CountsNow.rejected = Cardinality(R)
    BY DEF CountsNow, Having
<1>7. Sum(CountsNow) = Cardinality(P) + Cardinality(A) + Cardinality(R)
    BY <1>6 DEF Sum
<1> HIDE DEF P, A, R
<1>8. QED
    BY <1>1, <1>3, <1>4, <1>5, <1>7

\* Invitations are never taken back.
LEMMA InvitedGrows ==
    ASSUME IInv, [Next]_vars
    PROVE  Invited \subseteq Invited' /\ Cardinality(Invited) <= Cardinality(Invited')
<1>1. status \in [Invitations -> Status]
    BY DEF IInv, Typed
<1>2. \A i \in Invitations : status'[i] = "none" => status[i] = "none"
    <2>1. ASSUME NEW r \in Requests, Accept(r) \/ Reject(r)
          PROVE  \A i \in Invitations : status'[i] = "none" => status[i] = "none"
        BY <1>1, <2>1 DEF Accept, Reject
    <2>2. ASSUME NEW r \in Requests,
                 \/ \E answer, target : ReceiveAnswer(r, answer, target)
                 \/ ReadInvitation(r) \/ ReadSlot(r) \/ AcceptRefused(r)
          PROVE  status' = status
        BY <2>2 DEF ReceiveAnswer, ReadInvitation, ReadSlot, AcceptRefused, invitationRows
    <2>3. ASSUME NEW p \in Procs, ReadStats(p) \/ WriteStats(p) \/ RequestFails(p)
          PROVE  status' = status
        BY <2>3 DEF ReadStats, WriteStats, RequestFails, invitationRows
    <2>4. ASSUME NEW kept, NEW added, NEW moved, NEW newStart, NEW newCapacity,
                 NEW newDeadline,
                 UpdateCampaign(kept, moved, added, newStart, newCapacity, newDeadline)
          PROVE  \A i \in Invitations : status'[i] = "none" => status[i] = "none"
        BY <1>1, <2>4 DEF UpdateCampaign
    <2>5. CASE CancelCampaign
        BY <1>1, <2>5 DEF CancelCampaign
    <2>6. ASSUME NEW i \in Invitations, AddWorker(i)
          PROVE  \A j \in Invitations : status'[j] = "none" => status[j] = "none"
        BY <1>1, <2>6 DEF AddWorker
    <2>7. CASE ReadCampaign \/ SendTimerFires \/ Tick \/ UNCHANGED vars
        BY <2>7 DEF ReadCampaign, SendTimerFires, Tick, vars, invitationRows
    <2>8. QED
        BY <2>1, <2>2, <2>3, <2>4, <2>5, <2>6, <2>7 DEF Next
<1>3. Invited \subseteq Invited' /\ Invited' \subseteq Invitations
    BY <1>2 DEF Invited
<1>4. IsFiniteSet(Invited')
    BY <1>3, SubsetCount
<1>5. QED
    BY <1>3, <1>4, FS_Subset

\* A refresh writes what was counted earlier, an edit moves invitations from one
\* counter to another, an added worker counts once.
LEMMA NextCounts ==
    ASSUME IInv, CountsInv, [Next]_vars
    PROVE  CountsInv'
<1> USE DEF CountsInv, CountersWithinTotal, TalliesWithinTotal, Sum, invitationRows,
            slotRows, campaignRow, bounds
<1>1. /\ Typed /\ pc \in [Procs -> PC] /\ tally \in [Procs -> Counts] /\ counts \in Counts
      /\ Cardinality(Invited) \in Nat /\ Cardinality(Invited') \in Nat
      /\ Cardinality(Invited) <= Cardinality(Invited')
    <2>1. Invited \in SUBSET Invitations /\ Invited' \in SUBSET Invitations
        BY DEF Invited
    <2>2. Cardinality(Invited) \in Nat /\ Cardinality(Invited') \in Nat
        BY <2>1, SubsetCount
    <2>3. QED
        BY <2>2, InvitedGrows DEF IInv, Typed
<1>2. \A p \in Procs : Sum(tally[p]) \in Int
    BY <1>1 DEF Counts
<1>3. Sum(counts) \in Int
    BY <1>1 DEF Counts
<1> HIDE DEF Sum
<1>4. ASSUME Sum(counts') <= Cardinality(Invited'),
             \A p \in Procs : pc'[p] = "counted" => pc[p] = "counted" /\ tally'[p] = tally[p]
      PROVE  CountsInv'
    BY <1>1, <1>2, <1>4 DEF Sum
<1>5. ASSUME counts' = counts,
             \A p \in Procs : pc'[p] = "counted" => pc[p] = "counted" /\ tally'[p] = tally[p]
      PROVE  CountsInv'
    BY <1>1, <1>3, <1>4, <1>5 DEF Sum
<1>6. ASSUME NEW r \in Requests,
             \/ \E answer, target : ReceiveAnswer(r, answer, target)
             \/ ReadInvitation(r) \/ ReadSlot(r) \/ Accept(r) \/ AcceptRefused(r) \/ Reject(r)
      PROVE  CountsInv'
    BY <1>1, <1>5, <1>6, Basics
       DEF ReceiveAnswer, ReadInvitation, ReadSlot, Accept, AcceptRefused, Reject
<1>7. ASSUME NEW p \in Procs, ReadStats(p)
      PROVE  CountsInv'
    <2>1. /\ counts' = counts /\ Invited' = Invited /\ pc'[p] = "counted"
          /\ tally'[p] = CountsNow
          /\ \A q \in Procs : q # p => pc'[q] = pc[q] /\ tally'[q] = tally[q]
        BY <1>1, <1>7 DEF ReadStats, Invited
    <2>2. Sum(CountsNow) <= Cardinality(Invited)
        BY <1>1, CountsNowBounded
    <2>3. QED
        BY <2>1, <2>2 DEF Sum
<1>8. ASSUME NEW p \in Procs, WriteStats(p)
      PROVE  CountsInv'
    <2>1. Sum(counts') <= Cardinality(Invited')
        BY <1>1, <1>2, <1>8 DEF WriteStats
    <2>2. QED
        BY <1>1, <1>4, <1>8, <2>1 DEF WriteStats
<1>9. ASSUME NEW p \in Procs, RequestFails(p)
      PROVE  CountsInv'
    BY <1>1, <1>5, <1>9 DEF RequestFails
<1>10. ASSUME NEW kept, NEW added, NEW moved, NEW newStart, NEW newCapacity, NEW newDeadline,
              UpdateCampaign(kept, moved, added, newStart, newCapacity, newDeadline)
      PROVE  CountsInv'
    <2>1. ResetAccepted(ToReset(kept, moved, newStart)) \in Nat
        BY SubsetCount DEF ResetAccepted, ToReset
    <2>2. Sum(counts') = Sum(counts)
        BY <1>1, <1>10, <2>1 DEF UpdateCampaign, CountsAfterReset, Counts, Sum
    <2>3. Sum(counts') <= Cardinality(Invited')
        BY <1>1, <1>3, <2>2 DEF Sum
    <2>4. QED
        BY <1>1, <1>4, <1>10, <2>3 DEF UpdateCampaign
<1>11. ASSUME NEW i \in Invitations, AddWorker(i)
      PROVE  CountsInv'
    <2>1. Invited' = Invited \cup {i} /\ i \notin Invited /\ IsFiniteSet(Invited)
        BY <1>1, <1>11, SubsetCount DEF AddWorker, Invited, Typed
    <2>2. Cardinality(Invited') = Cardinality(Invited) + 1
        BY <2>1, FS_AddElement
    <2>3. Sum(counts') = Sum(counts) + 1
        BY <1>1, <1>11 DEF AddWorker, Counts, Sum
    <2>4. Sum(counts') <= Cardinality(Invited')
        BY <1>1, <1>3, <2>2, <2>3 DEF Sum
    <2>5. QED
        BY <1>1, <1>4, <1>11, <2>4 DEF AddWorker
<1>12. CASE ReadCampaign \/ CancelCampaign \/ SendTimerFires \/ Tick \/ UNCHANGED vars
    BY <1>1, <1>5, <1>12, Basics
       DEF ReadCampaign, CancelCampaign, SendTimerFires, Tick, vars
<1>13. QED
    BY <1>6, <1>7, <1>8, <1>9, <1>10, <1>11, <1>12 DEF Next

\* The counters start as a tally would count them.
LEMMA InitCounts == Init => CountsInv
<1> SUFFICES ASSUME Init PROVE CountsInv
    OBVIOUS
<1>2. Typed
    BY InitIInv DEF IInv
<1>3. Sum(CountsNow) <= Cardinality(Invited)
    BY <1>2, CountsNowBounded
<1>4. counts = CountsNow /\ \A p \in Procs : pc[p] = "idle"
    BY DEF Init
<1>5. CountersWithinTotal
    BY <1>3, <1>4 DEF CountersWithinTotal, Sum
<1>6. TalliesWithinTotal
    BY <1>4 DEF TalliesWithinTotal
<1>7. QED
    BY <1>5, <1>6 DEF CountsInv

\* Whatever overlaps, the counters never claim more invitations than were sent.
THEOREM BookingCountersBounded == Spec => []CountersWithinTotal
<1>1. Init => CountsInv
    BY InitCounts
<1>2. IInv /\ CountsInv /\ [Next]_vars => CountsInv'
    BY NextCounts
<1>3. CountsInv => CountersWithinTotal
    BY DEF CountsInv
<1>4. QED
    BY <1>1, <1>2, <1>3, BookingInvariant, PTL DEF Spec

-----------------------------------------------------------------------------
(* One answer of a worker at a time, edits apart from answers.  What makes *)
(* the seats add up then is that no handler acts on a read that has become *)
(* stale, except for the slot's bookedCount, which the compare-and-set     *)
(* guards.                                                                 *)

Deciding == {"judged", "seen", "ready"}

\* The manager's request and the answers exclude each other.
EditsApart == pc[Employer] # "idle" => \A r \in Requests : pc[r] = "idle"

\* What an answer has read of its invitation is still so.
AnswersFresh ==
    \A r \in Requests :
        /\ pc[r] \in Deciding =>
              /\ status[Inv(r)] \in Answerable
              /\ req[r].answer = "ACCEPTED" /\ req[r].target = NoSlot => open = {}
        /\ pc[r] \in {"seen", "ready"} =>
              req[r].status = status[Inv(r)] /\ req[r].slot = chosen[Inv(r)]

\* The manager's copy still shows who holds which seat.
CopyFresh ==
    pc[Employer] = "judged" =>
        /\ edit.chosen = chosen
        /\ \A i \in Invitations : edit.status[i] = "ACCEPTED" <=> status[i] = "ACCEPTED"

ClosedSlotsEmpty == \A s \in Slots \ open : booked[s] = 0

\* A move that is about to reserve found room.
RoomFound ==
    \A r \in Requests :
        pc[r] = "ready" /\ Moves(r) => req[r].booked < capacity[req[r].target]

\* A late answer comes from a worker who has accepted, and moves nobody.
LateAnswersStay ==
    \A r \in Requests : req[r].late =>
        /\ pc[r] \in Deciding => status[Inv(r)] = "ACCEPTED" /\ now >= req[r].deadline
        /\ pc[r] = "ready" => ~Moves(r)

ApartInv ==
    /\ EditsApart
    /\ AnswersFresh
    /\ CopyFresh
    /\ SeatsCounted
    /\ ClosedSlotsEmpty
    /\ RoomFound
    /\ LateAnswersStay

\* With one tab, two answers in progress are of two workers.
LEMMA OneAnswerEach ==
    ASSUME \A t, u \in Tabs : t = u
    PROVE  \A r, q \in Requests : Inv(r) = Inv(q) => r = q
    BY DEF Requests, Inv

\* How the number of holders of a slot changes when an invitation moves.
LEMMA HoldersAfterMove ==
    ASSUME Typed, NEW i \in Invitations, NEW t \in Choice,
           chosen' = [chosen EXCEPT ![i] = t], NEW s
    PROVE  /\ Cardinality(Holders(s)) \in Nat
           /\ s = chosen[i] => Cardinality(Holders(s)) >= 1
           /\ Cardinality(Holders(s)') =
                Cardinality(Holders(s))
                    + (IF s = t /\ s # chosen[i] THEN 1 ELSE 0)
                    - (IF s # t /\ s = chosen[i] THEN 1 ELSE 0)
<1>1. IsFiniteSet(Holders(s)) /\ Cardinality(Holders(s)) \in Nat
    BY SubsetCount DEF Holders
<1>2. i \in Holders(s) <=> s = chosen[i]
    BY DEF Holders
<1>3. Holders(s)' = IF s = t THEN Holders(s) \cup {i} ELSE Holders(s) \ {i}
    BY DEF Typed, Holders
<1>4. s = chosen[i] => Cardinality(Holders(s)) # 0
    BY <1>1, <1>2, FS_EmptySet
<1>5. Cardinality(Holders(s) \cup {i}) =
          IF i \in Holders(s) THEN Cardinality(Holders(s)) ELSE Cardinality(Holders(s)) + 1
    BY <1>1, FS_AddElement
<1>6. Cardinality(Holders(s) \ {i}) =
          IF i \in Holders(s) THEN Cardinality(Holders(s)) - 1 ELSE Cardinality(Holders(s))
    BY <1>1, FS_RemoveElement
<1>7. QED
    BY <1>1, <1>2, <1>3, <1>4, <1>5, <1>6

\* At first nobody is seated and no answer is in progress.
LEMMA InitApart == Init => ApartInv
<1> SUFFICES ASSUME Init PROVE ApartInv
    OBVIOUS
<1>1. \A p \in Procs : pc[p] = "idle"
    BY DEF Init
<1>2. EditsApart /\ AnswersFresh /\ CopyFresh /\ RoomFound
    BY <1>1, Basics DEF EditsApart, AnswersFresh, CopyFresh, RoomFound, Deciding
<1>3. LateAnswersStay
    BY <1>1, Basics DEF Init, LateAnswersStay, Deciding, NoRequest
<1>4. SeatsCounted /\ ClosedSlotsEmpty
    <2>1. \A s \in Slots : Holders(s) = {}
        BY BookingAssumption DEF Init, Holders
    <2>2. QED
        BY <2>1, FS_EmptySet DEF Init, SeatsCounted, ClosedSlotsEmpty
<1>5. QED
    BY <1>2, <1>3, <1>4 DEF ApartInv

-----------------------------------------------------------------------------
(* Each action keeps the seats counted and the reads fresh.                *)

\* A step that touches neither seats nor slots keeps what concerns them.
LEMMA SeatsUntouched ==
    ASSUME ApartInv, UNCHANGED <<chosen, slotRows>>
    PROVE  SeatsCounted' /\ ClosedSlotsEmpty'
    BY DEF ApartInv, SeatsCounted, ClosedSlotsEmpty, Holders, slotRows

\* An answer arrives while no edit is in progress.
LEMMA ReceiveAnswerApart ==
    ASSUME ~EditsOverlap, IInv, ApartInv, NEW r \in Requests,
           NEW answer \in {"ACCEPTED", "REJECTED"}, NEW target \in Choice,
           ReceiveAnswer(r, answer, target)
    PROVE  ApartInv'
<1> USE DEF ReceiveAnswer, MayAnswer, invitationRows, campaignRow
<1>1. pc \in [Procs -> PC] /\ req \in [Requests -> Request]
    BY DEF IInv, Typed
<1>2. pc[Employer] = "idle" /\ pc'[Employer] = "idle"
    BY <1>1, Basics
<1>3. /\ \A q \in Requests : q # r => pc'[q] = pc[q] /\ req'[q] = req[q]
      /\ pc'[r] = "judged" /\ req'[r].answer = answer /\ req'[r].target = target
      /\ req'[r].deadline = expiresAt /\ req'[r].late = (now > expiresAt)
    BY <1>1, Basics DEF NoRequest
<1>4. SeatsCounted' /\ ClosedSlotsEmpty'
    BY SeatsUntouched
<1>5. EditsApart' /\ CopyFresh'
    BY <1>2 DEF EditsApart, CopyFresh
<1>6. AnswersFresh'
    BY <1>3 DEF ApartInv, AnswersFresh, Deciding, slotRows
<1>7. RoomFound'
    BY <1>3 DEF ApartInv, RoomFound, Moves, slotRows
<1>8. req'[r].late => status[Inv(r)] = "ACCEPTED" /\ now >= req'[r].deadline
    <2>1. expiresAt \in Int /\ now \in Int
        BY BookingAssumption DEF IInv, Typed, Times
    <2>2. now > expiresAt => status[Inv(r)] = "ACCEPTED" /\ now >= expiresAt
        BY <2>1
    <2>3. req'[r].late => now > expiresAt
        BY <1>3, Zenon
    <2>4. QED
        BY <1>3, <2>2, <2>3, Zenon
<1>9. LateAnswersStay'
    <2>1. status' = status /\ now' = now
        OBVIOUS
    <2>2. pc'[r] # "ready" /\ (req'[r].late => status'[Inv(r)] = "ACCEPTED"
                                                /\ now' >= req'[r].deadline)
        BY <1>3, <1>8, <2>1
    <2> HIDE DEF ReceiveAnswer
    <2>3. QED
        BY <1>3, <2>1, <2>2 DEF ApartInv, LateAnswersStay, Moves, Deciding
<1>10. QED
    BY <1>4, <1>5, <1>6, <1>7, <1>9 DEF ApartInv

\* What it reads of its own invitation stays so: no other request writes that row.
LEMMA ReadInvitationApart ==
    ASSUME IInv, ApartInv, NEW r \in Requests, ReadInvitation(r)
    PROVE  ApartInv'
<1> USE DEF ReadInvitation, invitationRows, campaignRow
<1>1. pc \in [Procs -> PC] /\ req \in [Requests -> Request]
    BY DEF IInv, Typed
<1>2. pc'[Employer] = pc[Employer]
    BY <1>1, Basics
<1>3. /\ \A q \in Requests : q # r => pc'[q] = pc[q] /\ req'[q] = req[q]
      /\ \/ pc'[r] = "idle" /\ req'[r] = NoRequest
         \/ /\ pc'[r] = (IF req[r].target = NoSlot THEN "ready" ELSE "seen")
            /\ req'[r].status = status[Inv(r)] /\ req'[r].slot = chosen[Inv(r)]
            /\ req'[r].answer = req[r].answer /\ req'[r].target = req[r].target
            /\ req'[r].late = req[r].late /\ req'[r].deadline = req[r].deadline
    BY <1>1, Basics DEF Request
<1>4. SeatsCounted' /\ ClosedSlotsEmpty'
    BY SeatsUntouched
<1>5. EditsApart' /\ CopyFresh'
    BY <1>1, <1>2, <1>3 DEF ApartInv, EditsApart, CopyFresh
<1>6. AnswersFresh'
    BY <1>3 DEF ApartInv, AnswersFresh, Deciding, slotRows
<1>7. RoomFound'
    BY <1>3 DEF ApartInv, RoomFound, Moves, slotRows
<1>8. LateAnswersStay'
    BY <1>3 DEF ApartInv, LateAnswersStay, Moves, Deciding, NoRequest
<1>9. QED
    BY <1>4, <1>5, <1>6, <1>7, <1>8 DEF ApartInv

\* The seat it finds was below the capacity when it was read.
LEMMA ReadSlotApart ==
    ASSUME IInv, ApartInv, NEW r \in Requests, ReadSlot(r)
    PROVE  ApartInv'
<1> USE DEF ReadSlot, invitationRows, campaignRow
<1>1. pc \in [Procs -> PC] /\ req \in [Requests -> Request]
    BY DEF IInv, Typed
<1>2. pc'[Employer] = pc[Employer]
    BY <1>1, Basics
<1>3. /\ \A q \in Requests : q # r => pc'[q] = pc[q] /\ req'[q] = req[q]
      /\ \/ pc'[r] = "idle" /\ req'[r] = NoRequest
         \/ /\ pc'[r] = "ready" /\ (Moves(r) => SeatFree(r))
            /\ req'[r].booked = booked[req[r].target]
            /\ req'[r].status = req[r].status /\ req'[r].slot = req[r].slot
            /\ req'[r].answer = req[r].answer /\ req'[r].target = req[r].target
            /\ req'[r].late = req[r].late /\ req'[r].deadline = req[r].deadline
    BY <1>1, Basics DEF Request
<1>4. SeatsCounted' /\ ClosedSlotsEmpty'
    BY SeatsUntouched
<1>5. EditsApart' /\ CopyFresh'
    BY <1>1, <1>2, <1>3 DEF ApartInv, EditsApart, CopyFresh
<1>6. AnswersFresh'
    BY <1>3 DEF ApartInv, AnswersFresh, Deciding, slotRows
<1>7. RoomFound'
    BY <1>3 DEF ApartInv, RoomFound, Moves, SeatFree, slotRows
<1>8. LateAnswersStay'
    BY <1>3 DEF ApartInv, LateAnswersStay, AnswersFresh, Moves, Deciding, SeatFree, NoRequest
<1>9. QED
    BY <1>4, <1>5, <1>6, <1>7, <1>8 DEF ApartInv

\* What the commit of an answer does to the requests: the reads of the others
\* stay fresh, because they are answers of other workers.
LEMMA CommitKeepsReads ==
    ASSUME \A t, u \in Tabs : t = u, IInv, ApartInv, NEW r \in Requests, NEW st \in Answerable,
           NEW t \in Choice, pc[r] = "ready",
           status' = [status EXCEPT ![Inv(r)] = st],
           chosen' = [chosen EXCEPT ![Inv(r)] = t],
           pc' = [pc EXCEPT ![r] = "committed"],
           req' = [req EXCEPT ![r] = NoRequest],
           UNCHANGED <<open, capacity, now, edit>>
    PROVE  EditsApart' /\ AnswersFresh' /\ CopyFresh' /\ RoomFound' /\ LateAnswersStay'
<1>1. /\ pc \in [Procs -> PC] /\ req \in [Requests -> Request]
      /\ status \in [Invitations -> Status] /\ chosen \in [Invitations -> Choice]
    BY DEF IInv, Typed
<1>2. pc[Employer] = "idle" /\ pc'[Employer] = "idle"
    BY <1>1, Basics DEF ApartInv, EditsApart
<1>3. \A q \in Requests : q # r =>
          /\ pc'[q] = pc[q] /\ req'[q] = req[q]
          /\ status'[Inv(q)] = status[Inv(q)] /\ chosen'[Inv(q)] = chosen[Inv(q)]
    BY <1>1, OneAnswerEach, Basics
<1>4. pc'[r] = "committed" /\ req'[r] = NoRequest
    BY <1>1, Basics
<1>5. EditsApart' /\ CopyFresh'
    BY <1>2 DEF EditsApart, CopyFresh
<1>6. AnswersFresh'
    BY <1>3, <1>4 DEF ApartInv, AnswersFresh, Deciding
<1>7. RoomFound'
    BY <1>3, <1>4 DEF ApartInv, RoomFound, Moves
<1>8. LateAnswersStay'
    BY <1>3, <1>4 DEF ApartInv, LateAnswersStay, Moves, Deciding
<1>9. QED
    BY <1>5, <1>6, <1>7, <1>8

\* The compare-and-set holds the count together: one more seat, one more holder.
LEMMA AcceptApart ==
    ASSUME \A t, u \in Tabs : t = u, IInv, ApartInv, NEW r \in Requests, Accept(r)
    PROVE  ApartInv'
<1> DEFINE t == req[r].target
           i == Inv(r)
<1>1. /\ pc[r] = "ready" /\ req[r].answer = "ACCEPTED"
      /\ req[r].slot = chosen[i] /\ (t = NoSlot => open = {})
      /\ chosen' = [chosen EXCEPT ![i] = t] /\ open' = open
      /\ t \in open \cup {NoSlot} /\ booked' = IF Moves(r) THEN SeatsMoved(r) ELSE booked
    BY DEF Accept, SlotMissing, ApartInv, AnswersFresh, Deciding
<1>2. /\ i \in Invitations /\ t \in Choice /\ chosen[i] \in Choice
      /\ Typed /\ booked \in [Slots -> Int] /\ open \subseteq Slots
      /\ (chosen[i] # NoSlot => chosen[i] \in open)
    BY <1>1, Basics DEF IInv, Typed, SeatedAreAccepted, Choice, Request
<1>3. EditsApart' /\ AnswersFresh' /\ CopyFresh' /\ RoomFound' /\ LateAnswersStay'
    <2>1. "ACCEPTED" \in Answerable
        BY DEF Answerable
    <2>2. QED
        BY <1>1, <1>2, <2>1, CommitKeepsReads DEF Accept
<1>4. SeatsCounted'
    <2>1. SUFFICES ASSUME NEW s \in open
                   PROVE  booked'[s] = Cardinality(Holders(s)')
        BY <1>1 DEF SeatsCounted
    <2>2. /\ Cardinality(Holders(s)) \in Nat
          /\ s = chosen[i] => Cardinality(Holders(s)) >= 1
          /\ Cardinality(Holders(s)') =
               Cardinality(Holders(s))
                   + (IF s = t /\ s # chosen[i] THEN 1 ELSE 0)
                   - (IF s # t /\ s = chosen[i] THEN 1 ELSE 0)
        <3>1. Typed /\ i \in Invitations /\ t \in Choice /\ chosen' = [chosen EXCEPT ![i] = t]
            BY <1>1, <1>2
        <3> HIDE DEF t, i
        <3>2. QED
            BY <3>1, HoldersAfterMove
    <2>3. booked[s] = Cardinality(Holders(s)) /\ s # NoSlot
        BY <1>2, <2>1, BookingAssumption DEF ApartInv, SeatsCounted
    <2>4. CASE Moves(r)
        <3>1. t \in open /\ t # chosen[i]
            BY <1>1, <2>4 DEF Moves
        <3>2. Released(chosen[i], 1)[s] =
                  IF s = chosen[i] THEN booked[s] - 1 ELSE booked[s]
            BY <1>2, <2>2, <2>3 DEF Released
        <3>3. Released(chosen[i], 1) \in [Slots -> Int]
            BY <1>2, ReleasedType
        <3>4. booked'[s] = IF s = t THEN Released(chosen[i], 1)[s] + 1
                                    ELSE Released(chosen[i], 1)[s]
            BY <1>1, <1>2, <2>4, <3>1, <3>3 DEF SeatsMoved
        <3>5. QED
            BY <2>2, <2>3, <3>1, <3>2, <3>4
    <2>5. CASE ~Moves(r)
        <3>1. t = chosen[i]
            BY <1>1, <1>2, <2>5 DEF Moves
        <3>2. QED
            BY <1>1, <2>2, <2>3, <2>5, <3>1
    <2>6. QED
        BY <2>4, <2>5
<1>5. ClosedSlotsEmpty'
    <2>1. SUFFICES ASSUME NEW s \in Slots \ open
                   PROVE  booked'[s] = 0
        BY <1>1 DEF ClosedSlotsEmpty
    <2>2. booked[s] = 0
        BY DEF ApartInv, ClosedSlotsEmpty
    <2>3. CASE Moves(r)
        <3>1. s # t
            BY <1>1, <2>1, <2>3 DEF Moves
        <3>2. Released(chosen[i], 1)[s] = 0 /\ Released(chosen[i], 1) \in [Slots -> Int]
            BY <1>2, <2>1, <2>2, ReleasedType DEF Released
        <3>3. QED
            BY <1>1, <1>2, <2>3, <3>1, <3>2 DEF SeatsMoved
    <2>4. QED
        BY <1>1, <2>2, <2>3
<1>6. QED
    BY <1>3, <1>4, <1>5 DEF ApartInv

\* One seat less, one holder less.
LEMMA RejectApart ==
    ASSUME \A t, u \in Tabs : t = u, IInv, ApartInv, NEW r \in Requests, Reject(r)
    PROVE  ApartInv'
<1> DEFINE i == Inv(r)
<1>1. /\ pc[r] = "ready" /\ req[r].slot = chosen[i]
      /\ chosen' = [chosen EXCEPT ![i] = NoSlot] /\ open' = open
      /\ booked' = Released(chosen[i], 1)
    BY DEF Reject, SeatsAfterReject, ApartInv, AnswersFresh
<1>2. /\ i \in Invitations /\ NoSlot \in Choice
      /\ Typed /\ booked \in [Slots -> Int] /\ open \subseteq Slots
    BY Basics DEF IInv, Typed
<1>3. EditsApart' /\ AnswersFresh' /\ CopyFresh' /\ RoomFound' /\ LateAnswersStay'
    <2>1. "REJECTED" \in Answerable
        BY DEF Answerable
    <2>2. /\ status' = [status EXCEPT ![Inv(r)] = "REJECTED"]
          /\ pc' = [pc EXCEPT ![r] = "committed"]
          /\ req' = [req EXCEPT ![r] = NoRequest]
          /\ UNCHANGED <<open, capacity, now, edit>>
        BY DEF Reject
    <2>3. QED
        BY <1>1, <1>2, <2>1, <2>2, CommitKeepsReads
<1>4. SeatsCounted'
    <2>1. SUFFICES ASSUME NEW s \in open
                   PROVE  booked'[s] = Cardinality(Holders(s)')
        BY <1>1 DEF SeatsCounted
    <2>2. /\ Cardinality(Holders(s)) \in Nat
          /\ s = chosen[i] => Cardinality(Holders(s)) >= 1
          /\ Cardinality(Holders(s)') =
               Cardinality(Holders(s))
                   + (IF s = NoSlot /\ s # chosen[i] THEN 1 ELSE 0)
                   - (IF s # NoSlot /\ s = chosen[i] THEN 1 ELSE 0)
        BY <1>1, <1>2, HoldersAfterMove
    <2>3. booked[s] = Cardinality(Holders(s)) /\ s # NoSlot
        BY <1>2, <2>1, BookingAssumption DEF ApartInv, SeatsCounted
    <2>4. booked'[s] = IF s = chosen[i] THEN booked[s] - 1 ELSE booked[s]
        BY <1>1, <1>2, <2>2, <2>3 DEF Released
    <2>5. QED
        BY <2>2, <2>3, <2>4
<1>5. ClosedSlotsEmpty'
    BY <1>1, <1>2 DEF ApartInv, ClosedSlotsEmpty, Released
<1>6. QED
    BY <1>3, <1>4, <1>5 DEF ApartInv

\* A request that ends, or that only counts, leaves the reads of the others.
LEMMA EndingApart ==
    ASSUME IInv, ApartInv, NEW p \in Procs,
           \/ p \in Requests /\ AcceptRefused(p)
           \/ ReadStats(p) \/ WriteStats(p) \/ RequestFails(p)
    PROVE  ApartInv'
<1> USE DEF invitationRows, campaignRow
<1>1. pc \in [Procs -> PC] /\ req \in [Requests -> Request]
    BY DEF IInv, Typed
<1>2. /\ pc' \in [Procs -> PC] /\ (\A q \in Procs : q # p => pc'[q] = pc[q])
      /\ \/ pc'[p] = "idle"
         \/ pc[p] = "committed" /\ pc'[p] = "counted"
      /\ \A q \in Requests : req'[q] = req[q] \/ (q = p /\ req'[q] = NoRequest)
      /\ edit' = edit \/ p = Employer
      /\ UNCHANGED <<status, chosen, slotRows, now>>
    BY <1>1, Basics DEF AcceptRefused, ReadStats, WriteStats, RequestFails, PC
<1>3. SeatsCounted' /\ ClosedSlotsEmpty'
    BY <1>2, SeatsUntouched
<1>4. EditsApart'
    BY <1>2, Basics DEF ApartInv, EditsApart
<1>5. CopyFresh'
    BY <1>2, Basics DEF ApartInv, CopyFresh
<1>6. AnswersFresh'
    BY <1>2, Basics DEF ApartInv, AnswersFresh, Deciding, slotRows
<1>7. RoomFound'
    BY <1>2, Basics DEF ApartInv, RoomFound, Moves, slotRows
<1>8. LateAnswersStay'
    BY <1>2, Basics DEF ApartInv, LateAnswersStay, Moves, Deciding, NoRequest
<1>9. QED
    BY <1>3, <1>4, <1>5, <1>6, <1>7, <1>8 DEF ApartInv

-----------------------------------------------------------------------------
(* The manager's requests and the rest of the program.                     *)

\* The copy is taken while no answer is in progress.
LEMMA ReadCampaignApart ==
    ASSUME ~EditsOverlap, IInv, ApartInv, ReadCampaign
    PROVE  ApartInv'
<1> USE DEF ReadCampaign, invitationRows, campaignRow, slotRows
<1>1. \A r \in Requests : pc[r] = "idle" /\ pc'[r] = "idle"
    BY Basics DEF Answering, IInv, Typed
<1>2. SeatsCounted' /\ ClosedSlotsEmpty'
    BY SeatsUntouched
<1>3. EditsApart' /\ AnswersFresh' /\ RoomFound' /\ LateAnswersStay'
    BY <1>1 DEF ApartInv, EditsApart, AnswersFresh, RoomFound, LateAnswersStay, Deciding
<1>4. CopyFresh'
    BY DEF CopyFresh, CopyNow
<1>5. QED
    BY <1>2, <1>3, <1>4 DEF ApartInv

\* When the manager's request ends, no answer is in progress.
LEMMA NoAnswerMeanwhile ==
    ASSUME IInv, ApartInv, pc[Employer] = "judged", NEW st \in PC \ {"judged"},
           pc' = [pc EXCEPT ![Employer] = st], UNCHANGED req
    PROVE  EditsApart' /\ AnswersFresh' /\ RoomFound' /\ LateAnswersStay' /\ CopyFresh'
<1>1. \A r \in Requests : pc[r] = "idle" /\ pc'[r] = "idle"
    BY Basics DEF ApartInv, EditsApart, IInv, Typed
<1>2. pc'[Employer] # "judged"
    BY Basics DEF IInv, Typed
<1>3. QED
    BY <1>1, <1>2
       DEF EditsApart, AnswersFresh, RoomFound, LateAnswersStay, CopyFresh, Deciding

\* So the edit counts the seats that the copy has, and resets the rest.
LEMMA UpdateCampaignApart ==
    ASSUME IInv, ApartInv,
           NEW kept \in SUBSET edit.open, NEW added \in SUBSET (Slots \ (open \cup deleted)),
           NEW moved \in SUBSET kept, NEW newStart, NEW newCapacity, NEW newDeadline,
           UpdateCampaign(kept, moved, added, newStart, newCapacity, newDeadline)
    PROVE  ApartInv'
<1> DEFINE reset   == ToReset(kept, moved, newStart)
           touched == Changed(kept, moved, newStart)
<1>1. /\ pc[Employer] = "judged" /\ edit.open = open /\ edit.chosen = chosen
      /\ open' = kept \cup added /\ kept \subseteq open /\ open \subseteq Slots
      /\ added \subseteq Slots /\ added \cap open = {} /\ touched \subseteq kept
    BY DEF UpdateCampaign, IInv, Typed, CopyHasTheSlots, ApartInv, CopyFresh, Changed
<1>2. EditsApart' /\ AnswersFresh' /\ RoomFound' /\ LateAnswersStay' /\ CopyFresh'
    BY <1>1, NoAnswerMeanwhile DEF UpdateCampaign, PC
<1>3. /\ booked' = [s \in Slots |-> IF s \in kept THEN booked[s] - ResetOn(reset, s) ELSE 0]
      /\ chosen' = [i \in Invitations |->
                      IF i \in reset \/ chosen[i] \in open \ kept THEN NoSlot ELSE chosen[i]]
      /\ reset = {i \in Invitations : chosen[i] \in (open \ kept) \cup touched}
    BY <1>1 DEF UpdateCampaign, ToReset
<1>4. SeatsCounted'
    <2>1. SUFFICES ASSUME NEW s \in kept \cup added
                   PROVE  booked'[s] = Cardinality(Holders(s)')
        BY <1>1 DEF SeatsCounted
    <2>2. s \in Slots /\ s # NoSlot
        BY <1>1, BookingAssumption
    <2>3. CASE s \in added
        <3>1. s \notin open /\ s \notin kept
            BY <1>1, <2>3
        <3>2. Holders(s) = {}
            BY <2>2, <3>1 DEF IInv, SeatedAreAccepted, Holders
        <3>3. Holders(s)' = {}
            BY <1>3, <2>2, <3>2 DEF Holders
        <3>4. QED
            BY <1>3, <2>2, <3>1, <3>3, FS_EmptySet
    <2>4. CASE s \in touched
        <3>1. {i \in reset : edit.chosen[i] = s} = Holders(s)
            BY <1>1, <1>3, <2>4 DEF Holders
        <3>2. Holders(s)' = {}
            BY <1>3, <2>2, <2>4 DEF Holders
        <3>3. booked[s] = Cardinality(Holders(s)) /\ Cardinality(Holders(s)) \in Nat
            BY <1>1, <2>4, SubsetCount DEF ApartInv, SeatsCounted, Holders
        <3>4. booked'[s] = 0
            BY <1>1, <1>3, <2>2, <2>4, <3>1, <3>3 DEF ResetOn
        <3>5. QED
            BY <3>2, <3>4, FS_EmptySet
    <2>5. CASE s \in kept /\ s \notin touched
        <3>1. {i \in reset : edit.chosen[i] = s} = {}
            BY <1>1, <1>3, <2>5
        <3>2. Holders(s)' = Holders(s)
            BY <1>3, <2>2, <2>5 DEF Holders
        <3>3. booked[s] = Cardinality(Holders(s)) /\ Cardinality(Holders(s)) \in Nat
            BY <1>1, <2>5, SubsetCount DEF ApartInv, SeatsCounted, Holders
        <3>4. ResetOn(reset, s) = 0
            BY <3>1, FS_EmptySet DEF ResetOn
        <3>5. QED
            BY <1>3, <2>2, <2>5, <3>2, <3>3, <3>4
    <2>6. QED
        BY <2>1, <2>3, <2>4, <2>5
<1>5. ClosedSlotsEmpty'
    BY <1>1, <1>3 DEF ClosedSlotsEmpty
<1>6. QED
    BY <1>2, <1>4, <1>5 DEF ApartInv

\* All seats of the campaign are given back.
LEMMA CancelCampaignApart ==
    ASSUME IInv, ApartInv, CancelCampaign
    PROVE  ApartInv'
<1>1. /\ pc[Employer] = "judged" /\ edit.chosen = chosen /\ open' = open
      /\ open \subseteq Slots /\ booked \in [Slots -> Int]
      /\ \A i \in Invitations : edit.status[i] = "ACCEPTED" <=> status[i] = "ACCEPTED"
    BY DEF CancelCampaign, IInv, Typed, ApartInv, CopyFresh
<1>2. EditsApart' /\ AnswersFresh' /\ RoomFound' /\ LateAnswersStay' /\ CopyFresh'
    BY <1>1, NoAnswerMeanwhile DEF CancelCampaign, PC
<1>3. \A s \in open : InCopy(s) = Cardinality(Holders(s)) /\ InCopy(s) \in Nat
    <2>1. ASSUME NEW s \in open
          PROVE  InCopy(s) = Cardinality(Holders(s)) /\ InCopy(s) \in Nat
        <3>1. s # NoSlot
            BY <1>1, BookingAssumption
        <3>2. {i \in Invitations : edit.status[i] = "ACCEPTED" /\ edit.chosen[i] = s}
                  = Holders(s)
            BY <1>1, <3>1 DEF Holders, IInv, SeatedAreAccepted
        <3>3. QED
            BY <3>2, SubsetCount DEF InCopy, Holders
    <2>2. QED
        BY <2>1
<1>4. \A s \in open : booked'[s] = 0
    BY <1>1, <1>3 DEF CancelCampaign, SeatsAfterCancel, ApartInv, SeatsCounted
<1>5. \A s \in open : Holders(s)' = {}
    <2>1. SUFFICES ASSUME NEW s \in open, NEW i \in Invitations, chosen'[i] = s
                   PROVE  FALSE
        BY DEF Holders
    <2>2. s # NoSlot
        BY <1>1, BookingAssumption
    <2>3. chosen[i] = s
        BY <2>1, <2>2 DEF CancelCampaign
    <2>4. status[i] = "ACCEPTED" /\ edit.status[i] = "ACCEPTED"
        BY <1>1, <2>2, <2>3 DEF IInv, SeatedAreAccepted
    <2>5. chosen'[i] = NoSlot
        BY <2>4 DEF CancelCampaign
    <2>6. QED
        BY <2>1, <2>2, <2>5
<1>6. SeatsCounted'
    BY <1>1, <1>4, <1>5, FS_EmptySet DEF SeatsCounted
<1>7. ClosedSlotsEmpty'
    <2>1. \A s \in Slots : InCopy(s) \in Nat
        BY SubsetCount DEF InCopy
    <2>2. ASSUME NEW s \in Slots \ open
          PROVE  booked'[s] = 0
        <3>1. booked[s] = 0 /\ InCopy(s) \in Nat
            BY <2>1 DEF ApartInv, ClosedSlotsEmpty
        <3>2. QED
            BY <3>1 DEF CancelCampaign, SeatsAfterCancel
    <2>3. QED
        BY <1>1, <2>2 DEF ClosedSlotsEmpty
<1>8. QED
    BY <1>2, <1>6, <1>7 DEF ApartInv

\* The timer, an added worker and the clock.
LEMMA OthersApart ==
    ASSUME IInv, ApartInv,
           SendTimerFires \/ Tick \/ \E i \in Invitations : AddWorker(i)
    PROVE  ApartInv'
<1> USE DEF invitationRows, campaignRow
<1>1. /\ UNCHANGED <<chosen, slotRows, pc, req, edit>>
      /\ now \in Int /\ now' \in Int /\ now' >= now
      /\ \A i \in Invitations :
            status'[i] = status[i] \/ (status[i] = "none" /\ status'[i] = "PENDING")
    BY BookingAssumption DEF SendTimerFires, Tick, AddWorker, IInv, Typed, slotRows
<1>2. SeatsCounted' /\ ClosedSlotsEmpty'
    BY <1>1, SeatsUntouched
<1>3. EditsApart'
    BY <1>1 DEF ApartInv, EditsApart
<1>4. CopyFresh'
    BY <1>1 DEF ApartInv, CopyFresh
<1>5. AnswersFresh'
    BY <1>1, Basics DEF ApartInv, AnswersFresh, Deciding, Answerable, slotRows
<1>6. RoomFound'
    BY <1>1 DEF ApartInv, RoomFound, Moves, slotRows
<1>7. LateAnswersStay'
    <2>1. \A r \in Requests : req[r].deadline \in Int
        BY BookingAssumption DEF IInv, Typed, Request, Times
    <2>2. QED
        BY <1>1, <2>1, Basics DEF ApartInv, LateAnswersStay, Moves, Deciding
<1>8. QED
    BY <1>2, <1>3, <1>4, <1>5, <1>6, <1>7 DEF ApartInv

\* One step per action.
LEMMA NextApart ==
    ASSUME ~EditsOverlap, \A t, u \in Tabs : t = u, IInv, ApartInv, [Next]_vars
    PROVE  ApartInv'
<1>1. ASSUME NEW r \in Requests, NEW answer \in {"ACCEPTED", "REJECTED"},
             NEW target \in Choice, ReceiveAnswer(r, answer, target)
      PROVE  ApartInv'
    BY <1>1, ReceiveAnswerApart
<1>2. ASSUME NEW r \in Requests,
             \/ ReadInvitation(r) \/ ReadSlot(r) \/ Accept(r) \/ AcceptRefused(r) \/ Reject(r)
      PROVE  ApartInv'
    BY <1>2, ReadInvitationApart, ReadSlotApart, AcceptApart, RejectApart, EndingApart, Basics
<1>3. ASSUME NEW p \in Procs, ReadStats(p) \/ WriteStats(p) \/ RequestFails(p)
      PROVE  ApartInv'
    BY <1>3, EndingApart
<1>4. ASSUME NEW kept \in SUBSET edit.open,
             NEW added \in SUBSET (Slots \ (open \cup deleted)),
             NEW moved \in SUBSET kept, NEW newStart, NEW newCapacity, NEW newDeadline,
             UpdateCampaign(kept, moved, added, newStart, newCapacity, newDeadline)
      PROVE  ApartInv'
    BY <1>4, UpdateCampaignApart
<1>5. CASE ReadCampaign \/ CancelCampaign
    BY <1>5, ReadCampaignApart, CancelCampaignApart
<1>6. CASE SendTimerFires \/ Tick \/ \E i \in Invitations : AddWorker(i)
    BY <1>6, OthersApart
<1>7. CASE UNCHANGED vars
    BY <1>7 DEF vars, invitationRows, slotRows, campaignRow, bounds, ApartInv, EditsApart,
       AnswersFresh, CopyFresh, SeatsCounted, ClosedSlotsEmpty, RoomFound, LateAnswersStay,
       Moves, Holders
<1>8. QED
    BY <1>1, <1>2, <1>3, <1>4, <1>5, <1>6, <1>7 DEF Next

-----------------------------------------------------------------------------
(* The theorems on apart requests.                                         *)

\* What holds while answers are one per worker and edits fall between them.
LEMMA ApartInvariant ==
    ASSUME ~EditsOverlap, \A t, u \in Tabs : t = u
    PROVE  Spec => [](IInv /\ ApartInv)
<1>1. IInv /\ ApartInv /\ [Next]_vars => ApartInv'
    BY NextApart
<1>2. QED
    BY <1>1, InitApart, BookingInvariant, PTL DEF Spec

\* bookedCount is the number of holders of each slot, for any number of workers
\* answering at the same time.
THEOREM BookingSeatsCounted ==
    ASSUME ~EditsOverlap, \A t, u \in Tabs : t = u
    PROVE  Spec => []SeatsCounted
<1>1. ApartInv => SeatsCounted
    BY DEF ApartInv
<1>2. QED
    BY <1>1, ApartInvariant, PTL

\* A list that counts the holders of a slot agrees with the count that an answer compares.
LEMMA ListsMeetAnswers ==
    ASSUME IInv, SeatsCounted
    PROVE  ListsAgree
<1>1. \A row \in CompanySlots : row.booked = booked[row.slot]
    BY DEF CompanySlots, ShownBooked, SeatsCounted
<1>2. ASSUME NEW s \in open
      PROVE  RemainingSeats(s) > 0 <=> booked[s] < capacity[s]
  <2>1. ShownBooked(s) = booked[s] /\ booked[s] \in Int /\ capacity[s] \in Int
      BY BookingAssumption DEF ShownBooked, SeatsCounted, IInv, Typed
  <2>2. QED
      BY <2>1 DEF RemainingSeats
<1>3. ASSUME NEW i \in Invitations
      PROVE  /\ ShownStatus(i) = "EXPIRED" =>
                   \A answer \in {"ACCEPTED", "REJECTED"}, target \in Choice :
                      ~MayAnswer(i, answer, target)
             /\ PendingKind(i) = "job" => MayAnswer(i, "ACCEPTED", NoSlot)
             /\ PendingKind(i) = "interview" =>
                   \E s \in open : startAt[s] > now /\ MayAnswer(i, "ACCEPTED", s)
             /\ PendingKind(i) # "none" => ShownStatus(i) = "PENDING"
  <2>1. now \in Int /\ expiresAt \in Int /\ status[i] \in Status /\ open \subseteq Slots
      BY BookingAssumption DEF IInv, Typed, Times
  <2>2. ASSUME ShownStatus(i) = "EXPIRED" PROVE now > expiresAt /\ status[i] = "PENDING"
      BY <2>1, <2>2 DEF ShownStatus, Status
  <2>3. ASSUME PendingKind(i) # "none" PROVE ~(now > expiresAt) /\ status[i] = "PENDING"
      BY <2>1, <2>3 DEF PendingKind
  <2>4. PendingKind(i) = "job" => open = {}
      BY DEF PendingKind
  <2>5. PendingKind(i) = "interview" => \E s \in open : startAt[s] > now
      BY DEF PendingKind
  <2>6. \A s \in open : s # NoSlot
      BY <2>1, BookingAssumption
  <2>7. QED
      BY <2>2, <2>3, <2>4, <2>5, <2>6 DEF MayAnswer, Answerable, ShownStatus
<1>4. QED
    BY <1>1, <1>2, <1>3 DEF ListsAgree

\* What the lists show of an invitation and of the seats of a slot is what an
\* answer meets.
THEOREM BookingListsAgree ==
    ASSUME ~EditsOverlap, \A t, u \in Tabs : t = u
    PROVE  Spec => []ListsAgree
<1>1. IInv /\ ApartInv => ListsAgree
    BY ListsMeetAnswers DEF ApartInv
<1>2. QED
    BY <1>1, ApartInvariant, PTL

\* With that, the counts stay within their columns.
LEMMA ApartTypes ==
    ASSUME IInv, ApartInv
    PROVE  TypeOK
<1>1. ASSUME NEW s \in Slots
      PROVE  booked[s] \in Nat
    <2>1. CASE s \in open
        <3>1. Cardinality(Holders(s)) \in Nat
            BY SubsetCount DEF Holders
        <3>2. QED
            BY <2>1, <3>1 DEF ApartInv, SeatsCounted
    <2>2. CASE s \notin open
        BY <2>2 DEF ApartInv, ClosedSlotsEmpty
    <2>3. QED
        BY <2>1, <2>2
<1>2. booked \in [Slots -> Int]
    BY DEF IInv, Typed
<1>3. booked \in [Slots -> Nat]
    BY <1>1, <1>2
<1>4. QED
    BY <1>3 DEF IInv, Typed, TypeOK, PC

\* Types, with the sign: nothing is ever booked less than zero times.
THEOREM BookingTypeOK ==
    ASSUME ~EditsOverlap, \A t, u \in Tabs : t = u
    PROVE  Spec => []TypeOK
    BY ApartTypes, ApartInvariant, PTL

\* A commit that seats a worker is that of an answer received in time.
LEMMA SeatedInTime ==
    ASSUME IInv, ApartInv, [Next]_vars,
           NEW i \in Invitations, chosen'[i] \notin {chosen[i], NoSlot}
    PROVE  /\ \E t \in Tabs : pc[<<i, t>>] = "ready" /\ ~req[<<i, t>>].late
           /\ Plan!Take(i, chosen'[i]) /\ chosen'[i] \in Slots
<1>1. chosen \in [Invitations -> Choice] /\ open \subseteq Slots /\ req \in [Requests -> Request]
    BY DEF IInv, Typed
<1>2. PICK r \in Requests : Accept(r) /\ Inv(r) = i
    <2>1. ASSUME NEW r \in Requests, Accept(r), Inv(r) # i
          PROVE  FALSE
        BY <1>1, <2>1 DEF Accept
    <2>2. ASSUME NEW r \in Requests, Reject(r)
          PROVE  FALSE
        BY <1>1, <2>2, Basics DEF Reject
    <2>3. chosen' # chosen
        OBVIOUS
    <2>4. ASSUME NEW kept, NEW added, NEW moved, NEW newStart, NEW newCapacity,
                 NEW newDeadline,
                 UpdateCampaign(kept, moved, added, newStart, newCapacity, newDeadline)
          PROVE  FALSE
        BY <1>1, <2>4 DEF UpdateCampaign
    <2>5. ~CancelCampaign
        BY <1>1 DEF CancelCampaign
    <2>6. ASSUME NEW r \in Requests,
                 \/ \E answer, target : ReceiveAnswer(r, answer, target)
                 \/ ReadInvitation(r) \/ ReadSlot(r) \/ AcceptRefused(r)
          PROVE  FALSE
        BY <2>3, <2>6 DEF ReceiveAnswer, ReadInvitation, ReadSlot, AcceptRefused,
           invitationRows
    <2>7. ASSUME NEW p \in Procs, ReadStats(p) \/ WriteStats(p) \/ RequestFails(p)
          PROVE  FALSE
        BY <2>3, <2>7 DEF ReadStats, WriteStats, RequestFails, invitationRows
    <2>8. ~(ReadCampaign \/ SendTimerFires \/ Tick \/ UNCHANGED vars
              \/ \E j \in Invitations : AddWorker(j))
        BY <2>3 DEF ReadCampaign, SendTimerFires, Tick, AddWorker, vars, invitationRows
    <2>9. QED
        BY <2>1, <2>2, <2>4, <2>5, <2>6, <2>7, <2>8 DEF Next
<1>3. /\ pc[r] = "ready" /\ chosen' = [chosen EXCEPT ![i] = req[r].target]
      /\ req[r].slot = chosen[i] /\ chosen'[i] = req[r].target /\ UNCHANGED capacity
      /\ ~SlotMissing(r) /\ (Moves(r) => Reserved(r))
    BY <1>1, <1>2 DEF Accept, ApartInv, AnswersFresh
<1>4. Moves(r) /\ req[r].target \in open
    BY <1>3 DEF Moves, SlotMissing
<1>5. ~req[r].late
    BY <1>3, <1>4 DEF ApartInv, LateAnswersStay
<1>6. r = <<i, r[2]>> /\ r[2] \in Tabs
    BY <1>2 DEF Requests, Inv
<1>7. Cardinality(Holders(req[r].target)) < capacity[req[r].target]
    BY <1>3, <1>4 DEF Reserved, ApartInv, RoomFound, SeatsCounted
<1>8. Plan!Holders(req[r].target) = Holders(req[r].target)
    BY DEF Plan!Holders, Holders
<1>9. Plan!Take(i, chosen'[i])
    <2>1. \A S : Plan!Cardinality(S) = Cardinality(S)
        BY DEF Plan!Cardinality, Cardinality
    <2>2. QED
        BY <1>3, <1>7, <1>8, <2>1 DEF Plan!Take
<1>10. pc[<<i, r[2]>>] = "ready" /\ ~req[<<i, r[2]>>].late
    BY <1>3, <1>5, <1>6
<1>11. chosen'[i] \in Slots
    BY <1>1, <1>3, <1>4
<1>12. QED
    BY <1>6, <1>9, <1>10, <1>11

\* An answer received after the deadline never seats its worker.
THEOREM BookingNoLate ==
    ASSUME ~EditsOverlap, \A t, u \in Tabs : t = u
    PROVE  Spec => NoLateBooking
<1>1. IInv /\ ApartInv /\ [Next]_vars =>
        [\A i \in Invitations : chosen'[i] \notin {chosen[i], NoSlot} =>
            \E t \in Tabs : pc[<<i, t>>] = "ready" /\ ~req[<<i, t>>].late]_vars
    BY SeatedInTime
<1>2. QED
    BY <1>1, ApartInvariant, PTL DEF Spec, NoLateBooking

\* A step seats at most the worker whose answer commits, where there is room,
\* or only gives seats back.
LEMMA StepPlans ==
    ASSUME IInv, ApartInv, [Next]_vars
    PROVE  [Plan!Next]_<<chosen, capacity>>
<1>1. chosen \in [Invitations -> Choice] /\ chosen' \in [Invitations -> Choice]
    BY NextTyped DEF IInv, Typed
<1>2. CASE \E i \in Invitations : chosen'[i] \notin {chosen[i], NoSlot}
    BY <1>2, SeatedInTime DEF Plan!Next
<1>3. CASE \A i \in Invitations : chosen'[i] \in {chosen[i], NoSlot}
    <2> DEFINE freed == {i \in Invitations : chosen'[i] = NoSlot}
    <2>1. chosen' = [i \in Invitations |-> IF i \in freed THEN NoSlot ELSE chosen[i]]
        BY <1>1, <1>3
    <2>2. freed \in SUBSET Invitations
        OBVIOUS
    <2> HIDE DEF freed
    <2>3. Plan!Replan
        BY <2>1, <2>2 DEF Plan!Replan
    <2>4. QED
        BY <2>3 DEF Plan!Next
<1>4. QED
    BY <1>2, <1>3

\* The campaign is a SeatPlan: no slot is given to more candidates than it has
\* room for at that moment, however many answer at once.
THEOREM BookingImplementsSeatPlan ==
    ASSUME ~EditsOverlap, \A t, u \in Tabs : t = u
    PROVE  Spec => ImplementsSeatPlan
<1>1. Init => Plan!Init
    BY DEF Init, Plan!Init
<1>2. IInv /\ ApartInv /\ [Next]_vars => [Plan!Next]_<<chosen, capacity>>
    BY StepPlans
<1>3. QED
    BY <1>1, <1>2, ApartInvariant, PTL DEF Spec, ImplementsSeatPlan, Plan!Spec
=============================================================================
