------------------------------- MODULE Reminders -------------------------------
(***************************************************************************)
(* The job that reminds the company and the workers of an interview, a day *)
(* and an hour before it: every five minutes it looks for the accepted     *)
(* invitations whose slot starts in ten minutes around the time it is      *)
(* meant for, looks which reminders are there, and inserts the others.     *)
(*                                                                         *)
(* One slot, which keeps its time.  (updateCampaign may move it: those who *)
(* chose it are asked again, and one who takes it again and was reminded   *)
(* of the old time is not reminded of the new one, as the reminder is      *)
(* known by the invitation, the slot and the lead.)                        *)
(* Time is counted in steps of two minutes and a half, so that             *)
(* the slot need not start on a tick of the job; the two leads are shorter *)
(* than a day and an hour, and further apart than a window is wide.        *)
(***************************************************************************)
EXTENDS Integers, FiniteSets, Sequences

CONSTANTS
    Invited,        \* workers with an invitation
    Ticks,          \* runs of the job that may be open at once
    StartTimes,     \* when the slot may start
    LongLead, ShortLead,    \* 24 h and 1 h
    Company         \* the recipient that is not a worker

ASSUME RemindersAssumption ==
    /\ IsFiniteSet(Ticks)
    /\ StartTimes \subseteq Nat /\ StartTimes # {}
    /\ LongLead \in Nat /\ ShortLead \in Nat /\ LongLead > ShortLead + 4
    /\ Company \notin Invited

VARIABLES
    clock,
    startAt,        \* InterviewSlot.startAt
    accepted,       \* workers who have accepted and chosen the slot
    steady,         \* for each lead the workers accepted since its window opened
    reminded,       \* how often each recipient was reminded of each lead
    tick,           \* where each open run of the job stands, and what it will insert
    ticked,         \* the job was begun at this time
    missed,         \* runs that failed or were still open at the next tick: 0, 1, or many (2)
    tickedApart     \* no two runs were open at once

reminderVars == <<clock, startAt, accepted, steady, reminded, tick, ticked, missed, tickedApart>>

-----------------------------------------------------------------------------
Period == 2                             \* EVERY_5_MINUTES
Leads == {LongLead, ShortLead}
Recipients == Invited \cup {Company}
Links == Recipients \X Leads            \* the link of a notification names both
Many(n) == IF n > 2 THEN 2 ELSE n

\* The phases of handleInterviewReminders, in the order of its calls.
Phases == <<[to |-> "company", lead |-> LongLead], [to |-> "company", lead |-> ShortLead],
            [to |-> "workers", lead |-> LongLead], [to |-> "workers", lead |-> ShortLead]>>
NoTick == [phase |-> 0, insert |-> {}]
OpenTicks == {t \in Ticks : tick[t] # NoTick}

NarrowWindow(lead) == startAt = clock + lead                      \* mutant
InWindow(lead) == startAt - 2 <= clock + lead /\ clock + lead <= startAt + 2

RemindersInit ==
    /\ clock = 0
    /\ startAt \in StartTimes
    /\ accepted \in SUBSET Invited
    /\ steady = [lead \in Leads |-> {}]
    /\ reminded = [l \in Links |-> 0]
    /\ tick = [t \in Ticks |-> NoTick]
    /\ ticked = FALSE /\ missed = 0 /\ tickedApart = TRUE

\* A tick of the job is not skipped: the clock waits for it to begin.
TimePasses ==
    /\ clock <= startAt
    /\ clock % Period = 0 => ticked
    /\ clock' = clock + 1
    /\ ticked' = FALSE
    /\ missed' = IF (clock + 1) % Period = 0 THEN Many(missed + Cardinality(OpenTicks)) ELSE missed
    /\ steady' = [lead \in Leads |->
                    IF clock + 1 = startAt - lead - 2 THEN accepted ELSE steady[lead]]
    /\ UNCHANGED <<startAt, accepted, reminded, tick, tickedApart>>

\* An answer, a withdrawn answer, or a cancelled campaign.
Answer(w) ==
    /\ accepted' = (accepted \ {w}) \cup ({w} \ accepted)
    /\ steady' = [lead \in Leads |-> steady[lead] \ {w}]
    /\ UNCHANGED <<clock, startAt, reminded, tick, ticked, missed, tickedApart>>

-----------------------------------------------------------------------------
\* handleInterviewReminders, begun by the scheduler whether or not the last run
\* is over.
BeginTick(t) ==
    /\ clock % Period = 0 /\ ~ticked
    /\ tick[t] = NoTick
    /\ tick' = [tick EXCEPT ![t].phase = 1]
    /\ ticked' = TRUE
    /\ tickedApart' = (tickedApart /\ OpenTicks = {})
    /\ UNCHANGED <<clock, startAt, accepted, steady, reminded, missed>>

CandidatesOf(phase) ==
    IF accepted = {} \/ ~InWindow(phase.lead) THEN {}
    ELSE IF phase.to = "company" THEN {<<Company, phase.lead>>} ELSE accepted \X {phase.lead}
AllOver(candidates) == candidates                                 \* mutant
WithoutExisting(candidates) == {l \in candidates : reminded[l] = 0}

NextPhase(t) ==
    tick' = [tick EXCEPT ![t] =
                IF @.phase = Len(Phases) THEN NoTick ELSE [phase |-> @.phase + 1, insert |-> {}]]

\* sendEmployerSlotReminders and sendWorkerInvitationReminders: read the
\* invitations and the existing links ...
LookForReminders(t) ==
    LET found == WithoutExisting(CandidatesOf(Phases[tick[t].phase])) IN
    /\ tick[t].phase # 0 /\ tick[t].insert = {}
    /\ IF found = {} THEN NextPhase(t) ELSE tick' = [tick EXCEPT ![t].insert = found]
    /\ UNCHANGED <<clock, startAt, accepted, steady, reminded, ticked, missed, tickedApart>>

\* ... and createMany.
InsertReminders(t) ==
    /\ tick[t].insert # {}
    /\ reminded' = [l \in Links |-> IF l \in tick[t].insert THEN reminded[l] + 1 ELSE reminded[l]]
    /\ NextPhase(t)
    /\ UNCHANGED <<clock, startAt, accepted, steady, ticked, missed, tickedApart>>

\* An error ends the run: the phases that are left are not tried.
TickFails(t) ==
    /\ tick[t] # NoTick
    /\ tick' = [tick EXCEPT ![t] = NoTick]
    /\ missed' = Many(missed + 1)
    /\ UNCHANGED <<clock, startAt, accepted, steady, reminded, ticked, tickedApart>>

RemindersNext ==
    \/ TimePasses
    \/ \E w \in Invited : Answer(w)
    \/ \E t \in Ticks : BeginTick(t) \/ LookForReminders(t) \/ InsertReminders(t) \/ TickFails(t)

RemindersSpec == RemindersInit /\ [][RemindersNext]_reminderVars

-----------------------------------------------------------------------------
RemindersTypeOK ==
    /\ clock \in Nat /\ startAt \in StartTimes /\ clock <= startAt + 1
    /\ accepted \subseteq Invited
    /\ steady \in [Leads -> SUBSET Invited]
    /\ reminded \in [Links -> Nat]
    /\ \A t \in Ticks : tick[t].phase \in 0 .. Len(Phases) /\ tick[t].insert \subseteq Links
    /\ missed \in 0 .. 2 /\ ticked \in BOOLEAN /\ tickedApart \in BOOLEAN

\* Ten minutes around the time are two ticks at least: a worker who has accepted
\* when the window opens, and does not change the answer, has been reminded when
\* it is over - and the company too - although one run of the job failed or was
\* slow.  Nobody is reminded twice unless runs overlap.
RemindedOnce ==
    /\ \A lead \in Leads :
          missed <= 1 /\ clock > startAt - lead + 3 =>
             /\ \A w \in steady[lead] : reminded[<<w, lead>>] >= 1
             /\ steady[lead] # {} => reminded[<<Company, lead>>] >= 1
    /\ tickedApart => \A l \in Links : reminded[l] <= 1
=============================================================================
