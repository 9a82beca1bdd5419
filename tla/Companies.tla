------------------------------- MODULE Companies -------------------------------
(***************************************************************************)
(* The profile of one company: its owner edits it, a manager approves or   *)
(* rejects it.  An approved company's edit waits in an update request and  *)
(* its profile stays as it is until the request is approved.               *)
(*                                                                         *)
(* Each call reads the company first and writes later.  The profile is a   *)
(* number: the edit it comes from.                                         *)
(***************************************************************************)
EXTENDS Integers, FiniteSets

CONSTANTS
    CompanyCalls,   \* calls of the owner and the manager that may be open at once
    MaxEdits        \* bound on edits, the registration included

ASSUME CompaniesAssumption == MaxEdits \in Nat \ {0} /\ IsFiniteSet(CompanyCalls)

VARIABLES
    company,        \* status and profile
    requests,       \* the update requests: a set of status, payload and id
    edits,          \* edits made so far
    seen,           \* profiles a manager has decided on
    lost,           \* edits closed as approved without being applied
    companyPc,      \* where each call stands
    companyRead,    \* what it has read: status, profile or payload, request, verdict
    companyCalm     \* no call was overtaken by another

companyVars == <<company, requests, edits, seen, lost, companyPc, companyRead, companyCalm>>

-----------------------------------------------------------------------------
CompanyStatus == {"PENDING", "APPROVED", "REJECTED", "UPDATING"}
Verdict == {"APPROVED", "REJECTED"}
UpdateRequest == [id : 1 .. MaxEdits, status : Verdict \cup {"PENDING"}, payload : 1 .. MaxEdits]
CompanyPlace == {"idle", "updating", "reviewing", "finding", "applying"}
NothingRead == [status |-> "none", profile |-> 0, request |-> 0, verdict |-> "none"]
OpenCalls == {q \in CompanyCalls : companyPc[q] # "idle"}
PendingRequests == {u \in requests : u.status = "PENDING"}

\* create: the company is PENDING with its first profile.
CompaniesInit ==
    /\ company = [status |-> "PENDING", profile |-> 1]
    /\ requests = {}
    /\ edits = 1
    /\ seen = {} /\ lost = {}
    /\ companyPc = [q \in CompanyCalls |-> "idle"]
    /\ companyRead = [q \in CompanyCalls |-> NothingRead]
    /\ companyCalm = TRUE

Turns(q, place, read) ==
    /\ companyPc' = [companyPc EXCEPT ![q] = place]
    /\ companyRead' = [companyRead EXCEPT ![q] = read]
Ends(q) == Turns(q, "idle", NothingRead)
Begins(q, place, read) ==
    /\ companyPc[q] = "idle"
    /\ Turns(q, place, read)
    /\ companyCalm' = (companyCalm /\ OpenCalls = {})
Seen == [NothingRead EXCEPT !.status = company.status, !.profile = company.profile]

-----------------------------------------------------------------------------
(* update, by the owner.                                                   *)

\* The company is read, then the files are uploaded: time passes.
ReceiveEdit(q) ==
    /\ edits < MaxEdits
    /\ edits' = edits + 1
    /\ Begins(q, "updating", [Seen EXCEPT !.profile = edits + 1])
    /\ UNCHANGED <<company, requests, seen, lost>>

AppliedAtOnce(q) == FALSE                                         \* mutant
WasApproved(q) == companyRead[q].status \in {"APPROVED", "UPDATING"}
NewRequest(payload) == requests \cup
    {[id |-> Cardinality(requests) + 1, status |-> "PENDING", payload |-> payload]}
Proposed(payload) ==
    IF PendingRequests = {} THEN NewRequest(payload)
    ELSE {IF u \in PendingRequests THEN [u EXCEPT !.payload = payload] ELSE u : u \in requests}

\* An approved company's edit goes into its pending request.  The transaction
\* begins with an UPDATE of the company's row, so that another writer of the
\* company waits until it commits: it is one step.
ProposeEdit(q) ==
    /\ companyPc[q] = "updating"
    /\ WasApproved(q)
    /\ company' = [company EXCEPT !.status = "UPDATING"]
    /\ requests' = Proposed(companyRead[q].profile)
    /\ Ends(q)
    /\ UNCHANGED <<edits, seen, lost, companyCalm>>

\* Any other edit is written to the company, and a rejected one is pending again.
WriteEdit(q) ==
    /\ companyPc[q] = "updating"
    /\ ~WasApproved(q)
    /\ company' = [status |-> IF companyRead[q].status = "REJECTED" THEN "PENDING" ELSE company.status,
                   profile |-> companyRead[q].profile]
    /\ Ends(q)
    /\ UNCHANGED <<requests, edits, seen, lost, companyCalm>>

-----------------------------------------------------------------------------
(* review and reviewPendingUpdate, by the manager.                         *)

ReceiveReview(q, verdict) ==
    /\ Begins(q, IF company.status = "UPDATING" THEN "finding" ELSE "reviewing",
              [Seen EXCEPT !.verdict = verdict])
    /\ UNCHANGED <<company, requests, edits, seen, lost>>

Decide(q) ==
    /\ companyPc[q] = "reviewing"
    /\ company' = [company EXCEPT !.status = companyRead[q].verdict]
    /\ seen' = seen \cup {companyRead[q].profile}
    /\ Ends(q)
    /\ UNCHANGED <<requests, edits, lost, companyCalm>>

\* The latest pending request; there is never a second.
FindRequest(q) ==
    /\ companyPc[q] = "finding"
    /\ \/ /\ PendingRequests = {}
          /\ Ends(q)
       \/ \E u \in PendingRequests :
             Turns(q, "applying",
                   [companyRead[q] EXCEPT !.request = u.id, !.profile = u.payload])
    /\ UNCHANGED <<company, requests, edits, seen, lost, companyCalm>>

StaysOpen(q) == requests                                          \* mutant
Closed(q) == {IF u.id = companyRead[q].request
              THEN [u EXCEPT !.status = companyRead[q].verdict] ELSE u : u \in requests}

\* One transaction writes the payload read before to the company and closes the
\* request by id, whatever it has become.
ApplyReview(q) ==
    LET read == companyRead[q]
        approved == read.verdict = "APPROVED"
        dropped == {u.payload : u \in {v \in requests : v.id = read.request}} \ {read.profile}
    IN
    /\ companyPc[q] = "applying"
    /\ company' = [status |-> "APPROVED",
                   profile |-> IF approved THEN read.profile ELSE company.profile]
    /\ requests' = Closed(q)
    /\ seen' = seen \cup {read.profile}
    /\ lost' = IF approved THEN lost \cup dropped ELSE lost
    /\ Ends(q)
    /\ UNCHANGED <<edits, companyCalm>>

CompanyCallFails(q) ==
    /\ companyPc[q] # "idle"
    /\ Ends(q)
    /\ UNCHANGED <<company, requests, edits, seen, lost, companyCalm>>

CompaniesNext ==
    \E q \in CompanyCalls :
        \/ ReceiveEdit(q) \/ ProposeEdit(q) \/ WriteEdit(q)
        \/ \E verdict \in Verdict : ReceiveReview(q, verdict)
        \/ Decide(q) \/ FindRequest(q) \/ ApplyReview(q)
        \/ CompanyCallFails(q)

CompaniesSpec == CompaniesInit /\ [][CompaniesNext]_companyVars

-----------------------------------------------------------------------------
\* Whether the company is found by searchCompanies, may manage its postings, and is
\* in the manager's queue of updates (findPendingUpdates).
FoundBySearch == company.status = "APPROVED"
MayManageJobs == company.status = "APPROVED"
AwaitsUpdateReview == company.status = "UPDATING"
\* The profile that findPendingUpdateRequest shows beside the current one.
ProposedProfiles == {u.payload : u \in PendingRequests}

CompaniesTypeOK ==
    /\ company \in [status : CompanyStatus, profile : 1 .. MaxEdits]
    /\ requests \subseteq UpdateRequest
    /\ edits \in 1 .. MaxEdits
    /\ seen \subseteq 1 .. MaxEdits /\ lost \subseteq 1 .. MaxEdits
    /\ companyPc \in [CompanyCalls -> CompanyPlace]
    /\ companyRead \in [CompanyCalls ->
          [status : CompanyStatus \cup {"none"}, profile : 0 .. MaxEdits,
           request : 0 .. MaxEdits, verdict : Verdict \cup {"none"}]]
    /\ companyCalm \in BOOLEAN

\* An edit of an approved company waits in one request: there are never two
\* pending ones, and while calls do not overlap the manager's queue shows the
\* company exactly while there is one, and no approved edit is dropped - also when
\* calls fail.
EditsAwaitReview ==
    /\ Cardinality(PendingRequests) <= 1
    /\ companyCalm => (AwaitsUpdateReview <=> ProposedProfiles # {}) /\ lost = {}

\* While calls do not overlap, a company that is found, manages its postings or
\* waits for the review of an update has a profile that a manager has decided on
\* (update reads the status before the upload of files, review before it writes).
ProfileReviewed ==
    companyCalm /\ (FoundBySearch \/ MayManageJobs \/ AwaitsUpdateReview)
        => company.profile \in seen

\* No company shows a profile that no manager has seen, and no edit of an approved
\* one is dropped or doubled (company.service update, review and reviewPendingUpdate).
ReviewComesFirst == EditsAwaitReview /\ ProfileReviewed
=============================================================================
