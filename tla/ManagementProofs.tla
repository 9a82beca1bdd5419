-------------------------- MODULE ManagementProofs --------------------------
(***************************************************************************)
(* What a company, an administrator and a matching posting rely on: the    *)
(* profile of a company and its requests, the packages on offer, the       *)
(* copies of the catalogue, the embeddings and the scores; for any number  *)
(* of calls, edits, packages, sectors, occupations, clerks, readers and    *)
(* writers.                                                                *)
(*                                                                         *)
(* Each part has an inductive invariant, a lemma for its initial states,   *)
(* one for its steps, and one that the promises of the part follow from    *)
(* it.                                                                     *)
(***************************************************************************)
EXTENDS Companies, Packages, Catalogue, Embeddings, Matching, FiniteSetTheorems,
        Functions, WellFoundedInduction, TLAPS

-----------------------------------------------------------------------------
(***************************************************************************)
(* The profile of a company: an approved company's edits wait in one       *)
(* request, and no profile is shown that no manager has decided on.        *)
(*                                                                         *)
(* A review closes its request by id, so the ids have to be unique; a new  *)
(* request's id is the number of requests plus one, so no step may make    *)
(* two requests equal. A request is made by an edit that was counted, so   *)
(* the bound on edits is one on ids as well.                               *)
(***************************************************************************)

CompanyRow == [id : Nat, status : Verdict \cup {"PENDING"}, payload : Nat]
CompanyReading == [status : CompanyStatus \cup {"none"}, profile : Nat,
         request : Nat, verdict : Verdict \cup {"none"}]

\* Requests are numbered from one, each has its own number.
Numbered(S) ==
    /\ S \subseteq CompanyRow /\ IsFiniteSet(S)
    /\ \A u \in S : u.id <= Cardinality(S)
    /\ \A u, w \in S : u.id = w.id => u = w

CompanyOnePending == \A u, w \in PendingRequests : u = w

CompanyTyped ==
    /\ company \in [status : CompanyStatus, profile : Nat]
    /\ edits \in Nat
    /\ companyPc \in [CompanyCalls -> CompanyPlace]
    /\ companyRead \in [CompanyCalls -> CompanyReading]
    /\ companyCalm \in BOOLEAN

\* A call that is past its arrival has read the company, one that reviews has its verdict.
CompanyInformed ==
    \A q \in CompanyCalls :
        /\ companyPc[q] = "updating" => companyRead[q].status \in CompanyStatus
        /\ companyPc[q] \in {"reviewing", "finding", "applying"} => companyRead[q].verdict \in Verdict

CompanyInv == CompanyTyped /\ Numbered(requests) /\ CompanyOnePending /\ CompanyInformed

\* In calm an open call is the only one and what it has read still stands.
CompanyOrder(q) ==
    /\ \A w \in CompanyCalls \ {q} : companyPc[w] = "idle"
    /\ companyPc[q] = "updating" => companyRead[q].status = company.status
    /\ companyPc[q] = "reviewing" =>
          company.status # "UPDATING" /\ companyRead[q].profile = company.profile
    /\ companyPc[q] \in {"finding", "applying"} => company.status = "UPDATING"
    /\ companyPc[q] = "applying" =>
          \E u \in PendingRequests : u.id = companyRead[q].request /\ u.payload = companyRead[q].profile

CompanySettled ==
    /\ lost = {}
    /\ company.status = "UPDATING" <=> PendingRequests # {}
    /\ company.status \in {"APPROVED", "UPDATING"} => company.profile \in seen

CompanyCalmOrder == companyCalm => CompanySettled /\ \A q \in OpenCalls : CompanyOrder(q)

-----------------------------------------------------------------------------
\* What a step does to the control state.
LEMMA CompanyTurning ==
    ASSUME CompanyTyped, NEW q \in CompanyCalls, NEW place \in CompanyPlace, NEW read \in CompanyReading,
           Turns(q, place, read)
    PROVE  /\ companyPc' \in [CompanyCalls -> CompanyPlace] /\ companyRead' \in [CompanyCalls -> CompanyReading]
           /\ companyPc'[q] = place /\ companyRead'[q] = read
           /\ \A w \in CompanyCalls \ {q} : companyPc'[w] = companyPc[w] /\ companyRead'[w] = companyRead[w]
    BY DEF CompanyTyped, Turns

\* A call that is idle is well formed.
LEMMA CompanyNothing == NothingRead \in CompanyReading /\ "idle" \in CompanyPlace
    BY DEF NothingRead, CompanyReading, CompanyPlace

\* What a call reads of the company is what the company is.
LEMMA CompanySeenRead == CompanyInv => Seen \in CompanyReading /\ Seen.status = company.status /\ Seen.profile = company.profile
    BY DEF CompanyInv, CompanyTyped, Seen, NothingRead, CompanyReading

\* Requests that are rewritten one by one, each under its id, stay numbered.
LEMMA CompanyRewriteNumbered ==
    ASSUME NEW S, Numbered(S), NEW f \in [S -> CompanyRow], \A u \in S : f[u].id = u.id
    PROVE  Numbered({f[u] : u \in S})
<1> DEFINE T == {f[u] : u \in S}
<1>1. f \in Bijection(S, T)
    BY DEF Numbered, Bijection, Injection, Surjection, IsInjective
<1>2. IsFiniteSet(T) /\ Cardinality(T) = Cardinality(S)
    BY <1>1, FS_Bijection DEF Numbered, ExistsBijection
<1>3. T \subseteq CompanyRow /\ \A u \in T : u.id <= Cardinality(T)
    BY <1>2 DEF Numbered
<1>4. \A u, w \in T : u.id = w.id => u = w
    BY DEF Numbered
<1>5. QED
    BY <1>2, <1>3, <1>4 DEF Numbered

\* A request that is closed keeps its number, and the others are as they were.
LEMMA CompanyClosedNumbered ==
    ASSUME CompanyInv, NEW q \in CompanyCalls, companyRead[q].verdict \in Verdict, requests' = Closed(q)
    PROVE  Numbered(requests)' /\ CompanyOnePending'
           /\ PendingRequests' = {u \in PendingRequests : u.id # companyRead[q].request}
<1> DEFINE f == [u \in requests |-> IF u.id = companyRead[q].request
                                    THEN [u EXCEPT !.status = companyRead[q].verdict] ELSE u]
<1>1. f \in [requests -> CompanyRow] /\ \A u \in requests : f[u].id = u.id
    BY DEF CompanyInv, Numbered, CompanyRow
<1>2. requests' = {f[u] : u \in requests}
    BY DEF Closed
<1> HIDE DEF f
<1>3. Numbered({f[u] : u \in requests})
    BY <1>1, CompanyRewriteNumbered DEF CompanyInv
<1>4. PendingRequests' = {u \in PendingRequests : u.id # companyRead[q].request}
    BY DEF Closed, PendingRequests, Verdict, CompanyInv, Numbered, CompanyRow
<1>5. CompanyOnePending'
    BY <1>4 DEF CompanyInv, CompanyOnePending
<1>6. Numbered(requests)'
    BY <1>2, <1>3 DEF Numbered
<1>7. QED
    BY <1>4, <1>5, <1>6

\* An edit joins the pending request or makes the one there is, with a number of its own.
LEMMA CompanyProposedNumbered ==
    ASSUME CompanyInv, NEW payload \in Nat, requests' = Proposed(payload)
    PROVE  Numbered(requests)' /\ CompanyOnePending' /\ PendingRequests' # {}
<1>1. CASE PendingRequests = {}
  <2> DEFINE new == [id |-> Cardinality(requests) + 1, status |-> "PENDING", payload |-> payload]
  <2>1. requests' = requests \cup {new}
      BY <1>1 DEF Proposed, NewRequest
  <2>2. Cardinality(requests) \in Nat
      BY FS_CardinalityType DEF CompanyInv, Numbered
  <2>3. new \in CompanyRow /\ \A u \in requests : u.id # new.id
      BY <2>2 DEF CompanyInv, Numbered, CompanyRow
  <2>4. IsFiniteSet(requests') /\ Cardinality(requests') = Cardinality(requests) + 1
      BY <2>1, <2>3, FS_AddElement DEF CompanyInv, Numbered
  <2>5. Numbered(requests)'
    <3>1. requests' \subseteq CompanyRow
        BY <2>1, <2>3 DEF CompanyInv, Numbered
    <3>2. \A u \in requests' : u.id <= Cardinality(requests')
      <4>1. \A u \in requests : u.id \in Nat /\ u.id <= Cardinality(requests)
          BY DEF CompanyInv, Numbered, CompanyRow
      <4>2. QED
          BY <2>1, <2>2, <2>4, <4>1
    <3>3. \A u, w \in requests' : u.id = w.id => u = w
        BY <2>1, <2>3 DEF CompanyInv, Numbered
    <3>4. QED
        BY <2>4, <3>1, <3>2, <3>3 DEF Numbered
  <2>6. PendingRequests' = {new}
      BY <1>1, <2>1 DEF PendingRequests
  <2>7. QED
      BY <2>5, <2>6 DEF CompanyOnePending
<1>2. CASE PendingRequests # {}
  <2> DEFINE f == [u \in requests |-> IF u \in PendingRequests
                                      THEN [u EXCEPT !.payload = payload] ELSE u]
  <2>1. f \in [requests -> CompanyRow] /\ \A u \in requests : f[u].id = u.id
      BY DEF CompanyInv, Numbered, CompanyRow
  <2>2. requests' = {f[u] : u \in requests}
      BY <1>2 DEF Proposed
  <2>3. \A u \in requests : f[u].status = u.status
      BY DEF CompanyInv, Numbered, CompanyRow
  <2> HIDE DEF f
  <2>4. Numbered({f[u] : u \in requests})
      BY <2>1, CompanyRewriteNumbered DEF CompanyInv
  <2>5. PendingRequests' = {f[u] : u \in PendingRequests}
      BY <2>2, <2>3 DEF PendingRequests
  <2>6. PendingRequests' # {} /\ CompanyOnePending'
      BY <1>2, <2>5 DEF CompanyInv, CompanyOnePending
  <2>7. Numbered(requests)'
      BY <2>2, <2>4 DEF Numbered
  <2>8. QED
      BY <2>6, <2>7
<1>3. QED
    BY <1>1, <1>2

-----------------------------------------------------------------------------
\* A call that leaves, or moves to a place where it has read what that place needs.
LEMMA CompanyStepInv ==
    ASSUME CompanyInv, NEW q \in CompanyCalls, NEW place \in CompanyPlace, NEW read \in CompanyReading,
           Turns(q, place, read),
           place = "updating" => read.status \in CompanyStatus,
           place \in {"reviewing", "finding", "applying"} => read.verdict \in Verdict,
           company' \in [status : CompanyStatus, profile : Nat], edits' \in Nat, companyCalm' \in BOOLEAN,
           Numbered(requests)' /\ CompanyOnePending'
    PROVE  CompanyInv'
<1>1. CompanyTyped'
    BY CompanyTurning DEF CompanyInv, CompanyTyped
<1>2. CompanyInformed'
    BY CompanyTurning DEF CompanyInv, CompanyInformed
<1>3. QED
    BY <1>1, <1>2 DEF CompanyInv

\* A call that ends keeps the invariant if the company and the requests are left well formed.
LEMMA CompanyEndInv ==
    ASSUME CompanyInv, NEW q \in CompanyCalls, Ends(q), UNCHANGED <<edits, companyCalm>>,
           company' \in [status : CompanyStatus, profile : Nat], Numbered(requests)' /\ CompanyOnePending'
    PROVE  CompanyInv'
    BY CompanyNothing, CompanyStepInv DEF CompanyInv, CompanyTyped, Ends

\* Requests that are left alone stay numbered.
LEMMA CompanySameRequests ==
    CompanyInv /\ UNCHANGED requests => Numbered(requests)' /\ CompanyOnePending'
    BY DEF CompanyInv, Numbered, CompanyOnePending, PendingRequests

\* A company begins without requests.
LEMMA CompanyInitInv == CompaniesInit => CompanyInv /\ CompanyCalmOrder
<1> SUFFICES ASSUME CompaniesInit PROVE CompanyInv /\ CompanyCalmOrder
    OBVIOUS
<1>1. CompanyTyped /\ CompanyInformed
    BY CompanyNothing DEF CompaniesInit, CompanyTyped, CompanyInformed, CompanyStatus, CompanyPlace
<1>2. Numbered(requests) /\ PendingRequests = {}
    BY FS_EmptySet DEF CompaniesInit, Numbered, PendingRequests
<1>3. CompanyCalmOrder
    BY <1>2 DEF CompaniesInit, CompanyCalmOrder, CompanySettled, OpenCalls
<1>4. QED
    BY <1>1, <1>2, <1>3 DEF CompanyInv, CompanyOnePending

\* Every step of a call keeps the invariant.
LEMMA CompanyNextInv == CompanyInv /\ [CompaniesNext]_companyVars => CompanyInv'
<1> SUFFICES ASSUME CompanyInv, [CompaniesNext]_companyVars PROVE CompanyInv'
    OBVIOUS
<1>0. /\ company \in [status : CompanyStatus, profile : Nat] /\ edits \in Nat
      /\ companyRead \in [CompanyCalls -> CompanyReading] /\ companyCalm \in BOOLEAN
    BY DEF CompanyInv, CompanyTyped
<1>1. ASSUME NEW q \in CompanyCalls, ReceiveEdit(q) PROVE CompanyInv'
  <2> DEFINE read == [Seen EXCEPT !.profile = edits + 1]
  <2>1. read \in CompanyReading /\ read.status = company.status
      BY <1>0, CompanySeenRead DEF CompanyReading
  <2>2. /\ Turns(q, "updating", read) /\ companyCalm' \in BOOLEAN /\ edits' \in Nat
        /\ UNCHANGED <<company, requests>>
      BY <1>0, <1>1 DEF ReceiveEdit, Begins
  <2> HIDE DEF read
  <2>3. QED
      BY <1>0, <2>1, <2>2, CompanySameRequests, CompanyStepInv DEF CompanyPlace
<1>2. ASSUME NEW q \in CompanyCalls, ProposeEdit(q) PROVE CompanyInv'
  <2>1. companyRead[q].profile \in Nat
      BY <1>0 DEF CompanyReading
  <2>2. Numbered(requests)' /\ CompanyOnePending'
      BY <1>2, <2>1, CompanyProposedNumbered DEF ProposeEdit
  <2>3. company' \in [status : CompanyStatus, profile : Nat]
      BY <1>0, <1>2 DEF ProposeEdit, CompanyStatus
  <2>4. QED
      BY <1>2, <2>2, <2>3, CompanyEndInv DEF ProposeEdit
<1>3. ASSUME NEW q \in CompanyCalls, WriteEdit(q) PROVE CompanyInv'
  <2>1. company' \in [status : CompanyStatus, profile : Nat]
      BY <1>0, <1>3 DEF WriteEdit, CompanyStatus, CompanyReading
  <2>2. QED
      BY <1>3, <2>1, CompanySameRequests, CompanyEndInv DEF WriteEdit
<1>4. ASSUME NEW q \in CompanyCalls, NEW verdict \in Verdict, ReceiveReview(q, verdict) PROVE CompanyInv'
  <2> DEFINE read == [Seen EXCEPT !.verdict = verdict]
             place == IF company.status = "UPDATING" THEN "finding" ELSE "reviewing"
  <2>1. read \in CompanyReading /\ read.verdict = verdict
      BY <1>0, CompanySeenRead DEF CompanyReading
  <2>2. place \in CompanyPlace /\ place # "updating"
      BY DEF CompanyPlace
  <2>3. Turns(q, place, read) /\ companyCalm' \in BOOLEAN /\ UNCHANGED <<company, requests, edits>>
      BY <1>4, <1>0 DEF ReceiveReview, Begins
  <2> HIDE DEF read, place
  <2>4. QED
      BY <1>0, <2>1, <2>2, <2>3, CompanySameRequests, CompanyStepInv
<1>5. ASSUME NEW q \in CompanyCalls, Decide(q) PROVE CompanyInv'
  <2>1. companyRead[q].verdict \in Verdict
      BY <1>5 DEF Decide, CompanyInv, CompanyInformed
  <2>2. company' \in [status : CompanyStatus, profile : Nat]
      BY <1>0, <1>5, <2>1 DEF Decide, CompanyStatus, Verdict
  <2>3. QED
      BY <1>5, <2>2, CompanySameRequests, CompanyEndInv DEF Decide
<1>6. ASSUME NEW q \in CompanyCalls, FindRequest(q) PROVE CompanyInv'
  <2>1. CASE Ends(q)
      BY <1>0, <1>6, <2>1, CompanySameRequests, CompanyEndInv DEF FindRequest
  <2>2. ASSUME NEW u \in PendingRequests,
               Turns(q, "applying", [companyRead[q] EXCEPT !.request = u.id, !.profile = u.payload])
        PROVE  CompanyInv'
    <3> DEFINE read == [companyRead[q] EXCEPT !.request = u.id, !.profile = u.payload]
    <3>1. u.id \in Nat /\ u.payload \in Nat
        BY DEF CompanyInv, PendingRequests, Numbered, CompanyRow
    <3>2. read \in CompanyReading /\ read.verdict = companyRead[q].verdict
        BY <1>0, <3>1 DEF CompanyReading
    <3>3. companyRead[q].verdict \in Verdict
        BY <1>6 DEF FindRequest, CompanyInv, CompanyInformed
    <3> HIDE DEF read
    <3>4. Turns(q, "applying", read)
        BY <2>2 DEF read
    <3>5. QED
        BY <1>0, <1>6, <3>2, <3>3, <3>4, CompanySameRequests, CompanyStepInv DEF FindRequest, CompanyPlace
  <2>3. QED
      BY <1>6, <2>1, <2>2 DEF FindRequest
<1>7. ASSUME NEW q \in CompanyCalls, ApplyReview(q) PROVE CompanyInv'
  <2>1. companyRead[q].verdict \in Verdict
      BY <1>7 DEF ApplyReview, CompanyInv, CompanyInformed
  <2>2. Numbered(requests)' /\ CompanyOnePending'
      BY <1>7, <2>1, CompanyClosedNumbered DEF ApplyReview
  <2>3. company' \in [status : CompanyStatus, profile : Nat]
      BY <1>0, <1>7 DEF ApplyReview, CompanyStatus, CompanyReading
  <2>4. QED
      BY <1>7, <2>2, <2>3, CompanyEndInv DEF ApplyReview
<1>8. ASSUME NEW q \in CompanyCalls, CompanyCallFails(q) PROVE CompanyInv'
    BY <1>0, <1>8, CompanySameRequests, CompanyEndInv DEF CompanyCallFails
<1>9. CASE UNCHANGED companyVars
    BY <1>9 DEF companyVars, CompanyInv, CompanyTyped, Numbered, CompanyOnePending, PendingRequests, CompanyInformed
<1>10. QED
    BY <1>1, <1>2, <1>3, <1>4, <1>5, <1>6, <1>7, <1>8, <1>9 DEF CompaniesNext

-----------------------------------------------------------------------------
\* A call that ends leaves no call to be ordered.
LEMMA CompanyEndCalm ==
    ASSUME CompanyInv, CompanyCalmOrder, NEW q \in CompanyCalls, companyPc[q] # "idle", Ends(q),
           UNCHANGED companyCalm, companyCalm /\ CompanySettled /\ CompanyOrder(q) => CompanySettled'
    PROVE  CompanyCalmOrder'
<1>1. /\ companyPc'[q] = "idle"
      /\ \A w \in CompanyCalls \ {q} : companyPc'[w] = companyPc[w]
    BY CompanyTurning, CompanyNothing DEF Ends, CompanyInv
<1>2. companyCalm => OpenCalls' = {}
    BY <1>1 DEF CompanyCalmOrder, OpenCalls, CompanyOrder
<1>3. QED
    BY <1>2 DEF CompanyCalmOrder, OpenCalls

\* In calm a call begins alone.
LEMMA CompanyBeginCalm ==
    ASSUME CompanyInv, CompanyCalmOrder, NEW q \in CompanyCalls, NEW place \in CompanyPlace, NEW read \in CompanyReading,
           Begins(q, place, read), UNCHANGED <<company, requests, seen, lost>>,
           place = "updating" => read.status = company.status,
           place = "reviewing" => company.status # "UPDATING" /\ read.profile = company.profile,
           place = "finding" => company.status = "UPDATING",
           place # "applying"
    PROVE  CompanyCalmOrder'
<1>1. /\ companyPc'[q] = place /\ companyRead'[q] = read
      /\ \A w \in CompanyCalls \ {q} : companyPc'[w] = companyPc[w]
    BY CompanyTurning DEF Begins, CompanyInv
<1>2. companyCalm' => companyCalm /\ \A w \in CompanyCalls : companyPc[w] = "idle"
    BY DEF Begins, OpenCalls, CompanyInv, CompanyTyped
<1>3. companyCalm' => CompanySettled'
    BY <1>2 DEF CompanyCalmOrder, CompanySettled, PendingRequests
<1>4. ASSUME companyCalm', NEW w \in OpenCalls' PROVE CompanyOrder(w)'
  <2>1. w = q
      BY <1>1, <1>2, <1>4 DEF OpenCalls
  <2>2. QED
      BY <1>1, <1>2, <1>4, <2>1 DEF CompanyOrder
<1>5. QED
    BY <1>3, <1>4 DEF CompanyCalmOrder

\* Every step keeps what holds in calm.
LEMMA CompanyNextCalm == CompanyInv /\ CompanyCalmOrder /\ [CompaniesNext]_companyVars => CompanyCalmOrder'
<1> SUFFICES ASSUME CompanyInv, CompanyCalmOrder, [CompaniesNext]_companyVars PROVE CompanyCalmOrder'
    OBVIOUS
<1>0. /\ company \in [status : CompanyStatus, profile : Nat] /\ edits \in Nat
      /\ companyRead \in [CompanyCalls -> CompanyReading]
    BY DEF CompanyInv, CompanyTyped
<1>1. ASSUME NEW q \in CompanyCalls, ReceiveEdit(q) PROVE CompanyCalmOrder'
  <2> DEFINE read == [Seen EXCEPT !.profile = edits + 1]
  <2>1. read \in CompanyReading /\ read.status = company.status
      BY <1>0, CompanySeenRead DEF CompanyReading
  <2>2. Begins(q, "updating", read) /\ UNCHANGED <<company, requests, seen, lost>>
      BY <1>1 DEF ReceiveEdit
  <2> HIDE DEF read
  <2>3. QED
      BY <2>1, <2>2, CompanyBeginCalm DEF CompanyPlace
<1>2. ASSUME NEW q \in CompanyCalls, ProposeEdit(q) PROVE CompanyCalmOrder'
  <2>1. PendingRequests' # {}
      BY <1>0, <1>2, CompanyProposedNumbered DEF ProposeEdit, CompanyReading
  <2>2. /\ companyPc[q] = "updating" /\ companyRead[q].status \in {"APPROVED", "UPDATING"}
        /\ company'.status = "UPDATING" /\ company'.profile = company.profile
        /\ Ends(q) /\ UNCHANGED <<seen, lost, companyCalm>>
      BY <1>0, <1>2 DEF ProposeEdit, WasApproved
  <2>3. companyCalm /\ CompanySettled /\ CompanyOrder(q) => CompanySettled'
      BY <2>1, <2>2 DEF CompanySettled, CompanyOrder
  <2>4. QED
      BY <2>2, <2>3, CompanyEndCalm
<1>3. ASSUME NEW q \in CompanyCalls, WriteEdit(q) PROVE CompanyCalmOrder'
  <2>1. /\ companyPc[q] = "updating" /\ companyRead[q].status \notin {"APPROVED", "UPDATING"}
        /\ company'.status = IF companyRead[q].status = "REJECTED" THEN "PENDING" ELSE company.status
        /\ Ends(q) /\ UNCHANGED <<requests, seen, lost, companyCalm>>
      BY <1>3 DEF WriteEdit, WasApproved
  <2>2. companyCalm /\ CompanySettled /\ CompanyOrder(q) => CompanySettled'
      BY <2>1 DEF CompanySettled, CompanyOrder, PendingRequests
  <2>3. QED
      BY <2>1, <2>2, CompanyEndCalm
<1>4. ASSUME NEW q \in CompanyCalls, NEW verdict \in Verdict, ReceiveReview(q, verdict) PROVE CompanyCalmOrder'
  <2> DEFINE read == [Seen EXCEPT !.verdict = verdict]
             place == IF company.status = "UPDATING" THEN "finding" ELSE "reviewing"
  <2>1. read \in CompanyReading /\ read.profile = company.profile
      BY <1>0, CompanySeenRead DEF CompanyReading
  <2>2. /\ place \in {"finding", "reviewing"} /\ place \in CompanyPlace
        /\ place = "finding" <=> company.status = "UPDATING"
      BY DEF CompanyPlace
  <2>3. Begins(q, place, read) /\ UNCHANGED <<company, requests, seen, lost>>
      BY <1>4 DEF ReceiveReview
  <2> HIDE DEF read, place
  <2>4. QED
      BY <2>1, <2>2, <2>3, CompanyBeginCalm
<1>5. ASSUME NEW q \in CompanyCalls, Decide(q) PROVE CompanyCalmOrder'
  <2>1. /\ companyPc[q] = "reviewing" /\ companyRead[q].verdict \in Verdict
        /\ company'.status = companyRead[q].verdict /\ company'.profile = company.profile
        /\ seen' = seen \cup {companyRead[q].profile}
        /\ Ends(q) /\ UNCHANGED <<requests, lost, companyCalm>>
      BY <1>0, <1>5 DEF Decide, CompanyInv, CompanyInformed
  <2>2. companyCalm /\ CompanySettled /\ CompanyOrder(q) => CompanySettled'
      BY <2>1 DEF CompanySettled, CompanyOrder, PendingRequests, Verdict
  <2>3. QED
      BY <2>1, <2>2, CompanyEndCalm
<1>6. ASSUME NEW q \in CompanyCalls, FindRequest(q) PROVE CompanyCalmOrder'
  <2>1. CASE Ends(q)
    <3>1. CompanySettled => CompanySettled'
        BY <1>6 DEF FindRequest, CompanySettled, PendingRequests
    <3>2. QED
        BY <1>6, <2>1, <3>1, CompanyEndCalm DEF FindRequest
  <2>2. ASSUME NEW u \in PendingRequests,
               Turns(q, "applying", [companyRead[q] EXCEPT !.request = u.id, !.profile = u.payload])
        PROVE  CompanyCalmOrder'
    <3> DEFINE read == [companyRead[q] EXCEPT !.request = u.id, !.profile = u.payload]
    <3>1. u.id \in Nat /\ u.payload \in Nat
        BY DEF CompanyInv, PendingRequests, Numbered, CompanyRow
    <3>2. read \in CompanyReading /\ read.request = u.id /\ read.profile = u.payload
        BY <1>0, <3>1 DEF CompanyReading
    <3> HIDE DEF read
    <3>3. Turns(q, "applying", read)
        BY <2>2 DEF read
    <3>4. /\ companyPc'[q] = "applying" /\ companyRead'[q] = read
          /\ \A w \in CompanyCalls \ {q} : companyPc'[w] = companyPc[w]
        BY <3>2, <3>3, CompanyTurning DEF CompanyInv, CompanyPlace
    <3>5. companyPc[q] = "finding" /\ UNCHANGED <<company, requests, seen, lost, companyCalm>>
        BY <1>6 DEF FindRequest
    <3>6. companyCalm => CompanySettled' /\ CompanyOrder(q) /\ PendingRequests' = PendingRequests
        BY <3>5 DEF CompanyCalmOrder, CompanySettled, PendingRequests, OpenCalls
    <3>7. ASSUME companyCalm, NEW w \in OpenCalls' PROVE CompanyOrder(w)'
      <4>1. w = q
          BY <3>4, <3>6, <3>7 DEF OpenCalls, CompanyOrder
      <4>2. \A x \in CompanyCalls \ {q} : companyPc'[x] = "idle"
          BY <3>4, <3>6, <3>7 DEF CompanyOrder
      <4>3. company'.status = "UPDATING"
          BY <3>5, <3>6, <3>7 DEF CompanyOrder
      <4>4. QED
          BY <3>2, <3>4, <3>6, <3>7, <4>1, <4>2, <4>3 DEF CompanyOrder
    <3>8. QED
        BY <3>5, <3>6, <3>7 DEF CompanyCalmOrder
  <2>3. QED
      BY <1>6, <2>1, <2>2 DEF FindRequest
<1>7. ASSUME NEW q \in CompanyCalls, ApplyReview(q) PROVE CompanyCalmOrder'
  <2> DEFINE read == companyRead[q]
             dropped == {u.payload : u \in {v \in requests : v.id = read.request}} \ {read.profile}
  <2>1. /\ companyPc[q] = "applying" /\ read.verdict \in Verdict /\ requests' = Closed(q)
        /\ company'.status = "APPROVED"
        /\ company'.profile = IF read.verdict = "APPROVED" THEN read.profile ELSE company.profile
        /\ seen' = seen \cup {read.profile}
        /\ lost' = IF read.verdict = "APPROVED" THEN lost \cup dropped ELSE lost
        /\ Ends(q) /\ UNCHANGED companyCalm
      BY <1>0, <1>7 DEF ApplyReview, CompanyInv, CompanyInformed
  <2>2. PendingRequests' = {u \in PendingRequests : u.id # read.request}
      BY <2>1, CompanyClosedNumbered
  <2>3. ASSUME companyCalm, CompanySettled, CompanyOrder(q) PROVE CompanySettled'
    <3>1. PICK u \in PendingRequests : u.id = read.request /\ u.payload = read.profile
        BY <2>1, <2>3 DEF CompanyOrder
    <3>2. PendingRequests' = {}
        BY <2>2, <3>1 DEF CompanyInv, CompanyOnePending
    <3>3. dropped = {}
        BY <3>1 DEF CompanyInv, Numbered, PendingRequests
    <3>4. company.status = "UPDATING"
        BY <2>1, <2>3 DEF CompanyOrder
    <3> HIDE DEF dropped
    <3>5. QED
        BY <2>1, <2>3, <3>2, <3>3, <3>4 DEF CompanySettled
  <2>4. QED
      BY <2>1, <2>3, CompanyEndCalm
<1>8. ASSUME NEW q \in CompanyCalls, CompanyCallFails(q) PROVE CompanyCalmOrder'
  <2>1. CompanySettled => CompanySettled'
      BY <1>8 DEF CompanyCallFails, CompanySettled, PendingRequests
  <2>2. QED
      BY <1>8, <2>1, CompanyEndCalm DEF CompanyCallFails
<1>9. CASE UNCHANGED companyVars
  <2>1. OpenCalls' = OpenCalls /\ PendingRequests' = PendingRequests /\ (CompanySettled => CompanySettled')
      BY <1>9 DEF companyVars, OpenCalls, PendingRequests, CompanySettled
  <2>2. \A q \in OpenCalls : CompanyOrder(q) => CompanyOrder(q)'
      BY <1>9, <2>1 DEF companyVars, CompanyOrder
  <2>3. QED
      BY <1>9, <2>1, <2>2 DEF companyVars, CompanyCalmOrder
<1>10. QED
    BY <1>1, <1>2, <1>3, <1>4, <1>5, <1>6, <1>7, <1>8, <1>9 DEF CompaniesNext

-----------------------------------------------------------------------------
(* How far the numbers go: every request and every call that is about to   *)
(* make one stands for an edit of its own.                                 *)

Updating == {q \in CompanyCalls : companyPc[q] = "updating"}

\* Requests rewritten one by one, each under its id, are no more than there were.
LEMMA CompanyRewriteCount ==
    ASSUME NEW S, Numbered(S), NEW f \in [S -> CompanyRow], \A u \in S : f[u].id = u.id
    PROVE  Cardinality({f[u] : u \in S}) = Cardinality(S)
<1> DEFINE T == {f[u] : u \in S}
<1>1. f \in Bijection(S, T)
    BY DEF Numbered, Bijection, Injection, Surjection, IsInjective
<1>2. QED
    BY <1>1, FS_Bijection DEF Numbered, ExistsBijection

Payloads == \A u \in requests : u.id \in 1 .. MaxEdits /\ u.payload \in 1 .. MaxEdits
EditsSuffice == Cardinality(requests) + Cardinality(Updating) + 1 <= edits
CompanyBounds ==
    /\ company.profile \in 1 .. MaxEdits /\ edits \in 1 .. MaxEdits
    /\ Payloads /\ EditsSuffice
    /\ seen \subseteq 1 .. MaxEdits /\ lost \subseteq 1 .. MaxEdits
    /\ \A q \in CompanyCalls :
          /\ companyRead[q].profile <= MaxEdits /\ companyRead[q].request <= MaxEdits
          /\ companyPc[q] # "idle" => companyRead[q].profile >= 1

\* The calls that are updating are a finite set.
LEMMA UpdatingFinite ==
    /\ IsFiniteSet(Updating) /\ Cardinality(Updating) \in Nat
    /\ IsFiniteSet(Updating') /\ Cardinality(Updating') \in Nat
    BY FS_Subset, FS_CardinalityType, CompaniesAssumption DEF Updating

\* What a call that moves does to the calls that are updating.
LEMMA UpdatingMoves ==
    ASSUME CompanyInv, NEW q \in CompanyCalls, NEW place \in CompanyPlace, NEW read \in CompanyReading,
           Turns(q, place, read)
    PROVE  /\ place # "updating" => Updating' = Updating \ {q}
           /\ place = "updating" => Updating' = Updating \cup {q}
    BY CompanyTurning DEF CompanyInv, Updating

\* A call that moves but to make an edit, without a new request.
LEMMA MovesBounds ==
    ASSUME CompanyInv, CompanyBounds, NEW q \in CompanyCalls, NEW place \in CompanyPlace,
           NEW read \in CompanyReading, Turns(q, place, read), place # "updating",
           read.profile <= MaxEdits, read.request <= MaxEdits,
           place # "idle" => read.profile >= 1,
           company'.profile \in 1 .. MaxEdits, UNCHANGED edits,
           seen' \subseteq 1 .. MaxEdits, lost' \subseteq 1 .. MaxEdits,
           Payloads',
           Cardinality(requests') \in Nat,
           Cardinality(requests') <= Cardinality(requests)
             \/ (q \in Updating /\ Cardinality(requests') <= Cardinality(requests) + 1)
    PROVE  CompanyBounds'
<1>1. Cardinality(requests) \in Nat /\ edits \in Nat
    BY FS_CardinalityType DEF CompanyInv, Numbered, CompanyTyped
<1>2. Updating' = Updating \ {q}
    BY UpdatingMoves
<1>3. /\ Cardinality(Updating') <= Cardinality(Updating)
      /\ q \in Updating => Cardinality(Updating') = Cardinality(Updating) - 1
    BY <1>2, UpdatingFinite, FS_RemoveElement
<1>4. EditsSuffice'
    BY <1>1, <1>3, UpdatingFinite DEF EditsSuffice, CompanyBounds
<1>5. \A w \in CompanyCalls :
          /\ companyRead'[w].profile <= MaxEdits /\ companyRead'[w].request <= MaxEdits
          /\ companyPc'[w] # "idle" => companyRead'[w].profile >= 1
    BY CompanyTurning DEF CompanyInv, CompanyBounds
<1>6. QED
    BY <1>4, <1>5 DEF CompanyBounds

\* A call that ends keeps the bounds: only an edit may have made a request.
LEMMA EndsBounds ==
    ASSUME CompanyInv, CompanyBounds, NEW q \in CompanyCalls, Ends(q),
           company'.profile \in 1 .. MaxEdits, UNCHANGED edits,
           seen' \subseteq 1 .. MaxEdits, lost' \subseteq 1 .. MaxEdits,
           Payloads', Cardinality(requests') \in Nat,
           Cardinality(requests') <= Cardinality(requests)
             \/ (q \in Updating /\ Cardinality(requests') <= Cardinality(requests) + 1)
    PROVE  CompanyBounds'
<1>1. NothingRead.profile <= MaxEdits /\ NothingRead.request <= MaxEdits
    BY CompaniesAssumption DEF NothingRead
<1>2. QED
    BY <1>1, CompanyNothing, MovesBounds DEF Ends

\* What a call has read is within the bounds.
LEMMA ReadBounded ==
    ASSUME CompanyInv, CompanyBounds, NEW q \in CompanyCalls, companyPc[q] # "idle"
    PROVE  companyRead[q].profile \in 1 .. MaxEdits /\ companyRead[q].request \in 0 .. MaxEdits
<1>1. companyRead[q] \in CompanyReading
    BY DEF CompanyInv, CompanyTyped
<1>2. QED
    BY <1>1, CompaniesAssumption DEF CompanyReading, CompanyBounds

\* The requests can be counted.
LEMMA RequestsFinite ==
    ASSUME CompanyInv
    PROVE  /\ Cardinality(requests) \in Nat
           /\ UNCHANGED requests => Cardinality(requests') = Cardinality(requests)
    BY FS_CardinalityType DEF CompanyInv, Numbered

\* An edit makes one request at most.
LEMMA ProposedBounds ==
    ASSUME CompanyInv, CompanyBounds, NEW payload \in 1 .. MaxEdits, requests' = Proposed(payload),
           Updating # {}
    PROVE  /\ Payloads' /\ Cardinality(requests') \in Nat
           /\ Cardinality(requests') <= Cardinality(requests) + 1
<1>0. IsFiniteSet(requests) /\ Cardinality(requests) \in Nat /\ edits \in 1 .. MaxEdits
    BY FS_CardinalityType DEF CompanyInv, Numbered, CompanyBounds
<1>1. CASE PendingRequests = {}
  <2> DEFINE new == [id |-> Cardinality(requests) + 1, status |-> "PENDING", payload |-> payload]
  <2>1. requests' = requests \cup {new}
      BY <1>1 DEF Proposed, NewRequest
  <2>2. Cardinality(Updating) # 0
      BY UpdatingFinite, FS_EmptySet
  <2>3. new.id \in 1 .. MaxEdits
      BY <1>0, <2>2, UpdatingFinite, CompaniesAssumption DEF CompanyBounds, EditsSuffice
  <2> HIDE DEF new
  <2>4. new.payload = payload
      BY DEF new
  <2>5. Payloads'
      BY <2>1, <2>3, <2>4 DEF CompanyBounds, Payloads
  <2>6. Cardinality(requests') \in {Cardinality(requests), Cardinality(requests) + 1}
      BY <1>0, <2>1, FS_AddElement
  <2>7. QED
      BY <1>0, <2>5, <2>6
<1>2. CASE PendingRequests # {}
  <2> DEFINE f == [u \in requests |-> IF u \in PendingRequests
                                      THEN [u EXCEPT !.payload = payload] ELSE u]
  <2>1. f \in [requests -> CompanyRow] /\ \A u \in requests : f[u].id = u.id
      BY DEF CompanyInv, Numbered, CompanyRow
  <2>2. requests' = {f[u] : u \in requests}
      BY <1>2 DEF Proposed
  <2>3. \A u \in requests : f[u].payload \in 1 .. MaxEdits
      BY DEF CompanyInv, Numbered, CompanyRow, CompanyBounds, Payloads
  <2> HIDE DEF f
  <2>4. Cardinality({f[u] : u \in requests}) = Cardinality(requests)
      BY <2>1, CompanyRewriteCount DEF CompanyInv
  <2>5. Payloads'
      BY <2>1, <2>2, <2>3 DEF CompanyBounds, Payloads
  <2>6. QED
      BY <1>0, <2>2, <2>4, <2>5
<1>3. QED
    BY <1>1, <1>2

\* A request that is closed keeps its payload, and there are as many.
LEMMA ClosedBounds ==
    ASSUME CompanyInv, CompanyBounds, NEW q \in CompanyCalls, companyRead[q].verdict \in Verdict,
           requests' = Closed(q)
    PROVE  Payloads' /\ Cardinality(requests') = Cardinality(requests)
<1> DEFINE f == [u \in requests |-> IF u.id = companyRead[q].request
                                    THEN [u EXCEPT !.status = companyRead[q].verdict] ELSE u]
<1>1. f \in [requests -> CompanyRow] /\ \A u \in requests : f[u].id = u.id /\ f[u].payload = u.payload
    BY DEF CompanyInv, Numbered, CompanyRow
<1>2. requests' = {f[u] : u \in requests}
    BY DEF Closed
<1> HIDE DEF f
<1>3. Cardinality({f[u] : u \in requests}) = Cardinality(requests)
    BY <1>1, CompanyRewriteCount DEF CompanyInv
<1>4. Payloads'
    BY <1>1, <1>2 DEF CompanyBounds, Payloads
<1>5. QED
    BY <1>2, <1>3, <1>4

\* A company begins within the bounds.
LEMMA CompanyInitBounds == CompaniesInit => CompanyBounds
<1> SUFFICES ASSUME CompaniesInit PROVE CompanyBounds
    OBVIOUS
<1>1. Updating = {} /\ requests = {} /\ edits = 1
    BY DEF CompaniesInit, Updating
<1>2. EditsSuffice
    BY <1>1, FS_EmptySet DEF EditsSuffice
<1>3. QED
    BY <1>1, <1>2, CompaniesAssumption DEF CompaniesInit, CompanyBounds, Payloads, NothingRead

\* Every step of a call keeps the bounds.
LEMMA CompanyNextBounds ==
    CompanyInv /\ CompanyBounds /\ [CompaniesNext]_companyVars => CompanyBounds'
<1> SUFFICES ASSUME CompanyInv, CompanyBounds, [CompaniesNext]_companyVars PROVE CompanyBounds'
    OBVIOUS
<1>0. /\ company \in [status : CompanyStatus, profile : Nat] /\ edits \in 1 .. MaxEdits
      /\ companyRead \in [CompanyCalls -> CompanyReading]
      /\ company.profile \in 1 .. MaxEdits /\ seen \subseteq 1 .. MaxEdits /\ lost \subseteq 1 .. MaxEdits
      /\ Payloads /\ MaxEdits \in Nat
    BY CompaniesAssumption DEF CompanyInv, CompanyTyped, CompanyBounds
<1>a. UNCHANGED requests => Payloads'
    BY <1>0 DEF Payloads
<1>1. ASSUME NEW q \in CompanyCalls, ReceiveEdit(q) PROVE CompanyBounds'
  <2> DEFINE read == [Seen EXCEPT !.profile = edits + 1]
  <2>0. edits + 1 \in Nat
      BY <1>0
  <2>1. read \in CompanyReading /\ read.profile = edits + 1 /\ read.request = 0
      BY <1>0, <2>0 DEF CompanyReading, Seen, NothingRead
  <2>2. /\ Turns(q, "updating", read) /\ edits' = edits + 1 /\ edits < MaxEdits
        /\ UNCHANGED <<company, requests, seen, lost>>
      BY <1>1 DEF ReceiveEdit, Begins
  <2> HIDE DEF read
  <2>3. Updating' = Updating \cup {q}
      BY <2>1, <2>2, UpdatingMoves DEF CompanyPlace
  <2>4. Cardinality(Updating') <= Cardinality(Updating) + 1
      BY <2>3, UpdatingFinite, FS_AddElement
  <2>5. EditsSuffice'
      BY <1>0, <2>2, <2>4, UpdatingFinite, RequestsFinite DEF CompanyBounds, EditsSuffice
  <2>6. \A w \in CompanyCalls :
            /\ companyRead'[w].profile <= MaxEdits /\ companyRead'[w].request <= MaxEdits
            /\ companyPc'[w] # "idle" => companyRead'[w].profile >= 1
    <3>1. read.profile <= MaxEdits /\ read.request <= MaxEdits /\ read.profile >= 1
        BY <1>0, <2>1, <2>2
    <3>2. QED
        BY <2>1, <2>2, <3>1, CompanyTurning DEF CompanyInv, CompanyBounds, CompanyPlace
  <2>7. edits' \in 1 .. MaxEdits
      BY <1>0, <2>2
  <2>8. QED
      BY <1>0, <1>a, <2>2, <2>5, <2>6, <2>7 DEF CompanyBounds
<1>2. ASSUME NEW q \in CompanyCalls, ProposeEdit(q) PROVE CompanyBounds'
  <2>1. companyPc[q] = "updating" /\ Ends(q) /\ requests' = Proposed(companyRead[q].profile)
        /\ UNCHANGED <<edits, seen, lost>> /\ q \in Updating
      BY <1>2 DEF ProposeEdit, Updating
  <2>2. companyRead[q].profile \in 1 .. MaxEdits
      BY <2>1, ReadBounded
  <2>3. /\ Payloads' /\ Cardinality(requests') \in Nat
        /\ Cardinality(requests') <= Cardinality(requests) + 1
      BY <2>1, <2>2, ProposedBounds
  <2>4. company'.profile = company.profile
      BY <1>0, <1>2 DEF ProposeEdit
  <2>5. QED
      BY <1>0, <2>1, <2>3, <2>4, EndsBounds
<1>3. ASSUME NEW q \in CompanyCalls, WriteEdit(q) PROVE CompanyBounds'
  <2>1. companyPc[q] = "updating" /\ Ends(q) /\ UNCHANGED <<requests, edits, seen, lost>>
        /\ company'.profile = companyRead[q].profile
      BY <1>3 DEF WriteEdit
  <2>2. QED
      BY <1>0, <1>a, <2>1, ReadBounded, EndsBounds, RequestsFinite
<1>4. ASSUME NEW q \in CompanyCalls, NEW verdict \in Verdict, ReceiveReview(q, verdict)
      PROVE  CompanyBounds'
  <2> DEFINE read == [Seen EXCEPT !.verdict = verdict]
             place == IF company.status = "UPDATING" THEN "finding" ELSE "reviewing"
  <2>1. read \in CompanyReading /\ read.profile = company.profile /\ read.request = 0
      BY <1>0, CompanySeenRead DEF CompanyReading, Seen, NothingRead
  <2>2. place \in CompanyPlace /\ place # "updating"
      BY DEF CompanyPlace
  <2>3. Turns(q, place, read) /\ UNCHANGED <<company, requests, edits, seen, lost>>
      BY <1>4 DEF ReceiveReview, Begins
  <2> HIDE DEF read, place
  <2>4. read.profile <= MaxEdits /\ read.request <= MaxEdits /\ read.profile >= 1
      BY <1>0, <2>1
  <2>5. QED
      BY <1>0, <1>a, <2>1, <2>2, <2>3, <2>4, MovesBounds, RequestsFinite
<1>5. ASSUME NEW q \in CompanyCalls, Decide(q) PROVE CompanyBounds'
  <2>1. /\ companyPc[q] = "reviewing" /\ Ends(q) /\ UNCHANGED <<requests, edits, lost>>
        /\ company'.profile = company.profile /\ seen' = seen \cup {companyRead[q].profile}
      BY <1>0, <1>5 DEF Decide
  <2>2. companyRead[q].profile \in 1 .. MaxEdits
      BY <2>1, ReadBounded
  <2>3. /\ seen' \subseteq 1 .. MaxEdits /\ lost' \subseteq 1 .. MaxEdits /\ Payloads'
        /\ company'.profile \in 1 .. MaxEdits
        /\ Cardinality(requests') \in Nat /\ Cardinality(requests') <= Cardinality(requests)
    <3>1. requests' = requests /\ Cardinality(requests) \in Nat
        BY <2>1, RequestsFinite
    <3>2. Cardinality(requests') \in Nat /\ Cardinality(requests') <= Cardinality(requests)
        BY <3>1
    <3>3. Payloads' /\ lost' = lost
        BY <1>a, <2>1
    <3>4. QED
        BY <1>0, <2>1, <2>2, <3>2, <3>3
  <2>4. QED
      BY <2>1, <2>3, EndsBounds
<1>6. ASSUME NEW q \in CompanyCalls, FindRequest(q) PROVE CompanyBounds'
  <2>1. UNCHANGED <<company, requests, edits, seen, lost>> /\ companyPc[q] = "finding"
      BY <1>6 DEF FindRequest
  <2>2. CASE Ends(q)
      BY <1>0, <1>a, <2>1, <2>2, EndsBounds, RequestsFinite
  <2>3. ASSUME NEW u \in PendingRequests,
               Turns(q, "applying", [companyRead[q] EXCEPT !.request = u.id, !.profile = u.payload])
        PROVE  CompanyBounds'
    <3> DEFINE read == [companyRead[q] EXCEPT !.request = u.id, !.profile = u.payload]
    <3>1. u.id \in 1 .. MaxEdits /\ u.payload \in 1 .. MaxEdits
        BY <1>0 DEF Payloads, PendingRequests
    <3>2. read \in CompanyReading /\ read.profile = u.payload /\ read.request = u.id
      <4>1. companyRead[q] \in CompanyReading /\ u.id \in Nat /\ u.payload \in Nat
          BY <1>0, <3>1
      <4>2. QED
          BY <4>1 DEF CompanyReading
    <3> HIDE DEF read
    <3>3. Turns(q, "applying", read)
        BY <2>3 DEF read
    <3>4. read.profile <= MaxEdits /\ read.request <= MaxEdits /\ read.profile >= 1
        BY <1>0, <3>1, <3>2
    <3>5. "applying" \in CompanyPlace /\ "applying" # "updating"
        BY DEF CompanyPlace
    <3>6. QED
        BY <1>0, <1>a, <2>1, <3>2, <3>3, <3>4, <3>5, MovesBounds, RequestsFinite
  <2>4. QED
      BY <1>6, <2>2, <2>3 DEF FindRequest
<1>7. ASSUME NEW q \in CompanyCalls, ApplyReview(q) PROVE CompanyBounds'
  <2>1. companyRead[q].verdict \in Verdict /\ companyPc[q] = "applying"
      BY <1>7 DEF ApplyReview, CompanyInv, CompanyInformed
  <2>2. /\ Ends(q) /\ UNCHANGED edits /\ requests' = Closed(q)
        /\ seen' = seen \cup {companyRead[q].profile}
        /\ company'.profile \in {companyRead[q].profile, company.profile}
      BY <1>0, <1>7 DEF ApplyReview
  <2>3. lost' \subseteq lost \cup {u.payload : u \in requests}
      BY <1>7 DEF ApplyReview
  <2>4. Payloads' /\ Cardinality(requests') = Cardinality(requests)
      BY <2>1, <2>2, ClosedBounds
  <2>5. companyRead[q].profile \in 1 .. MaxEdits
      BY <2>1, ReadBounded
  <2>6. lost' \subseteq 1 .. MaxEdits /\ seen' \subseteq 1 .. MaxEdits
      BY <1>0, <2>2, <2>3, <2>5 DEF Payloads
  <2>7. QED
      BY <1>0, <2>2, <2>4, <2>5, <2>6, EndsBounds, RequestsFinite
<1>8. ASSUME NEW q \in CompanyCalls, CompanyCallFails(q) PROVE CompanyBounds'
    BY <1>0, <1>8, <1>a, EndsBounds, RequestsFinite DEF CompanyCallFails
<1>9. CASE UNCHANGED companyVars
    BY <1>9 DEF companyVars, CompanyBounds, Payloads, EditsSuffice, Updating
<1>10. QED
    BY <1>1, <1>2, <1>3, <1>4, <1>5, <1>6, <1>7, <1>8, <1>9 DEF CompaniesNext

\* The invariant and the bounds have the type of the companies in them.
LEMMA CompanyTypes == CompanyInv /\ CompanyBounds => CompaniesTypeOK
<1> SUFFICES ASSUME CompanyInv, CompanyBounds PROVE CompaniesTypeOK
    OBVIOUS
<1>1. requests \subseteq UpdateRequest
    BY DEF CompanyInv, Numbered, CompanyRow, UpdateRequest, CompanyBounds, Payloads
<1>2. company \in [status : CompanyStatus, profile : 1 .. MaxEdits]
    BY DEF CompanyInv, CompanyTyped, CompanyBounds
<1>3. ASSUME NEW q \in CompanyCalls
      PROVE  companyRead[q] \in [status : CompanyStatus \cup {"none"}, profile : 0 .. MaxEdits,
                                 request : 0 .. MaxEdits, verdict : Verdict \cup {"none"}]
  <2>1. companyRead[q] \in CompanyReading
      BY DEF CompanyInv, CompanyTyped
  <2>2. QED
      BY <2>1, CompaniesAssumption DEF CompanyReading, CompanyBounds
<1>4. QED
    BY <1>1, <1>2, <1>3 DEF CompaniesTypeOK, CompanyInv, CompanyTyped, CompanyBounds

\* The invariants and the bounds have the type and the promise of the company in them.
LEMMA CompanyPromises ==
    CompanyInv /\ CompanyCalmOrder /\ CompanyBounds => CompaniesTypeOK /\ ReviewComesFirst
<1> SUFFICES ASSUME CompanyInv, CompanyCalmOrder, CompanyBounds PROVE CompaniesTypeOK /\ ReviewComesFirst
    OBVIOUS
<1>1. EditsAwaitReview
  <2>1. CASE PendingRequests = {}
      BY <2>1, FS_EmptySet
         DEF EditsAwaitReview, CompanyCalmOrder, CompanySettled, AwaitsUpdateReview, ProposedProfiles
  <2>2. ASSUME NEW u \in PendingRequests PROVE EditsAwaitReview
    <3>1. PendingRequests = {u}
        BY DEF CompanyInv, CompanyOnePending
    <3>2. Cardinality(PendingRequests) = 1
        BY <3>1, FS_Singleton
    <3>3. ProposedProfiles # {}
        BY DEF ProposedProfiles
    <3>4. QED
        BY <3>1, <3>2, <3>3 DEF EditsAwaitReview, CompanyCalmOrder, CompanySettled, AwaitsUpdateReview
  <2>3. QED
      BY <2>1, <2>2
<1>2. ProfileReviewed
    BY DEF CompanyCalmOrder, CompanySettled, ProfileReviewed, FoundBySearch, MayManageJobs, AwaitsUpdateReview
<1>3. QED
    BY <1>1, <1>2, CompanyTypes DEF ReviewComesFirst

\* Never two pending requests; in calm the manager's queue shows the company exactly
\* while it has one, no approved edit is dropped, and no profile is shown, or used to
\* manage postings, that no manager has decided on.
THEOREM CompaniesReviewed == CompaniesSpec => []ReviewComesFirst
    BY CompanyInitInv, CompanyInitBounds, CompanyNextInv, CompanyNextCalm, CompanyNextBounds,
       CompanyPromises, PTL DEF CompaniesSpec

\* The first half by itself: the edits of an approved company.
THEOREM CompaniesEditsAwaitReview == CompaniesSpec => []EditsAwaitReview
    BY CompaniesReviewed, PTL DEF ReviewComesFirst

\* The second half by itself: the profile that is shown.
THEOREM CompaniesProfileReviewed == CompaniesSpec => []ProfileReviewed
    BY CompaniesReviewed, PTL DEF ReviewComesFirst

\* Every variable of a company keeps its domain, the bound on edits included.
THEOREM CompaniesTyped == CompaniesSpec => []CompaniesTypeOK
    BY CompanyInitInv, CompanyInitBounds, CompanyNextInv, CompanyNextCalm, CompanyNextBounds,
       CompanyPromises, PTL DEF CompaniesSpec

-----------------------------------------------------------------------------
(***************************************************************************)
(* The packages. While no call comes between the check and the write, one  *)
(* package is the default at most, and no two that boost are of the same   *)
(* number of days.                                                         *)
(***************************************************************************)

\* The least and the greatest of a set of numbers.
LEMMA MinExists ==
    ASSUME NEW S \in SUBSET Nat, S # {}
    PROVE  Min(S) \in S /\ \A x \in S : Min(S) <= x
<1>1. PICK x \in S : \A y \in S : ~(<<y, x>> \in OpToRel(<, Nat))
    BY NatLessThanWellFounded, WFMin
<1>2. \A y \in S : x <= y
  <2>1. ASSUME NEW y \in S PROVE x <= y
    <3>1. x \in Nat /\ y \in Nat
        OBVIOUS
    <3>2. ~(y < x)
        BY <1>1, <3>1 DEF OpToRel
    <3>3. QED
        BY <3>1, <3>2
  <2>2. QED
      BY <2>1
<1>3. \E z \in S : \A y \in S : z <= y
    BY <1>2
<1>4. QED
    BY <1>3 DEF Min

\* A set without two different elements.
LEMMA OneAtMost ==
    ASSUME NEW S, \A x, y \in S : x = y
    PROVE  Cardinality(S) <= 1
<1>1. S = {} \/ \E x \in S : S = {x}
    OBVIOUS
<1>2. CASE S = {}
    BY <1>2, FS_EmptySet
<1>3. ASSUME NEW x, S = {x} PROVE Cardinality(S) <= 1
  <2>1. Cardinality({x}) = 1
      BY FS_Singleton
  <2>2. QED
      BY <1>3, <2>1
<1>4. QED
    BY <1>1, <1>2, <1>3

Order == [id : PackageIds \cup {0}, as : Package, default : Asked]
PackageTyped ==
    /\ package \in [PackageIds -> Package]
    /\ \A i \in PackageIds \ Existing : package[i] = NoPackage
    /\ defaultDays \in Durations \cup {0}
    /\ order \in [Admins -> Order]
    /\ \A a \in OpenOrders : order[a].id \in PackageIds /\ order[a].as.type \in OrderType
    /\ retyped \in BOOLEAN /\ packagesCalm \in BOOLEAN

StillValid(a) == ValidDuration(order[a].as.type, order[a].as.days, order[a].id)
DaysDiffer == \A i, j \in BoostPackages : package[i].days = package[j].days => i = j
OneDefault ==
    \A i, j \in Existing :
        package[i].type = package[j].type /\ package[i].default /\ package[j].default => i = j

\* While no two edits have overlapped: one is open at most, and what it has checked
\* still holds; no two boost packages have the same days, and a type has one default.
PackageCalmOrder ==
    packagesCalm =>
        /\ \A a, b \in OpenOrders : a = b
        /\ \A a \in OpenOrders : StillValid(a)
        /\ DaysDiffer
        /\ ~retyped => OneDefault

PackageInv == PackageTyped /\ PackageCalmOrder

\* A call or a package that is none is well formed.
LEMMA PackageNothing == NoPackage \in Package /\ NoOrder \in Order /\ NoOrder.id = 0
    BY DEF NoPackage, Package, NoOrder, Order, Asked

\* No package is on offer at first.
LEMMA PackageInitInv == PackagesInit => PackageInv
<1> SUFFICES ASSUME PackagesInit PROVE PackageInv
    OBVIOUS
<1>1. Existing = {} /\ BoostPackages = {} /\ OpenOrders = {}
    BY DEF PackagesInit, Existing, BoostPackages, OpenOrders, NoPackage
<1>2. PackageTyped
    BY <1>1, PackageNothing DEF PackagesInit, PackageTyped
<1>3. PackageCalmOrder
    BY <1>1 DEF PackageCalmOrder, DaysDiffer, OneDefault
<1>4. QED
    BY <1>2, <1>3 DEF PackageInv

\* What checkOrder has admitted is in order when it is written, if no other call came between.
LEMMA CheckOrderInv ==
    ASSUME PackageInv, NEW a \in Admins, NEW id \in PackageIds, NEW as \in Package, as.type \in OrderType,
           NEW default \in Asked, CheckOrder(a, id, as, default)
    PROVE  PackageInv'
<1> DEFINE what == [id |-> id, as |-> as, default |-> default]
<1>1. /\ order[a] = NoOrder /\ ValidDuration(as.type, as.days, id) /\ order' = [order EXCEPT ![a] = what]
      /\ packagesCalm' = (packagesCalm /\ OpenOrders = {})
      /\ package' = package /\ defaultDays' = defaultDays /\ retyped' = retyped
    BY DEF CheckOrder
<1>2. what \in Order /\ what.id = id /\ what.as = as
    BY DEF Order
<1> HIDE DEF what
<1>3. /\ order' \in [Admins -> Order] /\ order'[a] = what /\ \A b \in Admins \ {a} : order'[b] = order[b]
    BY <1>1, <1>2 DEF PackageInv, PackageTyped
<1>4. Existing' = Existing /\ BoostPackages' = BoostPackages
    BY <1>1 DEF Existing, BoostPackages
<1>5. \A b \in OpenOrders' : b = a \/ b \in OpenOrders
    BY <1>3 DEF OpenOrders
<1>6. PackageTyped'
  <2>1. \A b \in OpenOrders' : order'[b].id \in PackageIds /\ order'[b].as.type \in OrderType
      BY <1>2, <1>3, <1>5 DEF PackageInv, PackageTyped, OpenOrders
  <2>2. QED
      BY <1>1, <1>3, <1>4, <2>1 DEF PackageInv, PackageTyped
<1>7. StillValid(a)'
    BY <1>1, <1>2, <1>3, <1>4 DEF StillValid, ValidDuration, DurationFree
<1>8. packagesCalm' => \A b \in OpenOrders' : b = a
    BY <1>1, <1>5
<1>9. PackageCalmOrder'
  <2>1. DaysDiffer' <=> DaysDiffer
      BY <1>1, <1>4 DEF DaysDiffer
  <2>2. OneDefault' <=> OneDefault
      BY <1>1, <1>4 DEF OneDefault
  <2>3. ASSUME packagesCalm', NEW b \in OpenOrders' PROVE StillValid(b)'
      BY <1>7, <1>8, <2>3
  <2>4. packagesCalm' => packagesCalm
      BY <1>1
  <2>5. QED
      BY <1>1, <1>8, <2>1, <2>2, <2>3, <2>4 DEF PackageInv, PackageCalmOrder
<1>10. QED
    BY <1>6, <1>9 DEF PackageInv

\* Every step of PackageService keeps the invariant.
LEMMA PackageNextInv == PackageInv /\ [PackagesNext]_packageVars => PackageInv'
<1> SUFFICES ASSUME PackageInv, [PackagesNext]_packageVars PROVE PackageInv'
    OBVIOUS
<1>0. /\ package \in [PackageIds -> Package] /\ order \in [Admins -> Order]
      /\ PackageIds \subseteq Nat /\ Durations \subseteq Nat
    BY PackagesAssumption DEF PackageInv, PackageTyped, PackageIds
<1>a. ASSUME NEW type \in OrderType, NEW days \in Durations, NEW active \in BOOLEAN
      PROVE  LET as == [type |-> type, days |-> IF type = "BOOST_JOB" THEN days ELSE 0,
                        active |-> active, default |-> FALSE]
             IN  as \in Package /\ as.type \in OrderType
    BY <1>a DEF Package
<1>1. ASSUME NEW a \in Admins, NEW type \in OrderType, NEW days \in Durations, NEW active \in BOOLEAN,
             NEW default \in Asked, ReceivePackage(a, type, days, active, default)
      PROVE  PackageInv'
  <2> DEFINE fresh == PackageIds \ (Existing \cup {order[b].id : b \in Admins})
  <2>1. Min(fresh) \in PackageIds
    <3>1. fresh \in SUBSET Nat /\ fresh # {}
        BY <1>0, <1>1 DEF ReceivePackage
    <3>2. QED
        BY <3>1, MinExists
  <2>2. QED
      BY <1>1, <1>a, <2>1, CheckOrderInv DEF ReceivePackage
<1>2. ASSUME NEW a \in Admins, NEW id \in PackageIds, NEW type \in OrderType, NEW days \in Durations,
             NEW active \in BOOLEAN, NEW default \in Asked, ReceiveUpdate(a, id, type, days, active, default)
      PROVE  PackageInv'
    BY <1>2, <1>a, CheckOrderInv DEF ReceiveUpdate
<1>3. ASSUME NEW a \in Admins, WriteOrder(a) PROVE PackageInv'
  <2>0. PICK what \in Order : what = order[a]
      BY <1>0
  <2> DEFINE id == what.id
             as == what.as
             others == IF what.default = "yes" THEN Demoted(as.type) ELSE package
             flag == CASE what.default = "yes" -> TRUE [] what.default = "no" -> FALSE
                       [] OTHER -> package[id].default
             row == [as EXCEPT !.default = flag]
  <2>1. /\ what # NoOrder /\ package' = [others EXCEPT ![id] = row]
        /\ retyped' = (retyped \/ (what.default = "unset" /\ flag /\ package[id].type # as.type))
        /\ order' = [order EXCEPT ![a] = NoOrder]
        /\ defaultDays' = defaultDays /\ packagesCalm' = packagesCalm
      BY <1>3, <2>0 DEF WriteOrder
  <2>2. a \in OpenOrders
      BY <2>0, <2>1 DEF OpenOrders
  <2>3. id \in PackageIds /\ as \in Package /\ as.type \in OrderType /\ what.default \in Asked
      BY <2>0, <2>2 DEF PackageInv, PackageTyped, Order
  <2>4. flag \in BOOLEAN
      BY <1>0, <2>3 DEF Package
  <2>5. row \in Package /\ row.type = as.type /\ row.days = as.days /\ row.default = flag
      BY <2>3, <2>4 DEF Package
  <2>6. /\ others \in [PackageIds -> Package]
        /\ \A i \in PackageIds : /\ others[i].type = package[i].type /\ others[i].days = package[i].days
                                 /\ others[i].default => package[i].default
                                 /\ package[i].type # as.type => others[i] = package[i]
        /\ what.default = "yes" =>
              \A i \in PackageIds : package[i].type = as.type => ~others[i].default
    <3>1. ASSUME NEW i \in PackageIds
          PROVE  LET d == [package[i] EXCEPT !.default = FALSE]
                 IN  /\ d \in Package /\ d.type = package[i].type /\ d.days = package[i].days /\ ~d.default
      <4>1. package[i] \in Package
          BY <1>0
      <4>2. QED
          BY <4>1 DEF Package
    <3>2. QED
        BY <1>0, <3>1 DEF Demoted
  <2> HIDE DEF others, row, flag
  <2>7. /\ package' \in [PackageIds -> Package] /\ package'[id] = row
        /\ \A i \in PackageIds \ {id} : package'[i] = others[i]
      BY <2>1, <2>3, <2>5, <2>6
  <2>8. Existing' = Existing \cup {id}
      BY <2>3, <2>5, <2>6, <2>7 DEF Existing, OrderType
  <2>9. /\ order' \in [Admins -> Order] /\ order'[a] = NoOrder
        /\ \A b \in Admins \ {a} : order'[b] = order[b]
      BY <1>0, <2>1, PackageNothing
  <2>10. OpenOrders' = OpenOrders \ {a}
      BY <2>9 DEF OpenOrders
  <2>11. retyped' \in BOOLEAN
      BY <2>1 DEF PackageInv, PackageTyped
  <2>12. PackageTyped'
    <3>1. \A i \in PackageIds \ Existing' : package'[i] = NoPackage
      <4>1. NoPackage.type # as.type
          BY <2>3 DEF NoPackage, OrderType
      <4>2. QED
          BY <2>6, <2>7, <2>8, <4>1 DEF PackageInv, PackageTyped
    <3>2. \A b \in OpenOrders' : order'[b].id \in PackageIds /\ order'[b].as.type \in OrderType
        BY <2>9, <2>10 DEF PackageInv, PackageTyped, OpenOrders
    <3>3. QED
        BY <2>1, <2>7, <2>9, <2>11, <3>1, <3>2 DEF PackageInv, PackageTyped
  <2>13. packagesCalm => OpenOrders' = {}
      BY <2>2, <2>10 DEF PackageInv, PackageCalmOrder
  <2>14. ASSUME packagesCalm PROVE DaysDiffer'
    <3>1. ValidDuration(as.type, as.days, id) /\ DaysDiffer
        BY <2>0, <2>2, <2>14 DEF PackageInv, PackageCalmOrder, StillValid
    <3>2. \A i \in BoostPackages' : i # id => i \in BoostPackages /\ package'[i].days = package[i].days
        BY <2>6, <2>7, <2>8 DEF BoostPackages, Existing
    <3>3. id \in BoostPackages' => as.type = "BOOST_JOB" /\ package'[id].days = as.days
        BY <2>5, <2>7 DEF BoostPackages
    <3>4. QED
        BY <3>1, <3>2, <3>3 DEF DaysDiffer, ValidDuration, DurationFree
  <2>15. ASSUME packagesCalm, ~retyped' PROVE OneDefault'
    <3>1. OneDefault /\ ~(what.default = "unset" /\ flag /\ package[id].type # as.type)
        BY <2>1, <2>15 DEF PackageInv, PackageCalmOrder
    <3>2. \A i \in Existing' : i # id => /\ i \in Existing /\ package'[i].type = package[i].type
                                         /\ package'[i].default => package[i].default
        BY <2>6, <2>7, <2>8 DEF Existing
    <3>3. package'[id].type = as.type /\ package'[id].default = flag
        BY <2>5, <2>7
    <3>4. ASSUME flag, NEW i \in Existing', i # id, package'[i].type = as.type PROVE ~package'[i].default
      <4>1. CASE what.default = "yes"
          BY <2>6, <2>7, <2>8, <3>2, <3>4, <4>1 DEF Existing
      <4>2. CASE what.default = "unset"
        <5>1. package[id].default /\ package[id].type = as.type
            BY <3>1, <3>4, <4>2 DEF flag
        <5>2. id \in Existing
            BY <2>3, <5>1 DEF Existing, OrderType
        <5>3. QED
            BY <3>1, <3>2, <3>4, <5>1, <5>2 DEF OneDefault
      <4>3. CASE what.default = "no"
          BY <3>4, <4>3 DEF flag
      <4>4. QED
          BY <2>3, <4>1, <4>2, <4>3 DEF Asked
    <3>5. QED
        BY <3>1, <3>2, <3>3, <3>4 DEF OneDefault
  <2>16. PackageCalmOrder'
      BY <2>1, <2>13, <2>14, <2>15 DEF PackageCalmOrder
  <2>17. QED
      BY <2>12, <2>16 DEF PackageInv
<1>4. ASSUME NEW days \in Durations, UpdatePointPricing(days) PROVE PackageInv'
  <2>1. defaultDays' \in Durations \cup {0} /\ UNCHANGED <<package, order, retyped, packagesCalm>>
      BY <1>4 DEF UpdatePointPricing
  <2>2. QED
      BY <2>1 DEF PackageInv, PackageTyped, PackageCalmOrder, OpenOrders, Existing, BoostPackages,
                  StillValid, ValidDuration, DurationFree, DaysDiffer, OneDefault
<1>5. CASE UNCHANGED packageVars
    BY <1>5 DEF packageVars, PackageInv, PackageTyped, PackageCalmOrder, OpenOrders, Existing,
                BoostPackages, StillValid, ValidDuration, DurationFree, DaysDiffer, OneDefault
<1>6. QED
    BY <1>1, <1>2, <1>3, <1>4, <1>5 DEF PackagesNext

\* The invariant has the type and the promise of the packages in it.
LEMMA PackagePromises == PackageInv => PackagesTypeOK /\ OffersUnambiguous
<1> SUFFICES ASSUME PackageInv PROVE PackagesTypeOK /\ OffersUnambiguous
    OBVIOUS
<1>1. PackagesTypeOK
    BY DEF PackageInv, PackageTyped, PackagesTypeOK, Order
<1>2. \A p \in ActiveBoostPackages :
          p.id \in BoostPackages /\ p.days = package[p.id].days /\ p.default = package[p.id].default
          /\ p = [id |-> p.id, days |-> p.days, default |-> p.default]
    BY DEF ActiveBoostPackages
<1>3. ASSUME packagesCalm, NEW days \in Durations PROVE Cardinality(ResolveBoostPackage(days)) <= 1
  <2>1. \A p, q \in ActiveBoostPackages : p.days = q.days => p = q
      BY <1>2, <1>3 DEF PackageInv, PackageCalmOrder, DaysDiffer
  <2>2. \A p, q \in BoostPackagesForEmployer : p.days = q.days => p = q
      BY <2>1 DEF BoostPackagesForEmployer
  <2>3. ResolveBoostPackage(days) = {p \in BoostPackagesForEmployer : p.days = days}
      BY PackagesAssumption DEF ResolveBoostPackage
  <2>4. \A p, q \in ResolveBoostPackage(days) : p = q
      BY <2>2, <2>3
  <2>5. QED
      BY <2>4, OneAtMost
<1>4. ASSUME packagesCalm, ~retyped
      PROVE  Cardinality({p \in BoostPackagesForEmployer : p.default}) <= 1
  <2>1. \A p, q \in ActiveBoostPackages : p.default /\ q.default => p = q
      BY <1>2, <1>4 DEF PackageInv, PackageCalmOrder, OneDefault, BoostPackages
  <2>2. \A p, q \in BoostPackagesForEmployer : p.default /\ q.default => p = q
    <3> DEFINE extra == [id |-> 0, days |-> FallbackDays, default |-> ~\E p \in ActiveBoostPackages : p.default]
    <3>1. extra.default <=> ~\E p \in ActiveBoostPackages : p.default
        OBVIOUS
    <3>2. BoostPackagesForEmployer \subseteq ActiveBoostPackages \cup {extra}
        BY DEF BoostPackagesForEmployer
    <3> HIDE DEF extra
    <3>3. QED
        BY <2>1, <3>1, <3>2
  <2>3. QED
      BY <2>2, OneAtMost
<1>5. QED
    BY <1>1, <1>3, <1>4 DEF OffersUnambiguous

\* In calm a posting is offered one default package, and a number of days names one
\* package (checkOrder, createPackage, updatePackage).
THEOREM PackagesUnambiguous == PackagesSpec => []OffersUnambiguous
    BY PackageInitInv, PackageNextInv, PackagePromises, PTL DEF PackagesSpec

-----------------------------------------------------------------------------
(***************************************************************************)
(* The copies of the catalogue. A stale copy has one of its reasons from   *)
(* the write of the edit on, or the clerk who wrote has yet to delete it.  *)
(* The edit of an occupation leaves alone the list of the sectors, and     *)
(* that of every sector but the one whose key it deletes, unless the       *)
(* occupation was in that other sector when it was written.                *)
(***************************************************************************)

SectorEdits == [place : {"writing", "invalidating"}, write : {"restore", "rename", "close"},
                row : Sectors, into : Sectors, keys : {{"sector:all"}}]
OccupationEdits ==
    {[place |-> p, write |-> w, row |-> o, into |-> s, keys |-> OccupationKeys(s)] :
        p \in {"writing", "invalidating"}, w \in {"create", "update", "remove"},
        o \in Occupations, s \in Sectors}

Due(c) == edit[c].place = "invalidating" /\ cacheKey \in edit[c].keys
Excused == \/ cause = "race"
           \/ cause = "sector" /\ cacheKey # "sector:all"
           \/ cause = "move" /\ cacheKey \in Sectors

\* A stale copy has one of its three reasons, or a clerk is about to delete it.
CatalogueInv ==
    /\ CatalogueTypeOK
    /\ edit \in [Clerks -> {NoEdit} \cup SectorEdits \cup OccupationEdits]
    /\ entry = "stale" => Excused \/ \E c \in Clerks : Due(c)

\* There is no copy at first.
LEMMA CatalogueInitInv == CatalogueInit => CatalogueInv
<1> SUFFICES ASSUME CatalogueInit PROVE CatalogueInv
    OBVIOUS
<1>1. sector \in [Sectors -> RowStatus] /\ fill \in [Readers -> Copy]
    BY DEF CatalogueInit, RowStatus, Copy
<1>2. occupation \in [Occupations -> [status : RowStatus, sector : Sectors]]
    BY DEF CatalogueInit, RowStatus
<1>3. /\ edit \in [Clerks -> {NoEdit} \cup SectorEdits \cup OccupationEdits]
      /\ \A c \in Clerks : edit[c].place \in {"idle", "writing", "invalidating"}
    BY DEF CatalogueInit, NoEdit
<1>4. QED
    BY <1>1, <1>2, <1>3 DEF CatalogueInit, CatalogueInv, CatalogueTypeOK, Copy

\* An edit that is open is one of a sector, with its key, or of an occupation, with its keys.
LEMMA OpenEdits ==
    ASSUME NEW e \in SectorEdits \cup OccupationEdits
    PROVE  /\ e.place \in {"writing", "invalidating"}
           /\ e.into \in Sectors
           /\ \/ e.row \in Sectors /\ e.write \in {"restore", "rename", "close"} /\ e.keys = {"sector:all"}
              \/ /\ e.row \in Occupations /\ e.write \in {"create", "update", "remove"}
                 /\ e.keys = OccupationKeys(e.into)
           /\ [e EXCEPT !.place = "invalidating"] \in SectorEdits \cup OccupationEdits
<1>1. CASE e \in SectorEdits
  <2>1. [e EXCEPT !.place = "invalidating"] \in SectorEdits
      BY <1>1 DEF SectorEdits
  <2>2. QED
      BY <1>1, <2>1 DEF SectorEdits
<1>2. CASE e \in OccupationEdits
  <2>1. PICK p \in {"writing", "invalidating"}, w \in {"create", "update", "remove"},
             o \in Occupations, s \in Sectors :
             e = [place |-> p, write |-> w, row |-> o, into |-> s, keys |-> OccupationKeys(s)]
      BY <1>2 DEF OccupationEdits
  <2>2. [e EXCEPT !.place = "invalidating"]
          = [place |-> "invalidating", write |-> w, row |-> o, into |-> s, keys |-> OccupationKeys(s)]
      BY <2>1
  <2>3. [e EXCEPT !.place = "invalidating"] \in OccupationEdits
      BY <2>2 DEF OccupationEdits
  <2>4. QED
      BY <2>1, <2>3
<1>3. QED
    BY <1>1, <1>2

\* Where the edit of an occupation does not reach: its write leaves the list of the
\* sectors alone, and the list of a sector that it neither takes from nor adds to.
LEMMA EditsKeepTo ==
    ASSUME CatalogueInv, NEW c \in Clerks, Write(c), edit[c].row \in Occupations,
           \/ cacheKey = "sector:all"
           \/ cacheKey \in Sectors \ {edit[c].into} /\ KindOf(edit[c]) = "occupation"
    PROVE  ListOf(cacheKey)' = ListOf(cacheKey) /\ ~Renamed(edit[c])
<1>1. PICK e : e = edit[c]
    OBVIOUS
<1>2. /\ e.place = "writing" /\ sector' = SectorWritten(e) /\ occupation' = OccupationWritten(e)
      /\ cacheKey' = cacheKey
    BY <1>1 DEF Write
<1>3. e \in SectorEdits \cup OccupationEdits /\ e.row \in Occupations /\ e.row \notin Sectors
    BY <1>1, <1>2, CatalogueAssumption DEF CatalogueInv, NoEdit
<1>4. e.write \in {"create", "update", "remove"} /\ e.into \in Sectors
    BY <1>3, OpenEdits
<1>5. sector' = sector
    BY <1>2, <1>4 DEF SectorWritten
<1>6. occupation \in [Occupations -> [status : RowStatus, sector : Sectors]]
    BY DEF CatalogueInv, CatalogueTypeOK
<1>7. CASE cacheKey = "sector:all"
  <2>1. ListOf(cacheKey) = ActiveSectors /\ ListOf(cacheKey)' = ActiveSectors'
      BY <1>2, <1>7 DEF ListOf, FindAllSectors
  <2>2. ActiveSectors' = ActiveSectors
      BY <1>5 DEF ActiveSectors
  <2>3. ~Renamed(e)
      BY <1>4, <1>7 DEF Renamed, ShowsOccupation
  <2>4. QED
      BY <1>1, <2>1, <2>2, <2>3
<1>8. CASE cacheKey \in Sectors \ {e.into} /\ KindOf(e) = "occupation"
  <2>1. cacheKey \notin ListNames
      BY <1>8, CatalogueAssumption
  <2>2. ListOf(cacheKey) = OccupationsOf(cacheKey) /\ ListOf(cacheKey)' = OccupationsOf(cacheKey)'
      BY <1>2, <2>1 DEF ListOf, FindOccupationsBySector, ListNames
  <2>3. e.write = "create" \/ occupation[e.row].sector = e.into
      BY <1>3, <1>8 DEF KindOf
  <2>4. ASSUME NEW o \in Occupations
        PROVE  /\ occupation'[o].status = "ACTIVE" /\ occupation'[o].sector = cacheKey
                    <=> occupation[o].status = "ACTIVE" /\ occupation[o].sector = cacheKey
    <3>1. CASE e.write = "create"
      <4>1. CASE occupation[e.row].status = "none"
        <5>1. occupation' = [occupation EXCEPT ![e.row] = [status |-> "ACTIVE", sector |-> e.into]]
            BY <1>2, <3>1, <4>1 DEF OccupationWritten
        <5>2. QED
            BY <1>3, <1>6, <1>8, <4>1, <5>1
      <4>2. CASE occupation[e.row].status # "none"
        <5>1. occupation' = occupation
            BY <1>2, <3>1, <4>2 DEF OccupationWritten
        <5>2. QED
            BY <5>1
      <4>3. QED
          BY <4>1, <4>2
    <3>2. CASE e.write = "update"
      <4>1. occupation' = [occupation EXCEPT ![e.row].sector = e.into]
          BY <1>2, <3>2 DEF OccupationWritten
      <4>2. QED
          BY <1>3, <1>6, <1>8, <2>3, <3>2, <4>1
    <3>3. CASE e.write = "remove"
      <4>1. occupation' = [occupation EXCEPT ![e.row].status = "DELETED"]
          BY <1>2, <3>3 DEF OccupationWritten
      <4>2. QED
          BY <1>3, <1>6, <1>8, <2>3, <3>3, <4>1
    <3>4. QED
        BY <1>4, <3>1, <3>2, <3>3
  <2>5. OccupationsOf(cacheKey)' = OccupationsOf(cacheKey)
      BY <1>2, <2>4 DEF OccupationsOf
  <2>6. ~Renamed(e)
    <3>1. e.write = "update" => e.row \notin OccupationsOf(cacheKey)
        BY <1>8, <2>3 DEF OccupationsOf
    <3>2. ShowsOccupation(cacheKey, e.row) = (e.row \in OccupationsOf(cacheKey))
        BY <2>1 DEF ShowsOccupation, ListNames
    <3>3. QED
        BY <1>4, <3>1, <3>2 DEF Renamed
  <2>7. QED
      BY <1>1, <2>2, <2>5, <2>6
<1>9. QED
    BY <1>1, <1>7, <1>8

\* Every step of the two services and of their cache keeps the invariant.
LEMMA CatalogueNextInv == CatalogueInv /\ [CatalogueNext]_catalogueVars => CatalogueInv'
<1> SUFFICES ASSUME CatalogueInv, [CatalogueNext]_catalogueVars PROVE CatalogueInv'
    OBVIOUS
<1> DEFINE Edits == {NoEdit} \cup SectorEdits \cup OccupationEdits
<1>0. /\ sector \in [Sectors -> RowStatus]
      /\ occupation \in [Occupations -> [status : RowStatus, sector : Sectors]]
      /\ cacheKey \in Keys /\ entry \in Copy /\ fill \in [Readers -> Copy]
      /\ cause \in {"none", "race", "sector", "move", "occupation"}
      /\ edit \in [Clerks -> Edits]
      /\ entry = "stale" => Excused \/ \E c \in Clerks : Due(c)
    BY DEF CatalogueInv, CatalogueTypeOK
<1>p. \A e \in Edits : e.place \in {"idle", "writing", "invalidating"}
  <2>1. ASSUME NEW e \in Edits PROVE e.place \in {"idle", "writing", "invalidating"}
    <3>1. CASE e = NoEdit
        BY <3>1 DEF NoEdit
    <3>2. CASE e \in SectorEdits \cup OccupationEdits
        BY <3>2, OpenEdits
    <3>3. QED
        BY <3>1, <3>2
  <2>2. QED
      BY <2>1
<1> HIDE DEF Edits
<1>1. ASSUME NEW r \in Readers, FetchList(r) PROVE CatalogueInv'
  <2>1. /\ entry = "none" /\ fill' = [fill EXCEPT ![r] = "fresh"]
        /\ UNCHANGED <<sector, occupation, cacheKey, entry, edit, cause>>
      BY <1>1 DEF FetchList, databaseRows
  <2>2. fill' \in [Readers -> Copy]
      BY <1>0, <2>1 DEF Copy
  <2>3. QED
      BY <1>0, <1>p, <2>1, <2>2 DEF CatalogueInv, CatalogueTypeOK, Edits
<1>2. ASSUME NEW r \in Readers, StoreCopy(r) PROVE CatalogueInv'
  <2>1. /\ entry' = fill[r] /\ fill' = [fill EXCEPT ![r] = "none"]
        /\ cause' = IF fill[r] = "stale" THEN "race" ELSE "none"
        /\ UNCHANGED <<sector, occupation, cacheKey, edit>>
      BY <1>2 DEF StoreCopy, databaseRows
  <2>2. fill' \in [Readers -> Copy] /\ entry' \in Copy
      BY <1>0, <2>1 DEF Copy
  <2>3. QED
      BY <1>0, <1>p, <2>1, <2>2 DEF CatalogueInv, CatalogueTypeOK, Edits, Excused
<1>3. CASE CopyExpires
  <2>1. /\ entry' = "none" /\ cause' = "none"
        /\ UNCHANGED <<sector, occupation, cacheKey, fill, edit>>
      BY <1>3 DEF CopyExpires, NoCopy, databaseRows
  <2>2. QED
      BY <1>0, <1>p, <2>1 DEF CatalogueInv, CatalogueTypeOK, Edits, Copy
<1>4. ASSUME NEW c \in Clerks, NEW write, NEW row, NEW into, NEW keys,
             CheckEdit(c, write, row, into, keys),
             [place |-> "writing", write |-> write, row |-> row, into |-> into, keys |-> keys] \in Edits
      PROVE  CatalogueInv'
  <2>1. PICK e \in Edits : /\ edit[c] = NoEdit /\ edit' = [edit EXCEPT ![c] = e]
                           /\ UNCHANGED <<sector, occupation, cacheKey, entry, fill, cause>>
      BY <1>4 DEF CheckEdit, EditGoes, databaseRows
  <2>2. edit' \in [Clerks -> Edits]
      BY <1>0, <2>1
  <2>3. ASSUME NEW d \in Clerks, Due(d) PROVE Due(d)'
      BY <1>0, <2>1, <2>3 DEF Due, NoEdit
  <2>4. QED
      BY <1>0, <1>p, <2>1, <2>2, <2>3 DEF CatalogueInv, CatalogueTypeOK, Edits, Excused
<1>5. ASSUME NEW c \in Clerks, NEW s \in Sectors,
             CreateSector(c, s) \/ UpdateSector(c, s) \/ RemoveSector(c, s)
      PROVE  CatalogueInv'
  <2>1. \E w \in {"restore", "rename", "close"} : CheckEdit(c, w, s, s, {"sector:all"})
      BY <1>5 DEF CreateSector, UpdateSector, RemoveSector
  <2>2. \A w \in {"restore", "rename", "close"} :
            [place |-> "writing", write |-> w, row |-> s, into |-> s, keys |-> {"sector:all"}] \in Edits
      BY DEF Edits, SectorEdits
  <2>3. QED
      BY <1>4, <2>1, <2>2
<1>6. ASSUME NEW c \in Clerks, NEW o \in Occupations,
             \/ \E s \in Sectors : CreateOccupation(c, o, s) \/ UpdateOccupation(c, o, s)
             \/ RemoveOccupation(c, o)
      PROVE  CatalogueInv'
  <2>1. occupation[o].sector \in Sectors
      BY <1>0
  <2>2. \E w \in {"create", "update", "remove"}, s \in Sectors : CheckEdit(c, w, o, s, OccupationKeys(s))
      BY <1>6, <2>1 DEF CreateOccupation, UpdateOccupation, RemoveOccupation
  <2>3. \A w \in {"create", "update", "remove"}, s \in Sectors :
            [place |-> "writing", write |-> w, row |-> o, into |-> s, keys |-> OccupationKeys(s)] \in Edits
      BY DEF Edits, OccupationEdits
  <2>4. QED
      BY <1>4, <2>2, <2>3
<1>7. ASSUME NEW c \in Clerks, Write(c) PROVE CatalogueInv'
  <2>1. PICK e, changed :
          /\ e = edit[c] /\ e.place = "writing"
          /\ changed = (ListOf(cacheKey)' # ListOf(cacheKey) \/ Renamed(e))
      BY <1>7 DEF Write
  <2>2. /\ cacheKey' = cacheKey /\ sector' = SectorWritten(e) /\ occupation' = OccupationWritten(e)
        /\ entry' = IF changed /\ entry = "fresh" THEN "stale" ELSE entry
        /\ cause' = IF changed /\ entry = "fresh" THEN KindOf(e) ELSE cause
        /\ fill' = [r \in Readers |-> IF changed /\ fill[r] = "fresh" THEN "stale" ELSE fill[r]]
        /\ edit' = [edit EXCEPT ![c] = [e EXCEPT !.place = "invalidating"]]
      BY <1>7, <2>1 DEF Write, EditGoes
  <2>3. e \in SectorEdits \cup OccupationEdits
      BY <1>0, <2>1 DEF Edits, NoEdit
  <2>4. /\ e.into \in Sectors
        /\ \/ e.row \in Sectors /\ e.write \in {"restore", "rename", "close"} /\ e.keys = {"sector:all"}
           \/ /\ e.row \in Occupations /\ e.write \in {"create", "update", "remove"}
              /\ e.keys = OccupationKeys(e.into)
        /\ [e EXCEPT !.place = "invalidating"] \in Edits
      BY <2>3, OpenEdits DEF Edits
  <2>5. sector' \in [Sectors -> RowStatus]
    <3>1. e.write \in {"restore", "close"} => e.row \in Sectors
        BY <2>4
    <3>2. QED
        BY <1>0, <2>2, <3>1 DEF SectorWritten, RowStatus
  <2>6. occupation' \in [Occupations -> [status : RowStatus, sector : Sectors]]
    <3>1. e.write \in {"create", "update", "remove"} => e.row \in Occupations
        BY <2>4
    <3>2. CASE e.write = "create" /\ occupation[e.row].status = "none"
      <4>1. occupation' = [occupation EXCEPT ![e.row] = [status |-> "ACTIVE", sector |-> e.into]]
          BY <2>2, <3>2 DEF OccupationWritten
      <4>2. QED
          BY <1>0, <2>4, <4>1 DEF RowStatus
    <3>3. CASE e.write = "update"
      <4>1. occupation' = [occupation EXCEPT ![e.row].sector = e.into]
          BY <2>2, <3>3 DEF OccupationWritten
      <4>2. [occupation[e.row] EXCEPT !.sector = e.into] \in [status : RowStatus, sector : Sectors]
          BY <1>0, <2>4, <3>1, <3>3
      <4>3. QED
          BY <1>0, <4>1, <4>2
    <3>4. CASE e.write = "remove"
      <4>1. occupation' = [occupation EXCEPT ![e.row].status = "DELETED"]
          BY <2>2, <3>4 DEF OccupationWritten
      <4>2. [occupation[e.row] EXCEPT !.status = "DELETED"] \in [status : RowStatus, sector : Sectors]
          BY <1>0, <3>1, <3>4 DEF RowStatus
      <4>3. QED
          BY <1>0, <4>1, <4>2
    <3>5. CASE ~(e.write = "create" /\ occupation[e.row].status = "none") /\ e.write \notin {"update", "remove"}
        BY <1>0, <2>2, <3>5 DEF OccupationWritten
    <3>6. QED
        BY <3>2, <3>3, <3>4, <3>5
  <2>7. /\ fill' \in [Readers -> Copy] /\ entry' \in Copy
        /\ cause' \in {"none", "race", "sector", "move", "occupation"}
    <3>1. fill' \in [Readers -> Copy]
        BY <1>0, <2>2 DEF Copy
    <3>2. KindOf(e) \in {"sector", "move", "occupation"}
        BY DEF KindOf
    <3>3. QED
        BY <1>0, <2>2, <3>1, <3>2 DEF Copy
  <2>8. edit' \in [Clerks -> Edits]
      BY <1>0, <2>2, <2>4
  <2>9. ASSUME entry' = "stale" PROVE Excused' \/ \E d \in Clerks : Due(d)'
    <3>1. CASE entry = "stale"
      <4>1. cause' = cause /\ cacheKey' = cacheKey
          BY <2>2, <3>1
      <4>2. ASSUME NEW d \in Clerks, Due(d) PROVE Due(d)'
        <5>1. d # c
            BY <2>1, <4>2 DEF Due
        <5>2. QED
            BY <1>0, <2>2, <4>2, <5>1 DEF Due
      <4>3. QED
          BY <1>0, <3>1, <4>1, <4>2 DEF Excused
    <3>2. CASE entry # "stale"
      <4>1. changed /\ cause' = KindOf(e)
          BY <2>2, <2>9, <3>2
      <4>2. cacheKey \in e.keys => Due(c)'
        <5>1. edit'[c] = [e EXCEPT !.place = "invalidating"]
            BY <1>0, <2>2
        <5>2. edit'[c].place = "invalidating" /\ edit'[c].keys = e.keys
          <6>1. CASE e \in SectorEdits
              BY <5>1, <6>1 DEF SectorEdits
          <6>2. CASE e \in OccupationEdits
              BY <5>1, <6>2 DEF OccupationEdits
          <6>3. QED
              BY <2>3, <6>1, <6>2
        <5>3. QED
            BY <2>2, <5>2 DEF Due
      <4>3. CASE e.row \in Sectors
        <5>1. cause' = "sector" /\ e.keys = {"sector:all"}
            BY <2>4, <4>1, <4>3, CatalogueAssumption DEF KindOf
        <5>2. QED
            BY <2>2, <4>2, <5>1 DEF Excused
      <4>4. CASE e.row \notin Sectors
        <5>1. e.row \in Occupations /\ e.keys = OccupationKeys(e.into)
            BY <2>4, <4>4
        <5>2. cacheKey # "sector:all"
            BY <1>7, <2>1, <4>1, <5>1, EditsKeepTo
        <5>3. CASE cacheKey \in ListNames
            BY <4>2, <5>1, <5>2, <5>3 DEF OccupationKeys, ListNames
        <5>4. CASE cacheKey \in Sectors
          <6>1. cacheKey = e.into \/ KindOf(e) # "occupation"
              BY <1>7, <2>1, <4>1, <5>1, <5>4, EditsKeepTo
          <6>2. CASE cacheKey = e.into
              BY <4>2, <5>1, <6>2 DEF OccupationKeys
          <6>3. CASE KindOf(e) # "occupation"
            <7>1. cause' = "move"
                BY <4>1, <4>4, <6>3 DEF KindOf
            <7>2. QED
                BY <2>2, <5>4, <7>1 DEF Excused
          <6>4. QED
              BY <6>1, <6>2, <6>3
        <5>5. QED
            BY <1>0, <5>3, <5>4 DEF Keys
      <4>5. QED
          BY <4>3, <4>4
    <3>3. QED
        BY <3>1, <3>2
  <2>10. QED
      BY <1>0, <1>p, <2>2, <2>5, <2>6, <2>7, <2>8, <2>9 DEF CatalogueInv, CatalogueTypeOK, Edits
<1>8. ASSUME NEW c \in Clerks, InvalidateCache(c) PROVE CatalogueInv'
  <2>1. /\ edit' = [edit EXCEPT ![c] = NoEdit]
        /\ UNCHANGED <<sector, occupation, cacheKey, fill>>
        /\ \/ cacheKey \in edit[c].keys /\ entry' = "none" /\ cause' = "none"
           \/ cacheKey \notin edit[c].keys /\ entry' = entry /\ cause' = cause
      BY <1>8 DEF InvalidateCache, EditGoes, NoCopy, databaseRows
  <2>2. edit' \in [Clerks -> Edits]
      BY <1>0, <2>1 DEF Edits
  <2>3. ASSUME NEW d \in Clerks, Due(d), entry' = "stale" PROVE Due(d)'
    <3>1. d # c
        BY <2>1, <2>3 DEF Due
    <3>2. QED
        BY <1>0, <2>1, <2>3, <3>1 DEF Due
  <2>4. entry' \in Copy /\ cause' \in {"none", "race", "sector", "move", "occupation"}
      BY <1>0, <2>1 DEF Copy
  <2>5. entry' = "stale" => Excused' \/ \E d \in Clerks : Due(d)'
      BY <1>0, <2>1, <2>3 DEF Excused
  <2>6. QED
      BY <1>0, <1>p, <2>1, <2>2, <2>4, <2>5 DEF CatalogueInv, CatalogueTypeOK, Edits
<1>9. CASE UNCHANGED catalogueVars
  <2>1. UNCHANGED <<sector, occupation, cacheKey, entry, fill, edit, cause>>
      BY <1>9 DEF catalogueVars, databaseRows
  <2>2. QED
      BY <2>1 DEF CatalogueInv, CatalogueTypeOK, Excused, Due
<1>10. QED
    BY <1>1, <1>2, <1>3, <1>5, <1>6, <1>7, <1>8, <1>9 DEF CatalogueNext

\* The invariant has the type and the promise of the cache in it.
LEMMA CataloguePromises == CatalogueInv => CatalogueTypeOK /\ CopiesFollowEdits
    BY DEF CatalogueInv, CopiesFollowEdits, Excused, Due, NoEdit

\* A copy that is out of date when no edit is open was stored by a reader who fetched
\* before the edit, or is one of those an edit of a sector, or of an occupation that has
\* moved, leaves alone.
THEOREM CatalogueFollowsEdits == CatalogueSpec => []CopiesFollowEdits
    BY CatalogueInitInv, CatalogueNextInv, CataloguePromises, PTL DEF CatalogueSpec

-----------------------------------------------------------------------------
(***************************************************************************)
(* The embeddings. While no call comes between, what is stored was built   *)
(* of the posting's text, or a build of it is under way.                   *)
(***************************************************************************)

BuildRow == [does : {"nothing", "editing", "detail", "storing"}, status : Listing \cup {"none"},
             text : 0 .. MaxText]
BuildTyped ==
    /\ listing \in Listing /\ text \in 1 .. MaxText /\ embedding \in 0 .. text
    /\ build \in [Writers -> BuildRow]
    /\ \A w \in Writers : build[w].text <= text
    /\ released \in BOOLEAN /\ buildsCalm \in BOOLEAN

UpToDate(w) ==
    /\ build[w].does = "editing" => build[w].status = listing
    /\ build[w].does = "storing" => build[w].text = text
Coming == \E w \in Writers : build[w].does \in {"detail", "storing"}

\* While requests neither overlap nor fail: one is open at most, what it has read
\* still holds, and the text of a published posting is stored or on its way.
BuildCalmOrder ==
    buildsCalm =>
        /\ \A v, w \in OpenBuilds : v = w
        /\ \A w \in Writers : UpToDate(w)
        /\ listing = "PUBLISHED" /\ ~released => embedding = text \/ Coming

BuildInv == BuildTyped /\ BuildCalmOrder

\* A writer that is idle is well formed.
LEMMA BuildNothing == NoBuild \in BuildRow /\ NoBuild.does = "nothing" /\ NoBuild.text = 0
    BY EmbeddingsAssumption DEF NoBuild, BuildRow

\* A posting begins with its embedding.
LEMMA BuildInitInv == EmbeddingsInit => BuildInv
<1> SUFFICES ASSUME EmbeddingsInit PROVE BuildInv
    OBVIOUS
<1>1. BuildTyped
  <2>1. build \in [Writers -> BuildRow] /\ \A w \in Writers : build[w].text = 0
      BY BuildNothing DEF EmbeddingsInit
  <2>2. text \in 1 .. MaxText /\ text = 1 /\ embedding \in 0 .. text
      BY EmbeddingsAssumption DEF EmbeddingsInit
  <2>3. listing \in Listing /\ released \in BOOLEAN /\ buildsCalm \in BOOLEAN
      BY DEF EmbeddingsInit, Listing
  <2>4. \A w \in Writers : build[w].text <= text
      BY <2>1, <2>2
  <2>5. QED
      BY <2>1, <2>2, <2>3, <2>4 DEF BuildTyped
<1>2. BuildCalmOrder
    BY BuildNothing DEF EmbeddingsInit, BuildCalmOrder, UpToDate, OpenBuilds
<1>3. QED
    BY <1>1, <1>2 DEF BuildInv

\* A request that begins, goes on or ends leaves the others alone.
LEMMA BuildMoves ==
    ASSUME BuildTyped, NEW w \in Writers, NEW what \in BuildRow, build' = [build EXCEPT ![w] = what],
           what.text <= text', text' \in 1 .. MaxText, text <= text'
    PROVE  /\ build' \in [Writers -> BuildRow] /\ \A v \in Writers : build'[v].text <= text'
           /\ build'[w] = what /\ \A v \in Writers \ {w} : build'[v] = build[v]
           /\ OpenBuilds' \subseteq OpenBuilds \cup {w}
           /\ what = NoBuild => OpenBuilds' = OpenBuilds \ {w}
<1>1. \A v \in Writers : build[v].text \in Nat /\ build[v].text <= text /\ text \in Nat /\ text' \in Nat
    BY EmbeddingsAssumption DEF BuildTyped, BuildRow
<1>2. build' \in [Writers -> BuildRow] /\ build'[w] = what /\ \A v \in Writers \ {w} : build'[v] = build[v]
    BY DEF BuildTyped
<1>3. QED
    BY <1>1, <1>2 DEF OpenBuilds

\* A writer begins: the order of the calm stays.
LEMMA BuildBegins ==
    ASSUME BuildInv, NEW w \in Writers, NEW does \in {"editing", "detail"}, BeginBuild(w, does), text' = text
    PROVE  /\ build' \in [Writers -> BuildRow] /\ \A v \in Writers : build'[v].text <= text'
           /\ build'[w].does = does /\ build'[w].status = listing
           /\ \A v \in Writers \ {w} : build'[v] = build[v]
           /\ buildsCalm' \in BOOLEAN
           /\ buildsCalm' => /\ buildsCalm /\ OpenBuilds = {}
                             /\ \A u, v \in OpenBuilds' : u = v
<1> DEFINE what == [NoBuild EXCEPT !.does = does, !.status = listing]
<1>1. what \in BuildRow /\ what.text = 0 /\ what.does = does /\ what.status = listing
  <2>1. listing \in Listing
      BY DEF BuildInv, BuildTyped
  <2>2. LET begun == [NoBuild EXCEPT !.does = does]
        IN  begun \in BuildRow /\ begun.text = 0 /\ begun.does = does
      BY BuildNothing DEF BuildRow
  <2>3. QED
      BY <2>1, <2>2 DEF BuildRow
<1>2. build' = [build EXCEPT ![w] = what] /\ buildsCalm' = (buildsCalm /\ OpenBuilds = {})
    BY DEF BeginBuild
<1> HIDE DEF what
<1>3. what.text <= text' /\ text' \in 1 .. MaxText /\ text <= text'
    BY <1>1, EmbeddingsAssumption DEF BuildInv, BuildTyped
<1>4. QED
    BY <1>1, <1>2, <1>3, BuildMoves DEF BuildInv, BuildTyped

\* A writer is done, or fails.
LEMMA BuildStops ==
    ASSUME BuildInv, NEW w \in Writers, build[w] # NoBuild, BuildEnds(w),
           text' \in 1 .. MaxText, text <= text'
    PROVE  /\ build' \in [Writers -> BuildRow] /\ \A v \in Writers : build'[v].text <= text'
           /\ buildsCalm => OpenBuilds' = {} /\ \A v \in Writers : build'[v] = NoBuild
<1>1. NoBuild.text <= text'
    BY BuildNothing, EmbeddingsAssumption
<1>2. /\ build' \in [Writers -> BuildRow] /\ \A v \in Writers : build'[v].text <= text'
      /\ OpenBuilds' = OpenBuilds \ {w}
    BY <1>1, BuildNothing, BuildMoves DEF BuildInv, BuildEnds
<1>3. w \in OpenBuilds
    BY DEF OpenBuilds
<1>4. buildsCalm => OpenBuilds' = {}
    BY <1>2, <1>3 DEF BuildInv, BuildCalmOrder
<1>5. QED
    BY <1>2, <1>4 DEF OpenBuilds

\* Every step of an edit or a build keeps the invariant.
LEMMA BuildNextInv == BuildInv /\ [EmbeddingsNext]_embeddingVars => BuildInv'
<1> SUFFICES ASSUME BuildInv, [EmbeddingsNext]_embeddingVars PROVE BuildInv'
    OBVIOUS
<1>0. /\ listing \in Listing /\ text \in 1 .. MaxText /\ embedding \in 0 .. text /\ MaxText \in Nat
      /\ build \in [Writers -> BuildRow] /\ \A w \in Writers : build[w].text <= text
      /\ released \in BOOLEAN /\ buildsCalm \in BOOLEAN
    BY EmbeddingsAssumption DEF BuildInv, BuildTyped
<1>1. ASSUME NEW w \in Writers, ReadForEdit(w) PROVE BuildInv'
  <2>1. BeginBuild(w, "editing") /\ listing' = listing /\ text' = text /\ embedding' = embedding
        /\ released' = released
      BY <1>1 DEF ReadForEdit
  <2>2. /\ build' \in [Writers -> BuildRow] /\ \A v \in Writers : build'[v].text <= text'
        /\ build'[w].does = "editing" /\ build'[w].status = listing
        /\ \A v \in Writers \ {w} : build'[v] = build[v]
        /\ buildsCalm' \in BOOLEAN
        /\ buildsCalm' => /\ buildsCalm /\ OpenBuilds = {}
                          /\ \A u, v \in OpenBuilds' : u = v
      BY <2>1, BuildBegins
  <2>3. BuildTyped'
      BY <1>0, <2>1, <2>2 DEF BuildTyped
  <2>4. buildsCalm' => ~Coming
      BY <2>2, BuildNothing DEF Coming, OpenBuilds
  <2>5. \A v \in Writers : buildsCalm' => UpToDate(v)'
      BY <2>1, <2>2 DEF BuildInv, BuildCalmOrder, UpToDate
  <2>6. BuildCalmOrder'
      BY <2>1, <2>2, <2>4, <2>5 DEF BuildInv, BuildCalmOrder
  <2>7. QED
      BY <2>3, <2>6 DEF BuildInv
<1>2. ASSUME NEW w \in Writers, WriteText(w) PROVE BuildInv'
  <2>1. /\ build[w].does = "editing" /\ build[w] # NoBuild /\ text' = text + 1 /\ text' \in 1 .. MaxText
        /\ text <= text' /\ text < text' /\ embedding \in 0 .. text'
        /\ listing' = listing /\ embedding' = embedding /\ released' = released /\ buildsCalm' = buildsCalm
      BY <1>0, <1>2, BuildNothing DEF WriteText
  <2>2. CASE build[w].status = "PUBLISHED"
    <3> DEFINE what == [build[w] EXCEPT !.does = "detail"]
    <3>1. what \in BuildRow /\ what.does = "detail" /\ what.text = build[w].text
        BY <1>0 DEF BuildRow
    <3>2. build' = [build EXCEPT ![w] = what]
        BY <1>0, <1>2, <2>2 DEF WriteText, Rebuilds, BuildGoes
    <3>3. what.text <= text'
        BY <1>0, <2>1, <3>1 DEF BuildRow
    <3> HIDE DEF what
    <3>4. /\ build' \in [Writers -> BuildRow] /\ \A v \in Writers : build'[v].text <= text'
          /\ build'[w] = what /\ \A v \in Writers \ {w} : build'[v] = build[v]
          /\ OpenBuilds' \subseteq OpenBuilds \cup {w}
        BY <2>1, <3>1, <3>2, <3>3, BuildMoves DEF BuildInv
    <3>5. BuildTyped'
        BY <1>0, <2>1, <3>4 DEF BuildTyped
    <3>6. w \in OpenBuilds
        BY <2>1 DEF OpenBuilds
    <3>7. ASSUME buildsCalm, NEW v \in Writers PROVE UpToDate(v)'
      <4>1. CASE v = w
          BY <3>1, <3>4, <4>1 DEF UpToDate
      <4>2. CASE v # w
        <5>1. build'[v] = NoBuild
            BY <3>4, <3>6, <3>7, <4>2 DEF BuildInv, BuildCalmOrder, OpenBuilds
        <5>2. QED
            BY <5>1, BuildNothing DEF UpToDate
      <4>3. QED
          BY <4>1, <4>2
    <3>8. Coming'
        BY <3>1, <3>4 DEF Coming
    <3>9. BuildCalmOrder'
        BY <2>1, <3>4, <3>6, <3>7, <3>8 DEF BuildInv, BuildCalmOrder
    <3>10. QED
        BY <3>5, <3>9 DEF BuildInv
  <2>3. CASE build[w].status # "PUBLISHED"
    <3>1. BuildEnds(w)
        BY <1>2, <2>3 DEF WriteText, Rebuilds
    <3>2. /\ build' \in [Writers -> BuildRow] /\ \A v \in Writers : build'[v].text <= text'
          /\ buildsCalm => OpenBuilds' = {} /\ \A v \in Writers : build'[v] = NoBuild
        BY <2>1, <3>1, BuildStops
    <3>3. BuildTyped'
        BY <1>0, <2>1, <3>2 DEF BuildTyped
    <3>4. buildsCalm => listing # "PUBLISHED"
        BY <2>1, <2>3 DEF BuildInv, BuildCalmOrder, UpToDate
    <3>5. BuildCalmOrder'
        BY <2>1, <3>2, <3>4, BuildNothing DEF BuildCalmOrder, UpToDate
    <3>6. QED
        BY <3>3, <3>5 DEF BuildInv
  <2>4. QED
      BY <2>2, <2>3
<1>3. ASSUME NEW w \in Writers, PublishAndBuild(w) PROVE BuildInv'
  <2>1. /\ BeginBuild(w, "detail") /\ listing' = "PUBLISHED" /\ released' = FALSE
        /\ text' = text /\ embedding' = embedding
      BY <1>3 DEF PublishAndBuild
  <2>2. /\ build' \in [Writers -> BuildRow] /\ \A v \in Writers : build'[v].text <= text'
        /\ build'[w].does = "detail"
        /\ \A v \in Writers \ {w} : build'[v] = build[v]
        /\ buildsCalm' \in BOOLEAN
        /\ buildsCalm' => /\ buildsCalm /\ OpenBuilds = {}
                          /\ \A u, v \in OpenBuilds' : u = v
      BY <2>1, BuildBegins
  <2>3. BuildTyped'
      BY <1>0, <2>1, <2>2 DEF BuildTyped, Listing
  <2>4. Coming'
      BY <2>2 DEF Coming
  <2>5. ASSUME buildsCalm', NEW v \in Writers PROVE UpToDate(v)'
    <3>1. CASE v = w
        BY <2>2, <3>1 DEF UpToDate
    <3>2. CASE v # w
      <4>1. build'[v] = NoBuild
          BY <2>2, <2>5, <3>2 DEF OpenBuilds
      <4>2. QED
          BY <4>1, BuildNothing DEF UpToDate
    <3>3. QED
        BY <3>1, <3>2
  <2>6. BuildCalmOrder'
      BY <2>2, <2>4, <2>5 DEF BuildCalmOrder
  <2>7. QED
      BY <2>3, <2>6 DEF BuildInv
<1>4. ASSUME NEW w \in Writers, GetDetail(w) PROVE BuildInv'
  <2> DEFINE what == [build[w] EXCEPT !.does = "storing", !.text = text]
  <2>1. /\ build[w].does = "detail" /\ build[w] # NoBuild /\ build' = [build EXCEPT ![w] = what]
        /\ listing' = listing /\ text' = text /\ embedding' = embedding
        /\ released' = released /\ buildsCalm' = buildsCalm
      BY <1>0, <1>4, BuildNothing DEF GetDetail
  <2>2. what \in BuildRow /\ what.does = "storing" /\ what.text = text
    <3>1. build[w] \in BuildRow /\ text \in 0 .. MaxText
        BY <1>0
    <3>2. [build[w] EXCEPT !.does = "storing"] \in BuildRow
        BY <3>1 DEF BuildRow
    <3>3. QED
        BY <3>1, <3>2 DEF BuildRow
  <2> HIDE DEF what
  <2>3. what.text <= text' /\ text' \in 1 .. MaxText /\ text <= text'
      BY <1>0, <2>1, <2>2
  <2>4. /\ build' \in [Writers -> BuildRow] /\ \A v \in Writers : build'[v].text <= text'
        /\ build'[w] = what /\ \A v \in Writers \ {w} : build'[v] = build[v]
        /\ OpenBuilds' \subseteq OpenBuilds \cup {w}
      BY <2>1, <2>2, <2>3, BuildMoves DEF BuildInv
  <2>5. BuildTyped' /\ w \in OpenBuilds /\ Coming'
      BY <1>0, <2>1, <2>2, <2>4 DEF BuildTyped, OpenBuilds, Coming
  <2>6. BuildCalmOrder'
      BY <2>1, <2>2, <2>4, <2>5 DEF BuildInv, BuildCalmOrder, UpToDate
  <2>7. QED
      BY <2>5, <2>6 DEF BuildInv
<1>5. ASSUME NEW w \in Writers, UpdateJobEmbeddings(w) PROVE BuildInv'
  <2>1. /\ build[w].does = "storing" /\ build[w] # NoBuild /\ BuildEnds(w) /\ embedding' = build[w].text
        /\ listing' = listing /\ text' = text /\ released' = released /\ buildsCalm' = buildsCalm
        /\ text' \in 1 .. MaxText /\ text <= text'
      BY <1>0, <1>5, BuildNothing DEF UpdateJobEmbeddings
  <2>2. /\ build' \in [Writers -> BuildRow] /\ \A v \in Writers : build'[v].text <= text'
        /\ buildsCalm => OpenBuilds' = {} /\ \A v \in Writers : build'[v] = NoBuild
      BY <2>1, BuildStops
  <2>3. build[w].text \in 0 .. text
      BY <1>0 DEF BuildRow
  <2>4. BuildTyped'
      BY <1>0, <2>1, <2>2, <2>3 DEF BuildTyped
  <2>5. buildsCalm => build[w].text = text
      BY <2>1 DEF BuildInv, BuildCalmOrder, UpToDate
  <2>6. BuildCalmOrder'
      BY <2>1, <2>2, <2>5, BuildNothing DEF BuildCalmOrder, UpToDate
  <2>7. QED
      BY <2>4, <2>6 DEF BuildInv
<1>6. ASSUME NEW w \in Writers, BuildFails(w) PROVE BuildInv'
  <2>1. /\ build[w] # NoBuild /\ BuildEnds(w) /\ buildsCalm' = FALSE
        /\ listing' = listing /\ text' = text /\ embedding' = embedding /\ released' = released
        /\ text' \in 1 .. MaxText /\ text <= text'
      BY <1>0, <1>6 DEF BuildFails
  <2>2. build' \in [Writers -> BuildRow] /\ \A v \in Writers : build'[v].text <= text'
      BY <2>1, BuildStops
  <2>3. QED
      BY <1>0, <2>1, <2>2 DEF BuildInv, BuildTyped, BuildCalmOrder
<1>7. ASSUME NEW to \in Listing, SetListing(to) PROVE BuildInv'
  <2>1. /\ to # listing /\ listing' = to /\ released' = (released \/ to = "PUBLISHED")
        /\ buildsCalm' = (buildsCalm /\ OpenBuilds = {})
        /\ text' = text /\ embedding' = embedding /\ build' = build
      BY <1>7 DEF SetListing
  <2>2. BuildTyped'
      BY <1>0, <2>1 DEF BuildTyped
  <2>3. buildsCalm' => \A w \in Writers : build'[w] = NoBuild
      BY <2>1 DEF OpenBuilds
  <2>4. BuildCalmOrder'
      BY <2>1, <2>3, BuildNothing DEF BuildCalmOrder, UpToDate, OpenBuilds
  <2>5. QED
      BY <2>2, <2>4 DEF BuildInv
<1>8. CASE UNCHANGED embeddingVars
    BY <1>8 DEF embeddingVars, BuildInv, BuildTyped, BuildCalmOrder, UpToDate, OpenBuilds, Coming
<1>9. QED
    BY <1>1, <1>2, <1>3, <1>4, <1>5, <1>6, <1>7, <1>8 DEF EmbeddingsNext

\* The invariant has the type and the promise of the embeddings in it.
LEMMA BuildPromises == BuildInv => EmbeddingsTypeOK /\ MatchedByItsText
<1> SUFFICES ASSUME BuildInv PROVE EmbeddingsTypeOK /\ MatchedByItsText
    OBVIOUS
<1>1. EmbeddingsTypeOK /\ embedding <= text
    BY EmbeddingsAssumption DEF BuildInv, BuildTyped, EmbeddingsTypeOK, BuildRow
<1>2. OpenBuilds = {} => ~Coming
    BY BuildNothing DEF OpenBuilds, Coming
<1>3. QED
    BY <1>1, <1>2 DEF BuildInv, BuildCalmOrder, MatchedByItsText

\* In calm a posting that is matched is matched by the text it shows.
THEOREM EmbeddingsMatch == EmbeddingsSpec => []MatchedByItsText
    BY BuildInitInv, BuildNextInv, BuildPromises, PTL DEF EmbeddingsSpec

-----------------------------------------------------------------------------
(***************************************************************************)
(* The scores. Every component is between minus one and one, whatever the  *)
(* profile and the offer leave open, and the weighted sum keeps the order  *)
(* of its components.                                                      *)
(***************************************************************************)

Weighted == TotalWeight(configs) = 100
MatchInv ==
    /\ profile \in Profiles /\ offer \in Offers
    /\ configs \in [ConfigKeys -> 0 .. 100]
    /\ wholeUpdates \in BOOLEAN
    /\ wholeUpdates => Weighted

\* A score that is lowered in proportion.
LEMMA Quotient ==
    ASSUME NEW n \in Nat, NEW d \in Nat, d > 0
    PROVE  n \div d \in Nat
    OBVIOUS

\* What is left of one after a share is taken.
LEMMA Lowered ==
    ASSUME NEW n \in Nat, NEW d \in Nat, d > 0
    PROVE  AtLeast0(One - (n * One) \div d) \in 0 .. One
<1>1. n * One \in Nat
    BY DEF One
<1>2. (n * One) \div d \in Nat
    BY <1>1, Quotient
<1> DEFINE q == (n * One) \div d
<1>3. q \in Nat
    BY <1>2
<1> HIDE DEF q
<1>4. QED
    BY <1>3 DEF q, AtLeast0, One

\* A share of a score is none of its double.
LEMMA ScaledBounds ==
    ASSUME NEW a \in Nat, NEW s \in (-One) .. One
    PROVE  a * s \in Int /\ a * s <= a * One
    BY DEF One

\* A share grows with its score.
LEMMA ScaledGrows ==
    ASSUME NEW a \in Nat, NEW s \in Int, NEW t \in Int, t <= s
    PROVE  a * s \in Int /\ a * t \in Int /\ a * t <= a * s
    OBVIOUS

Scores == [Weights -> (-One) .. One]

\* A score, positive or not, is a number.
LEMMA ScoreIsInteger ==
    ASSUME NEW x \in (-One) .. One
    PROVE  x \in Int
    BY DEF One

\* The score of a salary is one.
LEMMA SalaryScored ==
    ASSUME NEW expected \in Maybe(Nat), NEW lo \in Maybe(Nat), NEW hi \in Maybe(Nat)
    PROVE  SalaryScore(expected, lo, hi) \in 0 .. One
<1>1. One \div 2 \in 0 .. One /\ One \in 0 .. One
    BY DEF One
<1>2. ASSUME lo # Unknown, expected # Unknown, expected < lo
      PROVE  AtLeast0(One - ((lo - expected) * One) \div lo) \in 0 .. One
  <2>1. lo - expected \in Nat /\ lo \in Nat /\ lo > 0
      BY <1>2 DEF Maybe
  <2>2. QED
      BY <2>1, Lowered
<1>3. ASSUME hi # Unknown, expected # Unknown, expected > hi
      PROVE  AtLeast0(One - ((expected - hi) * One) \div expected) \in 0 .. One
  <2>1. expected - hi \in Nat /\ expected \in Nat /\ expected > 0
      BY <1>3 DEF Maybe
  <2>2. QED
      BY <2>1, Lowered
<1>4. QED
    BY <1>1, <1>2, <1>3 DEF SalaryScore

\* Every component of a score is a score.
LEMMA ComponentsScored ==
    ASSUME NEW w \in Profiles, NEW j, j.salaryMin \in Maybe(Nat), j.salaryMax \in Maybe(Nat),
           NEW c \in Similarities, NEW b \in Similarities
    PROVE  ScoreComponents(w, j, c, b) \in Scores
<1>0. /\ One = 1000 /\ One \div 2 = 500 /\ One \div 5 = 200
      /\ c \in (-One) .. One /\ b \in (-One) .. One
      /\ c \div 5 \in -200 .. 200 /\ c \div 10 \in -100 .. 100 /\ (c * 3) \div 10 \in -300 .. 300
    BY MatchingAssumption DEF One
<1>1. w.salary \in Maybe(Nat)
    BY MatchingAssumption
<1>2. SalaryScore(w.salary, j.salaryMin, j.salaryMax) \in 0 .. One
    BY <1>1, SalaryScored
<1>3. RefinedSkillScore(w, j, c) \in (-One) .. One
    BY <1>0 DEF RefinedSkillScore
<1>4. LocationScore(w.place, j.place) \in 0 .. One
    BY <1>0 DEF LocationScore, ProvinceProximity
<1>5. /\ ShiftScore(w.shift, j.shift) \in 0 .. One
      /\ GenderScore(w.gender, j.gender) \in 0 .. One
      /\ AgeScore(w.age, j.ageMin, j.ageMax) \in 0 .. One
    BY <1>0 DEF ShiftScore, GenderScore, AgeScore
<1>6. PICK p : p = ScoreComponents(w, j, c, b)
    OBVIOUS
<1>7. \A k \in Weights : p[k] \in (-One) .. One
  <2>1. /\ p.SKILL = RefinedSkillScore(w, j, c) /\ p.BENEFIT = b
        /\ p.SALARY = SalaryScore(w.salary, j.salaryMin, j.salaryMax)
        /\ p.LOCATION = LocationScore(w.place, j.place) /\ p.SHIFT = ShiftScore(w.shift, j.shift)
        /\ p.GENDER = GenderScore(w.gender, j.gender) /\ p.AGE = AgeScore(w.age, j.ageMin, j.ageMax)
      BY <1>6 DEF ScoreComponents
  <2>2. /\ p.SKILL \in (-One) .. One /\ p.BENEFIT \in (-One) .. One /\ p.SALARY \in 0 .. One
        /\ p.LOCATION \in 0 .. One /\ p.SHIFT \in 0 .. One /\ p.GENDER \in 0 .. One
        /\ p.AGE \in 0 .. One
      BY <1>0, <1>2, <1>3, <1>4, <1>5, <2>1
  <2>3. QED
      BY <1>0, <2>2 DEF Weights
<1>8. p = [k \in Weights |-> p[k]]
    BY <1>6 DEF ScoreComponents, Weights
<1>9. QED
    BY <1>6, <1>7, <1>8 DEF Scores

\* With scores come a number, that grows with each of them, and not beyond one
\* while the weights add up to one.
LEMMA SumsScored ==
    ASSUME configs \in [ConfigKeys -> 0 .. 100], NEW s \in Scores
    PROVE  WeightedSum(s) \in Int /\ (Weighted => WeightedSum(s) <= 100 * One)
<1>1. ASSUME NEW k \in Weights
      PROVE  /\ configs[k] \in Nat /\ configs[k] * s[k] \in Int /\ configs[k] * s[k] <= configs[k] * One
  <2>1. configs[k] \in Nat /\ s[k] \in (-One) .. One
      BY <1>1 DEF Scores, ConfigKeys
  <2>2. QED
      BY <2>1, ScaledBounds
<1>2. Weighted => configs["SKILL"] + configs["BENEFIT"] + configs["SALARY"] + configs["LOCATION"]
                    + configs["SHIFT"] + configs["GENDER"] + configs["AGE"] = 100
    BY DEF Weighted, TotalWeight, Given, ConfigKeys, Weights
<1>3. /\ "SKILL" \in Weights /\ "BENEFIT" \in Weights /\ "SALARY" \in Weights /\ "LOCATION" \in Weights
      /\ "SHIFT" \in Weights /\ "GENDER" \in Weights /\ "AGE" \in Weights
    BY DEF Weights
<1>4. QED
    BY <1>1, <1>2, <1>3 DEF WeightedSum, One

\* The sum grows with each component.
LEMMA SumsGrow ==
    ASSUME configs \in [ConfigKeys -> 0 .. 100], NEW s \in Scores, NEW t \in Scores,
           \A k \in Weights : t[k] <= s[k]
    PROVE  WeightedSum(t) <= WeightedSum(s)
<1>1. ASSUME NEW k \in Weights
      PROVE  configs[k] * s[k] \in Int /\ configs[k] * t[k] \in Int /\ configs[k] * t[k] <= configs[k] * s[k]
  <2>1. configs[k] \in Nat /\ s[k] \in Int /\ t[k] \in Int /\ t[k] <= s[k]
    <3>1. configs[k] \in Nat
        BY <1>1 DEF ConfigKeys
    <3>2. s[k] \in (-One) .. One /\ t[k] \in (-One) .. One
        BY DEF Scores
    <3>3. s[k] \in Int /\ t[k] \in Int
        BY <3>2, ScoreIsInteger
    <3>4. t[k] <= s[k]
        BY <1>1
    <3>5. QED
        BY <3>1, <3>3, <3>4
  <2>2. QED
      BY <2>1, ScaledGrows
<1>2. /\ "SKILL" \in Weights /\ "BENEFIT" \in Weights /\ "SALARY" \in Weights /\ "LOCATION" \in Weights
      /\ "SHIFT" \in Weights /\ "GENDER" \in Weights /\ "AGE" \in Weights
    BY DEF Weights
<1>3. QED
    BY <1>1, <1>2 DEF WeightedSum

\* Rounding keeps the order.
LEMMA RoundedGrows ==
    ASSUME NEW n \in Int, NEW m \in Int, m <= n
    PROVE  /\ (m + 50) \div 100 \in Int /\ (n + 50) \div 100 \in Int
           /\ (m + 50) \div 100 <= (n + 50) \div 100
           /\ n <= 100000 => (n + 50) \div 100 <= 1000
    OBVIOUS

\* The final score is a number, at most one while the weights add up to one.
LEMMA FinalScored ==
    ASSUME configs \in [ConfigKeys -> 0 .. 100], NEW s \in Scores
    PROVE  FinalScore(s) \in Int /\ (Weighted => FinalScore(s) <= One)
<1>1. WeightedSum(s) \in Int /\ (Weighted => WeightedSum(s) <= 100000)
    BY SumsScored DEF One
<1>2. QED
    BY <1>1, RoundedGrows DEF FinalScore, One

\* The final score grows with each component.
LEMMA FinalGrows ==
    ASSUME configs \in [ConfigKeys -> 0 .. 100], NEW s \in Scores, NEW t \in Scores,
           \A k \in Weights : t[k] <= s[k]
    PROVE  FinalScore(t) <= FinalScore(s)
<1>1. WeightedSum(t) \in Int /\ WeightedSum(s) \in Int /\ WeightedSum(t) <= WeightedSum(s)
    BY SumsScored, SumsGrow
<1>2. QED
    BY <1>1, RoundedGrows DEF FinalScore

\* The weights begin with a sum of a hundred.
LEMMA MatchInitInv == MatchingInit => MatchInv
<1> SUFFICES ASSUME MatchingInit PROVE MatchInv
    OBVIOUS
<1>1. configs \in [ConfigKeys -> 0 .. 100]
    BY DEF MatchingInit, ConfigKeys, Weights
<1>2. Weighted
    BY DEF MatchingInit, Weighted, TotalWeight, Given
<1>3. QED
    BY <1>1, <1>2 DEF MatchingInit, MatchInv

\* Every update of the weights keeps the invariant.
LEMMA MatchNextInv == MatchInv /\ [MatchingNext]_matchingVars => MatchInv'
<1> SUFFICES ASSUME MatchInv, [MatchingNext]_matchingVars PROVE MatchInv'
    OBVIOUS
<1>1. ASSUME NEW values \in Updates, UpdateConfigs(values) PROVE MatchInv'
  <2>1. /\ configs' = [k \in ConfigKeys |-> IF k \in DOMAIN values THEN values[k] ELSE configs[k]]
        /\ wholeUpdates' = (wholeUpdates /\ (DOMAIN values \cap Weights \in {{}, Weights}))
        /\ profile' = profile /\ offer' = offer
        /\ DOMAIN values \cap Weights # {} => TotalWeight(values) = 100
        /\ \A k \in DOMAIN values : values[k] \in 0 .. 100
      BY <1>1 DEF UpdateConfigs, Accepted, SumsToOne
  <2>2. configs' \in [ConfigKeys -> 0 .. 100]
      BY <2>1 DEF MatchInv
  <2>3. Weights \subseteq ConfigKeys /\ Weights # {}
      BY DEF ConfigKeys, Weights
  <2>4. CASE DOMAIN values \cap Weights = {}
    <3>1. \A k \in Weights : configs'[k] = configs[k]
        BY <2>1, <2>3, <2>4
    <3>2. Weighted' <=> Weighted
        BY <2>2, <3>1 DEF MatchInv, Weighted, TotalWeight, Given, ConfigKeys, Weights
    <3>3. QED
        BY <2>1, <2>2, <3>2 DEF MatchInv
  <2>5. CASE DOMAIN values \cap Weights = Weights
    <3>1. \A k \in Weights : k \in DOMAIN values /\ configs'[k] = values[k]
        BY <2>1, <2>3, <2>5
    <3>2. TotalWeight(values) = 100
        BY <2>1, <2>3, <2>5
    <3>3. Weighted'
        BY <2>2, <3>1, <3>2 DEF Weighted, TotalWeight, Given, ConfigKeys, Weights
    <3>4. QED
        BY <2>1, <2>2, <3>3 DEF MatchInv
  <2>6. CASE DOMAIN values \cap Weights \notin {{}, Weights}
      BY <2>1, <2>2, <2>6 DEF MatchInv
  <2>7. QED
      BY <2>4, <2>5, <2>6
<1>2. CASE UNCHANGED matchingVars
    BY <1>2 DEF matchingVars, MatchInv, Weighted, TotalWeight, Given
<1>3. QED
    BY <1>1, <1>2 DEF MatchingNext

\* The invariant has the type and the promise of the scores in it.
LEMMA MatchPromises == MatchInv => MatchingTypeOK /\ ScoresCompare
<1> SUFFICES ASSUME MatchInv PROVE MatchingTypeOK /\ ScoresCompare
    OBVIOUS
<1>0. /\ profile \in Profiles /\ offer \in Offers /\ configs \in [ConfigKeys -> 0 .. 100]
      /\ wholeUpdates => Weighted
    BY DEF MatchInv
<1>1. MatchingTypeOK
    BY DEF MatchInv, MatchingTypeOK
<1>2. PICK w \in Profiles, j \in Offers : w = profile /\ j = offer
    BY <1>0
<1>3. ASSUME NEW c \in Similarities, NEW b \in Similarities
      PROVE  LET jobScore == MatchedJobScore(w, j, c, b)
                 workerScore == SuggestedWorkerScore(w, j, c, b)
                 elsewhere == [j EXCEPT !.occupation = Unknown]
             IN  /\ wholeUpdates => jobScore <= One /\ workerScore <= One
                 /\ wholeUpdates /\ IsMatch(workerScore) => IsMatch(jobScore)
                 /\ w.occupation = j.occupation =>
                       \A d \in Similarities : workerScore >= SuggestedWorkerScore(w, elsewhere, d, b)
  <2>0. PICK s : s = ScoreComponents(w, j, c, b)
      OBVIOUS
  <2> DEFINE score == FinalScore(s)
  <2>1. /\ j.salaryMin \in Maybe(Nat) /\ j.salaryMax \in Maybe(Nat) /\ j.occupation # Unknown
        /\ DOMAIN j = OfferFields
      BY MatchingAssumption
  <2>2. s \in Scores
      BY <2>0, <2>1, ComponentsScored
  <2>3. score \in Int /\ (Weighted => score <= One)
      BY <1>0, <2>2, FinalScored
  <2>4. /\ SuggestedWorkerScore(w, j, c, b) = score
        /\ MatchedJobScore(w, j, c, b) = IF j.boosted THEN Boosted(score) ELSE score
      BY <2>0 DEF SuggestedWorkerScore, MatchedJobScore
  <2> HIDE DEF score
  <2>5. Weighted => /\ MatchedJobScore(w, j, c, b) \in Int /\ MatchedJobScore(w, j, c, b) <= One
                    /\ MatchedJobScore(w, j, c, b) >= score
      BY <2>3, <2>4 DEF Boosted, AtMostOne, One
  <2>6. ASSUME wholeUpdates, IsMatch(score) PROVE IsMatch(MatchedJobScore(w, j, c, b))
    <3>1. configs["MIN_SCORE"] * One \in Nat
        BY <1>0 DEF ConfigKeys, One
    <3>2. QED
        BY <1>0, <2>3, <2>5, <2>6, <3>1 DEF IsMatch
  <2>7. ASSUME w.occupation = j.occupation, NEW d \in Similarities
        PROVE  score >= SuggestedWorkerScore(w, [j EXCEPT !.occupation = Unknown], d, b)
    <3>1. PICK e : e = [j EXCEPT !.occupation = Unknown]
        OBVIOUS
    <3>2. PICK t : t = ScoreComponents(w, e, d, b)
        OBVIOUS
    <3>3. /\ e.occupation = Unknown /\ e.sector = j.sector
          /\ e.salaryMin = j.salaryMin /\ e.salaryMax = j.salaryMax
          /\ e.place = j.place /\ e.shift = j.shift /\ e.gender = j.gender
          /\ e.ageMin = j.ageMin /\ e.ageMax = j.ageMax
        BY <2>1, <3>1 DEF OfferFields
    <3>4. t \in Scores
        BY <2>1, <3>2, <3>3, ComponentsScored
    <3>5. \A k \in Weights \ {"SKILL"} : t[k] = s[k]
        BY <2>0, <3>2, <3>3 DEF ScoreComponents, Weights
    <3>6. t["SKILL"] <= s["SKILL"]
      <4>1. s["SKILL"] = 800 + c \div 5
          BY <2>0, <2>7 DEF ScoreComponents, RefinedSkillScore
      <4>2. t["SKILL"] = 200 + (d * 3) \div 10 \/ t["SKILL"] = d \div 10
          BY <2>1, <2>7, <3>2, <3>3 DEF ScoreComponents, RefinedSkillScore
      <4>a. c \in -1000 .. 1000 /\ d \in -1000 .. 1000
          BY MatchingAssumption
      <4>3. c \div 5 >= -200 /\ (d * 3) \div 10 <= 300 /\ d \div 10 <= 100
          BY <4>a
      <4>4. QED
          BY <4>1, <4>2, <4>3, <4>a
    <3>7. \A k \in Weights : t[k] <= s[k]
      <4>1. \A k \in Weights : s[k] \in Int
          BY <2>2 DEF Scores, One
      <4>2. QED
          BY <3>5, <3>6, <4>1
    <3>8. FinalScore(t) <= FinalScore(s)
        BY <1>0, <2>2, <3>4, <3>7, FinalGrows
    <3>9. FinalScore(t) \in Int
        BY <1>0, <3>4, FinalScored
    <3>10. QED
        BY <2>3, <3>1, <3>2, <3>8, <3>9 DEF SuggestedWorkerScore, score
  <2>8. wholeUpdates => score <= One
      BY <1>0, <2>3
  <2>9. QED
      BY <1>0, <2>4, <2>5, <2>6, <2>7, <2>8
<1>4. QED
    BY <1>1, <1>2, <1>3 DEF ScoresCompare

\* While the weights are updated together no score passes one and a boost costs no job a
\* match; and a job of the worker's occupation is never scored below the same job of
\* another, whatever the profiles, the offers, the similarities of their texts and the
\* updates of the weights (getMatchedJobs, getSuggestedWorkers, updateConfigs).
THEOREM MatchingCompares == MatchingSpec => []ScoresCompare
    BY MatchInitInv, MatchNextInv, MatchPromises, PTL DEF MatchingSpec
=============================================================================
