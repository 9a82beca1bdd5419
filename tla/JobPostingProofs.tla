--------------------------- MODULE JobPostingProofs ---------------------------
(***************************************************************************)
(* Theorems about JobPosting for any number of postings, requests, points  *)
(* and packages.                                                           *)
(*                                                                         *)
(* What holds under every overlap rests on what the requests in progress   *)
(* have been charged for: owed covers the posts and the days of boost that *)
(* they have yet to deliver, and every day by which a boost has grown      *)
(* behind the back of the request that has read its end.  Days are counted *)
(* as elements of a set, so that they can be added without a sum.          *)
(* What holds in calm rests on there being one request in progress.        *)
(***************************************************************************)
EXTENDS JobPosting, FiniteSetTheorems, TLAPS

Request == [job : Jobs \cup {NoJob}, days : Nat, price : Nat, read : Nat]

\* A request in progress is about a posting.
AboutJobs == \A r \in Requests : pc[r] # "idle" => req[r].job \in Jobs

\* The requests that have been charged for a post of j and not published it.
PostsDue(j) == {r \in Requests : pc[r] = "publishing" /\ req[r].job = j}

\* The days of boost of j that have been charged and not added yet, each with the
\* request that will add it.
Boosting == {"boosting", "extending"}
DaysOf(r, days) == {r} \X (1 .. days)
DaysDue(j) ==
    {x \in Requests \X Nat : pc[x[1]] \in Boosting /\ req[x[1]].job = j /\ x[2] \in 1 .. req[x[1]].days}

PostsCovered ==
    \A j \in Jobs : IsFiniteSet(PostsDue(j)) /\ Cardinality(PostsDue(j)) <= owed[j].posts
DaysCovered ==
    \A j \in Jobs :
        /\ IsFiniteSet(DaysDue(j)) /\ Cardinality(DaysDue(j)) <= owed[j].days
        /\ \A r \in Requests : pc[r] = "extending" /\ req[r].job = j =>
              Cardinality(DaysDue(j)) + req[r].read - job[j].left <= owed[j].days

\* Whatever is published has its licence, and whoever is about to publish.
Licensed ==
    /\ Published \subseteq licensed
    /\ \A r \in Requests : pc[r] = "publishing" => req[r].job \in licensed

\* The free postings and those about to be are no more than the requests that
\* were open when the first of them was published.
BecomingFree == {r \in Requests : pc[r] = "publishingFree"}
FreeBounded ==
    /\ IsFiniteSet(free)
    /\ ~firstPostUsed => free = {}
    /\ Cardinality(free) + Cardinality(BecomingFree) <= Cardinality(Requests)

IInv == TypeOK /\ AboutJobs /\ PostsCovered /\ DaysCovered /\ Licensed /\ FreeBounded

-----------------------------------------------------------------------------
\* The requests that the actions make are well formed.
LEMMA RequestsTyped ==
    /\ NoRequest \in Request
    /\ \A j \in Jobs : About(j) \in Request /\ About(j).job = j
    BY DEF Request, NoRequest, About

\* What a request does to the control state, and that it touches no other's.
LEMMA GotoFlight ==
    ASSUME TypeOK, NEW r \in Requests, NEW place \in Place, NEW what \in Request,
           Goto(r, place, what)
    PROVE  /\ pc' \in [Requests -> Place] /\ req' \in [Requests -> Request]
           /\ pc'[r] = place /\ req'[r] = what
           /\ \A q \in Requests \ {r} : pc'[q] = pc[q] /\ req'[q] = req[q]
    BY DEF TypeOK, Goto, Request

\* ... and to the sets by which deliveries that are due are counted.
LEMMA GotoDue ==
    ASSUME TypeOK, NEW r \in Requests, NEW place \in Place, NEW what \in Request,
           Goto(r, place, what)
    PROVE  /\ BecomingFree' = IF place = "publishingFree" THEN BecomingFree \cup {r}
                              ELSE BecomingFree \ {r}
           /\ \A j \in Jobs :
                 /\ PostsDue(j)' = IF place = "publishing" /\ what.job = j
                                   THEN PostsDue(j) \cup {r} ELSE PostsDue(j) \ {r}
                 /\ ~(place \in Boosting /\ what.job = j) =>
                       DaysDue(j)' = DaysDue(j) \ {x \in DaysDue(j) : x[1] = r}
                 /\ place \in Boosting /\ what.job = j =>
                       DaysDue(j)' = (DaysDue(j) \ {x \in DaysDue(j) : x[1] = r})
                                        \cup DaysOf(r, what.days)
<1> USE GotoFlight
<1>1. BecomingFree' = IF place = "publishingFree" THEN BecomingFree \cup {r} ELSE BecomingFree \ {r}
    BY DEF BecomingFree
<1>2. ASSUME NEW j \in Jobs
      PROVE  /\ PostsDue(j)' = IF place = "publishing" /\ what.job = j
                                   THEN PostsDue(j) \cup {r} ELSE PostsDue(j) \ {r}
             /\ ~(place \in Boosting /\ what.job = j) =>
                       DaysDue(j)' = DaysDue(j) \ {x \in DaysDue(j) : x[1] = r}
             /\ place \in Boosting /\ what.job = j =>
                       DaysDue(j)' = (DaysDue(j) \ {x \in DaysDue(j) : x[1] = r})
                                        \cup DaysOf(r, what.days)
  <2>1. PostsDue(j)' = IF place = "publishing" /\ what.job = j
                       THEN PostsDue(j) \cup {r} ELSE PostsDue(j) \ {r}
      BY DEF PostsDue
  <2>2. ASSUME NEW x \in Requests \X Nat, x[1] # r
        PROVE  x \in DaysDue(j)' <=> x \in DaysDue(j)
      BY <2>2 DEF DaysDue
  <2>3. ASSUME NEW x \in Requests \X Nat, x[1] = r
        PROVE  x \in DaysDue(j)' <=> place \in Boosting /\ what.job = j /\ x \in DaysOf(r, what.days)
      BY <2>3 DEF DaysDue, DaysOf
  <2>4. /\ DaysDue(j) \subseteq Requests \X Nat /\ DaysDue(j)' \subseteq Requests \X Nat
        /\ DaysOf(r, what.days) \subseteq Requests \X Nat
        /\ \A x \in DaysOf(r, what.days) : x[1] = r
      BY DEF DaysDue, DaysOf
  <2>5. QED
      BY <2>1, <2>2, <2>3, <2>4
<1>3. QED
    BY <1>1, <1>2

\* A number of days has as many pairs with a request.
LEMMA DaysCounted ==
    ASSUME NEW r, NEW days \in Nat
    PROVE  IsFiniteSet(DaysOf(r, days)) /\ Cardinality(DaysOf(r, days)) = days
<1>1. IsFiniteSet({r}) /\ Cardinality({r}) = 1
    BY FS_Singleton
<1>2. IsFiniteSet(1 .. days) /\ Cardinality(1 .. days) = days
    BY FS_Interval
<1>3. /\ IsFiniteSet({r} \X (1 .. days))
      /\ Cardinality({r} \X (1 .. days)) = Cardinality({r}) * Cardinality(1 .. days)
    BY <1>1, <1>2, FS_Product
<1>4. QED
    BY <1>1, <1>2, <1>3 DEF DaysOf

-----------------------------------------------------------------------------
(* What kinds of steps do to the invariant.                                *)

\* A step that is not a request's, or that a request makes before it delivers: it
\* charges nothing, delivers nothing, and takes nothing on.
LEMMA NothingTakenOn ==
    ASSUME IInv, NEW r \in Requests, NEW place \in Place, NEW what \in Request,
           Goto(r, place, what),
           place \notin Boosting \cup {"publishing", "publishingFree"},
           UNCHANGED owed, \A j \in Jobs : job'[j].left = job[j].left
    PROVE  /\ PostsCovered' /\ DaysCovered'
           /\ IsFiniteSet(BecomingFree')
           /\ Cardinality(BecomingFree') <= Cardinality(BecomingFree)
<1> USE DEF IInv
<1>1. ASSUME NEW j \in Jobs
      PROVE  IsFiniteSet(PostsDue(j)') /\ Cardinality(PostsDue(j)') <= owed'[j].posts
  <2>1. PostsDue(j)' \in SUBSET PostsDue(j)
      BY GotoDue
  <2>2. IsFiniteSet(PostsDue(j)) /\ Cardinality(PostsDue(j)) <= owed[j].posts /\ owed[j].posts \in Nat
      BY DEF PostsCovered, TypeOK
  <2>3. QED
      BY <2>1, <2>2, FS_Subset, FS_CardinalityType
<1>2. ASSUME NEW j \in Jobs
      PROVE  /\ IsFiniteSet(DaysDue(j)') /\ Cardinality(DaysDue(j)') <= owed'[j].days
             /\ \A q \in Requests : pc'[q] = "extending" /\ req'[q].job = j =>
                   Cardinality(DaysDue(j)') + req'[q].read - job'[j].left <= owed'[j].days
  <2>1. DaysDue(j)' \in SUBSET DaysDue(j)
      BY GotoDue
  <2>2. IsFiniteSet(DaysDue(j)) /\ Cardinality(DaysDue(j)) <= owed[j].days /\ owed[j].days \in Nat
      BY DEF DaysCovered, TypeOK
  <2>3. /\ IsFiniteSet(DaysDue(j)') /\ Cardinality(DaysDue(j)') <= Cardinality(DaysDue(j))
        /\ Cardinality(DaysDue(j)) \in Nat /\ Cardinality(DaysDue(j)') \in Nat
      BY <2>1, <2>2, FS_Subset, FS_CardinalityType
  <2>4. ASSUME NEW q \in Requests, pc'[q] = "extending", req'[q].job = j
        PROVE  Cardinality(DaysDue(j)') + req'[q].read - job'[j].left <= owed'[j].days
    <3>1. q # r
        BY <2>4, GotoFlight DEF Boosting
    <3>2. pc[q] = "extending" /\ req[q].job = j /\ req'[q] = req[q]
        BY <2>4, <3>1, GotoFlight
    <3>3. Cardinality(DaysDue(j)) + req[q].read - job[j].left <= owed[j].days
        BY <3>2 DEF DaysCovered
    <3>4. req[q].read \in Nat /\ job[j].left \in Nat
        BY DEF TypeOK, Posting
    <3>5. QED
        BY <2>2, <2>3, <3>2, <3>3, <3>4
  <2>5. QED
      BY <2>2, <2>3, <2>4
<1>3. IsFiniteSet(BecomingFree') /\ Cardinality(BecomingFree') <= Cardinality(BecomingFree)
  <2>1. BecomingFree' \in SUBSET BecomingFree
      BY GotoDue
  <2>2. IsFiniteSet(BecomingFree)
      BY FS_Subset, JobAssumption DEF BecomingFree
  <2>3. QED
      BY <2>1, <2>2, FS_Subset
<1>4. QED
    BY <1>1, <1>2, <1>3 DEF PostsCovered, DaysCovered

\* A request that arrives, goes on to be charged, or ends, and what goes with it:
\* a posting may be inserted, and the calm may end.
LEMMA NoDelivery ==
    ASSUME IInv, NEW r \in Requests, NEW place \in Place, NEW what \in Request,
           Goto(r, place, what),
           place \notin Boosting \cup {"publishing", "publishingFree"},
           place # "idle" => what.job \in Jobs,
           job' \in [Jobs -> Posting], \A j \in Jobs : job'[j].left = job[j].left,
           Published' \subseteq Published, calm' \in BOOLEAN,
           UNCHANGED <<firstPostUsed, balance, licensed, free, owed>>
    PROVE  IInv'
<1> USE DEF IInv
<1>1. TypeOK'
    BY GotoFlight DEF TypeOK, Request
<1>2. AboutJobs'
    BY GotoFlight DEF AboutJobs
<1>3. PostsCovered' /\ DaysCovered'
    BY NothingTakenOn
<1>4. Licensed'
    BY GotoFlight DEF Licensed
<1>5. FreeBounded'
  <2>1. Cardinality(free) \in Nat /\ Cardinality(BecomingFree) \in Nat /\ Cardinality(Requests) \in Nat
      BY FS_Subset, FS_CardinalityType, JobAssumption DEF FreeBounded, BecomingFree
  <2>2. Cardinality(BecomingFree') \in Nat /\ Cardinality(BecomingFree') <= Cardinality(BecomingFree)
      BY NothingTakenOn, FS_CardinalityType
  <2>3. QED
      BY <2>1, <2>2 DEF FreeBounded
<1>6. QED
    BY <1>1, <1>2, <1>3, <1>4, <1>5

\* A step of the moderator, the employer's edits, the hourly jobs or time.  The days
\* that are left of a boost change only while no request is about to add to them.
LEMMA NoRequestMoves ==
    ASSUME IInv, UNCHANGED <<flight, firstPostUsed, balance, free, owed>>,
           job' \in [Jobs -> Posting],
           \/ \A j \in Jobs : job'[j].left = job[j].left
           \/ \A r \in Requests : pc[r] # "extending",
           licensed \subseteq licensed', licensed' \subseteq Jobs, Published' \subseteq licensed',
           calm' \in BOOLEAN
    PROVE  IInv'
<1> USE DEF IInv, flight
<1>1. TypeOK'
    BY DEF TypeOK
<1>2. AboutJobs'
    BY DEF AboutJobs
<1>3. \A j \in Jobs : PostsDue(j)' = PostsDue(j) /\ DaysDue(j)' = DaysDue(j)
    BY DEF PostsDue, DaysDue
<1>4. PostsCovered'
    BY <1>3 DEF PostsCovered
<1>5. DaysCovered'
    BY <1>3 DEF DaysCovered
<1>6. Licensed'
    BY DEF Licensed
<1>7. FreeBounded'
    BY DEF FreeBounded, BecomingFree
<1>8. QED
    BY <1>1, <1>2, <1>4, <1>5, <1>6, <1>7

-----------------------------------------------------------------------------
(* The steps that take a delivery on or make it.                           *)

\* createJob publishes the first posting for free.
LEMMA PublishFreeIInv ==
    ASSUME IInv, NEW r \in Requests, PublishFree(r)
    PROVE  IInv'
<1> DEFINE j == req[r].job
<1> USE DEF IInv
<1>1. /\ j \in Jobs /\ pc[r] = "publishingFree" /\ firstPostUsed' = TRUE
      /\ job' = [job EXCEPT ![j].status = "PUBLISHED"]
      /\ free' = free \cup {j} /\ licensed' = licensed \cup {j}
      /\ Goto(r, "idle", NoRequest) /\ NoRequest \in Request
      /\ UNCHANGED <<balance, owed, calm>>
    BY RequestsTyped DEF PublishFree, FreeUseRecorded, Finish, AboutJobs
<1>2. /\ job' \in [Jobs -> Posting] /\ \A i \in Jobs : job'[i].left = job[i].left
      /\ Published' \subseteq Published \cup {j}
    BY <1>1 DEF TypeOK, Posting, JobStatus, Published
<1>3. TypeOK'
    BY <1>1, <1>2, GotoFlight DEF TypeOK, Place, Request
<1>4. AboutJobs'
    BY <1>1, GotoFlight DEF AboutJobs, Place
<1>5. /\ PostsCovered' /\ DaysCovered'
      /\ IsFiniteSet(BecomingFree)
    BY <1>1, <1>2, NothingTakenOn, JobAssumption, FS_Subset DEF Place, Boosting, BecomingFree
<1>6. Licensed'
    BY <1>1, <1>2, GotoFlight DEF Licensed, Place
<1>7. FreeBounded'
  <2>1. BecomingFree' = BecomingFree \ {r} /\ r \in BecomingFree
      BY <1>1, GotoDue DEF Place, BecomingFree
  <2>2. Cardinality(BecomingFree') = Cardinality(BecomingFree) - 1
      BY <1>5, <2>1, FS_RemoveElement
  <2>3. /\ IsFiniteSet(free') /\ Cardinality(free') <= Cardinality(free) + 1
        /\ Cardinality(free') \in Nat /\ Cardinality(free) \in Nat
    <3>1. IsFiniteSet(free) /\ Cardinality(free) \in Nat
        BY FS_CardinalityType DEF FreeBounded
    <3>2. /\ IsFiniteSet(free \cup {j})
          /\ Cardinality(free \cup {j}) = IF j \in free THEN Cardinality(free) ELSE Cardinality(free) + 1
        BY <3>1, FS_AddElement
    <3>3. QED
        BY <1>1, <3>1, <3>2
  <2>4. Cardinality(BecomingFree) \in Nat /\ Cardinality(Requests) \in Nat
      BY <1>5, FS_CardinalityType, JobAssumption
  <2>5. QED
      BY <1>1, <2>2, <2>3, <2>4 DEF FreeBounded
<1>8. QED
    BY <1>3, <1>4, <1>5, <1>6, <1>7

\* A new posting may be free if none has been.
LEMMA CheckFreeIInv ==
    ASSUME IInv, NEW r \in Requests, CheckFree(r)
    PROVE  IInv'
<1> USE DEF IInv
<1>1. /\ req[r] \in Request /\ req[r].job \in Jobs
      /\ UNCHANGED <<job, firstPostUsed, balance, licensed, free, owed, calm>>
    BY DEF CheckFree, TypeOK, Request, AboutJobs
<1>2. CASE firstPostUsed
  <2>1. Goto(r, "charging", req[r])
      BY <1>2 DEF CheckFree, Proceed
  <2>2. QED
      BY <1>1, <2>1, NoDelivery DEF Place, Boosting, TypeOK, Published
<1>3. CASE ~firstPostUsed
  <2>1. Goto(r, "publishingFree", req[r])
      BY <1>3 DEF CheckFree, Proceed
  <2>2. TypeOK'
      BY <1>1, <2>1, GotoFlight DEF TypeOK, Place, Request
  <2>3. AboutJobs'
      BY <1>1, <2>1, GotoFlight DEF AboutJobs, Place
  <2>4. \A j \in Jobs : PostsDue(j)' = PostsDue(j) \ {r} /\ r \notin PostsDue(j)
      BY <2>1, <1>1, GotoDue DEF Place, Boosting, PostsDue, CheckFree
  <2>5. \A j \in Jobs : DaysDue(j)' = DaysDue(j)
      BY <2>1, <1>1, GotoDue DEF Place, Boosting, DaysDue, CheckFree
  <2>6. PostsCovered'
      BY <1>1, <2>4 DEF PostsCovered
  <2>7. DaysCovered'
      BY <1>1, <2>1, <2>5, GotoFlight DEF DaysCovered, Place
  <2>8. Licensed'
      BY <1>1, <2>1, GotoFlight DEF Licensed, Place, Published
  <2>9. FreeBounded'
    <3>1. free' = {} /\ Cardinality({}) = 0
        BY <1>1, <1>3, FS_EmptySet DEF FreeBounded
    <3>2. BecomingFree' \in SUBSET Requests
        BY DEF BecomingFree
    <3>3. /\ Cardinality(BecomingFree') <= Cardinality(Requests)
          /\ Cardinality(BecomingFree') \in Nat /\ Cardinality(Requests) \in Nat
        BY <3>2, FS_Subset, FS_CardinalityType, JobAssumption
    <3>4. QED
        BY <1>1, <3>1, <3>3, FS_EmptySet DEF FreeBounded
  <2>10. QED
      BY <2>2, <2>3, <2>6, <2>7, <2>8, <2>9
<1>4. QED
    BY <1>2, <1>3

\* A charge that is refused ends the request.
LEMMA RefusedIInv ==
    ASSUME IInv, NEW r \in Requests, Goto(r, "idle", NoRequest), calm' \in BOOLEAN,
           UNCHANGED <<job, firstPostUsed, balance, licensed, free, owed>>
    PROVE  IInv'
    BY NoDelivery, RequestsTyped DEF Place, Boosting, IInv, TypeOK, Published

\* A charge for publishing adds a post that is owed and a request that will deliver it.
LEMMA ChargePostIInv ==
    ASSUME IInv, NEW r \in Requests, ChargePost(r)
    PROVE  IInv'
<1> USE DEF IInv
<1>0. PICK j \in Jobs : j = req[r].job
    BY DEF ChargePost, AboutJobs
<1>1. /\ pc[r] = "charging" /\ j = req[r].job /\ req[r] \in Request
      /\ UNCHANGED <<job, firstPostUsed, free, calm>>
    BY <1>0 DEF ChargePost, AboutJobs, TypeOK, Request
<1>2. CASE ~Affordable(PostPrice)
    BY <1>1, <1>2, RefusedIInv DEF ChargePost, Charge, Refused, Finish, TypeOK
<1>3. CASE Affordable(PostPrice)
  <2>1. /\ balance' = balance - PostPrice /\ PostPrice <= balance
        /\ owed' = [owed EXCEPT ![j].posts = @ + 1]
        /\ licensed' = licensed \cup {j} /\ Goto(r, "publishing", req[r])
      BY <1>1, <1>3 DEF ChargePost, Charge, Affordable, Proceed
  <2>2. balance' \in Nat
      BY <2>1, JobAssumption DEF TypeOK
  <2>3. TypeOK'
      BY <1>1, <2>1, <2>2, GotoFlight DEF TypeOK, Place, Request
  <2>4. AboutJobs'
      BY <1>1, <2>1, GotoFlight DEF AboutJobs, Place
  <2>5. PostsCovered'
    <3>1. ASSUME NEW i \in Jobs, i # j
          PROVE  PostsDue(i)' = PostsDue(i) /\ owed'[i] = owed[i]
        BY <1>1, <2>1, <3>1, GotoDue DEF Place, PostsDue, TypeOK
    <3>2. PostsDue(j)' = PostsDue(j) \cup {r} /\ owed'[j].posts = owed[j].posts + 1
        BY <1>1, <2>1, GotoDue DEF Place, TypeOK
    <3>3. /\ IsFiniteSet(PostsDue(j)) /\ Cardinality(PostsDue(j)) \in Nat /\ owed[j].posts \in Nat
          /\ Cardinality(PostsDue(j)) <= owed[j].posts
        BY <1>1, FS_CardinalityType DEF PostsCovered, TypeOK
    <3>4. /\ IsFiniteSet(PostsDue(j) \cup {r})
          /\ Cardinality(PostsDue(j) \cup {r}) =
                IF r \in PostsDue(j) THEN Cardinality(PostsDue(j)) ELSE Cardinality(PostsDue(j)) + 1
        BY <3>3, FS_AddElement
    <3>5. IsFiniteSet(PostsDue(j)') /\ Cardinality(PostsDue(j)') <= owed'[j].posts
        BY <3>2, <3>3, <3>4
    <3>6. QED
        BY <3>1, <3>5 DEF PostsCovered
  <2>6. \A i \in Jobs : DaysDue(i)' = DaysDue(i) /\ owed'[i].days = owed[i].days
      BY <1>1, <2>1, GotoDue DEF Place, Boosting, DaysDue, TypeOK
  <2>7. DaysCovered'
      BY <1>1, <2>1, <2>6, GotoFlight DEF DaysCovered, Place
  <2>8. Licensed'
      BY <1>1, <2>1, GotoFlight DEF Licensed, Place, Published
  <2>9. BecomingFree' = BecomingFree
      BY <1>1, <2>1, GotoDue DEF Place, BecomingFree
  <2>10. FreeBounded'
      BY <1>1, <2>9 DEF FreeBounded
  <2>11. QED
      BY <2>3, <2>4, <2>5, <2>7, <2>8, <2>10
<1>4. QED
    BY <1>2, <1>3

\* The delivery takes both away.
LEMMA PublishByPointIInv ==
    ASSUME IInv, NEW r \in Requests, PublishByPoint(r)
    PROVE  IInv'
<1> USE DEF IInv
<1>0. PICK j \in Jobs : j = req[r].job
    BY DEF PublishByPoint, AboutJobs
<1>1. /\ pc[r] = "publishing" /\ j = req[r].job /\ j \in licensed
      /\ job' = [job EXCEPT ![j].status = "PUBLISHED"]
      /\ owed' = IF j \in Published THEN owed ELSE [owed EXCEPT ![j].posts = @ - 1]
      /\ Goto(r, "idle", NoRequest) /\ NoRequest \in Request
      /\ UNCHANGED <<firstPostUsed, balance, licensed, free, calm>>
    BY <1>0, RequestsTyped DEF PublishByPoint, AboutJobs, Finish, Licensed
<1>2. /\ job' \in [Jobs -> Posting] /\ \A i \in Jobs : job'[i].left = job[i].left
      /\ Published' \subseteq Published \cup {j}
    BY <1>1 DEF TypeOK, Posting, JobStatus, Published
<1>3. /\ IsFiniteSet(PostsDue(j)) /\ Cardinality(PostsDue(j)) \in Nat /\ owed[j].posts \in Nat
      /\ Cardinality(PostsDue(j)) <= owed[j].posts /\ r \in PostsDue(j)
    BY <1>1, FS_CardinalityType DEF PostsCovered, TypeOK, PostsDue
<1>4. Cardinality(PostsDue(j) \ {r}) = Cardinality(PostsDue(j)) - 1 /\ IsFiniteSet(PostsDue(j) \ {r})
    BY <1>3, FS_RemoveElement
<1>5. Cardinality(PostsDue(j) \ {r}) \in Nat
    BY <1>4, FS_CardinalityType
<1>6. /\ owed' \in [Jobs -> [posts : Nat, days : Nat]]
      /\ \A i \in Jobs : owed'[i].days = owed[i].days /\ (i # j => owed'[i] = owed[i])
      /\ Cardinality(PostsDue(j) \ {r}) <= owed'[j].posts
  <2>1. CASE j \in Published
      BY <1>1, <1>3, <1>4, <1>5, <2>1 DEF TypeOK
  <2>2. CASE j \notin Published
    <3>1. owed[j].posts - 1 \in Nat
        BY <1>3, <1>4, <1>5
    <3>2. /\ owed' = [owed EXCEPT ![j].posts = @ - 1] /\ owed'[j].posts = owed[j].posts - 1
        BY <1>1, <2>2 DEF TypeOK
    <3>3. QED
        BY <1>1, <1>3, <1>4, <1>5, <3>1, <3>2 DEF TypeOK
  <2>3. QED
      BY <2>1, <2>2
<1>7. TypeOK'
    BY <1>1, <1>2, <1>6, GotoFlight DEF TypeOK, Place, Request
<1>8. AboutJobs'
    BY <1>1, GotoFlight DEF AboutJobs, Place
<1>9. PostsCovered'
  <2>1. PostsDue(j)' = PostsDue(j) \ {r}
      BY <1>1, GotoDue DEF Place
  <2>2. ASSUME NEW i \in Jobs, i # j PROVE PostsDue(i)' = PostsDue(i)
      BY <1>1, <2>2, GotoDue DEF Place, PostsDue
  <2>3. QED
      BY <1>4, <1>6, <2>1, <2>2 DEF PostsCovered
<1>10. \A i \in Jobs : DaysDue(i)' = DaysDue(i)
    BY <1>1, GotoDue DEF Place, Boosting, DaysDue
<1>11. DaysCovered'
    BY <1>1, <1>2, <1>6, <1>10, GotoFlight DEF DaysCovered, Place
<1>12. Licensed'
    BY <1>1, <1>2, GotoFlight DEF Licensed, Place
<1>13. BecomingFree' = BecomingFree
    BY <1>1, GotoDue DEF Place, BecomingFree
<1>14. FreeBounded'
    BY <1>1, <1>13 DEF FreeBounded
<1>15. QED
    BY <1>7, <1>8, <1>9, <1>11, <1>12, <1>14

\* A charge for a boost adds the days of its package, owed and to be delivered.
LEMMA ChargeBoostIInv ==
    ASSUME IInv, NEW r \in Requests, ChargeBoost(r)
    PROVE  IInv'
<1> USE DEF IInv
<1>0. PICK j \in Jobs : j = req[r].job
    BY DEF ChargeBoost, AboutJobs
<1>1. /\ pc[r] = "chargingBoost" /\ j = req[r].job /\ req[r] \in Request
      /\ req[r].days \in Nat /\ req[r].price \in Nat
      /\ UNCHANGED <<job, firstPostUsed, licensed, free, calm>>
    BY <1>0 DEF ChargeBoost, TypeOK, Request
<1>2. CASE ~Affordable(req[r].price)
    BY <1>1, <1>2, RefusedIInv DEF ChargeBoost, Charge, Refused, Finish, TypeOK
<1>3. CASE Affordable(req[r].price)
  <2>1. /\ balance' = balance - req[r].price /\ req[r].price <= balance
        /\ owed' = [owed EXCEPT ![j].days = @ + req[r].days]
        /\ Goto(r, "boosting", req[r])
      BY <1>1, <1>3 DEF ChargeBoost, Charge, Affordable, Proceed
  <2>2. balance' \in Nat
      BY <1>1, <2>1 DEF TypeOK
  <2>3. TypeOK'
      BY <1>1, <2>1, <2>2, GotoFlight DEF TypeOK, Place, Request
  <2>4. AboutJobs'
      BY <1>1, <2>1, GotoFlight DEF AboutJobs, Place
  <2>5. \A i \in Jobs : PostsDue(i)' = PostsDue(i) /\ owed'[i].posts = owed[i].posts
      BY <1>1, <2>1, GotoDue DEF Place, PostsDue, TypeOK
  <2>6. PostsCovered'
      BY <2>5 DEF PostsCovered
  <2>7. DaysCovered'
    <3>1. ASSUME NEW i \in Jobs, i # j
          PROVE  DaysDue(i)' = DaysDue(i) /\ owed'[i] = owed[i]
        BY <1>1, <2>1, <3>1, GotoDue DEF Place, Boosting, DaysDue, TypeOK
    <3>2. DaysDue(j)' = DaysDue(j) \cup DaysOf(r, req[r].days)
        BY <1>1, <2>1, GotoDue DEF Place, Boosting, DaysDue
    <3>3. DaysDue(j) \cap DaysOf(r, req[r].days) = {}
        BY <1>1 DEF DaysDue, DaysOf, Boosting
    <3>4. /\ IsFiniteSet(DaysDue(j)) /\ Cardinality(DaysDue(j)) \in Nat /\ owed[j].days \in Nat
          /\ Cardinality(DaysDue(j)) <= owed[j].days /\ owed'[j].days = owed[j].days + req[r].days
        BY <1>1, <2>1, FS_CardinalityType DEF DaysCovered, TypeOK
    <3>5. /\ IsFiniteSet(DaysDue(j)')
          /\ Cardinality(DaysDue(j)') = Cardinality(DaysDue(j)) + req[r].days
      <4>1. IsFiniteSet(DaysOf(r, req[r].days)) /\ Cardinality(DaysOf(r, req[r].days)) = req[r].days
          BY <1>1, DaysCounted
      <4>2. /\ IsFiniteSet(DaysDue(j) \cup DaysOf(r, req[r].days))
            /\ Cardinality(DaysDue(j) \cup DaysOf(r, req[r].days))
                  = Cardinality(DaysDue(j)) + Cardinality(DaysOf(r, req[r].days))
                       - Cardinality(DaysDue(j) \cap DaysOf(r, req[r].days))
          BY <3>4, <4>1, FS_Union
      <4>3. Cardinality(DaysDue(j) \cap DaysOf(r, req[r].days)) = 0
          BY <3>3, FS_EmptySet
      <4>4. QED
          BY <1>1, <3>2, <3>4, <4>1, <4>2, <4>3
    <3>6. Cardinality(DaysDue(j)') <= owed'[j].days
        BY <1>1, <3>4, <3>5
    <3>7. ASSUME NEW i \in Jobs, NEW q \in Requests, pc'[q] = "extending", req'[q].job = i
          PROVE  Cardinality(DaysDue(i)') + req'[q].read - job'[i].left <= owed'[i].days
      <4>1. pc[q] = "extending" /\ req'[q] = req[q] /\ req[q].job = i
          BY <1>1, <2>1, <3>7, GotoFlight DEF Place
      <4>2. Cardinality(DaysDue(i)) + req[q].read - job[i].left <= owed[i].days
          BY <4>1 DEF DaysCovered
      <4>3. req[q].read \in Nat /\ job[i].left \in Nat
          BY DEF TypeOK, Posting
      <4>4. QED
          BY <1>1, <3>1, <3>4, <3>5, <4>1, <4>2, <4>3
    <3>8. \A i \in Jobs : IsFiniteSet(DaysDue(i)') /\ Cardinality(DaysDue(i)') <= owed'[i].days
        BY <3>1, <3>5, <3>6 DEF DaysCovered
    <3>9. QED
        BY <3>7, <3>8 DEF DaysCovered
  <2>8. Licensed'
      BY <1>1, <2>1, GotoFlight DEF Licensed, Place, Published
  <2>9. BecomingFree' = BecomingFree
      BY <1>1, <2>1, GotoDue DEF Place, BecomingFree
  <2>10. FreeBounded'
      BY <1>1, <2>9 DEF FreeBounded
  <2>11. QED
      BY <2>3, <2>4, <2>6, <2>7, <2>8, <2>10
<1>4. QED
    BY <1>2, <1>3

\* The days that are due stay the same when the request reads the end of the boost.
LEMMA ReadBoostIInv ==
    ASSUME IInv, NEW r \in Requests, ReadBoost(r)
    PROVE  IInv'
<1> DEFINE what == [req[r] EXCEPT !.read = job[req[r].job].left]
<1> USE DEF IInv
<1>0. PICK j \in Jobs : j = req[r].job
    BY DEF ReadBoost, AboutJobs
<1>1. /\ pc[r] = "boosting" /\ j = req[r].job /\ job[j].left \in Nat
      /\ UNCHANGED <<job, firstPostUsed, balance, licensed, free, owed, calm>>
      /\ Goto(r, "extending", what)
    BY <1>0 DEF ReadBoost, TypeOK, Posting
<1>2. /\ what \in Request /\ what.job = j /\ what.days = req[r].days /\ what.read = job[j].left
      /\ req[r] \in Request /\ req[r].days \in Nat
    BY <1>1 DEF TypeOK, Request
<1> HIDE DEF what
<1>3. TypeOK'
    BY <1>1, <1>2, GotoFlight DEF TypeOK, Place, Request
<1>4. AboutJobs'
    BY <1>1, <1>2, GotoFlight DEF AboutJobs, Place
<1>5. \A i \in Jobs : PostsDue(i)' = PostsDue(i)
    BY <1>1, <1>2, GotoDue DEF Place, PostsDue
<1>6. PostsCovered'
    BY <1>1, <1>5 DEF PostsCovered
<1>7. ASSUME NEW i \in Jobs
      PROVE  DaysDue(i)' = DaysDue(i)
  <2>1. pc' \in [Requests -> Place] /\ \A q \in Requests : pc'[q] \in Boosting <=> pc[q] \in Boosting
      BY <1>1, <1>2, GotoFlight DEF Place, Boosting
  <2>2. \A q \in Requests : req'[q].job = req[q].job /\ req'[q].days = req[q].days
      BY <1>1, <1>2, GotoFlight DEF Place
  <2>3. QED
      BY <2>1, <2>2 DEF DaysDue
<1>8. DaysCovered'
  <2>1. ASSUME NEW i \in Jobs, NEW q \in Requests, pc'[q] = "extending", req'[q].job = i
        PROVE  Cardinality(DaysDue(i)') + req'[q].read - job'[i].left <= owed'[i].days
    <3>1. /\ Cardinality(DaysDue(i)) \in Nat /\ owed[i].days \in Nat /\ job[i].left \in Nat
          /\ Cardinality(DaysDue(i)) <= owed[i].days
        BY FS_CardinalityType DEF DaysCovered, TypeOK, Posting
    <3>2. CASE q = r
        BY <1>1, <1>2, <1>7, <2>1, <3>1, <3>2, GotoFlight DEF Place
    <3>3. CASE q # r
        BY <1>1, <1>2, <1>7, <2>1, <3>3, GotoFlight DEF DaysCovered, Place
    <3>4. QED
        BY <3>2, <3>3
  <2>2. QED
      BY <1>1, <1>7, <2>1 DEF DaysCovered
<1>9. Licensed'
    BY <1>1, <1>2, GotoFlight DEF Licensed, Place, Published
<1>10. BecomingFree' = BecomingFree
    BY <1>1, <1>2, GotoDue DEF Place, BecomingFree
<1>11. FreeBounded'
    BY <1>1, <1>10 DEF FreeBounded
<1>12. QED
    BY <1>3, <1>4, <1>6, <1>8, <1>9, <1>11

\* A posting that is boosted up to another end.
LEMMA PostingBoosted ==
    ASSUME NEW p \in Posting, NEW n \in Nat, NEW q,
           q = [p EXCEPT !.boosted = TRUE, !.left = n]
    PROVE  q \in Posting /\ q.left = n /\ q.status = p.status /\ p.left \in Nat
    BY DEF Posting

\* The extension may be less than the days that are due, when another request has
\* extended the boost since; it is never more.
LEMMA ExtendBoostIInv ==
    ASSUME IInv, NEW r \in Requests, ExtendBoost(r)
    PROVE  IInv'
<1> USE DEF IInv
<1>0. PICK j \in Jobs : j = req[r].job
    BY DEF ExtendBoost, AboutJobs
<1> DEFINE left == req[r].read + req[r].days
           rest == DaysDue(j) \ {x \in DaysDue(j) : x[1] = r}
<1>1. /\ pc[r] = "extending" /\ j = req[r].job
      /\ req[r].days \in Nat /\ req[r].read \in Nat /\ left \in Nat
      /\ job' = [job EXCEPT ![j].boosted = TRUE, ![j].left = left]
      /\ owed' = [owed EXCEPT ![j].days = @ - (left - job[j].left)]
      /\ Goto(r, "idle", NoRequest) /\ NoRequest \in Request
      /\ UNCHANGED <<firstPostUsed, balance, licensed, free, calm>>
    BY <1>0, RequestsTyped DEF ExtendBoost, Extended, Finish, TypeOK
<1>2. /\ job' \in [Jobs -> Posting] /\ job'[j].left = left
      /\ \A i \in Jobs : i # j => job'[i] = job[i]
      /\ Published' = Published /\ job[j].left \in Nat
  <2>1. j \in Jobs /\ job \in [Jobs -> Posting]
      BY <1>0 DEF TypeOK
  <2> HIDE DEF left
  <2>2. job[j] \in Posting /\ job'[j] = [job[j] EXCEPT !.boosted = TRUE, !.left = left]
      BY <1>1, <2>1
  <2>3. /\ job'[j] \in Posting /\ job'[j].left = left /\ job'[j].status = job[j].status
        /\ job[j].left \in Nat
    <3>1. left \in Nat /\ job[j] \in Posting
        BY <1>1, <2>2
    <3>2. QED
        BY <2>2, <3>1, PostingBoosted
  <2>4. \A i \in Jobs : i # j => job'[i] = job[i]
      BY <1>1, <2>1
  <2>5. job' \in [Jobs -> Posting]
      BY <1>1, <2>1, <2>3, <2>4
  <2>6. Published' = Published
      BY <2>1, <2>3, <2>4 DEF Published
  <2>7. QED
      BY <2>3, <2>4, <2>5, <2>6
<1>3. /\ owed[j].days \in Nat /\ owed[j].posts \in Nat /\ IsFiniteSet(DaysDue(j))
      /\ Cardinality(DaysDue(j)) \in Nat
      /\ Cardinality(DaysDue(j)) + req[r].read - job[j].left <= owed[j].days
    BY <1>1, FS_CardinalityType DEF DaysCovered, TypeOK
<1>4. DaysDue(j)' = rest
  <2>1. j \in Jobs /\ "idle" \in Place /\ "idle" \notin Boosting
      BY <1>0 DEF Place, Boosting
  <2>2. QED
      BY <1>1, <2>1, GotoDue
<1>5. IsFiniteSet(rest) /\ Cardinality(rest) \in Nat /\ Cardinality(rest) = Cardinality(DaysDue(j)) - req[r].days
  <2>1. /\ DaysOf(r, req[r].days) \subseteq DaysDue(j)
        /\ rest = DaysDue(j) \ DaysOf(r, req[r].days)
      BY <1>1 DEF DaysOf, DaysDue, Boosting
  <2>2. DaysDue(j) \cap DaysOf(r, req[r].days) = DaysOf(r, req[r].days)
      BY <2>1
  <2>3. Cardinality(DaysOf(r, req[r].days)) = req[r].days
      BY <1>1, DaysCounted
  <2>4. /\ IsFiniteSet(DaysDue(j) \ DaysOf(r, req[r].days))
        /\ Cardinality(DaysDue(j) \ DaysOf(r, req[r].days))
              = Cardinality(DaysDue(j)) - Cardinality(DaysDue(j) \cap DaysOf(r, req[r].days))
      BY <1>3, FS_Difference
  <2>5. IsFiniteSet(rest) /\ Cardinality(rest) = Cardinality(DaysDue(j)) - req[r].days
      BY <2>1, <2>2, <2>3, <2>4
  <2>6. QED
      BY <2>5, FS_CardinalityType
<1>6. /\ owed'[j].days = owed[j].days - (left - job[j].left) /\ owed'[j].posts = owed[j].posts
      /\ \A i \in Jobs : i # j => owed'[i] = owed[i]
    BY <1>1 DEF TypeOK
<1>7. owed[j].days - (left - job[j].left) \in Nat /\ Cardinality(rest) <= owed[j].days - (left - job[j].left)
    BY <1>1, <1>2, <1>3, <1>5
<1>8. owed' \in [Jobs -> [posts : Nat, days : Nat]]
    BY <1>1, <1>7 DEF TypeOK
<1> HIDE DEF left, rest
<1>9. TypeOK'
    BY <1>1, <1>2, <1>8, GotoFlight DEF TypeOK, Place, Request
<1>10. AboutJobs'
    BY <1>1, GotoFlight DEF AboutJobs, Place
<1>11. \A i \in Jobs : PostsDue(i)' = PostsDue(i) /\ owed'[i].posts = owed[i].posts
    BY <1>1, <1>6, GotoDue DEF Place, PostsDue
<1>12. PostsCovered'
    BY <1>11 DEF PostsCovered
<1>13. DaysCovered'
  <2>1. ASSUME NEW i \in Jobs, i # j
        PROVE  DaysDue(i)' = DaysDue(i)
      BY <1>1, <2>1, GotoDue DEF Place, Boosting, DaysDue
  <2>2. ASSUME NEW i \in Jobs
        PROVE  IsFiniteSet(DaysDue(i)') /\ Cardinality(DaysDue(i)') <= owed'[i].days
      BY <1>4, <1>5, <1>6, <1>7, <2>1 DEF DaysCovered
  <2>3. ASSUME NEW i \in Jobs, NEW q \in Requests, pc'[q] = "extending", req'[q].job = i
        PROVE  Cardinality(DaysDue(i)') + req'[q].read - job'[i].left <= owed'[i].days
    <3>1. pc[q] = "extending" /\ req'[q] = req[q] /\ req[q].job = i /\ req[q].read \in Nat
        BY <1>1, <2>3, GotoFlight DEF Place, TypeOK
    <3>2. Cardinality(DaysDue(i)) + req[q].read - job[i].left <= owed[i].days
        BY <3>1 DEF DaysCovered
    <3>3. CASE i = j
        BY <1>1, <1>2, <1>3, <1>4, <1>5, <1>6, <3>1, <3>2, <3>3 DEF left
    <3>4. CASE i # j
        BY <1>2, <1>6, <2>1, <3>1, <3>2, <3>4
    <3>5. QED
        BY <3>3, <3>4
  <2>4. QED
      BY <2>2, <2>3 DEF DaysCovered
<1>14. Licensed'
    BY <1>1, <1>2, GotoFlight DEF Licensed, Place
<1>15. BecomingFree' = BecomingFree
    BY <1>1, GotoDue DEF Place, BecomingFree
<1>16. FreeBounded'
    BY <1>1, <1>15 DEF FreeBounded
<1>17. QED
    BY <1>9, <1>10, <1>12, <1>13, <1>14, <1>16

-----------------------------------------------------------------------------
\* A posting that is there at first is published with a licence, and nothing is owed.
LEMMA InitIInv == Init => IInv
<1> SUFFICES ASSUME Init PROVE IInv
    OBVIOUS
<1>1. \A j \in Jobs : PostsDue(j) = {} /\ DaysDue(j) = {} /\ owed[j] = [posts |-> 0, days |-> 0]
    BY DEF Init, PostsDue, DaysDue, Boosting
<1>2. BecomingFree = {} /\ free = {} /\ Cardinality({}) = 0 /\ IsFiniteSet({})
    BY FS_EmptySet DEF Init, BecomingFree
<1>3. NoPosting \in Posting /\ OldPosting \in Posting
    BY DEF NoPosting, OldPosting, Posting, JobStatus, Due
<1>4. TypeOK
  <2>1. job \in [Jobs -> Posting] /\ balance \in Nat
      BY <1>3, JobAssumption DEF Init
  <2>2. pc \in [Requests -> Place] /\ req \in [Requests -> Request]
      BY RequestsTyped DEF Init, Place
  <2>3. firstPostUsed \in BOOLEAN /\ calm \in BOOLEAN /\ licensed \subseteq Jobs /\ free \subseteq licensed
      BY DEF Init
  <2>4. owed \in [Jobs -> [posts : Nat, days : Nat]]
      BY DEF Init
  <2>5. QED
      BY <2>1, <2>2, <2>3, <2>4 DEF TypeOK, Request
<1>5. AboutJobs /\ PostsCovered /\ DaysCovered
  <2>1. \A r \in Requests : pc[r] = "idle"
      BY DEF Init
  <2>2. \A j \in Jobs : owed[j].posts = 0 /\ owed[j].days = 0
      BY <1>1
  <2>3. AboutJobs /\ PostsCovered
      BY <1>1, <1>2, <2>1, <2>2 DEF AboutJobs, PostsCovered
  <2>4. DaysCovered
      BY <1>1, <1>2, <2>1, <2>2 DEF DaysCovered
  <2>5. QED
      BY <2>3, <2>4
<1>6. Licensed
  <2>1. \A r \in Requests : pc[r] # "publishing"
      BY DEF Init
  <2>2. ASSUME NEW j \in Published PROVE j \in licensed
    <3>1. j \in Jobs /\ job[j] \in {NoPosting, OldPosting} /\ job[j].status = "PUBLISHED"
        BY DEF Init, Published
    <3>2. job[j] = OldPosting
        BY <3>1 DEF NoPosting
    <3>3. QED
        BY <3>1, <3>2 DEF Init
  <2>3. QED
      BY <2>1, <2>2 DEF Licensed
<1>7. FreeBounded
    BY <1>2, FS_CardinalityType, JobAssumption DEF FreeBounded
<1>8. QED
    BY <1>4, <1>5, <1>6, <1>7 DEF IInv

\* A posting whose status, date or boost flag is written keeps its days.
LEMMA PostingChanged ==
    ASSUME NEW p \in Posting, NEW q,
           \/ \E status \in JobStatus : q = [p EXCEPT !.status = status]
           \/ \E due \in Due : q = [p EXCEPT !.due = due]
           \/ q = [p EXCEPT !.boosted = FALSE]
    PROVE  q \in Posting /\ q.left = p.left
    BY DEF Posting

\* A posting with a day of boost less.
LEMMA PostingADayOlder ==
    ASSUME NEW p \in Posting, NEW q, q = [p EXCEPT !.left = IF @ > 0 THEN @ - 1 ELSE 0]
    PROVE  q \in Posting
    BY DEF Posting

\* A step that may end the calm leaves a flag.
LEMMA UndisturbedTyped == ASSUME TypeOK, Undisturbed PROVE calm' \in BOOLEAN
    BY DEF TypeOK, Undisturbed

\* Every step of a request.
LEMMA RequestIInv ==
    ASSUME IInv, NEW r \in Requests,
           \/ \E j \in Jobs : CreateJob(r, j) \/ ReceivePost(r, j)
           \/ CheckFree(r) \/ PublishFree(r)
           \/ ChargePost(r) \/ PublishByPoint(r)
           \/ \E j \in Jobs, p \in Packages : ReceiveBoost(r, j, p)
           \/ ChargeBoost(r) \/ ReadBoost(r) \/ ExtendBoost(r)
           \/ RequestFails(r)
    PROVE  IInv'
<1>0. TypeOK
    BY DEF IInv
<1>1. ASSUME NEW j \in Jobs, CreateJob(r, j) PROVE IInv'
  <2>1. Goto(r, "created", About(j)) /\ About(j) \in Request /\ About(j).job = j /\ calm' \in BOOLEAN
      BY <1>0, <1>1, RequestsTyped, UndisturbedTyped DEF CreateJob, Arrive
  <2>2. job \in [Jobs -> Posting] /\ job' = [job EXCEPT ![j] = [job[j] EXCEPT !.status = "WARNING"]]
      BY <1>0, <1>1 DEF CreateJob, TypeOK
  <2>3. job' \in [Jobs -> Posting] /\ \A i \in Jobs : job'[i].left = job[i].left
      BY <2>2 DEF Posting, JobStatus
  <2>4. Published' \subseteq Published
      BY <2>2 DEF Published, Posting
  <2>5. UNCHANGED <<firstPostUsed, balance, licensed, free, owed>>
      BY <1>1 DEF CreateJob
  <2>6. QED
      BY <2>1, <2>3, <2>4, <2>5, NoDelivery DEF Place, Boosting
<1>2. ASSUME NEW j \in Jobs, ReceivePost(r, j) PROVE IInv'
  <2>1. Goto(r, "charging", About(j)) /\ About(j) \in Request /\ About(j).job = j /\ calm' \in BOOLEAN
      BY <1>0, <1>2, RequestsTyped, UndisturbedTyped DEF ReceivePost, Arrive
  <2>2. UNCHANGED <<job, firstPostUsed, balance, licensed, free, owed>>
      BY <1>2 DEF ReceivePost
  <2>3. QED
      BY <1>0, <2>1, <2>2, NoDelivery DEF Place, Boosting, TypeOK, Published
<1>3. ASSUME NEW j \in Jobs, NEW p \in Packages, ReceiveBoost(r, j, p) PROVE IInv'
  <2> DEFINE what == [job |-> j, days |-> p.days, price |-> p.price, read |-> 0]
  <2>1. what \in Request /\ what.job \in Jobs
      BY JobAssumption DEF Request
  <2>2. Goto(r, "chargingBoost", what) /\ calm' \in BOOLEAN
      BY <1>0, <1>3, UndisturbedTyped DEF ReceiveBoost, Arrive
  <2>3. UNCHANGED <<job, firstPostUsed, balance, licensed, free, owed>>
      BY <1>3 DEF ReceiveBoost
  <2> HIDE DEF what
  <2>4. QED
      BY <1>0, <2>1, <2>2, <2>3, NoDelivery DEF Place, Boosting, TypeOK, Published
<1>4. ASSUME RequestFails(r) PROVE IInv'
  <2>1. /\ Goto(r, "idle", NoRequest) /\ NoRequest \in Request /\ calm' \in BOOLEAN
        /\ UNCHANGED <<job, firstPostUsed, balance, licensed, free, owed>>
      BY <1>4, RequestsTyped DEF RequestFails, Finish
  <2>2. QED
      BY <1>0, <2>1, NoDelivery DEF Place, Boosting, TypeOK, Published
<1>5. QED
    BY <1>1, <1>2, <1>3, <1>4, CheckFreeIInv, PublishFreeIInv, ChargePostIInv, PublishByPointIInv,
       ChargeBoostIInv, ReadBoostIInv, ExtendBoostIInv

\* Every other step.
LEMMA OtherIInv ==
    ASSUME IInv,
           \/ \E j \in Jobs :
                 \/ \E due \in Due : UpdateJob(j, due)
                 \/ DeleteJob(j)
                 \/ \E s \in JobStatus : UpdateJobStatus(j, s)
                 \/ DateComes(j)
           \/ DayPasses \/ MarkExpiredJobs \/ DeactivateExpiredBoosts
    PROVE  IInv'
<1>0. /\ TypeOK /\ job \in [Jobs -> Posting] /\ calm \in BOOLEAN /\ licensed \subseteq Jobs
      /\ Published \subseteq licensed
    BY DEF IInv, TypeOK, Licensed
<1> DEFINE Quiet == UNCHANGED <<flight, firstPostUsed, balance, free, owed>>
           Kept == job' \in [Jobs -> Posting] /\ \A i \in Jobs : job'[i].left = job[i].left
\* One posting gets another date.
<1>1. ASSUME NEW j \in Jobs, NEW due \in Due, job' = [job EXCEPT ![j] = [job[j] EXCEPT !.due = due]],
             Quiet, UNCHANGED <<licensed, calm>>
      PROVE  IInv'
  <2>1. Kept
      BY <1>0, <1>1, PostingChanged
  <2>2. Published' = Published
      BY <1>0, <1>1 DEF Published, Posting
  <2>3. QED
      BY <1>0, <1>1, <2>1, <2>2, NoRequestMoves
\* One posting gets another status, with its licence if that is PUBLISHED.
<1>2. ASSUME NEW j \in Jobs, NEW s \in JobStatus,
             job' = [job EXCEPT ![j] = [job[j] EXCEPT !.status = s]],
             licensed' = IF s = "PUBLISHED" THEN licensed \cup {j} ELSE licensed,
             Quiet, calm' \in BOOLEAN
      PROVE  IInv'
  <2>1. Kept
      BY <1>0, <1>2, PostingChanged
  <2>2. Published' \subseteq IF s = "PUBLISHED" THEN Published \cup {j} ELSE Published
      BY <1>0, <1>2 DEF Published, Posting
  <2>3. QED
      BY <1>0, <1>2, <2>1, <2>2, NoRequestMoves
<1>3. ASSUME NEW j \in Jobs, NEW due \in Due, UpdateJob(j, due) PROVE IInv'
    BY <1>1, <1>3 DEF UpdateJob
<1>4. ASSUME NEW j \in Jobs, DateComes(j) PROVE IInv'
    BY <1>1, <1>4 DEF DateComes, Due
<1>5. ASSUME NEW j \in Jobs, DeleteJob(j) PROVE IInv'
    BY <1>0, <1>2, <1>5, UndisturbedTyped DEF DeleteJob, JobStatus
<1>6. ASSUME NEW j \in Jobs, NEW s \in JobStatus, UpdateJobStatus(j, s) PROVE IInv'
    BY <1>0, <1>2, <1>6, UndisturbedTyped DEF UpdateJobStatus
<1>7. ASSUME DayPasses PROVE IInv'
  <2>1. job' \in [Jobs -> Posting]
      BY <1>0, <1>7, PostingADayOlder DEF DayPasses
  <2>2. Published' = Published
      BY <1>0, <1>7 DEF DayPasses, Published, Posting
  <2>3. QED
      BY <1>0, <1>7, <2>1, <2>2, NoRequestMoves DEF DayPasses
<1>8. ASSUME MarkExpiredJobs PROVE IInv'
  <2>1. Kept
      BY <1>0, <1>8, PostingChanged DEF MarkExpiredJobs, JobStatus
  <2>2. Published' \subseteq Published
      BY <1>0, <1>8 DEF MarkExpiredJobs, Published, Posting
  <2>3. QED
      BY <1>0, <1>8, <2>1, <2>2, NoRequestMoves, UndisturbedTyped DEF MarkExpiredJobs
<1>9. ASSUME DeactivateExpiredBoosts PROVE IInv'
  <2>1. Kept
      BY <1>0, <1>9, PostingChanged DEF DeactivateExpiredBoosts
  <2>2. Published' = Published
      BY <1>0, <1>9 DEF DeactivateExpiredBoosts, Published, Posting
  <2>3. QED
      BY <1>0, <1>9, <2>1, <2>2, NoRequestMoves DEF DeactivateExpiredBoosts
<1>10. QED
    BY <1>3, <1>4, <1>5, <1>6, <1>7, <1>8, <1>9

\* One step per action.
LEMMA NextIInv == IInv /\ [Next]_vars => IInv'
<1> SUFFICES ASSUME IInv, [Next]_vars PROVE IInv'
    OBVIOUS
<1>1. CASE Next
    BY <1>1, RequestIInv, OtherIInv DEF Next
<1>2. CASE UNCHANGED vars
    BY <1>2, NoRequestMoves DEF vars, IInv, TypeOK, Licensed, Published
<1>3. QED
    BY <1>1, <1>2

\* The requests of the company are charged no more than it has, and get no more than
\* they were charged for, whatever overlaps or fails.
THEOREM JobPostingTypeOK == Spec => []TypeOK
<1>1. IInv => TypeOK
    BY DEF IInv
<1>2. QED
    BY InitIInv, NextIInv, <1>1, PTL DEF Spec

\* No list of the public shows a posting there was no reason to publish.
THEOREM JobPostingListedForAReason == Spec => []ListedForAReason
<1>1. IInv => ListedForAReason
    BY DEF IInv, Licensed, ListedForAReason, Listed, SearchResults, NewestJobs, BoostedJobs,
           RelatedJobs
<1>2. QED
    BY InitIInv, NextIInv, <1>1, PTL DEF Spec

-----------------------------------------------------------------------------
(* What holds in calm.                                                     *)

\* While nothing overtakes it, a request in progress is the only one, what is owed is
\* what it has been charged for, and what it has read of the posting still stands.
Unpublished == {"created", "charging", "publishing"}
Alone(r) ==
    /\ \A q \in Requests \ {r} : pc[q] = "idle"
    /\ \A j \in Jobs :
          /\ owed[j].posts = IF pc[r] = "publishing" /\ req[r].job = j THEN 1 ELSE 0
          /\ owed[j].days = IF pc[r] \in Boosting /\ req[r].job = j THEN req[r].days ELSE 0
    /\ pc[r] = "publishingFree" => ~firstPostUsed
    /\ pc[r] \in Unpublished => job[req[r].job].status # "PUBLISHED"
    /\ pc[r] = "extending" => req[r].read = job[req[r].job].left
Settled == \A j \in Jobs : owed[j].posts = 0 /\ owed[j].days = 0

CalmOrder ==
    calm => /\ Cardinality(free) <= 1
            /\ InFlight = {} => Settled
            /\ \A r \in InFlight : Alone(r)

\* A request goes on, or ends.
LEMMA GoesOn ==
    ASSUME TypeOK, NEW r \in Requests, NEW place \in Place, NEW what \in Request, place # "idle",
           Goto(r, place, what),
           calm' => /\ Cardinality(free') <= 1
                    /\ \A q \in Requests \ {r} : pc[q] = "idle"
                    /\ \A j \in Jobs :
                          /\ owed'[j].posts = IF place = "publishing" /\ what.job = j THEN 1 ELSE 0
                          /\ owed'[j].days = IF place \in Boosting /\ what.job = j
                                             THEN what.days ELSE 0
                    /\ place = "publishingFree" => ~firstPostUsed'
                    /\ place \in Unpublished => job'[what.job].status # "PUBLISHED"
                    /\ place = "extending" => what.read = job'[what.job].left
    PROVE  CalmOrder'
<1> SUFFICES ASSUME calm' PROVE CalmOrder'
    BY DEF CalmOrder
<1>1. /\ pc'[r] = place /\ req'[r] = what
      /\ \A q \in Requests \ {r} : pc'[q] = "idle"
    BY GotoFlight
<1>2. InFlight' = {r}
    BY <1>1 DEF InFlight
<1>3. Alone(r)'
    BY <1>1 DEF Alone
<1>4. QED
    BY <1>2, <1>3 DEF CalmOrder

\* A request that ends in calm leaves nothing in progress, and everything settled.
LEMMA Ends ==
    ASSUME TypeOK, NEW r \in Requests, Goto(r, "idle", NoRequest),
           calm' => Cardinality(free') <= 1 /\ (\A q \in Requests \ {r} : pc[q] = "idle") /\ Settled'
    PROVE  CalmOrder'
<1>1. /\ pc'[r] = "idle" /\ \A q \in Requests \ {r} : pc'[q] = pc[q]
    BY GotoFlight, RequestsTyped DEF Place
<1>2. calm' => InFlight' = {}
    BY <1>1 DEF InFlight
<1>3. QED
    BY <1>2 DEF CalmOrder

\* A request that arrives ends the calm unless nothing else is in progress.
LEMMA ArrivesCalm ==
    ASSUME IInv, CalmOrder, NEW r \in Requests, NEW place \in Place, NEW what \in Request,
           Arrive(r, place, what), place \in {"created", "charging", "chargingBoost"},
           calm' /\ place \in Unpublished => job'[what.job].status # "PUBLISHED",
           UNCHANGED <<firstPostUsed, owed, free>>
    PROVE  CalmOrder'
<1>1. Goto(r, place, what) /\ (calm' => calm /\ InFlight = {})
    BY DEF Arrive, Undisturbed
<1>2. calm' => Cardinality(free) <= 1 /\ Settled /\ \A q \in Requests : pc[q] = "idle"
    BY <1>1 DEF CalmOrder, InFlight
<1>3. QED
    BY <1>1, <1>2, GoesOn DEF IInv, Boosting, Settled

\* What the calm means for the request whose turn it is.
LEMMA TurnCalm ==
    ASSUME CalmOrder, NEW r \in Requests, pc[r] # "idle", calm
    PROVE  Cardinality(free) <= 1 /\ Alone(r)
    BY DEF CalmOrder, InFlight

\* The steps of a request keep the order of the calm.
LEMMA RequestCalm ==
    ASSUME IInv, CalmOrder, NEW r \in Requests,
           \/ \E j \in Jobs : CreateJob(r, j) \/ ReceivePost(r, j)
           \/ CheckFree(r) \/ PublishFree(r)
           \/ ChargePost(r) \/ PublishByPoint(r)
           \/ \E j \in Jobs, p \in Packages : ReceiveBoost(r, j, p)
           \/ ChargeBoost(r) \/ ReadBoost(r) \/ ExtendBoost(r)
           \/ RequestFails(r)
    PROVE  CalmOrder'
<1>0. /\ TypeOK /\ job \in [Jobs -> Posting] /\ req \in [Requests -> Request]
      /\ owed \in [Jobs -> [posts : Nat, days : Nat]]
      /\ pc[r] # "idle" => req[r].job \in Jobs
    BY DEF IInv, TypeOK, Request, AboutJobs
<1>1. ASSUME NEW j \in Jobs, CreateJob(r, j) PROVE CalmOrder'
  <2>1. Arrive(r, "created", About(j)) /\ UNCHANGED <<firstPostUsed, owed, free>>
      BY <1>1 DEF CreateJob
  <2>2. job'[j].status = "WARNING"
      BY <1>0, <1>1 DEF CreateJob, Posting
  <2>3. QED
      BY <2>1, <2>2, ArrivesCalm, RequestsTyped DEF Place
<1>2. ASSUME NEW j \in Jobs, ReceivePost(r, j) PROVE CalmOrder'
  <2>1. Arrive(r, "charging", About(j)) /\ UNCHANGED <<job, firstPostUsed, owed, free>>
      BY <1>2 DEF ReceivePost
  <2>2. job'[j].status # "PUBLISHED"
      BY <1>2, <2>1 DEF ReceivePost, Published
  <2>3. QED
      BY <2>1, <2>2, ArrivesCalm, RequestsTyped DEF Place
<1>3. ASSUME NEW j \in Jobs, NEW p \in Packages, ReceiveBoost(r, j, p) PROVE CalmOrder'
  <2> DEFINE what == [job |-> j, days |-> p.days, price |-> p.price, read |-> 0]
  <2>1. what \in Request
      BY JobAssumption DEF Request
  <2>2. Arrive(r, "chargingBoost", what) /\ UNCHANGED <<firstPostUsed, owed, free>>
      BY <1>3 DEF ReceiveBoost
  <2> HIDE DEF what
  <2>3. QED
      BY <2>1, <2>2, ArrivesCalm DEF Place, Unpublished
<1>4. ASSUME CheckFree(r) PROVE CalmOrder'
  <2>1. /\ pc[r] = "created" /\ req[r] \in Request
        /\ UNCHANGED <<job, firstPostUsed, owed, free, calm>>
      BY <1>0, <1>4 DEF CheckFree
  <2>2. calm => Cardinality(free) <= 1 /\ Alone(r)
      BY <2>1, TurnCalm
  <2>3. CASE firstPostUsed
    <3>1. Goto(r, "charging", req[r])
        BY <1>4, <2>3 DEF CheckFree, Proceed
    <3>2. QED
        BY <1>0, <2>1, <2>2, <3>1, GoesOn DEF Place, Alone, Unpublished, Boosting
  <2>4. CASE ~firstPostUsed
    <3>1. Goto(r, "publishingFree", req[r])
        BY <1>4, <2>4 DEF CheckFree, Proceed
    <3>2. QED
        BY <1>0, <2>1, <2>2, <2>4, <3>1, GoesOn DEF Place, Alone, Unpublished, Boosting
  <2>5. QED
      BY <2>3, <2>4
<1>5. ASSUME PublishFree(r) PROVE CalmOrder'
  <2>1. /\ pc[r] = "publishingFree" /\ Goto(r, "idle", NoRequest) /\ UNCHANGED <<owed, calm>>
        /\ free' = free \cup {req[r].job}
      BY <1>5 DEF PublishFree, Finish
  <2>2. calm => Alone(r)
      BY <2>1, TurnCalm
  <2>3. calm => free = {}
      BY <2>1, <2>2 DEF Alone, IInv, FreeBounded
  <2>4. Cardinality({req[r].job}) = 1
      BY FS_Singleton
  <2>5. calm => Cardinality(free') <= 1
      BY <2>1, <2>3, <2>4
  <2>6. calm => (\A q \in Requests \ {r} : pc[q] = "idle") /\ Settled'
      BY <2>1, <2>2 DEF Alone, Settled, Boosting
  <2>7. QED
      BY <1>0, <2>1, <2>5, <2>6, Ends
<1>6. ASSUME ChargePost(r) PROVE CalmOrder'
  <2>1. /\ pc[r] = "charging" /\ req[r] \in Request /\ req[r].job \in Jobs
        /\ UNCHANGED <<job, firstPostUsed, free, calm>>
      BY <1>0, <1>6 DEF ChargePost
  <2>2. calm => Cardinality(free) <= 1 /\ Alone(r)
      BY <2>1, TurnCalm
  <2>3. CASE Affordable(PostPrice)
    <3>1. /\ Goto(r, "publishing", req[r])
          /\ owed' = [owed EXCEPT ![req[r].job].posts = @ + 1]
        BY <1>6, <2>3 DEF ChargePost, Charge, Proceed
    <3>2. ASSUME NEW j \in Jobs, calm
          PROVE  /\ owed'[j].posts = IF req[r].job = j THEN 1 ELSE 0
                 /\ owed'[j].days = 0
      <4>1. owed[j].posts = 0 /\ owed[j].days = 0
          BY <2>1, <2>2, <3>2 DEF Alone, Boosting
      <4>2. QED
          BY <1>0, <2>1, <3>1, <4>1
    <3>3. QED
        BY <1>0, <2>1, <2>2, <3>1, <3>2, GoesOn DEF Place, Alone, Unpublished, Boosting
  <2>4. CASE ~Affordable(PostPrice)
    <3>1. Goto(r, "idle", NoRequest) /\ UNCHANGED owed
        BY <1>6, <2>4 DEF ChargePost, Charge, Refused, Finish
    <3>2. calm => (\A q \in Requests \ {r} : pc[q] = "idle") /\ Settled'
        BY <2>1, <2>2, <3>1 DEF Alone, Settled, Boosting
    <3>3. QED
        BY <1>0, <2>1, <2>2, <3>1, <3>2, Ends
  <2>5. QED
      BY <2>3, <2>4
\* The posting is not published yet: it is this charge that publishes it.
<1>7. ASSUME PublishByPoint(r) PROVE CalmOrder'
  <2>1. /\ pc[r] = "publishing" /\ req[r].job \in Jobs /\ Goto(r, "idle", NoRequest)
        /\ owed' = IF req[r].job \in Published THEN owed
                   ELSE [owed EXCEPT ![req[r].job].posts = @ - 1]
        /\ UNCHANGED <<free, calm>>
      BY <1>0, <1>7 DEF PublishByPoint, Finish
  <2>2. calm => Cardinality(free) <= 1 /\ Alone(r)
      BY <2>1, TurnCalm
  <2>3. ASSUME calm, NEW j \in Jobs
        PROVE  owed'[j].posts = 0 /\ owed'[j].days = 0
    <3>1. /\ owed[j].posts = IF req[r].job = j THEN 1 ELSE 0
          /\ owed[j].days = 0 /\ req[r].job \notin Published
        BY <2>1, <2>2, <2>3 DEF Alone, Boosting, Unpublished, Published
    <3>2. QED
        BY <1>0, <2>1, <3>1
  <2>4. calm => (\A q \in Requests \ {r} : pc[q] = "idle") /\ Settled'
      BY <2>2, <2>3 DEF Alone, Settled
  <2>5. QED
      BY <1>0, <2>1, <2>2, <2>4, Ends
<1>8. ASSUME ChargeBoost(r) PROVE CalmOrder'
  <2>1. /\ pc[r] = "chargingBoost" /\ req[r] \in Request /\ req[r].job \in Jobs
        /\ req[r].days \in Nat /\ UNCHANGED <<job, firstPostUsed, free, calm>>
      BY <1>0, <1>8 DEF ChargeBoost, Request
  <2>2. calm => Cardinality(free) <= 1 /\ Alone(r)
      BY <2>1, TurnCalm
  <2>3. CASE Affordable(req[r].price)
    <3>1. /\ Goto(r, "boosting", req[r])
          /\ owed' = [owed EXCEPT ![req[r].job].days = @ + req[r].days]
        BY <1>8, <2>3 DEF ChargeBoost, Charge, Proceed
    <3>2. ASSUME NEW j \in Jobs, calm
          PROVE  /\ owed'[j].posts = 0
                 /\ owed'[j].days = IF req[r].job = j THEN req[r].days ELSE 0
      <4>1. owed[j].posts = 0 /\ owed[j].days = 0
          BY <2>1, <2>2, <3>2 DEF Alone, Boosting
      <4>2. QED
          BY <1>0, <2>1, <3>1, <4>1
    <3>3. QED
        BY <1>0, <2>1, <2>2, <3>1, <3>2, GoesOn DEF Place, Alone, Unpublished, Boosting
  <2>4. CASE ~Affordable(req[r].price)
    <3>1. Goto(r, "idle", NoRequest) /\ UNCHANGED owed
        BY <1>8, <2>4 DEF ChargeBoost, Charge, Refused, Finish
    <3>2. calm => (\A q \in Requests \ {r} : pc[q] = "idle") /\ Settled'
        BY <2>1, <2>2, <3>1 DEF Alone, Settled, Boosting
    <3>3. QED
        BY <1>0, <2>1, <2>2, <3>1, <3>2, Ends
  <2>5. QED
      BY <2>3, <2>4
<1>9. ASSUME ReadBoost(r) PROVE CalmOrder'
  <2> DEFINE what == [req[r] EXCEPT !.read = job[req[r].job].left]
  <2>1. /\ pc[r] = "boosting" /\ Goto(r, "extending", what)
        /\ UNCHANGED <<job, firstPostUsed, owed, free, calm>>
      BY <1>9 DEF ReadBoost
  <2>2. /\ what \in Request /\ what.job = req[r].job /\ what.days = req[r].days
        /\ what.read = job[what.job].left
      BY <1>0, <2>1 DEF Request, Posting
  <2> HIDE DEF what
  <2>3. calm => Cardinality(free) <= 1 /\ Alone(r)
      BY <2>1, TurnCalm
  <2>4. QED
      BY <1>0, <2>1, <2>2, <2>3, GoesOn DEF Place, Alone, Unpublished, Boosting
\* What has been read still stands: the boost grows by what was paid for.
<1>10. ASSUME ExtendBoost(r) PROVE CalmOrder'
  <2>1. PICK j \in Jobs : j = req[r].job
      BY <1>0, <1>10 DEF ExtendBoost
  <2>2. /\ pc[r] = "extending" /\ Goto(r, "idle", NoRequest) /\ UNCHANGED <<free, calm>>
        /\ owed' = [owed EXCEPT ![j].days = @ - ((req[r].read + req[r].days) - job[j].left)]
      BY <1>0, <1>10, <2>1 DEF ExtendBoost, Extended, Finish
  <2>3. calm => Cardinality(free) <= 1 /\ Alone(r)
      BY <2>2, TurnCalm
  <2>4. ASSUME calm, NEW i \in Jobs
        PROVE  owed'[i].posts = 0 /\ owed'[i].days = 0
    <3>1. /\ owed[i].posts = 0 /\ owed[i].days = IF j = i THEN req[r].days ELSE 0
          /\ req[r].read = job[j].left
        BY <2>1, <2>2, <2>3, <2>4 DEF Alone, Boosting
    <3>2. req[r].days \in Nat /\ job[j].left \in Nat
        BY <1>0, <2>1 DEF Request, Posting
    <3>3. QED
        BY <1>0, <2>1, <2>2, <3>1, <3>2
  <2>5. calm => (\A q \in Requests \ {r} : pc[q] = "idle") /\ Settled'
      BY <2>3, <2>4 DEF Alone, Settled
  <2>6. QED
      BY <1>0, <2>2, <2>3, <2>5, Ends
<1>11. ASSUME RequestFails(r) PROVE CalmOrder'
    BY <1>11 DEF RequestFails, CalmOrder
<1>12. QED
    BY <1>1, <1>2, <1>3, <1>4, <1>5, <1>6, <1>7, <1>8, <1>9, <1>10, <1>11

\* Whatever changes a status while a request is in progress ends the calm; the rest
\* changes neither a status nor, while a request is about to extend it, a boost.
LEMMA OtherCalm ==
    ASSUME IInv, CalmOrder,
           \/ \E j \in Jobs :
                 \/ \E due \in Due : UpdateJob(j, due)
                 \/ DeleteJob(j)
                 \/ \E s \in JobStatus : UpdateJobStatus(j, s)
                 \/ DateComes(j)
           \/ DayPasses \/ MarkExpiredJobs \/ DeactivateExpiredBoosts
    PROVE  CalmOrder'
<1>0. /\ TypeOK /\ job \in [Jobs -> Posting] /\ AboutJobs
    BY DEF IInv, TypeOK
<1>1. ASSUME Undisturbed, UNCHANGED <<flight, owed, free>>
      PROVE  CalmOrder'
  <2>1. (calm' => calm /\ InFlight = {}) /\ InFlight' = InFlight
      BY <1>1 DEF Undisturbed, InFlight, flight
  <2>2. QED
      BY <1>1, <2>1 DEF CalmOrder, Settled
<1>2. ASSUME UNCHANGED <<flight, firstPostUsed, owed, free, calm>>,
             \A j \in Jobs : job'[j].status = job[j].status,
             \/ \A j \in Jobs : job'[j].left = job[j].left
             \/ \A r \in Requests : pc[r] # "extending"
      PROVE  CalmOrder'
  <2>1. InFlight' = InFlight
      BY <1>2 DEF InFlight, flight
  <2>2. ASSUME NEW r \in InFlight, Alone(r) PROVE Alone(r)'
    <3>1. r \in Requests /\ req[r].job \in Jobs
        BY <1>0, <2>2 DEF InFlight, AboutJobs
    <3>2. job'[req[r].job].status = job[req[r].job].status
        BY <1>2, <3>1
    <3>3. pc[r] = "extending" => job'[req[r].job].left = job[req[r].job].left
        BY <1>2, <3>1
    <3>4. QED
        BY <1>2, <2>2, <3>1, <3>2, <3>3 DEF Alone, flight
  <2>3. QED
      BY <1>2, <2>1, <2>2 DEF CalmOrder, Settled
<1>3. ASSUME NEW j \in Jobs, NEW due \in Due, UpdateJob(j, due) PROVE CalmOrder'
    BY <1>0, <1>2, <1>3 DEF UpdateJob, Posting
<1>4. ASSUME NEW j \in Jobs, DateComes(j) PROVE CalmOrder'
    BY <1>0, <1>2, <1>4 DEF DateComes, Posting
<1>5. ASSUME NEW j \in Jobs, DeleteJob(j) PROVE CalmOrder'
    BY <1>1, <1>5 DEF DeleteJob
<1>6. ASSUME NEW j \in Jobs, NEW s \in JobStatus, UpdateJobStatus(j, s) PROVE CalmOrder'
    BY <1>1, <1>6 DEF UpdateJobStatus
<1>7. ASSUME DayPasses PROVE CalmOrder'
    BY <1>0, <1>2, <1>7 DEF DayPasses, Posting
<1>8. ASSUME MarkExpiredJobs PROVE CalmOrder'
    BY <1>1, <1>8 DEF MarkExpiredJobs
<1>9. ASSUME DeactivateExpiredBoosts PROVE CalmOrder'
    BY <1>0, <1>2, <1>9 DEF DeactivateExpiredBoosts, Posting
<1>10. QED
    BY <1>3, <1>4, <1>5, <1>6, <1>7, <1>8, <1>9

\* The order of the calm, from the start and over every step.
LEMMA CalmInductive ==
    /\ Init => CalmOrder
    /\ IInv /\ CalmOrder /\ [Next]_vars => CalmOrder'
<1>1. ASSUME Init PROVE CalmOrder
    BY <1>1, FS_EmptySet DEF Init, CalmOrder, InFlight, Settled
<1>2. ASSUME IInv, CalmOrder, [Next]_vars PROVE CalmOrder'
  <2>1. CASE Next
      BY <1>2, <2>1, RequestCalm, OtherCalm DEF Next
  <2>2. CASE UNCHANGED vars
      BY <1>2, <2>2 DEF vars, flight, CalmOrder, InFlight, Settled, Alone
  <2>3. QED
      BY <1>2, <2>1, <2>2
<1>3. QED
    BY <1>1, <1>2

\* No more postings are free than requests overlap, and one when none do.
THEOREM JobPostingFreeOnce == Spec => []FreeOnce
<1>1. ASSUME IInv, CalmOrder PROVE FreeOnce
  <2>1. IsFiniteSet(BecomingFree)
      BY FS_Subset, JobAssumption DEF BecomingFree
  <2>2. /\ Cardinality(BecomingFree) \in Nat /\ Cardinality(free) \in Nat
        /\ Cardinality(Requests) \in Nat
      BY <1>1, <2>1, FS_CardinalityType, JobAssumption DEF IInv, FreeBounded
  <2>3. QED
      BY <1>1, <2>2 DEF FreeOnce, IInv, FreeBounded, CalmOrder
<1>2. QED
    BY InitIInv, NextIInv, CalmInductive, <1>1, PTL DEF Spec

\* In calm, each charge published its posting and each boost grew by its days.
THEOREM JobPostingNothingOwed == Spec => []NothingOwed
<1>1. IInv /\ CalmOrder => NothingOwed
    BY DEF IInv, TypeOK, CalmOrder, Settled, NothingOwed
<1>2. QED
    BY InitIInv, NextIInv, CalmInductive, <1>1, PTL DEF Spec

=============================================================================
