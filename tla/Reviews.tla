-------------------------------- MODULE Reviews --------------------------------
(***************************************************************************)
(* The reviews of one company and the reports about them: a worker reviews *)
(* once, others report the review, a manager decides on the report and may *)
(* hide the review.  Every call reads the review first and writes later,   *)
(* by its id.                                                              *)
(***************************************************************************)
EXTENDS Integers, FiniteSets

CONSTANTS
    Reviewers,      \* workers
    ReviewCalls,    \* calls that may be open at once
    NoReviewer,     \* the author of no review, the caller of no call
    MaxReviews,     \* bound on reviews, numbered as they are created
    NestedReports   \* what the body of an edit may make of the reports of a review

ReportStatus == {"PENDING", "RESOLVED", "REJECTED"}

ASSUME ReviewsAssumption ==
    /\ MaxReviews \in Nat /\ NoReviewer \notin Reviewers
    /\ NestedReports \subseteq [Reviewers -> ReportStatus \cup {"none"}]

VARIABLES
    reviews,        \* author and status of each review
    reviewReports,  \* status of the report of each review by each worker
    made,           \* reviews created so far
    reviewCall      \* what each call is about to write

reviewVars == <<reviews, reviewReports, made, reviewCall>>

-----------------------------------------------------------------------------
ReviewIds == 1 .. MaxReviews
ReviewStatus == {"none", "ACTIVE", "DELETED"}     \* DELETED: hidden by a manager
NoReview == [author |-> NoReviewer, status |-> "none"]
NoReviewCall == [does |-> "nothing", review |-> 0, by |-> NoReviewer]
ReviewsBy(w) == {i \in ReviewIds : reviews[i].author = w}
Present(i) == i \in ReviewIds /\ reviews[i] # NoReview
Reported(i) == \E w \in Reviewers : reviewReports[i][w] # "none"

ReviewsInit ==
    /\ reviews = [i \in ReviewIds |-> NoReview]
    /\ reviewReports = [i \in ReviewIds |-> [w \in Reviewers |-> "none"]]
    /\ made = 0
    /\ reviewCall = [q \in ReviewCalls |-> NoReviewCall]

Prepare(q, does, i, w) ==
    /\ reviewCall[q] = NoReviewCall
    /\ reviewCall' = [reviewCall EXCEPT ![q] = [does |-> does, review |-> i, by |-> w]]
    /\ UNCHANGED <<reviews, reviewReports, made>>
About(q, does) == reviewCall[q].does = does
Done(q) == reviewCall' = [reviewCall EXCEPT ![q] = NoReviewCall]

CreateReview(q, w) == ReviewsBy(w) = {} /\ Prepare(q, "create", 0, w)
DeleteReview(q, i) == Present(i) /\ Prepare(q, "delete", i, reviews[i].author)
ReportReview(q, i, w) ==
    /\ Present(i) /\ reviews[i].author # w /\ reviewReports[i][w] = "none"
    /\ Prepare(q, "report", i, w)
HideReviewByManager(q, i) == Present(i) /\ Prepare(q, "hide", i, NoReviewer)
UpdateReview(q, i) == Present(i) /\ Prepare(q, "update", i, reviews[i].author)

\* One row of a worker and a company; a hidden review is one, too.  The body of the
\* request is written as it is, a status in it included.
InsertReview(q, status) ==
    /\ About(q, "create") /\ made < MaxReviews
    /\ IF ReviewsBy(reviewCall[q].by) # {} THEN UNCHANGED <<reviews, made>>
       ELSE /\ reviews' = [reviews EXCEPT ![made + 1] =
                              [author |-> reviewCall[q].by, status |-> status]]
            /\ made' = made + 1
    /\ Done(q)
    /\ UNCHANGED reviewReports

\* updateReview takes only the author and the company out of the body: its status
\* and, nested in it, the reports of the review are written too, if they are there.
\* (A body that renumbers the review or takes over a report of another one is left
\* out.)
WriteReview(q, status) ==
    LET i == reviewCall[q].review IN
    /\ About(q, "update")
    /\ IF Present(i)
       THEN /\ reviews' = [reviews EXCEPT ![i].status = status]
            /\ \E reports \in NestedReports \cup {reviewReports[i]} :
                  reviewReports' = [reviewReports EXCEPT ![i] = reports]
       ELSE UNCHANGED <<reviews, reviewReports>>
    /\ Done(q)
    /\ UNCHANGED made

\* A report refers to its review, which the database does not let go.
AnyReview(i) == TRUE                                              \* mutant
Deletable(i) == ~Reported(i)
RemoveReview(q) ==
    LET i == reviewCall[q].review IN
    /\ About(q, "delete")
    /\ reviews' = IF Deletable(i) THEN [reviews EXCEPT ![i] = NoReview] ELSE reviews
    /\ Done(q)
    /\ UNCHANGED <<reviewReports, made>>

InsertReport(q) ==
    LET i == reviewCall[q].review IN
    /\ About(q, "report")
    /\ reviewReports' = IF Present(i) /\ reviewReports[i][reviewCall[q].by] = "none"
                        THEN [reviewReports EXCEPT ![i][reviewCall[q].by] = "PENDING"]
                        ELSE reviewReports
    /\ Done(q)
    /\ UNCHANGED <<reviews, made>>

HideReview(q) ==
    LET i == reviewCall[q].review IN
    /\ About(q, "hide")
    /\ reviews' = IF Present(i) THEN [reviews EXCEPT ![i].status = "DELETED"] ELSE reviews
    /\ Done(q)
    /\ UNCHANGED <<reviewReports, made>>

\* updateReviewReportStatus: any status may follow any other.
UpdateReviewReportStatus(i, w, status) ==
    /\ reviewReports[i][w] \notin {"none", status}
    /\ reviewReports' = [reviewReports EXCEPT ![i][w] = status]
    /\ UNCHANGED <<reviews, made, reviewCall>>

ReviewsNext ==
    \/ \E q \in ReviewCalls :
          \/ \E w \in Reviewers : CreateReview(q, w)
          \/ \E i \in ReviewIds :
                \/ DeleteReview(q, i) \/ HideReviewByManager(q, i) \/ UpdateReview(q, i)
                \/ \E w \in Reviewers : ReportReview(q, i, w)
          \/ \E status \in {"ACTIVE", "DELETED"} :
                InsertReview(q, status) \/ WriteReview(q, status)
          \/ RemoveReview(q) \/ InsertReport(q) \/ HideReview(q)
    \/ \E i \in ReviewIds, w \in Reviewers, status \in ReportStatus :
          UpdateReviewReportStatus(i, w, status)
ReviewsSpec == ReviewsInit /\ [][ReviewsNext]_reviewVars

-----------------------------------------------------------------------------
\* getReviewsByCompanyId and getReviewReports.
ShownReviews == {i \in ReviewIds : reviews[i].status = "ACTIVE"}
ListedReports(status) ==
    {report \in ReviewIds \X Reviewers : reviewReports[report[1]][report[2]] = status}

ReviewsTypeOK ==
    /\ reviews \in [ReviewIds -> [author : Reviewers \cup {NoReviewer}, status : ReviewStatus]]
    /\ reviewReports \in [ReviewIds -> [Reviewers -> ReportStatus \cup {"none"}]]
    /\ made \in 0 .. MaxReviews
    /\ \A q \in ReviewCalls : reviewCall[q].review \in ReviewIds \cup {0}

\* Every report the manager lists has its review, and a worker has one review at
\* most, shown or hidden: so a review that was reported goes, and another of its
\* author comes, only after its reports went.  (That a hidden review stays hidden is
\* no promise: updateReview may set its status and delete its reports.)
ReportsHaveReviews ==
    /\ \A status \in ReportStatus : \A report \in ListedReports(status) : Present(report[1])
    /\ \A w \in Reviewers : Cardinality(ReviewsBy(w)) <= 1
=============================================================================
