--------------------------------- MODULE Office ---------------------------------
(***************************************************************************)
(* The parts of the program around its wallet, its postings and its        *)
(* interviews.  They share no state: a behaviour is one of any one part,   *)
(* and the others keep the state they begin with.                          *)
(***************************************************************************)
EXTENDS Sessions, Passwords, SignUps, Companies, Catalogue, Packages, Reminders,
        JobViews, JobReports, Tickets, Reviews, Chat, Embeddings, Matching

VARIABLE part       \* the part that this behaviour is one of

officeVars == <<part, sessionVars, passwordVars, signUpVars, companyVars, catalogueVars,
                packageVars, reminderVars, viewVars, reportVars, ticketVars, reviewVars,
                chatVars, embeddingVars, matchingVars>>

-----------------------------------------------------------------------------
Parts == {"sessions", "passwords", "signUps", "companies", "catalogue", "packages", "reminders",
          "views", "reports", "tickets", "reviews", "chat", "embeddings", "matching"}

AnyOf(S) == CHOOSE x \in S : TRUE
\* A part that is not the chosen one begins in one of its initial states.
CatalogueAtRest == cacheKey = "sector:all" /\ occupation = [o \in Occupations |->
                      [status |-> "none", sector |-> AnyOf(Sectors)]]
RemindersAtRest == startAt = AnyOf(StartTimes) /\ accepted = {}
MatchingAtRest == profile = AnyOf(Profiles) /\ offer = AnyOf(Offers)

OfficeInit ==
    /\ part \in Parts
    /\ SessionsInit /\ PasswordsInit /\ SignUpsInit /\ CompaniesInit /\ PackagesInit
    /\ JobViewsInit /\ JobReportsInit /\ TicketsInit /\ ReviewsInit /\ ChatInit /\ EmbeddingsInit
    /\ CatalogueInit /\ (part # "catalogue" => CatalogueAtRest)
    /\ RemindersInit /\ (part # "reminders" => RemindersAtRest)
    /\ MatchingInit /\ (part # "matching" => MatchingAtRest)

Rests(p, vars) == IF part = p THEN TRUE ELSE UNCHANGED vars

OfficeNext ==
    /\ \/ part = "sessions" /\ SessionsNext
       \/ part = "passwords" /\ PasswordsNext
       \/ part = "signUps" /\ SignUpsNext
       \/ part = "companies" /\ CompaniesNext
       \/ part = "catalogue" /\ CatalogueNext
       \/ part = "packages" /\ PackagesNext
       \/ part = "reminders" /\ RemindersNext
       \/ part = "views" /\ JobViewsNext
       \/ part = "reports" /\ JobReportsNext
       \/ part = "tickets" /\ TicketsNext
       \/ part = "reviews" /\ ReviewsNext
       \/ part = "chat" /\ ChatNext
       \/ part = "embeddings" /\ EmbeddingsNext
       \/ part = "matching" /\ MatchingNext
    /\ UNCHANGED part
    /\ Rests("sessions", sessionVars)
    /\ Rests("passwords", passwordVars)
    /\ Rests("signUps", signUpVars)
    /\ Rests("companies", companyVars)
    /\ Rests("catalogue", catalogueVars)
    /\ Rests("packages", packageVars)
    /\ Rests("reminders", reminderVars)
    /\ Rests("views", viewVars)
    /\ Rests("reports", reportVars)
    /\ Rests("tickets", ticketVars)
    /\ Rests("reviews", reviewVars)
    /\ Rests("chat", chatVars)
    /\ Rests("embeddings", embeddingVars)
    /\ Rests("matching", matchingVars)

OfficeSpec == OfficeInit /\ [][OfficeNext]_officeVars

-----------------------------------------------------------------------------
OfficeTypeOK ==
    /\ part \in Parts
    /\ SessionsTypeOK /\ PasswordsTypeOK /\ SignUpsTypeOK /\ CompaniesTypeOK
    /\ CatalogueTypeOK /\ PackagesTypeOK /\ RemindersTypeOK /\ JobViewsTypeOK
    /\ JobReportsTypeOK /\ TicketsTypeOK /\ ReviewsTypeOK /\ ChatTypeOK /\ EmbeddingsTypeOK /\ MatchingTypeOK

\* The feedback of users adds up: views with their counter, reports of postings with
\* what is told of them, tickets with their time of resolution, reports of reviews
\* with the reviews (recordView, reportJob, updateTicket, reportReview).
FeedbackAddsUp == ViewsCounted /\ ReportsHeard /\ ResolvedHasTime /\ ReportsHaveReviews
=============================================================================
