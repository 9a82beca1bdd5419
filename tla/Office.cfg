\* Two calls, requests, edits or runs of the scheduled job at a time in every part.
SPECIFICATION OfficeSpec
CONSTANTS
    SessionIds = {s1, s2}
    SessionCalls = {q1, q2}
    NoSession = NoSession
    MaxJti = 3
    Resets = {t1, t2}
    Visitors = {q1, q2}
    NoReset = NoReset
    MaxAttempt = 2
    People = {p1, p2}
    Emails = {e1, e2}
    NoEmail = NoEmail
    CompanyCalls = {q1, q2}
    MaxEdits = 3
    Sectors = {s1, s2}
    Occupations = {o1}
    Clerks = {k1}
    Readers = {k1}
    MaxPackages = 2
    Durations = {1, 2}
    Admins = {q1, q2}
    Invited = {w1}
    Ticks = {q1, q2}
    StartTimes = {9, 10}
    LongLead = 6
    ShortLead = 1
    Company = Company
    Addresses = {a1, a2}
    Recorders = {q1, q2}
    MaxViews = 4
    Reporters = {w1}
    ReportCalls = {q1, q2}
    NoReporter = NoReporter
    Codes = {c1, c2}
    TicketCalls = {q1, q2}
    NoCode = NoCode
    MaxTries = 2
    Reviewers = {w1, w2}
    ReviewCalls = {q1, q2}
    NoReviewer = NoReviewer
    MaxReviews = 2
    NestedReports <- MCNestedReports
    Chatters = {w1, w2}
    Watcher = w1
    MaxMessages = 3
    Moments = {1, 2, 3}
    PageSize = 1
    Writers = {q1, q2}
    MaxText = 3
    Profiles <- MCProfiles
    Offers <- MCOffers
    Similarities <- MCSimilarities
    Updates <- MCUpdates
    Unknown = Unknown
SYMMETRY CallsAlike
INVARIANTS
    OfficeTypeOK TokensRotate PasswordsHold ReviewComesFirst CopiesFollowEdits
    OffersUnambiguous RemindedOnce FeedbackAddsUp NothingMissed MatchedByItsText ScoresCompare
\* Some parts stop at their bounds.
CHECK_DEADLOCK FALSE
