------------------------------- MODULE JobReports -------------------------------
(***************************************************************************)
(* What workers do with one posting: they save it and report it.  A report *)
(* is announced to the managers, and a manager's decision to its reporter, *)
(* each by a notification that is created after the row is written.        *)
(***************************************************************************)
EXTENDS Integers, FiniteSets

CONSTANTS
    Reporters,      \* workers
    ReportCalls,    \* calls that may be open at once
    NoReporter      \* who an idle call is by

ASSUME JobReportsAssumption == NoReporter \notin Reporters

VARIABLES
    jobReport,      \* status of each worker's report
    announced,      \* workers whose report was announced
    answer,         \* the decision that each worker was last told
    saved,          \* workers who have saved the posting
    wished,         \* workers who have last asked to save it
    reportCall,     \* what each call is about to write
    reportsCalm     \* no call was overtaken by another, none failed

reportVars == <<jobReport, announced, answer, saved, wished, reportCall, reportsCalm>>

-----------------------------------------------------------------------------
JobReportStatus == {"PENDING", "RESOLVED", "REJECTED"}
Decisions == {"RESOLVED", "REJECTED"}
NoReportCall == [does |-> "nothing", by |-> NoReporter, status |-> "none"]
OpenReportCalls == {q \in ReportCalls : reportCall[q] # NoReportCall}

JobReportsInit ==
    /\ jobReport = [w \in Reporters |-> "none"]
    /\ announced = {}
    /\ answer = [w \in Reporters |-> "none"]
    /\ saved = {} /\ wished = {}
    /\ reportCall = [q \in ReportCalls |-> NoReportCall]
    /\ reportsCalm = TRUE

ReportCallGoes(q, does, w, status) ==
    reportCall' = [reportCall EXCEPT ![q] = [does |-> does, by |-> w, status |-> status]]
ReportCallEnds(q) == reportCall' = [reportCall EXCEPT ![q] = NoReportCall]
ReportCallArrives(q, does, w, status) ==
    /\ reportCall[q] = NoReportCall
    /\ ReportCallGoes(q, does, w, status)
    /\ reportsCalm' = (reportsCalm /\ OpenReportCalls = {})
Does(q, does) == reportCall[q].does = does

-----------------------------------------------------------------------------
\* reportJob refuses a second report, then createJobReport inserts the row, whose
\* key is the posting and the worker, and tells every manager.
ReportJob(q, w) ==
    /\ jobReport[w] = "none"
    /\ ReportCallArrives(q, "report", w, "PENDING")
    /\ UNCHANGED <<jobReport, announced, answer, saved, wished>>
CreateJobReport(q) ==
    LET w == reportCall[q].by IN
    /\ Does(q, "report")
    /\ IF jobReport[w] # "none"
       THEN ReportCallEnds(q) /\ UNCHANGED jobReport
       ELSE /\ jobReport' = [jobReport EXCEPT ![w] = "PENDING"]
            /\ ReportCallGoes(q, "announce", w, "PENDING")
    /\ UNCHANGED <<announced, answer, saved, wished, reportsCalm>>
AnnounceReport(q) ==
    /\ Does(q, "announce")
    /\ announced' = announced \cup {reportCall[q].by}
    /\ ReportCallEnds(q)
    /\ UNCHANGED <<jobReport, answer, saved, wished, reportsCalm>>

\* changeJobReportStatus: any status may follow any other; the reporter is told of
\* a decision, not of its withdrawal.
ToldOfSolutions(status) == status = "RESOLVED"                    \* mutant
ToldOf(status) == status \in Decisions
ChangeJobReportStatus(q, w, status) ==
    /\ jobReport[w] # "none"
    /\ jobReport' = [jobReport EXCEPT ![w] = status]
    /\ IF ToldOf(status) THEN ReportCallArrives(q, "answer", w, status)
       ELSE /\ reportCall[q] = NoReportCall /\ UNCHANGED reportCall
            /\ reportsCalm' = (reportsCalm /\ OpenReportCalls = {})
    /\ UNCHANGED <<announced, answer, saved, wished>>
AnswerReporter(q) ==
    /\ Does(q, "answer")
    /\ answer' = [answer EXCEPT ![reportCall[q].by] = reportCall[q].status]
    /\ ReportCallEnds(q)
    /\ UNCHANGED <<jobReport, announced, saved, wished, reportsCalm>>

-----------------------------------------------------------------------------
\* saveJob and unSaveJob: what is so already is left so.
SaveJob(q, w) ==
    /\ wished' = wished \cup {w}
    /\ w \notin saved
    /\ ReportCallArrives(q, "save", w, "none")
    /\ UNCHANGED <<jobReport, announced, answer, saved>>
UnSaveJob(q, w) ==
    /\ wished' = wished \ {w}
    /\ w \in saved
    /\ ReportCallArrives(q, "unsave", w, "none")
    /\ UNCHANGED <<jobReport, announced, answer, saved>>
\* The insertion of a row that is there, or the deletion of one that is gone, fails.
WriteSaved(q) ==
    /\ Does(q, "save") \/ Does(q, "unsave")
    /\ saved' = IF Does(q, "save") THEN saved \cup {reportCall[q].by} ELSE saved \ {reportCall[q].by}
    /\ ReportCallEnds(q)
    /\ UNCHANGED <<jobReport, announced, answer, wished, reportsCalm>>

ReportCallFails(q) ==
    /\ reportCall[q] # NoReportCall
    /\ ReportCallEnds(q)
    /\ reportsCalm' = FALSE
    /\ UNCHANGED <<jobReport, announced, answer, saved, wished>>

JobReportsNext ==
    \E q \in ReportCalls :
        \/ \E w \in Reporters :
              \/ ReportJob(q, w) \/ SaveJob(q, w) \/ UnSaveJob(q, w)
              \/ \E status \in JobReportStatus : ChangeJobReportStatus(q, w, status)
        \/ CreateJobReport(q) \/ AnnounceReport(q) \/ AnswerReporter(q)
        \/ WriteSaved(q) \/ ReportCallFails(q)
JobReportsSpec == JobReportsInit /\ [][JobReportsNext]_reportVars

-----------------------------------------------------------------------------
\* getAllJobReport and getWishList.
AllJobReports(status) == {w \in Reporters : jobReport[w] = status}
WishList(w) == w \in saved

JobReportsTypeOK ==
    /\ jobReport \in [Reporters -> JobReportStatus \cup {"none"}]
    /\ announced \subseteq Reporters
    /\ answer \in [Reporters -> Decisions \cup {"none"}]
    /\ saved \subseteq Reporters /\ wished \subseteq Reporters
    /\ \A q \in ReportCalls : reportCall[q].by \in Reporters \cup {NoReporter}
    /\ reportsCalm \in BOOLEAN

\* While calls neither overlap nor fail, and when none is open: every report in the
\* managers' lists was announced to them, a report that is decided has its decision
\* as the last that its reporter was told, and the wish list is what was asked for.
\* And at no time is a decision told of a report that is not there.
ReportsHeard ==
    /\ \A w \in Reporters : answer[w] # "none" => jobReport[w] # "none"
    /\ reportsCalm /\ OpenReportCalls = {} =>
          /\ UNION {AllJobReports(status) : status \in JobReportStatus} \subseteq announced
          /\ \A status \in Decisions : \A w \in AllJobReports(status) : answer[w] = status
          /\ \A w \in Reporters : WishList(w) <=> w \in wished
=============================================================================
