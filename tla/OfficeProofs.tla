---------------------------- MODULE OfficeProofs ----------------------------
(***************************************************************************)
(* What the users of the office rely on: the counter of views, reports and *)
(* what is told of them, tickets, reviews, the pages of a conversation and *)
(* the reminders of an interview; and the parts put together, with those   *)
(* of AccountsProofs and ManagementProofs. For any number of addresses,    *)
(* calls, reports, tickets, reviews, messages, workers and runs of the     *)
(* job.                                                                    *)
(*                                                                         *)
(* Each part has an inductive invariant, a lemma for its initial states,   *)
(* one for its steps, and one that the promises of the part follow from    *)
(* it.                                                                     *)
(***************************************************************************)
EXTENDS Office, AccountsProofs, ManagementProofs, SequenceTheorems

-----------------------------------------------------------------------------
(***************************************************************************)
(* The counter of views. The rows of an address are numbered, and those of *)
(* the day, with those that are about to be inserted, are as few as the    *)
(* calls that found none.                                                  *)
(***************************************************************************)

Viewed == today \cup before
TodayOf(a) == {r \in today : r[1] = a}
RecordingOf(a) == {v \in Recorders : recording[v] = a}

\* The rows of an address are numbered, so that the next number is a new row; and
\* those of the day, with those that are about to be inserted, are as few as the
\* calls that have found none.
ViewInv ==
    /\ JobViewsTypeOK /\ IsFiniteSet(Viewed)
    /\ \A r \in Viewed : r[2] <= Cardinality(RowsOf(r[1]))
    /\ viewCount = Cardinality(Viewed)
    /\ \A a \in Addresses :
          LET n == Cardinality(TodayOf(a)) + Cardinality(RecordingOf(a))
          IN  n <= Cardinality(Recorders) /\ (viewsApart => n <= 1)

\* The rows that are counted are finite sets.
LEMMA ViewSets ==
    ASSUME IsFiniteSet(Viewed), NEW a
    PROVE  /\ IsFiniteSet(today) /\ IsFiniteSet(TodayOf(a)) /\ IsFiniteSet(RowsOf(a))
           /\ IsFiniteSet(RecordingOf(a))
           /\ Cardinality(TodayOf(a)) \in Nat /\ Cardinality(RowsOf(a)) \in Nat
           /\ Cardinality(RecordingOf(a)) \in Nat /\ Cardinality(Recorders) \in Nat
<1>1. /\ today \subseteq Viewed /\ TodayOf(a) \subseteq Viewed /\ RowsOf(a) \subseteq Viewed
      /\ RecordingOf(a) \subseteq Recorders
    BY DEF Viewed, TodayOf, RowsOf, RecordingOf
<1>2. QED
    BY <1>1, FS_Subset, FS_CardinalityType, JobViewsAssumption

\* Nobody has viewed at first.
LEMMA ViewInitInv == JobViewsInit => ViewInv
<1> SUFFICES ASSUME JobViewsInit PROVE ViewInv
    OBVIOUS
<1>1. Viewed = {} /\ IsFiniteSet(Viewed) /\ Cardinality(Viewed) = 0
    BY FS_EmptySet DEF JobViewsInit, Viewed
<1>2. \A a \in Addresses : TodayOf(a) = {} /\ RecordingOf(a) = {}
    BY JobViewsAssumption DEF JobViewsInit, TodayOf, RecordingOf
<1>3. \A a \in Addresses : Cardinality(TodayOf(a)) = 0 /\ Cardinality(RecordingOf(a)) = 0
    BY <1>2, FS_EmptySet
<1>4. Cardinality(Recorders) \in Nat
    BY FS_CardinalityType, JobViewsAssumption
<1>5. JobViewsTypeOK
    BY DEF JobViewsInit, JobViewsTypeOK
<1>6. QED
    BY <1>1, <1>3, <1>4, <1>5 DEF JobViewsInit, ViewInv

\* Every step of recordView keeps the invariant.
LEMMA ViewNextInv == ViewInv /\ [JobViewsNext]_viewVars => ViewInv'
<1> SUFFICES ASSUME ViewInv, [JobViewsNext]_viewVars PROVE ViewInv'
    OBVIOUS
<1>0. /\ today \subseteq Addresses \X Nat /\ before \subseteq Addresses \X Nat /\ viewCount \in Nat
      /\ recording \in [Recorders -> Addresses \cup {NotRecording}] /\ viewsApart \in BOOLEAN
      /\ IsFiniteSet(Viewed) /\ Cardinality(Recorders) \in Nat
    BY FS_CardinalityType, JobViewsAssumption DEF ViewInv, JobViewsTypeOK
<1>1. ASSUME NEW v \in Recorders, NEW a \in Addresses, VisitDetail(v, a) PROVE ViewInv'
  <2>1. /\ recording[v] = NotRecording /\ recording' = [recording EXCEPT ![v] = a]
        /\ viewsApart' = (viewsApart /\ \A u \in Recorders : recording[u] # a)
        /\ today' = today /\ before' = before /\ viewCount' = viewCount /\ TodayOf(a) = {}
      BY <1>1 DEF VisitDetail, SeenToday, TodayOf
  <2>2. JobViewsTypeOK' /\ Viewed' = Viewed /\ \A b : RowsOf(b)' = RowsOf(b) /\ TodayOf(b)' = TodayOf(b)
      BY <1>0, <2>1 DEF JobViewsTypeOK, Viewed, RowsOf, TodayOf
  <2>3. /\ RecordingOf(a)' = RecordingOf(a) \cup {v}
        /\ \A b \in Addresses \ {a} : RecordingOf(b)' = RecordingOf(b)
      BY <1>0, <2>1, JobViewsAssumption DEF RecordingOf
  <2>4. Cardinality(TodayOf(a)') = 0
      BY <2>1, <2>2, FS_EmptySet
  <2>5. Cardinality(RecordingOf(a)') \in Nat /\ Cardinality(RecordingOf(a)') <= Cardinality(Recorders)
    <3>1. RecordingOf(a)' \subseteq Recorders
        BY <2>3 DEF RecordingOf
    <3>2. QED
        BY <3>1, FS_Subset, FS_CardinalityType, JobViewsAssumption
  <2>6. viewsApart' => Cardinality(RecordingOf(a)') = 1
    <3>1. viewsApart' => RecordingOf(a)' = {v}
        BY <2>1, <2>3 DEF RecordingOf
    <3>2. QED
        BY <3>1, FS_Singleton
  <2>7. ASSUME NEW b \in Addresses
        PROVE  LET n == Cardinality(TodayOf(b)') + Cardinality(RecordingOf(b)')
               IN  n <= Cardinality(Recorders) /\ (viewsApart' => n <= 1)
    <3>1. CASE b = a
        BY <2>4, <2>5, <2>6, <3>1
    <3>2. CASE b # a
        BY <2>1, <2>2, <2>3, <3>2 DEF ViewInv
    <3>3. QED
        BY <3>1, <3>2
  <2>8. QED
      BY <2>1, <2>2, <2>7 DEF ViewInv
<1>2. ASSUME NEW v \in Recorders, RecordView(v) PROVE ViewInv'
  <2>0. PICK a : a = recording[v]
      OBVIOUS
  <2>. PICK new : new = <<a, Cardinality(RowsOf(a)) + 1>>
      OBVIOUS
  <2>1. /\ a \in Addresses /\ today' = today \cup {new} /\ viewCount' = viewCount + 1
        /\ recording' = [recording EXCEPT ![v] = NotRecording]
        /\ before' = before /\ viewsApart' = viewsApart
      BY <1>0, <1>2, <2>0 DEF RecordView, NewRow
  <2>2. new \in Addresses \X Nat /\ new[1] = a /\ new[2] = Cardinality(RowsOf(a)) + 1
      BY <1>0, <2>1, ViewSets
  <2>3. new \notin Viewed
    <3>1. Cardinality(RowsOf(a)) \in Nat
        BY <1>0, ViewSets
    <3>2. QED
        BY <2>2, <3>1 DEF ViewInv
  <2>4. Viewed' = Viewed \cup {new}
      BY <2>1 DEF Viewed
  <2>5. IsFiniteSet(Viewed') /\ Cardinality(Viewed') = Cardinality(Viewed) + 1
      BY <1>0, <2>3, <2>4, FS_AddElement
  <2>6. /\ RowsOf(a)' = RowsOf(a) \cup {new} /\ TodayOf(a)' = TodayOf(a) \cup {new}
        /\ \A b : b # a => RowsOf(b)' = RowsOf(b) /\ TodayOf(b)' = TodayOf(b)
      BY <2>1, <2>2 DEF RowsOf, TodayOf
  <2>7. /\ RecordingOf(a)' = RecordingOf(a) \ {v} /\ v \in RecordingOf(a)
        /\ \A b \in Addresses \ {a} : RecordingOf(b)' = RecordingOf(b)
      BY <1>0, <2>0, <2>1, JobViewsAssumption DEF RecordingOf
  <2>8. Cardinality(RowsOf(a)') = Cardinality(RowsOf(a)) + 1 /\ Cardinality(RowsOf(a)) \in Nat
    <3>1. new \notin RowsOf(a)
        BY <2>3 DEF RowsOf, Viewed
    <3>2. IsFiniteSet(RowsOf(a)) /\ Cardinality(RowsOf(a)) \in Nat
        BY <1>0, ViewSets
    <3>3. Cardinality(RowsOf(a) \cup {new}) = Cardinality(RowsOf(a)) + 1
        BY <3>1, <3>2, FS_AddElement
    <3>4. QED
        BY <2>6, <3>2, <3>3
  <2>9. /\ Cardinality(TodayOf(a)') \in Nat /\ Cardinality(TodayOf(a)') <= Cardinality(TodayOf(a)) + 1
        /\ Cardinality(RecordingOf(a)') = Cardinality(RecordingOf(a)) - 1
        /\ Cardinality(TodayOf(a)) \in Nat /\ Cardinality(RecordingOf(a)) \in Nat
    <3>1. /\ IsFiniteSet(TodayOf(a)) /\ Cardinality(TodayOf(a)) \in Nat
          /\ IsFiniteSet(RecordingOf(a)) /\ Cardinality(RecordingOf(a)) \in Nat
        BY <1>0, ViewSets
    <3>2. Cardinality(TodayOf(a) \cup {new}) \in {Cardinality(TodayOf(a)), Cardinality(TodayOf(a)) + 1}
        BY <3>1, FS_AddElement
    <3>3. Cardinality(RecordingOf(a) \ {v}) = Cardinality(RecordingOf(a)) - 1
        BY <2>7, <3>1, FS_RemoveElement
    <3>4. TodayOf(a)' = TodayOf(a) \cup {new} /\ RecordingOf(a)' = RecordingOf(a) \ {v}
        BY <2>6, <2>7
    <3>5. Cardinality(TodayOf(a)') \in Nat /\ Cardinality(TodayOf(a)') <= Cardinality(TodayOf(a)) + 1
        BY <3>1, <3>2, <3>4
    <3>6. QED
        BY <3>1, <3>3, <3>4, <3>5
  <2>10. JobViewsTypeOK'
      BY <1>0, <2>1, <2>2 DEF JobViewsTypeOK
  <2>11. ASSUME NEW r \in Viewed' PROVE r[2] <= Cardinality(RowsOf(r[1])')
    <3>1. CASE r = new
        BY <2>2, <2>6, <2>8, <3>1
    <3>2. CASE r \in Viewed /\ r[1] = a
      <4>1. r[2] <= Cardinality(RowsOf(a)) /\ r[2] \in Nat
          BY <1>0, <3>2 DEF ViewInv, Viewed
      <4>2. QED
          BY <2>8, <3>2, <4>1
    <3>3. CASE r \in Viewed /\ r[1] # a
        BY <2>6, <3>3 DEF ViewInv
    <3>4. QED
        BY <2>4, <2>11, <3>1, <3>2, <3>3
  <2>12. viewCount' = Cardinality(Viewed')
      BY <2>1, <2>5 DEF ViewInv
  <2>13. ASSUME NEW b \in Addresses
        PROVE  LET n == Cardinality(TodayOf(b)') + Cardinality(RecordingOf(b)')
               IN  n <= Cardinality(Recorders) /\ (viewsApart' => n <= 1)
    <3>1. CASE b = a
      <4>1. LET n == Cardinality(TodayOf(a)) + Cardinality(RecordingOf(a))
            IN  n <= Cardinality(Recorders) /\ (viewsApart => n <= 1)
          BY <2>1 DEF ViewInv
      <4>2. QED
          BY <1>0, <2>1, <2>9, <3>1, <4>1
    <3>2. CASE b # a
        BY <2>1, <2>6, <2>7, <3>2 DEF ViewInv
    <3>3. QED
        BY <3>1, <3>2
  <2>14. QED
      BY <2>5, <2>10, <2>11, <2>12, <2>13 DEF ViewInv
<1>3. ASSUME NEW v \in Recorders, RecordFails(v) PROVE ViewInv'
  <2>1. /\ recording' = [recording EXCEPT ![v] = NotRecording]
        /\ today' = today /\ before' = before /\ viewCount' = viewCount /\ viewsApart' = viewsApart
      BY <1>3 DEF RecordFails
  <2>2. JobViewsTypeOK' /\ Viewed' = Viewed /\ \A b : RowsOf(b)' = RowsOf(b) /\ TodayOf(b)' = TodayOf(b)
      BY <1>0, <2>1 DEF JobViewsTypeOK, Viewed, RowsOf, TodayOf
  <2>3. ASSUME NEW b \in Addresses
        PROVE  Cardinality(RecordingOf(b)') \in Nat /\ Cardinality(RecordingOf(b)') <= Cardinality(RecordingOf(b))
    <3>1. RecordingOf(b)' \subseteq RecordingOf(b)
        BY <1>0, <2>1, JobViewsAssumption DEF RecordingOf
    <3>2. QED
        BY <1>0, <3>1, ViewSets, FS_Subset, FS_CardinalityType
  <2>4. ASSUME NEW b \in Addresses
        PROVE  LET n == Cardinality(TodayOf(b)') + Cardinality(RecordingOf(b)')
               IN  n <= Cardinality(Recorders) /\ (viewsApart' => n <= 1)
    <3>1. Cardinality(TodayOf(b)) \in Nat /\ Cardinality(RecordingOf(b)) \in Nat
        BY <1>0, ViewSets
    <3>2. LET n == Cardinality(TodayOf(b)) + Cardinality(RecordingOf(b))
          IN  n <= Cardinality(Recorders) /\ (viewsApart => n <= 1)
        BY DEF ViewInv
    <3>3. QED
        BY <1>0, <2>1, <2>2, <2>3, <3>1, <3>2
  <2>5. QED
      BY <2>1, <2>2, <2>4 DEF ViewInv
<1>4. ASSUME NEW a \in Addresses, DayEnds(a) PROVE ViewInv'
  <2>1. /\ before' = before \cup {r \in today : r[1] = a} /\ today' = {r \in today : r[1] # a}
        /\ viewCount' = viewCount /\ recording' = recording /\ viewsApart' = viewsApart
      BY <1>4 DEF DayEnds
  <2>2. Viewed' = Viewed
      BY <2>1 DEF Viewed
  <2>3. \A b : RowsOf(b)' = RowsOf(b)
      BY <2>2 DEF RowsOf, Viewed
  <2>4. JobViewsTypeOK' /\ \A b : RecordingOf(b)' = RecordingOf(b)
      BY <1>0, <2>1 DEF JobViewsTypeOK, RecordingOf
  <2>5. ASSUME NEW b \in Addresses
        PROVE  Cardinality(TodayOf(b)') \in Nat /\ Cardinality(TodayOf(b)') <= Cardinality(TodayOf(b))
    <3>1. TodayOf(b)' \subseteq TodayOf(b)
        BY <2>1 DEF TodayOf
    <3>2. QED
        BY <1>0, <3>1, ViewSets, FS_Subset, FS_CardinalityType
  <2>6. ASSUME NEW b \in Addresses
        PROVE  LET n == Cardinality(TodayOf(b)') + Cardinality(RecordingOf(b)')
               IN  n <= Cardinality(Recorders) /\ (viewsApart' => n <= 1)
    <3>1. Cardinality(TodayOf(b)) \in Nat /\ Cardinality(RecordingOf(b)) \in Nat
        BY <1>0, ViewSets
    <3>2. LET n == Cardinality(TodayOf(b)) + Cardinality(RecordingOf(b))
          IN  n <= Cardinality(Recorders) /\ (viewsApart => n <= 1)
        BY DEF ViewInv
    <3>3. QED
        BY <1>0, <2>1, <2>4, <2>5, <3>1, <3>2
  <2>7. QED
      BY <2>1, <2>2, <2>3, <2>4, <2>6 DEF ViewInv
<1>5. CASE UNCHANGED viewVars
    BY <1>5 DEF viewVars, ViewInv, JobViewsTypeOK, Viewed, RowsOf, TodayOf, RecordingOf
<1>6. QED
    BY <1>1, <1>2, <1>3, <1>4, <1>5 DEF JobViewsNext

\* The invariant has the type and the promise of the counter in it.
LEMMA ViewPromises == ViewInv => JobViewsTypeOK /\ ViewsCounted
<1> SUFFICES ASSUME ViewInv PROVE JobViewsTypeOK /\ ViewsCounted
    OBVIOUS
<1>1. ASSUME NEW a \in Addresses
      PROVE  Cardinality(TodayOf(a)) <= (IF viewsApart THEN 1 ELSE Cardinality(Recorders))
  <2>1. /\ Cardinality(TodayOf(a)) \in Nat /\ Cardinality(RecordingOf(a)) \in Nat
        /\ Cardinality(Recorders) \in Nat
      BY ViewSets DEF ViewInv
  <2>2. LET n == Cardinality(TodayOf(a)) + Cardinality(RecordingOf(a))
        IN  n <= Cardinality(Recorders) /\ (viewsApart => n <= 1)
      BY DEF ViewInv
  <2>3. QED
      BY <2>1, <2>2
<1>2. QED
    BY <1>1 DEF ViewInv, ViewsCounted, TodayOf, Viewed

\* The counter is the number of rows, and an address has more than one row a day only if
\* calls of it overlapped (recordView).
THEOREM ViewsAddUp == JobViewsSpec => []ViewsCounted
    BY ViewInitInv, ViewNextInv, ViewPromises, PTL DEF JobViewsSpec

-----------------------------------------------------------------------------
(***************************************************************************)
(* The reports of a posting. What is told of a report, and of an answer,   *)
(* is what the report says, or a call is about to tell it; in calm one     *)
(* call at most.                                                           *)
(***************************************************************************)

ReportCallRow == [does : {"nothing", "report", "announce", "answer", "save", "unsave"},
                  by : Reporters \cup {NoReporter}, status : JobReportStatus \cup {"none"}]
ReportTyped ==
    /\ jobReport \in [Reporters -> JobReportStatus \cup {"none"}]
    /\ announced \subseteq Reporters
    /\ answer \in [Reporters -> Decisions \cup {"none"}]
    /\ saved \subseteq Reporters /\ wished \subseteq Reporters
    /\ reportCall \in [ReportCalls -> ReportCallRow]
    /\ reportsCalm \in BOOLEAN
    /\ \A q \in ReportCalls : ~Does(q, "nothing") => reportCall[q].by \in Reporters

\* A decision that was told, or is being told, is one of a report that is there.
ReportAnswers ==
    /\ \A w \in Reporters : answer[w] # "none" => jobReport[w] # "none"
    /\ \A q \in ReportCalls :
          Does(q, "answer") => reportCall[q].status \in Decisions /\ jobReport[reportCall[q].by] # "none"

Announced(w) ==
    jobReport[w] # "none" =>
        w \in announced \/ \E q \in ReportCalls : Does(q, "announce") /\ reportCall[q].by = w
Answered(w) ==
    jobReport[w] \in Decisions =>
        \/ answer[w] = jobReport[w]
        \/ \E q \in ReportCalls :
              Does(q, "answer") /\ reportCall[q].by = w /\ reportCall[q].status = jobReport[w]
AsWished(w) ==
    \/ w \in saved <=> w \in wished
    \/ \E q \in ReportCalls :
          reportCall[q].by = w /\ (IF w \in wished THEN Does(q, "save") ELSE Does(q, "unsave"))
InStep(q) ==
    /\ Does(q, "answer") => reportCall[q].status = jobReport[reportCall[q].by]
    /\ Does(q, "save") => reportCall[q].by \in wished
    /\ Does(q, "unsave") => reportCall[q].by \notin wished

\* While calls neither overlap nor fail: one is open at most, and what is yet to be
\* told or written is what it is about to tell or write.
ReportCalmOrder ==
    reportsCalm =>
        /\ \A q, r \in OpenReportCalls : q = r
        /\ \A w \in Reporters : Announced(w) /\ Answered(w) /\ AsWished(w)
        /\ \A q \in ReportCalls : InStep(q)

ReportInv == ReportTyped /\ ReportAnswers /\ ReportCalmOrder

\* Nothing is reported at first.
LEMMA ReportInitInv == JobReportsInit => ReportInv
<1> SUFFICES ASSUME JobReportsInit PROVE ReportInv
    OBVIOUS
<1>1. ReportTyped
    BY DEF JobReportsInit, ReportTyped, ReportCallRow, NoReportCall, Does
<1>2. ReportAnswers
    BY DEF JobReportsInit, ReportAnswers, NoReportCall, Does
<1>3. ReportCalmOrder
    BY DEF JobReportsInit, ReportCalmOrder, Announced, Answered, AsWished, InStep, Does,
           NoReportCall, OpenReportCalls, Decisions
<1>4. QED
    BY <1>1, <1>2, <1>3 DEF ReportInv

\* A call that is idle is well formed.
LEMMA ReportNothing == NoReportCall \in ReportCallRow /\ NoReportCall.does = "nothing"
    BY DEF NoReportCall, ReportCallRow

\* A call that arrives, goes on or ends leaves the others alone.
LEMMA ReportCallMoves ==
    ASSUME ReportTyped, NEW q \in ReportCalls, NEW what \in ReportCallRow,
           reportCall' = [reportCall EXCEPT ![q] = what],
           what.does # "nothing" => what.by \in Reporters
    PROVE  /\ reportCall' \in [ReportCalls -> ReportCallRow]
           /\ \A r \in ReportCalls : ~Does(r, "nothing")' => reportCall'[r].by \in Reporters
           /\ reportCall'[q] = what /\ \A r \in ReportCalls \ {q} : reportCall'[r] = reportCall[r]
           /\ what = NoReportCall => OpenReportCalls' = OpenReportCalls \ {q}
           /\ OpenReportCalls' \subseteq OpenReportCalls \cup {q}
    BY DEF ReportTyped, Does, OpenReportCalls

\* While no call is open, nothing is left to tell or to write.
LEMMA ReportQuiet ==
    ASSUME ReportInv, reportsCalm, OpenReportCalls = {}
    PROVE  /\ \A w \in Reporters : jobReport[w] # "none" => w \in announced
           /\ \A w \in Reporters : jobReport[w] \in Decisions => answer[w] = jobReport[w]
           /\ \A w \in Reporters : w \in saved <=> w \in wished
           /\ \A q \in ReportCalls : Does(q, "nothing")
<1>1. \A q \in ReportCalls : Does(q, "nothing")
    BY ReportNothing DEF OpenReportCalls, Does
<1>2. QED
    BY <1>1 DEF ReportInv, ReportCalmOrder, Announced, Answered, AsWished, Does

\* A call arrives: the calm lasts if no other is open.
LEMMA ReportArrives ==
    ASSUME ReportInv, NEW q \in ReportCalls, NEW does \in {"report", "answer", "save", "unsave"},
           NEW w \in Reporters, NEW to \in JobReportStatus \cup {"none"},
           ReportCallArrives(q, does, w, to)
    PROVE  /\ reportCall' \in [ReportCalls -> ReportCallRow] /\ reportsCalm' \in BOOLEAN
           /\ \A r \in ReportCalls : ~Does(r, "nothing")' => reportCall'[r].by \in Reporters
           /\ reportCall'[q] = [does |-> does, by |-> w, status |-> to]
           /\ \A r \in ReportCalls \ {q} : reportCall'[r] = reportCall[r]
           /\ reportsCalm' => /\ reportsCalm /\ OpenReportCalls = {}
                              /\ \A r, s \in OpenReportCalls' : r = s
<1> DEFINE what == [does |-> does, by |-> w, status |-> to]
<1>1. what \in ReportCallRow /\ what.by \in Reporters
    BY DEF ReportCallRow
<1>2. reportCall' = [reportCall EXCEPT ![q] = what] /\ reportsCalm' = (reportsCalm /\ OpenReportCalls = {})
    BY DEF ReportCallArrives, ReportCallGoes
<1> HIDE DEF what
<1>3. QED
  <2>1. /\ reportCall' \in [ReportCalls -> ReportCallRow]
        /\ \A r \in ReportCalls : ~Does(r, "nothing")' => reportCall'[r].by \in Reporters
        /\ reportCall'[q] = what /\ \A r \in ReportCalls \ {q} : reportCall'[r] = reportCall[r]
        /\ OpenReportCalls' \subseteq OpenReportCalls \cup {q}
      BY <1>1, <1>2, ReportCallMoves DEF ReportInv
  <2>2. reportsCalm' \in BOOLEAN
      BY <1>2 DEF ReportInv, ReportTyped
  <2>3. QED
      BY <1>2, <2>1, <2>2 DEF what

\* A call is done, or fails.
LEMMA ReportEnds ==
    ASSUME ReportInv, NEW q \in ReportCalls, reportCall[q] # NoReportCall, ReportCallEnds(q)
    PROVE  /\ reportCall' \in [ReportCalls -> ReportCallRow]
           /\ \A r \in ReportCalls : ~Does(r, "nothing")' => reportCall'[r].by \in Reporters
           /\ reportCall'[q] = NoReportCall /\ \A r \in ReportCalls \ {q} : reportCall'[r] = reportCall[r]
           /\ reportsCalm => OpenReportCalls' = {}
           /\ reportsCalm => \A r \in ReportCalls \ {q} : Does(r, "nothing")
<1>1. /\ reportCall' \in [ReportCalls -> ReportCallRow]
      /\ \A r \in ReportCalls : ~Does(r, "nothing")' => reportCall'[r].by \in Reporters
      /\ reportCall'[q] = NoReportCall /\ \A r \in ReportCalls \ {q} : reportCall'[r] = reportCall[r]
      /\ OpenReportCalls' = OpenReportCalls \ {q}
    BY ReportNothing, ReportCallMoves DEF ReportInv, ReportCallEnds
<1>2. q \in OpenReportCalls
    BY DEF OpenReportCalls
<1>3. reportsCalm => OpenReportCalls = {q}
    BY <1>2 DEF ReportInv, ReportCalmOrder
<1>4. reportsCalm => \A r \in ReportCalls \ {q} : reportCall[r] = NoReportCall
    BY <1>3 DEF OpenReportCalls
<1>5. QED
    BY <1>1, <1>3, <1>4, ReportNothing DEF Does

\* Every step of a report, an answer or a saved job keeps the invariant.
LEMMA ReportNextInv == ReportInv /\ [JobReportsNext]_reportVars => ReportInv'
<1> SUFFICES ASSUME ReportInv, [JobReportsNext]_reportVars PROVE ReportInv'
    OBVIOUS
<1>0. /\ jobReport \in [Reporters -> JobReportStatus \cup {"none"}]
      /\ answer \in [Reporters -> Decisions \cup {"none"}]
      /\ reportCall \in [ReportCalls -> ReportCallRow]
      /\ announced \subseteq Reporters /\ saved \subseteq Reporters /\ wished \subseteq Reporters
      /\ reportsCalm \in BOOLEAN
      /\ Decisions \subseteq JobReportStatus /\ "none" \notin JobReportStatus
      /\ "PENDING" \in JobReportStatus \ Decisions
    BY DEF ReportInv, ReportTyped, Decisions, JobReportStatus
<1>1. ASSUME NEW q \in ReportCalls, NEW w \in Reporters, ReportJob(q, w) PROVE ReportInv'
  <2>1. ReportCallArrives(q, "report", w, "PENDING") /\ UNCHANGED <<jobReport, announced, answer, saved, wished>>
      BY <1>1 DEF ReportJob
  <2>2. /\ reportCall' \in [ReportCalls -> ReportCallRow] /\ reportsCalm' \in BOOLEAN
        /\ \A r \in ReportCalls : ~Does(r, "nothing")' => reportCall'[r].by \in Reporters
        /\ reportCall'[q] = [does |-> "report", by |-> w, status |-> "PENDING"]
        /\ \A r \in ReportCalls \ {q} : reportCall'[r] = reportCall[r]
        /\ reportsCalm' => /\ reportsCalm /\ OpenReportCalls = {}
                           /\ \A r, s \in OpenReportCalls' : r = s
      BY <1>0, <2>1, ReportArrives
  <2>3. ReportTyped' /\ ReportAnswers'
      BY <2>1, <2>2 DEF ReportInv, ReportTyped, ReportAnswers, Does
  <2>4. ReportCalmOrder'
      BY <2>1, <2>2, ReportQuiet DEF ReportCalmOrder, Announced, Answered, AsWished, InStep, Does
  <2>5. QED
      BY <2>3, <2>4 DEF ReportInv
<1>2. ASSUME NEW q \in ReportCalls, CreateJobReport(q) PROVE ReportInv'
  <2>0. PICK w \in Reporters : w = reportCall[q].by
      BY <1>2 DEF CreateJobReport, ReportInv, ReportTyped, Does
  <2>1. /\ reportCall[q].does = "report" /\ reportCall[q] # NoReportCall
        /\ UNCHANGED <<announced, answer, saved, wished, reportsCalm>>
      BY <1>2, ReportNothing DEF CreateJobReport, Does
  <2>2. CASE jobReport[w] # "none"
    <3>1. ReportCallEnds(q) /\ jobReport' = jobReport
        BY <1>2, <2>0, <2>2 DEF CreateJobReport
    <3>2. /\ reportCall' \in [ReportCalls -> ReportCallRow]
          /\ \A r \in ReportCalls : ~Does(r, "nothing")' => reportCall'[r].by \in Reporters
          /\ reportCall'[q] = NoReportCall /\ \A r \in ReportCalls \ {q} : reportCall'[r] = reportCall[r]
          /\ reportsCalm => OpenReportCalls' = {}
          /\ reportsCalm => \A r \in ReportCalls \ {q} : Does(r, "nothing")
        BY <2>1, <3>1, ReportEnds
    <3>3. ReportTyped' /\ ReportAnswers'
        BY <2>1, <3>1, <3>2, ReportNothing DEF ReportInv, ReportTyped, ReportAnswers, Does
    <3>4. ReportCalmOrder'
        BY <2>1, <3>1, <3>2, ReportNothing
        DEF ReportInv, ReportCalmOrder, Announced, Answered, AsWished, InStep, Does
    <3>5. QED
        BY <3>3, <3>4 DEF ReportInv
  <2>3. CASE jobReport[w] = "none"
    <3> DEFINE what == [does |-> "announce", by |-> w, status |-> "PENDING"]
    <3>1. what \in ReportCallRow /\ what.by \in Reporters
        BY <1>0 DEF ReportCallRow
    <3>2. jobReport' = [jobReport EXCEPT ![w] = "PENDING"] /\ reportCall' = [reportCall EXCEPT ![q] = what]
        BY <1>2, <2>0, <2>3 DEF CreateJobReport, ReportCallGoes
    <3>3. what.does = "announce" /\ what.by = w
        OBVIOUS
    <3> HIDE DEF what
    <3>4. /\ reportCall' \in [ReportCalls -> ReportCallRow]
          /\ \A r \in ReportCalls : ~Does(r, "nothing")' => reportCall'[r].by \in Reporters
          /\ reportCall'[q] = what /\ \A r \in ReportCalls \ {q} : reportCall'[r] = reportCall[r]
          /\ OpenReportCalls' \subseteq OpenReportCalls \cup {q}
        BY <3>1, <3>2, ReportCallMoves DEF ReportInv
    <3>5. /\ jobReport' \in [Reporters -> JobReportStatus \cup {"none"}] /\ jobReport'[w] = "PENDING"
          /\ \A v \in Reporters \ {w} : jobReport'[v] = jobReport[v]
        BY <1>0, <3>2
    <3>6. ReportTyped' /\ ReportAnswers'
        BY <1>0, <2>1, <3>3, <3>4, <3>5 DEF ReportInv, ReportTyped, ReportAnswers, Does
    <3>7. q \in OpenReportCalls
        BY <2>1 DEF OpenReportCalls
    <3>8. ASSUME reportsCalm, NEW v \in Reporters PROVE Announced(v)' /\ Answered(v)' /\ AsWished(v)'
      <4>1. Announced(v) /\ Answered(v) /\ AsWished(v)
          BY <3>8 DEF ReportInv, ReportCalmOrder
      <4>2. CASE v = w
          BY <1>0, <2>1, <3>3, <3>4, <3>5, <4>1, <4>2 DEF Announced, Answered, AsWished, Does
      <4>3. CASE v # w
          BY <2>1, <3>4, <3>5, <4>1, <4>3 DEF Announced, Answered, AsWished, Does
      <4>4. QED
          BY <4>2, <4>3
    <3>9. ASSUME reportsCalm, NEW r \in ReportCalls PROVE InStep(r)'
      <4>1. CASE r = q
          BY <3>3, <3>4, <4>1 DEF InStep, Does
      <4>2. CASE r # q
        <5>1. reportCall[r] = NoReportCall
            BY <3>7, <3>9, <4>2 DEF ReportInv, ReportCalmOrder, OpenReportCalls
        <5>2. QED
            BY <3>4, <4>2, <5>1, ReportNothing DEF InStep, Does
      <4>3. QED
          BY <4>1, <4>2
    <3>10. ReportCalmOrder'
        BY <2>1, <3>4, <3>7, <3>8, <3>9 DEF ReportInv, ReportCalmOrder
    <3>11. QED
        BY <3>6, <3>10 DEF ReportInv
  <2>4. QED
      BY <2>2, <2>3
<1>3. ASSUME NEW q \in ReportCalls, AnnounceReport(q) PROVE ReportInv'
  <2>0. PICK w \in Reporters : w = reportCall[q].by
      BY <1>3 DEF AnnounceReport, ReportInv, ReportTyped, Does
  <2>1. /\ reportCall[q].does = "announce" /\ reportCall[q] # NoReportCall /\ ReportCallEnds(q)
        /\ announced' = announced \cup {w}
        /\ UNCHANGED <<jobReport, answer, saved, wished, reportsCalm>>
      BY <1>3, <2>0, ReportNothing DEF AnnounceReport, Does
  <2>2. /\ reportCall' \in [ReportCalls -> ReportCallRow]
        /\ \A r \in ReportCalls : ~Does(r, "nothing")' => reportCall'[r].by \in Reporters
        /\ reportCall'[q] = NoReportCall /\ \A r \in ReportCalls \ {q} : reportCall'[r] = reportCall[r]
        /\ reportsCalm => OpenReportCalls' = {}
        /\ reportsCalm => \A r \in ReportCalls \ {q} : Does(r, "nothing")
      BY <2>1, ReportEnds
  <2>3. ReportTyped' /\ ReportAnswers'
      BY <1>0, <2>1, <2>2, ReportNothing DEF ReportInv, ReportTyped, ReportAnswers, Does
  <2>4. ReportCalmOrder'
      BY <2>0, <2>1, <2>2, ReportNothing
      DEF ReportInv, ReportCalmOrder, Announced, Answered, AsWished, InStep, Does
  <2>5. QED
      BY <2>3, <2>4 DEF ReportInv
<1>4. ASSUME NEW q \in ReportCalls, NEW w \in Reporters, NEW to \in JobReportStatus,
             ChangeJobReportStatus(q, w, to)
      PROVE  ReportInv'
  <2>1. /\ jobReport[w] # "none" /\ jobReport' = [jobReport EXCEPT ![w] = to]
        /\ UNCHANGED <<announced, answer, saved, wished>>
      BY <1>4 DEF ChangeJobReportStatus
  <2>2. /\ jobReport' \in [Reporters -> JobReportStatus \cup {"none"}] /\ jobReport'[w] = to
        /\ \A v \in Reporters \ {w} : jobReport'[v] = jobReport[v]
      BY <1>0, <2>1
  <2>3. \A v \in Reporters : jobReport'[v] # "none" <=> jobReport[v] # "none"
      BY <1>0, <2>1, <2>2
  <2>4. CASE to \in Decisions
    <3>1. ReportCallArrives(q, "answer", w, to)
        BY <1>4, <2>4 DEF ChangeJobReportStatus, ToldOf
    <3>2. /\ reportCall' \in [ReportCalls -> ReportCallRow] /\ reportsCalm' \in BOOLEAN
          /\ \A r \in ReportCalls : ~Does(r, "nothing")' => reportCall'[r].by \in Reporters
          /\ reportCall'[q] = [does |-> "answer", by |-> w, status |-> to]
          /\ \A r \in ReportCalls \ {q} : reportCall'[r] = reportCall[r]
          /\ reportsCalm' => /\ reportsCalm /\ OpenReportCalls = {}
                             /\ \A r, s \in OpenReportCalls' : r = s
        BY <1>0, <3>1, ReportArrives
    <3>3. /\ reportCall'[q].does = "answer" /\ reportCall'[q].by = w /\ reportCall'[q].status = to
        BY <3>2
    <3>4. ReportTyped'
        BY <2>1, <2>2, <3>2 DEF ReportInv, ReportTyped
    <3>5. ReportAnswers'
      <4>1. ASSUME NEW r \in ReportCalls, Does(r, "answer")'
            PROVE  reportCall'[r].status \in Decisions /\ jobReport'[reportCall'[r].by] # "none"
        <5>1. CASE r = q
            BY <1>0, <2>2, <2>4, <3>3, <5>1
        <5>2. CASE r # q
          <6>1. reportCall'[r] = reportCall[r] /\ Does(r, "answer")
              BY <3>2, <4>1, <5>2 DEF Does
          <6>2. /\ reportCall[r].by \in Reporters /\ reportCall[r].status \in Decisions
                /\ jobReport[reportCall[r].by] # "none"
              BY <6>1 DEF ReportInv, ReportTyped, ReportAnswers, Does
          <6>3. QED
              BY <2>3, <6>1, <6>2
        <5>3. QED
            BY <5>1, <5>2
      <4>2. \A v \in Reporters : answer'[v] # "none" => jobReport'[v] # "none"
          BY <2>1, <2>3 DEF ReportInv, ReportAnswers
      <4>3. QED
          BY <4>1, <4>2 DEF ReportAnswers
    <3>6. ASSUME reportsCalm', NEW v \in Reporters PROVE Announced(v)' /\ Answered(v)' /\ AsWished(v)'
      <4>1. /\ jobReport[v] # "none" => v \in announced
            /\ jobReport[v] \in Decisions => answer[v] = jobReport[v]
            /\ v \in saved <=> v \in wished
          BY <3>2, <3>6, ReportQuiet
      <4>2. Announced(v)' /\ AsWished(v)'
          BY <2>1, <2>3, <4>1 DEF Announced, AsWished
      <4>3. Answered(v)'
          BY <2>1, <2>2, <3>3, <4>1 DEF Answered, Does
      <4>4. QED
          BY <4>2, <4>3
    <3>7. ASSUME reportsCalm', NEW r \in ReportCalls PROVE InStep(r)'
        BY <2>2, <3>2, <3>3, <3>7, ReportQuiet DEF InStep, Does
    <3>8. ReportCalmOrder'
        BY <3>2, <3>6, <3>7 DEF ReportCalmOrder
    <3>9. QED
        BY <3>4, <3>5, <3>8 DEF ReportInv
  <2>5. CASE to \notin Decisions
    <3>1. reportCall' = reportCall /\ reportsCalm' = (reportsCalm /\ OpenReportCalls = {})
        BY <1>4, <2>5 DEF ChangeJobReportStatus, ToldOf
    <3>2. ReportTyped'
        BY <2>1, <2>2, <3>1 DEF ReportInv, ReportTyped, Does
    <3>3. ReportAnswers'
      <4>1. \A r \in ReportCalls : Does(r, "answer") => reportCall[r].by \in Reporters
          BY DEF ReportInv, ReportTyped, Does
      <4>2. QED
          BY <2>1, <2>3, <3>1, <4>1 DEF ReportInv, ReportAnswers, Does
    <3>4. ASSUME reportsCalm', NEW v \in Reporters PROVE Announced(v)' /\ Answered(v)' /\ AsWished(v)'
      <4>1. /\ jobReport[v] # "none" => v \in announced
            /\ jobReport[v] \in Decisions => answer[v] = jobReport[v]
            /\ v \in saved <=> v \in wished
          BY <3>1, <3>4, ReportQuiet
      <4>2. QED
          BY <2>1, <2>2, <2>3, <2>5, <4>1 DEF Announced, Answered, AsWished
    <3>5. ReportCalmOrder'
        BY <3>1, <3>4, ReportQuiet DEF ReportCalmOrder, OpenReportCalls, InStep, Does
    <3>6. QED
        BY <3>2, <3>3, <3>5 DEF ReportInv
  <2>6. QED
      BY <2>4, <2>5
<1>5. ASSUME NEW q \in ReportCalls, AnswerReporter(q) PROVE ReportInv'
  <2>0. PICK w \in Reporters : w = reportCall[q].by
      BY <1>5 DEF AnswerReporter, ReportInv, ReportTyped, Does
  <2>1. /\ reportCall[q].does = "answer" /\ reportCall[q] # NoReportCall /\ ReportCallEnds(q)
        /\ answer' = [answer EXCEPT ![w] = reportCall[q].status]
        /\ UNCHANGED <<jobReport, announced, saved, wished, reportsCalm>>
      BY <1>5, <2>0, ReportNothing DEF AnswerReporter, Does
  <2>2. /\ reportCall' \in [ReportCalls -> ReportCallRow]
        /\ \A r \in ReportCalls : ~Does(r, "nothing")' => reportCall'[r].by \in Reporters
        /\ reportCall'[q] = NoReportCall /\ \A r \in ReportCalls \ {q} : reportCall'[r] = reportCall[r]
        /\ reportsCalm => OpenReportCalls' = {}
        /\ reportsCalm => \A r \in ReportCalls \ {q} : Does(r, "nothing")
      BY <2>1, ReportEnds
  <2>3. reportCall[q].status \in Decisions /\ jobReport[w] # "none"
      BY <2>0, <2>1 DEF ReportInv, ReportAnswers, Does
  <2>4. /\ answer' \in [Reporters -> Decisions \cup {"none"}] /\ answer'[w] = reportCall[q].status
        /\ \A v \in Reporters \ {w} : answer'[v] = answer[v]
      BY <1>0, <2>1, <2>3
  <2>5. ReportTyped' /\ ReportAnswers'
      BY <2>1, <2>2, <2>3, <2>4, ReportNothing DEF ReportInv, ReportTyped, ReportAnswers, Does
  <2>6. ASSUME reportsCalm, NEW v \in Reporters PROVE Announced(v)' /\ Answered(v)' /\ AsWished(v)'
    <3>1. Announced(v) /\ Answered(v) /\ AsWished(v)
        BY <2>6 DEF ReportInv, ReportCalmOrder
    <3>2. \A r \in ReportCalls : Does(r, "answer") => r = q
        BY <2>2, <2>6 DEF Does
    <3>3. \A r \in ReportCalls : ~Does(r, "announce") /\ ~Does(r, "save") /\ ~Does(r, "unsave")
        BY <2>1, <2>2, <2>6 DEF Does
    <3>4. Announced(v)' /\ AsWished(v)'
        BY <2>1, <3>1, <3>3 DEF Announced, AsWished
    <3>5. InStep(q)
        BY <2>6 DEF ReportInv, ReportCalmOrder
    <3>6. Answered(v)'
        BY <2>0, <2>1, <2>4, <3>1, <3>2, <3>5 DEF Answered, InStep, Does
    <3>7. QED
        BY <3>4, <3>6
  <2>7. ReportCalmOrder'
      BY <2>1, <2>2, <2>6, ReportNothing DEF ReportCalmOrder, InStep, Does
  <2>8. QED
      BY <2>5, <2>7 DEF ReportInv
<1>6. ASSUME NEW q \in ReportCalls, NEW w \in Reporters, SaveJob(q, w) \/ UnSaveJob(q, w) PROVE ReportInv'
  <2>0. PICK does \in {"save", "unsave"} :
           /\ ReportCallArrives(q, does, w, "none") /\ UNCHANGED <<jobReport, announced, answer, saved>>
           /\ wished' = IF does = "save" THEN wished \cup {w} ELSE wished \ {w}
           /\ does = "save" <=> w \notin saved
      BY <1>6 DEF SaveJob, UnSaveJob
  <2>2. /\ reportCall' \in [ReportCalls -> ReportCallRow] /\ reportsCalm' \in BOOLEAN
        /\ \A r \in ReportCalls : ~Does(r, "nothing")' => reportCall'[r].by \in Reporters
        /\ reportCall'[q] = [does |-> does, by |-> w, status |-> "none"]
        /\ \A r \in ReportCalls \ {q} : reportCall'[r] = reportCall[r]
        /\ reportsCalm' => /\ reportsCalm /\ OpenReportCalls = {}
                           /\ \A r, s \in OpenReportCalls' : r = s
      BY <2>0, ReportArrives
  <2>3. reportCall'[q].does = does /\ reportCall'[q].by = w
      BY <2>2
  <2>4. ReportTyped' /\ ReportAnswers'
      BY <1>0, <2>0, <2>2, <2>3 DEF ReportInv, ReportTyped, ReportAnswers, Does
  <2>5. ASSUME reportsCalm', NEW v \in Reporters PROVE Announced(v)' /\ Answered(v)' /\ AsWished(v)'
    <3>1. /\ jobReport[v] # "none" => v \in announced
          /\ jobReport[v] \in Decisions => answer[v] = jobReport[v]
          /\ v \in saved <=> v \in wished
        BY <2>2, <2>5, ReportQuiet
    <3>2. Announced(v)' /\ Answered(v)'
        BY <2>0, <3>1 DEF Announced, Answered
    <3>3. AsWished(v)'
        BY <2>0, <2>3, <3>1 DEF AsWished, Does
    <3>4. QED
        BY <3>2, <3>3
  <2>6. ASSUME reportsCalm', NEW r \in ReportCalls PROVE InStep(r)'
      BY <2>0, <2>2, <2>3, <2>6, ReportQuiet DEF InStep, Does
  <2>7. ReportCalmOrder'
      BY <2>2, <2>5, <2>6 DEF ReportCalmOrder
  <2>8. QED
      BY <2>4, <2>7 DEF ReportInv
<1>7. ASSUME NEW q \in ReportCalls, WriteSaved(q) PROVE ReportInv'
  <2>0. PICK w \in Reporters : w = reportCall[q].by
      BY <1>7 DEF WriteSaved, ReportInv, ReportTyped, Does
  <2>1. /\ reportCall[q].does \in {"save", "unsave"} /\ reportCall[q] # NoReportCall /\ ReportCallEnds(q)
        /\ saved' = IF reportCall[q].does = "save" THEN saved \cup {w} ELSE saved \ {w}
        /\ UNCHANGED <<jobReport, announced, answer, wished, reportsCalm>>
      BY <1>7, <2>0, ReportNothing DEF WriteSaved, Does
  <2>2. /\ reportCall' \in [ReportCalls -> ReportCallRow]
        /\ \A r \in ReportCalls : ~Does(r, "nothing")' => reportCall'[r].by \in Reporters
        /\ reportCall'[q] = NoReportCall /\ \A r \in ReportCalls \ {q} : reportCall'[r] = reportCall[r]
        /\ reportsCalm => OpenReportCalls' = {}
        /\ reportsCalm => \A r \in ReportCalls \ {q} : Does(r, "nothing")
      BY <2>1, ReportEnds
  <2>3. ReportTyped' /\ ReportAnswers'
      BY <1>0, <2>1, <2>2, ReportNothing DEF ReportInv, ReportTyped, ReportAnswers, Does
  <2>4. ASSUME reportsCalm, NEW v \in Reporters PROVE Announced(v)' /\ Answered(v)' /\ AsWished(v)'
    <3>1. Announced(v) /\ Answered(v) /\ AsWished(v)
        BY <2>4 DEF ReportInv, ReportCalmOrder
    <3>2. \A r \in ReportCalls : Does(r, "save") \/ Does(r, "unsave") => r = q
        BY <2>2, <2>4 DEF Does
    <3>3. \A r \in ReportCalls : ~Does(r, "announce") /\ ~Does(r, "answer")
        BY <2>1, <2>2, <2>4 DEF Does
    <3>4. Announced(v)' /\ Answered(v)'
        BY <2>1, <3>1, <3>3 DEF Announced, Answered
    <3>5. InStep(q)
        BY <2>4 DEF ReportInv, ReportCalmOrder
    <3>6. (v \in saved)' <=> (v \in wished)'
        BY <2>0, <2>1, <3>1, <3>2, <3>5 DEF AsWished, InStep, Does
    <3>7. QED
        BY <3>4, <3>6 DEF AsWished
  <2>5. ReportCalmOrder'
      BY <2>1, <2>2, <2>4, ReportNothing DEF ReportCalmOrder, InStep, Does
  <2>6. QED
      BY <2>3, <2>5 DEF ReportInv
<1>8. ASSUME NEW q \in ReportCalls, ReportCallFails(q) PROVE ReportInv'
  <2>1. /\ ReportCallEnds(q) /\ reportCall[q] # NoReportCall /\ reportsCalm' = FALSE
        /\ UNCHANGED <<jobReport, announced, answer, saved, wished>>
      BY <1>8 DEF ReportCallFails
  <2>2. /\ reportCall' \in [ReportCalls -> ReportCallRow]
        /\ \A r \in ReportCalls : ~Does(r, "nothing")' => reportCall'[r].by \in Reporters
        /\ reportCall'[q] = NoReportCall /\ \A r \in ReportCalls \ {q} : reportCall'[r] = reportCall[r]
      BY <2>1, ReportEnds
  <2>3. QED
      BY <2>1, <2>2, ReportNothing DEF ReportInv, ReportTyped, ReportAnswers, ReportCalmOrder, Does
<1>9. CASE UNCHANGED reportVars
    BY <1>9 DEF reportVars, ReportInv, ReportTyped, ReportAnswers, ReportCalmOrder, Announced, Answered,
                AsWished, InStep, OpenReportCalls, Does
<1>10. QED
    BY <1>1, <1>2, <1>3, <1>4, <1>5, <1>6, <1>7, <1>8, <1>9 DEF JobReportsNext

\* The invariant has the type and the promise of the reports in it.
LEMMA ReportPromises == ReportInv => JobReportsTypeOK /\ ReportsHeard
<1> SUFFICES ASSUME ReportInv PROVE JobReportsTypeOK /\ ReportsHeard
    OBVIOUS
<1>1. JobReportsTypeOK
    BY DEF ReportInv, ReportTyped, JobReportsTypeOK, ReportCallRow
<1>2. \A w \in Reporters : answer[w] # "none" => jobReport[w] # "none"
    BY DEF ReportInv, ReportAnswers
<1>3. ASSUME reportsCalm, OpenReportCalls = {}
      PROVE  /\ UNION {AllJobReports(s) : s \in JobReportStatus} \subseteq announced
             /\ \A s \in Decisions : \A w \in AllJobReports(s) : answer[w] = s
             /\ \A w \in Reporters : WishList(w) <=> w \in wished
    BY <1>3, ReportQuiet DEF AllJobReports, WishList, JobReportStatus, Decisions
<1>4. QED
    BY <1>1, <1>2, <1>3 DEF ReportsHeard

\* In calm a report is announced, and an answer told, as the report says (reportJob,
\* updateReportStatus).
THEOREM ReportsAddUp == JobReportsSpec => []ReportsHeard
    BY ReportInitInv, ReportNextInv, ReportPromises, PTL DEF JobReportsSpec

-----------------------------------------------------------------------------
(***************************************************************************)
(* The tickets. In calm a ticket has a time of resolution exactly while it *)
(* is resolved, and so has what an open call is about to write.            *)
(***************************************************************************)

TicketRow == [status : TicketStatus \cup {"none"}, resolved : BOOLEAN]
TicketCallRow == [does : {"nothing", "draw", "create", "update"}, code : Codes \cup {NoCode},
                  status : TicketStatus \cup {"none"}, resolved : BOOLEAN, tries : Nat]
Timed(c) == ticket[c].resolved <=> ticket[c].status = "RESOLVED"

TicketTyped ==
    /\ ticket \in [Codes -> TicketRow]
    /\ ticketCall \in [TicketCalls -> TicketCallRow]
    /\ ticketsCalm \in BOOLEAN
    /\ \A q \in TicketCalls : ticketCall[q].does \in {"create", "update"} => ticketCall[q].code \in Codes

\* While calls do not overlap: one is open at most, and what it will write goes with
\* the status that the ticket has got.
TicketCalmOrder ==
    ticketsCalm =>
        /\ \A q, r \in OpenTicketCalls : q = r
        /\ \A c \in Codes : Timed(c)
        /\ \A q \in TicketCalls :
              ticketCall[q].does = "update" =>
                  ticketCall[q].resolved = ResolvedAt(ticketCall[q].code, ticketCall[q].status)

TicketInv == TicketTyped /\ TicketCalmOrder

\* There is no ticket at first.
LEMMA TicketInitInv == TicketsInit => TicketInv
    BY DEF TicketsInit, TicketInv, TicketTyped, TicketCalmOrder, TicketRow, TicketCallRow, NoTicket,
           NoTicketCall, Timed, OpenTicketCalls

\* A call that moves, and nothing else does.
LEMMA TicketCallMoves ==
    ASSUME TicketTyped, NEW q \in TicketCalls, NEW what \in TicketCallRow,
           ticketCall' = [ticketCall EXCEPT ![q] = what],
           what.does \in {"create", "update"} => what.code \in Codes,
           ticketsCalm' \in BOOLEAN, ticket' \in [Codes -> TicketRow]
    PROVE  /\ TicketTyped'
           /\ ticketCall'[q] = what /\ \A r \in TicketCalls \ {q} : ticketCall'[r] = ticketCall[r]
           /\ OpenTicketCalls' = IF what = NoTicketCall THEN OpenTicketCalls \ {q}
                                 ELSE OpenTicketCalls \cup {q}
    BY DEF TicketTyped, OpenTicketCalls, NoTicketCall

\* A call that is idle is well formed.
LEMMA TicketNothing == NoTicketCall \in TicketCallRow /\ NoTicketCall.does = "nothing"
    BY DEF NoTicketCall, TicketCallRow

\* A call of the manager, or of the customer, that arrives.
LEMMA TicketCallBegins ==
    ASSUME TicketInv, NEW q \in TicketCalls, NEW what \in TicketCallRow, BeginTicketCall(q, what),
           what # NoTicketCall,
           what.does \in {"create", "update"} => what.code \in Codes,
           what.does = "update" => what.resolved = ResolvedAt(what.code, what.status)
    PROVE  TicketInv'
<1>1. /\ ticketCall[q] = NoTicketCall /\ ticketCall' = [ticketCall EXCEPT ![q] = what]
      /\ ticketsCalm' = (ticketsCalm /\ OpenTicketCalls = {}) /\ ticket' = ticket
    BY DEF BeginTicketCall
<1>2. ticketsCalm' \in BOOLEAN /\ ticket' \in [Codes -> TicketRow]
    BY <1>1 DEF TicketInv, TicketTyped
<1>3. /\ TicketTyped' /\ ticketCall'[q] = what
      /\ \A r \in TicketCalls \ {q} : ticketCall'[r] = ticketCall[r]
      /\ OpenTicketCalls' = OpenTicketCalls \cup {q}
    BY <1>1, <1>2, TicketCallMoves DEF TicketInv
<1>4. ASSUME ticketsCalm'
      PROVE  \A r \in TicketCalls : r # q => ticketCall'[r] = NoTicketCall
    BY <1>1, <1>3, <1>4 DEF OpenTicketCalls
<1>5. TicketCalmOrder'
    BY <1>1, <1>3, <1>4, TicketNothing DEF TicketInv, TicketCalmOrder, Timed, ResolvedAt
<1>6. QED
    BY <1>3, <1>5 DEF TicketInv

\* A call that ends, having written its ticket or not.
LEMMA TicketCallEnds ==
    ASSUME TicketInv, NEW q \in TicketCalls, ticketCall[q] # NoTicketCall, EndTicketCall(q),
           UNCHANGED ticketsCalm, ticket' \in [Codes -> TicketRow],
           ticketsCalm => \A c \in Codes : Timed(c)'
    PROVE  TicketInv'
<1>1. ticketCall' = [ticketCall EXCEPT ![q] = NoTicketCall]
    BY DEF EndTicketCall
<1>2. /\ TicketTyped' /\ ticketCall'[q] = NoTicketCall
      /\ \A r \in TicketCalls \ {q} : ticketCall'[r] = ticketCall[r]
      /\ OpenTicketCalls' = OpenTicketCalls \ {q}
    BY <1>1, TicketNothing, TicketCallMoves DEF TicketInv, TicketTyped
<1>3. ASSUME ticketsCalm
      PROVE  \A r \in TicketCalls : ticketCall'[r] = NoTicketCall
    BY <1>2, <1>3 DEF TicketInv, TicketCalmOrder, OpenTicketCalls
<1>4. ticketsCalm => OpenTicketCalls' = {}
    BY <1>3 DEF OpenTicketCalls
<1>5. ticketsCalm => \A r \in TicketCalls : ticketCall'[r].does # "update"
    BY <1>3, TicketNothing
<1>6. TicketCalmOrder'
    BY <1>4, <1>5 DEF TicketCalmOrder
<1>7. QED
    BY <1>2, <1>6 DEF TicketInv

\* Every step of a ticket keeps the invariant.
LEMMA TicketNextInv == TicketInv /\ [TicketsNext]_ticketVars => TicketInv'
<1> SUFFICES ASSUME TicketInv, [TicketsNext]_ticketVars PROVE TicketInv'
    OBVIOUS
<1>0. ticket \in [Codes -> TicketRow] /\ ticketCall \in [TicketCalls -> TicketCallRow]
    BY DEF TicketInv, TicketTyped
<1>1. ASSUME NEW q \in TicketCalls, CreateTicket(q) PROVE TicketInv'
  <2>1. [NoTicketCall EXCEPT !.does = "draw"] \in TicketCallRow
      BY DEF NoTicketCall, TicketCallRow
  <2>2. [NoTicketCall EXCEPT !.does = "draw"].does = "draw"
      BY DEF NoTicketCall
  <2>3. QED
      BY <1>1, <2>1, <2>2, TicketNothing, TicketCallBegins DEF CreateTicket
<1>2. ASSUME NEW q \in TicketCalls, NEW code \in Codes, GenerateTicketCode(q, code) PROVE TicketInv'
  <2>1. PICK what \in TicketCallRow :
          /\ ticketCall' = [ticketCall EXCEPT ![q] = what]
          /\ what.does # "update" /\ (what.does = "create" => what.code \in Codes)
    <3>1. /\ [ticketCall[q] EXCEPT !.does = "create", !.code = code, !.tries = 0] \in TicketCallRow
          /\ [ticketCall[q] EXCEPT !.tries = @ + 1] \in TicketCallRow
      <4>1. ticketCall[q] \in TicketCallRow
          BY <1>0
      <4>2. ticketCall[q].tries + 1 \in Nat
          BY <4>1 DEF TicketCallRow
      <4>3. [ticketCall[q] EXCEPT !.tries = @ + 1] \in TicketCallRow
          BY <4>1, <4>2 DEF TicketCallRow
      <4>4. [ticketCall[q] EXCEPT !.does = "create"] \in TicketCallRow
          BY <4>1 DEF TicketCallRow
      <4>5. [[ticketCall[q] EXCEPT !.does = "create"] EXCEPT !.code = code] \in TicketCallRow
          BY <4>4 DEF TicketCallRow
      <4>6. QED
          BY <4>3, <4>5 DEF TicketCallRow
    <3>2. ticketCall[q].does = "draw" /\ ticketCall[q] \in TicketCallRow
        BY <1>0, <1>2 DEF GenerateTicketCode
    <3>3. QED
        BY <1>2, <3>1, <3>2, TicketNothing DEF GenerateTicketCode, TicketCallRow
  <2>2. ticketCall[q] # NoTicketCall /\ UNCHANGED <<ticket, ticketsCalm>>
      BY <1>2 DEF GenerateTicketCode, NoTicketCall
  <2>3. /\ TicketTyped' /\ ticketCall'[q] = what
        /\ \A r \in TicketCalls \ {q} : ticketCall'[r] = ticketCall[r]
        /\ OpenTicketCalls' \subseteq OpenTicketCalls \cup {q}
    <3>1. ticketsCalm' \in BOOLEAN /\ ticket' \in [Codes -> TicketRow]
        BY <2>2 DEF TicketInv, TicketTyped
    <3>2. QED
        BY <2>1, <3>1, TicketCallMoves DEF TicketInv
  <2>4. q \in OpenTicketCalls
      BY <2>2 DEF OpenTicketCalls
  <2>5. TicketCalmOrder'
      BY <2>1, <2>2, <2>3, <2>4 DEF TicketInv, TicketCalmOrder, Timed, ResolvedAt
  <2>6. QED
      BY <2>3, <2>5 DEF TicketInv
<1>3. ASSUME NEW q \in TicketCalls, InsertTicket(q) PROVE TicketInv'
  <2>1. /\ ticketCall[q] # NoTicketCall /\ EndTicketCall(q) /\ UNCHANGED ticketsCalm
        /\ ticketCall[q].code \in Codes
      BY <1>3 DEF InsertTicket, NoTicketCall, TicketInv, TicketTyped
  <2>2. [status |-> "NEW", resolved |-> FALSE] \in TicketRow
      BY DEF TicketRow, TicketStatus
  <2>3. ticket' \in [Codes -> TicketRow]
      BY <1>0, <1>3, <2>2 DEF InsertTicket
  <2>4. \A c \in Codes : ticket'[c] = ticket[c] \/ ticket'[c] = [status |-> "NEW", resolved |-> FALSE]
      BY <1>0, <1>3 DEF InsertTicket
  <2>5. ticketsCalm => \A c \in Codes : Timed(c)'
      BY <2>4 DEF TicketInv, TicketCalmOrder, Timed
  <2>6. QED
      BY <2>1, <2>3, <2>5, TicketCallEnds
<1>4. ASSUME NEW q \in TicketCalls, NEW c \in Codes, NEW to \in TicketStatus \cup {"none"},
             UpdateTicket(q, c, to)
      PROVE  TicketInv'
  <2> DEFINE what == [does |-> "update", code |-> c, status |-> to, resolved |-> ResolvedAt(c, to),
                      tries |-> 0]
  <2>1. what \in TicketCallRow
      BY DEF TicketCallRow, ResolvedAt
  <2>2. what # NoTicketCall
      BY DEF NoTicketCall
  <2>3. BeginTicketCall(q, what)
      BY <1>4 DEF UpdateTicket
  <2>4. QED
      BY <2>1, <2>2, <2>3, TicketCallBegins
<1>5. ASSUME NEW q \in TicketCalls, WriteTicket(q) PROVE TicketInv'
  <2>1. /\ ticketCall[q] # NoTicketCall /\ EndTicketCall(q) /\ UNCHANGED ticketsCalm
        /\ ticketCall[q].code \in Codes /\ ticketCall[q].does = "update"
        /\ ticketCall[q] \in TicketCallRow
      BY <1>0, <1>5 DEF WriteTicket, NoTicketCall, TicketInv, TicketTyped
  <2> DEFINE c == ticketCall[q].code
             to == IF ticketCall[q].status = "none" THEN ticket[c].status ELSE ticketCall[q].status
             row == [status |-> to, resolved |-> ticketCall[q].resolved]
  <2>2. ticket' = [ticket EXCEPT ![c] = row]
      BY <1>5 DEF WriteTicket
  <2>3. row \in TicketRow
      BY <1>0, <2>1 DEF TicketRow, TicketCallRow
  <2>4. ticket' \in [Codes -> TicketRow]
      BY <1>0, <2>2, <2>3
  <2>5. ticketsCalm => (row.resolved <=> row.status = "RESOLVED")
      BY <2>1 DEF TicketInv, TicketCalmOrder, ResolvedAt
  <2>6. ticketsCalm => \A d \in Codes : Timed(d)'
      BY <1>0, <2>1, <2>2, <2>5 DEF TicketInv, TicketCalmOrder, Timed
  <2>7. QED
      BY <2>1, <2>4, <2>6, TicketCallEnds
<1>6. CASE UNCHANGED ticketVars
    BY <1>6 DEF ticketVars, TicketInv, TicketTyped, TicketCalmOrder, OpenTicketCalls, Timed, ResolvedAt
<1>7. QED
    BY <1>1, <1>2, <1>3, <1>4, <1>5, <1>6 DEF TicketsNext

\* The invariant has the type and the promise of the tickets in it.
LEMMA TicketPromises == TicketInv => TicketsTypeOK /\ ResolvedHasTime
<1> SUFFICES ASSUME TicketInv PROVE TicketsTypeOK /\ ResolvedHasTime
    OBVIOUS
<1>1. TicketsTypeOK
    BY DEF TicketInv, TicketTyped, TicketsTypeOK, TicketRow, TicketCallRow
<1>2. ASSUME ticketsCalm
      PROVE  \A c \in Tickets : ticket[c].resolved <=> ticket[c].status = "RESOLVED"
    BY <1>2 DEF TicketInv, TicketCalmOrder, Timed, Tickets
<1>3. ASSUME ticketsCalm
      PROVE  {c \in Tickets : ticket[c].status = "RESOLVED"} = {c \in Tickets : ticket[c].resolved}
    BY <1>2, <1>3
<1>4. ResolvedHasTime
    BY <1>2, <1>3 DEF ResolvedHasTime, Summary, TicketStatus
<1>5. QED
    BY <1>1, <1>4

\* In calm a ticket has a time of resolution exactly while it is resolved (updateTicket).
THEOREM TicketsAddUp == TicketsSpec => []ResolvedHasTime
    BY TicketInitInv, TicketNextInv, TicketPromises, PTL DEF TicketsSpec

-----------------------------------------------------------------------------
(***************************************************************************)
(* The reviews. A report is of a review that is there, and an author has   *)
(* one.                                                                    *)
(***************************************************************************)

ReviewRow == [author : Reviewers \cup {NoReviewer}, status : ReviewStatus]
ReviewCallRow == [does : {"nothing", "create", "delete", "report", "hide", "update"},
                  review : ReviewIds \cup {0}, by : Reviewers \cup {NoReviewer}]
ReviewTyped ==
    /\ reviews \in [ReviewIds -> ReviewRow]
    /\ reviewReports \in [ReviewIds -> [Reviewers -> ReportStatus \cup {"none"}]]
    /\ made \in 0 .. MaxReviews
    /\ reviewCall \in [ReviewCalls -> ReviewCallRow]
    /\ \A q \in ReviewCalls :
          /\ About(q, "create") \/ About(q, "report") => reviewCall[q].by \in Reviewers
          /\ About(q, "delete") \/ About(q, "report") \/ About(q, "hide") \/ About(q, "update")
                => reviewCall[q].review \in ReviewIds

\* Ids are given out in order, a review that is there has an author, who has no
\* other, and a review that was reported is there.
ReviewRows ==
    /\ \A i \in ReviewIds : Present(i) => i <= made /\ reviews[i].author \in Reviewers
    /\ \A i, j \in ReviewIds :
          reviews[i].author = reviews[j].author /\ reviews[i].author \in Reviewers => i = j
    /\ \A i \in ReviewIds : Reported(i) => Present(i)

ReviewInv == ReviewTyped /\ ReviewRows

\* There is no review at first.
LEMMA ReviewInitInv == ReviewsInit => ReviewInv
<1> SUFFICES ASSUME ReviewsInit PROVE ReviewInv
    OBVIOUS
<1>1. ReviewTyped
    BY ReviewsAssumption
    DEF ReviewsInit, ReviewTyped, ReviewRow, ReviewCallRow, NoReview, NoReviewCall, ReviewStatus, About
<1>2. ReviewRows
    BY ReviewsAssumption DEF ReviewsInit, ReviewRows, Present, Reported, NoReview
<1>3. QED
    BY <1>1, <1>2 DEF ReviewInv

\* A review or a call that is none is well formed.
LEMMA ReviewNothing ==
    NoReviewCall \in ReviewCallRow /\ NoReviewCall.does = "nothing"
    BY DEF NoReviewCall, ReviewCallRow

\* A call that arrives or ends leaves the others alone.
LEMMA ReviewCallMoves ==
    ASSUME ReviewTyped, NEW q \in ReviewCalls, NEW what \in ReviewCallRow,
           reviewCall' = [reviewCall EXCEPT ![q] = what],
           what.does \in {"create", "report"} => what.by \in Reviewers,
           what.does \in {"delete", "report", "hide", "update"} => what.review \in ReviewIds,
           reviews' \in [ReviewIds -> ReviewRow],
           reviewReports' \in [ReviewIds -> [Reviewers -> ReportStatus \cup {"none"}]],
           made' \in 0 .. MaxReviews
    PROVE  ReviewTyped'
    BY DEF ReviewTyped, About

\* A call that has found its review is well formed.
LEMMA ReviewCallPrepared ==
    ASSUME ReviewInv, NEW q \in ReviewCalls,
           NEW does \in {"create", "delete", "report", "hide", "update"},
           NEW i \in ReviewIds \cup {0}, NEW w \in Reviewers \cup {NoReviewer}, Prepare(q, does, i, w),
           does \in {"create", "report"} => w \in Reviewers,
           does \in {"delete", "report", "hide", "update"} => i \in ReviewIds
    PROVE  ReviewInv'
<1> DEFINE what == [does |-> does, review |-> i, by |-> w]
<1>1. what \in ReviewCallRow
    BY DEF ReviewCallRow
<1>2. reviewCall' = [reviewCall EXCEPT ![q] = what] /\ UNCHANGED <<reviews, reviewReports, made>>
    BY DEF Prepare
<1>3. ReviewTyped'
    BY <1>1, <1>2, ReviewCallMoves DEF ReviewInv, ReviewTyped
<1>4. ReviewRows'
    BY <1>2 DEF ReviewInv, ReviewRows, Present, Reported
<1>5. QED
    BY <1>3, <1>4 DEF ReviewInv

\* A call is done, or fails.
LEMMA ReviewCallDone ==
    ASSUME ReviewInv, NEW q \in ReviewCalls, Done(q),
           reviews' \in [ReviewIds -> ReviewRow],
           reviewReports' \in [ReviewIds -> [Reviewers -> ReportStatus \cup {"none"}]],
           made' \in 0 .. MaxReviews
    PROVE  ReviewTyped'
    BY ReviewNothing, ReviewCallMoves DEF ReviewInv, Done

\* A call that ends with nothing written.
LEMMA ReviewUntouched ==
    ASSUME ReviewInv, NEW q \in ReviewCalls, Done(q), UNCHANGED <<reviews, reviewReports, made>>
    PROVE  ReviewInv'
<1>1. ReviewTyped'
    BY ReviewCallDone DEF ReviewInv, ReviewTyped
<1>2. QED
    BY <1>1 DEF ReviewInv, ReviewRows, Present, Reported

\* A review that is there may get any status and any reports.
LEMMA ReviewRewritten ==
    ASSUME ReviewInv, NEW q \in ReviewCalls, Done(q), NEW i \in ReviewIds, Present(i), made' = made,
           NEW to \in ReviewStatus, reviews' = [reviews EXCEPT ![i].status = to],
           reviewReports' \in [ReviewIds -> [Reviewers -> ReportStatus \cup {"none"}]],
           \A j \in ReviewIds \ {i} : reviewReports'[j] = reviewReports[j]
    PROVE  ReviewInv'
<1>0. reviews \in [ReviewIds -> ReviewRow] /\ made \in 0 .. MaxReviews
    BY DEF ReviewInv, ReviewTyped
<1>1. reviews' \in [ReviewIds -> ReviewRow]
    BY <1>0 DEF ReviewRow
<1>2. /\ \A j \in ReviewIds : reviews'[j].author = reviews[j].author
      /\ \A j \in ReviewIds \ {i} : reviews'[j] = reviews[j]
    BY <1>0 DEF ReviewRow
<1>3. ReviewTyped'
    BY <1>0, <1>1, ReviewCallDone
<1>4. Present(i)'
  <2>1. reviews'[i].author # NoReviewer
      BY <1>2, ReviewsAssumption DEF ReviewInv, ReviewRows
  <2>2. QED
      BY <2>1 DEF Present, NoReview
<1>5. \A j \in ReviewIds : Present(j)' <=> Present(j)
    BY <1>2, <1>4 DEF Present
<1>6. \A j \in ReviewIds : Reported(j)' => Reported(j) \/ j = i
    BY DEF Reported
<1>7. ReviewRows'
    BY <1>2, <1>5, <1>6 DEF ReviewInv, ReviewRows
<1>8. QED
    BY <1>3, <1>7 DEF ReviewInv

\* Every step of a review or its report keeps the invariant.
LEMMA ReviewNextInv == ReviewInv /\ [ReviewsNext]_reviewVars => ReviewInv'
<1> SUFFICES ASSUME ReviewInv, [ReviewsNext]_reviewVars PROVE ReviewInv'
    OBVIOUS
<1>0. /\ reviews \in [ReviewIds -> ReviewRow] /\ reviewCall \in [ReviewCalls -> ReviewCallRow]
      /\ reviewReports \in [ReviewIds -> [Reviewers -> ReportStatus \cup {"none"}]]
      /\ made \in 0 .. MaxReviews /\ MaxReviews \in Nat
    BY ReviewsAssumption DEF ReviewInv, ReviewTyped
<1>1. ASSUME NEW q \in ReviewCalls, NEW w \in Reviewers, CreateReview(q, w) PROVE ReviewInv'
    BY <1>1, ReviewCallPrepared DEF CreateReview
<1>2. ASSUME NEW q \in ReviewCalls, NEW i \in ReviewIds, DeleteReview(q, i) PROVE ReviewInv'
  <2>1. reviews[i].author \in Reviewers \cup {NoReviewer}
      BY <1>0 DEF ReviewRow
  <2>2. QED
      BY <1>2, <2>1, ReviewCallPrepared DEF DeleteReview
<1>3. ASSUME NEW q \in ReviewCalls, NEW i \in ReviewIds, HideReviewByManager(q, i) PROVE ReviewInv'
    BY <1>3, ReviewCallPrepared DEF HideReviewByManager
<1>4. ASSUME NEW q \in ReviewCalls, NEW i \in ReviewIds, NEW w \in Reviewers, ReportReview(q, i, w)
      PROVE  ReviewInv'
    BY <1>4, ReviewCallPrepared DEF ReportReview
<1>5. ASSUME NEW q \in ReviewCalls, NEW to \in {"ACTIVE", "DELETED"}, InsertReview(q, to)
      PROVE  ReviewInv'
  <2>1. Done(q) /\ reviewReports' = reviewReports /\ reviewCall[q].by \in Reviewers /\ made < MaxReviews
      BY <1>5 DEF InsertReview, ReviewInv, ReviewTyped
  <2>2. CASE UNCHANGED <<reviews, made>>
    <3>1. ReviewTyped'
        BY <1>0, <2>1, <2>2, ReviewCallDone
    <3>2. ReviewRows'
        BY <2>1, <2>2 DEF ReviewInv, ReviewRows, Present, Reported
    <3>3. QED
        BY <3>1, <3>2 DEF ReviewInv
  <2>3. CASE ReviewsBy(reviewCall[q].by) = {}
    <3> DEFINE w == reviewCall[q].by
               row == [author |-> w, status |-> to]
    <3>1. row \in ReviewRow /\ row # NoReview /\ row.author = w
        BY <2>1, ReviewsAssumption DEF ReviewRow, ReviewStatus, NoReview
    <3>2. reviews' = [reviews EXCEPT ![made + 1] = row] /\ made' = made + 1 /\ made + 1 \in ReviewIds
        BY <1>0, <1>5, <2>1, <2>3 DEF InsertReview, ReviewIds
    <3>3. \A i \in ReviewIds : reviews[i].author # w
        BY <2>3 DEF ReviewsBy
    <3> HIDE DEF row, w
    <3>4. /\ reviews' \in [ReviewIds -> ReviewRow] /\ made' \in 0 .. MaxReviews
          /\ reviews'[made + 1] = row
          /\ \A i \in ReviewIds \ {made + 1} : reviews'[i] = reviews[i]
        BY <1>0, <2>1, <3>1, <3>2
    <3>5. ReviewTyped'
        BY <1>0, <2>1, <3>4, ReviewCallDone
    <3>6. w \in Reviewers
        BY <2>1 DEF w
    <3>7. \A i \in ReviewIds : Present(i)' <=> Present(i) \/ i = made + 1
        BY <3>1, <3>2, <3>4 DEF Present
    <3>8. ReviewRows'
      <4>1. ASSUME NEW i \in ReviewIds, Present(i)'
            PROVE  i <= made' /\ reviews'[i].author \in Reviewers
          BY <1>0, <3>1, <3>2, <3>4, <3>6, <3>7, <4>1 DEF ReviewInv, ReviewRows, ReviewIds
      <4>2. ASSUME NEW i \in ReviewIds, NEW j \in ReviewIds,
                   reviews'[i].author = reviews'[j].author, reviews'[i].author \in Reviewers
            PROVE  i = j
          BY <3>1, <3>2, <3>3, <3>4, <4>2 DEF ReviewInv, ReviewRows
      <4>3. ASSUME NEW i \in ReviewIds, Reported(i)' PROVE Present(i)'
        <5>1. Reported(i)
            BY <2>1, <4>3 DEF Reported
        <5>2. QED
            BY <3>7, <5>1 DEF ReviewInv, ReviewRows
      <4>4. QED
          BY <4>1, <4>2, <4>3 DEF ReviewRows
    <3>9. QED
        BY <3>5, <3>8 DEF ReviewInv
  <2>4. QED
      BY <1>5, <2>2, <2>3 DEF InsertReview
<1>6. ASSUME NEW q \in ReviewCalls, RemoveReview(q) PROVE ReviewInv'
  <2> DEFINE i == reviewCall[q].review
  <2>1. /\ Done(q) /\ UNCHANGED <<reviewReports, made>> /\ i \in ReviewIds
        /\ reviews' = IF Reported(i) THEN reviews ELSE [reviews EXCEPT ![i] = NoReview]
      BY <1>6 DEF RemoveReview, Deletable, ReviewInv, ReviewTyped
  <2> HIDE DEF i
  <2>2. NoReview \in ReviewRow /\ NoReview.author \notin Reviewers
      BY ReviewsAssumption DEF NoReview, ReviewRow, ReviewStatus
  <2>3. reviews' \in [ReviewIds -> ReviewRow]
      BY <1>0, <2>1, <2>2
  <2>4. /\ \A j \in ReviewIds : reviews'[j] = reviews[j] \/ (j = i /\ reviews'[j] = NoReview)
        /\ Reported(i) => reviews' = reviews
      BY <1>0, <2>1
  <2>5. ReviewTyped'
      BY <1>0, <2>1, <2>3, ReviewCallDone
  <2>6. ReviewRows'
      BY <2>1, <2>2, <2>4 DEF ReviewInv, ReviewRows, Present, Reported
  <2>7. QED
      BY <2>5, <2>6 DEF ReviewInv
<1>7. ASSUME NEW q \in ReviewCalls, InsertReport(q) PROVE ReviewInv'
  <2> DEFINE i == reviewCall[q].review
             w == reviewCall[q].by
  <2>1. /\ Done(q) /\ UNCHANGED <<reviews, made>> /\ i \in ReviewIds /\ w \in Reviewers
        /\ reviewReports' = IF Present(i) /\ reviewReports[i][w] = "none"
                            THEN [reviewReports EXCEPT ![i][w] = "PENDING"] ELSE reviewReports
      BY <1>7 DEF InsertReport, ReviewInv, ReviewTyped
  <2> HIDE DEF i, w
  <2>2. reviewReports' \in [ReviewIds -> [Reviewers -> ReportStatus \cup {"none"}]]
      BY <1>0, <2>1 DEF ReportStatus
  <2>3. \A j \in ReviewIds : reviewReports'[j] = reviewReports[j] \/ (j = i /\ Present(i))
      BY <1>0, <2>1
  <2>4. ReviewTyped'
      BY <1>0, <2>1, <2>2, ReviewCallDone
  <2>5. \A j \in ReviewIds : Reported(j)' => Reported(j) \/ Present(j)
      BY <2>3 DEF Reported
  <2>6. ReviewRows'
      BY <2>1, <2>5 DEF ReviewInv, ReviewRows, Present
  <2>7. QED
      BY <2>4, <2>6 DEF ReviewInv
<1>8. ASSUME NEW q \in ReviewCalls, HideReview(q) PROVE ReviewInv'
  <2>0. PICK i : i = reviewCall[q].review
      OBVIOUS
  <2>1. /\ Done(q) /\ UNCHANGED <<reviewReports, made>> /\ i \in ReviewIds
        /\ reviews' = IF Present(i) THEN [reviews EXCEPT ![i].status = "DELETED"] ELSE reviews
      BY <1>8, <2>0 DEF HideReview, ReviewInv, ReviewTyped
  <2>2. CASE Present(i)
      BY <1>0, <2>1, <2>2, ReviewRewritten DEF ReviewStatus
  <2>3. CASE ~Present(i)
      BY <2>1, <2>3, ReviewUntouched
  <2>4. QED
      BY <2>2, <2>3
<1>9. ASSUME NEW i \in ReviewIds, NEW w \in Reviewers, NEW to \in ReportStatus,
             UpdateReviewReportStatus(i, w, to)
      PROVE  ReviewInv'
  <2>1. /\ reviewReports' = [reviewReports EXCEPT ![i][w] = to] /\ reviewReports[i][w] # "none"
        /\ UNCHANGED <<reviews, made, reviewCall>>
      BY <1>9 DEF UpdateReviewReportStatus
  <2>2. reviewReports' \in [ReviewIds -> [Reviewers -> ReportStatus \cup {"none"}]]
      BY <1>0, <2>1
  <2>3. \A j \in ReviewIds : reviewReports'[j] = reviewReports[j] \/ (j = i /\ Reported(i))
      BY <1>0, <2>1 DEF Reported
  <2>4. \A j \in ReviewIds : Reported(j)' => Reported(j)
      BY <2>3 DEF Reported
  <2>5. ReviewTyped' /\ ReviewRows'
      BY <2>1, <2>2, <2>4 DEF ReviewInv, ReviewTyped, ReviewRows, Present, About
  <2>6. QED
      BY <2>5 DEF ReviewInv
<1>10. ASSUME NEW q \in ReviewCalls, NEW i \in ReviewIds, UpdateReview(q, i) PROVE ReviewInv'
  <2>1. reviews[i].author \in Reviewers \cup {NoReviewer}
      BY <1>0 DEF ReviewRow
  <2>2. QED
      BY <1>10, <2>1, ReviewCallPrepared DEF UpdateReview
<1>11. ASSUME NEW q \in ReviewCalls, NEW to \in {"ACTIVE", "DELETED"}, WriteReview(q, to)
       PROVE  ReviewInv'
  <2>0. PICK i : i = reviewCall[q].review
      OBVIOUS
  <2>1. /\ Done(q) /\ UNCHANGED made /\ i \in ReviewIds
        /\ IF Present(i)
           THEN /\ reviews' = [reviews EXCEPT ![i].status = to]
                /\ \E reports \in NestedReports \cup {reviewReports[i]} :
                      reviewReports' = [reviewReports EXCEPT ![i] = reports]
           ELSE UNCHANGED <<reviews, reviewReports>>
      BY <1>11, <2>0 DEF WriteReview, ReviewInv, ReviewTyped
  <2>2. CASE Present(i)
    <3>1. PICK reports \in NestedReports \cup {reviewReports[i]} :
              reviewReports' = [reviewReports EXCEPT ![i] = reports]
        BY <2>1, <2>2
    <3>2. reports \in [Reviewers -> ReportStatus \cup {"none"}]
        BY <1>0, <2>1, ReviewsAssumption
    <3>3. /\ reviewReports' \in [ReviewIds -> [Reviewers -> ReportStatus \cup {"none"}]]
          /\ \A j \in ReviewIds \ {i} : reviewReports'[j] = reviewReports[j]
        BY <1>0, <3>1, <3>2
    <3>4. QED
        BY <2>1, <2>2, <3>3, ReviewRewritten DEF ReviewStatus
  <2>3. CASE ~Present(i)
      BY <2>1, <2>3, ReviewUntouched
  <2>4. QED
      BY <2>2, <2>3
<1>12. CASE UNCHANGED reviewVars
    BY <1>12 DEF reviewVars, ReviewInv, ReviewTyped, ReviewRows, Present, Reported, About
<1>13. QED
    BY <1>1, <1>2, <1>3, <1>4, <1>5, <1>6, <1>7, <1>8, <1>9, <1>10, <1>11, <1>12 DEF ReviewsNext

\* The invariant has the type and the promise of the reviews in it.
LEMMA ReviewPromises == ReviewInv => ReviewsTypeOK /\ ReportsHaveReviews
<1> SUFFICES ASSUME ReviewInv PROVE ReviewsTypeOK /\ ReportsHaveReviews
    OBVIOUS
<1>1. ReviewsTypeOK
    BY DEF ReviewInv, ReviewTyped, ReviewsTypeOK, ReviewRow, ReviewCallRow
<1>2. ASSUME NEW to \in ReportStatus, NEW report \in ListedReports(to)
      PROVE  Present(report[1])
  <2>1. PICK i \in ReviewIds, w \in Reviewers : report = <<i, w>> /\ reviewReports[i][w] = to
      BY <1>2 DEF ListedReports
  <2>2. Reported(i)
      BY <2>1 DEF Reported, ReportStatus
  <2>3. QED
      BY <2>1, <2>2 DEF ReviewInv, ReviewRows
<1>3. ASSUME NEW w \in Reviewers PROVE Cardinality(ReviewsBy(w)) <= 1
  <2>1. ASSUME NEW i \in ReviewsBy(w) PROVE ReviewsBy(w) = {i}
      BY <2>1, <1>3 DEF ReviewInv, ReviewRows, ReviewsBy
  <2>2. QED
      BY <2>1, FS_EmptySet, FS_Singleton
<1>4. QED
    BY <1>1, <1>2, <1>3 DEF ReportsHaveReviews

\* The reports and the lists of them are of reviews that are there, by others than their
\* authors (reportReview, getReports).
THEOREM ReviewsAddUp == ReviewsSpec => []ReportsHaveReviews
    BY ReviewInitInv, ReviewNextInv, ReviewPromises, PTL DEF ReviewsSpec

-----------------------------------------------------------------------------
(***************************************************************************)
(* The pages of a conversation. They leave out nothing but messages of a   *)
(* fetched one's moment, because a page is the upper end of what is older  *)
(* than its cursor.                                                        *)
(***************************************************************************)

Message == [from : Chatters, at : Moments, status : {"SENT", "READ"}]

\* A client that counts as current is in the room.  What its pages leave out is an
\* invariant as it stands.
ChatInv ==
    /\ ChatTypeOK
    /\ current => joined
    /\ NothingMissed

\* Nothing is sent or fetched at first.
LEMMA ChatInitInv == ChatInit => ChatInv
<1> SUFFICES ASSUME ChatInit PROVE ChatInv
    OBVIOUS
<1>1. messages \in Seq(Message)
    BY DEF ChatInit
<1>2. Len(messages) = 0 /\ MessageIds = {}
    BY DEF ChatInit, MessageIds
<1>3. began \in 0 .. Len(messages)
    BY <1>2 DEF ChatInit
<1>4. QED
    BY <1>1, <1>2, <1>3 DEF ChatInit, ChatInv, ChatTypeOK, NothingMissed, Message

\* The types, as the provers need them.
LEMMA ChatTypes ==
    ASSUME ChatTypeOK
    PROVE  /\ messages \in Seq(Message) /\ Len(messages) \in Nat
           /\ MessageIds = 1 .. Len(messages)
           /\ broadcasts \subseteq MessageIds /\ began \in 0 .. Len(messages)
           /\ scrolled \subseteq MessageIds /\ received \subseteq MessageIds
           /\ joined \in BOOLEAN /\ current \in BOOLEAN
           /\ \A i \in MessageIds : messages[i] \in Message /\ At(i) \in Nat
<1>1. messages \in Seq(Message) /\ Len(messages) \in Nat /\ MessageIds = 1 .. Len(messages)
    BY LenProperties DEF ChatTypeOK, Message, MessageIds
<1>2. \A i \in MessageIds : messages[i] \in Message
    BY <1>1, ElementOfSeq
<1>3. \A i \in MessageIds : At(i) \in Nat
    BY <1>2, ChatAssumption DEF Message, At
<1>4. QED
    BY <1>1, <1>2, <1>3 DEF ChatTypeOK

\* A step that neither fetches nor changes what is stored of a message but its status
\* leaves what the pages have passed, and the messages of a fetched one's moment.
LEMMA PagesStand ==
    ASSUME scrolled' = scrolled, scrolled \subseteq MessageIds, NEW m \in MessageIds,
           MessageIds \subseteq MessageIds', \A i \in MessageIds : At(i)' = At(i)
    PROVE  (Passed(m)' => Passed(m)) /\ (Tied(m) => Tied(m)')
    BY DEF Passed, Tied, Older, SameMoment, At

\* Every step of the conversation and its client keeps the invariant.
LEMMA ChatNextInv == ChatInv /\ [ChatNext]_chatVars => ChatInv'
<1> SUFFICES ASSUME ChatInv, [ChatNext]_chatVars PROVE ChatInv'
    OBVIOUS
<1>0. /\ messages \in Seq(Message) /\ Len(messages) \in Nat /\ MessageIds = 1 .. Len(messages)
      /\ broadcasts \subseteq MessageIds /\ began \in 0 .. Len(messages)
      /\ scrolled \subseteq MessageIds /\ received \subseteq MessageIds
      /\ joined \in BOOLEAN /\ current \in BOOLEAN
      /\ \A i \in MessageIds : messages[i] \in Message /\ At(i) \in Nat
    BY ChatTypes DEF ChatInv
<1>1. ASSUME NEW u \in Chatters, NEW at \in Moments, SendMessage(u, at) PROVE ChatInv'
  <2> DEFINE n == Len(messages)
             row == [from |-> u, at |-> at, status |-> "SENT"]
  <2>1. /\ messages' = Append(messages, row) /\ broadcasts' = broadcasts \cup {n + 1}
        /\ joined' = joined /\ began' = began /\ scrolled' = scrolled
        /\ received' = received /\ current' = current
      BY <1>1 DEF SendMessage
  <2>2. row \in Message
      BY DEF Message
  <2> HIDE DEF row
  <2>3. /\ messages' \in Seq(Message) /\ Len(messages') = n + 1
        /\ \A i \in 1 .. n : messages'[i] = messages[i]
      BY <1>0, <2>1, <2>2, AppendProperties
  <2>4. MessageIds' = 1 .. (n + 1) /\ MessageIds \subseteq MessageIds'
      BY <1>0, <2>3 DEF MessageIds
  <2>5. \A i \in MessageIds : At(i)' = At(i)
      BY <1>0, <2>3 DEF At
  <2>a. n + 1 \in MessageIds' /\ began' \in 0 .. Len(messages')
      BY <1>0, <2>1, <2>3, <2>4
  <2>6. ChatTypeOK'
      BY <1>0, <2>1, <2>3, <2>4, <2>a DEF ChatTypeOK, Message
  <2>7. ASSUME NEW m \in MessageIds', m <= began, Passed(m)' PROVE m \in scrolled' \/ Tied(m)'
    <3>1. m \in MessageIds
        BY <1>0, <2>4, <2>7
    <3>2. QED
        BY <1>0, <2>1, <2>4, <2>5, <2>7, <3>1, PagesStand DEF ChatInv, NothingMissed
  <2>8. ASSUME NEW m \in MessageIds', m > began, current
        PROVE  m \in received' \cup broadcasts'
    <3>1. CASE m = n + 1
        BY <2>1, <3>1
    <3>2. CASE m # n + 1
      <4>1. m \in MessageIds
          BY <1>0, <2>4, <3>2
      <4>2. QED
          BY <2>1, <2>8, <4>1 DEF ChatInv, NothingMissed
    <3>3. QED
        BY <3>1, <3>2
  <2>9. NothingMissed'
      BY <2>1, <2>7, <2>8 DEF NothingMissed
  <2>10. QED
      BY <2>1, <2>6, <2>9 DEF ChatInv
<1>2. ASSUME NEW i \in MessageIds, BroadcastMessage(i) PROVE ChatInv'
  <2>1. /\ messages' = messages /\ joined' = joined /\ began' = began /\ current' = current
        /\ scrolled' = scrolled /\ i \in broadcasts /\ broadcasts' = broadcasts \ {i}
        /\ received' = IF joined THEN received \cup {i} ELSE received
      BY <1>2 DEF BroadcastMessage
  <2>2. MessageIds' = MessageIds /\ \A k \in MessageIds : At(k)' = At(k)
      BY <2>1 DEF MessageIds, At
  <2>3. ChatTypeOK'
      BY <1>0, <2>1, <2>2 DEF ChatTypeOK, Message
  <2>4. ASSUME NEW m \in MessageIds, m <= began, Passed(m)' PROVE m \in scrolled' \/ Tied(m)'
      BY <1>0, <2>1, <2>2, <2>4, PagesStand DEF ChatInv, NothingMissed
  <2>5. ASSUME NEW m \in MessageIds, m > began, current PROVE m \in received' \cup broadcasts'
      BY <2>1, <2>5 DEF ChatInv, NothingMissed
  <2>6. NothingMissed'
      BY <2>1, <2>2, <2>4, <2>5 DEF NothingMissed
  <2>7. QED
      BY <2>1, <2>3, <2>6 DEF ChatInv
<1>3. CASE HandleJoin \/ HandleLeave
  <2>1. /\ messages' = messages /\ broadcasts' = broadcasts /\ began' = began
        /\ scrolled' = scrolled /\ received' = received
        /\ joined' \in BOOLEAN /\ current' \in BOOLEAN /\ (current' => current /\ joined')
    <3>1. CASE HandleJoin
        BY <1>0, <3>1, Zenon DEF HandleJoin
    <3>2. CASE HandleLeave
        BY <1>0, <3>2, Zenon DEF HandleLeave
    <3>3. QED
        BY <1>3, <3>1, <3>2
  <2>2. MessageIds' = MessageIds /\ \A k \in MessageIds : At(k)' = At(k)
      BY <2>1 DEF MessageIds, At
  <2>3. ChatTypeOK'
      BY <1>0, <2>1, <2>2 DEF ChatTypeOK, Message
  <2>4. ASSUME NEW m \in MessageIds, m <= began, Passed(m)' PROVE m \in scrolled' \/ Tied(m)'
      BY <1>0, <2>1, <2>2, <2>4, PagesStand DEF ChatInv, NothingMissed
  <2>5. ASSUME NEW m \in MessageIds, m > began, current' PROVE m \in received' \cup broadcasts'
      BY <2>1, <2>5 DEF ChatInv, NothingMissed
  <2>6. NothingMissed'
      BY <2>1, <2>2, <2>4, <2>5 DEF NothingMissed
  <2>7. QED
      BY <2>1, <2>3, <2>6 DEF ChatInv
<1>4. CASE GetNewest
  <2>1. PICK page \in Pages(MessageIds) :
          /\ messages' = messages /\ broadcasts' = broadcasts /\ joined' = joined
          /\ began' = Len(messages) /\ scrolled' = page /\ received' = page /\ current' = joined
      BY <1>4 DEF GetNewest
  <2>2. MessageIds' = MessageIds
      BY <2>1 DEF MessageIds
  <2>3. page \subseteq MessageIds /\ \A i \in page, j \in MessageIds \ page : ~Older(i, j)
      BY DEF Pages
  <2>4. ChatTypeOK'
      BY <1>0, <2>1, <2>2, <2>3 DEF ChatTypeOK, Message
  <2>5. ASSUME NEW m \in MessageIds, Passed(m)' PROVE m \in scrolled'
      BY <2>1, <2>3, <2>5 DEF Passed, Older, At
  <2>6. ASSUME NEW m \in MessageIds PROVE ~(m > began')
      BY <1>0, <2>1
  <2>7. NothingMissed'
      BY <2>2, <2>5, <2>6 DEF NothingMissed
  <2>8. QED
      BY <2>1, <2>4, <2>7 DEF ChatInv
<1>5. CASE GetNextPage
  <2>1. PICK cursor \in scrolled :
          /\ \A i \in scrolled : ~Older(i, cursor)
          /\ \E after \in SUBSET SameMoment(cursor) :
                \E page \in Pages(OlderThan(cursor) \cup after) :
                    scrolled' = scrolled \cup page /\ received' = received \cup page
          /\ messages' = messages /\ broadcasts' = broadcasts /\ joined' = joined
          /\ began' = began /\ current' = current
      BY <1>5 DEF GetNextPage
  <2>a. PICK after \in SUBSET SameMoment(cursor) :
            \E page \in Pages(OlderThan(cursor) \cup after) :
                scrolled' = scrolled \cup page /\ received' = received \cup page
      BY <2>1
  <2>2. PICK page \in Pages(OlderThan(cursor) \cup after) :
            scrolled' = scrolled \cup page /\ received' = received \cup page
      BY <2>a
  <2>3. /\ page \subseteq OlderThan(cursor) \cup after
        /\ \A i \in page, j \in OlderThan(cursor) \ page : ~Older(i, j)
      BY DEF Pages
  <2>4. MessageIds' = MessageIds /\ \A k \in MessageIds : At(k)' = At(k)
      BY <2>1 DEF MessageIds, At
  <2>5. cursor \in MessageIds /\ page \subseteq MessageIds
      BY <1>0, <2>3 DEF OlderThan, SameMoment
  <2>6. ChatTypeOK'
      BY <1>0, <2>1, <2>2, <2>4, <2>5 DEF ChatTypeOK, Message
  <2>7. ASSUME NEW m \in MessageIds, m <= began, Passed(m)' PROVE m \in scrolled' \/ Tied(m)'
    <3>1. PICK i \in scrolled \cup page : Older(i, m)
        BY <1>0, <2>2, <2>4, <2>5, <2>7 DEF Passed, Older
    <3>2. At(cursor) \in Nat /\ At(m) \in Nat /\ At(i) \in Nat
        BY <1>0, <2>5
    <3>3. CASE Older(cursor, m)
      <4>1. Passed(m)
          BY <3>3 DEF Passed
      <4>2. m \in scrolled \/ Tied(m)
          BY <2>7, <4>1 DEF ChatInv, NothingMissed
      <4>3. Tied(m) => Tied(m)'
          BY <1>0, <2>2, <2>4 DEF Tied, SameMoment
      <4>4. QED
          BY <2>2, <4>2, <4>3
    <3>4. CASE At(m) = At(cursor)
      <4>1. m = cursor \/ cursor \in SameMoment(m)'
          BY <2>4, <2>5, <3>4 DEF SameMoment
      <4>2. cursor \in scrolled'
          BY <2>2
      <4>3. QED
          BY <4>1, <4>2 DEF Tied
    <3>5. CASE Older(m, cursor)
      <4>1. m \in OlderThan(cursor)
          BY <3>5 DEF OlderThan
      <4>2. i \notin scrolled
          BY <2>1, <3>1, <3>2, <3>5 DEF Older
      <4>3. m \in page
          BY <2>3, <3>1, <4>1, <4>2
      <4>4. QED
          BY <2>2, <4>3
    <3>6. QED
        BY <3>2, <3>3, <3>4, <3>5 DEF Older
  <2>8. ASSUME NEW m \in MessageIds, m > began, current PROVE m \in received' \cup broadcasts'
      BY <2>1, <2>2, <2>8 DEF ChatInv, NothingMissed
  <2>9. NothingMissed'
      BY <2>1, <2>4, <2>7, <2>8 DEF NothingMissed
  <2>10. QED
      BY <2>1, <2>6, <2>9 DEF ChatInv
<1>6. CASE MarkAsRead
  <2> DEFINE read == [i \in MessageIds |->
                        IF i \in Unread THEN [messages[i] EXCEPT !.status = "READ"] ELSE messages[i]]
  <2>1. /\ messages' = read /\ broadcasts' = broadcasts /\ joined' = joined /\ began' = began
        /\ scrolled' = scrolled /\ received' = received /\ current' = current
      BY <1>6 DEF MarkAsRead
  <2>2. read \in [1 .. Len(messages) -> Message]
      BY <1>0 DEF Message
  <2>3. \A i \in MessageIds : read[i].at = messages[i].at
      BY <1>0 DEF Message
  <2> HIDE DEF read
  <2>4. read \in Seq(Message) /\ Len(read) = Len(messages)
      BY <1>0, <2>2, SeqDef, LenProperties
  <2>5. MessageIds' = MessageIds /\ \A k \in MessageIds : At(k)' = At(k)
      BY <2>1, <2>3, <2>4 DEF MessageIds, At
  <2>6. ChatTypeOK'
      BY <1>0, <2>1, <2>4, <2>5 DEF ChatTypeOK, Message
  <2>7. ASSUME NEW m \in MessageIds, m <= began, Passed(m)' PROVE m \in scrolled' \/ Tied(m)'
      BY <1>0, <2>1, <2>5, <2>7, PagesStand DEF ChatInv, NothingMissed
  <2>8. ASSUME NEW m \in MessageIds, m > began, current PROVE m \in received' \cup broadcasts'
      BY <2>1, <2>8 DEF ChatInv, NothingMissed
  <2>9. NothingMissed'
      BY <2>1, <2>5, <2>7, <2>8 DEF NothingMissed
  <2>10. QED
      BY <2>1, <2>6, <2>9 DEF ChatInv
<1>7. CASE UNCHANGED chatVars
    BY <1>7 DEF chatVars, ChatInv, ChatTypeOK, NothingMissed, MessageIds, Passed, Tied,
                Older, SameMoment, At
<1>8. QED
    BY <1>1, <1>2, <1>3, <1>4, <1>5, <1>6, <1>7 DEF ChatNext

\* The invariant has the type and the promise of the pages in it.
LEMMA ChatPromises == ChatInv => ChatTypeOK /\ NothingMissed
    BY DEF ChatInv

\* A client that fetches the newest page and scrolls back from it misses no message of
\* then, but of the moment of one it has; in a room it has stayed in, none sent since
\* that has been broadcast (getMessages, createMessage, broadcastMessage).
THEOREM ChatMissesNothing == ChatSpec => []NothingMissed
    BY ChatInitInv, ChatNextInv, ChatPromises, PTL DEF ChatSpec

-----------------------------------------------------------------------------
(***************************************************************************)
(* The reminders of an interview. The window of a lead is as wide as two   *)
(* ticks. A run that is begun in it is on track: each of those to be       *)
(* reminded is reminded, or in what it will insert, or in a phase it has   *)
(* yet to look at. It stays so until it is over, fails, or is still open   *)
(* at the next tick, and both are counted as missed; the second run makes  *)
(* up for the first.                                                       *)
(***************************************************************************)

TickRuns == [phase : 0 .. 4, insert : SUBSET Links]
Open(t) == tick[t].phase # 0

\* Who is to be reminded, whether all of them are, and where the job looks for one.
Wanted(lead) == IF steady[lead] = {} THEN {} ELSE steady[lead] \cup {Company}
Goal(lead) == \A x \in Wanted(lead) : reminded[<<x, lead>>] >= 1
PhaseOf(x, lead) == (IF x = Company THEN 1 ELSE 3) + (IF lead = LongLead THEN 0 ELSE 1)

\* A run that will have reminded all of them when it is over.
OnTrack(t, lead) ==
    /\ Open(t)
    /\ \A x \in Wanted(lead) :
          \/ reminded[<<x, lead>>] >= 1
          \/ <<x, lead>> \in tick[t].insert
          \/ tick[t].phase < PhaseOf(x, lead)
          \/ tick[t].phase = PhaseOf(x, lead) /\ tick[t].insert = {}
SomeOnTrack(lead) == \E t \in Ticks : OnTrack(t, lead)

\* The first tick of the window, and whether the run of a tick was begun.
Opens(lead) == startAt - lead - 2
First(lead) == Opens(lead) + (Opens(lead) % 2)
Begun(time) == (clock = time /\ ticked) \/ clock > time

\* The first run reminds them, unless a run was missed; the second does it then,
\* unless another was.
InTime(lead) ==
    /\ steady[lead] \subseteq accepted
    /\ Opens(lead) < 1 => steady[lead] = {}
    /\ Begun(First(lead)) /\ clock < First(lead) + 2 =>
          Goal(lead) \/ missed >= 1 \/ SomeOnTrack(lead)
    /\ clock = First(lead) + 2 /\ ~ticked => Goal(lead) \/ missed >= 1
    /\ Begun(First(lead) + 2) /\ clock < First(lead) + 4 =>
          Goal(lead) \/ missed >= 2 \/ (missed >= 1 /\ SomeOnTrack(lead))
    /\ clock >= First(lead) + 4 => Goal(lead) \/ missed >= 2

\* Runs that do not overlap look for links that are not there.
OneByOne ==
    tickedApart =>
        /\ \A t, u \in Ticks : Open(t) /\ Open(u) => t = u
        /\ \A t \in Ticks : \A l \in tick[t].insert : reminded[l] = 0
        /\ \A l \in Links : reminded[l] <= 1

RemindTyped ==
    /\ clock \in Nat /\ startAt \in StartTimes /\ clock <= startAt + 1
    /\ accepted \subseteq Invited
    /\ steady \in [Leads -> SUBSET Invited]
    /\ reminded \in [Links -> Nat]
    /\ tick \in [Ticks -> TickRuns]
    /\ \A t \in Ticks : tick[t].insert # {} => Open(t)
    /\ missed \in 0 .. 2 /\ ticked \in BOOLEAN /\ tickedApart \in BOOLEAN

RemindInv ==
    /\ RemindTyped
    /\ \A lead \in Leads : InTime(lead)
    /\ OneByOne

-----------------------------------------------------------------------------
\* The four phases of a run.
LEMMA PhasesAre ==
    /\ Len(Phases) = 4
    /\ Phases[1] = [to |-> "company", lead |-> LongLead]
    /\ Phases[2] = [to |-> "company", lead |-> ShortLead]
    /\ Phases[3] = [to |-> "workers", lead |-> LongLead]
    /\ Phases[4] = [to |-> "workers", lead |-> ShortLead]
    BY DEF Phases

\* The first tick of a window is even, and at its opening or the step after.
LEMMA FirstIs ==
    ASSUME startAt \in Nat, NEW lead \in Leads
    PROVE  /\ lead \in Nat /\ Opens(lead) \in Int /\ First(lead) \in Int /\ First(lead) % 2 = 0
           /\ Opens(lead) <= First(lead) /\ First(lead) <= Opens(lead) + 1
           /\ Opens(lead) = startAt - lead - 2
<1>1. lead \in Nat
    BY RemindersAssumption DEF Leads
<1>2. PICK n \in Int : n = startAt - lead - 2
    BY <1>1
<1>3. n + (n % 2) \in Int /\ (n + (n % 2)) % 2 = 0 /\ n <= n + (n % 2) /\ n + (n % 2) <= n + 1
    BY SMT
<1>4. QED
    BY <1>1, <1>2, <1>3 DEF Opens, First

\* A recipient is among the candidates of its phase, while the window is open.
LEMMA Sought ==
    ASSUME NEW lead \in Leads, NEW x \in Wanted(lead), steady[lead] \subseteq accepted,
           accepted \subseteq Invited, InWindow(lead)
    PROVE  /\ PhaseOf(x, lead) \in 1 .. 4
           /\ <<x, lead>> \in Links
           /\ <<x, lead>> \in CandidatesOf(Phases[PhaseOf(x, lead)])
<1>1. accepted # {} /\ (x = Company \/ x \in accepted)
    BY DEF Wanted
<1>2. LongLead # ShortLead
    BY RemindersAssumption
<1>3. Company \notin accepted
    BY RemindersAssumption
<1>4. PhaseOf(x, lead) = IF x = Company THEN IF lead = LongLead THEN 1 ELSE 2
                         ELSE IF lead = LongLead THEN 3 ELSE 4
    BY DEF PhaseOf
<1>5. PICK p : p = PhaseOf(x, lead)
    OBVIOUS
<1>6. p \in 1 .. 4
    BY <1>4, <1>5
<1>7. Phases[p].lead = lead /\ Phases[p].to = (IF x = Company THEN "company" ELSE "workers")
    BY <1>2, <1>4, <1>5, PhasesAre DEF Leads
<1>8. <<x, lead>> \in CandidatesOf(Phases[p])
    BY <1>1, <1>3, <1>7 DEF CandidatesOf
<1>9. QED
    BY <1>1, <1>5, <1>6, <1>8 DEF Links, Recipients

\* Nobody is reminded at first.
LEMMA RemindInitInv == RemindersInit => RemindInv
<1> SUFFICES ASSUME RemindersInit PROVE RemindInv
    OBVIOUS
<1>1. /\ clock = 0 /\ startAt \in StartTimes /\ startAt \in Nat /\ missed = 0 /\ ticked = FALSE
      /\ tickedApart = TRUE /\ accepted \subseteq Invited
      /\ steady = [lead \in Leads |-> {}] /\ reminded = [l \in Links |-> 0]
      /\ tick = [t \in Ticks |-> NoTick]
    BY RemindersAssumption DEF RemindersInit
<1>2. NoTick \in TickRuns /\ NoTick.phase = 0 /\ NoTick.insert = {}
    BY DEF NoTick, TickRuns
<1>3. RemindTyped
  <2>1. reminded \in [Links -> Nat] /\ steady \in [Leads -> SUBSET Invited]
      BY <1>1
  <2>2. tick \in [Ticks -> TickRuns] /\ \A t \in Ticks : tick[t].insert = {}
      BY <1>1, <1>2
  <2>3. clock \in Nat /\ clock <= startAt + 1 /\ missed \in 0 .. 2
      BY <1>1
  <2>4. QED
      BY <1>1, <2>1, <2>2, <2>3 DEF RemindTyped
<1>4. OneByOne
    BY <1>1, <1>2 DEF OneByOne, Open
<1>5. ASSUME NEW lead \in Leads PROVE InTime(lead)
  <2>1. steady[lead] = {} /\ Goal(lead)
      BY <1>1 DEF Goal, Wanted
  <2>2. QED
      BY <2>1 DEF InTime
<1>6. QED
    BY <1>3, <1>4, <1>5 DEF RemindInv

-----------------------------------------------------------------------------
\* A step at one time of the clock: who was reminded stays so, and a run on track
\* ends well or is missed.
LEMMA AtOneTime ==
    ASSUME RemindTyped, NEW lead \in Leads, InTime(lead),
           clock' = clock, startAt' = startAt, ticked' = ticked,
           steady'[lead] \subseteq accepted', steady'[lead] \subseteq steady[lead],
           Goal(lead) => Goal(lead)', missed' \in 0 .. 2, missed' >= missed,
           InWindow(lead) /\ SomeOnTrack(lead) =>
              Goal(lead)' \/ SomeOnTrack(lead)' \/ missed' >= 2 \/ missed' >= missed + 1
    PROVE  InTime(lead)'
<1>1. startAt \in Nat /\ clock \in Nat /\ missed \in 0 .. 2
    BY RemindersAssumption DEF RemindTyped
<1>2. PICK first : first = First(lead)
    OBVIOUS
<1>3. /\ lead \in Nat /\ first \in Int /\ startAt - lead - 2 <= first /\ first <= startAt - lead - 1
      /\ Opens(lead) \in Int
    BY <1>1, <1>2, FirstIs
<1>4. First(lead)' = first /\ Opens(lead)' = Opens(lead)
    BY <1>2 DEF First, Opens
<1>5. /\ Begun(first) /\ clock < first + 2 => InWindow(lead)
      /\ Begun(first + 2) /\ clock < first + 4 => InWindow(lead)
    BY <1>1, <1>3 DEF Begun, InWindow
<1>6. Begun(first)' = Begun(first) /\ Begun(first + 2)' = Begun(first + 2)
    BY <1>2, <1>4 DEF Begun
<1>7. /\ Begun(first) /\ clock < first + 2 => Goal(lead) \/ missed >= 1 \/ SomeOnTrack(lead)
      /\ clock = first + 2 /\ ~ticked => Goal(lead) \/ missed >= 1
      /\ Begun(first + 2) /\ clock < first + 4 =>
            Goal(lead) \/ missed >= 2 \/ (missed >= 1 /\ SomeOnTrack(lead))
      /\ clock >= first + 4 => Goal(lead) \/ missed >= 2
      /\ Opens(lead) < 1 => steady[lead] = {}
    BY <1>2 DEF InTime
<1>8. Begun(first)' /\ clock' < first + 2 => Goal(lead)' \/ missed' >= 1 \/ SomeOnTrack(lead)'
    BY <1>1, <1>5, <1>6, <1>7
<1>9. Begun(first + 2)' /\ clock' < first + 4 =>
            Goal(lead)' \/ missed' >= 2 \/ (missed' >= 1 /\ SomeOnTrack(lead)')
    BY <1>1, <1>5, <1>6, <1>7
<1>10. /\ clock' = first + 2 /\ ~ticked' => Goal(lead)' \/ missed' >= 1
       /\ clock' >= first + 4 => Goal(lead)' \/ missed' >= 2
    BY <1>1, <1>7
<1>11. Opens(lead)' < 1 => steady'[lead] = {}
    BY <1>4, <1>7
<1>12. QED
    BY <1>4, <1>8, <1>9, <1>10, <1>11 DEF InTime

\* The clock goes on: a run that is open at the next tick is missed.
LEMMA TimeInTime ==
    ASSUME RemindTyped, NEW lead \in Leads, InTime(lead), TimePasses
    PROVE  InTime(lead)'
<1>1. /\ startAt \in Nat /\ clock \in Nat /\ missed \in 0 .. 2 /\ ticked \in BOOLEAN
      /\ steady \in [Leads -> SUBSET Invited] /\ tick \in [Ticks -> TickRuns]
    BY RemindersAssumption DEF RemindTyped
<1>2. PICK first : first = First(lead)
    OBVIOUS
<1>3. /\ lead \in Nat /\ first \in Int /\ first % 2 = 0
      /\ startAt - lead - 2 <= first /\ first <= startAt - lead - 1
      /\ Opens(lead) = startAt - lead - 2
    BY <1>1, <1>2, FirstIs
<1>4. /\ clock' = clock + 1 /\ ticked' = FALSE /\ (clock % 2 = 0 => ticked)
      /\ missed' = IF (clock + 1) % 2 = 0 THEN Many(missed + Cardinality(OpenTicks)) ELSE missed
      /\ steady'[lead] = IF clock + 1 = startAt - lead - 2 THEN accepted ELSE steady[lead]
      /\ startAt' = startAt /\ accepted' = accepted /\ reminded' = reminded /\ tick' = tick
    BY <1>1 DEF TimePasses, Period
<1>5. First(lead)' = first /\ Opens(lead)' = Opens(lead)
    BY <1>2, <1>4 DEF First, Opens
<1>6. /\ Begun(first) /\ clock < first + 2 => Goal(lead) \/ missed >= 1 \/ SomeOnTrack(lead)
      /\ clock = first + 2 /\ ~ticked => Goal(lead) \/ missed >= 1
      /\ Begun(first + 2) /\ clock < first + 4 =>
            Goal(lead) \/ missed >= 2 \/ (missed >= 1 /\ SomeOnTrack(lead))
      /\ clock >= first + 4 => Goal(lead) \/ missed >= 2
      /\ Opens(lead) < 1 => steady[lead] = {}
      /\ steady[lead] \subseteq accepted
    BY <1>2 DEF InTime
<1>7. Cardinality(OpenTicks) \in Nat /\ (SomeOnTrack(lead) => Cardinality(OpenTicks) >= 1)
  <2>1. IsFiniteSet(OpenTicks)
      BY RemindersAssumption, FS_Subset DEF OpenTicks
  <2>2. Cardinality(OpenTicks) \in Nat /\ (Cardinality(OpenTicks) = 0 <=> OpenTicks = {})
      BY <2>1, FS_CardinalityType, FS_EmptySet
  <2>3. SomeOnTrack(lead) => OpenTicks # {}
      BY DEF SomeOnTrack, OnTrack, Open, OpenTicks, NoTick
  <2>4. QED
      BY <2>2, <2>3
<1>8. missed' >= missed /\ missed' \in 0 .. 2
    BY <1>1, <1>4, <1>7 DEF Many
<1>9. ASSUME (clock + 1) % 2 = 0, SomeOnTrack(lead) PROVE missed' >= 2 \/ missed' >= missed + 1
    BY <1>1, <1>4, <1>7, <1>9 DEF Many
<1>10. CASE clock + 1 = startAt - lead - 2
  <2>1. clock' <= first /\ ~ticked' /\ clock' # first + 2 /\ ~(clock' >= first + 4)
      BY <1>1, <1>3, <1>4, <1>10
  <2>2. ~Begun(first)' /\ ~Begun(first + 2)'
      BY <1>1, <1>3, <1>4, <1>5, <2>1, <1>2 DEF Begun
  <2>3. Opens(lead)' >= 1
      BY <1>1, <1>3, <1>4, <1>5, <1>10
  <2>4. QED
      BY <1>1, <1>3, <1>4, <1>5, <1>10, <2>1, <2>2, <2>3 DEF InTime
<1>11. CASE clock + 1 # startAt - lead - 2
  <2>1. steady'[lead] = steady[lead]
      BY <1>4, <1>11
  <2>2. Goal(lead)' = Goal(lead) /\ SomeOnTrack(lead)' = SomeOnTrack(lead)
      BY <1>4, <2>1 DEF Goal, SomeOnTrack, OnTrack, Open, Wanted
  <2>3. /\ Begun(first)' <=> clock >= first
        /\ Begun(first + 2)' <=> clock >= first + 2
      BY <1>1, <1>3, <1>4, <1>5, <1>2 DEF Begun
  <2>4. /\ clock = first => ticked
        /\ clock = first + 2 => ticked
        /\ clock + 1 = first + 2 => (clock + 1) % 2 = 0
        /\ clock + 1 = first + 4 => (clock + 1) % 2 = 0
      BY <1>1, <1>3, <1>4
  <2>5. /\ clock >= first => Begun(first)
        /\ clock >= first + 2 => Begun(first + 2)
      BY <1>1, <1>3, <2>4 DEF Begun
  <2>6. Begun(first)' /\ clock' < first + 2 => Goal(lead)' \/ missed' >= 1 \/ SomeOnTrack(lead)'
      BY <1>1, <1>3, <1>4, <1>6, <1>8, <2>2, <2>3, <2>5
  <2>7. clock' = first + 2 => Goal(lead)' \/ missed' >= 1
      BY <1>1, <1>3, <1>4, <1>6, <1>8, <1>9, <2>2, <2>4, <2>5
  <2>8. Begun(first + 2)' /\ clock' < first + 4 =>
            Goal(lead)' \/ missed' >= 2 \/ (missed' >= 1 /\ SomeOnTrack(lead)')
      BY <1>1, <1>3, <1>4, <1>6, <1>8, <2>2, <2>3, <2>5
  <2>9. clock' >= first + 4 => Goal(lead)' \/ missed' >= 2
      BY <1>1, <1>3, <1>4, <1>6, <1>8, <1>9, <2>2, <2>4, <2>5
  <2>10. QED
      BY <1>4, <1>5, <1>6, <2>1, <2>6, <2>7, <2>8, <2>9 DEF InTime
<1>12. QED
    BY <1>10, <1>11

\* The run of a tick is begun: it is on track.
LEMMA BeginInTime ==
    ASSUME RemindTyped, NEW lead \in Leads, InTime(lead), NEW t \in Ticks, BeginTick(t)
    PROVE  InTime(lead)'
<1>1. /\ startAt \in Nat /\ clock \in Nat /\ missed \in 0 .. 2 /\ ticked \in BOOLEAN
      /\ tick \in [Ticks -> TickRuns]
    BY RemindersAssumption DEF RemindTyped
<1>2. PICK first : first = First(lead)
    OBVIOUS
<1>3. first \in Int /\ first % 2 = 0
    BY <1>1, <1>2, FirstIs
<1>4. /\ clock % 2 = 0 /\ ~ticked /\ ticked' = TRUE /\ tick[t] = NoTick
      /\ tick' = [tick EXCEPT ![t].phase = 1]
      /\ clock' = clock /\ startAt' = startAt /\ accepted' = accepted /\ steady' = steady
      /\ reminded' = reminded /\ missed' = missed
    BY DEF BeginTick, Period
<1>5. First(lead)' = first /\ Opens(lead)' = Opens(lead)
    BY <1>2, <1>4 DEF First, Opens
<1>6. tick'[t].phase = 1 /\ tick'[t].insert = {}
    BY <1>1, <1>4 DEF NoTick, TickRuns
<1>7. OnTrack(t, lead)'
  <2>1. \A x : PhaseOf(x, lead) \in Int /\ PhaseOf(x, lead) >= 1
      BY DEF PhaseOf
  <2>2. ASSUME NEW x \in Wanted(lead)' PROVE tick'[t].phase < PhaseOf(x, lead)' \/ tick'[t].phase = PhaseOf(x, lead)'
    <3>1. PhaseOf(x, lead)' = PhaseOf(x, lead)
        BY DEF PhaseOf
    <3>2. QED
        BY <1>6, <2>1, <3>1
  <2>3. QED
      BY <1>6, <2>2 DEF OnTrack, Open
<1>8. SomeOnTrack(lead)' /\ Goal(lead)' = Goal(lead)
    BY <1>4, <1>7 DEF SomeOnTrack, Goal, Wanted
<1>9. /\ clock = first + 2 /\ ~ticked => Goal(lead) \/ missed >= 1
      /\ Begun(first + 2) /\ clock < first + 4 =>
            Goal(lead) \/ missed >= 2 \/ (missed >= 1 /\ SomeOnTrack(lead))
      /\ clock >= first + 4 => Goal(lead) \/ missed >= 2
      /\ Opens(lead) < 1 => steady[lead] = {}
      /\ steady[lead] \subseteq accepted
    BY <1>2 DEF InTime
<1>10. Begun(first + 2)' <=> clock >= first + 2
    BY <1>1, <1>2, <1>3, <1>4, <1>5 DEF Begun
<1>11. Begun(first + 2)' /\ clock' < first + 4 =>
            Goal(lead)' \/ missed' >= 2 \/ (missed' >= 1 /\ SomeOnTrack(lead)')
  <2>1. clock > first + 2 => Begun(first + 2)
      BY DEF Begun
  <2>2. QED
      BY <1>1, <1>3, <1>4, <1>8, <1>9, <1>10, <2>1
<1>12. QED
    BY <1>4, <1>5, <1>8, <1>9, <1>11 DEF InTime

\* The steps of a run, at one time of the clock.
LEMMA AnswerInTime ==
    ASSUME RemindTyped, NEW lead \in Leads, InTime(lead), NEW w \in Invited, Answer(w)
    PROVE  InTime(lead)'
<1>1. /\ steady \in [Leads -> SUBSET Invited] /\ missed \in 0 .. 2
      /\ steady[lead] \subseteq accepted
    BY DEF RemindTyped, InTime
<1>2. /\ accepted' = (accepted \ {w}) \cup ({w} \ accepted) /\ steady'[lead] = steady[lead] \ {w}
      /\ UNCHANGED <<clock, startAt, reminded, tick, ticked, missed>>
    BY DEF Answer
<1>3. Wanted(lead)' \subseteq Wanted(lead)
    BY <1>2 DEF Wanted
<1>4. Goal(lead) => Goal(lead)'
    BY <1>2, <1>3 DEF Goal
<1>5. SomeOnTrack(lead) => SomeOnTrack(lead)'
  <2>1. ASSUME NEW t \in Ticks, OnTrack(t, lead) PROVE OnTrack(t, lead)'
    <3>1. ASSUME NEW x PROVE PhaseOf(x, lead)' = PhaseOf(x, lead)
        BY DEF PhaseOf
    <3>2. QED
        BY <1>2, <1>3, <2>1, <3>1 DEF OnTrack, Open
  <2>2. QED
      BY <2>1 DEF SomeOnTrack
<1>6. missed' \in 0 .. 2 /\ missed' >= missed
    BY <1>1, <1>2
<1>7. steady'[lead] \subseteq accepted' /\ steady'[lead] \subseteq steady[lead]
    BY <1>1, <1>2
<1>8. QED
    BY <1>2, <1>4, <1>5, <1>6, <1>7, AtOneTime

\* Another run that is on track stays so.
LEMMA OthersOnTrack ==
    ASSUME RemindTyped, NEW lead \in Leads, NEW t \in Ticks, NEW u \in Ticks, u # t,
           tick'[u] = tick[u], steady' = steady,
           \A l \in Links : reminded'[l] >= reminded[l], reminded' \in [Links -> Nat],
           OnTrack(u, lead)
    PROVE  OnTrack(u, lead)'
<1>1. ASSUME NEW x PROVE PhaseOf(x, lead)' = PhaseOf(x, lead)
    BY DEF PhaseOf
<1>2. Wanted(lead)' = Wanted(lead)
    BY DEF Wanted
<1>3. ASSUME NEW x \in Wanted(lead) PROVE <<x, lead>> \in Links
    BY DEF Wanted, Links, Recipients, RemindTyped
<1>4. ASSUME NEW x \in Wanted(lead), reminded[<<x, lead>>] >= 1 PROVE reminded'[<<x, lead>>] >= 1
    BY <1>3, <1>4 DEF RemindTyped
<1>5. QED
    BY <1>1, <1>2, <1>4 DEF OnTrack, Open

\* What a run does after a phase.
LEMMA NextPhaseIs ==
    ASSUME RemindTyped, NEW t \in Ticks, NextPhase(t), tick[t].phase # 0
    PROVE  /\ tick' \in [Ticks -> TickRuns]
           /\ \A u \in Ticks : u # t => tick'[u] = tick[u]
           /\ tick'[t].insert = {}
           /\ tick[t].phase = 4 => tick'[t].phase = 0
           /\ tick[t].phase # 4 => tick'[t].phase = tick[t].phase + 1
<1>1. tick \in [Ticks -> TickRuns]
    BY DEF RemindTyped
<1>2. PICK p \in 0 .. 4 : p = tick[t].phase
    BY <1>1 DEF TickRuns
<1>3. tick' = [tick EXCEPT ![t] = IF p = 4 THEN NoTick ELSE [phase |-> p + 1, insert |-> {}]]
    BY <1>2, PhasesAre DEF NextPhase
<1>4. PICK run : run = (IF p = 4 THEN NoTick ELSE [phase |-> p + 1, insert |-> {}])
    OBVIOUS
<1>5. run.insert = {} /\ run.phase = IF p = 4 THEN 0 ELSE p + 1
    BY <1>4 DEF NoTick
<1>6. run \in TickRuns
    BY <1>2, <1>4 DEF NoTick, TickRuns
<1>7. tick' = [tick EXCEPT ![t] = run]
    BY <1>3, <1>4
<1>8. QED
    BY <1>1, <1>2, <1>5, <1>6, <1>7

\* A run looks for the reminders of a phase.
LEMMA LookInTime ==
    ASSUME RemindTyped, NEW lead \in Leads, InTime(lead), NEW t \in Ticks, LookForReminders(t)
    PROVE  InTime(lead)' /\ RemindTyped'
<1>0. tick[t].phase \in 1 .. 4
    BY DEF LookForReminders, RemindTyped, TickRuns
<1>1. PICK p, found :
        /\ p \in 1 .. 4 /\ p = tick[t].phase /\ tick[t].insert = {}
        /\ found = WithoutExisting(CandidatesOf(Phases[p]))
        /\ IF found = {} THEN NextPhase(t) ELSE tick' = [tick EXCEPT ![t].insert = found]
        /\ UNCHANGED <<clock, startAt, accepted, steady, reminded, ticked, missed, tickedApart>>
    BY <1>0 DEF LookForReminders
<1>2. /\ tick \in [Ticks -> TickRuns] /\ accepted \subseteq Invited /\ missed \in 0 .. 2
      /\ steady[lead] \subseteq accepted /\ reminded \in [Links -> Nat]
    BY DEF RemindTyped, InTime
<1>3. found \subseteq Links
  <2>1. Phases[p].lead \in Leads
      BY <1>1, PhasesAre DEF Leads
  <2>2. CandidatesOf(Phases[p]) \subseteq Links
      BY <1>2, <2>1 DEF CandidatesOf, Links, Recipients
  <2>3. QED
      BY <1>1, <2>2 DEF WithoutExisting
<1>4. /\ \A u \in Ticks : u # t => tick'[u] = tick[u]
      /\ tick' \in [Ticks -> TickRuns]
      /\ tick'[t].insert = found
      /\ found # {} => tick'[t].phase = p
      /\ found = {} /\ p = 4 => tick'[t].phase = 0
      /\ found = {} /\ p # 4 => tick'[t].phase = p + 1
  <2>1. CASE found = {}
      BY <1>1, <2>1, NextPhaseIs
  <2>2. CASE found # {}
    <3>1. tick' = [tick EXCEPT ![t].insert = found]
        BY <1>1, <2>2
    <3>2. [tick[t] EXCEPT !.insert = found] \in TickRuns
        BY <1>2, <1>3 DEF TickRuns
    <3>3. tick[t] \in TickRuns
        BY <1>2
    <3>4. tick'[t] = [tick[t] EXCEPT !.insert = found]
        BY <1>2, <3>1
    <3>5. tick'[t].insert = found /\ tick'[t].phase = p
        BY <1>1, <3>3, <3>4 DEF TickRuns
    <3>6. tick' \in [Ticks -> TickRuns] /\ \A u \in Ticks : u # t => tick'[u] = tick[u]
        BY <1>2, <3>1, <3>2
    <3>7. QED
        BY <2>2, <3>5, <3>6
  <2>3. QED
      BY <2>1, <2>2
<1>5. RemindTyped'
  <2>1. ASSUME NEW u \in Ticks PROVE tick'[u].insert # {} => tick'[u].phase # 0
    <3>1. CASE u = t
        BY <1>1, <1>4, <3>1
    <3>2. CASE u # t
        BY <1>4, <3>2 DEF RemindTyped, Open
    <3>3. QED
        BY <3>1, <3>2
  <2>2. QED
      BY <1>1, <1>4, <2>1 DEF RemindTyped, Open
<1>6. Wanted(lead)' = Wanted(lead) /\ Goal(lead)' = Goal(lead)
    BY <1>1 DEF Wanted, Goal
<1>7. ASSUME NEW x PROVE PhaseOf(x, lead)' = PhaseOf(x, lead)
    BY DEF PhaseOf
<1>8. ASSUME InWindow(lead), OnTrack(t, lead) PROVE Goal(lead)' \/ OnTrack(t, lead)'
  <2>1. ASSUME NEW x \in Wanted(lead)
        PROVE  \/ reminded[<<x, lead>>] >= 1
               \/ p < PhaseOf(x, lead) /\ PhaseOf(x, lead) <= 4 /\ PhaseOf(x, lead) \in Int
               \/ p = PhaseOf(x, lead) /\ <<x, lead>> \in found
    <3>1. /\ PhaseOf(x, lead) \in 1 .. 4 /\ <<x, lead>> \in Links
          /\ <<x, lead>> \in CandidatesOf(Phases[PhaseOf(x, lead)])
        BY <1>2, <1>8, Sought
    <3>2. reminded[<<x, lead>>] \in Nat
        BY <1>2, <3>1
    <3>3. p = PhaseOf(x, lead) => reminded[<<x, lead>>] # 0 \/ <<x, lead>> \in found
        BY <1>1, <3>1 DEF WithoutExisting
    <3>4. reminded[<<x, lead>>] >= 1 \/ p < PhaseOf(x, lead) \/ p = PhaseOf(x, lead)
        BY <1>1, <1>8 DEF OnTrack
    <3>5. QED
        BY <3>1, <3>2, <3>3, <3>4
  <2>2. CASE found = {} /\ p = 4
      BY <1>1, <1>6, <2>1, <2>2 DEF Goal
  <2>3. CASE found = {} /\ p # 4
    <3>1. tick'[t].phase = p + 1 /\ tick'[t].insert = {}
        BY <1>4, <2>3
    <3>2. ASSUME NEW x \in Wanted(lead)
          PROVE  reminded[<<x, lead>>] >= 1 \/ p + 1 < PhaseOf(x, lead) \/ p + 1 = PhaseOf(x, lead)
        BY <1>1, <2>1, <2>3
    <3>3. QED
        BY <1>1, <1>6, <1>7, <3>1, <3>2 DEF OnTrack, Open
  <2>4. CASE found # {}
    <3>1. tick'[t].phase = p /\ tick'[t].insert = found
        BY <1>4, <2>4
    <3>2. QED
        BY <1>1, <1>6, <1>7, <2>1, <3>1 DEF OnTrack, Open
  <2>5. QED
      BY <2>2, <2>3, <2>4
<1>9. ASSUME InWindow(lead), SomeOnTrack(lead) PROVE Goal(lead)' \/ SomeOnTrack(lead)'
  <2>1. PICK u \in Ticks : OnTrack(u, lead)
      BY <1>9 DEF SomeOnTrack
  <2>2. CASE u = t
      BY <1>8, <1>9, <2>1, <2>2 DEF SomeOnTrack
  <2>3. CASE u # t
    <3>1. reminded' \in [Links -> Nat] /\ \A l \in Links : reminded'[l] >= reminded[l]
        BY <1>1, <1>2
    <3>2. OnTrack(u, lead)'
        BY <1>1, <1>4, <2>1, <2>3, <3>1, OthersOnTrack
    <3>3. QED
        BY <3>2 DEF SomeOnTrack
  <2>4. QED
      BY <2>2, <2>3
<1>10. missed' \in 0 .. 2 /\ missed' >= missed
    BY <1>1, <1>2
<1>11. InTime(lead)'
    BY <1>1, <1>2, <1>6, <1>9, <1>10, AtOneTime
<1>12. QED
    BY <1>5, <1>11

\* A run inserts what it has found missing.
LEMMA InsertInTime ==
    ASSUME RemindTyped, NEW lead \in Leads, InTime(lead), NEW t \in Ticks, InsertReminders(t)
    PROVE  InTime(lead)' /\ RemindTyped'
<1>1. PICK p, put :
        /\ p = tick[t].phase /\ put = tick[t].insert /\ put # {}
        /\ reminded' = [l \in Links |-> IF l \in put THEN reminded[l] + 1 ELSE reminded[l]]
        /\ NextPhase(t)
        /\ UNCHANGED <<clock, startAt, accepted, steady, ticked, missed, tickedApart>>
    BY DEF InsertReminders
<1>2. /\ tick \in [Ticks -> TickRuns] /\ accepted \subseteq Invited /\ missed \in 0 .. 2
      /\ steady[lead] \subseteq accepted /\ reminded \in [Links -> Nat]
    BY DEF RemindTyped, InTime
<1>3. p \in 1 .. 4
    BY <1>1, <1>2 DEF RemindTyped, TickRuns, Open
<1>4. /\ \A u \in Ticks : u # t => tick'[u] = tick[u]
      /\ tick' \in [Ticks -> TickRuns] /\ tick'[t].insert = {}
      /\ p = 4 => tick'[t].phase = 0
      /\ p # 4 => tick'[t].phase = p + 1
    BY <1>1, <1>3, NextPhaseIs
<1>5. /\ reminded' \in [Links -> Nat]
      /\ \A l \in Links : reminded'[l] >= reminded[l] /\ (l \in put => reminded'[l] >= 1)
    BY <1>1, <1>2
<1>6. RemindTyped'
  <2>1. ASSUME NEW u \in Ticks PROVE tick'[u].insert # {} => tick'[u].phase # 0
    <3>1. CASE u = t
        BY <1>4, <3>1
    <3>2. CASE u # t
        BY <1>4, <3>2 DEF RemindTyped, Open
    <3>3. QED
        BY <3>1, <3>2
  <2>2. QED
      BY <1>1, <1>4, <1>5, <2>1 DEF RemindTyped, Open
<1>7. Wanted(lead)' = Wanted(lead)
    BY <1>1 DEF Wanted
<1>8. ASSUME NEW x \in Wanted(lead)
      PROVE  /\ <<x, lead>> \in Links /\ PhaseOf(x, lead)' = PhaseOf(x, lead)
             /\ PhaseOf(x, lead) \in 1 .. 4
             /\ reminded[<<x, lead>>] >= 1 => reminded'[<<x, lead>>] >= 1
  <2>1. <<x, lead>> \in Links
      BY DEF Wanted, Links, Recipients, RemindTyped
  <2>2. reminded[<<x, lead>>] \in Nat /\ reminded'[<<x, lead>>] \in Nat
      BY <1>2, <1>5, <2>1
  <2>3. reminded[<<x, lead>>] >= 1 => reminded'[<<x, lead>>] >= 1
      BY <1>5, <2>1, <2>2
  <2>4. PhaseOf(x, lead)' = PhaseOf(x, lead) /\ PhaseOf(x, lead) \in 1 .. 4
      BY DEF PhaseOf
  <2>5. QED
      BY <2>1, <2>3, <2>4
<1>9. Goal(lead) => Goal(lead)'
    BY <1>7, <1>8 DEF Goal
<1>10. ASSUME OnTrack(t, lead) PROVE Goal(lead)' \/ OnTrack(t, lead)'
  <2>1. ASSUME NEW x \in Wanted(lead)
        PROVE  reminded'[<<x, lead>>] >= 1 \/ p < PhaseOf(x, lead)
      BY <1>1, <1>5, <1>8, <1>10 DEF OnTrack
  <2>2. CASE p = 4
    <3>1. ASSUME NEW x \in Wanted(lead) PROVE reminded'[<<x, lead>>] >= 1
        BY <1>8, <2>1, <2>2
    <3>2. QED
        BY <1>7, <3>1 DEF Goal
  <2>3. CASE p # 4
    <3>1. ASSUME NEW x \in Wanted(lead)
          PROVE  \/ reminded'[<<x, lead>>] >= 1
                 \/ p + 1 < PhaseOf(x, lead)' \/ p + 1 = PhaseOf(x, lead)'
        BY <1>3, <1>8, <2>1
    <3>2. tick'[t].phase = p + 1 /\ tick'[t].insert = {}
        BY <1>4, <2>3
    <3>3. QED
        BY <1>3, <1>7, <3>1, <3>2 DEF OnTrack, Open
  <2>4. QED
      BY <2>2, <2>3
<1>11. ASSUME SomeOnTrack(lead) PROVE Goal(lead)' \/ SomeOnTrack(lead)'
  <2>1. PICK u \in Ticks : OnTrack(u, lead)
      BY <1>11 DEF SomeOnTrack
  <2>2. CASE u = t
      BY <1>10, <2>1, <2>2 DEF SomeOnTrack
  <2>3. CASE u # t
    <3>1. OnTrack(u, lead)'
        BY <1>1, <1>4, <1>5, <2>1, <2>3, OthersOnTrack
    <3>2. QED
        BY <3>1 DEF SomeOnTrack
  <2>4. QED
      BY <2>2, <2>3
<1>12. missed' \in 0 .. 2 /\ missed' >= missed
    BY <1>1, <1>2
<1>13. InTime(lead)'
    BY <1>1, <1>2, <1>9, <1>11, <1>12, AtOneTime
<1>14. QED
    BY <1>6, <1>13

\* A run fails, and is missed.
LEMMA FailInTime ==
    ASSUME RemindTyped, NEW lead \in Leads, InTime(lead), NEW t \in Ticks, TickFails(t)
    PROVE  InTime(lead)'
<1>1. /\ missed' = Many(missed + 1)
      /\ UNCHANGED <<clock, startAt, accepted, steady, reminded, ticked>>
    BY DEF TickFails
<1>2. missed \in 0 .. 2 /\ steady[lead] \subseteq accepted
    BY DEF RemindTyped, InTime
<1>3. missed' \in 0 .. 2 /\ missed' >= missed /\ (missed' >= 2 \/ missed' >= missed + 1)
    BY <1>1, <1>2 DEF Many
<1>4. Goal(lead)' = Goal(lead)
    BY <1>1 DEF Goal, Wanted
<1>5. QED
    BY <1>1, <1>2, <1>3, <1>4, AtOneTime

-----------------------------------------------------------------------------
\* While one run is open at a time, what it inserts is not there.
LEMMA RemindOneByOne ==
    RemindTyped /\ OneByOne /\ [RemindersNext]_reminderVars => OneByOne'
<1> SUFFICES ASSUME RemindTyped, OneByOne, [RemindersNext]_reminderVars, tickedApart'
             PROVE  /\ \A t, u \in Ticks : Open(t)' /\ Open(u)' => t = u
                    /\ \A t \in Ticks : \A l \in tick'[t].insert : reminded'[l] = 0
                    /\ \A l \in Links : reminded'[l] <= 1
    BY DEF OneByOne
<1>0. /\ tick \in [Ticks -> TickRuns] /\ reminded \in [Links -> Nat]
      /\ \A t \in Ticks : tick[t].insert # {} => Open(t)
    BY DEF RemindTyped
<1>1. tickedApart
  <2>1. CASE tickedApart' = tickedApart
      BY <2>1
  <2>2. CASE \E t \in Ticks : BeginTick(t)
      BY <2>2 DEF BeginTick
  <2>3. QED
      BY <2>1, <2>2 DEF RemindersNext, TimePasses, Answer, LookForReminders, InsertReminders, TickFails,
                        reminderVars
<1>2. /\ \A t, u \in Ticks : Open(t) /\ Open(u) => t = u
      /\ \A t \in Ticks : \A l \in tick[t].insert : reminded[l] = 0
      /\ \A l \in Links : reminded[l] <= 1
    BY <1>1 DEF OneByOne
<1>3. CASE tick' = tick /\ reminded' = reminded
    BY <1>2, <1>3 DEF Open
<1>4. ASSUME NEW t \in Ticks, BeginTick(t)
      PROVE  /\ \A v, u \in Ticks : Open(v)' /\ Open(u)' => v = u
             /\ \A v \in Ticks : \A l \in tick'[v].insert : reminded'[l] = 0
             /\ \A l \in Links : reminded'[l] <= 1
  <2>1. /\ tick[t] = NoTick /\ tick' = [tick EXCEPT ![t].phase = 1] /\ reminded' = reminded
        /\ OpenTicks = {}
      BY <1>4 DEF BeginTick
  <2>2. \A u \in Ticks : ~Open(u) /\ tick[u].insert = {}
      BY <2>1, <1>0 DEF OpenTicks, Open, NoTick
  <2>3. \A u \in Ticks : u # t => tick'[u] = tick[u]
      BY <1>0, <2>1
  <2>4. tick'[t].insert = {}
      BY <1>0, <2>1 DEF NoTick, TickRuns
  <2>5. QED
      BY <1>2, <2>1, <2>2, <2>3, <2>4 DEF Open
<1>5. ASSUME NEW t \in Ticks, LookForReminders(t)
      PROVE  /\ \A v, u \in Ticks : Open(v)' /\ Open(u)' => v = u
             /\ \A v \in Ticks : \A l \in tick'[v].insert : reminded'[l] = 0
             /\ \A l \in Links : reminded'[l] <= 1
  <2>1. PICK found :
          /\ tick[t].phase # 0 /\ found = WithoutExisting(CandidatesOf(Phases[tick[t].phase]))
          /\ IF found = {} THEN NextPhase(t) ELSE tick' = [tick EXCEPT ![t].insert = found]
          /\ reminded' = reminded
      BY <1>5 DEF LookForReminders
  <2>2. \A u \in Ticks : u # t => tick'[u] = tick[u]
    <3>1. CASE found = {}
        BY <2>1, <3>1, NextPhaseIs
    <3>2. CASE found # {}
        BY <1>0, <2>1, <3>2
    <3>3. QED
        BY <3>1, <3>2
  <2>3. tick'[t].insert = found
    <3>1. CASE found = {}
        BY <2>1, <3>1, NextPhaseIs
    <3>2. CASE found # {}
      <4>1. tick'[t] = [tick[t] EXCEPT !.insert = found] /\ tick[t] \in TickRuns
          BY <1>0, <2>1, <3>2
      <4>2. QED
          BY <4>1 DEF TickRuns
    <3>3. QED
        BY <3>1, <3>2
  <2>4. \A l \in found : reminded[l] = 0
      BY <2>1 DEF WithoutExisting
  <2>5. Open(t)
      BY <2>1 DEF Open
  <2>6. \A u \in Ticks : Open(u)' => Open(u)
      BY <2>2, <2>5 DEF Open
  <2>7. QED
      BY <1>2, <2>1, <2>2, <2>3, <2>4, <2>6
<1>6. ASSUME NEW t \in Ticks, InsertReminders(t)
      PROVE  /\ \A v, u \in Ticks : Open(v)' /\ Open(u)' => v = u
             /\ \A v \in Ticks : \A l \in tick'[v].insert : reminded'[l] = 0
             /\ \A l \in Links : reminded'[l] <= 1
  <2>1. PICK put :
          /\ put = tick[t].insert /\ put # {} /\ NextPhase(t)
          /\ reminded' = [l \in Links |-> IF l \in put THEN reminded[l] + 1 ELSE reminded[l]]
      BY <1>6 DEF InsertReminders
  <2>2. Open(t) /\ tick[t].phase # 0
      BY <1>0, <2>1 DEF Open
  <2>3. /\ \A u \in Ticks : u # t => tick'[u] = tick[u]
        /\ tick'[t].insert = {}
      BY <2>1, <2>2, NextPhaseIs
  <2>4. \A u \in Ticks : Open(u)' => Open(u)
      BY <2>2, <2>3 DEF Open
  <2>5. \A u \in Ticks : tick'[u].insert = {}
    <3>1. ASSUME NEW u \in Ticks, u # t PROVE tick[u].insert = {}
        BY <1>0, <1>2, <2>2, <3>1
    <3>2. QED
        BY <2>3, <3>1
  <2>6. \A l \in put : reminded[l] = 0
      BY <1>2, <2>1
  <2>7. \A l \in Links : reminded'[l] <= 1
      BY <1>2, <2>1, <2>6
  <2>8. QED
      BY <1>2, <2>4, <2>5, <2>7
<1>7. ASSUME NEW t \in Ticks, TickFails(t)
      PROVE  /\ \A v, u \in Ticks : Open(v)' /\ Open(u)' => v = u
             /\ \A v \in Ticks : \A l \in tick'[v].insert : reminded'[l] = 0
             /\ \A l \in Links : reminded'[l] <= 1
  <2>1. tick' = [tick EXCEPT ![t] = NoTick] /\ reminded' = reminded
      BY <1>7 DEF TickFails
  <2>2. \A u \in Ticks : u # t => tick'[u] = tick[u]
      BY <1>0, <2>1
  <2>3. tick'[t].phase = 0 /\ tick'[t].insert = {}
      BY <1>0, <2>1 DEF NoTick
  <2>4. QED
      BY <1>2, <2>1, <2>2, <2>3 DEF Open
<1>8. CASE TimePasses \/ (\E w \in Invited : Answer(w)) \/ UNCHANGED reminderVars
  <2>1. tick' = tick /\ reminded' = reminded
      BY <1>8 DEF TimePasses, Answer, reminderVars
  <2>2. QED
      BY <1>3, <2>1
<1>9. QED
    BY <1>4, <1>5, <1>6, <1>7, <1>8 DEF RemindersNext

\* Every step of the job, of the clock and of the workers keeps the invariant.
LEMMA RemindNextInv == RemindInv /\ [RemindersNext]_reminderVars => RemindInv'
<1> SUFFICES ASSUME RemindInv, [RemindersNext]_reminderVars PROVE RemindInv'
    OBVIOUS
<1>0. RemindTyped /\ OneByOne /\ (\A lead \in Leads : InTime(lead)) /\ LongLead \in Leads
    BY DEF RemindInv, Leads
<1>1. OneByOne'
    BY <1>0, RemindOneByOne
<1>2. CASE TimePasses
  <2>1. /\ clock' = clock + 1 /\ clock <= startAt /\ startAt' = startAt /\ accepted' = accepted
        /\ ticked' = FALSE /\ reminded' = reminded /\ tick' = tick /\ tickedApart' = tickedApart
        /\ steady' = [lead \in Leads |->
                        IF clock + 1 = startAt - lead - 2 THEN accepted ELSE steady[lead]]
        /\ missed' = IF (clock + 1) % 2 = 0 THEN Many(missed + Cardinality(OpenTicks)) ELSE missed
      BY <1>2 DEF TimePasses, Period
  <2>2. Cardinality(OpenTicks) \in Nat
    <3>1. IsFiniteSet(OpenTicks)
        BY RemindersAssumption, FS_Subset DEF OpenTicks
    <3>2. QED
        BY <3>1, FS_CardinalityType
  <2>3. missed' \in 0 .. 2
      BY <1>0, <2>1, <2>2 DEF RemindTyped, Many
  <2>4. clock' \in Nat /\ clock' <= startAt' + 1
      BY <1>0, <2>1, RemindersAssumption DEF RemindTyped
  <2>5. steady' \in [Leads -> SUBSET Invited]
      BY <1>0, <2>1 DEF RemindTyped
  <2>6. RemindTyped'
      BY <1>0, <2>1, <2>3, <2>4, <2>5 DEF RemindTyped, Open
  <2>7. QED
      BY <1>0, <1>1, <1>2, <2>6, TimeInTime DEF RemindInv
<1>3. ASSUME NEW w \in Invited, Answer(w) PROVE RemindInv'
  <2>1. /\ accepted' = (accepted \ {w}) \cup ({w} \ accepted)
        /\ steady' = [lead \in Leads |-> steady[lead] \ {w}]
        /\ UNCHANGED <<clock, startAt, reminded, tick, ticked, missed, tickedApart>>
      BY <1>3 DEF Answer
  <2>2. accepted' \subseteq Invited /\ steady' \in [Leads -> SUBSET Invited]
      BY <1>0, <2>1 DEF RemindTyped
  <2>3. RemindTyped'
      BY <1>0, <2>1, <2>2 DEF RemindTyped, Open
  <2>4. QED
      BY <1>0, <1>1, <1>3, <2>3, AnswerInTime DEF RemindInv
<1>4. ASSUME NEW t \in Ticks, BeginTick(t) PROVE RemindInv'
  <2>1. /\ tick[t] = NoTick /\ tick' = [tick EXCEPT ![t].phase = 1] /\ ticked' = TRUE
        /\ tickedApart' = (tickedApart /\ OpenTicks = {})
        /\ UNCHANGED <<clock, startAt, accepted, steady, reminded, missed>>
      BY <1>4 DEF BeginTick
  <2>2. tick \in [Ticks -> TickRuns]
      BY <1>0 DEF RemindTyped
  <2>3. [tick[t] EXCEPT !.phase = 1] \in TickRuns
      BY <2>2 DEF TickRuns
  <2>4. tick' \in [Ticks -> TickRuns] /\ \A u \in Ticks : u # t => tick'[u] = tick[u]
      BY <2>1, <2>2, <2>3
  <2>5. tick'[t].phase = 1
      BY <2>1, <2>2 DEF NoTick, TickRuns
  <2>6. ASSUME NEW u \in Ticks PROVE tick'[u].insert # {} => tick'[u].phase # 0
    <3>1. CASE u = t
        BY <2>5, <3>1
    <3>2. CASE u # t
        BY <1>0, <2>4, <3>2 DEF RemindTyped, Open
    <3>3. QED
        BY <3>1, <3>2
  <2>7. RemindTyped'
      BY <1>0, <2>1, <2>4, <2>6 DEF RemindTyped, Open
  <2>8. QED
      BY <1>0, <1>1, <1>4, <2>7, BeginInTime DEF RemindInv
<1>5. ASSUME NEW t \in Ticks, LookForReminders(t) PROVE RemindInv'
    BY <1>0, <1>1, <1>5, LookInTime DEF RemindInv
<1>6. ASSUME NEW t \in Ticks, InsertReminders(t) PROVE RemindInv'
    BY <1>0, <1>1, <1>6, InsertInTime DEF RemindInv
<1>7. ASSUME NEW t \in Ticks, TickFails(t) PROVE RemindInv'
  <2>1. /\ tick' = [tick EXCEPT ![t] = NoTick] /\ missed' = Many(missed + 1)
        /\ UNCHANGED <<clock, startAt, accepted, steady, reminded, ticked, tickedApart>>
      BY <1>7 DEF TickFails
  <2>2. tick \in [Ticks -> TickRuns] /\ missed \in 0 .. 2
      BY <1>0 DEF RemindTyped
  <2>3. NoTick \in TickRuns /\ NoTick.insert = {}
      BY DEF NoTick, TickRuns
  <2>4. tick' \in [Ticks -> TickRuns] /\ tick'[t].insert = {} /\ \A u \in Ticks : u # t => tick'[u] = tick[u]
      BY <2>1, <2>2, <2>3
  <2>5. missed' \in 0 .. 2
      BY <2>1, <2>2 DEF Many
  <2>6. ASSUME NEW u \in Ticks PROVE tick'[u].insert # {} => tick'[u].phase # 0
      BY <1>0, <2>4 DEF RemindTyped, Open
  <2>7. RemindTyped'
      BY <1>0, <2>1, <2>4, <2>5, <2>6 DEF RemindTyped, Open
  <2>8. QED
      BY <1>0, <1>1, <1>7, <2>7, FailInTime DEF RemindInv
<1>8. CASE UNCHANGED reminderVars
    BY <1>8 DEF reminderVars, RemindInv, RemindTyped, InTime, OneByOne, Open, Goal, Wanted, Opens, First,
                Begun, SomeOnTrack, OnTrack, PhaseOf
<1>9. QED
    BY <1>2, <1>3, <1>4, <1>5, <1>6, <1>7, <1>8 DEF RemindersNext

\* The invariant has the type and the promise of the reminders in it.
LEMMA RemindPromises == RemindInv => RemindersTypeOK /\ RemindedOnce
<1> SUFFICES ASSUME RemindInv PROVE RemindersTypeOK /\ RemindedOnce
    OBVIOUS
<1>1. RemindersTypeOK
    BY PhasesAre DEF RemindInv, RemindTyped, RemindersTypeOK, TickRuns
<1>2. ASSUME NEW lead \in Leads, missed <= 1, clock > startAt - lead + 3
      PROVE  /\ \A w \in steady[lead] : reminded[<<w, lead>>] >= 1
             /\ steady[lead] # {} => reminded[<<Company, lead>>] >= 1
  <2>1. startAt \in Nat /\ clock \in Nat /\ missed \in 0 .. 2
      BY RemindersAssumption DEF RemindInv, RemindTyped
  <2>2. PICK first : first = First(lead)
      OBVIOUS
  <2>3. lead \in Nat /\ first \in Int /\ first <= startAt - lead - 1
      BY <2>1, <2>2, FirstIs
  <2>4. clock >= first + 4
      BY <1>2, <2>1, <2>3
  <2>5. Goal(lead)
      BY <1>2, <2>1, <2>2, <2>4 DEF RemindInv, InTime
  <2>6. QED
      BY <2>5 DEF Goal, Wanted
<1>3. tickedApart => \A l \in Links : reminded[l] <= 1
    BY DEF RemindInv, OneByOne
<1>4. QED
    BY <1>1, <1>2, <1>3 DEF RemindedOnce

\* Who has accepted when the window of a lead opens is reminded when it is over, and the
\* company too, although one run was missed; and nobody twice unless runs overlap.
THEOREM RemindersReach == RemindersSpec => []RemindedOnce
    BY RemindInitInv, RemindNextInv, RemindPromises, PTL DEF RemindersSpec

-----------------------------------------------------------------------------
(***************************************************************************)
(* The parts put together: they share no state, so the invariant of the    *)
(* whole is theirs, and a step of one leaves the others as they are.       *)
(***************************************************************************)

OfficeInv ==
    /\ part \in Parts
    /\ SessionInv /\ SessionCalmOrder
    /\ PasswordInv /\ PasswordCalmOrder
    /\ SignUpsTypeOK
    /\ CompanyInv /\ CompanyCalmOrder /\ CompanyBounds
    /\ CatalogueInv
    /\ PackageInv
    /\ RemindInv
    /\ ViewInv
    /\ ReportInv
    /\ TicketInv
    /\ ReviewInv
    /\ ChatInv
    /\ BuildInv
    /\ MatchInv

\* Every part begins in one of its own initial states.
LEMMA OfficeInitInv == OfficeInit => OfficeInv
<1> SUFFICES ASSUME OfficeInit PROVE OfficeInv
    OBVIOUS
<1>1. /\ part \in Parts
      /\ SessionsInit
      /\ PasswordsInit
      /\ SignUpsInit
      /\ CompaniesInit
      /\ CatalogueInit
      /\ PackagesInit
      /\ RemindersInit
      /\ JobViewsInit
      /\ JobReportsInit
      /\ TicketsInit
      /\ ReviewsInit
      /\ ChatInit
      /\ EmbeddingsInit
      /\ MatchingInit
    BY DEF OfficeInit
<1>2. QED
    BY <1>1, SessionInitInv, SessionCalmInductive, PasswordInitInv, SignUpsInitTyped,
       CompanyInitInv, CompanyInitBounds, CatalogueInitInv, PackageInitInv,
       RemindInitInv, ViewInitInv, ReportInitInv,
       TicketInitInv, ReviewInitInv, ChatInitInv,
       BuildInitInv, MatchInitInv DEF OfficeInv

\* A step of the whole is one of each part, or leaves it as it is.
LEMMA OfficeSteps ==
    ASSUME [OfficeNext]_officeVars
    PROVE  /\ UNCHANGED part
           /\ [SessionsNext]_sessionVars
           /\ [PasswordsNext]_passwordVars
           /\ [SignUpsNext]_signUpVars
           /\ [CompaniesNext]_companyVars
           /\ [CatalogueNext]_catalogueVars
           /\ [PackagesNext]_packageVars
           /\ [RemindersNext]_reminderVars
           /\ [JobViewsNext]_viewVars
           /\ [JobReportsNext]_reportVars
           /\ [TicketsNext]_ticketVars
           /\ [ReviewsNext]_reviewVars
           /\ [ChatNext]_chatVars
           /\ [EmbeddingsNext]_embeddingVars
           /\ [MatchingNext]_matchingVars
<1>1. CASE UNCHANGED officeVars
    BY <1>1 DEF officeVars
<1>2. CASE OfficeNext
  <2>0. UNCHANGED part
      BY <1>2 DEF OfficeNext
  <2>1. [SessionsNext]_sessionVars
      BY <1>2 DEF OfficeNext, Rests
  <2>2. [PasswordsNext]_passwordVars
      BY <1>2 DEF OfficeNext, Rests
  <2>3. [SignUpsNext]_signUpVars
      BY <1>2 DEF OfficeNext, Rests
  <2>4. [CompaniesNext]_companyVars
      BY <1>2 DEF OfficeNext, Rests
  <2>5. [CatalogueNext]_catalogueVars
      BY <1>2 DEF OfficeNext, Rests
  <2>6. [PackagesNext]_packageVars
      BY <1>2 DEF OfficeNext, Rests
  <2>7. [RemindersNext]_reminderVars
      BY <1>2 DEF OfficeNext, Rests
  <2>8. [JobViewsNext]_viewVars
      BY <1>2 DEF OfficeNext, Rests
  <2>9. [JobReportsNext]_reportVars
      BY <1>2 DEF OfficeNext, Rests
  <2>10. [TicketsNext]_ticketVars
      BY <1>2 DEF OfficeNext, Rests
  <2>11. [ReviewsNext]_reviewVars
      BY <1>2 DEF OfficeNext, Rests
  <2>12. [ChatNext]_chatVars
      BY <1>2 DEF OfficeNext, Rests
  <2>13. [EmbeddingsNext]_embeddingVars
      BY <1>2 DEF OfficeNext, Rests
  <2>14. [MatchingNext]_matchingVars
      BY <1>2 DEF OfficeNext, Rests
  <2>15. QED
      BY <2>0, <2>1, <2>2, <2>3, <2>4, <2>5, <2>6, <2>7, <2>8, <2>9, <2>10, <2>11, <2>12, <2>13, <2>14
<1>3. QED
    BY <1>1, <1>2

\* So every step keeps every part's invariant.
LEMMA OfficeNextInv == OfficeInv /\ [OfficeNext]_officeVars => OfficeInv'
<1> SUFFICES ASSUME OfficeInv, [OfficeNext]_officeVars PROVE OfficeInv'
    OBVIOUS
<1>0. /\ UNCHANGED part
      /\ [SessionsNext]_sessionVars
      /\ [PasswordsNext]_passwordVars
      /\ [SignUpsNext]_signUpVars
      /\ [CompaniesNext]_companyVars
      /\ [CatalogueNext]_catalogueVars
      /\ [PackagesNext]_packageVars
      /\ [RemindersNext]_reminderVars
      /\ [JobViewsNext]_viewVars
      /\ [JobReportsNext]_reportVars
      /\ [TicketsNext]_ticketVars
      /\ [ReviewsNext]_reviewVars
      /\ [ChatNext]_chatVars
      /\ [EmbeddingsNext]_embeddingVars
      /\ [MatchingNext]_matchingVars
    BY OfficeSteps
<1>a. /\ part \in Parts
      /\ SessionInv /\ SessionCalmOrder
      /\ PasswordInv /\ PasswordCalmOrder
      /\ SignUpsTypeOK
      /\ CompanyInv /\ CompanyCalmOrder /\ CompanyBounds
      /\ CatalogueInv
      /\ PackageInv
      /\ RemindInv
      /\ ViewInv
      /\ ReportInv
      /\ TicketInv
      /\ ReviewInv
      /\ ChatInv
      /\ BuildInv
      /\ MatchInv
    BY DEF OfficeInv
<1>1. (SessionInv /\ SessionCalmOrder)'
    BY <1>0, <1>a, SessionNextInv, SessionCalmInductive
<1>2. (PasswordInv /\ PasswordCalmOrder)'
    BY <1>0, <1>a, PasswordNextInv, PasswordNextCalm
<1>3. (SignUpsTypeOK)'
    BY <1>0, <1>a, SignUpsNextTyped
<1>4. (CompanyInv /\ CompanyCalmOrder /\ CompanyBounds)'
    BY <1>0, <1>a, CompanyNextInv, CompanyNextCalm, CompanyNextBounds
<1>5. (CatalogueInv)'
    BY <1>0, <1>a, CatalogueNextInv
<1>6. (PackageInv)'
    BY <1>0, <1>a, PackageNextInv
<1>7. (RemindInv)'
    BY <1>0, <1>a, RemindNextInv
<1>8. (ViewInv)'
    BY <1>0, <1>a, ViewNextInv
<1>9. (ReportInv)'
    BY <1>0, <1>a, ReportNextInv
<1>10. (TicketInv)'
    BY <1>0, <1>a, TicketNextInv
<1>11. (ReviewInv)'
    BY <1>0, <1>a, ReviewNextInv
<1>12. (ChatInv)'
    BY <1>0, <1>a, ChatNextInv
<1>13. (BuildInv)'
    BY <1>0, <1>a, BuildNextInv
<1>14. (MatchInv)'
    BY <1>0, <1>a, MatchNextInv
<1>15. QED
    BY <1>0, <1>a, <1>1, <1>2, <1>3, <1>4, <1>5, <1>6, <1>7, <1>8, <1>9, <1>10, <1>11, <1>12, <1>13, <1>14 DEF OfficeInv

\* What the parts promise, in one.
LEMMA OfficePromises ==
    OfficeInv => /\ OfficeTypeOK /\ FeedbackAddsUp
                 /\ TokensRotate /\ PasswordsHold /\ ReviewComesFirst /\ CopiesFollowEdits
                 /\ OffersUnambiguous /\ RemindedOnce /\ NothingMissed /\ MatchedByItsText
                 /\ ScoresCompare
<1> SUFFICES ASSUME OfficeInv
             PROVE  /\ OfficeTypeOK /\ FeedbackAddsUp
                    /\ TokensRotate /\ PasswordsHold /\ ReviewComesFirst /\ CopiesFollowEdits
                    /\ OffersUnambiguous /\ RemindedOnce /\ NothingMissed /\ MatchedByItsText
                    /\ ScoresCompare
    OBVIOUS
<1>1. /\ part \in Parts
      /\ SessionInv /\ SessionCalmOrder
      /\ PasswordInv /\ PasswordCalmOrder
      /\ SignUpsTypeOK
      /\ CompanyInv /\ CompanyCalmOrder /\ CompanyBounds
      /\ CatalogueInv
      /\ PackageInv
      /\ RemindInv
      /\ ViewInv
      /\ ReportInv
      /\ TicketInv
      /\ ReviewInv
      /\ ChatInv
      /\ BuildInv
      /\ MatchInv
    BY DEF OfficeInv
<1>2. QED
    BY <1>1, SessionPromises, PasswordPromises, CompanyPromises, CataloguePromises,
       PackagePromises, RemindPromises, ViewPromises, ReportPromises,
       TicketPromises, ReviewPromises, ChatPromises, BuildPromises,
       MatchPromises DEF OfficeTypeOK, FeedbackAddsUp

\* Every variable of every part keeps its domain, whichever part the behaviour is one of.
THEOREM OfficeTyped == OfficeSpec => []OfficeTypeOK
    BY OfficeInitInv, OfficeNextInv, OfficePromises, PTL DEF OfficeSpec

\* The feedback of users adds up: views with their counter, reports with what is told of
\* them, tickets with their time of resolution, reports of reviews with the reviews.
THEOREM OfficeFeedback == OfficeSpec => []FeedbackAddsUp
    BY OfficeInitInv, OfficeNextInv, OfficePromises, PTL DEF OfficeSpec

\* The other promises of the run hold of the whole as they hold of their parts.
THEOREM OfficeKeepsPromises ==
    OfficeSpec => [](/\ TokensRotate /\ PasswordsHold /\ ReviewComesFirst /\ CopiesFollowEdits
                     /\ OffersUnambiguous /\ RemindedOnce /\ NothingMissed /\ MatchedByItsText
                     /\ ScoresCompare)
    BY OfficeInitInv, OfficeNextInv, OfficePromises, PTL DEF OfficeSpec
=============================================================================
