-------------------------------- MODULE JobViews --------------------------------
(***************************************************************************)
(* The view counter of one posting: a visit from an address counts once in *)
(* a day.  getDetail answers first and lets recordView run on its own: it  *)
(* looks for a view of the last day, and inserts one later.                *)
(***************************************************************************)
EXTENDS Integers, FiniteSets

CONSTANTS
    Addresses,      \* IP addresses
    Recorders,      \* recordViews that may be running at once
    MaxViews        \* bound on the views of an address

NotRecording == "none"
ASSUME JobViewsAssumption ==
    /\ IsFiniteSet(Addresses) /\ NotRecording \notin Addresses
    /\ IsFiniteSet(Recorders) /\ MaxViews \in Nat

VARIABLES
    today, before,  \* JobView rows, of the last day and older: an address and a number
    viewCount,      \* Job.viewCount
    recording,      \* addresses of the running recordViews, that found no view
    viewsApart      \* no two of them ran at once for one address

viewVars == <<today, before, viewCount, recording, viewsApart>>

-----------------------------------------------------------------------------
RowsOf(a) == {r \in today \cup before : r[1] = a}
NewRow(a) == <<a, Cardinality(RowsOf(a)) + 1>>

JobViewsInit ==
    /\ today = {} /\ before = {}
    /\ viewCount = 0
    /\ recording = [v \in Recorders |-> NotRecording]
    /\ viewsApart = TRUE

NeverSeen(a) == FALSE                                             \* mutant
SeenToday(a) == \E r \in today : r[1] = a

VisitDetail(v, a) ==
    /\ recording[v] = NotRecording
    /\ ~SeenToday(a)
    /\ Cardinality(RowsOf(a)) + Cardinality(Recorders) < MaxViews
    /\ recording' = [recording EXCEPT ![v] = a]
    /\ viewsApart' = (viewsApart /\ \A u \in Recorders : recording[u] # a)
    /\ UNCHANGED <<today, before, viewCount>>

\* One transaction; the visitor never hears of its failure.
RecordView(v) ==
    LET a == recording[v] IN
    /\ a # NotRecording
    /\ today' = today \cup {NewRow(a)}
    /\ viewCount' = viewCount + 1
    /\ recording' = [recording EXCEPT ![v] = NotRecording]
    /\ UNCHANGED <<before, viewsApart>>
RecordFails(v) ==
    /\ recording[v] # NotRecording
    /\ recording' = [recording EXCEPT ![v] = NotRecording]
    /\ UNCHANGED <<today, before, viewCount, viewsApart>>

DayEnds(a) ==
    /\ SeenToday(a)
    /\ before' = before \cup {r \in today : r[1] = a}
    /\ today' = {r \in today : r[1] # a}
    /\ UNCHANGED <<viewCount, recording, viewsApart>>

JobViewsNext ==
    \/ \E v \in Recorders : (\E a \in Addresses : VisitDetail(v, a)) \/ RecordView(v) \/ RecordFails(v)
    \/ \E a \in Addresses : DayEnds(a)
JobViewsSpec == JobViewsInit /\ [][JobViewsNext]_viewVars

-----------------------------------------------------------------------------
JobViewsTypeOK ==
    /\ today \subseteq Addresses \X Nat /\ before \subseteq Addresses \X Nat
    /\ viewCount \in Nat
    /\ recording \in [Recorders -> Addresses \cup {NotRecording}]
    /\ viewsApart \in BOOLEAN

\* The counter is the number of views, and an address has one view in a day, or
\* as many as there were visits at once that had not found each other's.
ViewsCounted ==
    /\ viewCount = Cardinality(today \cup before)
    /\ \A a \in Addresses :
          Cardinality({r \in today : r[1] = a}) <= (IF viewsApart THEN 1 ELSE Cardinality(Recorders))
=============================================================================
