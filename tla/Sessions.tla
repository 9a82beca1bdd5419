------------------------------- MODULE Sessions -------------------------------
(***************************************************************************)
(* The sessions of one account: each log-in makes one, its tokens carry an *)
(* id (jti) that every refresh replaces, and it is revoked by logging out  *)
(* or by deleting the account.  Reading and writing a session are separate *)
(* calls of the database.                                                  *)
(***************************************************************************)
EXTENDS Integers, FiniteSets

CONSTANTS
    SessionIds,     \* sessions the account may have
    SessionCalls,   \* calls that may be open at once
    NoSession,      \* what an idle call is about
    MaxJti          \* bound on the tokens issued for a session

ASSUME SessionsAssumption ==
    /\ IsFiniteSet(SessionCalls)
    /\ NoSession \notin SessionIds
    /\ MaxJti \in Nat \ {0}

VARIABLES
    status,         \* user.status
    session,        \* state, jti and number of issued tokens of each session
    exchanged,      \* for each session the jtis that were refreshed, and how often
    sessionPc,      \* where each call stands
    sessionReq,     \* its session and the jti of the token it came with
    selfDeleted,    \* the user has deleted the account and nobody changed its status since
    sessionCalm     \* no call was overtaken by another

sessionVars == <<status, session, exchanged, sessionPc, sessionReq, selfDeleted, sessionCalm>>

-----------------------------------------------------------------------------
SessionState == {"none", "live", "revoked", "expired"}
SessionPlace == {"idle", "loggingIn", "validated", "refreshing", "deleting", "revoking"}
NoCall == [session |-> NoSession, jti |-> 0]
Calling == {q \in SessionCalls : sessionPc[q] # "idle"}
LiveSessions == {s \in SessionIds : session[s].state = "live"}
Unused == {s \in SessionIds : session[s].state = "none"}

SessionsInit ==
    /\ status = "ACTIVE"
    /\ session = [s \in SessionIds |-> [state |-> "none", jti |-> 0, issued |-> 0]]
    /\ exchanged = [s \in SessionIds |-> [n \in 1 .. MaxJti |-> 0]]
    /\ sessionPc = [q \in SessionCalls |-> "idle"]
    /\ sessionReq = [q \in SessionCalls |-> NoCall]
    /\ selfDeleted = FALSE
    /\ sessionCalm = TRUE

CallGoes(q, place, what) ==
    /\ sessionPc' = [sessionPc EXCEPT ![q] = place]
    /\ sessionReq' = [sessionReq EXCEPT ![q] = what]
CallEnds(q) == CallGoes(q, "idle", NoCall)
Uninterrupted == sessionCalm' = (sessionCalm /\ Calling = {})
CallArrives(q, place, what) ==
    /\ sessionPc[q] = "idle"
    /\ CallGoes(q, place, what)
    /\ Uninterrupted

-----------------------------------------------------------------------------
\* Whoever logs in, by password or by Google, must be ACTIVE.
ReceiveLogin(q) ==
    /\ status = "ACTIVE"
    /\ CallArrives(q, "loggingIn", NoCall)
    /\ UNCHANGED <<status, session, exchanged, selfDeleted>>

\* A session begins and goes on with two tokens of one jti, fresh each time.
FirstTokens == [state |-> "live", jti |-> 1, issued |-> 1]
NextTokens(s) == [session[s] EXCEPT !.jti = session[s].issued + 1, !.issued = @ + 1]

\* createTokenAndSession.
CreateSession(q) ==
    /\ sessionPc[q] = "loggingIn"
    /\ \E s \in Unused : session' = [session EXCEPT ![s] = FirstTokens]
    /\ CallEnds(q)
    /\ UNCHANGED <<status, exchanged, selfDeleted, sessionCalm>>

AnyJti(s, jti) == s \in LiveSessions                              \* mutant
Valid(s, jti) == s \in LiveSessions /\ session[s].jti = jti

\* validateJwtAccessStrategy: whether an access token opens the other routes.
Admitted(s, jti) == Valid(s, jti)

\* validateJwtRefreshStrategy: the guard of the request.
ReceiveRefresh(q, s, jti) ==
    /\ Valid(s, jti)
    /\ CallArrives(q, "validated", [session |-> s, jti |-> jti])
    /\ UNCHANGED <<status, session, exchanged, selfDeleted>>

\* refreshToken reads the session again and compares ...
CheckSession(q) ==
    /\ sessionPc[q] = "validated"
    /\ IF Valid(sessionReq[q].session, sessionReq[q].jti)
       THEN CallGoes(q, "refreshing", sessionReq[q])
       ELSE CallEnds(q)
    /\ UNCHANGED <<status, session, exchanged, selfDeleted, sessionCalm>>

\* ... and writes the new jti by id alone; it leaves isRevoked as it is.
UpdateLogin(q) ==
    LET s == sessionReq[q].session IN
    /\ sessionPc[q] = "refreshing"
    /\ session[s].issued < MaxJti
    /\ session' = [session EXCEPT ![s] = NextTokens(s)]
    /\ exchanged' = [exchanged EXCEPT ![s][sessionReq[q].jti] = @ + 1]
    /\ CallEnds(q)
    /\ UNCHANGED <<status, selfDeleted, sessionCalm>>

\* logout, by a live session.
Logout(s) ==
    /\ s \in LiveSessions
    /\ session' = [session EXCEPT ![s].state = "revoked"]
    /\ Uninterrupted
    /\ UNCHANGED <<status, exchanged, sessionPc, sessionReq, selfDeleted>>

-----------------------------------------------------------------------------
\* userDeleteAccount: read the user, revoke all sessions, rename and delete.
ReceiveDeletion(q) ==
    /\ status = "ACTIVE"
    /\ CallArrives(q, "revoking", NoCall)
    /\ UNCHANGED <<status, session, exchanged, selfDeleted>>

RevokedNone == session                                            \* mutant
RevokedAll ==
    [s \in SessionIds |-> IF session[s].state = "none" THEN session[s]
                          ELSE [session[s] EXCEPT !.state = "revoked"]]

RevokeAll(q) ==
    /\ sessionPc[q] = "revoking"
    /\ session' = RevokedAll
    /\ CallGoes(q, "deleting", NoCall)
    /\ UNCHANGED <<status, exchanged, selfDeleted, sessionCalm>>

UserDelete(q) ==
    /\ sessionPc[q] = "deleting"
    /\ status' = "DELETED"
    /\ selfDeleted' = TRUE
    /\ CallEnds(q)
    /\ UNCHANGED <<session, exchanged, sessionCalm>>

\* updateUserStatus, by the administrator: the sessions stay.
UpdateUserStatus(new) ==
    /\ new # status
    /\ status' = new
    /\ selfDeleted' = FALSE
    /\ Uninterrupted
    /\ UNCHANGED <<session, exchanged, sessionPc, sessionReq>>

SessionExpires(s) ==
    /\ s \in LiveSessions
    /\ session' = [session EXCEPT ![s].state = "expired"]
    /\ Uninterrupted
    /\ UNCHANGED <<status, exchanged, sessionPc, sessionReq, selfDeleted>>

CallFails(q) ==
    /\ sessionPc[q] # "idle"
    /\ CallEnds(q)
    /\ UNCHANGED <<status, session, exchanged, selfDeleted, sessionCalm>>

SessionsNext ==
    \/ \E q \in SessionCalls :
          \/ ReceiveLogin(q) \/ CreateSession(q)
          \/ \E s \in SessionIds, jti \in 1 .. MaxJti :
                jti <= session[s].issued /\ ReceiveRefresh(q, s, jti)
          \/ CheckSession(q) \/ UpdateLogin(q)
          \/ ReceiveDeletion(q) \/ RevokeAll(q) \/ UserDelete(q)
          \/ CallFails(q)
    \/ \E s \in SessionIds : Logout(s) \/ SessionExpires(s)
    \/ \E new \in {"ACTIVE", "DELETED"} : UpdateUserStatus(new)

SessionsSpec == SessionsInit /\ [][SessionsNext]_sessionVars

-----------------------------------------------------------------------------
SessionsTypeOK ==
    /\ status \in {"ACTIVE", "DELETED"}
    /\ session \in [SessionIds -> [state : SessionState, jti : 0 .. MaxJti, issued : 0 .. MaxJti]]
    /\ exchanged \in [SessionIds -> [1 .. MaxJti -> Nat]]
    /\ sessionPc \in [SessionCalls -> SessionPlace]
    /\ sessionReq \in [SessionCalls -> [session : SessionIds \cup {NoSession}, jti : 0 .. MaxJti]]
    /\ selfDeleted \in BOOLEAN /\ sessionCalm \in BOOLEAN

\* A token is exchanged for new ones by no more calls than were open at once, and
\* once only while calls do not overlap (refreshToken compares the jti and then
\* writes without a condition).  From its first exchange on the token that went with
\* it opens nothing.  An account its user has deleted keeps no live session unless
\* calls overlapped (a log-in that was let in before the deletion makes its session
\* after it).
TokensRotate ==
    /\ \A s \in SessionIds, n \in 1 .. MaxJti :
          exchanged[s][n] <= (IF sessionCalm THEN 1 ELSE Cardinality(SessionCalls))
    /\ \A s \in SessionIds, n \in 1 .. MaxJti : exchanged[s][n] > 0 => ~Admitted(s, n)
    /\ sessionCalm /\ selfDeleted => LiveSessions = {}
=============================================================================
