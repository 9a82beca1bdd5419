----------------------------- MODULE AccountsProofs -----------------------------
(***************************************************************************)
(* The accounts: how often a token of a session is exchanged, how far the  *)
(* counter of wrong passwords goes and how often a mailed token sets the   *)
(* password, and the domains of the sign-ups; for any number of people,    *)
(* sessions, tokens and calls.                                             *)
(***************************************************************************)
EXTENDS Sessions, Passwords, SignUps, FiniteSetTheorems, TLAPS

-----------------------------------------------------------------------------
(***************************************************************************)
(* The sessions of an account for any number of sessions, calls and        *)
(* tokens: how often a token can be exchanged for new ones.                *)
(*                                                                         *)
(* A token whose jti has been exchanged is older than the session's, and   *)
(* stays so: no further call gets past the comparison with it.  The calls  *)
(* that were past it count against its bound from the moment they are.     *)
(***************************************************************************)

SessionRow == [state : SessionState, jti : 0 .. MaxJti, issued : 0 .. MaxJti]
SessionCall == [session : SessionIds \cup {NoSession}, jti : 0 .. MaxJti]
Jtis == 1 .. MaxJti

\* The calls that are past the comparison with token n of session s.
Refreshing(s, n) ==
    {q \in SessionCalls : sessionPc[q] = "refreshing" /\ sessionReq[q] = [session |-> s, jti |-> n]}

SessionTyped ==
    /\ status \in {"ACTIVE", "DELETED"}
    /\ session \in [SessionIds -> SessionRow]
    /\ exchanged \in [SessionIds -> [Jtis -> Nat]]
    /\ sessionPc \in [SessionCalls -> SessionPlace]
    /\ sessionReq \in [SessionCalls -> SessionCall]
    /\ selfDeleted \in BOOLEAN /\ sessionCalm \in BOOLEAN

\* A call that refreshes came with a token that was issued for an existing session.
Refreshers ==
    \A q \in SessionCalls :
        sessionPc[q] \in {"validated", "refreshing"} =>
            /\ sessionReq[q].session \in SessionIds \ Unused
            /\ sessionReq[q].jti \in Jtis
            /\ sessionReq[q].jti <= session[sessionReq[q].session].issued

Rotated ==
    \A s \in SessionIds :
        /\ session[s].jti <= session[s].issued
        /\ \A n \in Jtis :
              /\ exchanged[s][n] > 0 => n < session[s].jti /\ s \notin Unused
              /\ exchanged[s][n] + Cardinality(Refreshing(s, n)) <= Cardinality(SessionCalls)

SessionInv == SessionTyped /\ Refreshers /\ Rotated

\* In calm a call in progress is the only one, and what it has compared, read of the
\* account or done to the sessions still stands.
SessionFresh(q) ==
    /\ sessionPc[q] = "refreshing" =>
          sessionReq[q].jti = session[sessionReq[q].session].jti
    /\ sessionPc[q] = "loggingIn" => status = "ACTIVE"
    /\ sessionPc[q] = "deleting" => LiveSessions = {}
SessionCalmOrder ==
    /\ selfDeleted => status = "DELETED"
    /\ sessionCalm =>
          /\ \A s \in SessionIds, n \in Jtis : exchanged[s][n] <= 1
          /\ selfDeleted => LiveSessions = {}
          /\ \A q \in Calling : (\A p \in SessionCalls \ {q} : sessionPc[p] = "idle") /\ SessionFresh(q)

-----------------------------------------------------------------------------
\* A call that is idle is well formed.
LEMMA SessionCallsTyped == NoCall \in SessionCall /\ NoCall.session = NoSession
    BY SessionsAssumption DEF NoCall, SessionCall

\* What a call does to the control state.
LEMMA SessionMoves ==
    ASSUME SessionTyped, NEW q \in SessionCalls, NEW place \in SessionPlace, NEW what \in SessionCall,
           CallGoes(q, place, what)
    PROVE  /\ sessionPc' \in [SessionCalls -> SessionPlace] /\ sessionReq' \in [SessionCalls -> SessionCall]
           /\ sessionPc'[q] = place /\ sessionReq'[q] = what
           /\ \A p \in SessionCalls \ {q} : sessionPc'[p] = sessionPc[p] /\ sessionReq'[p] = sessionReq[p]
    BY DEF SessionTyped, CallGoes

\* The calls past the comparison are a finite set, of the calls at most.
LEMMA RefreshingFinite ==
    ASSUME NEW s, NEW n
    PROVE  /\ IsFiniteSet(Refreshing(s, n)) /\ Cardinality(Refreshing(s, n)) \in Nat
           /\ Cardinality(Refreshing(s, n)) <= Cardinality(SessionCalls)
           /\ Cardinality(SessionCalls) \in Nat
    BY FS_Subset, FS_CardinalityType, SessionsAssumption DEF Refreshing

\* So they are after a step, and no more of them if it adds none.
LEMMA RefreshingAfter ==
    ASSUME NEW s, NEW n, Refreshing(s, n)' \subseteq SessionCalls
    PROVE  /\ IsFiniteSet(Refreshing(s, n)') /\ Cardinality(Refreshing(s, n)') \in Nat
           /\ Cardinality(Refreshing(s, n)') <= Cardinality(SessionCalls)
           /\ (Refreshing(s, n)' \subseteq Refreshing(s, n) =>
                  Cardinality(Refreshing(s, n)') <= Cardinality(Refreshing(s, n)))
    BY FS_Subset, FS_CardinalityType, SessionsAssumption, RefreshingFinite

-----------------------------------------------------------------------------
(* The bound that holds under every overlap.                               *)

\* A call that arrives, or ends without having refreshed: the tokens stay, and a
\* session may begin or change its state.
LEMMA SessionStepsAside ==
    ASSUME SessionInv, NEW q \in SessionCalls, NEW place \in SessionPlace, NEW what \in SessionCall,
           CallGoes(q, place, what), place # "refreshing",
           place = "validated" => /\ what.session \in SessionIds \ Unused
                                  /\ what.jti \in Jtis /\ what.jti <= session[what.session].issued,
           UNCHANGED exchanged,
           status' \in {"ACTIVE", "DELETED"}, selfDeleted' \in BOOLEAN, sessionCalm' \in BOOLEAN,
           session' \in [SessionIds -> SessionRow],
           \A s \in SessionIds \ Unused : /\ session'[s].jti = session[s].jti
                                          /\ session'[s].issued = session[s].issued
                                          /\ session'[s].state # "none",
           \A s \in Unused : session'[s] = session[s] \/ session'[s] = FirstTokens
    PROVE  SessionInv'
<1> USE DEF SessionInv
<1>1. SessionTyped'
    BY SessionMoves DEF SessionTyped
<1>2. Refreshers'
  <2>1. ASSUME NEW p \in SessionCalls, sessionPc'[p] \in {"validated", "refreshing"}
        PROVE  /\ sessionReq'[p].session \in SessionIds \ Unused /\ sessionReq'[p].jti \in Jtis
               /\ sessionReq'[p].jti <= session[sessionReq'[p].session].issued
    <3>1. CASE p = q
        BY <2>1, <3>1, SessionMoves
    <3>2. CASE p # q
        BY <2>1, <3>2, SessionMoves DEF Refreshers
    <3>3. QED
        BY <3>1, <3>2
  <2>2. QED
      BY <2>1 DEF Refreshers, Unused
<1>3. \A s \in SessionIds, n \in Jtis : Refreshing(s, n)' \subseteq Refreshing(s, n)
    BY SessionMoves DEF Refreshing
<1>4. Rotated'
  <2>1. ASSUME NEW s \in SessionIds PROVE session'[s].jti <= session'[s].issued
      BY DEF Rotated, FirstTokens, Unused
  <2>2. ASSUME NEW s \in SessionIds, NEW n \in Jtis
        PROVE  /\ exchanged'[s][n] > 0 => n < session'[s].jti /\ s \notin Unused'
               /\ exchanged'[s][n] + Cardinality(Refreshing(s, n)') <= Cardinality(SessionCalls)
    <3>1. exchanged[s][n] \in Nat
        BY DEF SessionTyped
    <3>2. Refreshing(s, n)' \subseteq SessionCalls
        BY <1>3 DEF Refreshing
    <3>3. exchanged[s][n] + Cardinality(Refreshing(s, n)') <= Cardinality(SessionCalls)
        BY <1>3, <3>1, <3>2, RefreshingAfter, RefreshingFinite DEF Rotated
    <3>4. exchanged[s][n] > 0 => n < session'[s].jti /\ s \notin Unused'
        BY DEF Rotated, Unused
    <3>5. QED
        BY <3>3, <3>4
  <2>3. QED
      BY <2>1, <2>2 DEF Rotated
<1>5. QED
    BY <1>1, <1>2, <1>4

\* A step of no call, that changes states of sessions only.
LEMMA SessionNoCallMoves ==
    ASSUME SessionInv, UNCHANGED <<exchanged, sessionPc, sessionReq>>,
           status' \in {"ACTIVE", "DELETED"}, selfDeleted' \in BOOLEAN, sessionCalm' \in BOOLEAN,
           session' \in [SessionIds -> SessionRow],
           \A s \in SessionIds : /\ session'[s].jti = session[s].jti
                                 /\ session'[s].issued = session[s].issued
                                 /\ session'[s].state = "none" <=> session[s].state = "none"
    PROVE  SessionInv'
<1> USE DEF SessionInv
<1>1. SessionTyped'
    BY DEF SessionTyped
<1>2. Unused' = Unused
    BY DEF Unused
<1>3. Refreshers'
    BY <1>2 DEF Refreshers
<1>4. \A s \in SessionIds, n \in Jtis : Refreshing(s, n)' = Refreshing(s, n)
    BY DEF Refreshing
<1>5. Rotated'
    BY <1>2, <1>4 DEF Rotated
<1>6. QED
    BY <1>1, <1>3, <1>5

\* Past the comparison: none has exchanged the session's present token yet.
LEMMA CheckSessionInv ==
    ASSUME SessionInv, NEW q \in SessionCalls, CheckSession(q)
    PROVE  SessionInv'
<1> USE DEF SessionInv
<1>1. /\ sessionPc[q] = "validated" /\ sessionReq[q] \in SessionCall
      /\ UNCHANGED <<status, session, exchanged, selfDeleted, sessionCalm>>
    BY DEF CheckSession, SessionTyped
<1>2. CASE CallEnds(q)
  <2>1. CallGoes(q, "idle", NoCall)
      BY <1>2 DEF CallEnds
  <2>2. QED
      BY <1>1, <2>1, SessionCallsTyped, SessionStepsAside DEF SessionPlace, SessionTyped, Unused
<1>3. CASE ~CallEnds(q)
  <2>1. PICK s \in SessionIds, n \in Jtis : sessionReq[q] = [session |-> s, jti |-> n]
      BY <1>1 DEF Refreshers, SessionCall
  <2>2. CallGoes(q, "refreshing", sessionReq[q]) /\ session[s].jti = n
      BY <1>3, <2>1 DEF CheckSession, Valid
  <2>3. SessionTyped'
      BY <1>1, <2>2, SessionMoves DEF SessionTyped, SessionPlace
  <2>4. Refreshers'
    <3>1. /\ sessionReq' = sessionReq /\ Unused' = Unused
          /\ \A p \in SessionCalls : sessionPc'[p] \in {"validated", "refreshing"}
                <=> sessionPc[p] \in {"validated", "refreshing"}
        BY <1>1, <2>2 DEF SessionTyped, CallGoes, Unused
    <3>2. QED
        BY <1>1, <3>1 DEF Refreshers
  <2>5. ASSUME NEW t \in SessionIds, NEW m \in Jtis, <<t, m>> # <<s, n>>
        PROVE  Refreshing(t, m)' = Refreshing(t, m)
    <3>1. sessionReq[q] # [session |-> t, jti |-> m]
        BY <2>1, <2>5
    <3>2. QED
        BY <1>1, <2>2, <3>1, SessionMoves DEF Refreshing, SessionPlace
  <2>6. exchanged[s][n] = 0
    <3>1. exchanged[s][n] \in Nat /\ ~(n < session[s].jti)
        BY <2>2, SessionsAssumption DEF SessionTyped, Jtis
    <3>2. QED
        BY <3>1 DEF Rotated
  <2>7. exchanged[s][n] + Cardinality(Refreshing(s, n)') <= Cardinality(SessionCalls)
    <3>1. Refreshing(s, n)' \subseteq SessionCalls
        BY DEF Refreshing
    <3>2. /\ Cardinality(Refreshing(s, n)') \in Nat
          /\ Cardinality(Refreshing(s, n)') <= Cardinality(SessionCalls)
        BY <3>1, RefreshingAfter
    <3>3. QED
        BY <2>6, <3>2, RefreshingFinite
  <2>8. Rotated'
      BY <1>1, <2>5, <2>7 DEF Rotated, Unused
  <2>9. QED
      BY <2>3, <2>4, <2>8
<1>4. QED
    BY <1>2, <1>3

\* The exchange: one call less that may, and the token is out of date from now on.
LEMMA UpdateLoginInv ==
    ASSUME SessionInv, NEW q \in SessionCalls, UpdateLogin(q)
    PROVE  SessionInv'
<1> USE DEF SessionInv
<1>1. /\ sessionPc[q] = "refreshing" /\ sessionReq[q] \in SessionCall
      /\ CallGoes(q, "idle", NoCall) /\ UNCHANGED <<status, selfDeleted, sessionCalm>>
    BY DEF UpdateLogin, SessionTyped, CallEnds
<1>2. PICK s \in SessionIds, n \in Jtis : sessionReq[q] = [session |-> s, jti |-> n]
    BY <1>1 DEF Refreshers, SessionCall
<1>3. /\ s \notin Unused /\ n <= session[s].issued /\ session[s].issued < MaxJti
      /\ session' = [session EXCEPT ![s] = NextTokens(s)]
      /\ exchanged' = [exchanged EXCEPT ![s][n] = @ + 1]
    BY <1>1, <1>2 DEF UpdateLogin, Refreshers
<1>4. /\ session'[s] \in SessionRow /\ session'[s].jti = session[s].issued + 1
      /\ session'[s].issued = session[s].issued + 1 /\ session'[s].state = session[s].state
      /\ session[s].jti <= session[s].issued
  <2>1. session[s] \in SessionRow /\ session[s].issued \in 0 .. MaxJti /\ MaxJti \in Nat
      BY SessionsAssumption DEF SessionTyped, SessionRow
  <2>2. session'[s] = NextTokens(s) /\ session[s].issued + 1 \in 0 .. MaxJti
      BY <1>3, <2>1 DEF SessionTyped
  <2>3. QED
      BY <2>1, <2>2 DEF NextTokens, SessionRow, Rotated
<1>5. \A t \in SessionIds : t # s => session'[t] = session[t] /\ exchanged'[t] = exchanged[t]
    BY <1>3 DEF SessionTyped
<1>6. Unused' = Unused
    BY <1>4, <1>5 DEF Unused
<1>7. /\ exchanged'[s][n] = exchanged[s][n] + 1
      /\ \A m \in Jtis : m # n => exchanged'[s][m] = exchanged[s][m]
      /\ exchanged' \in [SessionIds -> [Jtis -> Nat]]
    BY <1>3 DEF SessionTyped
<1>8. SessionTyped'
  <2>1. session' \in [SessionIds -> SessionRow]
      BY <1>3, <1>4 DEF SessionTyped
  <2>2. QED
      BY <1>1, <1>7, <2>1, SessionCallsTyped, SessionMoves DEF SessionTyped, SessionPlace
<1>9. \A t \in SessionIds : session[t].issued <= session'[t].issued /\ session[t].issued \in Nat
  <2>1. \A t \in SessionIds : session[t].issued \in 0 .. MaxJti /\ session'[t].issued \in 0 .. MaxJti
      BY <1>8 DEF SessionTyped, SessionRow
  <2>2. QED
      BY <1>4, <1>5, <2>1, SessionsAssumption
<1>10. Refreshers'
  <2>1. ASSUME NEW p \in SessionCalls, sessionPc'[p] \in {"validated", "refreshing"}
        PROVE  /\ sessionReq'[p].session \in SessionIds \ Unused /\ sessionReq'[p].jti \in Jtis
               /\ sessionReq'[p].jti <= session'[sessionReq'[p].session].issued
    <3>1. p # q
        BY <1>1, <2>1, SessionCallsTyped, SessionMoves DEF SessionPlace
    <3>2. sessionPc'[p] = sessionPc[p] /\ sessionReq'[p] = sessionReq[p]
        BY <1>1, <3>1, SessionCallsTyped, SessionMoves DEF SessionPlace
    <3>3. /\ sessionReq[p].session \in SessionIds \ Unused /\ sessionReq[p].jti \in Jtis
          /\ sessionReq[p].jti <= session[sessionReq[p].session].issued
        BY <2>1, <3>2 DEF Refreshers
    <3>4. /\ session'[sessionReq[p].session].issued \in 0 .. MaxJti
          /\ session[sessionReq[p].session].issued \in 0 .. MaxJti
        BY <1>8, <3>3 DEF SessionTyped, SessionRow
    <3>5. QED
        BY <1>9, <3>2, <3>3, <3>4, SessionsAssumption DEF Jtis
  <2>2. QED
      BY <1>6, <2>1 DEF Refreshers
<1>11. /\ Refreshing(s, n)' = Refreshing(s, n) \ {q} /\ q \in Refreshing(s, n)
       /\ \A t \in SessionIds, m \in Jtis : Refreshing(t, m)' \subseteq Refreshing(t, m)
    BY <1>1, <1>2, SessionCallsTyped, SessionMoves DEF Refreshing, SessionPlace
<1>12. Rotated'
  <2>1. ASSUME NEW t \in SessionIds
        PROVE  /\ session'[t].jti <= session'[t].issued
               /\ session[t].jti <= session'[t].jti
    <3>1. session[t].jti \in 0 .. MaxJti /\ session[t].issued \in 0 .. MaxJti
        BY DEF SessionTyped, SessionRow
    <3>2. QED
        BY <1>4, <1>5, <3>1, SessionsAssumption DEF Rotated
  <2>2. ASSUME NEW t \in SessionIds, NEW m \in Jtis, exchanged'[t][m] > 0
        PROVE  m < session'[t].jti /\ t \notin Unused
    <3>1. session[t].jti \in 0 .. MaxJti /\ session'[t].jti \in 0 .. MaxJti /\ session[t].issued \in 0 .. MaxJti
        BY <1>8 DEF SessionTyped, SessionRow
    <3>2. CASE t = s /\ m = n
        BY <1>3, <1>4, <3>1, <3>2, SessionsAssumption DEF Jtis
    <3>3. CASE ~(t = s /\ m = n)
      <4>1. exchanged[t][m] > 0
          BY <1>5, <1>7, <2>2, <3>3
      <4>2. m < session[t].jti /\ t \notin Unused
          BY <4>1 DEF Rotated
      <4>3. QED
          BY <2>1, <3>1, <4>2, SessionsAssumption DEF Jtis
    <3>4. QED
        BY <3>2, <3>3
  <2>3. ASSUME NEW t \in SessionIds, NEW m \in Jtis
        PROVE  exchanged'[t][m] + Cardinality(Refreshing(t, m)') <= Cardinality(SessionCalls)
    <3>1. /\ exchanged[t][m] + Cardinality(Refreshing(t, m)) <= Cardinality(SessionCalls)
          /\ exchanged[t][m] \in Nat
        BY DEF Rotated, SessionTyped
    <3>2. CASE t = s /\ m = n
      <4>1. Cardinality(Refreshing(s, n)') = Cardinality(Refreshing(s, n)) - 1
          BY <1>11, RefreshingFinite, FS_RemoveElement
      <4>2. QED
          BY <1>7, <3>1, <3>2, <4>1, RefreshingFinite
    <3>3. CASE ~(t = s /\ m = n)
      <4>1. exchanged'[t][m] = exchanged[t][m]
          BY <1>5, <1>7, <3>3
      <4>2. Refreshing(t, m)' \subseteq SessionCalls
          BY DEF Refreshing
      <4>3. QED
          BY <1>11, <3>1, <4>1, <4>2, RefreshingAfter, RefreshingFinite
    <3>4. QED
        BY <3>2, <3>3
  <2>4. QED
      BY <1>6, <2>1, <2>2, <2>3 DEF Rotated
<1>13. QED
    BY <1>8, <1>10, <1>12

\* Whether the calm lasts is a truth value.
LEMMA SessionUninterruptedTyped == ASSUME SessionTyped, Uninterrupted PROVE sessionCalm' \in BOOLEAN
    BY DEF SessionTyped, Uninterrupted

\* The steps of a call that leave the tokens alone.
LEMMA SessionCallInv ==
    ASSUME SessionInv, NEW q \in SessionCalls,
           \/ ReceiveLogin(q) \/ CreateSession(q)
           \/ \E s \in SessionIds, jti \in Jtis : jti <= session[s].issued /\ ReceiveRefresh(q, s, jti)
           \/ ReceiveDeletion(q) \/ RevokeAll(q) \/ UserDelete(q)
           \/ CallFails(q)
    PROVE  SessionInv'
<1>0. SessionTyped /\ session \in [SessionIds -> SessionRow] /\ sessionCalm \in BOOLEAN /\ selfDeleted \in BOOLEAN
    BY DEF SessionInv, SessionTyped
<1>1. CASE ReceiveLogin(q) \/ ReceiveDeletion(q)
  <2>1. PICK place \in {"loggingIn", "revoking"} : CallGoes(q, place, NoCall)
      BY <1>1 DEF ReceiveLogin, ReceiveDeletion, CallArrives
  <2>2. UNCHANGED <<status, session, exchanged, selfDeleted>> /\ sessionCalm' \in BOOLEAN
      BY <1>0, <1>1, SessionUninterruptedTyped DEF ReceiveLogin, ReceiveDeletion, CallArrives
  <2>3. QED
      BY <1>0, <2>1, <2>2, SessionCallsTyped, SessionStepsAside DEF SessionPlace, SessionTyped, Unused
<1>2. CASE CreateSession(q)
  <2>1. PICK s \in Unused : session' = [session EXCEPT ![s] = FirstTokens]
      BY <1>2 DEF CreateSession
  <2>2. CallGoes(q, "idle", NoCall) /\ UNCHANGED <<status, exchanged, selfDeleted, sessionCalm>>
      BY <1>2 DEF CreateSession, CallEnds
  <2>3. FirstTokens \in SessionRow /\ s \in SessionIds
      BY SessionsAssumption DEF FirstTokens, SessionRow, SessionState, Unused
  <2>4. session' \in [SessionIds -> SessionRow] /\ \A t \in SessionIds : t # s => session'[t] = session[t]
      BY <1>0, <2>1, <2>3
  <2>5. session'[s] = FirstTokens
      BY <1>0, <2>1, <2>3
  <2>6. QED
      BY <1>0, <2>1, <2>2, <2>4, <2>5, SessionCallsTyped, SessionStepsAside DEF SessionPlace, SessionTyped, Unused
<1>3. ASSUME NEW s \in SessionIds, NEW jti \in Jtis, jti <= session[s].issued, ReceiveRefresh(q, s, jti)
      PROVE  SessionInv'
  <2> DEFINE what == [session |-> s, jti |-> jti]
  <2>1. CallGoes(q, "validated", what) /\ s \in SessionIds \ Unused
      BY <1>3 DEF ReceiveRefresh, CallArrives, Valid, LiveSessions, Unused
  <2>2. UNCHANGED <<status, session, exchanged, selfDeleted>> /\ sessionCalm' \in BOOLEAN
      BY <1>0, <1>3, SessionUninterruptedTyped DEF ReceiveRefresh, CallArrives
  <2>3. what \in SessionCall /\ what.session = s /\ what.jti = jti
      BY SessionsAssumption DEF SessionCall, Jtis
  <2> HIDE DEF what
  <2>4. QED
      BY <1>0, <1>3, <2>1, <2>2, <2>3, SessionStepsAside DEF SessionPlace, SessionTyped, Unused
<1>4. CASE RevokeAll(q)
  <2>1. /\ CallGoes(q, "deleting", NoCall) /\ session' = RevokedAll
        /\ UNCHANGED <<status, exchanged, selfDeleted, sessionCalm>>
      BY <1>4 DEF RevokeAll
  <2>2. ASSUME NEW s \in SessionIds
        PROVE  /\ session'[s] \in SessionRow
               /\ session'[s].jti = session[s].jti /\ session'[s].issued = session[s].issued
               /\ session[s].state # "none" => session'[s].state # "none"
               /\ session[s].state = "none" => session'[s] = session[s]
    <3>1. session[s] \in SessionRow
        BY <1>0
    <3>2. session'[s] = IF session[s].state = "none" THEN session[s]
                        ELSE [session[s] EXCEPT !.state = "revoked"]
        BY <2>1 DEF RevokedAll
    <3>3. QED
        BY <3>1, <3>2 DEF SessionRow, SessionState
  <2>3. session' \in [SessionIds -> SessionRow]
      BY <2>1, <2>2 DEF RevokedAll
  <2>4. QED
      BY <1>0, <2>1, <2>2, <2>3, SessionCallsTyped, SessionStepsAside DEF SessionPlace, SessionTyped, Unused
<1>5. CASE UserDelete(q) \/ CallFails(q)
  <2>1. /\ CallGoes(q, "idle", NoCall) /\ UNCHANGED <<session, exchanged, sessionCalm>>
        /\ status' \in {"ACTIVE", "DELETED"} /\ selfDeleted' \in BOOLEAN
      BY <1>0, <1>5 DEF UserDelete, CallFails, CallEnds, SessionTyped
  <2>2. QED
      BY <1>0, <2>1, SessionCallsTyped, SessionStepsAside DEF SessionPlace, SessionTyped, Unused
<1>6. QED
    BY <1>1, <1>2, <1>3, <1>4, <1>5

\* The steps of no call.
LEMMA SessionOtherInv ==
    ASSUME SessionInv,
           \/ \E s \in SessionIds : Logout(s) \/ SessionExpires(s)
           \/ \E new \in {"ACTIVE", "DELETED"} : UpdateUserStatus(new)
    PROVE  SessionInv'
<1>0. SessionTyped /\ session \in [SessionIds -> SessionRow]
    BY DEF SessionInv, SessionTyped
<1>1. ASSUME NEW s \in SessionIds, Logout(s) \/ SessionExpires(s) PROVE SessionInv'
  <2>1. PICK state \in {"revoked", "expired"} : session' = [session EXCEPT ![s].state = state]
      BY <1>1 DEF Logout, SessionExpires
  <2>2. /\ session[s].state = "live" /\ sessionCalm' \in BOOLEAN
        /\ UNCHANGED <<status, exchanged, sessionPc, sessionReq, selfDeleted>>
      BY <1>0, <1>1, SessionUninterruptedTyped DEF Logout, SessionExpires, LiveSessions
  <2>3. /\ session' \in [SessionIds -> SessionRow]
        /\ \A t \in SessionIds : /\ session'[t].jti = session[t].jti
                                 /\ session'[t].issued = session[t].issued
                                 /\ session'[t].state = "none" <=> session[t].state = "none"
      BY <1>0, <2>1, <2>2 DEF SessionRow, SessionState
  <2>4. QED
      BY <1>0, <2>2, <2>3, SessionNoCallMoves DEF SessionTyped
<1>2. ASSUME NEW new \in {"ACTIVE", "DELETED"}, UpdateUserStatus(new) PROVE SessionInv'
    BY <1>0, <1>2, SessionNoCallMoves, SessionUninterruptedTyped DEF UpdateUserStatus
<1>3. QED
    BY <1>1, <1>2

\* No session is open at first.
LEMMA SessionInitInv == SessionsInit => SessionInv
<1> SUFFICES ASSUME SessionsInit PROVE SessionInv
    OBVIOUS
<1>1. SessionTyped
  <2>1. [state |-> "none", jti |-> 0, issued |-> 0] \in SessionRow
      BY SessionsAssumption DEF SessionRow, SessionState
  <2>2. session \in [SessionIds -> SessionRow]
      BY <2>1 DEF SessionsInit
  <2>3. exchanged \in [SessionIds -> [Jtis -> Nat]]
      BY DEF SessionsInit, Jtis
  <2>4. sessionPc \in [SessionCalls -> SessionPlace] /\ sessionReq \in [SessionCalls -> SessionCall]
      BY SessionCallsTyped DEF SessionsInit, SessionPlace
  <2>5. QED
      BY <2>2, <2>3, <2>4 DEF SessionsInit, SessionTyped
<1>2. Refreshers
    BY DEF SessionsInit, Refreshers
<1>3. \A s \in SessionIds, n \in Jtis : Refreshing(s, n) = {} /\ exchanged[s][n] = 0
    BY DEF SessionsInit, Refreshing, Jtis
<1>4. Rotated
  <2>1. ASSUME NEW s \in SessionIds, NEW n \in Jtis
        PROVE  exchanged[s][n] + Cardinality(Refreshing(s, n)) <= Cardinality(SessionCalls)
    <3>1. Cardinality(Refreshing(s, n)) = 0
        BY <1>3, FS_EmptySet
    <3>2. QED
        BY <1>3, <3>1, RefreshingFinite
  <2>2. \A s \in SessionIds : session[s].jti = 0 /\ session[s].issued = 0
      BY DEF SessionsInit
  <2>3. QED
      BY <1>3, <2>1, <2>2 DEF Rotated
<1>5. QED
    BY <1>1, <1>2, <1>4 DEF SessionInv

\* Every step of the sessions keeps the invariant.
LEMMA SessionNextInv == SessionInv /\ [SessionsNext]_sessionVars => SessionInv'
<1> SUFFICES ASSUME SessionInv, [SessionsNext]_sessionVars PROVE SessionInv'
    OBVIOUS
<1>1. CASE SessionsNext
    BY <1>1, SessionCallInv, CheckSessionInv, UpdateLoginInv, SessionOtherInv DEF SessionsNext, Jtis
<1>2. CASE UNCHANGED sessionVars
    BY <1>2, SessionNoCallMoves DEF sessionVars, SessionInv, SessionTyped
<1>3. QED
    BY <1>1, <1>2

-----------------------------------------------------------------------------
(* What holds in calm.                                                     *)

\* A call goes on or ends: in calm it was alone, and what is due of it holds.
LEMMA SessionGoesOn ==
    ASSUME SessionTyped, NEW q \in SessionCalls, NEW place \in SessionPlace, NEW what \in SessionCall,
           CallGoes(q, place, what),
           selfDeleted' => status' = "DELETED",
           sessionCalm' =>
              /\ \A p \in SessionCalls \ {q} : sessionPc[p] = "idle"
              /\ \A s \in SessionIds, n \in Jtis : exchanged'[s][n] <= 1
              /\ selfDeleted' => LiveSessions' = {}
              /\ place = "refreshing" => what.jti = session'[what.session].jti
              /\ place = "loggingIn" => status' = "ACTIVE"
              /\ place = "deleting" => LiveSessions' = {}
    PROVE  SessionCalmOrder'
<1> SUFFICES ASSUME sessionCalm' PROVE SessionCalmOrder'
    BY DEF SessionCalmOrder
<1>1. /\ sessionPc'[q] = place /\ sessionReq'[q] = what
      /\ \A p \in SessionCalls \ {q} : sessionPc'[p] = "idle"
    BY SessionMoves
<1>2. Calling' \subseteq {q} /\ SessionFresh(q)'
    BY <1>1 DEF Calling, SessionFresh
<1>3. QED
    BY <1>1, <1>2 DEF SessionCalmOrder

\* In calm a call that arrives is the only one.
LEMMA SessionArrivesAlone ==
    ASSUME SessionCalmOrder, NEW q \in SessionCalls, NEW place, NEW what, CallArrives(q, place, what)
    PROVE  /\ CallGoes(q, place, what)
           /\ sessionCalm' =>
                 /\ \A p \in SessionCalls \ {q} : sessionPc[p] = "idle"
                 /\ \A s \in SessionIds, n \in Jtis : exchanged[s][n] <= 1
                 /\ selfDeleted => LiveSessions = {}
    BY DEF CallArrives, Uninterrupted, Calling, SessionCalmOrder

\* In calm a call that goes on is the only one.
LEMMA SessionTurnCalm ==
    ASSUME SessionCalmOrder, NEW q \in SessionCalls, sessionPc[q] # "idle", UNCHANGED sessionCalm
    PROVE  sessionCalm' =>
              /\ \A p \in SessionCalls \ {q} : sessionPc[p] = "idle"
              /\ \A s \in SessionIds, n \in Jtis : exchanged[s][n] <= 1
              /\ selfDeleted => LiveSessions = {}
              /\ SessionFresh(q)
    BY DEF SessionCalmOrder, Calling

\* Every step keeps what holds in calm.
LEMMA SessionCalmInductive ==
    /\ SessionsInit => SessionCalmOrder
    /\ SessionInv /\ SessionCalmOrder /\ [SessionsNext]_sessionVars => SessionCalmOrder'
<1>1. SessionsInit => SessionCalmOrder
    BY DEF SessionsInit, SessionCalmOrder, Calling, Jtis
<1> SUFFICES ASSUME SessionInv, SessionCalmOrder, [SessionsNext]_sessionVars PROVE SessionCalmOrder'
    BY <1>1
<1>0. SessionTyped /\ (selfDeleted => status = "DELETED")
    BY DEF SessionInv, SessionCalmOrder
<1>2. ASSUME NEW q \in SessionCalls, ReceiveLogin(q) \/ ReceiveDeletion(q)
      PROVE  SessionCalmOrder'
  <2>1. PICK place \in {"loggingIn", "revoking"} : CallArrives(q, place, NoCall)
      BY <1>2 DEF ReceiveLogin, ReceiveDeletion
  <2>2. status = "ACTIVE" /\ UNCHANGED <<status, session, exchanged, selfDeleted>>
      BY <1>2 DEF ReceiveLogin, ReceiveDeletion
  <2>3. LiveSessions' = LiveSessions
      BY <2>2 DEF LiveSessions
  <2>4. QED
      BY <1>0, <2>1, <2>2, <2>3, SessionArrivesAlone, SessionGoesOn, SessionCallsTyped DEF SessionPlace
\* The account was active when the log-in came, and still is.
<1>3. ASSUME NEW q \in SessionCalls, CreateSession(q) PROVE SessionCalmOrder'
  <2>1. /\ sessionPc[q] = "loggingIn" /\ CallGoes(q, "idle", NoCall)
        /\ UNCHANGED <<status, exchanged, selfDeleted, sessionCalm>>
      BY <1>3 DEF CreateSession, CallEnds
  <2>2. sessionCalm' => ~selfDeleted'
      BY <1>0, <2>1, SessionTurnCalm DEF SessionFresh
  <2>3. QED
      BY <1>0, <2>1, <2>2, SessionTurnCalm, SessionGoesOn, SessionCallsTyped DEF SessionPlace
<1>4. ASSUME NEW q \in SessionCalls, NEW s \in SessionIds, NEW jti \in Jtis, ReceiveRefresh(q, s, jti)
      PROVE  SessionCalmOrder'
  <2> DEFINE what == [session |-> s, jti |-> jti]
  <2>1. CallArrives(q, "validated", what) /\ UNCHANGED <<status, session, exchanged, selfDeleted>>
      BY <1>4 DEF ReceiveRefresh
  <2>2. what \in SessionCall /\ LiveSessions' = LiveSessions
      BY <2>1, SessionsAssumption DEF SessionCall, Jtis, LiveSessions
  <2> HIDE DEF what
  <2>3. QED
      BY <1>0, <2>1, <2>2, SessionArrivesAlone, SessionGoesOn DEF SessionPlace
<1>5. ASSUME NEW q \in SessionCalls, CheckSession(q) PROVE SessionCalmOrder'
  <2>1. /\ sessionPc[q] = "validated" /\ sessionReq[q] \in SessionCall
        /\ UNCHANGED <<status, session, exchanged, selfDeleted, sessionCalm>>
        /\ LiveSessions' = LiveSessions
      BY <1>0, <1>5 DEF CheckSession, SessionTyped, LiveSessions
  <2>2. CASE CallEnds(q)
      BY <1>0, <2>1, <2>2, SessionTurnCalm, SessionGoesOn, SessionCallsTyped DEF SessionPlace, CallEnds
  <2>3. CASE ~CallEnds(q)
    <3>1. /\ CallGoes(q, "refreshing", sessionReq[q])
          /\ session[sessionReq[q].session].jti = sessionReq[q].jti
        BY <1>5, <2>3 DEF CheckSession, Valid
    <3>2. QED
        BY <1>0, <2>1, <3>1, SessionTurnCalm, SessionGoesOn DEF SessionPlace
  <2>4. QED
      BY <2>2, <2>3
\* The token is the session's present one, which has not been exchanged.
<1>6. ASSUME NEW q \in SessionCalls, UpdateLogin(q) PROVE SessionCalmOrder'
  <2>1. /\ sessionPc[q] = "refreshing" /\ sessionReq[q] \in SessionCall
        /\ CallGoes(q, "idle", NoCall) /\ UNCHANGED <<status, selfDeleted, sessionCalm>>
      BY <1>0, <1>6 DEF UpdateLogin, SessionTyped, CallEnds
  <2>2. PICK s \in SessionIds, n \in Jtis : sessionReq[q] = [session |-> s, jti |-> n]
      BY <2>1 DEF Refreshers, SessionCall, SessionInv
  <2>3. /\ session' = [session EXCEPT ![s] = NextTokens(s)]
        /\ exchanged' = [exchanged EXCEPT ![s][n] = @ + 1]
      BY <1>6, <2>2 DEF UpdateLogin
  <2>4. LiveSessions' = LiveSessions
      BY <1>0, <2>3 DEF SessionTyped, LiveSessions, NextTokens, SessionRow
  <2>5. ASSUME sessionCalm', NEW t \in SessionIds, NEW m \in Jtis PROVE exchanged'[t][m] <= 1
    <3>1. CASE t = s /\ m = n
      <4>1. session[s].jti = n
          BY <2>1, <2>2, <2>5, SessionTurnCalm DEF SessionFresh
      <4>2. exchanged[s][n] \in Nat /\ ~(n < session[s].jti)
          BY <1>0, <4>1, SessionsAssumption DEF SessionTyped, Jtis
      <4>3. exchanged[s][n] = 0
          BY <4>2 DEF SessionInv, Rotated
      <4>4. QED
          BY <1>0, <2>3, <3>1, <4>3 DEF SessionTyped
    <3>2. CASE ~(t = s /\ m = n)
        BY <1>0, <2>1, <2>3, <2>5, <3>2, SessionTurnCalm DEF SessionTyped
    <3>3. QED
        BY <3>1, <3>2
  <2>6. QED
      BY <1>0, <2>1, <2>4, <2>5, SessionTurnCalm, SessionGoesOn, SessionCallsTyped DEF SessionPlace
<1>7. ASSUME NEW q \in SessionCalls, RevokeAll(q) PROVE SessionCalmOrder'
  <2>1. /\ sessionPc[q] = "revoking" /\ CallGoes(q, "deleting", NoCall) /\ session' = RevokedAll
        /\ UNCHANGED <<status, exchanged, selfDeleted, sessionCalm>>
      BY <1>7 DEF RevokeAll
  <2>2. LiveSessions' = {}
    <3>1. ASSUME NEW s \in SessionIds PROVE session'[s].state # "live"
      <4>1. /\ session[s] \in SessionRow
            /\ session'[s] = IF session[s].state = "none" THEN session[s]
                             ELSE [session[s] EXCEPT !.state = "revoked"]
          BY <1>0, <2>1 DEF RevokedAll, SessionTyped
      <4>2. QED
          BY <4>1 DEF SessionRow
    <3>2. QED
        BY <3>1 DEF LiveSessions
  <2>3. QED
      BY <1>0, <2>1, <2>2, SessionTurnCalm, SessionGoesOn, SessionCallsTyped DEF SessionPlace
<1>8. ASSUME NEW q \in SessionCalls, UserDelete(q) PROVE SessionCalmOrder'
  <2>1. /\ sessionPc[q] = "deleting" /\ CallGoes(q, "idle", NoCall) /\ status' = "DELETED"
        /\ UNCHANGED <<session, exchanged, sessionCalm>> /\ LiveSessions' = LiveSessions
      BY <1>8 DEF UserDelete, CallEnds, LiveSessions
  <2>2. QED
      BY <1>0, <2>1, SessionTurnCalm, SessionGoesOn, SessionCallsTyped DEF SessionPlace, SessionFresh
<1>9. ASSUME NEW q \in SessionCalls, CallFails(q) PROVE SessionCalmOrder'
  <2>1. /\ sessionPc[q] # "idle" /\ CallGoes(q, "idle", NoCall)
        /\ UNCHANGED <<status, session, exchanged, selfDeleted, sessionCalm>>
        /\ LiveSessions' = LiveSessions
      BY <1>9 DEF CallFails, CallEnds, LiveSessions
  <2>2. QED
      BY <1>0, <2>1, SessionTurnCalm, SessionGoesOn, SessionCallsTyped DEF SessionPlace
\* A step of no call ends the calm of the call in progress.
<1>10. ASSUME \/ \E s \in SessionIds : Logout(s) \/ SessionExpires(s)
              \/ \E new \in {"ACTIVE", "DELETED"} : UpdateUserStatus(new)
       PROVE  SessionCalmOrder'
  <2>1. Uninterrupted /\ UNCHANGED <<exchanged, sessionPc, sessionReq>>
      BY <1>10 DEF Logout, SessionExpires, UpdateUserStatus
  <2>2. (sessionCalm' => sessionCalm) /\ (sessionCalm' => Calling' = {})
      BY <2>1 DEF Uninterrupted, Calling
  <2>3. CASE \E s \in SessionIds : Logout(s) \/ SessionExpires(s)
    <3>1. PICK s \in SessionIds, state \in {"revoked", "expired"} :
             session' = [session EXCEPT ![s].state = state]
        BY <2>3 DEF Logout, SessionExpires
    <3>2. LiveSessions' \subseteq LiveSessions
        BY <1>0, <3>1 DEF LiveSessions, SessionTyped, SessionRow
    <3>3. UNCHANGED <<status, selfDeleted>>
        BY <2>3 DEF Logout, SessionExpires
    <3>4. QED
        BY <2>1, <2>2, <3>2, <3>3 DEF SessionCalmOrder
  <2>4. CASE \E new \in {"ACTIVE", "DELETED"} : UpdateUserStatus(new)
    <3>1. ~selfDeleted'
        BY <2>4 DEF UpdateUserStatus
    <3>2. QED
        BY <2>1, <2>2, <3>1 DEF SessionCalmOrder
  <2>5. QED
      BY <1>10, <2>3, <2>4
<1>11. CASE UNCHANGED sessionVars
    BY <1>11 DEF sessionVars, SessionCalmOrder, Calling, SessionFresh, LiveSessions
<1>12. QED
    BY <1>2, <1>3, <1>4, <1>5, <1>6, <1>7, <1>8, <1>9, <1>10, <1>11 DEF SessionsNext, Jtis

\* The invariants have the type and the promise of the sessions in them.
LEMMA SessionPromises == SessionInv /\ SessionCalmOrder => SessionsTypeOK /\ TokensRotate
<1>1. SessionInv => SessionsTypeOK
    BY DEF SessionInv, SessionTyped, SessionsTypeOK, SessionRow, SessionCall, Jtis
<1>2. ASSUME SessionInv, SessionCalmOrder PROVE TokensRotate
  <2>1. ASSUME NEW s \in SessionIds, NEW n \in Jtis
        PROVE  exchanged[s][n] <= Cardinality(SessionCalls)
    <3>1. exchanged[s][n] \in Nat /\ exchanged[s][n] + Cardinality(Refreshing(s, n)) <= Cardinality(SessionCalls)
        BY <1>2 DEF SessionInv, SessionTyped, Rotated
    <3>2. QED
        BY <3>1, RefreshingFinite
  <2>2. ASSUME NEW s \in SessionIds, NEW n \in Jtis, exchanged[s][n] > 0
        PROVE  ~Admitted(s, n)
    <3>1. n < session[s].jti /\ n \in Int /\ session[s].jti \in Int
        BY <1>2, <2>2, SessionsAssumption DEF SessionInv, SessionTyped, SessionRow, Rotated, Jtis
    <3>2. QED
        BY <3>1 DEF Admitted, Valid
  <2>3. QED
      BY <1>2, <2>1, <2>2 DEF TokensRotate, SessionCalmOrder, Jtis
<1>3. QED
    BY <1>1, <1>2

\* Every variable of the sessions keeps its domain.
THEOREM SessionsTyped == SessionsSpec => []SessionsTypeOK
    BY SessionInitInv, SessionNextInv, SessionCalmInductive, SessionPromises, PTL DEF SessionsSpec

\* A token is exchanged by no more calls than may overlap, once in calm, and no session
\* outlives its account in calm.
THEOREM SessionsRotate == SessionsSpec => []TokensRotate
    BY SessionInitInv, SessionNextInv, SessionCalmInductive, SessionPromises, PTL DEF SessionsSpec

-----------------------------------------------------------------------------
(***************************************************************************)
(* The password of an account for any number of requests and tokens: how   *)
(* far the counter of wrong attempts can pass the limit, and how often a   *)
(* token sets the password.                                                *)
(*                                                                         *)
(* A request counts against the bound from the moment it has read the      *)
(* account as open, not from the moment it increments the counter.         *)
(***************************************************************************)

\* The requests that are going to increment the counter.
Wrong == {v \in Visitors : visit[v] = "wrong"}

\* A token that is not issued has no request and no use.
Unissued ==
    \A t \in Resets :
        resets[t] = "none" =>
            uses[t] = 0 /\ \A v \in Visitors : visit[v] \in {"setting", "marking"} => with[v] # t

WithToken == \A v \in Visitors : visit[v] \in {"setting", "marking"} => with[v] \in Resets

AttemptsCounted == attempts + Cardinality(Wrong) < MaxAttempt + Cardinality(Visitors)

PasswordInv == PasswordsTypeOK /\ Unissued /\ WithToken /\ AttemptsCounted

\* In calm a request in progress is the only one and what it has read still stands; a
\* token that has been used is marked, or about to be.
PasswordOrder(v) ==
    /\ \A w \in Visitors \ {v} : visit[w] = "idle"
    /\ visit[v] = "wrong" => attempts < MaxAttempt
    /\ visit[v] = "setting" => uses[with[v]] = 0
PasswordCalmOrder ==
    quiet => /\ attempts <= MaxAttempt
             /\ \A v \in Visiting : PasswordOrder(v)
             /\ \A t \in Resets :
                   /\ uses[t] <= 1
                   /\ uses[t] = 1 => \/ resets[t] # "valid"
                                     \/ \E v \in Visitors : visit[v] = "marking" /\ with[v] = t

-----------------------------------------------------------------------------
\* What a request does to the control state.
LEMMA PasswordMoves ==
    ASSUME PasswordsTypeOK, NEW v \in Visitors, NEW place \in VisitPlace, NEW t \in Resets \cup {NoReset},
           Visits(v, place, t)
    PROVE  /\ visit' \in [Visitors -> VisitPlace] /\ with' \in [Visitors -> Resets \cup {NoReset}]
           /\ visit'[v] = place /\ with'[v] = t
           /\ \A w \in Visitors \ {v} : visit'[w] = visit[w] /\ with'[w] = with[w]
    BY DEF PasswordsTypeOK, Visits

\* The requests with a wrong password are a finite set, of the requests at most.
LEMMA PasswordWrongFinite ==
    /\ IsFiniteSet(Wrong) /\ Cardinality(Wrong) \in Nat
    /\ Cardinality(Wrong) <= Cardinality(Visitors) /\ Cardinality(Visitors) \in Nat
    /\ Cardinality(Wrong') \in Nat /\ Cardinality(Wrong') <= Cardinality(Visitors)
<1>1. Wrong \subseteq Visitors /\ Wrong' \subseteq Visitors
    BY DEF Wrong
<1>2. QED
    BY <1>1, FS_Subset, FS_CardinalityType, PasswordsAssumption

\* A step that neither sets the password nor touches the tokens of others: the counter
\* stays with the requests that are wrong, or starts anew.
LEMMA PasswordStepInv ==
    ASSUME PasswordInv, NEW v \in Visitors, NEW place \in VisitPlace, NEW t \in Resets \cup {NoReset},
           Visits(v, place, t),
           place \in {"setting", "marking"} => t \in Resets /\ resets[t] # "none",
           \A s \in Resets : /\ resets[s] = "none" => uses'[s] = uses[s]
                             /\ resets'[s] = "none" => resets[s] = "none",
           resets' \in [Resets -> ResetState], uses' \in [Resets -> Nat], attempts' \in Nat,
           resendable' \in BOOLEAN, quiet' \in BOOLEAN,
           \/ attempts' = 0
           \/ attempts' = attempts /\ (place # "wrong" \/ attempts < MaxAttempt)
           \/ attempts' = attempts + 1 /\ visit[v] = "wrong" /\ place # "wrong"
    PROVE  PasswordInv'
<1> USE DEF PasswordInv
<1>1. PasswordsTypeOK'
    BY PasswordMoves DEF PasswordsTypeOK
<1>2. WithToken'
    BY PasswordMoves DEF WithToken
<1>3. Unissued'
  <2>1. ASSUME NEW s \in Resets, resets'[s] = "none" PROVE uses'[s] = 0
      BY <2>1 DEF Unissued
  <2>2. ASSUME NEW s \in Resets, resets'[s] = "none",
               NEW w \in Visitors, visit'[w] \in {"setting", "marking"}
        PROVE  with'[w] # s
      BY <2>2, PasswordMoves DEF Unissued
  <2>3. QED
      BY <2>1, <2>2 DEF Unissued
<1>4. AttemptsCounted'
  <2>1. attempts \in Nat /\ MaxAttempt \in Nat \ {0}
      BY PasswordsAssumption DEF PasswordsTypeOK
  <2>2. CASE attempts' = 0
      BY <2>1, <2>2, PasswordWrongFinite DEF AttemptsCounted
  <2>3. CASE attempts' = attempts /\ place # "wrong"
    <3>1. Wrong' \subseteq Wrong
        BY <2>3, PasswordMoves DEF Wrong
    <3>2. Cardinality(Wrong') <= Cardinality(Wrong)
        BY <3>1, PasswordWrongFinite, FS_Subset
    <3>3. QED
        BY <2>1, <2>3, <3>2, PasswordWrongFinite DEF AttemptsCounted
  <2>4. CASE attempts' = attempts /\ attempts < MaxAttempt
      BY <2>1, <2>4, PasswordWrongFinite DEF AttemptsCounted
  <2>5. CASE attempts' = attempts + 1 /\ visit[v] = "wrong" /\ place # "wrong"
    <3>1. Wrong' = Wrong \ {v} /\ v \in Wrong
        BY <2>5, PasswordMoves DEF Wrong
    <3>2. Cardinality(Wrong') = Cardinality(Wrong) - 1
        BY <3>1, PasswordWrongFinite, FS_RemoveElement
    <3>3. QED
        BY <2>1, <2>5, <3>2, PasswordWrongFinite DEF AttemptsCounted
  <2>6. QED
      BY <2>2, <2>3, <2>4, <2>5
<1>5. QED
    BY <1>1, <1>2, <1>3, <1>4

\* Every step of the requests keeps the invariant.
LEMMA PasswordNextInv == PasswordInv /\ [PasswordsNext]_passwordVars => PasswordInv'
<1> SUFFICES ASSUME PasswordInv, [PasswordsNext]_passwordVars PROVE PasswordInv'
    OBVIOUS
<1>0. PasswordsTypeOK /\ attempts \in Nat /\ quiet \in BOOLEAN /\ resendable \in BOOLEAN
      /\ resets \in [Resets -> ResetState] /\ uses \in [Resets -> Nat]
      /\ with \in [Visitors -> Resets \cup {NoReset}]
    BY DEF PasswordInv, PasswordsTypeOK
<1>1. ASSUME NEW v \in Visitors, NEW judged \in {"right", "wrong"}, TryPassword(v, judged) PROVE PasswordInv'
  <2>1. Visits(v, judged, NoReset) /\ attempts < MaxAttempt /\ quiet' \in BOOLEAN
      BY <1>0, <1>1, PasswordsAssumption DEF TryPassword, Enters, Locked
  <2>2. QED
      BY <1>0, <1>1, <2>1, PasswordStepInv DEF TryPassword, VisitPlace
<1>2. ASSUME NEW v \in Visitors, IncreasePasswordAttempt(v) \/ ResetPasswordAttempt(v) PROVE PasswordInv'
  <2>1. Visits(v, "idle", NoReset)
      BY <1>2 DEF IncreasePasswordAttempt, ResetPasswordAttempt, Leaves
  <2>2. QED
      BY <1>0, <1>2, <2>1, PasswordStepInv DEF IncreasePasswordAttempt, ResetPasswordAttempt, VisitPlace
<1>3. ASSUME NEW v \in Visitors, ReceiveForgot(v) \/ ReceiveChange(v) PROVE PasswordInv'
  <2>1. PICK place \in {"mailing", "changing"} : Visits(v, place, NoReset)
      BY <1>3 DEF ReceiveForgot, ReceiveChange, Enters
  <2>2. quiet' \in BOOLEAN /\ UNCHANGED <<attempts, resets, uses, resendable>>
      BY <1>0, <1>3 DEF ReceiveForgot, ReceiveChange, Enters
  <2>3. QED
      BY <1>0, <2>1, <2>2, PasswordStepInv DEF VisitPlace
<1>4. ASSUME NEW v \in Visitors, CreateForgotPasswordToken(v) PROVE PasswordInv'
  <2>1. PICK t \in Resets : resets[t] = "none" /\ resets' = [resets EXCEPT ![t] = "valid"]
      BY <1>4 DEF CreateForgotPasswordToken
  <2>2. /\ Visits(v, "idle", NoReset) /\ resendable' = FALSE /\ UNCHANGED <<attempts, uses, quiet>>
      BY <1>4 DEF CreateForgotPasswordToken, Leaves
  <2>3. /\ resets' \in [Resets -> ResetState]
        /\ \A s \in Resets : resets'[s] = "none" => resets[s] = "none"
      BY <1>0, <2>1 DEF ResetState
  <2>4. QED
      BY <1>0, <2>2, <2>3, PasswordStepInv DEF VisitPlace
<1>5. ASSUME NEW v \in Visitors, NEW t \in Resets, ReceiveReset(v, t) PROVE PasswordInv'
  <2>1. /\ Visits(v, "setting", t) /\ resets[t] # "none" /\ quiet' \in BOOLEAN
        /\ UNCHANGED <<attempts, resets, uses, resendable>>
      BY <1>0, <1>5 DEF ReceiveReset, Enters
  <2>2. QED
      BY <1>0, <2>1, PasswordStepInv DEF VisitPlace
<1>6. ASSUME NEW v \in Visitors, UpdatePassword(v) PROVE PasswordInv'
  <2>1. with[v] \in Resets /\ resets[with[v]] # "none"
      BY <1>6 DEF UpdatePassword, PasswordInv, WithToken, Unissued
  <2>2. /\ Visits(v, "marking", with[v]) /\ attempts' = 0
        /\ uses' = [uses EXCEPT ![with[v]] = @ + 1] /\ UNCHANGED <<resets, resendable, quiet>>
      BY <1>6 DEF UpdatePassword
  <2>3. uses' \in [Resets -> Nat] /\ \A s \in Resets : resets[s] = "none" => uses'[s] = uses[s]
      BY <1>0, <2>1, <2>2
  <2>4. QED
      BY <1>0, <2>1, <2>2, <2>3, PasswordStepInv DEF VisitPlace
<1>7. ASSUME NEW v \in Visitors, MarkUsed(v) PROVE PasswordInv'
  <2>1. /\ Visits(v, "idle", NoReset) /\ resets' = [resets EXCEPT ![with[v]] = "used"]
        /\ UNCHANGED <<attempts, uses, resendable, quiet>>
      BY <1>7 DEF MarkUsed, Marked, Leaves
  <2>2. /\ resets' \in [Resets -> ResetState]
        /\ \A s \in Resets : resets'[s] = "none" => resets[s] = "none"
      BY <1>0, <2>1 DEF ResetState
  <2>3. QED
      BY <1>0, <2>1, <2>2, PasswordStepInv DEF VisitPlace
<1>8. ASSUME NEW v \in Visitors, ChangePassword(v) \/ VisitFails(v) PROVE PasswordInv'
  <2>1. Visits(v, "idle", NoReset) /\ UNCHANGED <<resets, uses, resendable>> /\ quiet' \in BOOLEAN
      BY <1>0, <1>8 DEF ChangePassword, VisitFails, Leaves
  <2>2. attempts' = 0 \/ attempts' = attempts
      BY <1>8 DEF ChangePassword, VisitFails
  <2>3. QED
      BY <1>0, <2>1, <2>2, PasswordStepInv DEF VisitPlace
<1>9. ASSUME ResendTimePasses \/ (\E t \in Resets : ResetExpires(t)) \/ UNCHANGED passwordVars
      PROVE  PasswordInv'
  <2>1. /\ UNCHANGED <<attempts, uses, visit, with, quiet>> /\ resendable' \in BOOLEAN
      BY <1>0, <1>9 DEF ResendTimePasses, ResetExpires, passwordVars
  <2>2. /\ resets' \in [Resets -> ResetState]
        /\ \A s \in Resets : resets'[s] = "none" => resets[s] = "none"
      BY <1>0, <1>9 DEF ResendTimePasses, ResetExpires, passwordVars, ResetState
  <2>3. QED
      BY <2>1, <2>2 DEF PasswordInv, PasswordsTypeOK, Unissued, WithToken, AttemptsCounted, Wrong
<1>10. QED
    BY <1>1, <1>2, <1>3, <1>4, <1>5, <1>6, <1>7, <1>8, <1>9 DEF PasswordsNext

\* No token is mailed at first.
LEMMA PasswordInitInv == PasswordsInit => PasswordInv /\ PasswordCalmOrder
<1> SUFFICES ASSUME PasswordsInit PROVE PasswordInv /\ PasswordCalmOrder
    OBVIOUS
<1>1. PasswordsTypeOK /\ Unissued /\ WithToken /\ PasswordCalmOrder
    BY PasswordsAssumption
       DEF PasswordsInit, PasswordsTypeOK, Unissued, WithToken, PasswordCalmOrder, Visiting, VisitPlace, ResetState
<1>2. Wrong = {} /\ Cardinality({}) = 0
    BY FS_EmptySet DEF PasswordsInit, Wrong
<1>3. AttemptsCounted
    BY <1>2, PasswordWrongFinite, PasswordsAssumption DEF PasswordsInit, AttemptsCounted
<1>4. QED
    BY <1>1, <1>3 DEF PasswordInv

-----------------------------------------------------------------------------
(* What holds in calm.                                                     *)

\* In calm a request that goes on keeps what holds if it leaves its own part so.
LEMMA PasswordGoesOn ==
    ASSUME PasswordInv, PasswordCalmOrder, NEW v \in Visitors, NEW place \in VisitPlace,
           NEW t \in Resets \cup {NoReset}, Visits(v, place, t),
           quiet' => /\ quiet /\ \A w \in Visitors \ {v} : visit[w] = "idle"
                     /\ attempts' <= MaxAttempt
                     /\ place = "wrong" => attempts' < MaxAttempt
                     /\ place = "setting" => uses'[t] = 0
                     /\ \A s \in Resets :
                           /\ uses'[s] <= 1
                           /\ uses'[s] = 1 => resets'[s] # "valid" \/ (place = "marking" /\ t = s)
    PROVE  PasswordCalmOrder'
<1> SUFFICES ASSUME quiet' PROVE PasswordCalmOrder'
    BY DEF PasswordCalmOrder
<1>1. /\ visit'[v] = place /\ with'[v] = t
      /\ \A w \in Visitors \ {v} : visit'[w] = "idle"
    BY PasswordMoves DEF PasswordInv
<1>2. Visiting' \subseteq {v} /\ PasswordOrder(v)'
    BY <1>1 DEF Visiting, PasswordOrder
<1>3. QED
    BY <1>1, <1>2 DEF PasswordCalmOrder

\* In calm a request that arrives is the only one.
LEMMA PasswordEntersAlone ==
    ASSUME PasswordCalmOrder, NEW v \in Visitors, NEW place, NEW t, Enters(v, place, t)
    PROVE  /\ Visits(v, place, t)
           /\ quiet' => /\ quiet /\ \A w \in Visitors : visit[w] = "idle"
                        /\ attempts <= MaxAttempt
                        /\ \A s \in Resets : uses[s] <= 1 /\ (uses[s] = 1 => resets[s] # "valid")
<1>1. Visits(v, place, t) /\ (quiet' => quiet /\ Visiting = {})
    BY DEF Enters
<1>2. quiet' => \A w \in Visitors : visit[w] = "idle"
    BY <1>1 DEF Visiting
<1>3. QED
    BY <1>1, <1>2 DEF PasswordCalmOrder

\* In calm a request that goes on is the only one.
LEMMA PasswordTurnCalm ==
    ASSUME PasswordCalmOrder, NEW v \in Visitors, visit[v] # "idle", quiet
    PROVE  /\ attempts <= MaxAttempt /\ PasswordOrder(v)
           /\ \A s \in Resets :
                 /\ uses[s] <= 1
                 /\ uses[s] = 1 => resets[s] # "valid" \/ (visit[v] = "marking" /\ with[v] = s)
    BY DEF PasswordCalmOrder, Visiting, PasswordOrder

\* Every step keeps what holds in calm.
LEMMA PasswordNextCalm == PasswordInv /\ PasswordCalmOrder /\ [PasswordsNext]_passwordVars => PasswordCalmOrder'
<1> SUFFICES ASSUME PasswordInv, PasswordCalmOrder, [PasswordsNext]_passwordVars PROVE PasswordCalmOrder'
    OBVIOUS
<1>0. PasswordsTypeOK /\ attempts \in Nat /\ MaxAttempt \in Nat \ {0}
      /\ resets \in [Resets -> ResetState] /\ uses \in [Resets -> Nat]
      /\ with \in [Visitors -> Resets \cup {NoReset}]
    BY PasswordsAssumption DEF PasswordInv, PasswordsTypeOK
<1>1. ASSUME NEW v \in Visitors, NEW judged \in {"right", "wrong"}, TryPassword(v, judged)
      PROVE  PasswordCalmOrder'
  <2>1. /\ Enters(v, judged, NoReset) /\ attempts < MaxAttempt
        /\ UNCHANGED <<attempts, resets, uses>>
      BY <1>0, <1>1 DEF TryPassword, Locked
  <2>2. QED
      BY <2>1, PasswordEntersAlone, PasswordGoesOn DEF VisitPlace
<1>2. ASSUME NEW v \in Visitors, NEW place \in {"mailing", "changing"}, Enters(v, place, NoReset),
             UNCHANGED <<attempts, resets, uses>>
      PROVE  PasswordCalmOrder'
    BY <1>2, PasswordEntersAlone, PasswordGoesOn DEF VisitPlace
\* A token that is still valid has not been used, as nobody is about to mark it.
<1>3. ASSUME NEW v \in Visitors, NEW t \in Resets, ReceiveReset(v, t)
      PROVE  PasswordCalmOrder'
  <2>1. /\ Enters(v, "setting", t) /\ resets[t] = "valid"
        /\ UNCHANGED <<attempts, resets, uses>>
      BY <1>3 DEF ReceiveReset
  <2>2. quiet' => uses[t] = 0
    <3>1. uses[t] \in Nat /\ (quiet' => uses[t] <= 1 /\ uses[t] # 1)
        BY <1>0, <2>1, PasswordEntersAlone
    <3>2. QED
        BY <3>1
  <2>3. QED
      BY <2>1, <2>2, PasswordEntersAlone, PasswordGoesOn DEF VisitPlace
<1>4. ASSUME NEW v \in Visitors, Leaves(v), visit[v] # "idle", quiet' => quiet,
             UNCHANGED uses,
             \A s \in Resets : resets'[s] = "valid" =>
                 uses[s] = 0 \/ (resets[s] = "valid" /\ ~(visit[v] = "marking" /\ with[v] = s)),
             attempts' = 0 \/ attempts' = attempts
                \/ (attempts' = attempts + 1 /\ visit[v] = "wrong")
      PROVE  PasswordCalmOrder'
  <2>1. quiet' => /\ quiet /\ \A w \in Visitors \ {v} : visit[w] = "idle"
                  /\ attempts' <= MaxAttempt
      BY <1>0, <1>4, PasswordTurnCalm DEF PasswordOrder
  <2>2. quiet' => \A s \in Resets : uses'[s] <= 1 /\ (uses'[s] = 1 => resets'[s] # "valid")
      BY <1>0, <1>4, PasswordTurnCalm
  <2>3. QED
      BY <1>4, <2>1, <2>2, PasswordGoesOn DEF Leaves, VisitPlace
<1>5. ASSUME NEW v \in Visitors, CreateForgotPasswordToken(v) PROVE PasswordCalmOrder'
  <2>1. PICK t \in Resets : resets[t] = "none" /\ resets' = [resets EXCEPT ![t] = "valid"]
      BY <1>5 DEF CreateForgotPasswordToken
  <2>2. uses[t] = 0
      BY <2>1 DEF PasswordInv, Unissued
  <2>3. \A s \in Resets : resets'[s] = "valid" => uses[s] = 0 \/ resets[s] = "valid"
      BY <1>0, <2>1, <2>2
  <2>4. QED
      BY <1>4, <1>5, <2>3 DEF CreateForgotPasswordToken
<1>6. ASSUME NEW v \in Visitors, UpdatePassword(v) PROVE PasswordCalmOrder'
  <2>1. /\ visit[v] = "setting" /\ with[v] \in Resets
        /\ Visits(v, "marking", with[v]) /\ attempts' = 0
        /\ uses' = [uses EXCEPT ![with[v]] = @ + 1] /\ UNCHANGED <<resets, quiet>>
      BY <1>6 DEF UpdatePassword, PasswordInv, WithToken
  <2>2. quiet => uses'[with[v]] = 1 /\ \A s \in Resets : s # with[v] => uses'[s] = uses[s]
      BY <1>0, <2>1, PasswordTurnCalm DEF PasswordOrder
  <2>3. QED
      BY <1>0, <2>1, <2>2, PasswordTurnCalm, PasswordGoesOn DEF VisitPlace, PasswordOrder
<1>7. ASSUME NEW v \in Visitors, MarkUsed(v) PROVE PasswordCalmOrder'
  <2>1. /\ visit[v] = "marking" /\ with[v] \in Resets /\ resets' = [resets EXCEPT ![with[v]] = "used"]
        /\ Leaves(v) /\ UNCHANGED <<attempts, uses, quiet>>
      BY <1>7 DEF MarkUsed, Marked, PasswordInv, WithToken
  <2>2. \A s \in Resets : resets'[s] = "valid" => resets[s] = "valid" /\ with[v] # s
      BY <1>0, <2>1
  <2>3. QED
      BY <1>4, <2>1, <2>2
<1>8. ASSUME NEW v \in Visitors,
             IncreasePasswordAttempt(v) \/ ResetPasswordAttempt(v) \/ ChangePassword(v)
      PROVE  PasswordCalmOrder'
  <2>1. /\ visit[v] \in {"wrong", "right", "changing"} /\ Leaves(v)
        /\ UNCHANGED <<resets, uses, quiet>>
      BY <1>8 DEF IncreasePasswordAttempt, ResetPasswordAttempt, ChangePassword
  <2>2. QED
      BY <1>4, <1>8, <2>1 DEF IncreasePasswordAttempt, ResetPasswordAttempt, ChangePassword
<1>9. ASSUME NEW v \in Visitors, VisitFails(v) PROVE PasswordCalmOrder'
    BY <1>9 DEF VisitFails, PasswordCalmOrder
<1>10. CASE ResendTimePasses \/ UNCHANGED passwordVars
  <2>1. UNCHANGED <<attempts, resets, uses, visit, with, quiet>>
      BY <1>10 DEF ResendTimePasses, passwordVars
  <2>2. Visiting' = Visiting
      BY <2>1 DEF Visiting
  <2>3. quiet => \A v \in Visiting : PasswordOrder(v)'
      BY <2>1 DEF PasswordCalmOrder, PasswordOrder
  <2>4. QED
      BY <2>1, <2>2, <2>3 DEF PasswordCalmOrder
<1>11. ASSUME NEW t \in Resets, ResetExpires(t) PROVE PasswordCalmOrder'
  <2>1. /\ resets' = [resets EXCEPT ![t] = "expired"] /\ UNCHANGED <<attempts, uses, visit, with, quiet>>
      BY <1>11 DEF ResetExpires
  <2>2. \A s \in Resets : resets'[s] = "valid" => resets[s] = "valid"
      BY <1>0, <2>1
  <2>3. QED
      BY <2>1, <2>2 DEF PasswordCalmOrder, Visiting, PasswordOrder
<1>12. QED
    BY <1>1, <1>2, <1>3, <1>5, <1>6, <1>7, <1>8, <1>9, <1>10, <1>11
       DEF PasswordsNext, ReceiveForgot, ReceiveChange

\* The invariants have the type and the two promises of the password in them.
LEMMA PasswordPromises == PasswordInv /\ PasswordCalmOrder => PasswordsTypeOK /\ PasswordsHold
<1> SUFFICES ASSUME PasswordInv, PasswordCalmOrder PROVE PasswordsTypeOK /\ PasswordsHold
    OBVIOUS
<1>1. GuessesBounded
  <2>1. attempts \in Nat /\ MaxAttempt \in Nat
      BY PasswordsAssumption DEF PasswordInv, PasswordsTypeOK
  <2>2. QED
      BY <2>1, PasswordWrongFinite DEF GuessesBounded, PasswordInv, AttemptsCounted, PasswordCalmOrder
<1>2. ResetOnce
    BY DEF PasswordCalmOrder, ResetOnce
<1>3. QED
    BY <1>1, <1>2 DEF PasswordInv, PasswordsHold

\* The counter passes the limit by fewer than the requests that may overlap, and not at
\* all in calm; and in calm a mailed token sets the password once.
THEOREM PasswordsSafe == PasswordsSpec => []PasswordsHold
    BY PasswordInitInv, PasswordNextInv, PasswordNextCalm, PasswordPromises, PTL DEF PasswordsSpec

\* The first half by itself: the counter of wrong passwords.
THEOREM PasswordsGuessesBounded == PasswordsSpec => []GuessesBounded
    BY PasswordsSafe, PTL DEF PasswordsHold

\* The second half by itself: the mailed token.
THEOREM PasswordsResetOnce == PasswordsSpec => []ResetOnce
    BY PasswordsSafe, PTL DEF PasswordsHold

-----------------------------------------------------------------------------
(***************************************************************************)
(* Sign-ups keep their domains; that there is one manager is not so (see   *)
(* TwoManagers).                                                           *)
(***************************************************************************)
Account == [status : {"none", "ACTIVE", "DELETED"}, role : Role, email : Emails \cup {NoEmail}]
SignUpState == [place : {"unused", "validated", "done"}, role : Role, email : Emails \cup {NoEmail}]

\* There is no account at first.
LEMMA SignUpsInitTyped == SignUpsInit => SignUpsTypeOK
    BY DEF SignUpsInit, SignUpsTypeOK, NoAccount, NoSignUp, Role

\* Every step of a sign-up keeps the domains.
LEMMA SignUpsNextTyped == SignUpsTypeOK /\ [SignUpsNext]_signUpVars => SignUpsTypeOK'
<1> SUFFICES ASSUME SignUpsTypeOK, [SignUpsNext]_signUpVars PROVE SignUpsTypeOK'
    OBVIOUS
<1>1. account \in [People -> Account] /\ signUp \in [People -> SignUpState]
    BY DEF SignUpsTypeOK, Account, SignUpState
<1>2. SUFFICES account' \in [People -> Account] /\ signUp' \in [People -> SignUpState]
    BY DEF SignUpsTypeOK, Account, SignUpState
<1>3. CASE UNCHANGED signUpVars
    BY <1>1, <1>3 DEF signUpVars
<1>4. ASSUME NEW p \in People, NEW role \in Role, NEW email \in Emails,
             ValidateSingleManager(p, role, email)
      PROVE  account' \in [People -> Account] /\ signUp' \in [People -> SignUpState]
    BY <1>1, <1>4 DEF ValidateSingleManager, SignUpState
<1>5. ASSUME NEW p \in People, CreateUser(p)
      PROVE  account' \in [People -> Account] /\ signUp' \in [People -> SignUpState]
  <2>1. account[p] \in Account /\ signUp[p] \in SignUpState
      BY <1>1
  <2>2. signUp' \in [People -> SignUpState]
      BY <1>1, <1>5 DEF CreateUser, NoSignUp, SignUpState, Role
  <2>3. account' \in [People -> Account]
      BY <1>1, <1>5, <2>1 DEF CreateUser, Account, SignUpState
  <2>4. QED
      BY <2>2, <2>3
<1>6. ASSUME NEW p \in People,
             DeleteAccount(p) \/ \E new \in {"ACTIVE", "DELETED"} : SetStatus(p, new)
      PROVE  account' \in [People -> Account] /\ signUp' \in [People -> SignUpState]
    BY <1>1, <1>6 DEF DeleteAccount, SetStatus, Account
<1>7. QED
    BY <1>3, <1>4, <1>5, <1>6 DEF SignUpsNext
=============================================================================
