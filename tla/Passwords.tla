------------------------------- MODULE Passwords -------------------------------
(***************************************************************************)
(* The password of one account: wrong attempts are counted and lock the    *)
(* log-in, and a mailed token or the old password sets a new one.  Each    *)
(* request reads the account or the token first and writes later.          *)
(***************************************************************************)
EXTENDS Integers, FiniteSets

CONSTANTS
    Resets,         \* reset tokens that may be issued
    Visitors,       \* requests that may be open at once
    NoReset,        \* what other requests are about
    MaxAttempt      \* auth.password.maxAttempt

ASSUME PasswordsAssumption ==
    /\ IsFiniteSet(Visitors)
    /\ NoReset \notin Resets
    /\ MaxAttempt \in Nat \ {0}

VARIABLES
    attempts,       \* user.passwordAttempt
    resets,         \* state of each VerificationToken
    uses,           \* how often each token has set the password
    resendable,     \* the last reset request is old enough for another
    visit,          \* where each request stands
    with,           \* the token it came with
    quiet           \* no request was overtaken by another, none failed

passwordVars == <<attempts, resets, uses, resendable, visit, with, quiet>>

-----------------------------------------------------------------------------
ResetState == {"none", "valid", "used", "expired"}
VisitPlace == {"idle", "wrong", "right", "mailing", "setting", "marking", "changing"}
Visiting == {v \in Visitors : visit[v] # "idle"}

PasswordsInit ==
    /\ attempts = 0
    /\ resets = [t \in Resets |-> "none"]
    /\ uses = [t \in Resets |-> 0]
    /\ resendable = TRUE
    /\ visit = [v \in Visitors |-> "idle"]
    /\ with = [v \in Visitors |-> NoReset]
    /\ quiet = TRUE

Visits(v, place, t) ==
    /\ visit' = [visit EXCEPT ![v] = place]
    /\ with' = [with EXCEPT ![v] = t]
Leaves(v) == Visits(v, "idle", NoReset)
Enters(v, place, t) ==
    /\ visit[v] = "idle"
    /\ Visits(v, place, t)
    /\ quiet' = (quiet /\ Visiting = {})

-----------------------------------------------------------------------------
LockedLate == attempts > MaxAttempt                               \* mutant
Locked == attempts >= MaxAttempt

\* loginCrendential reads the account and judges the password by that copy.
TryPassword(v, judged) ==
    /\ ~Locked
    /\ Enters(v, judged, NoReset)
    /\ UNCHANGED <<attempts, resets, uses, resendable>>

IncreasePasswordAttempt(v) ==
    /\ visit[v] = "wrong"
    /\ attempts' = attempts + 1
    /\ Leaves(v)
    /\ UNCHANGED <<resets, uses, resendable, quiet>>

ResetPasswordAttempt(v) ==
    /\ visit[v] = "right"
    /\ attempts' = 0
    /\ Leaves(v)
    /\ UNCHANGED <<resets, uses, resendable, quiet>>

-----------------------------------------------------------------------------
\* forgotPassword: refused while the last request is too recent.
ReceiveForgot(v) ==
    /\ resendable
    /\ Enters(v, "mailing", NoReset)
    /\ UNCHANGED <<attempts, resets, uses, resendable>>

CreateForgotPasswordToken(v) ==
    /\ visit[v] = "mailing"
    /\ \E t \in Resets : resets[t] = "none" /\ resets' = [resets EXCEPT ![t] = "valid"]
    /\ resendable' = FALSE
    /\ Leaves(v)
    /\ UNCHANGED <<attempts, uses, quiet>>

\* resetPassword: find the token valid, set the password, then mark it used.
ReceiveReset(v, t) ==
    /\ resets[t] = "valid"
    /\ Enters(v, "setting", t)
    /\ UNCHANGED <<attempts, resets, uses, resendable>>

UpdatePassword(v) ==
    /\ visit[v] = "setting"
    /\ attempts' = 0
    /\ uses' = [uses EXCEPT ![with[v]] = @ + 1]
    /\ Visits(v, "marking", with[v])
    /\ UNCHANGED <<resets, resendable, quiet>>

MarkForgotten(t) == resets                                        \* mutant
Marked(t) == [resets EXCEPT ![t] = "used"]

MarkUsed(v) ==
    /\ visit[v] = "marking"
    /\ resets' = Marked(with[v])
    /\ Leaves(v)
    /\ UNCHANGED <<attempts, uses, resendable, quiet>>

\* changePassword: the old password is checked against a copy of the account.
ReceiveChange(v) ==
    /\ Enters(v, "changing", NoReset)
    /\ UNCHANGED <<attempts, resets, uses, resendable>>

ChangePassword(v) ==
    /\ visit[v] = "changing"
    /\ attempts' = 0
    /\ Leaves(v)
    /\ UNCHANGED <<resets, uses, resendable, quiet>>

-----------------------------------------------------------------------------
ResendTimePasses ==
    /\ ~resendable
    /\ resendable' = TRUE
    /\ UNCHANGED <<attempts, resets, uses, visit, with, quiet>>

ResetExpires(t) ==
    /\ resets[t] = "valid"
    /\ resets' = [resets EXCEPT ![t] = "expired"]
    /\ UNCHANGED <<attempts, uses, resendable, visit, with, quiet>>

\* Bounded by the uses of a token, which a failed marking leaves valid.
VisitFails(v) ==
    /\ visit[v] # "idle"
    /\ \A t \in Resets : uses[t] <= Cardinality(Visitors)
    /\ Leaves(v)
    /\ quiet' = FALSE
    /\ UNCHANGED <<attempts, resets, uses, resendable>>

PasswordsNext ==
    \/ \E v \in Visitors :
          \/ \E judged \in {"right", "wrong"} : TryPassword(v, judged)
          \/ IncreasePasswordAttempt(v) \/ ResetPasswordAttempt(v)
          \/ ReceiveForgot(v) \/ CreateForgotPasswordToken(v)
          \/ \E t \in Resets : ReceiveReset(v, t)
          \/ UpdatePassword(v) \/ MarkUsed(v)
          \/ ReceiveChange(v) \/ ChangePassword(v)
          \/ VisitFails(v)
    \/ ResendTimePasses
    \/ \E t \in Resets : ResetExpires(t)

PasswordsSpec == PasswordsInit /\ [][PasswordsNext]_passwordVars

-----------------------------------------------------------------------------
PasswordsTypeOK ==
    /\ attempts \in Nat
    /\ resets \in [Resets -> ResetState]
    /\ uses \in [Resets -> Nat]
    /\ resendable \in BOOLEAN
    /\ visit \in [Visitors -> VisitPlace]
    /\ with \in [Visitors -> Resets \cup {NoReset}]
    /\ quiet \in BOOLEAN

\* The log-in stays locked at the limit: the counter passes it by no more than
\* the other requests that had read it before, and not at all while requests do
\* not overlap (loginCrendential reads the counter and increments it later).
GuessesBounded ==
    /\ attempts < MaxAttempt + Cardinality(Visitors)
    /\ quiet => attempts <= MaxAttempt

\* A mailed token sets the password once while requests neither overlap nor fail
\* (resetPassword marks it used after setting the password).
ResetOnce == quiet => \A t \in Resets : uses[t] <= 1

\* The log-in locks at the limit of wrong attempts, and a mailed token sets the
\* password once (user.service loginCrendential and resetPassword).
PasswordsHold == GuessesBounded /\ ResetOnce
=============================================================================
