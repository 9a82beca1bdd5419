-------------------------------- MODULE SignUps --------------------------------
(***************************************************************************)
(* The accounts and their roles: signing up with a password or by Google,  *)
(* deleting an account and restoring it.  The rule that there is one       *)
(* manager only is checked by counting before the account is created.      *)
(***************************************************************************)
EXTENDS Integers, FiniteSets

CONSTANTS
    People,         \* accounts that may be made, each with an email of its own choice
    Emails,         \* emails they may use
    NoEmail         \* the email of an account that is deleted or not made

ASSUME SignUpsAssumption == IsFiniteSet(People) /\ NoEmail \notin Emails

VARIABLES
    account,        \* status, role and email of each account
    signUp          \* where each person's sign-up stands, and what it asks for

signUpVars == <<account, signUp>>

-----------------------------------------------------------------------------
Role == {"MANAGER", "WORKER"}          \* WORKER stands for every role but one
NoAccount == [status |-> "none", role |-> "WORKER", email |-> NoEmail]
NoSignUp == [place |-> "unused", role |-> "WORKER", email |-> NoEmail]
ActiveManagers == {p \in People : account[p].status = "ACTIVE" /\ account[p].role = "MANAGER"}
Taken == {account[p].email : p \in People} \ {NoEmail}

SignUpsInit ==
    /\ account = [p \in People |-> NoAccount]
    /\ signUp = [p \in People |-> NoSignUp]

ManagerExists == ActiveManagers # {}

\* signUp counts the managers that are not deleted, then looks for the email.
\* loginWithSocial does it in the other order for an email it does not know.
ValidateSingleManager(p, role, email) ==
    /\ signUp[p].place = "unused"
    /\ role = "MANAGER" => ~ManagerExists
    /\ signUp' = [signUp EXCEPT ![p] = [place |-> "validated", role |-> role, email |-> email]]
    /\ UNCHANGED account

\* The row is created unless its email meets the unique key.
CreateUser(p) ==
    LET asked == signUp[p] IN
    /\ asked.place = "validated"
    /\ account' = IF asked.email \in Taken THEN account
                  ELSE [account EXCEPT ![p] =
                          [status |-> "ACTIVE", role |-> asked.role, email |-> asked.email]]
    /\ signUp' = [signUp EXCEPT ![p] = [NoSignUp EXCEPT !.place = "done"]]

\* userDeleteAccount renames the email, which frees it.
DeleteAccount(p) ==
    /\ account[p].status = "ACTIVE"
    /\ account' = [account EXCEPT ![p].status = "DELETED", ![p].email = NoEmail]
    /\ UNCHANGED signUp

\* updateUserStatus, by the administrator, changes the status and nothing else.
SetStatus(p, status) ==
    /\ account[p].status \notin {"none", status}
    /\ account' = [account EXCEPT ![p].status = status]
    /\ UNCHANGED signUp

SignUpsNext ==
    \E p \in People :
        \/ \E role \in Role, email \in Emails : ValidateSingleManager(p, role, email)
        \/ CreateUser(p)
        \/ DeleteAccount(p)
        \/ \E status \in {"ACTIVE", "DELETED"} : SetStatus(p, status)

SignUpsSpec == SignUpsInit /\ [][SignUpsNext]_signUpVars

-----------------------------------------------------------------------------
SignUpsTypeOK ==
    /\ account \in [People -> [status : {"none", "ACTIVE", "DELETED"}, role : Role,
                               email : Emails \cup {NoEmail}]]
    /\ signUp \in [People -> [place : {"unused", "validated", "done"}, role : Role,
                              email : Emails \cup {NoEmail}]]

\* validateSingleManagerConstraint refuses a sign-up with the words that the
\* system allows one manager account only.  Two sign-ups at once, or a deleted
\* manager restored after another has signed up, make two.
OneManager == Cardinality(ActiveManagers) <= 1
=============================================================================
