------------------------------- MODULE Packages --------------------------------
(***************************************************************************)
(* The boost packages: the administrator edits them and the point pricing, *)
(* and an employer buys one of the offers made from both.  An edit checks  *)
(* first and writes in a later transaction.                                *)
(*                                                                         *)
(* Of the four point settings only the default duration makes an offer;    *)
(* a package is known by its id, which stands for its name and its price.  *)
(***************************************************************************)
EXTENDS Integers, FiniteSets, FiniteSetsExt

CONSTANTS
    MaxPackages,    \* bound on packages; they are numbered from 1
    Durations,      \* days a package may have
    Admins          \* edits that may be open at once

ASSUME PackagesAssumption ==
    /\ MaxPackages \in Nat \ {0}
    /\ Durations \subseteq Nat \ {0} /\ Durations # {}

VARIABLES
    package,        \* type, days, and the two flags of each package
    defaultDays,    \* SystemSetting BOOST_JOB_DURATION_DAYS, 0 where it is not set
    order,          \* the edit each administrator has open
    retyped,        \* a default package has become a boost package unasked
    packagesCalm    \* no edit was overtaken by another

packageVars == <<package, defaultDays, order, retyped, packagesCalm>>

-----------------------------------------------------------------------------
PackageIds == 1 .. MaxPackages
OrderType == {"BOOST_JOB", "other"}
Package == [type : OrderType \cup {"none"}, days : Durations \cup {0},
            active : BOOLEAN, default : BOOLEAN]
NoPackage == [type |-> "none", days |-> 0, active |-> FALSE, default |-> FALSE]
NoOrder == [id |-> 0, as |-> NoPackage, default |-> "unset"]
Asked == {"unset", "yes", "no"}         \* dto.isDefault
OpenOrders == {a \in Admins : order[a] # NoOrder}
Existing == {i \in PackageIds : package[i].type # "none"}
BoostPackages == {i \in Existing : package[i].type = "BOOST_JOB"}

PackagesInit ==
    /\ package = [i \in PackageIds |-> NoPackage]
    /\ defaultDays = 0
    /\ order = [a \in Admins |-> NoOrder]
    /\ retyped = FALSE /\ packagesCalm = TRUE

\* Only among boost packages, the inactive ones too.
NeverTaken(days, except) == TRUE                                  \* mutant
DurationFree(days, except) == \A i \in BoostPackages \ {except} : package[i].days # days
ValidDuration(type, days, except) ==
    type = "BOOST_JOB" => days # 0 /\ DurationFree(days, except)

\* Bound: two edits may overlap once.  Nothing is promised after that, and no
\* further edit begins.
CheckOrder(a, id, as, default) ==
    /\ order[a] = NoOrder /\ packagesCalm
    /\ ValidDuration(as.type, as.days, id)
    /\ order' = [order EXCEPT ![a] = [id |-> id, as |-> as, default |-> default]]
    /\ packagesCalm' = (packagesCalm /\ OpenOrders = {})
    /\ UNCHANGED <<package, defaultDays, retyped>>

\* createPaymentPackage: a fresh id; a package that is not a boost has no days.
ReceivePackage(a, type, days, active, default) ==
    LET fresh == PackageIds \ (Existing \cup {order[b].id : b \in Admins}) IN
    /\ fresh # {}
    /\ CheckOrder(a, Min(fresh),
          [type |-> type, days |-> IF type = "BOOST_JOB" THEN days ELSE 0,
           active |-> active, default |-> FALSE], default)

\* updatePaymentPackage: what the request leaves out stays as it was read, and
\* the flag it leaves out stays as it is when it is written.
ReceiveUpdate(a, id, type, days, active, default) ==
    /\ id \in Existing
    /\ CheckOrder(a, id,
          [type |-> type, days |-> IF type = "BOOST_JOB" THEN days ELSE 0,
           active |-> active, default |-> FALSE], default)

KeptDefault(type) == package                                      \* mutant
Demoted(type) ==
    [i \in PackageIds |-> IF package[i].type = type THEN [package[i] EXCEPT !.default = FALSE]
                          ELSE package[i]]

\* The transaction: the other defaults of the type are taken back, if asked for.  Its
\* two statements are one step here: another edit could commit between them, but
\* nothing is promised of edits that overlap.
WriteOrder(a) ==
    LET what == order[a]
        others == IF what.default = "yes" THEN Demoted(what.as.type) ELSE package
        flag == CASE what.default = "yes" -> TRUE [] what.default = "no" -> FALSE
                  [] OTHER -> package[what.id].default
    IN
    /\ what # NoOrder
    /\ package' = [others EXCEPT ![what.id] = [what.as EXCEPT !.default = flag]]
    /\ retyped' = (retyped \/ (what.default = "unset" /\ flag
                                 /\ package[what.id].type # what.as.type))
    /\ order' = [order EXCEPT ![a] = NoOrder]
    /\ UNCHANGED <<defaultDays, packagesCalm>>

\* updatePointPricingSettings refuses less than one day.
UpdatePointPricing(days) ==
    /\ days # defaultDays
    /\ defaultDays' = days
    /\ UNCHANGED <<package, order, retyped, packagesCalm>>

PackagesNext ==
    \/ \E a \in Admins, type \in OrderType, days \in Durations, active \in BOOLEAN, default \in Asked :
          /\ type = "other" => active            \* only boost packages are looked at
          /\ \/ ReceivePackage(a, type, days, active, default)
             \/ \E id \in PackageIds : ReceiveUpdate(a, id, type, days, active, default)
    \/ \E a \in Admins : WriteOrder(a)
    \/ \E days \in Durations : UpdatePointPricing(days)

PackagesSpec == PackagesInit /\ [][PackagesNext]_packageVars

-----------------------------------------------------------------------------
(* What an employer is offered.                                            *)

PointCost(value, fallback) == IF value = 0 THEN fallback ELSE value
FallbackDays == PointCost(defaultDays, Min(Durations))

ActiveBoostPackages ==
    {[id |-> i, days |-> package[i].days, default |-> package[i].default] :
        i \in {j \in BoostPackages : package[j].active}}

\* The default duration is offered as package 0 when no package has it.
BoostPackagesForEmployer ==
    IF \E p \in ActiveBoostPackages : p.days = FallbackDays THEN ActiveBoostPackages
    ELSE ActiveBoostPackages \cup
            {[id |-> 0, days |-> FallbackDays, default |-> ~\E p \in ActiveBoostPackages : p.default]}

\* The offers that an employer who names the days, or names none, may get.
ResolveBoostPackage(days) ==
    LET defaults == {p \in BoostPackagesForEmployer : p.default} IN
    IF days # 0 THEN {p \in BoostPackagesForEmployer : p.days = days}
    ELSE IF defaults # {} THEN defaults ELSE BoostPackagesForEmployer

PackagesTypeOK ==
    /\ package \in [PackageIds -> Package]
    /\ defaultDays \in Durations \cup {0}
    /\ \A a \in Admins : order[a] \in [id : PackageIds \cup {0}, as : Package, default : Asked]
    /\ retyped \in BOOLEAN /\ packagesCalm \in BOOLEAN

\* What is shown is what is bought: of the offers, one at most has the days that
\* the employer names, and one at most is the default one - unless two edits
\* overlapped (each checks before the other writes), or a default package of
\* another type was made a boost package (updatePaymentPackage takes back the
\* other defaults only if the request says isDefault).
OffersUnambiguous ==
    packagesCalm =>
        /\ \A days \in Durations : Cardinality(ResolveBoostPackage(days)) <= 1
        /\ ~retyped => Cardinality({p \in BoostPackagesForEmployer : p.default}) <= 1
=============================================================================
