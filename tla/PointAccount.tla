---------------------------- MODULE PointAccount ----------------------------
(***************************************************************************)
(* What a company's point wallet promises, with no database, webhook or    *)
(* queue in sight: a paid top-up order adds its points exactly once, a     *)
(* purchase takes its price exactly once and only when the points cover    *)
(* it, and nothing else moves the balance.  Wallet.tla is the code's way   *)
(* of doing this.                                                          *)
(***************************************************************************)
EXTENDS Integers

CONSTANTS
    Orders,     \* top-up orders
    Spends,     \* purchases paid from the wallet
    Amount,     \* Amount[o]: the points order o buys
    Cost        \* Cost[s]: the price of purchase s

VARIABLES
    points,     \* the balance
    credited,   \* orders whose points were added
    spent       \* purchases whose price was taken

accountVars == <<points, credited, spent>>

Init ==
    /\ points = 0
    /\ credited = {}
    /\ spent = {}

Credit(o) ==
    /\ o \notin credited
    /\ credited' = credited \cup {o}
    /\ points' = points + Amount[o]
    /\ UNCHANGED spent

Spend(s) ==
    /\ s \notin spent
    /\ points >= Cost[s]
    /\ spent' = spent \cup {s}
    /\ points' = points - Cost[s]
    /\ UNCHANGED credited

Next ==
    \/ \E o \in Orders : Credit(o)
    \/ \E s \in Spends : Spend(s)

Spec == Init /\ [][Next]_accountVars
=============================================================================
