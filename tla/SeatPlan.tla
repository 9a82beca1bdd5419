------------------------------ MODULE SeatPlan ------------------------------
(***************************************************************************)
(* What the slots of an interview campaign promise: a candidate holds at   *)
(* most one seat, takes one only where there is room, and the employer may *)
(* replan, which can empty seats but never fills one.                      *)
(***************************************************************************)
EXTENDS Integers, FiniteSets

CONSTANTS
    Candidates,     \* the invited workers
    Slots,          \* interview slots
    NoSlot          \* the seat of a candidate who has none

VARIABLES
    seat,           \* the slot each candidate holds
    room            \* the capacity of each slot

Holders(s) == {c \in Candidates : seat[c] = s}

Init == seat = [c \in Candidates |-> NoSlot]

\* A candidate takes a seat where there is room and gives up the one held.
Take(c, s) ==
    /\ seat[c] # s
    /\ Cardinality(Holders(s)) < room[s]
    /\ seat' = [seat EXCEPT ![c] = s]
    /\ UNCHANGED room

\* Seats are given back and capacities change.
Replan ==
    \E freed \in SUBSET Candidates :
        seat' = [c \in Candidates |-> IF c \in freed THEN NoSlot ELSE seat[c]]

Next == Replan \/ \E c \in Candidates, s \in Slots : Take(c, s)

Spec == Init /\ [][Next]_<<seat, room>>
=============================================================================
