------------------------- MODULE MCInterviewBooking -------------------------
(* Small instances of InterviewBooking: workers and slots are interchangeable, *)
(* and only safety is checked, so their permutations are a sound symmetry.     *)
EXTENDS InterviewBooking, TLC

AnyNames == Permutations(Invitations) \cup Permutations(Slots)
=============================================================================
