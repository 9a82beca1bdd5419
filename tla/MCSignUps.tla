------------------------------- MODULE MCSignUps -------------------------------
(* Small instances of SignUps. *)
EXTENDS SignUps
=============================================================================
