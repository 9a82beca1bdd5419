---------------------------- MODULE MCApplications ----------------------------
(* Small instances of Applications. *)
EXTENDS Applications
=============================================================================
