----------------------------- MODULE MCJobPosting -----------------------------
(* Small instances of JobPosting. *)
EXTENDS JobPosting

\* One day for one point.
MCPackages == {[days |-> 1, price |-> 1]}
=============================================================================
