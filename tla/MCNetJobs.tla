----------------------------- MODULE MCNetJobs -----------------------------
(* Instances of NetJobs: the terminal's chain lies between those of the two
   addresses, and DUMP jobs come last. *)
EXTENDS NetJobs, TLC

CONSTANTS a1, a2, p1

Chains == (a1 :> 1) @@ (Local :> 2) @@ (a2 :> 3) @@ (p1 :> 4)
=============================================================================
