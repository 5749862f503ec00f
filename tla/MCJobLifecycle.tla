--------------------------- MODULE MCJobLifecycle ---------------------------
(* JobLifecycle on small instances: see the .cfg files. *)
EXTENDS JobLifecycle, TLC

CONSTANTS c1, c2

\* Requests are interchangeable.
Symmetry == Permutations(Clients)
=============================================================================
