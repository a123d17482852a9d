--------------------------- MODULE MCSessionSync ---------------------------
(* A small instance of SessionSync for TLC. *)
EXTENDS SessionSync, TLC

\* Which account and which profile it is changes nothing, and the properties of
\* the run are about states and steps.
Symmetry == Permutations(Accounts) \cup Permutations(Profiles)
=============================================================================
