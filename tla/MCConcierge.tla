---------------------------- MODULE MCConcierge -----------------------------
(* Model-checking instances of the guest concierge. *)
EXTENDS Concierge, TLC

\* Turns, sessions and supplies are interchangeable; sound for safety.
Symmetry == Permutations(Turns) \cup Permutations(Sessions) \cup Permutations(Supplies)
=============================================================================
