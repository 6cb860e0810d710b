--------------------------- MODULE MCActionQueue ----------------------------
(* Model-checking instances of the Action Queue. *)
EXTENDS ActionQueueProperties, TLC

CONSTANTS r1, r2, r3, u1, u2, o1, o2

\* One user per org.
MCOrgOf == [u \in Users |-> IF u = u1 THEN o1 ELSE o2]

=============================================================================
