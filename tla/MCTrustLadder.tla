--------------------------- MODULE MCTrustLadder ----------------------------
(* Model-checking instance of the trust ladder. *)
EXTENDS TrustLadder
=============================================================================
