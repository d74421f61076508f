--------------------------- MODULE MCVerification ----------------------------
(* Model-checking instance of Verification: an RNG that alternates. *)
EXTENDS Verification

MCRoll(n) == (n % 2) + 1
=============================================================================
