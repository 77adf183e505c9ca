---------------------------- MODULE MCRateLimiter ----------------------------
(* Model-checking instance of RateLimiter with interchangeable keys.         *)
EXTENDS RateLimiter, TLC

Symmetry == Permutations(Keys)

=============================================================================
