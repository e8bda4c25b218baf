--------------------------- MODULE MCRateLimiter ---------------------------
(* Instances of RateLimiter for TLC.                                       *)
EXTENDS RateLimiter, TLC

CONSTANTS a1, a2, a3, a4, a5, k1, k2
Five     == {a1, a2, a3, a4, a5}
TwoKeys  == [a \in Five |-> IF a = a5 THEN k2 ELSE k1]
AlikeTwo == Permutations(Five \ {a5})
=============================================================================
