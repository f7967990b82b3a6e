--------------------------- MODULE MCRateLimiter ---------------------------
(* Two addresses, bursts of two; a token takes two units of time.          *)
EXTENDS RateLimiter, TLC

CONSTANTS k1, k2

MCKeys == {k1, k2}
KeySymmetry == Permutations(MCKeys)
=============================================================================
