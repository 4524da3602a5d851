----------------------------- MODULE MCRateLimiter -----------------------------
EXTENDS RateLimiter, TLC

CONSTANTS alice, bob

Symmetry == Permutations(Scope)
==============================================================================
