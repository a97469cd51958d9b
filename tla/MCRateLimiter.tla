---------------------------- MODULE MCRateLimiter ----------------------------
(* Small instances of RateLimiter for TLC; the cfg gives the constants.       *)
EXTENDS RateLimiter, TLC

Symmetry == Permutations(Clients) \cup Permutations(Ips)
===============================================================================
