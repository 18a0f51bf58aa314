---------------------------- MODULE MCRateLimiter ----------------------------
(* A small instance of RateLimiter: three calls from two addresses with a  *)
(* key each, and a limit that two counted calls exceed.                    *)
EXTENDS RateLimiter, TLC

CONSTANTS ip1, ip2, k1, k2

MCRateLimitKey == (ip1 :> k1) @@ (ip2 :> k2)
=============================================================================
