--------------------------- MODULE MCRateLimiter ---------------------------
(***************************************************************************)
(* RateLimiter with a ten-microsecond second, so that the bucket fills up, *)
(* runs dry and is replenished several times within the bound.             *)
(***************************************************************************)
EXTENDS RateLimiter
=============================================================================
