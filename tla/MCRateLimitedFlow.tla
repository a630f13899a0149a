--------------------------- MODULE MCRateLimitedFlow ---------------------------
(* A duration that does not divide the limits, so that every refill rounds;  *)
(* the largest limit is the largest amount, so that backfill saturates.      *)
EXTENDS RateLimitedFlow

MCAmounts == {0, 1, 3}
MCLimits == {0, 2, 5, 7}
================================================================================
