--------------------------- MODULE MCRateLimiter ---------------------------
(***************************************************************************)
(* Small instances of RateLimiter for TLC.  The periods are 3 and 5        *)
(* milliseconds instead of 1000 and 60000, with 2 and 3 permits in each,   *)
(* so that the rates differ and a token takes no whole number of them.     *)
(***************************************************************************)
EXTENDS RateLimiter

CONSTANTS c1, c2

MCMax == [b \in Buckets |-> IF b = "second" THEN 2 ELSE 3]
MCPeriod == [b \in Buckets |-> IF b = "second" THEN 3 ELSE 5]
=============================================================================
