--------------------------- MODULE MCRateLimiter ---------------------------
(***************************************************************************)
(* Instances of RateLimiter for TLC.  Buckets of different tenants do not  *)
(* meet, so one tenant and two handlers are enough for the races.  A       *)
(* bucket is idle after a tick without a check, and a cache entry lives    *)
(* for one tick.                                                           *)
(***************************************************************************)
EXTENDS RateLimiter, TLC

CONSTANTS a,         \* tenant
          h1, h2     \* handlers

Both == [rps |-> 2, burst |-> 2, quota |-> 0]
Quota == [rps |-> 0, burst |-> 0, quota |-> 1]
Lowered == [rps |-> 1, burst |-> 0, quota |-> 1]

Start == {Both, Quota}
Smaller == {Lowered}
Handlers == Permutations({h1, h2})
=============================================================================
