----------------------------- MODULE MCLimiter -----------------------------
(* The limiter of an agent with a cap of 80 bit/s, the smallest that works:   *)
(* one byte per tick.                                                         *)
EXTENDS AggregateTimer, RateParams

MCPerTick == budget_bytes(rate_bytes_per_sec(80), 16384)
=============================================================================
