----------------------------- MODULE RateParams -----------------------------
(***************************************************************************)
(* RateParams::from_rate_bps (rate_limiter.rs): the interval of the        *)
(* aggregate timer and the bytes it may hand out per tick.                 *)
(***************************************************************************)
EXTENDS Integers

CHUNKS_PER_TICK == 8
MIN_INTERVAL_MS == 5
MAX_INTERVAL_MS == 100

clamp(x, lo, hi) == IF x < lo THEN lo ELSE IF x > hi THEN hi ELSE x

rate_bytes_per_sec(rate_bps) == rate_bps \div 8

interval_ms(rate, chunk_size) ==
    clamp((CHUNKS_PER_TICK * chunk_size * 1000) \div rate, MIN_INTERVAL_MS, MAX_INTERVAL_MS)

budget_bytes(rate, chunk_size) == (rate * interval_ms(rate, chunk_size)) \div 1000
=============================================================================
