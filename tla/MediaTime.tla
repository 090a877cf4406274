------------------------------ MODULE MediaTime ------------------------------
(***************************************************************************)
(* Timestamps as FFmpeg's integer arithmetic has them.  A time base is the *)
(* number of units (of AV_TIME_BASE) in one tick; NOPTS is the value of a  *)
(* timestamp that is not known, smaller than every other.                  *)
(***************************************************************************)
EXTENDS Integers

NOPTS == -1000000

(* a / d to the nearest integer, halves away from zero: AV_ROUND_NEAR_INF *)
Near(a, d) == IF a >= 0 THEN (2 * a + d) \div (2 * d) ELSE -((2 * (-a) + d) \div (2 * d))

(* av_rescale_q and, rounding up, av_rescale_q_rnd *)
Rescale(a, from, to) == IF a = NOPTS THEN NOPTS ELSE Near(a * from, to)
RescaleUp(a, from, to) == -((-(a * from)) \div to)

(* av_rescale_delta: a timestamp of audio, kept from jittering by the count *)
(* of samples (of fs units) up to it, last; a new last comes with it.  The  *)
(* library asserts that the timestamp is known.                            *)
RescaleDelta(in, ts, fs, samples, last, out) ==
  LET a == (((2 * ts - 1) * in) \div fs) \div 2
      b == (RescaleUp(2 * ts + 1, in, fs) + 1) \div 2
      this == IF last < a THEN a ELSE IF last > b THEN b ELSE last
  IN  IF last = NOPTS \/ samples = 0 \/ in <= out \/ last < 2 * a - b \/ last > 2 * b - a
        THEN [ts |-> Rescale(ts, in, out), last |-> Rescale(ts, in, fs) + samples]
        ELSE [ts |-> Rescale(this, fs, out), last |-> this + samples]

Abs(a) == IF a < 0 THEN -a ELSE a
Larger(a, b) == IF a > b THEN a ELSE b
Smaller(a, b) == IF a < b THEN a ELSE b
Median(a, b, c) == a + b + c - Larger(a, Larger(b, c)) - Smaller(a, Smaller(b, c))
=============================================================================
