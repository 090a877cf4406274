---------------------------- MODULE MCTokenBucket -----------------------------
(* TokenBucket for TLC, with small numbers for ms and micro-tokens: a token *)
(* costs half a ms, chunks take less and more than what is there.           *)
EXTENDS TokenBucket
===============================================================================
