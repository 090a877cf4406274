----------------------------- MODULE MCStreamMap ------------------------------
(* StreamMap for TLC: two keys and four futures are enough for a deque that *)
(* grows, shrinks and leaves the map while the other key goes on.           *)
EXTENDS StreamMap
===============================================================================
