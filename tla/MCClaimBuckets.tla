---------------------------- MODULE MCClaimBuckets ----------------------------
(***************************************************************************)
(* Instances of ClaimBuckets for TLC: the token of each request and the    *)
(* limit and validity times of each token.                                 *)
(***************************************************************************)
EXTENDS ClaimBuckets

CONSTANTS r1, r2, r3, r4, c1, c2

OneClaim  == [r \in Requests |-> c1]
TwoClaims == [r \in Requests |-> IF r = r4 THEN c2 ELSE c1]

LimitOne     == [c \in Claims |-> 1]
LimitAndNone == [c \in Claims |-> IF c = c1 THEN 2 ELSE 0]

FromStart == [c \in Claims |-> 0]
Delayed   == [c \in Claims |-> 1]
Short     == [c \in Claims |-> 2]
Apart     == [c \in Claims |-> IF c = c1 THEN 2 ELSE 3]
===============================================================================
