---------------------------- MODULE MCJobPipeline -----------------------------
(***************************************************************************)
(* Instances of JobPipeline for TLC: which requests there are, the id and  *)
(* kind of each, and the permits a convert needs.                          *)
(***************************************************************************)
EXTENDS JobPipeline

CONSTANTS r1, r2, r3, i1, i2

Converts == [r \in Requests |-> "convert"]
OneEach  == [r \in Requests |-> IF r = r1 THEN i1 ELSE i2]
AllOne   == [r \in Requests |-> i1]
Mixed    == [r \in Requests |-> IF r = r2 THEN "migrate" ELSE "convert"]
Needs    == [r \in Requests |-> IF r = r1 THEN 3 ELSE 1]
===============================================================================
