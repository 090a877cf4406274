------------------------------ MODULE MCJobStore ------------------------------
(* JobStore with two futures, two ids and two jobs that may carry each id.   *)
EXTENDS JobStore
===============================================================================
