------------------------------- MODULE KeyedFifo ------------------------------
(***************************************************************************)
(* What a StreamMap promises its user: per key, the tasks it accepted run  *)
(* one at a time and in the order of acceptance; each result comes out     *)
(* once; and the stream ends only when no accepted task is left.           *)
(***************************************************************************)
EXTENDS Sequences

CONSTANTS Keys, Tasks, NoResult

VARIABLES
  line,    \* per key, the tasks accepted and not yet finished; the first one runs
  result   \* what the last poll returned: a key and its task, or the end

Accept(k, t) ==
  /\ line' = [line EXCEPT ![k] = Append(line[k], t)]
  /\ UNCHANGED result

Finish(k) ==
  /\ line[k] # <<>>
  /\ result' = [key |-> k, task |-> Head(line[k])]
  /\ line' = [line EXCEPT ![k] = Tail(line[k])]

End ==
  /\ \A k \in Keys : line[k] = <<>>
  /\ result' = NoResult
  /\ UNCHANGED line

FifoInit ==
  /\ line = [k \in Keys |-> <<>>]
  /\ result = NoResult

FifoNext ==
  \/ \E k \in Keys, t \in Tasks : Accept(k, t)
  \/ \E k \in Keys : Finish(k)
  \/ End

FifoSpec == FifoInit /\ [][FifoNext]_<<line, result>>
===============================================================================
