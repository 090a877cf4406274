------------------------------- MODULE StreamMap ------------------------------
(***************************************************************************)
(* StreamMap (crates/core/src/stream_map.rs), the structure in which the   *)
(* job handler keeps its running tasks: at most one future per key is in   *)
(* in_progress, further ones pushed for the key wait in queue.             *)
(*                                                                         *)
(* queue is a HashMap of VecDeques.  Its keys are kept apart (entries), as *)
(* the code tells a missing deque from an empty one.  Which of the ready   *)
(* futures a poll returns is up to tokio's StreamMap, which starts at a    *)
(* random entry.                                                           *)
(***************************************************************************)
EXTENDS Naturals, Sequences

CONSTANTS
  Keys,
  Tasks,      \* the futures; each is given to the map once
  NoTask,     \* no future in progress
  NoResult    \* poll_next returned Ready(None), or was not called yet

ASSUME StreamMapAssumption == NoTask \notin Tasks

VARIABLES
  in_progress,  \* per key, the future being polled
  queue,        \* per key, the futures that wait
  entries,      \* the keys the HashMap queue has
  fresh,        \* the futures not given to the map yet
  result        \* what the last poll_next that was Ready returned

vars == <<in_progress, queue, entries, fresh, result>>

Results == [key : Keys, task : Tasks] \cup {NoResult}

MapTypeOK ==
  /\ in_progress \in [Keys -> Tasks \cup {NoTask}]
  /\ queue \in [Keys -> Seq(Tasks)]
  /\ entries \in SUBSET Keys
  /\ fresh \in SUBSET Tasks
  /\ result \in Results

Busy(k) == in_progress[k] # NoTask

Insert(k, t) ==
  /\ in_progress' = [in_progress EXCEPT ![k] = t]
  /\ UNCHANGED <<queue, entries>>

\* push: run the future, or queue it behind the one in progress.
push(k, t) ==
  /\ t \in fresh
  /\ fresh' = fresh \ {t}
  /\ \/ ~Busy(k) /\ Insert(k, t)
     \/ /\ Busy(k)
        /\ queue' = [queue EXCEPT ![k] = Append(queue[k], t)]
        /\ entries' = entries \cup {k}
        /\ UNCHANGED in_progress
  /\ UNCHANGED result

\* add_if_not_in_progress: run the future, or drop it.
add_if_not_in_progress(k, t) ==
  /\ t \in fresh
  /\ fresh' = fresh \ {t}
  /\ \/ ~Busy(k) /\ Insert(k, t)
     \/ Busy(k) /\ UNCHANGED <<in_progress, queue, entries>>
  /\ UNCHANGED result

\* A mutant: the queue is not looked at when a future is done.
ForgetQueue(k) ==
  /\ in_progress' = [in_progress EXCEPT ![k] = NoTask]
  /\ UNCHANGED <<queue, entries>>

\* A mutant: the newest future goes first.
PopBack(k) ==
  LET q    == queue[k]
      next == k \in entries /\ q # <<>>
      rest == IF next THEN SubSeq(q, 1, Len(q) - 1) ELSE <<>> IN
  /\ in_progress' = [in_progress EXCEPT ![k] = IF next THEN q[Len(q)] ELSE NoTask]
  /\ queue' = [queue EXCEPT ![k] = rest]
  /\ entries' = IF rest = <<>> THEN entries \ {k} ELSE entries

\* A mutant: an empty deque stays in the map.
KeepEntry(k) ==
  LET next == k \in entries /\ queue[k] # <<>> IN
  /\ in_progress' = [in_progress EXCEPT ![k] = IF next THEN Head(queue[k]) ELSE NoTask]
  /\ queue' = [queue EXCEPT ![k] = IF next THEN Tail(queue[k]) ELSE <<>>]
  /\ UNCHANGED entries

\* The future of k is out of in_progress; the next one of its queue goes in,
\* and a deque that is empty then leaves the map.
process_queue(k) ==
  LET next == k \in entries /\ queue[k] # <<>>
      rest == IF next THEN Tail(queue[k]) ELSE <<>> IN
  /\ in_progress' = [in_progress EXCEPT ![k] = IF next THEN Head(queue[k]) ELSE NoTask]
  /\ queue' = [queue EXCEPT ![k] = rest]
  /\ entries' = IF rest = <<>> THEN entries \ {k} ELSE entries

\* poll_next_entry when the future of k is ready.
PollReady(k) ==
  /\ Busy(k)
  /\ result' = [key |-> k, task |-> in_progress[k]]
  /\ process_queue(k)
  /\ UNCHANGED fresh

\* poll_next_entry when nothing is in progress.
PollEnd ==
  /\ \A k \in Keys : ~Busy(k)
  /\ result' = NoResult
  /\ UNCHANGED <<in_progress, queue, entries, fresh>>

is_terminated == (\A k \in Keys : ~Busy(k)) /\ entries = {}

MapInit ==
  /\ in_progress = [k \in Keys |-> NoTask]
  /\ queue = [k \in Keys |-> <<>>]
  /\ entries = {}
  /\ fresh = Tasks
  /\ result = NoResult

MapNext ==
  \/ \E k \in Keys, t \in Tasks : push(k, t) \/ add_if_not_in_progress(k, t)
  \/ \E k \in Keys : PollReady(k)
  \/ PollEnd

MapSpec == MapInit /\ [][MapNext]_vars

\* Every future gets ready in the end, and the stream is polled until it ends.
FairMapSpec == MapSpec /\ \A k \in Keys : WF_vars(PollReady(k))

-------------------------------------------------------------------------------
\* A key has a deque only behind a future in progress, and never an empty one.
QueueInv ==
  \A k \in Keys :
    /\ k \in entries => Busy(k)
    /\ k \in entries <=> queue[k] # <<>>

\* The assertion in poll_next_entry never fires, "assert!(self.queue.is_empty())"
\* at the end of the stream, and is_terminated never says that the stream has
\* ended while a future waits, because of QueueInv.
MapInv == MapTypeOK /\ QueueInv

\* The tasks of a key as the user of the map sees them.
Lines ==
  [k \in Keys |-> IF Busy(k) THEN <<in_progress[k]>> \o queue[k] ELSE <<>>]

Fifo == INSTANCE KeyedFifo WITH line <- Lines

\* StreamMap implements its abstract specification: per key one future at a
\* time, first in first out, nothing lost or run twice, and the end only when
\* nothing is left.
ImplementsFifo == Fifo!FifoSpec

Holds(t) == \E k \in Keys : in_progress[k] = t \/ \E n \in DOMAIN queue[k] : queue[k][n] = t

\* Every future that the map takes in, also behind others of its key, comes out.
TaskComesOut ==
  \A t \in Tasks : Holds(t) ~> (result # NoResult /\ result.task = t)
===============================================================================
