--------------------------- MODULE JobQueueProofs ---------------------------
(***************************************************************************)
(* What jobs and streams wait in: the set of pending jobs with its file,   *)
(* the map of the tasks in progress, and the token bucket of a claim.      *)
(***************************************************************************)
EXTENDS JobStore, StreamMap, TokenBucket, TLAPS

-----------------------------------------------------------------------------
(***************************************************************************)
(* What JobStore guarantees for every set of ids, jobs and callers:        *)
(* StoreInv is inductive, hence the file tracks the set in memory as long  *)
(* as no caller is cancelled and no save fails.                            *)
(***************************************************************************)

LEMMA NoJobsType == NoJobs \in JobSets /\ NoWrite \in Flights /\ Blank \in Files
  BY DEF NoJobs, JobSets, NoWrite, Flights, Blank, Files

\* Types are preserved by every step, with or without cancellations and
\* failed saves.
LEMMA StoreTypeStep ==
  ASSUME StoreTypeOK, [StoreNext]_storeVars
  PROVE  StoreTypeOK'
<1> USE NoJobsType DEF StoreTypeOK
<1>1. ASSUME NEW a \in Actors, NEW s \in JobSets, Change(a, s)
      PROVE  StoreTypeOK'
  BY <1>1 DEF Change, Flights
<1>2. ASSUME NEW a \in Actors, NEW i \in Ids, NEW p \in Payloads, Add(a, i, p)
      PROVE  StoreTypeOK'
  <2>1. [jobs EXCEPT ![i] = p] \in JobSets
    BY DEF JobSets
  <2> QED BY <1>1, <1>2, <2>1 DEF Add
<1>3. ASSUME NEW a \in Actors, NEW i \in Ids, Remove(a, i)
      PROVE  StoreTypeOK'
  <2>1. [jobs EXCEPT ![i] = NoJob] \in JobSets
    BY DEF JobSets
  <2> QED BY <1>1, <1>3, <2>1 DEF Remove
<1>4. ASSUME NEW a \in Actors, OpenFile(a)
      PROVE  StoreTypeOK'
  <2>1. faulty' \in BOOLEAN
    BY <1>4, Zenon DEF OpenFile
  <2>2. file' \in Files /\ flight' \in [Actors -> Flights] /\ UNCHANGED <<jobs, lock>>
    BY <1>4 DEF OpenFile, Flights
  <2> QED BY <2>1, <2>2
<1>5. ASSUME NEW a \in Actors, WriteFile(a)
      PROVE  StoreTypeOK'
  <2>1. faulty' \in BOOLEAN
    BY <1>5, Zenon DEF WriteFile
  <2>2. file' \in Files /\ flight' \in [Actors -> Flights] /\ UNCHANGED <<jobs, lock>>
    BY <1>5 DEF WriteFile, Json, Garbled, NoJobs, JobSets, Flights, Files
  <2> QED BY <2>1, <2>2
<1>6. ASSUME NEW a \in Actors, Unlock(a) \/ DropSaver(a)
      PROVE  StoreTypeOK'
  BY <1>6 DEF Unlock, DropSaver
<1>7. CASE Reload
  BY <1>7 DEF Reload, Load, Files
<1>8. CASE UNCHANGED storeVars
  BY <1>8 DEF storeVars
<1> QED BY <1>2, <1>3, <1>4, <1>5, <1>6, <1>7, <1>8 DEF StoreNext

LEMMA StoreInitInv == StoreInit => StoreInv
<1> SUFFICES ASSUME StoreInit PROVE StoreInv
  OBVIOUS
<1>1. StoreTypeOK
  <2>1. faulty \in BOOLEAN
    BY Zenon DEF StoreInit
  <2> QED BY <2>1, NoJobsType DEF StoreInit, StoreTypeOK, Json, Files
<1>2. /\ \A a \in Actors : flight[a].stage = "none"
      /\ lock = Free /\ Load(file) = jobs
  BY DEF StoreInit, NoWrite, Load, Json
<1> QED BY <1>1, <1>2, StoreAssumption
        DEF StoreInv, HolderWrites, FileOfStage, FileTracksJobs

\* The inductive step.  Without cancellation and failure the mutex is
\* held from the change until the text is in the file, so that no two writes
\* overlap: that is what keeps the write's text equal to the set in memory.
LEMMA StoreInvStep ==
  ASSUME StoreInv, [StoreNext]_storeVars
  PROVE  StoreInv'
<1>0. StoreTypeOK'
  BY StoreTypeStep DEF StoreInv
<1>f. CASE faulty'
  BY <1>0, <1>f DEF StoreInv, HolderWrites, FileOfStage, FileTracksJobs
<1> SUFFICES ASSUME ~faulty' PROVE StoreInv'
  BY <1>f
<1>o. ASSUME NEW a \in Actors, OpenFile(a)
      PROVE  /\ ~faulty /\ file' = Blank /\ UNCHANGED <<jobs, lock>>
             /\ flight[a].stage = "queued"
             /\ flight' = [flight EXCEPT ![a] =
                  [stage |-> "opened", jobs |-> flight[a].jobs]]
  BY <1>o DEF OpenFile
<1>w. ASSUME NEW a \in Actors, WriteFile(a)
      PROVE  /\ ~faulty /\ flight[a].stage = "opened" /\ UNCHANGED <<jobs, lock>>
             /\ file' = Json(flight[a].jobs) \/ file.text # "blank"
             /\ flight' = [flight EXCEPT ![a] = NoWrite]
  BY <1>w DEF WriteFile
<1> USE StoreAssumption, NoJobsType DEF StoreInv, HolderWrites, FileOfStage, FileTracksJobs
<1>1. ASSUME NEW a \in Actors, NEW s, Change(a, s)
      PROVE  StoreInv'
  BY <1>0, <1>1 DEF Change, StoreTypeOK, Flights
<1>2. ASSUME NEW a \in Actors, OpenFile(a)
      PROVE  StoreInv'
  BY <1>0, <1>2, <1>o DEF StoreTypeOK, Flights
<1>3. ASSUME NEW a \in Actors, WriteFile(a)
      PROVE  StoreInv'
  <2>1. file' = Json(jobs) /\ lock = a /\ UNCHANGED <<jobs, lock>>
    BY <1>3, <1>w DEF Blank
  <2>2. Load(file') = jobs'
    BY <2>1 DEF Load, Json
  <2>3. \A b \in Actors : flight'[b].stage = "none"
    BY <1>3, <1>w, <2>1 DEF StoreTypeOK, NoWrite
  <2> QED BY <1>0, <2>1, <2>2, <2>3
<1>4. ASSUME NEW a \in Actors, Unlock(a) \/ DropSaver(a)
      PROVE  StoreInv'
  BY <1>0, <1>4 DEF Unlock, DropSaver, StoreTypeOK
<1>5. CASE Reload
  BY <1>0, <1>5 DEF Reload, NoWrite, StoreTypeOK
<1>6. CASE UNCHANGED storeVars
  BY <1>0, <1>6 DEF storeVars
<1> QED BY <1>1, <1>2, <1>3, <1>4, <1>5, <1>6 DEF StoreNext, Add, Remove

\* JobSetManager keeps its types whatever happens to its callers.
THEOREM StoreTypeCorrect == StoreSpec => []StoreTypeOK
<1>1. StoreInit => StoreTypeOK
  BY StoreInitInv DEF StoreInv
<1> QED BY <1>1, StoreTypeStep, PTL DEF StoreSpec

\* As long as no caller of add or remove is cancelled and no save fails after a
\* start, pending-jobs.json at rest holds exactly the jobs in memory, however many
\* restarts there were and whatever happened before them.
THEOREM StoreDurable == StoreSpec => []FileTracksJobs
<1>1. StoreInv => FileTracksJobs
  BY DEF StoreInv
<1>2. StoreInv /\ [StoreNext]_storeVars => StoreInv'
  BY StoreInvStep
<1> QED BY <1>1, <1>2, StoreInitInv, PTL DEF StoreSpec

\* Even with faults, a write whose future still holds the mutex carries the set
\* in memory: nobody else can have changed it since.
AwaitedWrite ==
  \A a \in Actors : lock = a /\ flight[a].stage # "none" => flight[a].jobs = jobs

LEMMA AwaitedStep ==
  ASSUME StoreTypeOK, AwaitedWrite, [StoreNext]_storeVars
  PROVE  AwaitedWrite'
<1> USE StoreAssumption DEF StoreTypeOK, AwaitedWrite
<1>1. ASSUME NEW a \in Actors, NEW s, Change(a, s)
      PROVE  AwaitedWrite'
  BY <1>1 DEF Change
<1>2. ASSUME NEW a \in Actors, OpenFile(a) \/ WriteFile(a)
      PROVE  AwaitedWrite'
  <2>1. UNCHANGED <<jobs, lock>> /\ \A b \in Actors : b # a => flight'[b] = flight[b]
    BY <1>2 DEF OpenFile, WriteFile
  <2>2. flight[a].stage # "none" BY <1>2 DEF OpenFile, WriteFile
  <2>3. flight'[a].stage # "none" => flight'[a].jobs = flight[a].jobs
    BY <1>2 DEF OpenFile, WriteFile, NoWrite
  <2> QED BY <2>1, <2>2, <2>3
<1>3. ASSUME NEW a \in Actors, Unlock(a) \/ DropSaver(a)
      PROVE  AwaitedWrite'
  BY <1>3 DEF Unlock, DropSaver
<1>4. CASE Reload
  BY <1>4 DEF Reload, NoWrite
<1>5. CASE UNCHANGED storeVars
  BY <1>5 DEF storeVars
<1> QED BY <1>1, <1>2, <1>3, <1>4, <1>5 DEF StoreNext, Add, Remove

LEMMA RepairStep ==
  ASSUME StoreTypeOK, AwaitedWrite, [StoreNext]_storeVars,
         NEW a \in Actors, lock = a, flight[a].stage = "opened", file.text = "blank",
         flight'[a].stage = "none", file'.text # "blank"
  PROVE  Load(file') = jobs'
<1> USE StoreAssumption DEF StoreTypeOK
<1>1. flight' # flight /\ file' # file
  OBVIOUS
<1>2. PICK b \in Actors : OpenFile(b) \/ WriteFile(b)
  BY <1>1 DEF StoreNext, Add, Remove, Change, Unlock, DropSaver, Reload, storeVars
<1>3. b = a
  BY <1>2 DEF OpenFile, WriteFile
<1>4. WriteFile(a)
  BY <1>2, <1>3 DEF OpenFile
<1>5. file' = Json(flight[a].jobs) /\ jobs' = jobs
  BY <1>4 DEF WriteFile, Blank
<1> QED BY <1>5 DEF AwaitedWrite, Load, Json

\* Whatever saves were cancelled or failed before, a save that is awaited to its
\* end and writes into the file as it truncated it leaves the set in memory there.
THEOREM StoreRepairs == StoreSpec => SaveRepairs
<1>1. StoreInit => AwaitedWrite
  BY DEF StoreInit, AwaitedWrite, NoWrite
<1>2. StoreTypeOK /\ AwaitedWrite /\ [StoreNext]_storeVars => AwaitedWrite'
  BY AwaitedStep
<1>3. StoreTypeOK /\ AwaitedWrite /\ [StoreNext]_storeVars =>
        [\A a \in Actors :
           /\ lock = a /\ flight[a].stage = "opened" /\ file.text = "blank"
           /\ flight'[a].stage = "none" /\ file'.text # "blank"
           => Load(file') = jobs']_storeVars
  BY RepairStep
<1> QED BY <1>1, <1>2, <1>3, StoreTypeCorrect, PTL DEF StoreSpec, SaveRepairs

-----------------------------------------------------------------------------
(***************************************************************************)
(* For every set of keys and futures, StreamMap's queue is empty when      *)
(* nothing is in progress, and StreamMap implements KeyedFifo.             *)
(***************************************************************************)

LEMMA MapTypeInit == MapInit => MapInv
  BY DEF MapInit, MapInv, MapTypeOK, QueueInv, Busy, Results

LEMMA InsertKeeps ==
  ASSUME MapInv, NEW k \in Keys, NEW t \in Tasks, ~Busy(k), Insert(k, t)
  PROVE  /\ in_progress' \in [Keys -> Tasks \cup {NoTask}]
         /\ \A h \in Keys : h # k => in_progress'[h] = in_progress[h]
         /\ in_progress'[k] = t /\ t # NoTask
         /\ queue' = queue /\ entries' = entries
  BY StreamMapAssumption DEF MapInv, MapTypeOK, Insert

LEMMA QueueKeeps ==
  ASSUME MapInv, NEW k \in Keys, NEW t \in Tasks,
         queue' = [queue EXCEPT ![k] = Append(queue[k], t)]
  PROVE  /\ queue' \in [Keys -> Seq(Tasks)]
         /\ \A h \in Keys : h # k => queue'[h] = queue[h]
         /\ queue'[k] = Append(queue[k], t) /\ queue'[k] # <<>>
<1>1. queue \in [Keys -> Seq(Tasks)] /\ queue[k] \in Seq(Tasks)
  BY DEF MapInv, MapTypeOK
<1>2. Append(queue[k], t) \in Seq(Tasks) /\ Append(queue[k], t) # <<>>
  BY <1>1
<1> QED BY <1>1, <1>2

\* process_queue in terms of the values it leaves: with a deque, its first
\* future moves up; without, the key is idle.
LEMMA ProcessQueue ==
  ASSUME MapInv, NEW k \in Keys, process_queue(k)
  PROVE  /\ in_progress' \in [Keys -> Tasks \cup {NoTask}]
         /\ queue' \in [Keys -> Seq(Tasks)]
         /\ \A h \in Keys : h # k =>
              /\ in_progress'[h] = in_progress[h] /\ queue'[h] = queue[h]
              /\ h \in entries' <=> h \in entries
         /\ queue[k] # <<>> =>
              /\ in_progress'[k] = Head(queue[k]) /\ Head(queue[k]) \in Tasks
              /\ queue'[k] = Tail(queue[k])
         /\ queue[k] = <<>> => in_progress'[k] = NoTask /\ queue'[k] = <<>>
         /\ entries' \subseteq Keys
         /\ k \in entries' <=> queue'[k] # <<>>
<1> USE DEF MapInv, MapTypeOK
<1>1. k \in entries <=> queue[k] # <<>>
  BY DEF QueueInv
<1>2. queue[k] \in Seq(Tasks)
  OBVIOUS
<1>3. CASE queue[k] = <<>>
  <2>1. /\ in_progress' = [in_progress EXCEPT ![k] = NoTask]
        /\ queue' = [queue EXCEPT ![k] = <<>>]
        /\ entries' = entries \ {k}
    BY <1>1, <1>3 DEF process_queue
  <2> QED BY <1>3, <2>1
<1>4. CASE queue[k] # <<>>
  <2>1. /\ in_progress' = [in_progress EXCEPT ![k] = Head(queue[k])]
        /\ queue' = [queue EXCEPT ![k] = Tail(queue[k])]
        /\ entries' = IF Tail(queue[k]) = <<>> THEN entries \ {k} ELSE entries
    BY <1>1, <1>4 DEF process_queue
  <2>2. Head(queue[k]) \in Tasks /\ Tail(queue[k]) \in Seq(Tasks)
    BY <1>2, <1>4
  <2> QED BY <1>1, <1>4, <2>1, <2>2
<1> QED BY <1>3, <1>4

LEMMA MapInvStep ==
  ASSUME MapInv, [MapNext]_vars
  PROVE  MapInv'
<1>1. ASSUME NEW k \in Keys, NEW t \in Tasks, push(k, t)
      PROVE  MapInv'
  <2>1. CASE ~Busy(k)
    BY <1>1, <2>1, InsertKeeps DEF push, MapInv, MapTypeOK, QueueInv, Busy
  <2>2. CASE Busy(k)
    <3>1. queue' = [queue EXCEPT ![k] = Append(queue[k], t)] /\ entries' = entries \cup {k}
          /\ in_progress' = in_progress
      BY <1>1, <2>2 DEF push
    <3> QED BY <1>1, <2>2, <3>1, QueueKeeps DEF push, MapInv, MapTypeOK, QueueInv, Busy
  <2> QED BY <2>1, <2>2
<1>2. ASSUME NEW k \in Keys, NEW t \in Tasks, add_if_not_in_progress(k, t)
      PROVE  MapInv'
  <2>1. CASE ~Busy(k)
    BY <1>2, <2>1, InsertKeeps
    DEF add_if_not_in_progress, MapInv, MapTypeOK, QueueInv, Busy
  <2>2. CASE Busy(k)
    BY <1>2, <2>2 DEF add_if_not_in_progress, MapInv, MapTypeOK, QueueInv, Busy
  <2> QED BY <2>1, <2>2
<1>3. ASSUME NEW k \in Keys, PollReady(k)
      PROVE  MapInv'
  <2>1. process_queue(k) /\ fresh' = fresh /\ result' \in Results
    BY <1>3 DEF PollReady, MapInv, MapTypeOK, Busy, Results
  <2>2. MapTypeOK'
    BY <2>1, ProcessQueue DEF MapInv, MapTypeOK
  <2>3. queue'[k] # <<>> => in_progress'[k] # NoTask
    <3>1. queue'[k] # <<>> => queue[k] # <<>>
      BY <2>1, ProcessQueue
    <3> QED BY <2>1, <3>1, ProcessQueue, StreamMapAssumption
  <2>4. QueueInv'
    BY <2>1, <2>3, ProcessQueue DEF MapInv, QueueInv, Busy
  <2> QED BY <2>2, <2>4 DEF MapInv
<1>4. CASE PollEnd
  BY <1>4 DEF PollEnd, MapInv, MapTypeOK, QueueInv, Busy, Results
<1>5. CASE UNCHANGED vars
  BY <1>5 DEF vars, MapInv, MapTypeOK, QueueInv, Busy
<1> QED BY <1>1, <1>2, <1>3, <1>4, <1>5 DEF MapNext

\* The assertion in poll_next_entry holds, for every set of keys and futures.
THEOREM AssertionHolds == MapSpec => []MapInv
  BY MapTypeInit, MapInvStep, PTL DEF MapSpec

-------------------------------------------------------------------------------
(* The refinement.                                                         *)

\* The line of k is given by k's future and deque alone.
LEMMA LineOf ==
  /\ \A k \in Keys : Lines[k] = IF in_progress[k] # NoTask
                                THEN <<in_progress[k]>> \o queue[k] ELSE <<>>
  /\ DOMAIN Lines = Keys
  BY DEF Lines, Busy

LEMMA FifoStep ==
  ASSUME MapInv, MapInv', [MapNext]_vars
  PROVE  [Fifo!FifoNext]_<<Lines, result>>
<1>l. \A k \in Keys : Lines'[k] = IF in_progress'[k] # NoTask
                                  THEN <<in_progress'[k]>> \o queue'[k] ELSE <<>>
  BY DEF Lines, Busy
<1>t. /\ in_progress \in [Keys -> Tasks \cup {NoTask}]
      /\ queue \in [Keys -> Seq(Tasks)]
  BY DEF MapInv, MapTypeOK
<1>f. ASSUME NEW k \in Keys, NEW s, Lines'[k] = s,
             \A h \in Keys : h # k => Lines'[h] = Lines[h]
      PROVE  Lines' = [Lines EXCEPT ![k] = s]
  BY <1>f DEF Lines
<1>s. ASSUME NEW h \in Keys, in_progress'[h] = in_progress[h], queue'[h] = queue[h]
      PROVE  Lines'[h] = Lines[h]
  BY <1>l, <1>s, LineOf
<1>i. ASSUME NEW k \in Keys, NEW t \in Tasks, ~Busy(k), Insert(k, t), result' = result
      PROVE  Fifo!Accept(k, t)
  <2>1. Lines[k] = <<>> /\ queue[k] = <<>>
    BY <1>i, LineOf DEF Busy, MapInv, QueueInv
  <2>2. /\ in_progress'[k] = t /\ t # NoTask /\ queue'[k] = <<>>
        /\ \A h \in Keys : h # k => in_progress'[h] = in_progress[h] /\ queue'[h] = queue[h]
    BY <1>i, <2>1, InsertKeeps
  <2>3. \A h \in Keys : h # k => Lines'[h] = Lines[h]
    BY <1>s, <2>2
  <2>5. Lines'[k] = <<t>>
    <3>1. Lines'[k] = <<t>> \o <<>>
      BY <1>l, <2>2
    <3> QED BY <3>1
  <2>4. <<t>> = Append(Lines[k], t)
    BY <2>1
  <2> QED BY <1>f, <1>i, <2>3, <2>4, <2>5 DEF Fifo!Accept
<1>1. ASSUME NEW k \in Keys, NEW t \in Tasks, push(k, t)
      PROVE  Fifo!FifoNext
  <2>1. CASE ~Busy(k)
    BY <1>1, <1>i, <2>1 DEF push, Fifo!FifoNext
  <2>2. CASE Busy(k)
    <3>1. queue' = [queue EXCEPT ![k] = Append(queue[k], t)] /\ in_progress' = in_progress
          /\ result' = result
      BY <1>1, <2>2 DEF push
    <3>2. \A h \in Keys : h # k => Lines'[h] = Lines[h]
      BY <1>l, <3>1, LineOf, QueueKeeps
    <3>3. /\ Lines[k] = <<in_progress[k]>> \o queue[k]
          /\ Lines'[k] = <<in_progress[k]>> \o Append(queue[k], t)
      BY <1>l, <2>2, <3>1, LineOf, QueueKeeps DEF Busy
    <3>4. <<in_progress[k]>> \o Append(queue[k], t) = Append(<<in_progress[k]>> \o queue[k], t)
      BY <1>t, <2>2 DEF Busy
    <3>5. Fifo!Accept(k, t)
      BY <1>f, <3>1, <3>2, <3>3, <3>4 DEF Fifo!Accept
    <3> QED BY <3>5 DEF Fifo!FifoNext
  <2> QED BY <2>1, <2>2
<1>2. ASSUME NEW k \in Keys, NEW t \in Tasks, add_if_not_in_progress(k, t)
      PROVE  Fifo!FifoNext \/ UNCHANGED <<Lines, result>>
  <2>1. CASE ~Busy(k)
    BY <1>2, <1>i, <2>1 DEF add_if_not_in_progress, Fifo!FifoNext
  <2>2. CASE Busy(k)
    BY <1>2, <2>2 DEF add_if_not_in_progress, Lines, Busy
  <2> QED BY <2>1, <2>2
<1>3. ASSUME NEW k \in Keys, PollReady(k)
      PROVE  Fifo!FifoNext
  <2>1. process_queue(k) /\ in_progress[k] # NoTask
        /\ result' = [key |-> k, task |-> in_progress[k]]
    BY <1>3 DEF PollReady, Busy
  <2>2. Lines[k] = <<in_progress[k]>> \o queue[k]
    BY <2>1, LineOf
  <2>3. Lines[k] # <<>> /\ Head(Lines[k]) = in_progress[k] /\ Tail(Lines[k]) = queue[k]
    BY <1>t, <2>1, <2>2
  <2>4. \A h \in Keys : h # k => Lines'[h] = Lines[h]
    <3>1. \A h \in Keys : h # k => in_progress'[h] = in_progress[h] /\ queue'[h] = queue[h]
      BY <2>1, ProcessQueue
    <3> QED BY <1>s, <3>1
  <2>5. Lines'[k] = queue[k]
    <3>1. CASE queue[k] = <<>>
      BY <1>l, <2>1, <3>1, ProcessQueue
    <3>2. CASE queue[k] # <<>>
      <4>1. Lines'[k] = <<Head(queue[k])>> \o Tail(queue[k])
        BY <1>l, <2>1, <3>2, ProcessQueue, StreamMapAssumption
      <4>2. queue[k] \in Seq(Tasks)
        BY <1>t
      <4> QED BY <3>2, <4>1, <4>2
    <3> QED BY <3>1, <3>2
  <2>6. Fifo!Finish(k)
    BY <1>f, <2>1, <2>3, <2>4, <2>5 DEF Fifo!Finish
  <2> QED BY <2>6 DEF Fifo!FifoNext
<1>4. CASE PollEnd
  BY <1>4, LineOf DEF PollEnd, Busy, Lines, Fifo!FifoNext, Fifo!End
<1>5. CASE UNCHANGED vars
  BY <1>5 DEF vars, Lines, Busy
<1> QED BY <1>1, <1>2, <1>3, <1>4, <1>5 DEF MapNext

\* StreamMap is a per-key first-in-first-out executor, for every set of keys
\* and futures.
THEOREM MapImplementsFifo == MapSpec => ImplementsFifo
<1>1. MapInit => Fifo!FifoInit
  BY DEF MapInit, Fifo!FifoInit, Lines, Busy
<1>2. MapInv /\ MapInv' /\ [MapNext]_vars => [Fifo!FifoNext]_<<Lines, result>>
  BY FifoStep
<1> QED BY <1>1, <1>2, AssertionHolds, PTL DEF MapSpec, ImplementsFifo, Fifo!FifoSpec

-----------------------------------------------------------------------------
(***************************************************************************)
(* TokenBucket: for every rate, chunk size and number of streams no update *)
(* of the tokens is lost; and a single stream never exceeds the rate.      *)
(***************************************************************************)
LEMMA CreditType ==
  ASSUME NEW e \in Nat
  PROVE  calculate_new_tokens(e) \in Nat
<1>1. e \div Second \in Nat /\ (e * Rate) \div Second \in Nat /\ e * Rate \in Nat
  BY BucketAssumption
<1> QED BY <1>1, BucketAssumption DEF calculate_new_tokens

\* A refill never exceeds the rate times the time that has passed.
LEMMA CreditBound ==
  ASSUME NEW e \in Nat
  PROVE  Second * calculate_new_tokens(e) <= Rate * e
<1>1. \A x \in Nat : Second * (x \div Second) <= x /\ x \div Second \in Nat
  BY BucketAssumption
<1>2. e * Rate \in Nat /\ e * Rate = Rate * e
  BY BucketAssumption
<1>3. CASE e > Large
  <2> DEFINE q == e \div Second
  <2>1. q \in Nat /\ Second * q <= e
    BY <1>1
  <2> HIDE DEF q
  <2>2. Second * (q * Rate) = Rate * (Second * q)
    BY <2>1, BucketAssumption
  <2>3. Rate * (Second * q) <= Rate * e
    BY <2>1, BucketAssumption
  <2> QED BY <1>3, <2>2, <2>3 DEF calculate_new_tokens, q
<1>4. CASE ~(e > Large)
  BY <1>1, <1>2, <1>4 DEF calculate_new_tokens
<1> QED BY <1>3, <1>4

-------------------------------------------------------------------------------
(* Any number of streams.                                                  *)

LEMMA SubType ==
  ASSUME NEW a \in Nat, NEW b \in Nat
  PROVE  saturating_sub(a, b) \in Nat /\ (b <= a => saturating_sub(a, b) = a - b)
  BY DEF saturating_sub

LEMMA SharedInit == BucketInit => SharedInv
  BY BucketAssumption
  DEF BucketInit, SharedInv, BucketTypeOK, CallInv, Accounted, Steps

\* Steps that touch neither the tokens nor the history.
LEMMA SharedCall ==
  ASSUME SharedInv, NEW t \in Threads,
         \/ \E a \in Amounts : Consume(t, a)
         \/ ReadClock(t) \/ LoadLast(t) \/ ReadTokens(t) \/ GiveUp(t)
         \/ StampGranted(t) \/ StampShort(t) \/ Wake(t) \/ Cancel(t)
  PROVE  SharedInv'
<1> USE BucketAssumption DEF SharedInv, BucketTypeOK, CallInv, Accounted, Steps, Goto,
      shared, history
<1>1. ASSUME NEW a \in Amounts, Consume(t, a)
      PROVE  SharedInv'
  BY <1>1 DEF Consume
<1>2. CASE ReadClock(t)
  BY <1>2 DEF ReadClock
<1>3. CASE LoadLast(t)
  <2> DEFINE c == calculate_new_tokens(saturating_sub(at[t], last))
  <2>1. c \in Nat
    <3>1. at[t] \in Nat /\ last \in Nat
      OBVIOUS
    <3> QED BY <3>1, SubType, CreditType
  <2>2. new' = [new EXCEPT ![t] = c]
    BY <1>3 DEF LoadLast
  <2> HIDE DEF c
  <2> QED BY <1>3, <2>1, <2>2 DEF LoadLast
<1>4. CASE ReadTokens(t)
  BY <1>4 DEF ReadTokens
<1>5. CASE GiveUp(t)
  BY <1>5 DEF GiveUp
<1>6. CASE StampGranted(t)
  BY <1>6 DEF StampGranted
<1>7. CASE StampShort(t)
  BY <1>7 DEF StampShort
<1>8. CASE Wake(t) \/ Cancel(t)
  BY <1>8 DEF Wake, Cancel
<1> QED BY <1>1, <1>2, <1>3, <1>4, <1>5, <1>6, <1>7, <1>8

LEMMA SharedSwap ==
  ASSUME SharedInv, NEW t \in Threads, Swap(t)
  PROVE  SharedInv'
<1> USE BucketAssumption DEF SharedInv, BucketTypeOK, CallInv, Accounted, Steps, Goto,
      history
<1>1. CASE tokens' = (seen[t] + new[t]) - amount[t] /\ tokens = seen[t]
           /\ consumed' = consumed + amount[t] /\ credited' = credited + new[t]
           /\ Goto(t, "granted") /\ UNCHANGED retries
  BY <1>1 DEF Swap
<1>2. CASE retries' = [retries EXCEPT ![t] = retries[t] + 1] /\ Goto(t, "read")
           /\ UNCHANGED <<tokens, history>>
  BY <1>2 DEF Swap
<1> QED BY <1>1, <1>2 DEF Swap

LEMMA SharedShort ==
  ASSUME SharedInv, NEW t \in Threads, Short(t)
  PROVE  SharedInv'
<1> USE BucketAssumption DEF SharedInv
<1>1. wait_ms(t) \in Nat
  <2>1. amount[t] - (seen[t] + new[t]) \in Nat /\ Rate \in Nat \ {0}
    BY DEF BucketTypeOK, CallInv, Short
  <2>2. \A x \in Nat : (x * Second) \div Rate \in Nat
    <3>1. \A x \in Nat : x * Second \in Nat
      OBVIOUS
    <3> QED BY <2>1, <3>1
  <2> QED BY <2>1, <2>2 DEF wait_ms, AtLeastOne
<1>2. until' \in [Threads -> Nat] /\ pc' = [pc EXCEPT ![t] = "wait"]
  BY <1>1 DEF Short, Goto, BucketTypeOK
<1>3. /\ tokens' \in Nat /\ credited' \in Nat /\ consumed' = consumed
      /\ tokens' + consumed' = InitTokens + credited'
  BY DEF Short, BucketTypeOK, Accounted
<1>4. UNCHANGED <<now, last, amount, at, new, seen, retries>>
  BY DEF Short
<1> QED BY <1>2, <1>3, <1>4 DEF BucketTypeOK, CallInv, Accounted, Steps, Short

LEMMA SharedStep ==
  ASSUME SharedInv, [BucketNext]_bucketVars
  PROVE  SharedInv'
<1>1. CASE Tick
  BY <1>1, BucketAssumption
  DEF Tick, SharedInv, BucketTypeOK, CallInv, Accounted, locals, history
<1>2. CASE UNCHANGED bucketVars
  BY <1>2 DEF bucketVars, shared, locals, history, SharedInv, BucketTypeOK, CallInv, Accounted
<1> QED BY <1>1, <1>2, SharedCall, SharedSwap, SharedShort DEF BucketNext, Call

\* However many streams share a bucket, no update of its tokens is lost.
THEOREM NothingLost == BucketSpec => []Accounted
<1>1. SharedInv => Accounted
  BY DEF SharedInv
<1> QED BY <1>1, SharedInit, SharedStep, PTL DEF BucketSpec

-------------------------------------------------------------------------------
(* A single stream.                                                        *)

LEMMA Products ==
  /\ \A a, b \in Nat : a <= b => Rate * a <= Rate * b
  /\ \A a, b \in Nat : Second * (a + b) = Second * a + Second * b
  /\ \A a, b \in Nat : a <= b => Rate * (b - a) + Rate * a = Rate * b
  /\ \A a \in Nat : Rate * a \in Nat /\ Second * a \in Nat
  BY BucketAssumption

\* The tokens and what was granted stay within the refills up to time x.
Covers(x) == Second * (tokens + consumed) <= Second * InitTokens + Rate * x

\* CreditInv for the one stream t.
StreamInv(t) ==
  /\ last <= now /\ at[t] <= now
  /\ pc[t] \notin {"idle", "clock", "asleep", "gone"} => last <= at[t]
  /\ pc[t] \in {"read", "swap", "short"} => Second * new[t] + Rate * last <= Rate * at[t]
  /\ pc[t] \in {"swap", "short"} => tokens = seen[t]
  /\ Stamped(t) => Covers(last)
  /\ ~Stamped(t) => Covers(at[t])

LEMMA StreamInvIs == CreditInv <=> \A t \in Threads : Alone(t) => StreamInv(t)
  BY DEF CreditInv, StreamInv, Covers

\* Adding a refill that was due moves the tokens from last_refill_ms to now_ms.
LEMMA Refill ==
  ASSUME SharedInv, NEW t \in Threads, Covers(last),
         Second * new[t] + Rate * last <= Rate * at[t],
         tokens' + consumed' = tokens + consumed + new[t]
  PROVE  Second * (tokens' + consumed') <= Second * InitTokens + Rate * at[t]
<1> DEFINE h == tokens + consumed
<1>1. h \in Nat /\ new[t] \in Nat /\ last \in Nat /\ at[t] \in Nat /\ InitTokens \in Nat
  BY BucketAssumption DEF SharedInv, BucketTypeOK
<1>2. tokens' + consumed' = h + new[t] /\ Second * h <= Second * InitTokens + Rate * last
  BY DEF Covers
<1> HIDE DEF h
<1>3. Second * (h + new[t]) = Second * h + Second * new[t]
  BY <1>1, Products
<1>4. /\ Second * h \in Nat /\ Second * new[t] \in Nat /\ Second * InitTokens \in Nat
      /\ Rate * last \in Nat /\ Rate * at[t] \in Nat
  BY <1>1, Products
<1> QED BY <1>2, <1>3, <1>4

\* As long as only t has called consume, every step but those of the clock is
\* one of t.
LEMMA AloneStep ==
  ASSUME SharedInv, NEW t \in Threads, Alone(t)', [BucketNext]_bucketVars
  PROVE  /\ Alone(t)
         /\ \/ Call(t) \/ Cancel(t) \/ \E a \in Amounts : Consume(t, a)
            \/ Tick \/ UNCHANGED bucketVars
<1> USE BucketAssumption
<1>1. amount \in [Threads -> Nat]
  BY DEF SharedInv, BucketTypeOK
<1>2. \A s \in Threads : Call(s) \/ Cancel(s) => pc[s] # "idle" /\ UNCHANGED amount
  BY DEF Call, Cancel, ReadClock, LoadLast, ReadTokens, GiveUp, Swap, Short,
         StampGranted, StampShort, Wake
<1>3. \A s \in Threads, a \in Amounts : Consume(s, a) =>
        amount' = [amount EXCEPT ![s] = a] /\ a # 0
  BY DEF Consume
<1>4. Tick \/ UNCHANGED bucketVars => UNCHANGED amount
  BY DEF Tick, bucketVars, locals
<1>5. \A s \in Threads : amount[s] # 0 => amount'[s] # 0
  BY <1>1, <1>2, <1>3, <1>4 DEF BucketNext
<1>6. Alone(t)
  BY <1>5 DEF Alone
<1>7. \A s \in Threads \ {t} : ~Call(s) /\ ~Cancel(s) /\ \A a \in Amounts : ~Consume(s, a)
  BY <1>1, <1>2, <1>3, <1>6 DEF Alone, SharedInv, CallInv
<1> QED BY <1>6, <1>7 DEF BucketNext

LEMMA StreamStep ==
  ASSUME SharedInv, NEW t \in Threads, Alone(t) => StreamInv(t), Alone(t)', [BucketNext]_bucketVars
  PROVE  StreamInv(t)'
<1>t. /\ now \in Nat /\ tokens \in Nat /\ last \in Nat /\ consumed \in Nat
      /\ pc \in [Threads -> Steps] /\ at \in [Threads -> 0 .. MaxTime]
      /\ new \in [Threads -> Nat] /\ seen \in [Threads -> Nat] /\ t \in Threads
      /\ at[t] \in Nat /\ StreamInv(t)
  BY BucketAssumption, AloneStep DEF SharedInv, BucketTypeOK
<1> USE <1>t DEF StreamInv, Stamped, Goto
<1>1. ASSUME NEW a \in Amounts, Consume(t, a)
      PROVE  StreamInv(t)'
  BY <1>1 DEF Consume, shared, history, Covers
<1>2. CASE ReadClock(t)
  BY <1>2 DEF ReadClock, shared, history, Covers
<1>3. CASE LoadLast(t)
  <2> DEFINE e == saturating_sub(at[t], last)
  <2>1. e \in Nat /\ e = at[t] - last
    BY <1>3, SubType DEF LoadLast
  <2>2. new'[t] = calculate_new_tokens(e) /\ UNCHANGED <<shared, history, at>>
    BY <1>3 DEF LoadLast
  <2>3. Second * calculate_new_tokens(e) <= Rate * e /\ calculate_new_tokens(e) \in Nat
    BY <2>1, CreditBound, CreditType
  <2>4. last <= at[t]
    BY <1>3 DEF LoadLast
  <2> HIDE DEF e
  <2>5. Rate * e + Rate * last = Rate * at[t]
    BY <2>1, <2>4, Products
  <2>6. Second * new'[t] \in Nat /\ Rate * e \in Nat /\ Rate * last \in Nat
    BY <2>1, <2>2, <2>3, Products
  <2>7. Second * new'[t] + Rate * last <= Rate * at[t]
    BY <2>2, <2>3, <2>5, <2>6
  <2>8. pc[t] = "load" /\ pc'[t] = "read"
    BY <1>3 DEF LoadLast
  <2> QED BY <2>2, <2>4, <2>7, <2>8 DEF shared, history, Covers
<1>4. CASE ReadTokens(t)
  BY <1>4 DEF ReadTokens, shared, history, Covers
<1>5. CASE GiveUp(t)
  BY <1>5 DEF GiveUp, shared, history, Covers
<1>6. CASE Swap(t)
  <2>1. CASE tokens' = (seen[t] + new[t]) - amount[t] /\ tokens = seen[t]
             /\ consumed' = consumed + amount[t] /\ Goto(t, "granted")
    <3>1. amount[t] \in Nat /\ pc[t] = "swap" /\ pc'[t] = "granted"
          /\ UNCHANGED <<now, last, at>>
      BY <1>6, <2>1 DEF Swap, SharedInv, BucketTypeOK
    <3>2. tokens' + consumed' = tokens + consumed + new[t]
      BY <2>1, <3>1
    <3>3. Second * (tokens' + consumed') <= Second * InitTokens + Rate * at[t]
      BY <3>1, <3>2, Refill
    <3> QED BY <3>1, <3>3 DEF Covers
  <2>2. CASE Goto(t, "read") /\ UNCHANGED <<tokens, history>>
    BY <1>6, <2>2 DEF Swap, history, Covers
  <2> QED BY <1>6, <2>1, <2>2 DEF Swap
<1>7. CASE Short(t)
  <2>1. pc[t] = "short" /\ pc'[t] = "wait" /\ UNCHANGED <<now, last, at, consumed, new>>
    BY <1>7 DEF Short
  <2>2. CASE tokens' = seen[t] + new[t] /\ tokens = seen[t]
    <3>1. tokens' + consumed' = tokens + consumed + new[t]
      BY <2>1, <2>2
    <3>2. Second * (tokens' + consumed') <= Second * InitTokens + Rate * at[t]
      BY <2>1, <3>1, Refill
    <3> QED BY <2>1, <3>2 DEF Covers
  <2>3. CASE UNCHANGED tokens
    <3> DEFINE h == Second * (tokens + consumed)
    <3>0. tokens + consumed \in Nat
      OBVIOUS
    <3>a. h \in Nat
      BY <3>0, Products
    <3>b. last <= at[t] /\ Covers(last)
      BY <2>1
    <3>1. h <= Second * InitTokens + Rate * last /\ h \in Nat /\ last <= at[t]
      BY <3>a, <3>b DEF Covers
    <3>2. Rate * last <= Rate * at[t] /\ Rate * last \in Nat /\ Rate * at[t] \in Nat
          /\ Second * InitTokens \in Nat
      BY <3>1, Products, BucketAssumption
    <3>3. h <= Second * InitTokens + Rate * at[t]
      BY <3>1, <3>2
    <3> QED BY <2>1, <2>3, <3>3 DEF Covers
  <2> QED BY <1>7, <2>2, <2>3 DEF Short
<1>8. CASE StampGranted(t)
  BY <1>8 DEF StampGranted, history, Covers
<1>9. CASE StampShort(t)
  BY <1>9 DEF StampShort, history, Covers
<1>10. CASE Wake(t) \/ Cancel(t)
  BY <1>10 DEF Wake, Cancel, shared, history, Covers
<1>11. CASE Tick
  BY <1>11 DEF Tick, locals, history, Covers
<1>12. CASE UNCHANGED bucketVars
  BY <1>12 DEF bucketVars, shared, locals, history, Covers
<1> QED BY <1>1, <1>2, <1>3, <1>4, <1>5, <1>6, <1>7, <1>8, <1>9, <1>10, <1>11, <1>12,
           AloneStep DEF Call

\* A claim that only one stream uses is granted no more than its initial tokens
\* and its rate, whatever the rate, the chunks and the clock.
THEOREM SingleWithinRate == BucketSpec => []AloneWithinRate
<1>1. BucketInit => CreditInv
  <2> SUFFICES ASSUME BucketInit, NEW t \in Threads PROVE StreamInv(t)
    BY StreamInvIs
  <2>1. /\ now = 0 /\ last = 0 /\ at[t] = 0 /\ pc[t] = "idle"
        /\ tokens = InitTokens /\ consumed = 0
    BY DEF BucketInit
  <2> QED BY <2>1, BucketAssumption DEF StreamInv, Stamped, Covers
<1>2. SharedInv /\ CreditInv /\ [BucketNext]_bucketVars => CreditInv'
  <2> SUFFICES ASSUME SharedInv, CreditInv, [BucketNext]_bucketVars PROVE CreditInv'
    OBVIOUS
  <2>1. \A t \in Threads : Alone(t)' => StreamInv(t)'
    BY StreamStep, StreamInvIs
  <2> QED BY <2>1 DEF CreditInv, StreamInv, Covers
<1>3. SharedInv /\ CreditInv => AloneWithinRate
  <2> SUFFICES ASSUME SharedInv, NEW t \in Threads, StreamInv(t) PROVE WithinRate
    BY StreamInvIs DEF AloneWithinRate
  <2>1. /\ now \in Nat /\ tokens \in Nat /\ last \in Nat /\ consumed \in Nat
        /\ at[t] \in Nat
    BY BucketAssumption DEF SharedInv, BucketTypeOK
  <2>2. PICK x \in {last, at[t]} : Covers(x) /\ x <= now /\ x \in Nat
    BY <2>1 DEF StreamInv
  <2>3. Rate * x <= Rate * now
    BY <2>1, <2>2, Products
  <2>4. Second * (tokens + consumed) = Second * tokens + Second * consumed
    BY <2>1, Products
  <2>5. /\ Second * tokens \in Nat /\ Second * consumed \in Nat
        /\ Rate * x \in Nat /\ Rate * now \in Nat /\ Second * InitTokens \in Nat
    BY <2>1, <2>2, Products, BucketAssumption
  <2> QED BY <2>2, <2>3, <2>4, <2>5 DEF Covers, WithinRate
<1> QED BY <1>1, <1>2, <1>3, SharedInit, SharedStep, PTL DEF BucketSpec
===============================================================================
