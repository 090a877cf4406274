-------------------------- MODULE JobPipelineProofs ---------------------------
(***************************************************************************)
(* Theorems about JobPipeline for every set of ids and requests, every     *)
(* size of the pools, and with or without overlapping requests, cancelled  *)
(* requests, failing files and restarts: types, one worker per id, and, as *)
(* long as requests for an id do not overlap, that every queued or running *)
(* job is recorded in the JobSetManager (PInv is the inductive invariant). *)
(*                                                                         *)
(* And where the video of a request is.  When every id is submitted once   *)
(* and nothing crashes, it is never lost, and a job that is reported done  *)
(* left it where it is served from: WInv follows it through the phases of  *)
(* its job.  When the process may crash and ids may be used again, what is *)
(* published is whole: VInv says that an upload which is not whole is      *)
(* never the input of a convert on record, in memory or in the file a      *)
(* restart reads.                                                          *)
(***************************************************************************)
EXTENDS JobPipeline, FiniteSetTheorems, TLAPS

-------------------------------------------------------------------------------
(* Types.                                                                  *)

LEMMA JobTypes ==
  /\ \A r \in Requests, k \in Kinds : Job(r, k) \in Jobs
  /\ \A j \in Jobs : j.req \in Requests /\ j.kind \in Kinds /\ JobId(j) \in Ids
  /\ \A r \in Requests : IdOf[r] \in Ids /\ KindOf[r] \in Kinds
  BY PipelineAssumption DEF Job, Jobs, JobId, Kinds

LEMMA StoreConstants ==
  /\ Store!NoJobs \in Store!JobSets
  /\ Store!NoWrite \in Store!Flights
  /\ Store!Blank \in Store!Files /\ Store!Garbled \in Store!Files
  BY DEF Store!NoJobs, Store!JobSets, Store!NoWrite, Store!Flights,
         Store!Blank, Store!Garbled, Store!Files

LEMMA PermitTypes ==
  /\ \A k \in Kinds : PoolLimit(k) \in Nat
  /\ \A j \in Jobs : need_permit(j) \in Nat \ {0} /\ Acquire(j) \in Nat
<1>1. \A k \in Kinds : PoolLimit(k) \in Nat
  BY PipelineAssumption DEF Kinds, PoolLimit
<1>2. \A j \in Jobs : need_permit(j) \in Nat \ {0}
  BY PipelineAssumption, JobTypes DEF need_permit
<1> QED BY <1>1, <1>2, JobTypes DEF Acquire

\* The steps of JobStore keep its types, whoever takes them.
LEMMA StoreTypes ==
  ASSUME Store!StoreTypeOK, NEW a \in Actors
  PROVE  /\ \A i \in Ids, p \in Jobs : Store!Add(a, i, p) => Store!StoreTypeOK'
         /\ \A i \in Ids : Store!Remove(a, i) => Store!StoreTypeOK'
         /\ Store!OpenFile(a) => Store!StoreTypeOK'
         /\ Store!WriteFile(a) => Store!StoreTypeOK'
         /\ Store!Unlock(a) => Store!StoreTypeOK'
         /\ Store!DropSaver(a) => Store!StoreTypeOK'
<1> USE StoreConstants DEF Store!StoreTypeOK
<1>1. ASSUME NEW s \in Store!JobSets, Store!Change(a, s)
      PROVE  Store!StoreTypeOK'
  BY <1>1 DEF Store!Change, Store!Flights
<1>2. ASSUME NEW i \in Ids, NEW p \in Jobs
      PROVE  /\ [jobs EXCEPT ![i] = p] \in Store!JobSets
             /\ [jobs EXCEPT ![i] = NoJob] \in Store!JobSets
  BY DEF Store!JobSets
<1>3. \A i \in Ids, p \in Jobs : Store!Add(a, i, p) => Store!StoreTypeOK'
  BY <1>1, <1>2 DEF Store!Add
<1>4. \A i \in Ids : Store!Remove(a, i) => Store!StoreTypeOK'
  <2>1. \A i \in Ids : [jobs EXCEPT ![i] = NoJob] \in Store!JobSets
    BY DEF Store!JobSets
  <2> QED BY <1>1, <2>1 DEF Store!Remove
<1>5. Store!OpenFile(a) => Store!StoreTypeOK'
  <2>1. Store!OpenFile(a) => faulty' \in BOOLEAN
    BY Zenon DEF Store!OpenFile
  <2>2. Store!OpenFile(a) => /\ file' \in Store!Files /\ UNCHANGED <<jobs, lock>>
                             /\ flight' \in [Actors -> Store!Flights]
    BY DEF Store!OpenFile, Store!Flights
  <2> QED BY <2>1, <2>2
<1>6. Store!WriteFile(a) => Store!StoreTypeOK'
  <2>1. Store!WriteFile(a) => faulty' \in BOOLEAN
    BY Zenon DEF Store!WriteFile
  <2>2. Store!WriteFile(a) => /\ file' \in Store!Files /\ UNCHANGED <<jobs, lock>>
                              /\ flight' \in [Actors -> Store!Flights]
    BY DEF Store!WriteFile, Store!Json, Store!Flights, Store!Files
  <2> QED BY <2>1, <2>2
<1>7. Store!Unlock(a) => Store!StoreTypeOK'
  BY DEF Store!Unlock
<1>8. Store!DropSaver(a) => Store!StoreTypeOK'
  BY DEF Store!DropSaver
<1> QED BY <1>3, <1>4, <1>5, <1>6, <1>7, <1>8
LEMMA StoreStutter ==
  ASSUME Store!StoreTypeOK, UNCHANGED storeVars
  PROVE  Store!StoreTypeOK'
  BY DEF storeVars, Store!StoreTypeOK

LEMMA DiskConstants ==
  /\ NoUpload \in Uploads
  /\ Nothing \in Contents /\ Torn \in Contents
  /\ \A u \in Uploads : ContentOf(u) \in Contents
  BY DEF NoUpload, Uploads, Contents, ContentOf

LEMMA ActorTypes ==
  \A r \in Requests : Api(r) \in Actors /\ Adder(r) \in Actors /\ Loop \in Actors
  BY DEF Api, Adder, Loop, Actors

\* The steps of the API requests keep the types.
LEMMA ApiTypes ==
  ASSUME TypeOK, NEW r \in Requests, ApiStep(r)
  PROVE  TypeOK'
<1> USE JobTypes, ActorTypes, DiskConstants DEF TypeOK, diskVars, taskVars, ReqStates
<1>u. \A c \in Requests \cup {Torn} : CloseUpload(r, c) \in [Ids -> Uploads]
  BY DEF CloseUpload, Uploads
<1>1. CASE CheckExists(r)
  BY <1>1, StoreStutter DEF CheckExists
<1>2. CASE OpenUpload(r)
  <2> DEFINE u == upload[IdOf[r]]
             new == [exists |-> TRUE, has |-> IF u.open = {} THEN {} ELSE {Torn},
                     open |-> u.open \cup {r}]
  <2>0. new \in Uploads
    BY DEF Uploads
  <2>1. upload' \in [Ids -> Uploads]
    BY <1>2, <2>0 DEF OpenUpload
  <2> QED BY <1>2, <2>1, StoreStutter DEF OpenUpload
<1>3. CASE ReceiveBody(r)
  <2>0. /\ CloseUpload(r, r) \in [Ids -> Uploads]
        /\ CloseUpload(r, Torn) \in [Ids -> Uploads]
    BY <1>u
  <2>1. upload' \in [Ids -> Uploads]
    BY <1>3, <2>0 DEF ReceiveBody
  <2> QED BY <1>3, <2>1, StoreStutter DEF ReceiveBody
<1>4. CASE BeginAdd(r)
  <2>1. Store!StoreTypeOK'
    BY <1>4, StoreTypes DEF BeginAdd
  <2> QED BY <1>4, <2>1 DEF BeginAdd
<1>5. CASE EndAdd(r)
  <2>1. Store!StoreTypeOK'
    BY <1>5, StoreTypes DEF EndAdd
  <2> QED BY <1>5, <2>1 DEF EndAdd
<1>6. CASE SendJob(r)
  BY <1>6, StoreStutter DEF SendJob
<1>7. CASE DropRequest(r)
  <2>1. Store!StoreTypeOK'
    BY <1>7, StoreTypes, StoreStutter DEF DropRequest
  <2> QED BY <1>7, <1>u, <2>1 DEF DropRequest
<1> QED BY <1>1, <1>2, <1>3, <1>4, <1>5, <1>6, <1>7 DEF ApiStep

\* A task that is in progress is of a job.
LEMMA SlotJob ==
  ASSUME TypeOK, NEW i \in Ids, slot[i].at # "none"
  PROVE  slot[i] \in [job : Jobs, at : TaskStates]
  BY DEF TypeOK, Tasks, NoTask

\* The steps of the tasks the handler polls keep the types.
LEMMA TaskTypes ==
  ASSUME TypeOK, NEW i \in Ids, TaskStep(i)
  PROVE  TypeOK'
<1> DEFINE j == slot[i].job
<1>j. j \in Jobs
  BY SlotJob DEF TaskStep, QueueForPermits, StartWorker, NextJob, JobDone, RetryLater,
     Retry, JobFailed
<1>m. \A to \in TaskStates : MoveTask(i, to) => slot' \in [Ids -> Tasks]
  BY <1>j DEF MoveTask, TypeOK, Tasks
<1>e. EndTask(i) => slot' \in [Ids -> Tasks] /\ avail' \in [Kinds -> Nat]
  BY <1>j, JobTypes, PermitTypes DEF EndTask, TypeOK, Tasks
<1> USE <1>j, <1>m, <1>e, JobTypes DEF TypeOK, diskVars, TaskStates
<1> HIDE DEF j
<1>1. CASE QueueForPermits(i)
  BY <1>1, StoreStutter DEF QueueForPermits, j
<1>2. CASE StartWorker(i)
  <2>1. /\ j.kind \in Kinds /\ waiting[j.kind] \in Seq(Ids)
        /\ avail[j.kind] \in Nat /\ Acquire(j) \in Nat
    BY PermitTypes
  <2>2. i \in Ids /\ Tail(waiting[j.kind]) \in Seq(Ids)
    BY <1>2, <2>1 DEF StartWorker, j
  <2>3. avail[j.kind] - Acquire(j) \in Nat
    BY <1>2, <2>1 DEF StartWorker, j
  <2>4. waiting' \in [Kinds -> Seq(Ids)] /\ avail' \in [Kinds -> Nat]
    BY <1>2, <2>1, <2>2, <2>3 DEF StartWorker, j
  <2> QED BY <1>2, <2>4, StoreStutter DEF StartWorker, j, WorkerStates
<1>3. CASE NextJob(i)
  <2>1. Job(j.req, "upload") \in Jobs
    BY DEF Kinds
  <2> QED BY <1>3, <2>1, StoreStutter DEF NextJob, j, WorkerStates
<1>4. CASE JobDone(i)
  BY <1>4, StoreStutter DEF JobDone, j, HandlerStates, WorkerStates
<1>5. CASE RetryLater(i)
  <2>1. tries' \in [Jobs -> 0 .. MaxRetries]
    BY <1>5, PipelineAssumption DEF RetryLater, MayRetry, j
  <2> QED BY <1>5, <2>1, StoreStutter DEF RetryLater, j, WorkerStates
<1>6. CASE Retry(i)
  BY <1>6, StoreStutter DEF Retry, j
<1>7. CASE JobFailed(i)
  BY <1>7, StoreStutter DEF JobFailed, j, HandlerStates, WorkerStates
<1> QED BY <1>1, <1>2, <1>3, <1>4, <1>5, <1>6, <1>7 DEF TaskStep
\* The steps of the handler loop keep the types.
LEMMA LoopTypes ==
  ASSUME TypeOK, LoopStep
  PROVE  TypeOK'
<1> USE JobTypes, DiskConstants DEF TypeOK, diskVars
<1>a. Loop \in Actors
  BY DEF Loop, Actors
<1>h. channel # <<>> => Head(channel) \in Jobs /\ Tail(channel) \in Seq(Jobs)
  OBVIOUS
<1>1. CASE StartTask
  <2> DEFINE j == Head(channel)
  <2>1. j \in Jobs /\ Tail(channel) \in Seq(Jobs) /\ JobId(j) \in Ids
    BY <1>1, <1>h DEF StartTask
  <2>2. [job |-> j, at |-> "new"] \in Tasks
    BY <2>1 DEF Tasks, TaskStates
  <2> QED BY <1>1, <2>1, <2>2, StoreStutter DEF StartTask
<1>2. CASE SkipJob
  BY <1>2, <1>h, StoreStutter DEF SkipJob
<1>3. CASE BeginRemove
  <2>1. Store!StoreTypeOK'
    <3> DEFINE s == [jobs EXCEPT ![JobId(handler.job)] = NoJob]
    <3>1. s \in Store!JobSets /\ jobs \in Store!JobSets
      BY DEF Store!StoreTypeOK, Store!JobSets
    <3>2. Store!Change(Loop, s)
      BY <1>3 DEF BeginRemove, Store!Remove
    <3> HIDE DEF s
    <3> QED BY <1>a, <3>1, <3>2 DEF Store!Change, Store!StoreTypeOK, Store!Flights
  <2> QED BY <1>3, <2>1 DEF BeginRemove, Become, HandlerStates
<1>4. CASE EndRemove
  <2>1. Store!StoreTypeOK'
    BY <1>a, <1>4, StoreTypes DEF EndRemove
  <2>2. handler' \in [at : HandlerStates, job : Jobs \cup {NoJob}, failed : BOOLEAN]
    <3>1. Become("cleanup") =>
            handler' \in [at : HandlerStates, job : Jobs \cup {NoJob}, failed : BOOLEAN]
      BY DEF Become, HandlerStates
    <3>2. Selecting \in [at : HandlerStates, job : Jobs \cup {NoJob}, failed : BOOLEAN]
      BY DEF Selecting, HandlerStates
    <3> QED BY <1>4, <3>1, <3>2 DEF EndRemove
  <2>3. outcome' \in [Requests -> {"none", "done", "failed"}]
    BY <1>4 DEF EndRemove
  <2> QED BY <1>4, <2>1, <2>2, <2>3 DEF EndRemove
<1>5. CASE Cleanup
  BY <1>5, StoreStutter DEF Cleanup, Selecting, HandlerStates
<1> QED BY <1>1, <1>2, <1>3, <1>4, <1>5 DEF LoopStep

\* The steps of the workers keep the types.
LEMMA WorkerTypes ==
  ASSUME TypeOK, NEW j \in Jobs, WorkerStep(j)
  PROVE  TypeOK'
<1> USE JobTypes, DiskConstants, StoreStutter
    DEF TypeOK, taskVars, diskVars, WorkerStates, Move
<1>m. \A to \in WorkerStates : Move(j, to) => worker' \in [Jobs -> WorkerStates]
  OBVIOUS
<1> HIDE DEF Move
<1>1. CASE ConvertPrepare(j)
  <2>1. worker' \in [Jobs -> WorkerStates]
    <3>1. Move(j, "encode") \/ Move(j, "err")
      BY <1>1 DEF ConvertPrepare
    <3> QED BY <1>m, <3>1
  <2>2. video' \in [Ids -> Contents]
    BY <1>1 DEF ConvertPrepare
  <2>3. temp' \in [Ids -> Contents]
    <3>1. \E c \in {Torn, Nothing} : temp' = [temp EXCEPT ![JobId(j)] = c]
      BY <1>1 DEF ConvertPrepare
    <3> QED BY <3>1
  <2> QED BY <1>1, <2>1, <2>2, <2>3 DEF ConvertPrepare
<1>2. CASE ConvertEncode(j)
  <2>1. ContentOf(upload[JobId(j)]) \in Contents
    OBVIOUS
  <2>2. worker' \in [Jobs -> WorkerStates]
    BY <1>m, <1>2 DEF ConvertEncode
  <2>3. temp' \in [Ids -> Contents]
    BY <1>m, <1>2, <2>1 DEF ConvertEncode
  <2> QED BY <1>m, <1>2, <2>2, <2>3 DEF ConvertEncode
<1>3. CASE ConvertPublish(j)
  <2>1. worker' \in [Jobs -> WorkerStates]
    <3>1. Move(j, "unlink") \/ Move(j, "err")
      BY <1>3 DEF ConvertPublish
    <3> QED BY <1>m, <3>1
  <2>2. video' \in [Ids -> Contents] /\ temp' \in [Ids -> Contents]
    <3>1. CASE UNCHANGED <<video, temp>>
      BY <3>1
    <3>2. CASE /\ video' = [video EXCEPT ![JobId(j)] = temp[JobId(j)]]
               /\ temp' = [temp EXCEPT ![JobId(j)] = Nothing]
      BY <3>2
    <3> QED BY <1>3, <3>1, <3>2 DEF ConvertPublish
  <2> QED BY <1>3, <2>1, <2>2 DEF ConvertPublish
<1>4. CASE ConvertUnlink(j)
  BY <1>m, <1>4 DEF ConvertUnlink
<1>5. CASE UploadSend(j)
  BY <1>m, <1>5 DEF UploadSend
<1>6. CASE UploadFails(j)
  <2>1. remote' \in [Ids -> Contents]
    BY <1>m, <1>6 DEF UploadFails
  <2> QED BY <1>m, <1>6, <2>1 DEF UploadFails
<1>7. CASE UploadPurge(j)
  BY <1>m, <1>7 DEF UploadPurge
<1>8. CASE MigrateCopy(j)
  BY <1>m, <1>8 DEF MigrateCopy
<1> QED BY <1>1, <1>2, <1>3, <1>4, <1>5, <1>6, <1>7, <1>8 DEF WorkerStep

\* A list of the elements of a finite set is a sequence of them.
LEMMA OrdersType ==
  ASSUME NEW S \in SUBSET Jobs, IsFiniteSet(S), NEW q \in Orders(S)
  PROVE  q \in Seq(Jobs)
<1>1. Cardinality(S) \in Nat
  BY FS_CardinalityType
<1> QED BY <1>1 DEF Orders

LEMMA LoadedFinite ==
  ASSUME TypeOK
  PROVE  Loaded \in SUBSET Jobs /\ IsFiniteSet(Loaded)
<1> DEFINE f == Store!Load(file)
           T == {f[i] : i \in Ids}
<1>1. f \in [Ids -> Jobs \cup {NoJob}]
  BY StoreConstants
  DEF TypeOK, Store!StoreTypeOK, Store!Load, Store!Files, Store!JobSets
<1> HIDE DEF f
<1>2. f \in Surjection(Ids, T)
  BY <1>1 DEF Surjection
<1>3. IsFiniteSet(T)
  BY <1>2, FS_Surjection, PipelineAssumption
<1>4. Loaded \subseteq T
  BY DEF Loaded, f
<1> QED BY <1>3, <1>4, FS_Subset DEF Loaded

LEMMA RestartTypes ==
  ASSUME TypeOK, Restart
  PROVE  TypeOK'
<1>1. Store!StoreTypeOK'
  BY StoreConstants DEF TypeOK, Restart, Store!StoreTypeOK, Store!Reload, Store!Load,
     Store!Files
<1>2. channel' \in Seq(Jobs)
  BY OrdersType, LoadedFinite DEF Restart
<1>3. upload' \in [Ids -> Uploads]
  BY DEF TypeOK, Restart, Abandoned, Uploads
<1>4. avail' \in [Kinds -> Nat] /\ waiting' \in [Kinds -> Seq(Ids)]
  BY PermitTypes DEF Restart
<1>5. crashes' \in 0 .. MaxCrashes
  BY PipelineAssumption DEF TypeOK, Restart
<1>6. req' \in [Requests -> ReqStates]
  BY DEF TypeOK, Restart, ReqStates
<1>7. tries' \in [Jobs -> 0 .. MaxRetries]
  BY PipelineAssumption DEF Restart
<1>8. slot' \in [Ids -> Tasks] /\ worker' \in [Jobs -> WorkerStates]
  BY DEF Restart, Tasks, WorkerStates
<1> QED BY <1>1, <1>2, <1>3, <1>4, <1>5, <1>6, <1>7, <1>8
        DEF TypeOK, Restart, Selecting, HandlerStates

\* The remaining steps touch only the JobSetManager and the spawned futures.
LEMMA SaverTypes ==
  ASSUME TypeOK,
         \/ \E r \in Requests : AdderBegin(r) \/ AdderEnd(r)
         \/ \E a \in Actors : SaveStep(a)
  PROVE  TypeOK'
<1> USE JobTypes, ActorTypes DEF TypeOK, diskVars, taskVars
<1>1. ASSUME NEW r \in Requests, AdderBegin(r)
      PROVE  TypeOK'
  <2>1. Job(r, "upload") \in Jobs
    BY DEF Kinds
  <2>2. Store!StoreTypeOK'
    BY <1>1, <2>1, StoreTypes DEF AdderBegin
  <2> QED BY <1>1, <2>2 DEF AdderBegin
<1>2. ASSUME NEW r \in Requests, AdderEnd(r)
      PROVE  TypeOK'
  <2>1. Store!StoreTypeOK'
    BY <1>2, StoreTypes DEF AdderEnd
  <2> QED BY <1>2, <2>1 DEF AdderEnd
<1>3. ASSUME NEW a \in Actors, SaveStep(a)
      PROVE  TypeOK'
  <2>1. Store!StoreTypeOK'
    BY <1>3, StoreTypes DEF SaveStep
  <2> QED BY <1>3, <2>1 DEF SaveStep
<1> QED BY <1>1, <1>2, <1>3

LEMMA TypeInit == Init => TypeOK
<1> SUFFICES ASSUME Init PROVE TypeOK
  OBVIOUS
<1>1. Store!StoreTypeOK
  BY StoreConstants DEF Init, Store!StoreInit, Store!StoreTypeOK, Store!Json, Store!Files
<1>2. avail \in [Kinds -> Nat] /\ tries \in [Jobs -> 0 .. MaxRetries]
      /\ crashes \in 0 .. MaxCrashes
  BY PermitTypes, PipelineAssumption DEF Init
<1> QED BY <1>1, <1>2, DiskConstants
        DEF Init, TypeOK, ReqStates, Tasks, Selecting, HandlerStates, WorkerStates

LEMMA TypeStep ==
  ASSUME TypeOK, [Next]_vars
  PROVE  TypeOK'
<1>1. CASE UNCHANGED vars
  BY <1>1, StoreStutter DEF TypeOK, vars, diskVars, taskVars
<1> QED BY <1>1, ApiTypes, TaskTypes, LoopTypes, WorkerTypes, RestartTypes, SaverTypes
        DEF Next

\* Every variable of the pipeline keeps its type; in particular no convert or
\* migrate job is retried more than MaxRetries times in the life of a process
\* and no pool of permits goes below zero.
THEOREM TypeCorrect == Spec => []TypeOK
  BY TypeInit, TypeStep, PTL DEF Spec

-------------------------------------------------------------------------------
(* One worker per id.                                                      *)

\* The steps of the requests, of the spawned futures and of file writes touch
\* neither slots nor workers.
LEMMA SlotsAlone ==
  ASSUME \/ \E r \in Requests : ApiStep(r) \/ AdderBegin(r) \/ AdderEnd(r)
         \/ \E a \in Actors : SaveStep(a)
         \/ UNCHANGED vars
  PROVE  UNCHANGED <<slot, worker>>
  BY DEF ApiStep, CheckExists, OpenUpload, ReceiveBody, BeginAdd, EndAdd, SendJob,
     DropRequest, AdderBegin, AdderEnd, SaveStep, taskVars, vars

LEMMA SlotsPlacedStep ==
  ASSUME TypeOK, SlotsPlaced, [Next]_vars
  PROVE  SlotsPlaced'
<1> USE DEF SlotsPlaced
<1>1. CASE UNCHANGED slot
  BY <1>1 DEF JobId
<1>2. ASSUME NEW i \in Ids, TaskStep(i)
      PROVE  SlotsPlaced'
  <2>1. slot[i] # NoTask
    BY <1>2 DEF TaskStep, QueueForPermits, StartWorker, NextJob, JobDone, RetryLater,
       Retry, JobFailed, NoTask
  <2>2. (\E to : MoveTask(i, to)) \/ EndTask(i)
    BY <1>2 DEF TaskStep, QueueForPermits, StartWorker, NextJob, JobDone, RetryLater,
       Retry, JobFailed
  <2>3. \A h \in Ids : h # i => slot'[h] = slot[h]
    BY <2>2 DEF MoveTask, EndTask, TypeOK
  <2>4. slot'[i] = NoTask \/ slot'[i].job = slot[i].job
    BY <2>2 DEF MoveTask, EndTask, TypeOK
  <2> QED BY <2>1, <2>3, <2>4 DEF JobId
<1>3. CASE LoopStep
  <2>1. CASE StartTask
    BY <2>1 DEF StartTask, TypeOK, JobId
  <2>2. CASE SkipJob \/ BeginRemove \/ EndRemove \/ Cleanup
    BY <2>2, <1>1 DEF SkipJob, BeginRemove, EndRemove, Cleanup
  <2> QED BY <1>3, <2>1, <2>2 DEF LoopStep
<1>4. ASSUME NEW j \in Jobs, WorkerStep(j)
      PROVE  UNCHANGED slot
  BY <1>4 DEF WorkerStep, ConvertPrepare, ConvertEncode, ConvertPublish, ConvertUnlink,
     UploadSend, UploadFails, UploadPurge, MigrateCopy, taskVars
<1>5. CASE Restart
  BY <1>5 DEF Restart
<1> QED BY <1>1, <1>2, <1>3, <1>4, <1>5, SlotsAlone DEF Next

LEMMA WorkerHasSlotStep ==
  ASSUME TypeOK, WorkerHasSlot, [Next]_vars
  PROVE  WorkerHasSlot'
<1>p. SlotsPlaced /\ SlotsPlaced'
  BY SlotsPlacedStep DEF WorkerHasSlot
<1> USE JobTypes, <1>p DEF WorkerHasSlot
<1>1. CASE UNCHANGED <<slot, worker>>
  BY <1>1 DEF JobId
<1>2. ASSUME NEW i \in Ids, TaskStep(i)
      PROVE  WorkerHasSlot'
  <2> DEFINE j == slot[i].job
  <2>j. j \in Jobs /\ JobId(j) = i
    BY <1>2, SlotJob DEF TaskStep, QueueForPermits, StartWorker, NextJob, JobDone,
       RetryLater, Retry, JobFailed, SlotsPlaced, NoTask
  \* No other job's worker runs for i, so i's slot may change with j's worker.
  <2>o. \A k \in Jobs : k # j /\ worker[k] # "none" => JobId(k) # i
    OBVIOUS
  <2>n. slot[i].at # "running" => \A k \in Jobs : worker[k] # "none" => JobId(k) # i
    OBVIOUS
  <2>1. CASE QueueForPermits(i) \/ Retry(i)
    <3>1. worker' = worker /\ slot[i].at # "running"
      BY <2>1 DEF QueueForPermits, Retry
    <3>2. \A h \in Ids : h # i => slot'[h] = slot[h]
      BY <2>1 DEF QueueForPermits, Retry, MoveTask, EndTask, TypeOK
    <3> QED BY <2>n, <3>1, <3>2 DEF JobId
  <2>2. CASE StartWorker(i)
    <3>1. slot[i].at # "running"
      BY <2>2 DEF StartWorker
    <3>2. /\ \A k \in Jobs : k # j => worker'[k] = worker[k]
          /\ \A h \in Ids : h # i => slot'[h] = slot[h]
          /\ slot'[i].job = j /\ slot'[i].at = "running"
      BY <2>2 DEF StartWorker, MoveTask, TypeOK
    <3> HIDE DEF j
    <3> QED BY <2>j, <2>n, <3>1, <3>2 DEF JobId
  <2>3. CASE NextJob(i) \/ JobDone(i) \/ RetryLater(i) \/ JobFailed(i)
    <3>1. worker' = [worker EXCEPT ![j] = "none"]
      BY <2>3 DEF NextJob, JobDone, RetryLater, JobFailed
    <3>2. \A h \in Ids : h # i => slot'[h] = slot[h]
      BY <2>3 DEF NextJob, JobDone, RetryLater, JobFailed, MoveTask, EndTask, TypeOK
    <3>3. worker \in [Jobs -> WorkerStates]
      BY DEF TypeOK
    <3> HIDE DEF j
    <3> QED BY <2>j, <2>o, <3>1, <3>2, <3>3 DEF JobId
  <2> QED BY <1>2, <2>1, <2>2, <2>3 DEF TaskStep
<1>3. CASE LoopStep
  <2>1. CASE StartTask
    <3>1. /\ worker' = worker
          /\ slot[JobId(Head(channel))] = NoTask
          /\ slot' = [slot EXCEPT ![JobId(Head(channel))] =
                        [job |-> Head(channel), at |-> "new"]]
      BY <2>1 DEF StartTask
    <3>2. \A k \in Jobs : worker[k] # "none" => JobId(k) # JobId(Head(channel))
      BY <3>1 DEF NoTask
    <3> QED BY <3>1, <3>2 DEF JobId, TypeOK
  <2>2. CASE SkipJob \/ BeginRemove \/ EndRemove \/ Cleanup
    BY <2>2, <1>1 DEF SkipJob, BeginRemove, EndRemove, Cleanup
  <2> QED BY <1>3, <2>1, <2>2 DEF LoopStep
<1>4. ASSUME NEW j \in Jobs, WorkerStep(j)
      PROVE  WorkerHasSlot'
  <2>1. worker[j] # "none" /\ slot' = slot /\ \E to : Move(j, to)
    BY <1>4 DEF WorkerStep, ConvertPrepare, ConvertEncode, ConvertPublish, ConvertUnlink,
       UploadSend, UploadFails, UploadPurge, MigrateCopy, taskVars
  <2>2. \A k \in Jobs : k # j => worker'[k] = worker[k]
    BY <2>1 DEF Move, TypeOK
  <2> QED BY <2>1, <2>2 DEF JobId
<1>5. CASE Restart
  BY <1>5 DEF Restart
<1> QED BY <1>1, <1>2, <1>3, <1>4, <1>5, SlotsAlone DEF Next

\* At most one worker runs for an id, whatever clients, file system and crashes
\* do: the working directories of an id are never shared.
THEOREM OneWorker == Spec => []OneWorkerPerId
<1>1. Init => WorkerHasSlot
  BY DEF Init, WorkerHasSlot, SlotsPlaced
<1>2. TypeOK /\ WorkerHasSlot /\ [Next]_vars => WorkerHasSlot'
  BY WorkerHasSlotStep
<1>3. WorkerHasSlot => OneWorkerPerId
  BY DEF WorkerHasSlot, OneWorkerPerId
<1> QED BY <1>1, <1>2, <1>3, TypeCorrect, PTL DEF Spec

-------------------------------------------------------------------------------
(* What is queued or running is pending, unless clients overlap requests   *)
(* for an id.                                                              *)

\* No two requests name the same id.
OnceEach == \A r, s \in Requests : IdOf[r] = IdOf[s] => r = s

\* No two requests for an id are under way together.
NoOverlap == ~Overlap \/ OnceEach

-------------------------------------------------------------------------------
(* The channel as a set of ids.                                            *)

Distinct ==
  \A m, n \in DOMAIN channel : JobId(channel[m]) = JobId(channel[n]) => m = n

Apart == \A i \in Ids : Queued(i) => slot[i] = NoTask

LEMMA OneJobSplit ==
  ASSUME channel \in Seq(Jobs)
  PROVE  OneJobPerId <=> Distinct /\ Apart
<1>1. \A n \in DOMAIN channel : JobId(channel[n]) \in Ids
  BY JobTypes
<1>2. OneJobPerId => Apart
  BY DEF OneJobPerId, Apart, Queued
<1>3. Apart => \A n \in DOMAIN channel : slot[JobId(channel[n])] = NoTask
  BY <1>1 DEF Apart, Queued
<1> QED BY <1>2, <1>3 DEF OneJobPerId, Distinct

LEMMA ChannelAppend ==
  ASSUME channel \in Seq(Jobs), NEW j \in Jobs, channel' = Append(channel, j)
  PROVE  /\ \A i : Queued(i)' <=> Queued(i) \/ JobId(j) = i
         /\ Distinct /\ ~Queued(JobId(j)) => Distinct'
<1>1. /\ DOMAIN channel = 1 .. Len(channel) /\ Len(channel) \in Nat
      /\ DOMAIN channel' = 1 .. Len(channel) + 1
      /\ \A n \in 1 .. Len(channel) : channel'[n] = channel[n]
      /\ channel'[Len(channel) + 1] = j
  OBVIOUS
<1> QED BY <1>1 DEF Queued, Distinct, JobId

LEMMA ChannelTail ==
  ASSUME channel \in Seq(Jobs), channel # <<>>, channel' = Tail(channel),
         NEW h, h = JobId(Head(channel))
  PROVE  /\ Head(channel) \in Jobs /\ Queued(h)
         /\ \A i : Queued(i)' => Queued(i)
         /\ Distinct => Distinct' /\ ~Queued(h)'
<1>1. /\ DOMAIN channel = 1 .. Len(channel) /\ Len(channel) \in Nat /\ Len(channel) >= 1
      /\ DOMAIN channel' = 1 .. Len(channel) - 1
      /\ \A n \in 1 .. Len(channel) - 1 : channel'[n] = channel[n + 1]
      /\ Head(channel) = channel[1] /\ channel[1] \in Jobs
  OBVIOUS
<1>2. \A n \in DOMAIN channel' : n + 1 \in DOMAIN channel /\ channel'[n] = channel[n + 1]
                                  /\ n \in Nat /\ n + 1 # 1
  BY <1>1
<1>3. Queued(h)
  BY <1>1 DEF Queued
<1>4. \A i : Queued(i)' => Queued(i)
  BY <1>2 DEF Queued, JobId
<1>5. ASSUME Distinct PROVE Distinct' /\ ~Queued(h)'
  <2>1. Distinct'
    BY <1>1, <1>2, <1>5 DEF Distinct, JobId
  <2>2. \A n \in DOMAIN channel' : IdOf[channel'[n].req] # h
    BY <1>1, <1>2, <1>5 DEF Distinct, JobId
  <2> QED BY <2>1, <2>2 DEF Queued, JobId
<1> QED BY <1>1, <1>3, <1>4, <1>5

LEMMA ChannelSame ==
  ASSUME channel' = channel
  PROVE  (\A i : Queued(i)' <=> Queued(i)) /\ (Distinct <=> Distinct')
  BY DEF Queued, Distinct, JobId

-------------------------------------------------------------------------------
(* Jobs stay under their own id.                                           *)

StorePlaced ==
  /\ Placed(jobs) /\ Placed(file.jobs)
  /\ \A a \in Actors : Placed(flight[a].jobs)

LEMMA StorePlacedSame ==
  ASSUME StorePlaced, UNCHANGED storeVars
  PROVE  StorePlaced'
  BY DEF StorePlaced, storeVars, Placed, JobId

LEMMA NoJobsPlaced == Placed(Store!NoJobs)
  BY DEF Placed, Store!NoJobs

LEMMA ChangePlaced ==
  ASSUME TypeOK, StorePlaced, NEW a \in Actors,
         NEW i \in Ids, NEW p \in Jobs \cup {NoJob}, p # NoJob => JobId(p) = i,
         Store!Change(a, [jobs EXCEPT ![i] = p])
  PROVE  /\ StorePlaced'
         /\ jobs'[i] = p /\ \A h \in Ids : h # i => jobs'[h] = jobs[h]
<1> DEFINE s == [jobs EXCEPT ![i] = p]
<1>1. jobs \in [Ids -> Jobs \cup {NoJob}] /\ flight \in [Actors -> Store!Flights]
  BY DEF TypeOK, Store!StoreTypeOK, Store!JobSets
<1>2. Placed(s)
  BY <1>1 DEF StorePlaced, Placed
<1>3. s[i] = p /\ \A h \in Ids : h # i => s[h] = jobs[h]
  BY <1>1
<1>4. /\ jobs' = s /\ file' = file
      /\ flight' = [flight EXCEPT ![a] = [stage |-> "queued", jobs |-> s]]
  BY DEF Store!Change
<1> HIDE DEF s
<1>5. \A b \in Actors : flight'[b].jobs = s \/ flight'[b].jobs = flight[b].jobs
  BY <1>1, <1>4
<1> QED BY <1>2, <1>3, <1>4, <1>5 DEF StorePlaced, Placed, JobId

LEMMA SavePlaced ==
  ASSUME TypeOK, StorePlaced, NEW a \in Actors,
         Store!OpenFile(a) \/ Store!WriteFile(a) \/ Store!Unlock(a) \/ Store!DropSaver(a)
  PROVE  StorePlaced' /\ jobs' = jobs
<1>1. flight \in [Actors -> Store!Flights]
  BY DEF TypeOK, Store!StoreTypeOK
<1>2. jobs' = jobs
  BY DEF Store!OpenFile, Store!WriteFile, Store!Unlock, Store!DropSaver
<1>3. \/ file' = file
      \/ file'.jobs = Store!NoJobs
      \/ file'.jobs = flight[a].jobs
  BY DEF Store!OpenFile, Store!WriteFile, Store!Unlock, Store!DropSaver,
     Store!Blank, Store!Garbled, Store!Json
<1>4. \A b \in Actors : flight'[b].jobs \in {flight[b].jobs, Store!NoJobs}
  BY <1>1 DEF Store!OpenFile, Store!WriteFile, Store!Unlock, Store!DropSaver, Store!NoWrite
<1> QED BY <1>2, <1>3, <1>4, NoJobsPlaced DEF StorePlaced, Placed, JobId

-------------------------------------------------------------------------------
(* The steps that give an id no work it did not have.                      *)

Covered == PendingCoversWork /\ RequestOwnsId /\ RemovesLast

OneJob == Distinct /\ Apart

\* What a step must leave alone for Covered to hold after it.
LEMMA CoveredFrame ==
  ASSUME TypeOK, Covered,
         \A i \in Ids : HasWork(i)' => HasWork(i),
         \A i \in Ids : jobs[i] # NoJob => jobs'[i] # NoJob,
         \A r \in Requests : req'[r] \in InFlight => req[r] \in InFlight,
         \A r \in Requests : req'[r] \in {"saving", "saved"} =>
           req[r] \in {"saving", "saved"} \/ jobs'[IdOf[r]] # NoJob,
         handler'.at = "remove" => handler' = handler
  PROVE  Covered'
<1> USE JobTypes
<1>1. PendingCoversWork'
  BY DEF Covered, PendingCoversWork
<1>2. \A i : ToRemove(i)' => ToRemove(i)
  BY DEF ToRemove, JobId
<1>3. \A r \in Requests : req'[r] \in InFlight =>
        /\ ~HasWork(IdOf[r])' /\ ~ToRemove(IdOf[r])'
        /\ \A q \in Requests : req'[q] \in InFlight /\ IdOf[q] = IdOf[r] => q = r
        /\ req'[r] \in {"saving", "saved"} => jobs'[IdOf[r]] # NoJob
  BY <1>2 DEF Covered, RequestOwnsId
<1>4. RequestOwnsId'
  BY <1>3 DEF RequestOwnsId
<1>5. RemovesLast'
  BY DEF Covered, RemovesLast, JobId
<1> QED BY <1>1, <1>4, <1>5 DEF Covered

\* Steps that leave the channel and the set of busy slots alone.
LEMMA WorkSame ==
  ASSUME channel' = channel, \A i \in Ids : slot'[i] = NoTask <=> slot[i] = NoTask
  PROVE  (\A i \in Ids : HasWork(i)' <=> HasWork(i)) /\ (OneJob => OneJob')
  BY ChannelSame DEF HasWork, OneJob, Apart

\* A task that ends and leaves a job of its id in the channel.
LEMMA WorkBack ==
  ASSUME TypeOK, SlotsPlaced, OneJob, NEW i \in Ids, slot[i] # NoTask,
         slot' = [slot EXCEPT ![i] = NoTask],
         NEW j \in Jobs, JobId(j) = i, channel' = Append(channel, j)
  PROVE  (\A h \in Ids : HasWork(h)' <=> HasWork(h)) /\ OneJob'
<1>1. slot'[i] = NoTask /\ \A h \in Ids : h # i => slot'[h] = slot[h]
  BY DEF TypeOK
<1>2. /\ \A h : Queued(h)' <=> Queued(h) \/ h = i
      /\ Distinct /\ ~Queued(i) => Distinct'
  BY ChannelAppend DEF TypeOK
<1>3. ~Queued(i)
  BY DEF OneJob, Apart
<1> QED BY <1>1, <1>2, <1>3 DEF HasWork, OneJob, Apart

\* A task that ends and leaves nothing behind.
LEMMA WorkOver ==
  ASSUME TypeOK, OneJob, NEW i \in Ids, slot[i] # NoTask,
         slot' = [slot EXCEPT ![i] = NoTask], channel' = channel
  PROVE  /\ \A h \in Ids : HasWork(h)' <=> HasWork(h) /\ h # i
         /\ OneJob'
<1>1. slot'[i] = NoTask /\ \A h \in Ids : h # i => slot'[h] = slot[h]
  BY DEF TypeOK
<1>2. ~Queued(i)
  BY DEF OneJob, Apart
<1> QED BY <1>1, <1>2, ChannelSame DEF HasWork, OneJob, Apart

\* The handler takes a job out of the channel, to start it.
LEMMA WorkStarted ==
  ASSUME TypeOK, OneJob, StartTask
  PROVE  (\A h \in Ids : HasWork(h)' => HasWork(h)) /\ OneJob'
<1> DEFINE i == JobId(Head(channel))
<1>1. /\ Head(channel) \in Jobs /\ Queued(i)
      /\ \A h : Queued(h)' => Queued(h)
      /\ Distinct'
  BY ChannelTail DEF TypeOK, StartTask, OneJob
<1>2. PICK k : k = i
  OBVIOUS
<1>3. ~Queued(k)' /\ Queued(k)
  BY <1>2, ChannelTail DEF TypeOK, StartTask, OneJob
<1>4. \A h \in Ids : h # k => slot'[h] = slot[h]
  BY <1>2 DEF TypeOK, StartTask
<1> HIDE DEF i
<1> QED BY <1>1, <1>3, <1>4 DEF HasWork, OneJob, Apart

LEMMA WorkSkipped ==
  ASSUME TypeOK, OneJob, SkipJob
  PROVE  (\A h \in Ids : HasWork(h)' => HasWork(h)) /\ OneJob'
<1>1. /\ \A h : Queued(h)' => Queued(h)
      /\ Distinct'
  BY ChannelTail DEF TypeOK, SkipJob, OneJob
<1> QED BY <1>1 DEF HasWork, OneJob, Apart, SkipJob

-------------------------------------------------------------------------------
(* The steps, one group of actions at a time.  PInv is PendingInv with the *)
(* uniqueness of jobs split in its two halves.                             *)

PInv == TypeOK /\ Covered /\ OneJob /\ StorePlaced /\ SlotsPlaced

LEMMA ApiPending ==
  ASSUME PInv, NoOverlap, NEW r \in Requests, ApiStep(r)
  PROVE  Covered' /\ OneJob' /\ StorePlaced'
<1> USE JobTypes, ActorTypes DEF PInv
<1>t. TypeOK /\ req \in [Requests -> ReqStates]
  BY DEF TypeOK
<1>1. CASE CheckExists(r)
  <2>1. /\ channel' = channel /\ slot' = slot /\ jobs' = jobs /\ handler' = handler
        /\ UNCHANGED storeVars /\ req[r] = "idle" /\ NobodyElse(r)
    BY <1>1 DEF CheckExists, taskVars, storeVars, NoOverlap, OnceEach, NobodyElse
  <2>2. OneJob' /\ \A h \in Ids : HasWork(h)' <=> HasWork(h)
    BY <2>1, WorkSame
  <2>3. req'[r] \in {"refused", "checked"} /\ \A q \in Requests : q # r => req'[q] = req[q]
    BY <1>1, <1>t DEF CheckExists
  <2>4. CASE req'[r] = "refused"
    <3>1. Covered'
      BY <2>1, <2>2, <2>3, <2>4, CoveredFrame DEF InFlight
    <3> QED BY <2>1, <2>2, <3>1, StorePlacedSame
  <2>5. CASE req'[r] = "checked"
    <3>1. jobs[IdOf[r]] = NoJob
      BY <1>1, <1>t, <2>5 DEF CheckExists, Refused
    <3>2. ~HasWork(IdOf[r])'
      BY <2>2, <3>1 DEF Covered, PendingCoversWork
    <3>3. ~ToRemove(IdOf[r])
      BY <3>1 DEF Covered, RemovesLast, ToRemove
    <3>4. \A i : ToRemove(i)' <=> ToRemove(i)
      BY <2>1 DEF ToRemove, JobId
    <3>5. \A q \in Requests : q # r /\ req'[q] \in InFlight => IdOf[q] # IdOf[r]
      BY <2>1, <2>3 DEF NobodyElse
    <3>6. \A q \in Requests : req'[q] \in InFlight =>
            /\ ~HasWork(IdOf[q])' /\ ~ToRemove(IdOf[q])'
            /\ \A p \in Requests : req'[p] \in InFlight /\ IdOf[p] = IdOf[q] => p = q
            /\ req'[q] \in {"saving", "saved"} => jobs'[IdOf[q]] # NoJob
      BY <2>1, <2>2, <2>3, <2>5, <3>2, <3>3, <3>4, <3>5 DEF Covered, RequestOwnsId
    <3>7. RequestOwnsId'
      BY <3>6 DEF RequestOwnsId
    <3>8. PendingCoversWork' /\ RemovesLast'
      BY <2>1, <2>2 DEF Covered, PendingCoversWork, RemovesLast, JobId
    <3> QED BY <2>1, <2>2, <3>7, <3>8, StorePlacedSame DEF Covered
  <2> QED BY <2>3, <2>4, <2>5
<1>2. CASE OpenUpload(r) \/ ReceiveBody(r)
  <2>1. /\ channel' = channel /\ slot' = slot /\ jobs' = jobs /\ handler' = handler
        /\ UNCHANGED storeVars
    BY <1>2 DEF OpenUpload, ReceiveBody, taskVars, storeVars
  <2>2. req[r] \in {"checked", "opened"} /\ req'[r] \in {"opened", "written", "refused"}
        /\ \A q \in Requests : q # r => req'[q] = req[q]
    BY <1>2, <1>t DEF OpenUpload, ReceiveBody
  <2>3. OneJob' /\ \A h \in Ids : HasWork(h)' <=> HasWork(h)
    BY <2>1, WorkSame
  <2>4. Covered'
    BY <2>1, <2>2, <2>3, CoveredFrame DEF InFlight
  <2> QED BY <2>1, <2>3, <2>4, StorePlacedSame
<1>3. CASE BeginAdd(r)
  <2> DEFINE j == Job(r, KindOf[r])
             i == IdOf[r]
  <2>0. j \in Jobs /\ j # NoJob /\ JobId(j) = i
    BY PipelineAssumption DEF Job, JobId
  <2>1. channel' = channel /\ slot' = slot /\ handler' = handler
    BY <1>3 DEF BeginAdd, taskVars
  <2>2. StorePlaced' /\ jobs'[i] # NoJob /\ \A h \in Ids : h # i => jobs'[h] = jobs[h]
    BY <1>3, <2>0, ChangePlaced DEF BeginAdd, Store!Add
  <2>3. req[r] \in {"checked", "written"} /\ req'[r] = "saving"
        /\ \A q \in Requests : q # r => req'[q] = req[q]
    BY <1>3, <1>t DEF BeginAdd
  <2>4. OneJob' /\ \A h \in Ids : HasWork(h)' <=> HasWork(h)
    BY <2>1, WorkSame
  <2>5. Covered'
    BY <2>1, <2>2, <2>3, <2>4, CoveredFrame DEF InFlight
  <2> QED BY <2>2, <2>4, <2>5
<1>4. CASE EndAdd(r)
  <2>1. channel' = channel /\ slot' = slot /\ handler' = handler
    BY <1>4 DEF EndAdd, taskVars
  <2>2. StorePlaced' /\ jobs' = jobs
    BY <1>4, SavePlaced DEF EndAdd
  <2>3. req[r] = "saving" /\ req'[r] = "saved"
        /\ \A q \in Requests : q # r => req'[q] = req[q]
    BY <1>4, <1>t DEF EndAdd
  <2>4. OneJob' /\ \A h \in Ids : HasWork(h)' <=> HasWork(h)
    BY <2>1, WorkSame
  <2>5. Covered'
    BY <2>1, <2>2, <2>3, <2>4, CoveredFrame DEF InFlight
  <2> QED BY <2>2, <2>4, <2>5
<1>5. CASE SendJob(r)
  <2> DEFINE j == Job(r, KindOf[r])
             i == IdOf[r]
  <2>0. j \in Jobs /\ JobId(j) = i /\ i \in Ids
    BY DEF Job, JobId
  <2>1. /\ channel' = Append(channel, j) /\ slot' = slot /\ handler' = handler
        /\ UNCHANGED storeVars /\ jobs' = jobs
    BY <1>5 DEF SendJob, storeVars
  <2>2. req[r] = "saved" /\ req'[r] = "accepted"
        /\ \A q \in Requests : q # r => req'[q] = req[q]
    BY <1>5, <1>t DEF SendJob
  <2>3. ~HasWork(i) /\ jobs[i] # NoJob /\ ~ToRemove(i)
        /\ \A q \in Requests : q # r /\ req[q] \in InFlight => IdOf[q] # i
    BY <2>2 DEF Covered, RequestOwnsId, InFlight
  <2> HIDE DEF i, j
  <2>4. /\ \A h : Queued(h)' <=> Queued(h) \/ h = i
        /\ Distinct /\ ~Queued(i) => Distinct'
    BY <2>0, <2>1, ChannelAppend DEF TypeOK
  <2>5. OneJob' /\ \A h \in Ids : HasWork(h)' => HasWork(h) \/ h = i
    BY <2>1, <2>3, <2>4 DEF OneJob, Apart, HasWork
  <2>6. PendingCoversWork'
    BY <2>1, <2>3, <2>5 DEF Covered, PendingCoversWork
  <2>7. \A h : ToRemove(h)' <=> ToRemove(h)
    BY <2>1 DEF ToRemove, JobId
  <2>8. RemovesLast'
    BY <2>0, <2>1, <2>3, <2>5 DEF Covered, RemovesLast, ToRemove, JobId
  <2>9. \A q \in Requests : req'[q] \in InFlight =>
          /\ ~HasWork(IdOf[q])' /\ ~ToRemove(IdOf[q])'
          /\ \A p \in Requests : req'[p] \in InFlight /\ IdOf[p] = IdOf[q] => p = q
          /\ req'[q] \in {"saving", "saved"} => jobs'[IdOf[q]] # NoJob
    BY <2>1, <2>2, <2>3, <2>5, <2>7 DEF Covered, RequestOwnsId, InFlight
  <2>10. RequestOwnsId'
    BY <2>9 DEF RequestOwnsId
  <2> QED BY <2>1, <2>5, <2>6, <2>8, <2>10, StorePlacedSame DEF Covered
<1>6. CASE DropRequest(r)
  <2>1. channel' = channel /\ slot' = slot /\ handler' = handler
    BY <1>6 DEF DropRequest, taskVars
  <2>2. StorePlaced' /\ jobs' = jobs
    <3>1. CASE Store!DropSaver(Api(r))
      BY <3>1, SavePlaced
    <3>2. CASE UNCHANGED storeVars
      BY <3>2, StorePlacedSame DEF storeVars
    <3> QED BY <1>6, <3>1, <3>2 DEF DropRequest
  <2>3. req'[r] = "dropped" /\ \A q \in Requests : q # r => req'[q] = req[q]
    BY <1>6, <1>t DEF DropRequest
  <2>4. OneJob' /\ \A h \in Ids : HasWork(h)' <=> HasWork(h)
    BY <2>1, WorkSame
  <2>5. Covered'
    BY <2>1, <2>2, <2>3, <2>4, CoveredFrame DEF InFlight
  <2> QED BY <2>2, <2>4, <2>5
<1> QED BY <1>1, <1>2, <1>3, <1>4, <1>5, <1>6 DEF ApiStep

\* A task that is moved on or sent back keeps its id's work; one that is over
\* leaves it to the handler to remove the entry.
LEMMA TaskPending ==
  ASSUME PInv, NEW i \in Ids, TaskStep(i)
  PROVE  Covered' /\ OneJob' /\ StorePlaced'
<1> USE JobTypes DEF PInv
<1> DEFINE j == slot[i].job
<1>1. UNCHANGED storeVars /\ jobs' = jobs /\ req' = req /\ handler.at = "select"
  BY DEF TaskStep, QueueForPermits, StartWorker, NextJob, JobDone, RetryLater, Retry,
     JobFailed, storeVars
<1>2. slot[i] # NoTask /\ j \in Jobs /\ JobId(j) = i
  BY SlotJob DEF TaskStep, QueueForPermits, StartWorker, NextJob, JobDone, RetryLater,
     Retry, JobFailed, NoTask, SlotsPlaced
<1>3. StorePlaced'
  BY <1>1, StorePlacedSame
<1> HIDE DEF j
<1>4. ASSUME handler' = handler, \A h \in Ids : HasWork(h)' <=> HasWork(h)
      PROVE  Covered'
  BY <1>1, <1>4, CoveredFrame
<1>5. CASE QueueForPermits(i) \/ StartWorker(i) \/ RetryLater(i)
  <2>1. channel' = channel /\ handler' = handler /\ \E to \in TaskStates : MoveTask(i, to)
    BY <1>5 DEF QueueForPermits, StartWorker, RetryLater, TaskStates
  <2>2. \A h \in Ids : slot'[h] = NoTask <=> slot[h] = NoTask
    BY <1>2, <2>1 DEF MoveTask, TypeOK, NoTask, TaskStates
  <2>3. OneJob' /\ \A h \in Ids : HasWork(h)' <=> HasWork(h)
    BY <2>1, <2>2, WorkSame
  <2> QED BY <1>3, <1>4, <2>1, <2>3
<1>6. CASE NextJob(i) \/ Retry(i)
  <2>1. handler' = handler /\ slot' = [slot EXCEPT ![i] = NoTask]
    BY <1>6 DEF NextJob, Retry, EndTask
  <2>2. Job(j.req, "upload") \in Jobs /\ JobId(Job(j.req, "upload")) = i
    BY <1>2 DEF Job, JobId, Kinds
  <2>3. \E k \in Jobs : JobId(k) = i /\ channel' = Append(channel, k)
    BY <1>2, <1>6, <2>2 DEF NextJob, Retry, j
  <2>4. OneJob' /\ \A h \in Ids : HasWork(h)' <=> HasWork(h)
    BY <1>2, <2>1, <2>3, WorkBack
  <2> QED BY <1>3, <1>4, <2>1, <2>4
<1>7. CASE JobDone(i) \/ JobFailed(i)
  <2>1. /\ channel' = channel /\ slot' = [slot EXCEPT ![i] = NoTask]
        /\ handler'.at = "remove" /\ handler'.job = j
    BY <1>7 DEF JobDone, JobFailed, EndTask, j
  <2>2. OneJob' /\ \A h \in Ids : HasWork(h)' <=> HasWork(h) /\ h # i
    BY <1>2, <2>1, WorkOver
  <2>3. HasWork(i) /\ jobs[i] # NoJob
    BY <1>2 DEF HasWork, Covered, PendingCoversWork
  <2>4. PendingCoversWork'
    BY <1>1, <2>2 DEF Covered, PendingCoversWork
  <2>5. RemovesLast'
    BY <1>1, <1>2, <2>1, <2>2, <2>3 DEF RemovesLast, JobId
  <2>6. \A h : ToRemove(h)' => h = i
    BY <1>2, <2>1 DEF ToRemove, JobId
  <2>7. \A q \in Requests : req'[q] \in InFlight =>
          /\ ~HasWork(IdOf[q])' /\ ~ToRemove(IdOf[q])'
          /\ \A p \in Requests : req'[p] \in InFlight /\ IdOf[p] = IdOf[q] => p = q
          /\ req'[q] \in {"saving", "saved"} => jobs'[IdOf[q]] # NoJob
    BY <1>1, <2>2, <2>3, <2>6 DEF Covered, RequestOwnsId
  <2>8. RequestOwnsId'
    BY <2>7 DEF RequestOwnsId
  <2> QED BY <1>3, <2>2, <2>4, <2>5, <2>8 DEF Covered
<1> QED BY <1>5, <1>6, <1>7 DEF TaskStep

LEMMA LoopPending ==
  ASSUME PInv, LoopStep
  PROVE  Covered' /\ OneJob' /\ StorePlaced'
<1> USE JobTypes DEF PInv
<1>r. req' = req
  BY DEF LoopStep, StartTask, SkipJob, BeginRemove, EndRemove, Cleanup
<1>l. Loop \in Actors
  BY DEF Loop, Actors
<1>1. CASE StartTask \/ SkipJob
  <2>1. UNCHANGED storeVars /\ jobs' = jobs /\ handler' = handler
    BY <1>1 DEF StartTask, SkipJob, storeVars
  <2>2. (\A h \in Ids : HasWork(h)' => HasWork(h)) /\ OneJob'
    BY <1>1, WorkStarted, WorkSkipped
  <2>3. Covered'
    BY <1>r, <2>1, <2>2, CoveredFrame
  <2> QED BY <2>1, <2>2, <2>3, StorePlacedSame
<1>2. CASE EndRemove \/ Cleanup
  <2>1. channel' = channel /\ slot' = slot /\ handler'.at # "remove"
    BY <1>2 DEF EndRemove, Cleanup, Become, Selecting
  <2>2. OneJob' /\ \A h \in Ids : HasWork(h)' <=> HasWork(h)
    BY <2>1, WorkSame
  <2>3. StorePlaced' /\ jobs' = jobs
    <3>1. CASE EndRemove
      BY <1>l, <3>1, SavePlaced DEF EndRemove
    <3>2. CASE Cleanup
      BY <3>2, StorePlacedSame DEF Cleanup, storeVars
    <3> QED BY <1>2, <3>1, <3>2
  <2>4. Covered'
    BY <1>r, <2>1, <2>2, <2>3, CoveredFrame
  <2> QED BY <2>2, <2>3, <2>4
<1>3. CASE BeginRemove
  <2> DEFINE i == JobId(handler.job)
  <2>1. channel' = channel /\ slot' = slot /\ handler.at = "remove"
        /\ handler'.at = "removing"
    BY <1>3 DEF BeginRemove, Become
  <2>2. OneJob' /\ \A h \in Ids : HasWork(h)' <=> HasWork(h)
    BY <2>1, WorkSame
  <2>3. i \in Ids /\ ~HasWork(i) /\ ToRemove(i)
    BY <2>1 DEF Covered, RemovesLast, ToRemove
  <2>4. Store!Change(Loop, [jobs EXCEPT ![i] = NoJob])
    BY <1>3 DEF BeginRemove, Store!Remove
  <2> HIDE DEF i
  <2>5. StorePlaced' /\ \A h \in Ids : h # i => jobs'[h] = jobs[h]
    BY <1>l, <2>3, <2>4, ChangePlaced
  <2>6. PendingCoversWork'
    BY <2>2, <2>3, <2>5 DEF Covered, PendingCoversWork
  <2>7. \A q \in Requests : req'[q] \in InFlight =>
          /\ ~HasWork(IdOf[q])' /\ ~ToRemove(IdOf[q])'
          /\ \A p \in Requests : req'[p] \in InFlight /\ IdOf[p] = IdOf[q] => p = q
          /\ req'[q] \in {"saving", "saved"} => jobs'[IdOf[q]] # NoJob
    <3>1. \A h : ~ToRemove(h)'
      BY <2>1 DEF ToRemove
    <3> QED BY <1>r, <2>2, <2>3, <2>5, <3>1 DEF Covered, RequestOwnsId
  <2>8. RequestOwnsId' /\ RemovesLast'
    BY <2>1, <2>7 DEF RequestOwnsId, RemovesLast
  <2> QED BY <2>2, <2>5, <2>6, <2>8 DEF Covered
<1> QED BY <1>1, <1>2, <1>3 DEF LoopStep

\* Workers, file writes and the futures next_job spawned create no work and
\* remove no entry.
LEMMA OthersPending ==
  ASSUME PInv,
         \/ \E r \in Requests : AdderBegin(r) \/ AdderEnd(r)
         \/ \E a \in Actors : SaveStep(a)
         \/ \E j \in Jobs : WorkerStep(j)
         \/ UNCHANGED vars
  PROVE  Covered' /\ OneJob' /\ StorePlaced'
<1> USE JobTypes, ActorTypes DEF PInv
<1>1. channel' = channel /\ slot' = slot /\ handler' = handler /\ req' = req
  BY DEF AdderBegin, AdderEnd, SaveStep, WorkerStep, ConvertPrepare, ConvertEncode,
     ConvertPublish, ConvertUnlink, UploadSend, UploadFails, UploadPurge, MigrateCopy,
     taskVars, vars
<1>2. OneJob' /\ \A h \in Ids : HasWork(h)' <=> HasWork(h)
  BY <1>1, WorkSame
<1>3. StorePlaced' /\ \A h \in Ids : jobs[h] # NoJob => jobs'[h] # NoJob
  <2>1. ASSUME NEW r \in Requests, AdderBegin(r)
        PROVE  StorePlaced' /\ \A h \in Ids : jobs[h] # NoJob => jobs'[h] # NoJob
    <3>1. Job(r, "upload") \in Jobs /\ Job(r, "upload") # NoJob
          /\ JobId(Job(r, "upload")) = IdOf[r]
      BY PipelineAssumption DEF Job, JobId, Kinds
    <3> QED BY <2>1, <3>1, ChangePlaced DEF AdderBegin, Store!Add
  <2>2. ASSUME NEW r \in Requests, AdderEnd(r)
        PROVE  StorePlaced' /\ \A h \in Ids : jobs[h] # NoJob => jobs'[h] # NoJob
    BY <2>2, SavePlaced DEF AdderEnd
  <2>3. ASSUME NEW a \in Actors, SaveStep(a)
        PROVE  StorePlaced' /\ \A h \in Ids : jobs[h] # NoJob => jobs'[h] # NoJob
    BY <2>3, SavePlaced DEF SaveStep
  <2>4. CASE UNCHANGED vars \/ \E j \in Jobs : WorkerStep(j)
    <3>1. UNCHANGED storeVars
      BY <2>4 DEF WorkerStep, ConvertPrepare, ConvertEncode, ConvertPublish,
         ConvertUnlink, UploadSend, UploadFails, UploadPurge, MigrateCopy, vars
    <3> QED BY <3>1, StorePlacedSame DEF storeVars
  <2> QED BY <2>1, <2>2, <2>3, <2>4
<1>4. Covered'
  BY <1>1, <1>2, <1>3, CoveredFrame
<1> QED BY <1>2, <1>3, <1>4

\* A restart queues the jobs of the file, each once; as each is stored under its
\* own id, the file has one job per id and the channel gets no two of an id.
LEMMA RestartPending ==
  ASSUME PInv, Restart
  PROVE  Covered' /\ OneJob' /\ StorePlaced'
<1> USE JobTypes DEF PInv
<1> DEFINE f == Store!Load(file)
<1>1. Placed(f)
  BY NoJobsPlaced DEF StorePlaced, Store!Load
<1>2. /\ jobs' = f /\ file' = file
      /\ \A a \in Actors : flight'[a].jobs = Store!NoJobs
  BY DEF Restart, Store!Reload, Store!NoWrite
<1>3. \A n \in DOMAIN channel' : \E i \in Ids : f[i] = channel'[n] /\ channel'[n] \in Jobs
  BY DEF Restart, Orders, Loaded
<1>4. \A m, n \in DOMAIN channel' : channel'[m] = channel'[n] => m = n
  BY DEF Restart, Orders
<1> HIDE DEF f
<1>5. \A n \in DOMAIN channel' :
        channel'[n] \in Jobs /\ channel'[n] # NoJob /\ f[JobId(channel'[n])] = channel'[n]
  BY <1>1, <1>3, PipelineAssumption DEF Placed
<1>6. /\ \A i \in Ids : slot'[i] = NoTask
      /\ handler'.at = "select"
      /\ \A r \in Requests : req'[r] \notin InFlight
  BY DEF Restart, Selecting, InFlight
<1>7. OneJob'
  <2>1. Distinct'
    BY <1>4, <1>5 DEF Distinct, JobId
  <2> QED BY <1>6, <2>1 DEF OneJob, Apart
<1>8. PendingCoversWork'
  <2>1. \A i \in Ids : HasWork(i)' => \E n \in DOMAIN channel' : IdOf[channel'[n].req] = i
    BY <1>6 DEF HasWork, Queued, JobId
  <2> QED BY <1>2, <1>5, <2>1 DEF PendingCoversWork, JobId
<1>9. RequestOwnsId' /\ RemovesLast'
  BY <1>6 DEF RequestOwnsId, RemovesLast
<1>10. StorePlaced'
  <2>1. Placed(jobs') /\ Placed(file'.jobs) /\ \A a \in Actors : Placed(flight'[a].jobs)
    BY <1>1, <1>2, NoJobsPlaced DEF StorePlaced
  <2> QED BY <2>1 DEF StorePlaced, Placed, JobId
<1> QED BY <1>7, <1>8, <1>9, <1>10 DEF Covered

LEMMA PInvInit == Init => PInv
<1> SUFFICES ASSUME Init PROVE PInv
  OBVIOUS
<1>1. TypeOK
  BY TypeInit
<1>2. channel = <<>> /\ \A i \in Ids : slot[i] = NoTask
  BY DEF Init
<1>3. \A i : ~Queued(i)
  BY <1>2 DEF Queued
<1>4. OneJob /\ PendingCoversWork /\ SlotsPlaced
  BY <1>2, <1>3 DEF OneJob, Distinct, Apart, PendingCoversWork, HasWork, SlotsPlaced
<1>5. RequestOwnsId /\ RemovesLast
  BY DEF Init, RequestOwnsId, RemovesLast, InFlight, Selecting
<1>6. StorePlaced
  BY NoJobsPlaced DEF Init, Store!StoreInit, Store!Json, Store!NoWrite, StorePlaced
<1> QED BY <1>1, <1>4, <1>5, <1>6 DEF PInv, Covered

LEMMA PInvStep ==
  ASSUME PInv, NoOverlap, [Next]_vars
  PROVE  PInv'
<1>1. TypeOK' /\ SlotsPlaced'
  BY TypeStep, SlotsPlacedStep DEF PInv
<1>2. Covered' /\ OneJob' /\ StorePlaced'
  BY ApiPending, TaskPending, LoopPending, OthersPending, RestartPending DEF Next
<1> QED BY <1>1, <1>2 DEF PInv

LEMMA PInvImplies == PInv => PendingInv
  BY OneJobSplit
  DEF PInv, TypeOK, Covered, OneJob, StorePlaced, PendingInv, JobsPlaced

\* If clients do not overlap requests for an id, then whatever else they, the
\* file system and crashes do, no job is queued or running without being listed
\* as pending.
THEOREM WorkIsPending ==
  ASSUME NoOverlap
  PROVE  Spec => []PendingCoversWork
<1>1. PInv /\ [Next]_vars => PInv'
  BY PInvStep
<1>2. PInv => PendingCoversWork
  BY DEF PInv, Covered
<1> QED BY <1>1, <1>2, PInvInit, PTL DEF Spec

\* Under the same assumption the handler never gets a second job of a busy id,
\* so that its skip, which would lose the job, is never taken.
THEOREM NoSecondJob ==
  ASSUME NoOverlap
  PROVE  Spec => []OneJobPerId
<1>1. PInv /\ [Next]_vars => PInv'
  BY PInvStep
<1>2. PInv => OneJobPerId
  BY PInvImplies DEF PendingInv
<1> QED BY <1>1, <1>2, PInvInit, PTL DEF Spec

-------------------------------------------------------------------------------
(* Permits.                                                                *)

Holds(i)   == slot[i].at \in {"running", "sleeping"}
Part(i, j) == {i} \X (1 .. Acquire(j))

LEMMA DisjointUnion ==
  ASSUME NEW S, IsFiniteSet(S), NEW T, IsFiniteSet(T), S \cap T = {}
  PROVE  Cardinality(S \cup T) = Cardinality(S) + Cardinality(T)
<1>1. Cardinality(S \cap T) = 0
  BY FS_EmptySet
<1>2. Cardinality(S) \in Nat /\ Cardinality(T) \in Nat
  BY FS_CardinalityType
<1>3. Cardinality(S \cup T) = Cardinality(S) + Cardinality(T) - Cardinality(S \cap T)
  BY FS_Union, Zenon
<1> QED BY <1>1, <1>2, <1>3

LEMMA HeldFinite ==
  ASSUME NEW k \in Kinds
  PROVE  IsFiniteSet(Held(k)) /\ Cardinality(Held(k)) \in Nat
<1>1. PoolLimit(k) \in Int
  BY PermitTypes
<1>2. IsFiniteSet(1 .. PoolLimit(k))
  BY <1>1, FS_Interval
<1>3. IsFiniteSet(Ids \X (1 .. PoolLimit(k)))
  BY <1>2, PipelineAssumption, FS_Product
<1>4. IsFiniteSet(Held(k))
  BY <1>3, FS_Subset DEF Held
<1> QED BY <1>4, FS_CardinalityType

\* A task holds as many permits as its job acquires.
LEMMA PartSize ==
  ASSUME NEW i, NEW j \in Jobs
  PROVE  IsFiniteSet(Part(i, j)) /\ Cardinality(Part(i, j)) = Acquire(j)
<1> DEFINE n == Acquire(j)
<1>1. n \in Nat
  BY PermitTypes
<1> HIDE DEF n
<1>2. IsFiniteSet(1 .. n) /\ Cardinality(1 .. n) = n
  BY <1>1, FS_Interval
<1>3. IsFiniteSet({i}) /\ Cardinality({i}) = 1
  BY FS_Singleton
<1>4. IsFiniteSet({i} \X (1 .. n)) /\ Cardinality({i} \X (1 .. n)) = 1 * n
  BY <1>2, <1>3, FS_Product
<1> QED BY <1>1, <1>4 DEF Part, n

LEMMA AcquireFits ==
  ASSUME NEW j \in Jobs
  PROVE  Acquire(j) \in Nat /\ Acquire(j) <= PoolLimit(j.kind) /\ PoolLimit(j.kind) \in Nat
<1>1. j.kind \in Kinds
  BY JobTypes
<1>2. PoolLimit(j.kind) \in Nat /\ need_permit(j) \in Nat
  BY <1>1, PermitTypes
<1> QED BY <1>2 DEF Acquire

HeldRight ==
  \A k \in Kinds : \A p : p \in Held(k) <=>
    \E i \in Ids : Holds(i) /\ slot[i].job.kind = k /\ p \in Part(i, slot[i].job)

LEMMA HeldIs == TypeOK => HeldRight
<1> SUFFICES ASSUME TypeOK, NEW k \in Kinds, NEW p
             PROVE  p \in Held(k) <=>
               \E i \in Ids : Holds(i) /\ slot[i].job.kind = k /\ p \in Part(i, slot[i].job)
  BY DEF HeldRight
<1>1. ASSUME p \in Held(k)
      PROVE  \E i \in Ids : Holds(i) /\ slot[i].job.kind = k /\ p \in Part(i, slot[i].job)
  <2>1. /\ p \in Ids \X (1 .. PoolLimit(k)) /\ Holds(p[1]) /\ slot[p[1]].job.kind = k
        /\ p[2] <= Acquire(slot[p[1]].job)
    BY <1>1 DEF Held, Holds
  <2>2. slot[p[1]].job \in Jobs
    BY <2>1, SlotJob DEF Holds
  <2>3. Acquire(slot[p[1]].job) \in Nat
    BY <2>2, AcquireFits
  <2>4. p[2] \in 1 .. Acquire(slot[p[1]].job) /\ p = <<p[1], p[2]>>
    BY <2>1, <2>3, PermitTypes
  <2> QED BY <2>1, <2>4 DEF Part
<1>2. ASSUME NEW i \in Ids, Holds(i), slot[i].job.kind = k, p \in Part(i, slot[i].job)
      PROVE  p \in Held(k)
  <2>1. slot[i].job \in Jobs
    BY <1>2, SlotJob DEF Holds
  <2>2. Acquire(slot[i].job) \in Nat /\ Acquire(slot[i].job) <= PoolLimit(k) /\ PoolLimit(k) \in Nat
    BY <1>2, <2>1, AcquireFits
  <2>3. p[1] = i /\ p[2] \in 1 .. Acquire(slot[i].job) /\ p = <<i, p[2]>>
    BY <1>2 DEF Part
  <2>4. p \in Ids \X (1 .. PoolLimit(k)) /\ p[2] <= Acquire(slot[i].job)
    BY <2>2, <2>3
  <2> QED BY <1>2, <2>3, <2>4 DEF Held, Holds
<1> QED BY <1>1, <1>2

\* The permits of two tasks are different ones.
LEMMA HeldChange ==
  ASSUME TypeOK, TypeOK', NEW i \in Ids, \A h \in Ids : h # i => slot'[h] = slot[h],
         NEW k \in Kinds
  PROVE  LET P  == IF Holds(i) /\ slot[i].job.kind = k THEN Part(i, slot[i].job) ELSE {}
             P2 == IF Holds(i)' /\ slot'[i].job.kind = k THEN Part(i, slot'[i].job) ELSE {}
         IN  \E S : /\ Held(k) = S \cup P /\ S \cap P = {}
                    /\ Held(k)' = S \cup P2 /\ S \cap P2 = {}
<1> DEFINE P  == IF Holds(i) /\ slot[i].job.kind = k THEN Part(i, slot[i].job) ELSE {}
           P2 == IF Holds(i)' /\ slot'[i].job.kind = k THEN Part(i, slot'[i].job) ELSE {}
           S  == {p \in Held(k) : p[1] # i}
<1>1. \A h, j, p : p \in Part(h, j) => p[1] = h
  BY DEF Part
<1>2. \A h \in Ids : h # i => (Holds(h)' <=> Holds(h)) /\ slot'[h].job = slot[h].job
  BY DEF Holds
<1>3. \A p : p \in Held(k)' <=>
        \E h \in Ids : Holds(h)' /\ slot'[h].job.kind = k /\ p \in Part(h, slot'[h].job)
  <2>1. HeldRight'
    BY HeldIs, PTL
  <2> QED BY <2>1 DEF HeldRight, Part, Acquire, need_permit, PoolLimit
<1>4. \A p : p \in Held(k) <=>
        \E h \in Ids : Holds(h) /\ slot[h].job.kind = k /\ p \in Part(h, slot[h].job)
  BY HeldIs DEF HeldRight
<1>5. \A p : p \in S <=>
        \E h \in Ids : h # i /\ Holds(h) /\ slot[h].job.kind = k /\ p \in Part(h, slot[h].job)
  BY <1>1, <1>4
<1>6. Held(k) = S \cup P
  BY <1>1, <1>4, <1>5
<1>7. Held(k)' = S \cup P2
  BY <1>1, <1>2, <1>3, <1>5
<1>8. S \cap P = {} /\ S \cap P2 = {}
  BY <1>1
<1> QED BY <1>6, <1>7, <1>8

\* The permits the task of i holds in pool k.
Cost(i, k) == IF Holds(i) /\ slot[i].job.kind = k THEN Acquire(slot[i].job) ELSE 0

PermitsOf(i, k) == IF Holds(i) /\ slot[i].job.kind = k THEN Part(i, slot[i].job) ELSE {}
CostRight ==
  \A i \in Ids, k \in Kinds :
    /\ IsFiniteSet(PermitsOf(i, k)) /\ Cardinality(PermitsOf(i, k)) = Cost(i, k)
    /\ Cost(i, k) \in Nat

LEMMA CostIs == TypeOK => CostRight
<1> SUFFICES ASSUME TypeOK, NEW i \in Ids, NEW k \in Kinds
             PROVE  /\ IsFiniteSet(PermitsOf(i, k)) /\ Cardinality(PermitsOf(i, k)) = Cost(i, k)
                    /\ Cost(i, k) \in Nat
  BY DEF CostRight
<1>1. CASE Holds(i) /\ slot[i].job.kind = k
  <2>1. slot[i].job \in Jobs
    BY <1>1, SlotJob DEF Holds
  <2> QED BY <1>1, <2>1, PartSize, PermitTypes DEF Cost, PermitsOf
<1>2. CASE ~(Holds(i) /\ slot[i].job.kind = k)
  BY <1>2, FS_EmptySet DEF Cost, PermitsOf
<1> QED BY <1>1, <1>2

\* A task pays for what it takes out of its pool and gets back what it held.
LEMMA BalanceMoves ==
  ASSUME TypeOK, TypeOK', PoolsBalanced, NEW i \in Ids,
         \A h \in Ids : h # i => slot'[h] = slot[h],
         \A k \in Kinds : avail'[k] + Cost(i, k)' = avail[k] + Cost(i, k)
  PROVE  PoolsBalanced'
<1> SUFFICES ASSUME NEW k \in Kinds PROVE avail'[k] + Cardinality(Held(k)') = PoolLimit(k)
  BY DEF PoolsBalanced, PoolLimit
<1> DEFINE P  == PermitsOf(i, k)
           P2 == PermitsOf(i, k)'
<1>1. IsFiniteSet(P) /\ Cardinality(P) = Cost(i, k) /\ Cost(i, k) \in Nat
  BY CostIs DEF CostRight
<1>2. IsFiniteSet(P2) /\ Cardinality(P2) = Cost(i, k)' /\ Cost(i, k)' \in Nat
  <2>1. CostRight'
    BY CostIs, PTL
  <2> QED BY <2>1 DEF CostRight
<1>3. \E S : /\ Held(k) = S \cup P /\ S \cap P = {}
             /\ Held(k)' = S \cup P2 /\ S \cap P2 = {}
  BY HeldChange DEF PermitsOf
<1> HIDE DEF P, P2
<1>4. PICK S : /\ Held(k) = S \cup P /\ S \cap P = {}
               /\ Held(k)' = S \cup P2 /\ S \cap P2 = {}
  BY <1>3
<1>5. IsFiniteSet(S) /\ Cardinality(S) \in Nat
  <2>1. IsFiniteSet(S)
    BY <1>4, HeldFinite, FS_Subset
  <2> QED BY <2>1, FS_CardinalityType
<1>6. Cardinality(Held(k)) = Cardinality(S) + Cost(i, k)
  BY <1>1, <1>4, <1>5, DisjointUnion
<1>7. Cardinality(Held(k)') = Cardinality(S) + Cost(i, k)'
  BY <1>2, <1>4, <1>5, DisjointUnion
<1>8. avail[k] + Cardinality(Held(k)) = PoolLimit(k)
  BY DEF PoolsBalanced
<1>9. avail[k] \in Nat /\ avail'[k] \in Nat /\ PoolLimit(k) \in Nat
  BY PermitTypes DEF TypeOK
<1>10. avail'[k] + Cost(i, k)' = avail[k] + Cost(i, k)
  OBVIOUS
<1> QED BY <1>1, <1>2, <1>5, <1>6, <1>7, <1>8, <1>9, <1>10


\* A task of one job, at the state it is in, costs its pool what the job acquires.
LEMMA CostWhile ==
  ASSUME NEW i, NEW k
  PROVE  /\ Holds(i) => Cost(i, k) = IF slot[i].job.kind = k THEN Acquire(slot[i].job) ELSE 0
         /\ ~Holds(i) => Cost(i, k) = 0
         /\ Holds(i)' => Cost(i, k)' = IF slot'[i].job.kind = k THEN Acquire(slot'[i].job) ELSE 0
         /\ ~Holds(i)' => Cost(i, k)' = 0
BY DEF Cost, Acquire, need_permit

LEMMA TaskBalance ==
  ASSUME TypeOK, TypeOK', PoolsBalanced, NEW i \in Ids, TaskStep(i)
  PROVE  PoolsBalanced'
<1> DEFINE j == slot[i].job
           c == Acquire(j)
<1>1. j \in Jobs /\ j.kind \in Kinds /\ slot[i].at \in TaskStates
  BY SlotJob, JobTypes DEF TaskStep, QueueForPermits, StartWorker, NextJob, JobDone,
     RetryLater, Retry, JobFailed, NoTask, TaskStates
<1>2. c \in Nat
  BY <1>1, PermitTypes
<1>3. avail \in [Kinds -> Nat] /\ slot = [h \in Ids |-> slot[h]]
  BY DEF TypeOK
<1>4. CASE QueueForPermits(i) \/ RetryLater(i)
  <2>1. /\ slot' = [slot EXCEPT ![i] = [job |-> j, at |-> slot'[i].at]] /\ avail' = avail
        /\ (Holds(i) <=> Holds(i)') /\ slot'[i].job = j
    BY <1>3, <1>4 DEF QueueForPermits, RetryLater, MoveTask, Holds
  <2>2. \A h \in Ids : h # i => slot'[h] = slot[h]
    BY <2>1, <1>3
  <2>3. \A k \in Kinds : Cost(i, k)' = Cost(i, k)
    BY <2>1 DEF Cost, Acquire, need_permit
  <2> QED BY <2>1, <2>2, <2>3, BalanceMoves
<1>5. CASE StartWorker(i)
  <2>1. /\ \A h \in Ids : h # i => slot'[h] = slot[h]
        /\ avail' = [avail EXCEPT ![j.kind] = @ - c]
        /\ ~Holds(i) /\ Holds(i)' /\ slot'[i].job = j
    BY <1>3, <1>5 DEF StartWorker, MoveTask, Holds
  <2> HIDE DEF c
  <2>2. \A k \in Kinds : Cost(i, k) = 0 /\ Cost(i, k)' = IF j.kind = k THEN c ELSE 0
    BY <2>1, CostWhile DEF c
  <2>3. \A k \in Kinds : avail'[k] = avail[k] - IF j.kind = k THEN c ELSE 0
    BY <1>1, <1>2, <1>3, <2>1
  <2>4. \A k \in Kinds : avail'[k] + Cost(i, k)' = avail[k] + Cost(i, k)
    BY <1>2, <1>3, <2>2, <2>3
  <2> QED BY <2>1, <2>4, BalanceMoves
<1>6. CASE NextJob(i) \/ JobDone(i) \/ Retry(i) \/ JobFailed(i)
  <2>1. /\ \A h \in Ids : h # i => slot'[h] = slot[h]
        /\ avail' = [avail EXCEPT ![j.kind] = @ + c]
        /\ Holds(i) /\ ~Holds(i)'
    BY <1>3, <1>6 DEF NextJob, JobDone, Retry, JobFailed, EndTask, Holds, NoTask
  <2> HIDE DEF c
  <2>2. \A k \in Kinds : Cost(i, k)' = 0 /\ Cost(i, k) = IF j.kind = k THEN c ELSE 0
    BY <2>1, CostWhile DEF c
  <2>3. \A k \in Kinds : avail'[k] = avail[k] + IF j.kind = k THEN c ELSE 0
    BY <1>1, <1>2, <1>3, <2>1
  <2>4. \A k \in Kinds : avail'[k] + Cost(i, k)' = avail[k] + Cost(i, k)
    BY <1>2, <1>3, <2>2, <2>3
  <2> QED BY <2>1, <2>4, BalanceMoves
<1> QED BY <1>4, <1>5, <1>6 DEF TaskStep

Fresh == slot = [i \in Ids |-> NoTask] /\ avail = [k \in Kinds |-> PoolLimit(k)]

\* Fresh pools are full and no task holds anything.
LEMMA FreshBalanced == Fresh => PoolsBalanced
<1> SUFFICES ASSUME Fresh, NEW k \in Kinds
             PROVE  avail[k] + Cardinality(Held(k)) = PoolLimit(k)
  BY DEF PoolsBalanced
<1> USE DEF Fresh
<1>1. Held(k) = {}
  BY DEF Held, NoTask
<1>2. Cardinality(Held(k)) = 0
  BY <1>1, FS_EmptySet
<1>3. avail[k] = PoolLimit(k) /\ PoolLimit(k) \in Nat
  BY PermitTypes
<1> QED BY <1>2, <1>3

LEMMA BalanceStep ==
  ASSUME TypeOK, TypeOK', PoolsBalanced, [Next]_vars
  PROVE  PoolsBalanced'
<1>0. ASSUME slot' = slot, avail' = avail PROVE PoolsBalanced'
  <2>1. ASSUME NEW k \in Kinds PROVE Held(k)' = Held(k)
    BY <1>0 DEF Held, Acquire, need_permit
  <2> QED BY <1>0, <2>1 DEF PoolsBalanced
<1>1. ASSUME NEW r \in Requests, ApiStep(r) \/ AdderBegin(r) \/ AdderEnd(r)
      PROVE  PoolsBalanced'
  <2>1. slot' = slot /\ avail' = avail
    BY <1>1 DEF ApiStep, CheckExists, OpenUpload, ReceiveBody, BeginAdd, EndAdd, SendJob,
       DropRequest, AdderBegin, AdderEnd, taskVars
  <2> QED BY <1>0, <2>1
<1>2. ASSUME NEW i \in Ids, TaskStep(i) PROVE PoolsBalanced'
  BY <1>2, TaskBalance
<1>3. ASSUME NEW j \in Jobs, WorkerStep(j) PROVE PoolsBalanced'
  <2>1. slot' = slot /\ avail' = avail
    BY <1>3 DEF WorkerStep, ConvertPrepare, ConvertEncode, ConvertPublish, ConvertUnlink,
       UploadSend, UploadFails, UploadPurge, MigrateCopy, taskVars
  <2> QED BY <1>0, <2>1
<1>4. ASSUME NEW a \in Actors, SaveStep(a) PROVE PoolsBalanced'
  <2>1. slot' = slot /\ avail' = avail
    BY <1>4 DEF SaveStep, taskVars
  <2> QED BY <1>0, <2>1
<1>5. CASE LoopStep
  <2>1. CASE StartTask
    <3>1. PICK i \in Ids : i = JobId(Head(channel))
      <4>1. JobId(Head(channel)) \in Ids
        BY <2>1, SlotJob, JobTypes DEF StartTask, TypeOK
      <4> QED BY <4>1
    <3>2. /\ \A h \in Ids : h # i => slot'[h] = slot[h]
          /\ ~Holds(i) /\ ~Holds(i)' /\ avail' = avail
      <4>1. /\ slot = [h \in Ids |-> slot[h]] /\ slot[i] = NoTask /\ avail' = avail
            /\ slot' = [slot EXCEPT ![i] = [job |-> Head(channel), at |-> "new"]]
        BY <2>1, <3>1 DEF StartTask, TypeOK
      <4> QED BY <4>1 DEF Holds, NoTask
    <3>3. \A k \in Kinds : Cost(i, k)' = Cost(i, k)
      BY <3>2, CostWhile
    <3>4. \A k \in Kinds : avail'[k] + Cost(i, k)' = avail[k] + Cost(i, k)
      BY <3>2, <3>3
    <3> QED BY <3>2, <3>4, BalanceMoves
  <2>2. CASE SkipJob \/ BeginRemove \/ EndRemove \/ Cleanup
    <3>1. slot' = slot /\ avail' = avail
      BY <2>2 DEF SkipJob, BeginRemove, EndRemove, Cleanup
    <3> QED BY <1>0, <3>1
  <2> QED BY <1>5, <2>1, <2>2 DEF LoopStep
<1>6. CASE Restart
  <2>1. Fresh'
    BY <1>6 DEF Restart, Fresh, PoolLimit
  <2> QED BY <2>1, FreshBalanced, PTL
<1>7. CASE UNCHANGED vars
  BY <1>0, <1>7 DEF vars, taskVars
<1> QED BY <1>1, <1>2, <1>3, <1>4, <1>5, <1>6, <1>7 DEF Next

\* Each permit is in its pool or with one task that runs or sleeps before a retry:
\* whatever jobs do, none is lost and none is handed out twice.
THEOREM PermitsReturn == Spec => []PoolsBalanced
<1>1. Init => PoolsBalanced
  BY FreshBalanced DEF Init, Fresh
<1>2. TypeOK /\ TypeOK' /\ PoolsBalanced /\ [Next]_vars => PoolsBalanced'
  BY BalanceStep
<1> QED BY <1>1, <1>2, TypeCorrect, PTL DEF Spec

-------------------------------------------------------------------------------
(* Where the video of a request is, from its upload to the end of its job, *)
(* when every id is submitted once, nothing crashes and no body breaks off.*)

\* Where the work for the job j is, if there is any.
InChannel(j) == \E n \in DOMAIN channel : channel[n] = j
AtWork(j) == InChannel(j) \/ slot[JobId(j)].job = j
Work(r)   == {j \in Jobs : j.req = r /\ AtWork(j)}
Ends(r)   == handler.at \in {"remove", "removing"} /\ handler.job.req = r

Opened(r) == [exists |-> TRUE, has |-> {}, open |-> {r}]
Full(r)   == [exists |-> TRUE, has |-> {r}, open |-> {}]

\* What DoneIsServed asks for.
Served(r) ==
  /\ upload[IdOf[r]] = NoUpload
  /\ IF IsS3 THEN remote[IdOf[r]] = r /\ video[IdOf[r]] = Nothing ELSE video[IdOf[r]] = r

Waits(r) ==
  /\ req[r] # "accepted" /\ Work(r) = {} /\ ~Ends(r) /\ outcome[r] = "none"
  /\ req[r] \in {"idle", "checked"} => upload[IdOf[r]] = NoUpload
  /\ req[r] = "opened" => upload[IdOf[r]] = Opened(r)
  /\ req[r] \in {"written", "saving", "saved"} => upload[IdOf[r]] = Full(r)

ConvertLeft(r) ==
  LET w == worker[Job(r, "convert")]
      i == IdOf[r]
  IN  /\ upload[i] = IF w = "ok" THEN NoUpload ELSE Full(r)
      /\ w = "publish" => temp[i] = r
      /\ w \in {"unlink", "ok"} => video[i] = r

Converting(r) ==
  /\ req[r] = "accepted" /\ Work(r) = {Job(r, "convert")} /\ ~Ends(r) /\ outcome[r] = "none"
  /\ ConvertLeft(r)

UploadLeft(r) ==
  LET w == worker[Job(r, "upload")]
      i == IdOf[r]
  IN  /\ upload[i] = NoUpload
      /\ video[i] = IF w = "ok" THEN Nothing ELSE r
      /\ w \in {"purge", "ok"} => remote[i] = r

Uploading(r) ==
  /\ req[r] = "accepted" /\ Work(r) = {Job(r, "upload")} /\ ~Ends(r) /\ outcome[r] = "none"
  /\ IsS3 /\ UploadLeft(r)

Finishing(r) ==
  /\ req[r] = "accepted" /\ Work(r) = {} /\ Ends(r) /\ outcome[r] = "none"
  /\ IF handler.failed THEN upload[IdOf[r]] = Full(r) ELSE Served(r)

Ended(r) ==
  /\ req[r] = "accepted" /\ Work(r) = {} /\ ~Ends(r) /\ outcome[r] # "none"
  /\ outcome[r] = "done" => Served(r)

Whereabouts(r) == Waits(r) \/ Converting(r) \/ Uploading(r) \/ Finishing(r) \/ Ended(r)


HandlerJob ==
  /\ handler.at # "select" => handler.job \in Jobs
  /\ handler.at = "cleanup" => outcome[handler.job.req] = "failed"

WInv == /\ PInv /\ WorkerHasSlot /\ HandlerJob
        /\ \A r \in Requests : KindOf[r] = "convert" => Whereabouts(r)

LEMMA JobParts ==
  /\ \A r \in Requests, k \in Kinds : Job(r, k).req = r /\ Job(r, k).kind = k /\ Job(r, k) \in Jobs
  /\ \A j \in Jobs : j = Job(j.req, j.kind)
  BY DEF Job, Jobs, Kinds

\* The phases read nothing but what is about the request.
LEMMA WhereFrame ==
  ASSUME NEW r \in Requests, Whereabouts(r),
         req'[r] = req[r], outcome'[r] = outcome[r], Work(r)' = Work(r), Ends(r)' = Ends(r),
         Ends(r) => handler'.failed = handler.failed,
         upload'[IdOf[r]] = upload[IdOf[r]], temp'[IdOf[r]] = temp[IdOf[r]],
         video'[IdOf[r]] = video[IdOf[r]], remote'[IdOf[r]] = remote[IdOf[r]],
         worker'[Job(r, "convert")] = worker[Job(r, "convert")],
         worker'[Job(r, "upload")] = worker[Job(r, "upload")]
  PROVE  Whereabouts(r)'
<1>1. Served(r) => Served(r)' BY DEF Served
<1>2. ConvertLeft(r) => ConvertLeft(r)' BY DEF ConvertLeft, Job
<1>3. UploadLeft(r) => UploadLeft(r)' BY DEF UploadLeft, Job
<1>4. Waits(r) => Waits(r)' BY DEF Waits
<1>5. Converting(r) => Converting(r)' BY <1>2 DEF Converting, Job
<1>6. Uploading(r) => Uploading(r)' BY <1>3 DEF Uploading, Job
<1>7. Finishing(r) => Finishing(r)' BY <1>1 DEF Finishing
<1>8. Ended(r) => Ended(r)' BY <1>1 DEF Ended
<1> QED BY <1>4, <1>5, <1>6, <1>7, <1>8 DEF Whereabouts

LEMMA WorkAsWas ==
  ASSUME channel' = channel, TypeOK, \A h \in Ids : slot'[h].job = slot[h].job
  PROVE  \A r \in Requests : Work(r)' = Work(r)
<1>1. \A j \in Jobs : AtWork(j)' <=> AtWork(j) BY JobTypes DEF AtWork, InChannel, JobId
<1> QED BY <1>1 DEF Work

LEMMA AppendChannel ==
  ASSUME TypeOK, NEW k \in Jobs, channel' = Append(channel, k)
  PROVE  \A j : InChannel(j)' <=> InChannel(j) \/ j = k
<1>1. channel \in Seq(Jobs) /\ Len(channel) \in Nat BY DEF TypeOK
<1>2. /\ DOMAIN channel' = 1 .. Len(channel) + 1 /\ DOMAIN channel = 1 .. Len(channel)
      /\ \A n \in 1 .. Len(channel) : channel'[n] = channel[n]
      /\ channel'[Len(channel) + 1] = k
  BY <1>1
<1> QED BY <1>1, <1>2 DEF InChannel

LEMMA TailChannel ==
  ASSUME TypeOK, channel # <<>>, channel' = Tail(channel)
  PROVE  /\ InChannel(Head(channel)) /\ Head(channel) \in Jobs
         /\ \A j : InChannel(j) => InChannel(j)' \/ j = Head(channel)
         /\ \A j : InChannel(j)' => InChannel(j)
<1>1. channel \in Seq(Jobs) /\ Len(channel) \in Nat /\ Len(channel) # 0 BY DEF TypeOK
<1>2. /\ DOMAIN channel' = 1 .. Len(channel) - 1 /\ DOMAIN channel = 1 .. Len(channel)
      /\ \A n \in 1 .. Len(channel) - 1 : channel'[n] = channel[n + 1]
      /\ channel[1] = Head(channel) /\ Head(channel) \in Jobs
  BY <1>1
<1>3. ASSUME NEW n \in DOMAIN channel, n # 1
      PROVE  n - 1 \in DOMAIN channel' /\ channel'[n - 1] = channel[n]
  <2>1. n - 1 \in 1 .. Len(channel) - 1 /\ n = (n - 1) + 1 BY <1>1, <1>2, <1>3
  <2> QED BY <1>2, <2>1
<1>4. ASSUME NEW n \in DOMAIN channel'
      PROVE  n + 1 \in DOMAIN channel /\ channel'[n] = channel[n + 1]
  BY <1>1, <1>2
<1>5. 1 \in DOMAIN channel BY <1>1, <1>2
<1>6. ASSUME NEW j, InChannel(j), j # Head(channel) PROVE InChannel(j)'
  <2>1. PICK n \in DOMAIN channel : channel[n] = j BY <1>6 DEF InChannel
  <2>2. n # 1 BY <1>2, <1>6, <2>1
  <2> QED BY <1>3, <2>1, <2>2 DEF InChannel
<1>7. ASSUME NEW j, InChannel(j)' PROVE InChannel(j)
  <2>1. PICK n \in DOMAIN channel' : channel'[n] = j BY <1>7 DEF InChannel
  <2> QED BY <1>4, <2>1 DEF InChannel
<1>8. InChannel(Head(channel)) BY <1>2, <1>5 DEF InChannel
<1> QED BY <1>2, <1>6, <1>7, <1>8

\* A job that is sent is at work.
LEMMA WorkSent ==
  ASSUME TypeOK, NEW k \in Jobs, channel' = Append(channel, k), slot' = slot, NEW r \in Requests
  PROVE  Work(r)' = IF r = k.req THEN Work(r) \cup {k} ELSE Work(r)
<1>1. \A j \in Jobs : AtWork(j)' <=> AtWork(j) \/ j = k BY AppendChannel DEF AtWork, JobId
<1> QED BY <1>1 DEF Work

\* A job that is taken from the channel stays at work.
LEMMA WorkTaken ==
  ASSUME TypeOK, StartTask, NEW r \in Requests
  PROVE  Work(r)' = Work(r)
<1> DEFINE k == Head(channel)
           i == JobId(k)
<1>1. /\ channel # <<>> /\ channel' = Tail(channel) /\ slot[i] = NoTask
      /\ slot' = [slot EXCEPT ![i] = [job |-> k, at |-> "new"]]
  BY DEF StartTask
<1>2. /\ InChannel(k) /\ k \in Jobs
      /\ \A j : InChannel(j) => InChannel(j)' \/ j = k
      /\ \A j : InChannel(j)' => InChannel(j)
  BY <1>1, TailChannel
<1> HIDE DEF k
<1>3. i \in Ids BY <1>2, JobTypes
<1>4. slot'[i].job = k /\ (\A h \in Ids : h # i => slot'[h] = slot[h]) BY <1>1, <1>3 DEF TypeOK
<1>5. \A j \in Jobs : slot[i].job # j BY <1>1, PipelineAssumption DEF NoTask
<1>6. ASSUME NEW j \in Jobs PROVE AtWork(j)' <=> AtWork(j)
  <2>1. JobId(j) \in Ids /\ JobId(j)' = JobId(j) BY JobTypes DEF JobId
  <2>2. CASE JobId(j) = i BY <1>2, <1>4, <1>5, <2>1, <2>2 DEF AtWork
  <2>3. CASE JobId(j) # i
    <3>1. j # k BY <2>3
    <3> QED BY <1>2, <1>4, <2>1, <2>3, <3>1 DEF AtWork
  <2> QED BY <2>2, <2>3
<1> QED BY <1>6 DEF Work

\* A task that ends leaves no work of its job, unless it sends another.
LEMMA WorkEnds ==
  ASSUME TypeOK, SlotsPlaced, Apart, NEW i \in Ids, slot[i] # NoTask, slot' = [slot EXCEPT ![i] = NoTask],
         NEW r \in Requests
  PROVE  LET j == slot[i].job IN
         /\ channel' = channel => Work(r)' = Work(r) \ {j}
         /\ \A k \in Jobs : k.req = j.req /\ channel' = Append(channel, k) =>
              Work(r)' = IF r = j.req THEN (Work(r) \ {j}) \cup {k} ELSE Work(r)
<1> DEFINE j == slot[i].job
<1>1. j \in Jobs /\ JobId(j) = i BY SlotJob DEF SlotsPlaced, TypeOK, Tasks
<1>2. slot'[i].job = NoJob /\ (\A h \in Ids : h # i => slot'[h] = slot[h]) BY DEF TypeOK, NoTask
<1>3. \A x \in Jobs : InChannel(x) => JobId(x) # i BY DEF Apart, Queued, InChannel
<1>4. \A x \in Jobs : AtWork(x) /\ JobId(x) = i => x = j BY <1>3 DEF AtWork
<1>5. AtWork(j) BY <1>1 DEF AtWork
<1>6. NoJob \notin Jobs BY PipelineAssumption
<1>7. \A x \in Jobs : JobId(x) \in Ids /\ JobId(x)' = JobId(x) BY JobTypes DEF JobId
<1> HIDE DEF j
<1>8. channel' = channel => \A x \in Jobs : AtWork(x)' <=> AtWork(x) /\ x # j
  <2> SUFFICES ASSUME channel' = channel, NEW x \in Jobs PROVE AtWork(x)' <=> AtWork(x) /\ x # j OBVIOUS
  <2>1. InChannel(x)' <=> InChannel(x) BY DEF InChannel
  <2>2. CASE JobId(x) = i BY <1>2, <1>3, <1>4, <1>6, <1>7, <2>1, <2>2 DEF AtWork
  <2>3. CASE JobId(x) # i BY <1>1, <1>2, <1>7, <2>1, <2>3 DEF AtWork
  <2> QED BY <2>2, <2>3
<1>9. ASSUME NEW k \in Jobs, k.req = j.req, channel' = Append(channel, k), NEW x \in Jobs
      PROVE  AtWork(x)' <=> (AtWork(x) /\ x # j) \/ x = k
  <2>1. InChannel(x)' <=> InChannel(x) \/ x = k BY <1>9, AppendChannel
  <2>2. CASE JobId(x) = i BY <1>2, <1>3, <1>4, <1>6, <1>7, <2>1, <2>2 DEF AtWork
  <2>3. CASE JobId(x) # i BY <1>1, <1>2, <1>7, <2>1, <2>3 DEF AtWork
  <2> QED BY <2>2, <2>3
<1>10. channel' = channel => Work(r)' = Work(r) \ {j} BY <1>8 DEF Work
<1>11. ASSUME NEW k \in Jobs, k.req = j.req, channel' = Append(channel, k)
       PROVE  Work(r)' = IF r = j.req THEN (Work(r) \ {j}) \cup {k} ELSE Work(r)
  BY <1>1, <1>9, <1>11 DEF Work
<1> QED BY <1>10, <1>11 DEF j

LEMMA ContentFull ==
  ASSUME NEW r \in Requests
  PROVE  ContentOf(Full(r)) = r /\ ContentOf(NoUpload) = Nothing
<1>1. (CHOOSE q \in Requests : {r} = {q}) = r OBVIOUS
<1> QED BY <1>1 DEF ContentOf, Full, NoUpload

\* A request changes its own state and its own file.
LEMMA ApiFrame ==
  ASSUME TypeOK, NEW s \in Requests, ApiStep(s)
  PROVE  /\ UNCHANGED <<slot, worker, handler, outcome, temp, video, remote>>
         /\ \A r \in Requests : r # s => req'[r] = req[r]
         /\ \A h \in Ids : h # IdOf[s] => upload'[h] = upload[h]
         /\ SendJob(s) \/ channel' = channel
<1> USE DEF TypeOK, diskVars, taskVars
<1>0. \A c, h : h \in Ids /\ h # IdOf[s] => CloseUpload(s, c)[h] = upload[h] BY DEF CloseUpload
<1>1. CASE CheckExists(s) BY <1>1 DEF CheckExists
<1>2. CASE OpenUpload(s) BY <1>2 DEF OpenUpload
<1>3. CASE ReceiveBody(s) BY <1>0, <1>3 DEF ReceiveBody
<1>4. CASE BeginAdd(s) BY <1>4 DEF BeginAdd
<1>5. CASE EndAdd(s) BY <1>5 DEF EndAdd
<1>6. CASE SendJob(s) BY <1>6 DEF SendJob
<1>7. CASE DropRequest(s) BY <1>0, <1>7 DEF DropRequest
<1> QED BY <1>1, <1>2, <1>3, <1>4, <1>5, <1>6, <1>7 DEF ApiStep

LEMMA ApiWhere ==
  ASSUME WInv, OnceEach, ~MayBreak, NEW s \in Requests, ApiStep(s), NEW r \in Requests, KindOf[r] = "convert"
  PROVE  Whereabouts(r)'
<1> DEFINE i == IdOf[r]
<1>0. TypeOK /\ Whereabouts(r) /\ i \in Ids BY JobTypes DEF WInv, PInv
<1>1. /\ UNCHANGED <<slot, worker, handler, outcome, temp, video, remote>>
      /\ \A q \in Requests : q # s => req'[q] = req[q]
      /\ \A h \in Ids : h # IdOf[s] => upload'[h] = upload[h]
      /\ SendJob(s) \/ channel' = channel
  BY <1>0, ApiFrame
<1>2. Ends(r)' = Ends(r) /\ handler'.failed = handler.failed BY <1>1 DEF Ends
<1>3. ~SendJob(s) => Work(r)' = Work(r) BY <1>0, <1>1, WorkAsWas
<1>4. CASE r # s
  <2>1. i # IdOf[s] BY <1>4 DEF OnceEach
  <2>2. Work(r)' = Work(r)
    <3>1. CASE SendJob(s)
      <4>1. Job(s, KindOf[s]) \in Jobs /\ Job(s, KindOf[s]).req = s BY JobParts, JobTypes
      <4>2. channel' = Append(channel, Job(s, KindOf[s])) BY <3>1 DEF SendJob
      <4> QED BY <1>0, <1>1, <1>4, <4>1, <4>2, WorkSent
    <3> QED BY <1>3, <3>1
  <2> QED BY <1>0, <1>1, <1>2, <1>4, <2>1, <2>2, WhereFrame
<1>5. CASE r = s
  <2>0. req[r] # "accepted" /\ Waits(r)
    <3>1. req[r] # "accepted"
      BY <1>5 DEF ApiStep, CheckExists, OpenUpload, ReceiveBody, BeginAdd, EndAdd, SendJob, DropRequest, InFlight
    <3> QED BY <1>0, <3>1 DEF Whereabouts, Converting, Uploading, Finishing, Ended
  <2>t. req \in [Requests -> ReqStates] /\ upload \in [Ids -> Uploads] BY <1>0 DEF TypeOK
  <2>w. ~SendJob(r) /\ req'[r] # "accepted" =>
          Work(r)' = {} /\ ~Ends(r)' /\ outcome'[r] = "none"
    BY <1>1, <1>2, <1>3, <1>5, <2>0 DEF Waits
  <2> USE <1>5, <2>t
  <2>1. CASE CheckExists(r)
    <3>1. req[r] = "idle" /\ req'[r] \in {"checked", "refused"} /\ upload' = upload
      BY <2>1 DEF CheckExists, diskVars
    <3>2. ~SendJob(r) BY <3>1 DEF SendJob
    <3> QED BY <2>0, <2>w, <3>1, <3>2 DEF Waits, Whereabouts
  <2>2. CASE OpenUpload(r)
    <3>1. upload[i] = NoUpload /\ req[r] = "checked" BY <2>0, <2>2 DEF OpenUpload, Waits
    <3>2. \/ req'[r] = "opened" /\ upload'[i] = Opened(r)
          \/ req'[r] = "refused"
      BY <1>0, <2>2, <3>1 DEF OpenUpload, NoUpload, Opened
    <3>3. ~SendJob(r) BY <3>1 DEF SendJob
    <3> QED BY <2>w, <3>2, <3>3 DEF Waits, Whereabouts
  <2>3. CASE ReceiveBody(r)
    <3>1. upload[i] = Opened(r) /\ req[r] = "opened" BY <2>0, <2>3 DEF ReceiveBody, Waits
    <3>2. CloseUpload(r, r)[i] = Full(r)
      <4>1. upload[i].open = {r} /\ upload[i].has = {} BY <3>1 DEF Opened
      <4>2. {} \cup {r} = {r} /\ {r} \ {r} = {} OBVIOUS
      <4> QED BY <1>0, <4>1, <4>2 DEF CloseUpload, Full
    <3>3. \/ req'[r] = "written" /\ upload'[i] = Full(r)
          \/ req'[r] = "refused"
      BY <2>3, <3>2 DEF ReceiveBody
    <3>4. ~SendJob(r) BY <3>1 DEF SendJob
    <3> QED BY <2>w, <3>3, <3>4 DEF Waits, Whereabouts
  <2>4. CASE BeginAdd(r)
    <3>1. req[r] = "written" /\ req'[r] = "saving" /\ upload' = upload BY <2>4 DEF BeginAdd, diskVars
    <3>2. ~SendJob(r) BY <3>1 DEF SendJob
    <3> QED BY <2>0, <2>w, <3>1, <3>2 DEF Waits, Whereabouts
  <2>5. CASE EndAdd(r)
    <3>1. req[r] = "saving" /\ req'[r] = "saved" /\ upload' = upload BY <2>5 DEF EndAdd, diskVars
    <3>2. ~SendJob(r) BY <3>1 DEF SendJob
    <3> QED BY <2>0, <2>w, <3>1, <3>2 DEF Waits, Whereabouts
  <2>6. CASE SendJob(r)
    <3> DEFINE k == Job(r, "convert")
    <3>1. req[r] = "saved" /\ req'[r] = "accepted" /\ upload' = upload /\ channel' = Append(channel, k)
      BY <2>6 DEF SendJob, diskVars
    <3>2. k \in Jobs /\ k.req = r BY JobParts DEF Kinds
    <3>3. Work(r)' = {k}
      <4>1. Work(r)' = Work(r) \cup {k} BY <1>0, <1>1, <3>1, <3>2, WorkSent
      <4> QED BY <2>0, <4>1 DEF Waits
    <3>4. worker[k] = "none"
      <4>1. k \notin Work(r) BY <2>0 DEF Waits
      <4>2. ~AtWork(k) BY <3>2, <4>1 DEF Work
      <4> QED BY <3>2, <4>2 DEF AtWork, WInv, WorkerHasSlot
    <3>5. upload[i] = Full(r) /\ outcome[r] = "none" /\ ~Ends(r) BY <2>0, <3>1 DEF Waits
    <3>7. ConvertLeft(r)' BY <1>1, <3>1, <3>4, <3>5 DEF ConvertLeft, Job
    <3>8. Converting(r)' BY <1>1, <1>2, <3>1, <3>3, <3>5, <3>7 DEF Converting, Job
    <3> QED BY <3>8 DEF Whereabouts
  <2>7. CASE DropRequest(r)
    <3>1. req[r] # "saved" /\ req'[r] = "dropped" BY <2>7 DEF DropRequest, InFlight
    <3>2. ~SendJob(r) BY <3>1 DEF SendJob
    <3> QED BY <2>w, <3>1, <3>2 DEF Waits, Whereabouts
  <2> QED BY <2>1, <2>2, <2>3, <2>4, <2>5, <2>6, <2>7 DEF ApiStep
<1> QED BY <1>4, <1>5

\* The request whose task or worker moves is being converted or uploaded.
LEMMA WorkPhase ==
  ASSUME NEW r \in Requests, Whereabouts(r), NEW j \in Work(r)
  PROVE  \/ Converting(r) /\ j = Job(r, "convert")
         \/ Uploading(r) /\ j = Job(r, "upload")
  BY DEF Whereabouts, Waits, Converting, Uploading, Finishing, Ended

\* A task that is moved on, or goes back to the channel, keeps its job at work.
LEMMA MovesWhere ==
  ASSUME TypeOK, NEW r \in Requests, Whereabouts(r), NEW j \in Jobs,
         Work(r)' = Work(r), r = j.req => j \in Work(r),
         UNCHANGED <<handler, req, outcome, upload, temp, video, remote>>,
         worker[j] \in {"none", "err"}, worker'[j] \in {"none", "start"},
         \A k \in Jobs : k # j => worker'[k] = worker[k]
  PROVE  Whereabouts(r)'
<1>1. /\ Job(r, "convert") \in Jobs /\ Job(r, "upload") \in Jobs
      /\ Job(r, "convert").req = r /\ Job(r, "upload").req = r
  BY JobParts DEF Kinds
<1>2. Ends(r)' = Ends(r) BY DEF Ends
<1>3. CASE r # j.req
  <2>1. Job(r, "convert") # j /\ Job(r, "upload") # j BY <1>1, <1>3
  <2> QED BY <1>1, <1>2, <2>1, WhereFrame
<1>4. CASE Converting(r) /\ j = Job(r, "convert")
  <2>1. ConvertLeft(r)' BY <1>4 DEF Converting, ConvertLeft, Job
  <2>2. Converting(r)' BY <1>2, <1>4, <2>1 DEF Converting, Job
  <2> QED BY <2>2 DEF Whereabouts
<1>5. CASE Uploading(r) /\ j = Job(r, "upload")
  <2>1. UploadLeft(r)' BY <1>5 DEF Uploading, UploadLeft, Job
  <2>2. Uploading(r)' BY <1>2, <1>5, <2>1 DEF Uploading, Job
  <2> QED BY <2>2 DEF Whereabouts
<1> QED BY <1>3, <1>4, <1>5, WorkPhase

LEMMA TaskWhere ==
  ASSUME WInv, NEW i \in Ids, TaskStep(i), NEW r \in Requests, KindOf[r] = "convert"
  PROVE  Whereabouts(r)'
<1> DEFINE j == slot[i].job
<1>0. /\ TypeOK /\ SlotsPlaced /\ Apart /\ WorkerHasSlot /\ Whereabouts(r)
  BY DEF WInv, PInv, OneJob
<1>1. UNCHANGED <<req, outcome, upload, temp, video, remote>> /\ handler.at = "select"
  BY DEF TaskStep, QueueForPermits, StartWorker, NextJob, JobDone, RetryLater, Retry,
     JobFailed, diskVars
<1>2. slot[i] # NoTask /\ j \in Jobs /\ JobId(j) = i
  BY <1>0, SlotJob DEF TaskStep, QueueForPermits, StartWorker, NextJob, JobDone, RetryLater,
     Retry, JobFailed, NoTask, SlotsPlaced
<1>3. r = j.req => j \in Work(r) BY <1>2 DEF Work, AtWork
<1>4. slot[i].at # "running" => worker[j] = "none"
  BY <1>0, <1>2 DEF WorkerHasSlot
<1>5. ~Ends(r) BY <1>1 DEF Ends
<1>6. worker \in [Jobs -> WorkerStates] /\ slot \in [Ids -> Tasks] BY <1>0 DEF TypeOK
<1>7. CASE QueueForPermits(i) \/ StartWorker(i) \/ RetryLater(i)
  <2>1. channel' = channel /\ handler' = handler /\ \E to \in TaskStates : MoveTask(i, to)
    BY <1>7 DEF QueueForPermits, StartWorker, RetryLater, TaskStates
  <2>2. \A h \in Ids : slot'[h].job = slot[h].job BY <1>6, <2>1 DEF MoveTask
  <2>3. Work(r)' = Work(r) BY <1>0, <2>1, <2>2, WorkAsWas
  <2>4. worker[j] \in {"none", "err"} /\ worker'[j] \in {"none", "start"}
    BY <1>2, <1>4, <1>6, <1>7 DEF QueueForPermits, StartWorker, RetryLater
  <2>5. \A k \in Jobs : k # j => worker'[k] = worker[k]
    BY <1>6, <1>7 DEF QueueForPermits, StartWorker, RetryLater
  <2> QED BY <1>0, <1>1, <1>2, <1>3, <2>1, <2>3, <2>4, <2>5, MovesWhere
<1>8. CASE Retry(i)
  <2>1. /\ channel' = Append(channel, j) /\ slot' = [slot EXCEPT ![i] = NoTask]
        /\ handler' = handler /\ worker' = worker /\ worker[j] = "none"
    BY <1>4, <1>8 DEF Retry, EndTask
  <2>2. Work(r)' = IF r = j.req THEN (Work(r) \ {j}) \cup {j} ELSE Work(r)
    BY <1>0, <1>2, <2>1, WorkEnds
  <2>3. Work(r)' = Work(r) BY <1>3, <2>2
  <2> QED BY <1>0, <1>1, <1>2, <1>3, <2>1, <2>3, MovesWhere
<1>9. CASE NextJob(i)
  <2> DEFINE k == Job(j.req, "upload")
  <2>1. /\ channel' = Append(channel, k) /\ slot' = [slot EXCEPT ![i] = NoTask]
        /\ handler' = handler /\ worker' = [worker EXCEPT ![j] = "none"]
        /\ worker[j] = "ok" /\ j.kind = "convert" /\ IsS3
    BY <1>9 DEF NextJob, EndTask, HasNext
  <2>2. j.req \in Requests /\ k \in Jobs /\ k.req = j.req /\ k.kind = "upload"
    BY <1>2, JobTypes, JobParts DEF Kinds
  <2>3. Work(r)' = IF r = j.req THEN (Work(r) \ {j}) \cup {k} ELSE Work(r)
    BY <1>0, <1>2, <2>1, <2>2, WorkEnds
  <2>4. Ends(r)' = Ends(r) BY <2>1 DEF Ends
  <2>5. CASE r # j.req
    <3>1. /\ Job(r, "convert") \in Jobs /\ Job(r, "upload") \in Jobs
          /\ Job(r, "convert").req = r /\ Job(r, "upload").req = r
      BY JobParts DEF Kinds
    <3>2. Job(r, "convert") # j /\ Job(r, "upload") # j BY <2>5, <3>1
    <3> QED BY <1>0, <1>1, <1>5, <1>6, <2>1, <2>3, <2>4, <2>5, <3>1, <3>2, WhereFrame
  <2>6. CASE r = j.req
    <3>1. Converting(r) /\ j = Job(r, "convert")
      <4>1. Job(r, "upload").kind = "upload" BY JobParts DEF Kinds
      <4> QED BY <1>0, <1>3, <2>1, <2>6, <4>1, WorkPhase
    <3>2. upload[IdOf[r]] = NoUpload /\ video[IdOf[r]] = r
      BY <2>1, <3>1 DEF Converting, ConvertLeft
    <3>3. Work(r)' = {k} BY <2>3, <2>6, <3>1 DEF Converting
    <3>4. k # j BY <2>1, <2>2
    <3>5. worker'[k] = "none"
      <4>1. JobId(k) = i BY <1>2, <2>2 DEF JobId
      <4>2. worker[k] = "none" BY <1>0, <2>2, <3>4, <4>1 DEF WorkerHasSlot
      <4> QED BY <1>6, <2>1, <2>2, <3>4, <4>2
    <3>6. UploadLeft(r)' BY <1>1, <2>6, <3>2, <3>5 DEF UploadLeft, Job
    <3>7. Uploading(r)'
      BY <1>1, <1>5, <2>1, <2>4, <2>6, <3>1, <3>3, <3>6 DEF Uploading, Converting, Job
    <3> QED BY <3>7 DEF Whereabouts
  <2> QED BY <2>5, <2>6
<1>10. CASE JobDone(i) \/ JobFailed(i)
  <2>1. /\ channel' = channel /\ slot' = [slot EXCEPT ![i] = NoTask]
        /\ handler'.at = "remove" /\ handler'.job = j
        /\ worker' = [worker EXCEPT ![j] = "none"]
        /\ \/ worker[j] = "ok" /\ ~(j.kind = "convert" /\ IsS3) /\ handler'.failed = FALSE
           \/ worker[j] = "err" /\ j.kind # "upload" /\ handler'.failed = TRUE
    BY <1>10 DEF JobDone, JobFailed, EndTask, HasNext, MayRetry
  <2>2. Work(r)' = Work(r) \ {j} BY <1>0, <1>2, <2>1, WorkEnds
  <2>3. CASE r # j.req
    <3>1. /\ Job(r, "convert") \in Jobs /\ Job(r, "upload") \in Jobs
          /\ Job(r, "convert").req = r /\ Job(r, "upload").req = r
      BY JobParts DEF Kinds
    <3>2. Job(r, "convert") # j /\ Job(r, "upload") # j BY <2>3, <3>1
    <3>3. Work(r)' = Work(r) BY <2>2, <2>3 DEF Work
    <3>4. Ends(r)' = Ends(r) BY <1>5, <2>1, <2>3 DEF Ends
    <3> QED BY <1>0, <1>1, <1>5, <1>6, <2>1, <3>1, <3>2, <3>3, <3>4, WhereFrame
  <2>4. CASE r = j.req
    <3>1. \/ Converting(r) /\ j = Job(r, "convert")
          \/ Uploading(r) /\ j = Job(r, "upload")
      BY <1>0, <1>3, <2>4, WorkPhase
    <3>2. j = Job(r, "convert") => j.kind = "convert" BY JobParts DEF Kinds
    <3>3. j = Job(r, "upload") => j.kind = "upload" BY JobParts DEF Kinds
    <3>4. req[r] = "accepted" /\ outcome[r] = "none" /\ Work(r)' = {}
      BY <2>2, <3>1 DEF Converting, Uploading
    <3>5. Ends(r)' BY <2>1, <2>4 DEF Ends
    <3>6. handler'.failed = FALSE => Served(r)
      BY <2>1, <3>1, <3>2, <3>3 DEF Converting, ConvertLeft, Uploading, UploadLeft, Served
    <3>7. handler'.failed = TRUE => upload[IdOf[r]] = Full(r)
      BY <2>1, <3>1, <3>2, <3>3 DEF Converting, ConvertLeft
    <3>8. Finishing(r)'
      BY <1>1, <2>1, <3>4, <3>5, <3>6, <3>7 DEF Finishing, Served
    <3> QED BY <3>8 DEF Whereabouts
  <2> QED BY <2>3, <2>4
<1> QED BY <1>7, <1>8, <1>9, <1>10 DEF TaskStep

LEMMA LoopWhere ==
  ASSUME WInv, OnceEach, LoopStep, NEW r \in Requests, KindOf[r] = "convert"
  PROVE  Whereabouts(r)'
<1>0. TypeOK /\ Apart /\ HandlerJob /\ Whereabouts(r) BY DEF WInv, PInv, OneJob
<1>1. UNCHANGED <<req, worker, temp, video, remote>>
  BY DEF LoopStep, StartTask, SkipJob, BeginRemove, EndRemove, Cleanup, diskVars
<1>2. CASE StartTask
  <2>1. UNCHANGED <<handler, outcome, upload>> BY <1>2 DEF StartTask, diskVars
  <2>2. Work(r)' = Work(r) BY <1>0, <1>2, WorkTaken
  <2>3. Ends(r)' = Ends(r) BY <2>1 DEF Ends
  <2> QED BY <1>0, <1>1, <2>1, <2>2, <2>3, WhereFrame
<1>3. CASE SkipJob
  <2>1. channel # <<>> /\ slot[JobId(Head(channel))] # NoTask /\ channel' = Tail(channel)
    BY <1>3 DEF SkipJob
  <2>2. InChannel(Head(channel)) /\ Head(channel) \in Jobs BY <1>0, <2>1, TailChannel
  <2>3. JobId(Head(channel)) \in Ids BY <2>2, JobTypes
  <2> QED BY <1>0, <2>1, <2>2, <2>3 DEF InChannel, Apart, Queued
<1>4. CASE BeginRemove \/ EndRemove \/ Cleanup
  <2>1. channel' = channel /\ slot' = slot
    BY <1>4 DEF BeginRemove, EndRemove, Cleanup
  <2>2. Work(r)' = Work(r) BY <1>0, <2>1, WorkAsWas
  <2>3. CASE BeginRemove
    <3>1. /\ handler.at = "remove" /\ handler'.at = "removing"
          /\ handler'.job = handler.job /\ handler'.failed = handler.failed
          /\ UNCHANGED <<outcome, upload>>
      BY <2>3 DEF BeginRemove, Become, diskVars
    <3>2. Ends(r)' = Ends(r) BY <3>1 DEF Ends
    <3> QED BY <1>0, <1>1, <2>2, <3>1, <3>2, WhereFrame
  <2>4. CASE EndRemove
    <3> DEFINE q == handler.job.req
    <3>1. /\ handler.at = "removing" /\ handler'.at \in {"cleanup", "select"} /\ upload' = upload
          /\ outcome' = [outcome EXCEPT ![q] = IF handler.failed THEN "failed" ELSE "done"]
      BY <2>4 DEF EndRemove, Become, Selecting, diskVars
    <3>2. ~Ends(r)' BY <3>1 DEF Ends
    <3>3. outcome \in [Requests -> {"none", "done", "failed"}] BY <1>0 DEF TypeOK
    <3>4. CASE r = q
      <4>1. Finishing(r)
        <5>1. Ends(r) BY <3>1, <3>4 DEF Ends
        <5> QED BY <1>0, <5>1 DEF Whereabouts, Waits, Converting, Uploading, Ended
      <4>2. outcome'[r] = IF handler.failed THEN "failed" ELSE "done" BY <3>1, <3>3, <3>4
      <4>3. ~handler.failed => Served(r)' BY <1>1, <3>1, <4>1 DEF Finishing, Served
      <4>4. Ended(r)' BY <1>1, <2>2, <3>2, <4>1, <4>2, <4>3 DEF Ended, Finishing
      <4> QED BY <4>4 DEF Whereabouts
    <3>5. CASE r # q
      <4>1. ~Ends(r) BY <3>5 DEF Ends
      <4>2. outcome'[r] = outcome[r] BY <3>1, <3>3, <3>5
      <4>3. Ends(r)' = Ends(r) BY <3>2, <4>1 DEF Ends
      <4> QED BY <1>0, <1>1, <2>2, <3>1, <4>1, <4>2, <4>3, WhereFrame
    <3> QED BY <3>4, <3>5
  <2>5. CASE Cleanup
    <3> DEFINE q == handler.job.req
    <3>1. /\ handler.at = "cleanup" /\ handler'.at = "select" /\ outcome' = outcome
          /\ upload' = [upload EXCEPT ![IdOf[q]] = NoUpload]
      BY <2>5 DEF Cleanup, Selecting, JobId
    <3>2. ~Ends(r)' /\ ~Ends(r) BY <3>1 DEF Ends
    <3>3. q \in Requests /\ outcome[q] = "failed" BY <1>0, <3>1, JobTypes DEF HandlerJob
    <3>4. CASE r = q
      <4>1. Ended(r) BY <1>0, <3>3, <3>4 DEF Whereabouts, Waits, Converting, Uploading, Finishing
      <4>2. Ended(r)' BY <1>1, <2>2, <3>1, <3>2, <3>3, <3>4, <4>1 DEF Ended
      <4> QED BY <4>2 DEF Whereabouts
    <3>5. CASE r # q
      <4>1. IdOf[r] # IdOf[q] /\ IdOf[r] \in Ids BY <3>3, <3>5, JobTypes DEF OnceEach
      <4>2. upload'[IdOf[r]] = upload[IdOf[r]] BY <1>0, <3>1, <4>1 DEF TypeOK
      <4>3. Ends(r)' = Ends(r) BY <3>2 DEF Ends
      <4> QED BY <1>0, <1>1, <2>2, <3>1, <3>2, <4>2, <4>3, WhereFrame
    <3> QED BY <3>4, <3>5
  <2> QED BY <1>4, <2>3, <2>4, <2>5
<1> QED BY <1>2, <1>3, <1>4 DEF LoopStep

\* A worker changes its own phase and the files of its own id.
LEMMA WorkerFrame ==
  ASSUME TypeOK, NEW k \in Jobs, WorkerStep(k)
  PROVE  /\ UNCHANGED <<storeVars, taskVars, req, adder, crashes>> /\ worker[k] # "none"
         /\ \A x \in Jobs : x # k => worker'[x] = worker[x]
         /\ \A h \in Ids : h # JobId(k) =>
              /\ upload'[h] = upload[h] /\ temp'[h] = temp[h]
              /\ video'[h] = video[h] /\ remote'[h] = remote[h]
<1> USE DEF TypeOK, diskVars, Move
<1>1. CASE ConvertPrepare(k) BY <1>1 DEF ConvertPrepare
<1>2. CASE ConvertEncode(k) BY <1>2 DEF ConvertEncode
<1>3. CASE ConvertPublish(k) BY <1>3 DEF ConvertPublish
<1>4. CASE ConvertUnlink(k) BY <1>4 DEF ConvertUnlink
<1>5. CASE UploadSend(k) BY <1>5 DEF UploadSend
<1>6. CASE UploadFails(k) BY <1>6 DEF UploadFails
<1>7. CASE UploadPurge(k) BY <1>7 DEF UploadPurge
<1>8. CASE MigrateCopy(k) BY <1>8 DEF MigrateCopy
<1> QED BY <1>1, <1>2, <1>3, <1>4, <1>5, <1>6, <1>7, <1>8 DEF WorkerStep

\* Every step of a convert leaves the video where the next one looks for it.
LEMMA ConvertWhere ==
  ASSUME TypeOK, NEW r \in Requests, ConvertLeft(r), WorkerStep(Job(r, "convert"))
  PROVE  ConvertLeft(r)'
<1> DEFINE k == Job(r, "convert")
           i == IdOf[r]
<1>0. k \in Jobs /\ k.kind = "convert" /\ JobId(k) = i /\ i \in Ids /\ WorkerStep(k)
  BY JobParts, JobTypes DEF Kinds, JobId
<1>1. /\ worker \in [Jobs -> WorkerStates] /\ upload \in [Ids -> Uploads]
      /\ temp \in [Ids -> Contents] /\ video \in [Ids -> Contents]
  BY DEF TypeOK
<1>2. /\ upload[i] = IF worker[k] = "ok" THEN NoUpload ELSE Full(r)
      /\ worker[k] = "publish" => temp[i] = r
      /\ worker[k] \in {"unlink", "ok"} => video[i] = r
  BY DEF ConvertLeft
<1>3. SUFFICES /\ upload'[i] = IF worker'[k] = "ok" THEN NoUpload ELSE Full(r)
               /\ worker'[k] = "publish" => temp'[i] = r
               /\ worker'[k] \in {"unlink", "ok"} => video'[i] = r
  BY DEF ConvertLeft, Job
<1> HIDE DEF k
<1>4. CASE ConvertPrepare(k) BY <1>0, <1>1, <1>2, <1>4 DEF ConvertPrepare, Move
<1>5. CASE ConvertEncode(k)
  <2>1. worker[k] = "encode" /\ upload[i] = Full(r) BY <1>2, <1>5 DEF ConvertEncode
  <2>2. ContentOf(upload[i]) = r BY <2>1, ContentFull
  <2>3. /\ upload' = upload
        /\ \/ worker'[k] = "publish" /\ temp'[i] = r
           \/ worker'[k] = "err"
    BY <1>0, <1>1, <1>5, <2>2 DEF ConvertEncode, Move
  <2> QED BY <2>1, <2>3
<1>6. CASE ConvertPublish(k) BY <1>0, <1>1, <1>2, <1>6 DEF ConvertPublish, Move
<1>7. CASE ConvertUnlink(k) BY <1>0, <1>1, <1>2, <1>7 DEF ConvertUnlink, Move
<1> QED BY <1>0, <1>4, <1>5, <1>6, <1>7
    DEF WorkerStep, UploadSend, UploadFails, UploadPurge, MigrateCopy

\* So does every step of an upload.
LEMMA UploadWhere ==
  ASSUME TypeOK, NEW r \in Requests, UploadLeft(r), WorkerStep(Job(r, "upload"))
  PROVE  UploadLeft(r)'
<1> DEFINE k == Job(r, "upload")
           i == IdOf[r]
<1>0. k \in Jobs /\ k.kind = "upload" /\ JobId(k) = i /\ i \in Ids /\ WorkerStep(k)
  BY JobParts, JobTypes DEF Kinds, JobId
<1>1. /\ worker \in [Jobs -> WorkerStates] /\ remote \in [Ids -> Contents]
      /\ video \in [Ids -> Contents]
  BY DEF TypeOK
<1>2. /\ upload[i] = NoUpload
      /\ video[i] = IF worker[k] = "ok" THEN Nothing ELSE r
      /\ worker[k] \in {"purge", "ok"} => remote[i] = r
  BY DEF UploadLeft
<1>3. SUFFICES /\ upload'[i] = NoUpload
               /\ video'[i] = IF worker'[k] = "ok" THEN Nothing ELSE r
               /\ worker'[k] \in {"purge", "ok"} => remote'[i] = r
  BY DEF UploadLeft, Job
<1> HIDE DEF k
<1>4. CASE UploadSend(k) BY <1>0, <1>1, <1>2, <1>4 DEF UploadSend, Move
<1>5. CASE UploadFails(k) BY <1>0, <1>1, <1>2, <1>5 DEF UploadFails, Move
<1>6. CASE UploadPurge(k) BY <1>0, <1>1, <1>2, <1>6 DEF UploadPurge, Move
<1> QED BY <1>0, <1>4, <1>5, <1>6
    DEF WorkerStep, ConvertPrepare, ConvertEncode, ConvertPublish, ConvertUnlink, MigrateCopy

LEMMA WorkerWhere ==
  ASSUME WInv, OnceEach, NEW k \in Jobs, WorkerStep(k), NEW r \in Requests, KindOf[r] = "convert"
  PROVE  Whereabouts(r)'
<1>0. TypeOK /\ WorkerHasSlot /\ Whereabouts(r) BY DEF WInv, PInv
<1>1. /\ UNCHANGED <<channel, slot, handler, outcome, req>> /\ worker[k] # "none"
      /\ \A x \in Jobs : x # k => worker'[x] = worker[x]
      /\ \A h \in Ids : h # JobId(k) =>
           /\ upload'[h] = upload[h] /\ temp'[h] = temp[h]
           /\ video'[h] = video[h] /\ remote'[h] = remote[h]
  BY <1>0, WorkerFrame DEF taskVars
<1>2. Work(r)' = Work(r) BY <1>0, <1>1, WorkAsWas
<1>3. Ends(r)' = Ends(r) BY <1>1 DEF Ends
<1>4. k.req \in Requests /\ IdOf[r] \in Ids BY JobTypes
<1>5. CASE r # k.req
  <2>1. IdOf[r] # JobId(k) BY <1>4, <1>5 DEF OnceEach, JobId
  <2>2. /\ Job(r, "convert") \in Jobs /\ Job(r, "upload") \in Jobs
        /\ Job(r, "convert").req = r /\ Job(r, "upload").req = r
    BY JobParts DEF Kinds
  <2>3. Job(r, "convert") # k /\ Job(r, "upload") # k BY <1>5, <2>2
  <2> QED BY <1>0, <1>1, <1>2, <1>3, <1>4, <2>1, <2>2, <2>3, WhereFrame
<1>6. CASE r = k.req
  <2>1. k \in Work(r) BY <1>0, <1>1, <1>6 DEF WorkerHasSlot, Work, AtWork
  <2>2. CASE Converting(r) /\ k = Job(r, "convert")
    <3>1. ConvertLeft(r)' BY <1>0, <2>2, ConvertWhere DEF Converting
    <3>2. Converting(r)' BY <1>1, <1>2, <1>3, <2>2, <3>1 DEF Converting, Job
    <3> QED BY <3>2 DEF Whereabouts
  <2>3. CASE Uploading(r) /\ k = Job(r, "upload")
    <3>1. UploadLeft(r)' BY <1>0, <2>3, UploadWhere DEF Uploading
    <3>2. Uploading(r)' BY <1>1, <1>2, <1>3, <2>3, <3>1 DEF Uploading, Job
    <3> QED BY <3>2 DEF Whereabouts
  <2> QED BY <1>0, <2>1, <2>2, <2>3, WorkPhase
<1> QED BY <1>5, <1>6

\* The steps of the store and of the futures that record uploads touch no file
\* of a request.
LEMMA OthersWhere ==
  ASSUME WInv, NEW r \in Requests, KindOf[r] = "convert",
         \/ \E q \in Requests : AdderBegin(q) \/ AdderEnd(q)
         \/ \E a \in Actors : SaveStep(a)
         \/ UNCHANGED vars
  PROVE  Whereabouts(r)'
<1>0. TypeOK /\ Whereabouts(r) BY DEF WInv, PInv
<1>1. UNCHANGED <<channel, slot, handler, outcome, req, worker, upload, temp, video, remote>>
  BY DEF AdderBegin, AdderEnd, SaveStep, diskVars, taskVars, vars
<1>2. Work(r)' = Work(r) BY <1>0, <1>1, WorkAsWas
<1>3. Ends(r)' = Ends(r) BY <1>1 DEF Ends
<1> QED BY <1>0, <1>1, <1>2, <1>3, WhereFrame

\* The handler is busy with a job, and cleans up only after a failed one.
LEMMA HandlerStep ==
  ASSUME WInv, MaxCrashes = 0, [Next]_vars
  PROVE  HandlerJob'
<1>0. TypeOK /\ SlotsPlaced /\ HandlerJob BY DEF WInv, PInv
<1>1. CASE UNCHANGED <<handler, outcome>> BY <1>0, <1>1 DEF HandlerJob
<1>2. ASSUME NEW i \in Ids, TaskStep(i) PROVE HandlerJob'
  <2>1. CASE JobDone(i) \/ JobFailed(i)
    <3>1. slot[i].job \in Jobs
      BY <1>0, <2>1, SlotJob DEF JobDone, JobFailed, NoTask, SlotsPlaced
    <3>2. handler'.at = "remove" /\ handler'.job = slot[i].job
      BY <2>1 DEF JobDone, JobFailed
    <3> QED BY <3>1, <3>2 DEF HandlerJob
  <2>2. CASE ~(JobDone(i) \/ JobFailed(i))
    BY <1>1, <1>2, <2>2 DEF TaskStep, QueueForPermits, StartWorker, NextJob, RetryLater, Retry
  <2> QED BY <2>1, <2>2
<1>3. CASE LoopStep
  <2>1. CASE StartTask \/ SkipJob BY <1>1, <2>1 DEF StartTask, SkipJob
  <2>2. CASE BeginRemove
    <3>1. handler'.at = "removing" /\ handler'.job = handler.job /\ handler.at = "remove"
      BY <2>2 DEF BeginRemove, Become
    <3> QED BY <1>0, <3>1 DEF HandlerJob
  <2>3. CASE EndRemove
    <3>1. \/ handler'.at = "select"
          \/ handler'.at = "cleanup" /\ handler'.job = handler.job /\ handler.failed
      BY <2>3 DEF EndRemove, Become, Selecting
    <3>2. handler.at = "removing" /\ handler.job \in Jobs
      BY <1>0, <2>3 DEF EndRemove, HandlerJob
    <3>3. handler.failed => outcome'[handler.job.req] = "failed"
      BY <1>0, <2>3, <3>2, JobTypes DEF EndRemove, TypeOK
    <3> QED BY <3>1, <3>2, <3>3 DEF HandlerJob
  <2>4. CASE Cleanup BY <2>4 DEF Cleanup, Selecting, HandlerJob
  <2> QED BY <1>3, <2>1, <2>2, <2>3, <2>4 DEF LoopStep
<1>4. CASE Restart BY <1>0, <1>4 DEF Restart, TypeOK
<1>5. ASSUME NEW r \in Requests, ApiStep(r) PROVE HandlerJob'
  BY <1>0, <1>1, <1>5, ApiFrame
<1>6. ASSUME NEW j \in Jobs, WorkerStep(j) PROVE HandlerJob'
  BY <1>0, <1>1, <1>6, WorkerFrame DEF taskVars
<1>7. CASE \/ \E q \in Requests : AdderBegin(q) \/ AdderEnd(q)
           \/ \E a \in Actors : SaveStep(a)
           \/ UNCHANGED vars
  BY <1>1, <1>7 DEF AdderBegin, AdderEnd, SaveStep, taskVars, vars
<1> QED BY <1>2, <1>3, <1>4, <1>5, <1>6, <1>7 DEF Next

LEMMA WInvInit == Init => WInv
<1> SUFFICES ASSUME Init PROVE WorkerHasSlot /\ HandlerJob /\ \A r \in Requests : Waits(r)
  BY PInvInit DEF WInv, Whereabouts
<1>1. WorkerHasSlot BY DEF Init, WorkerHasSlot, SlotsPlaced
<1>2. HandlerJob /\ \A r : ~Ends(r) BY DEF Init, Selecting, HandlerJob, Ends
<1>3. \A j \in Jobs : ~AtWork(j)
  BY JobTypes, PipelineAssumption DEF Init, AtWork, InChannel, JobId, NoTask
<1>4. \A r \in Requests : req[r] = "idle" /\ outcome[r] = "none" /\ upload[IdOf[r]] = NoUpload
  BY JobTypes DEF Init
<1>5. \A r \in Requests : Waits(r) BY <1>2, <1>3, <1>4 DEF Waits, Work
<1> QED BY <1>1, <1>2, <1>5

LEMMA WInvStep ==
  ASSUME WInv, OnceEach, MaxCrashes = 0, ~MayBreak, [Next]_vars
  PROVE  WInv'
<1>0. PInv /\ TypeOK /\ WorkerHasSlot BY DEF WInv, PInv
<1>1. PInv' BY <1>0, PInvStep DEF NoOverlap
<1>2. WorkerHasSlot' BY <1>0, WorkerHasSlotStep
<1>3. HandlerJob' BY HandlerStep
<1>4. ASSUME NEW r \in Requests, KindOf[r] = "convert" PROVE Whereabouts(r)'
  <2>1. ~Restart BY <1>0 DEF Restart, TypeOK
  <2> QED BY <1>4, <2>1, ApiWhere, TaskWhere, LoopWhere, WorkerWhere, OthersWhere DEF Next
<1> QED BY <1>1, <1>2, <1>3, <1>4 DEF WInv

\* If every id is submitted once, nothing crashes and no body breaks off, then,
\* whatever fails, is retried or is dropped, the video of an accepted request
\* that has not finally failed is in the upload directory, published or in the
\* bucket.
THEOREM SourceKept ==
  ASSUME OnceEach, MaxCrashes = 0, ~MayBreak
  PROVE  Spec => []NoSourceLoss
<1>1. WInv /\ [Next]_vars => WInv' BY WInvStep
<1>2. WInv => NoSourceLoss
  <2> SUFFICES ASSUME WInv, NEW r \in Requests, KindOf[r] = "convert", req[r] = "accepted",
                      outcome[r] # "failed"
               PROVE  r \in {ContentOf(upload[IdOf[r]]), video[IdOf[r]], remote[IdOf[r]]}
    BY DEF NoSourceLoss
  <2>1. Whereabouts(r) /\ ~Waits(r) BY DEF WInv, Waits
  <2>2. upload[IdOf[r]] = Full(r) => ContentOf(upload[IdOf[r]]) = r BY ContentFull
  <2>3. Served(r) => r \in {video[IdOf[r]], remote[IdOf[r]]} BY DEF Served
  <2>4. Converting(r) => upload[IdOf[r]] = Full(r) \/ video[IdOf[r]] = r
    BY DEF Converting, ConvertLeft
  <2>5. Uploading(r) => video[IdOf[r]] = r \/ remote[IdOf[r]] = r
    BY DEF Uploading, UploadLeft
  <2>6. Finishing(r) => upload[IdOf[r]] = Full(r) \/ Served(r) BY DEF Finishing
  <2>7. Ended(r) => Served(r)
    <3>1. outcome[r] \in {"none", "done", "failed"} BY DEF WInv, PInv, TypeOK
    <3> QED BY <3>1 DEF Ended
  <2> QED BY <2>1, <2>2, <2>3, <2>4, <2>5, <2>6, <2>7 DEF Whereabouts
<1> QED BY <1>1, <1>2, WInvInit, PTL DEF Spec

\* Under the same assumptions a job is reported done only when its own video is
\* where it is served from and nothing of its input is left.
THEOREM DoneServed ==
  ASSUME OnceEach, MaxCrashes = 0, ~MayBreak
  PROVE  Spec => []DoneIsServed
<1>1. WInv /\ [Next]_vars => WInv' BY WInvStep
<1>2. WInv => DoneIsServed
  <2> SUFFICES ASSUME WInv, NEW r \in Requests, KindOf[r] = "convert", outcome[r] = "done"
               PROVE  /\ ContentOf(upload[IdOf[r]]) = Nothing
                      /\ IF IsS3 THEN remote[IdOf[r]] = r /\ video[IdOf[r]] = Nothing
                                 ELSE video[IdOf[r]] = r
    BY DEF DoneIsServed
  <2>1. Whereabouts(r) BY DEF WInv
  <2>2. Served(r) BY <2>1 DEF Whereabouts, Waits, Converting, Uploading, Finishing, Ended
  <2> QED BY <2>2, ContentFull DEF Served
<1> QED BY <1>1, <1>2, WInvInit, PTL DEF Spec

-------------------------------------------------------------------------------
(* Whose bytes are published, when crashes may happen and ids may be used  *)
(* again, but no save fails or is cut off and every body is received.      *)

Steady == NoOverlap /\ ~MayDrop /\ ~MayFail /\ ~MayBreak

\* Without failed or detached saves the file is behind memory only while the
\* holder of the mutex writes it.
Sync ==
  /\ \A a \in Actors : flight[a].stage # "none" => lock = a /\ flight[a].jobs = jobs
  /\ \A a \in Actors : flight[a].stage = "opened" => file = Store!Blank
  /\ (\A a \in Actors : flight[a].stage = "none") => Store!Load(file) = jobs

ConvertJobs == {j \in Jobs : j.kind = "convert"}

\* A convert of i is pending, would be after a crash, or is at work.
Recorded(i) ==
  \/ jobs[i] \in ConvertJobs
  \/ Store!Load(file)[i] \in ConvertJobs
  \/ \E j \in ConvertJobs : JobId(j) = i /\ AtWork(j)

Whole(u) == u = NoUpload \/ \E q \in Requests : u = Full(q)

\* What a convert may find in uploads/<id>: an upload that is under way, or was
\* when the process died, is never that of an id with a convert on record.
Uploaded ==
  /\ \A i \in Ids : Recorded(i) => Whole(upload[i])
  /\ \A i \in Ids : \A q \in upload[i].open : req[q] = "opened" /\ IdOf[q] = i
  /\ \A r \in Requests :
       /\ req[r] \in {"checked", "opened"} => ~Recorded(IdOf[r])
       /\ req[r] = "opened" => upload[IdOf[r]] \in {Opened(r), NoUpload}
       /\ req[r] = "written" => Whole(upload[IdOf[r]])
       /\ req[r] \in {"saving", "saved"} /\ KindOf[r] = "convert" => Whole(upload[IdOf[r]])

Made ==
  /\ \A j \in ConvertJobs : worker[j] = "publish" => temp[JobId(j)] # Torn
  /\ \A i \in Ids : video[i] # Torn

VInv == PInv /\ WorkerHasSlot /\ Sync /\ Uploaded /\ Made

LEMMA SyncChange ==
  ASSUME TypeOK, Sync, NEW a \in Actors, NEW s, Store!Change(a, s)
  PROVE  Sync' /\ jobs' = s /\ file' = file
<1>1. \A b \in Actors : flight[b].stage = "none" BY FreeAssumption DEF Sync, Store!Change
<1>2. /\ lock' = a /\ jobs' = s /\ file' = file
      /\ flight'[a] = [stage |-> "queued", jobs |-> s]
      /\ \A b \in Actors : b # a => flight'[b] = flight[b]
  BY DEF Store!Change, TypeOK, Store!StoreTypeOK
<1>3. /\ \A b \in Actors : flight'[b].stage # "none" => lock' = b /\ flight'[b].jobs = jobs'
      /\ \A b \in Actors : flight'[b].stage # "opened"
      /\ ~\A b \in Actors : flight'[b].stage = "none"
  BY <1>1, <1>2
<1> QED BY <1>2, <1>3 DEF Sync

LEMMA SyncSave ==
  ASSUME TypeOK, Sync, ~MayFail, NEW a \in Actors, Store!OpenFile(a) \/ Store!WriteFile(a)
  PROVE  /\ Sync' /\ jobs' = jobs
         /\ Store!Load(file') \in {Store!NoJobs, jobs}
<1>1. flight[a].stage # "none" /\ lock = a /\ flight[a].jobs = jobs /\ lock' = lock /\ jobs' = jobs
  BY DEF Sync, Store!OpenFile, Store!WriteFile
<1>2. \A b \in Actors : b # a => flight[b].stage = "none" BY <1>1 DEF Sync
<1>3. CASE Store!OpenFile(a)
  <2>1. /\ file' = Store!Blank /\ flight'[a].stage = "opened" /\ flight'[a].jobs = jobs
        /\ \A b \in Actors : b # a => flight'[b] = flight[b]
    BY <1>1, <1>3 DEF Store!OpenFile, TypeOK, Store!StoreTypeOK
  <2>2. Store!Load(file') = Store!NoJobs BY <2>1 DEF Store!Load, Store!Blank
  <2>3. Sync' BY <1>1, <1>2, <2>1 DEF Sync, Store!Blank, Store!NoJobs
  <2> QED BY <1>1, <2>2, <2>3
<1>4. CASE Store!WriteFile(a)
  <2>1. file.text = "blank" BY <1>4 DEF Store!WriteFile, Sync, Store!Blank
  <2>2. /\ file' = Store!Json(jobs) /\ flight'[a].stage = "none"
        /\ \A b \in Actors : b # a => flight'[b] = flight[b]
    BY <1>1, <1>4, <2>1 DEF Store!WriteFile, TypeOK, Store!StoreTypeOK, Store!NoWrite
  <2>3. Store!Load(file') = jobs BY <2>2 DEF Store!Load, Store!Json
  <2>4. \A b \in Actors : flight'[b].stage = "none" BY <1>2, <2>2
  <2>5. Sync' BY <1>1, <2>3, <2>4 DEF Sync
  <2> QED BY <1>1, <2>3, <2>5
<1> QED BY <1>3, <1>4

LEMMA SyncUnlock ==
  ASSUME TypeOK, Sync, NEW a \in Actors, Store!Unlock(a)
  PROVE  Sync' /\ jobs' = jobs /\ file' = file
<1>1. lock = a /\ flight[a].stage = "none" /\ UNCHANGED <<jobs, file, flight>>
  BY DEF Store!Unlock
<1>2. \A b \in Actors : flight[b].stage = "none" BY <1>1 DEF Sync
<1> QED BY <1>1, <1>2 DEF Sync, Store!Blank, Store!NoJobs

LEMMA SyncStutter ==
  ASSUME Sync, UNCHANGED storeVars
  PROVE  Sync' /\ jobs' = jobs /\ file' = file
  BY DEF Sync, storeVars, Store!Blank, Store!NoJobs

LEMMA SyncReload ==
  ASSUME Store!Reload
  PROVE  Sync' /\ jobs' = Store!Load(file) /\ file' = file
<1>1. /\ jobs' = Store!Load(file) /\ file' = file
      /\ \A a \in Actors : flight'[a].stage = "none"
  BY DEF Store!Reload, Store!NoWrite
<1>2. Store!Load(file)' = Store!Load(file) BY <1>1 DEF Store!Load, Store!NoJobs
<1> QED BY <1>1, <1>2 DEF Sync

LEMMA RecordedBack ==
  ASSUME \A i \in Ids : jobs'[i] \in ConvertJobs => Recorded(i),
         \A i \in Ids : Store!Load(file')[i] \in ConvertJobs => Recorded(i),
         \A j \in ConvertJobs : AtWork(j)' => AtWork(j)
  PROVE  \A i \in Ids : Recorded(i)' => Recorded(i)
  BY DEF Recorded, JobId, Store!Load, Store!NoJobs

\* A step that puts no convert on record, moves no request and at most removes
\* uploads keeps what is known of them.
LEMMA UploadedFrame ==
  ASSUME Uploaded, \A i \in Ids : Recorded(i)' => Recorded(i), req' = req,
         \A i \in Ids : upload'[i] \in {upload[i], NoUpload}
  PROVE  Uploaded'
<1> USE JobTypes DEF Uploaded
<1>1. \A i \in Ids : Whole(upload[i]) => Whole(upload'[i]) BY DEF Whole
<1>3. \A i \in Ids : Recorded(i)' => Whole(upload'[i]) BY <1>1
<1>4. \A i \in Ids : \A q \in upload'[i].open : req'[q] = "opened" /\ IdOf[q] = i
  BY DEF NoUpload
<1>5. ASSUME NEW r \in Requests
      PROVE  /\ req'[r] \in {"checked", "opened"} => ~Recorded(IdOf[r])'
             /\ req'[r] = "opened" => upload'[IdOf[r]] \in {Opened(r), NoUpload}
             /\ req'[r] = "written" => Whole(upload'[IdOf[r]])
             /\ req'[r] \in {"saving", "saved"} /\ KindOf[r] = "convert" =>
                  Whole(upload'[IdOf[r]])
  BY <1>1
<1> QED BY <1>3, <1>4, <1>5 DEF Whole, Full, Opened, NoUpload

\* A task brings no convert to work.
LEMMA TaskRecords ==
  ASSUME PInv, NEW i \in Ids, TaskStep(i), NEW x \in ConvertJobs, AtWork(x)'
  PROVE  AtWork(x)
<1> DEFINE j == slot[i].job
           r == x.req
<1>0. TypeOK /\ SlotsPlaced /\ Apart BY DEF PInv, OneJob
<1>1. x \in Jobs /\ x.kind = "convert" /\ r \in Requests BY JobTypes DEF ConvertJobs
<1>2. slot[i] # NoTask /\ j \in Jobs /\ JobId(j) = i
  BY <1>0, SlotJob DEF TaskStep, QueueForPermits, StartWorker, NextJob, JobDone, RetryLater,
     Retry, JobFailed, NoTask, SlotsPlaced
<1>3. AtWork(j) BY <1>2 DEF AtWork
<1>4. (x \in Work(r)') /\ (x \in Work(r) => AtWork(x)) BY <1>1 DEF Work
<1>5. j \in Work(j.req) BY <1>2, <1>3 DEF Work
<1> HIDE DEF r
<1>6. CASE QueueForPermits(i) \/ StartWorker(i) \/ RetryLater(i)
  <2>1. channel' = channel /\ \E to \in TaskStates : MoveTask(i, to)
    BY <1>6 DEF QueueForPermits, StartWorker, RetryLater, TaskStates
  <2>2. \A h \in Ids : slot'[h].job = slot[h].job BY <1>0, <2>1 DEF MoveTask, TypeOK
  <2> QED BY <1>0, <1>1, <1>4, <2>1, <2>2, WorkAsWas
<1>7. CASE JobDone(i) \/ JobFailed(i)
  <2>1. channel' = channel /\ slot' = [slot EXCEPT ![i] = NoTask]
    BY <1>7 DEF JobDone, JobFailed, EndTask
  <2>2. Work(r)' = Work(r) \ {j} BY <1>0, <1>1, <1>2, <2>1, WorkEnds
  <2> QED BY <1>4, <2>2
<1>8. CASE NextJob(i) \/ Retry(i)
  <2> DEFINE k == IF NextJob(i) THEN Job(j.req, "upload") ELSE j
  <2>1. channel' = Append(channel, k) /\ slot' = [slot EXCEPT ![i] = NoTask]
    BY <1>8 DEF NextJob, Retry, EndTask
  <2>2. k \in Jobs /\ k.req = j.req /\ (k = j \/ k.kind = "upload")
    BY <1>2, JobTypes, JobParts DEF Kinds
  <2> HIDE DEF k
  <2>3. Work(r)' = IF r = j.req THEN (Work(r) \ {j}) \cup {k} ELSE Work(r)
    BY <1>0, <1>1, <1>2, <2>1, <2>2, WorkEnds
  <2>4. x \in Work(r) \/ x = j BY <1>1, <1>4, <2>2, <2>3
  <2> QED BY <1>3, <1>4, <2>4
<1> QED BY <1>6, <1>7, <1>8 DEF TaskStep

\* Nor does the handler's loop.
LEMMA LoopRecords ==
  ASSUME PInv, LoopStep, NEW x \in ConvertJobs, AtWork(x)'
  PROVE  AtWork(x)
<1> DEFINE r == x.req
<1>0. TypeOK BY DEF PInv
<1>1. x \in Jobs /\ r \in Requests BY JobTypes DEF ConvertJobs
<1>2. (x \in Work(r)') /\ (x \in Work(r) => AtWork(x)) BY <1>1 DEF Work
<1>3. CASE StartTask
  <2>1. Work(r)' = Work(r) BY <1>0, <1>1, <1>3, WorkTaken
  <2> QED BY <1>2, <2>1
<1>4. CASE SkipJob
  <2>1. channel # <<>> /\ channel' = Tail(channel) /\ slot' = slot BY <1>4 DEF SkipJob
  <2>2. InChannel(x)' => InChannel(x) BY <1>0, <2>1, TailChannel
  <2> QED BY <2>1, <2>2 DEF AtWork, JobId
<1>5. CASE BeginRemove \/ EndRemove \/ Cleanup
  <2>1. channel' = channel /\ slot' = slot BY <1>5 DEF BeginRemove, EndRemove, Cleanup
  <2>2. Work(r)' = Work(r) BY <1>0, <1>1, <2>1, WorkAsWas
  <2> QED BY <1>2, <2>2
<1> QED BY <1>3, <1>4, <1>5 DEF LoopStep

LEMMA TaskUploaded ==
  ASSUME VInv, NEW i \in Ids, TaskStep(i)
  PROVE  Sync' /\ Uploaded'
<1>0. PInv /\ TypeOK /\ Sync /\ Uploaded BY DEF VInv, PInv
<1>1. UNCHANGED <<storeVars, req, upload>>
  BY DEF TaskStep, QueueForPermits, StartWorker, NextJob, JobDone, RetryLater, Retry,
     JobFailed, diskVars
<1>2. Sync' /\ jobs' = jobs /\ file' = file BY <1>0, <1>1, SyncStutter
<1>3. \A h \in Ids : Recorded(h)' => Recorded(h)
  <2>1. \A x \in ConvertJobs : AtWork(x)' => AtWork(x) BY <1>0, TaskRecords
  <2> QED BY <1>2, <2>1, RecordedBack DEF Recorded
<1> QED BY <1>0, <1>1, <1>2, <1>3, UploadedFrame

LEMMA LoopUploaded ==
  ASSUME VInv, LoopStep
  PROVE  Sync' /\ Uploaded'
<1>0. PInv /\ TypeOK /\ Sync /\ Uploaded BY DEF VInv, PInv
<1>l. Loop \in Actors BY DEF Actors
<1>1. req' = req BY DEF LoopStep, StartTask, SkipJob, BeginRemove, EndRemove, Cleanup
<1>2. \A i \in Ids : upload'[i] \in {upload[i], NoUpload}
  <2>1. CASE Cleanup BY <1>0, <2>1 DEF Cleanup, TypeOK
  <2>2. CASE ~Cleanup
    BY <2>2 DEF LoopStep, StartTask, SkipJob, BeginRemove, EndRemove, diskVars
  <2> QED BY <2>1, <2>2
<1>3. /\ Sync' /\ file' = file
      /\ \A i \in Ids : jobs'[i] \in ConvertJobs => jobs[i] \in ConvertJobs
  <2>1. CASE BeginRemove
    <3> DEFINE s == [jobs EXCEPT ![JobId(handler.job)] = NoJob]
    <3>1. Store!Change(Loop, s) BY <2>1 DEF BeginRemove, Store!Remove
    <3>2. Sync' /\ jobs' = s /\ file' = file BY <1>0, <1>l, <3>1, SyncChange
    <3>3. \A i \in Ids : s[i] \in {jobs[i], NoJob}
      BY <1>0 DEF TypeOK, Store!StoreTypeOK, Store!JobSets
    <3> QED BY <3>2, <3>3, PipelineAssumption DEF ConvertJobs
  <2>2. CASE EndRemove
    BY <1>0, <1>l, <2>2, SyncUnlock DEF EndRemove
  <2>3. CASE StartTask \/ SkipJob \/ Cleanup
    <3>1. UNCHANGED storeVars BY <2>3 DEF StartTask, SkipJob, Cleanup
    <3> QED BY <1>0, <3>1, SyncStutter
  <2> QED BY <2>1, <2>2, <2>3 DEF LoopStep
<1>4. \A h \in Ids : Recorded(h)' => Recorded(h)
  <2>1. \A x \in ConvertJobs : AtWork(x)' => AtWork(x) BY <1>0, LoopRecords
  <2> QED BY <1>3, <2>1, RecordedBack DEF Recorded
<1> QED BY <1>0, <1>1, <1>2, <1>3, <1>4, UploadedFrame

LEMMA OthersUploaded ==
  ASSUME VInv, Steady,
         \/ \E q \in Requests : AdderBegin(q) \/ AdderEnd(q)
         \/ \E a \in Actors : SaveStep(a)
         \/ \E k \in Jobs : WorkerStep(k)
         \/ UNCHANGED vars
  PROVE  Sync' /\ Uploaded'
<1>0. PInv /\ TypeOK /\ Sync /\ Uploaded BY DEF VInv, PInv
<1>1. UNCHANGED <<req, channel, slot>>
  BY DEF AdderBegin, AdderEnd, SaveStep, WorkerStep, ConvertPrepare, ConvertEncode,
     ConvertPublish, ConvertUnlink, UploadSend, UploadFails, UploadPurge, MigrateCopy,
     taskVars, vars
<1>2. \A i \in Ids : upload'[i] \in {upload[i], NoUpload}
  <2>1. ASSUME NEW k \in Jobs, WorkerStep(k) PROVE \A i \in Ids : upload'[i] \in {upload[i], NoUpload}
    <3>1. CASE ConvertUnlink(k) BY <1>0, <3>1 DEF ConvertUnlink, TypeOK
    <3>2. CASE ~ConvertUnlink(k)
      BY <2>1, <3>2 DEF WorkerStep, ConvertPrepare, ConvertEncode, ConvertPublish,
         UploadSend, UploadFails, UploadPurge, MigrateCopy, diskVars
    <3> QED BY <3>1, <3>2
  <2>2. CASE ~\E k \in Jobs : WorkerStep(k)
    BY <2>2 DEF AdderBegin, AdderEnd, SaveStep, diskVars, vars
  <2> QED BY <2>1, <2>2
<1>3. /\ Sync'
      /\ \A i \in Ids : jobs'[i] \in ConvertJobs => Recorded(i)
      /\ \A i \in Ids : Store!Load(file')[i] \in ConvertJobs => Recorded(i)
  <2>1. ASSUME NEW q \in Requests, AdderBegin(q)
        PROVE  Sync' /\ file' = file /\ \A i \in Ids : jobs'[i] \in ConvertJobs => Recorded(i)
    <3> DEFINE u == Job(q, "upload")
               s == [jobs EXCEPT ![IdOf[q]] = u]
    <3>1. Adder(q) \in Actors /\ u \notin ConvertJobs
      BY ActorTypes, JobParts DEF ConvertJobs, Kinds
    <3>2. Store!Change(Adder(q), s) BY <2>1 DEF AdderBegin, Store!Add
    <3>3. Sync' /\ jobs' = s /\ file' = file BY <1>0, <3>1, <3>2, SyncChange
    <3> HIDE DEF u
    <3>4. \A i \in Ids : s[i] \in {jobs[i], u}
      BY <1>0 DEF TypeOK, Store!StoreTypeOK, Store!JobSets
    <3> QED BY <3>1, <3>3, <3>4 DEF Recorded
  <2>2. ASSUME NEW a \in Actors, SaveStep(a)
        PROVE  /\ Sync'
               /\ \A i \in Ids : jobs'[i] \in ConvertJobs => Recorded(i)
               /\ \A i \in Ids : Store!Load(file')[i] \in ConvertJobs => Recorded(i)
    <3>1. Sync' /\ jobs' = jobs /\ Store!Load(file') \in {Store!NoJobs, jobs}
      BY <1>0, <2>2, SyncSave DEF SaveStep, Steady
    <3>2. \A i \in Ids : Store!NoJobs[i] \notin ConvertJobs
      BY PipelineAssumption DEF Store!NoJobs, ConvertJobs
    <3> QED BY <3>1, <3>2 DEF Recorded
  <2>3. ASSUME NEW q \in Requests, AdderEnd(q) PROVE Sync' /\ jobs' = jobs /\ file' = file
    BY <1>0, <2>3, ActorTypes, SyncUnlock DEF AdderEnd
  <2>4. ASSUME UNCHANGED vars \/ \E k \in Jobs : WorkerStep(k)
        PROVE  Sync' /\ jobs' = jobs /\ file' = file
    <3>1. UNCHANGED storeVars BY <1>0, <2>4, WorkerFrame DEF vars
    <3> QED BY <1>0, <3>1, SyncStutter
  <2> QED BY <2>1, <2>2, <2>3, <2>4 DEF Recorded
<1>4. \A h \in Ids : Recorded(h)' => Recorded(h)
  <2>1. \A x \in ConvertJobs : AtWork(x)' => AtWork(x)
    BY <1>1 DEF AtWork, InChannel, JobId
  <2> QED BY <1>3, <2>1, RecordedBack
<1> QED BY <1>0, <1>1, <1>2, <1>3, <1>4, UploadedFrame

\* A request that has its id to itself only has to answer for its own upload.
LEMMA UploadedOwn ==
  ASSUME upload \in [Ids -> Uploads], Uploaded, NEW s \in Requests, NEW i \in Ids, i = IdOf[s],
         \A r \in Requests : r # s => req'[r] = req[r] /\ (IdOf[r] = i => req[r] \notin InFlight),
         \A h \in Ids : h # i => upload'[h] = upload[h] /\ (Recorded(h)' => Recorded(h)),
         Recorded(i)' => Whole(upload'[i]),
         \A q \in upload'[i].open : req'[q] = "opened" /\ IdOf[q] = i,
         req'[s] \in {"checked", "opened"} => ~Recorded(i)',
         req'[s] = "opened" => upload'[i] \in {Opened(s), NoUpload},
         req'[s] = "written" => Whole(upload'[i]),
         req'[s] \in {"saving", "saved"} /\ KindOf[s] = "convert" => Whole(upload'[i])
  PROVE  Uploaded'
<1> USE JobTypes DEF Uploaded
<1>1. \A h \in Ids : Recorded(h)' => Whole(upload'[h]) OBVIOUS
<1>2. \A h \in Ids : \A q \in upload'[h].open : req'[q] = "opened" /\ IdOf[q] = h
  <2> SUFFICES ASSUME NEW h \in Ids, h # i, NEW q \in upload'[h].open
               PROVE  req'[q] = "opened" /\ IdOf[q] = h
    OBVIOUS
  <2>1. req[q] = "opened" /\ IdOf[q] = h /\ q # s OBVIOUS
  <2>2. q \in Requests BY DEF Uploads
  <2> QED BY <2>1, <2>2
<1>3. ASSUME NEW r \in Requests
      PROVE  /\ req'[r] \in {"checked", "opened"} => ~Recorded(IdOf[r])'
             /\ req'[r] = "opened" => upload'[IdOf[r]] \in {Opened(r), NoUpload}
             /\ req'[r] = "written" => Whole(upload'[IdOf[r]])
             /\ req'[r] \in {"saving", "saved"} /\ KindOf[r] = "convert" =>
                  Whole(upload'[IdOf[r]])
  <2>1. CASE r = s BY <2>1
  <2>2. CASE r # s /\ IdOf[r] = i BY <2>2 DEF InFlight
  <2>3. CASE r # s /\ IdOf[r] # i BY <2>3
  <2> QED BY <2>1, <2>2, <2>3
<1> QED BY <1>1, <1>2, <1>3 DEF Whole, Full, Opened, NoUpload

\* What a request puts on record is its own job, whose upload is whole.
LEMMA ApiUploaded ==
  ASSUME VInv, Steady, NEW s \in Requests, ApiStep(s)
  PROVE  Sync' /\ Uploaded'
<1> DEFINE i == IdOf[s]
           k == Job(s, KindOf[s])
<1>0. /\ PInv /\ TypeOK /\ Sync /\ Uploaded /\ PendingCoversWork /\ RequestOwnsId
      /\ req \in [Requests -> ReqStates] /\ upload \in [Ids -> Uploads]
  BY DEF VInv, PInv, Covered, TypeOK
<1>1. i \in Ids /\ Api(s) \in Actors /\ k \in Jobs /\ JobId(k) = i /\ k.kind = KindOf[s]
  BY JobTypes, JobParts, ActorTypes DEF JobId
<1>2. ~MayDrop /\ ~MayFail /\ ~MayBreak BY DEF Steady
<1>3. /\ slot' = slot
      /\ \A r \in Requests : r # s => req'[r] = req[r]
      /\ \A h \in Ids : h # i => upload'[h] = upload[h]
      /\ SendJob(s) \/ channel' = channel
  BY <1>0, ApiFrame
<1>4. \A r \in Requests : r # s /\ IdOf[r] = i => req[r] \notin InFlight
  <2>1. CASE CheckExists(s)
    BY <2>1 DEF CheckExists, Steady, NoOverlap, OnceEach, NobodyElse
  <2>2. CASE ~CheckExists(s)
    <3>1. req[s] \in InFlight
      BY <2>2 DEF ApiStep, OpenUpload, ReceiveBody, BeginAdd, EndAdd, SendJob, DropRequest, InFlight
    <3> QED BY <1>0, <3>1 DEF RequestOwnsId
  <2> QED BY <2>1, <2>2
<1>5. channel' = channel => \A x \in ConvertJobs : AtWork(x)' => AtWork(x)
  BY <1>3 DEF AtWork, InChannel, JobId
<1>6. jobs' = jobs /\ file' = file /\ channel' = channel => \A h \in Ids : Recorded(h)' => Recorded(h)
  BY <1>5, RecordedBack DEF Recorded
<1>7. CASE CheckExists(s)
  <2>1. /\ UNCHANGED <<storeVars, upload, channel>> /\ req[s] = "idle"
        /\ req'[s] \in {"refused", "checked"} /\ lock = Free
        /\ req'[s] = "checked" => jobs[i] = NoJob
    BY <1>0, <1>7 DEF CheckExists, diskVars, taskVars, Refused
  <2>2. Sync' /\ jobs' = jobs /\ file' = file BY <1>0, <2>1, SyncStutter
  <2>3. jobs[i] = NoJob => ~Recorded(i)
    <3> SUFFICES ASSUME jobs[i] = NoJob PROVE ~Recorded(i) OBVIOUS
    <3>1. \A a \in Actors : flight[a].stage = "none"
      BY <1>0, <2>1, FreeAssumption DEF Sync
    <3>2. Store!Load(file) = jobs BY <1>0, <3>1 DEF Sync
    <3>3. \A x \in Jobs : JobId(x) = i => ~AtWork(x)
      <4>1. slot[i] = NoTask /\ ~Queued(i) BY <1>0, <1>1 DEF PendingCoversWork, HasWork
      <4> QED BY <4>1, PipelineAssumption DEF AtWork, InChannel, Queued, NoTask
    <3> QED BY <3>2, <3>3, PipelineAssumption DEF Recorded, ConvertJobs
  <2>4. \A h \in Ids : Recorded(h)' => Recorded(h) BY <1>6, <2>1, <2>2
  <2>5. \A q \in upload'[i].open : req'[q] = "opened" /\ IdOf[q] = i
    <3>1. \A q \in upload[i].open : q \in Requests BY <1>0, <1>1 DEF Uploads
    <3>2. \A q \in upload[i].open : q # s /\ req[q] = "opened" /\ IdOf[q] = i
      BY <1>0, <1>1, <2>1 DEF Uploaded
    <3> QED BY <1>3, <2>1, <3>1, <3>2
  <2>6. Recorded(i)' => Whole(upload'[i]) BY <1>0, <1>1, <2>1, <2>4 DEF Uploaded
  <2> HIDE DEF i
  <2>7. Uploaded' BY <1>0, <1>1, <1>3, <1>4, <2>1, <2>3, <2>4, <2>5, <2>6, UploadedOwn DEF i
  <2> QED BY <2>2, <2>7
<1>8. CASE OpenUpload(s)
  <2>1. UNCHANGED <<storeVars, channel>> /\ req[s] = "checked"
    BY <1>8 DEF OpenUpload, taskVars
  <2>2. Sync' /\ jobs' = jobs /\ file' = file BY <1>0, <2>1, SyncStutter
  <2>3. \A h \in Ids : Recorded(h)' => Recorded(h) BY <1>6, <2>1, <2>2
  <2>4. ~Recorded(i) BY <1>0, <2>1 DEF Uploaded
  <2>5. upload[i].open = {}
    <3>1. \A q \in upload[i].open : q \in Requests BY <1>0, <1>1 DEF Uploads
    <3>2. \A q \in upload[i].open : q # s /\ req[q] = "opened" /\ IdOf[q] = i
      BY <1>0, <1>1, <2>1 DEF Uploaded
    <3> QED BY <1>4, <3>1, <3>2 DEF InFlight
  <2>6. {} \cup {s} = {s} OBVIOUS
  <2>7. req'[s] = "opened" /\ upload'[i] = Opened(s)
    BY <1>0, <1>1, <1>2, <1>8, <2>5, <2>6 DEF OpenUpload, Opened
  <2>8. \A q \in upload'[i].open : req'[q] = "opened" /\ IdOf[q] = i BY <2>7 DEF Opened
  <2>9. Uploaded' BY <1>0, <1>1, <1>3, <1>4, <2>3, <2>4, <2>7, <2>8, UploadedOwn
  <2> QED BY <2>2, <2>9
<1>9. CASE ReceiveBody(s)
  <2>1. UNCHANGED <<storeVars, channel>> /\ req[s] = "opened"
        /\ req'[s] = "written" /\ upload' = CloseUpload(s, s)
    BY <1>0, <1>2, <1>9 DEF ReceiveBody, taskVars
  <2>2. Sync' /\ jobs' = jobs /\ file' = file BY <1>0, <2>1, SyncStutter
  <2>3. \A h \in Ids : Recorded(h)' => Recorded(h) BY <1>6, <2>1, <2>2
  <2>4. Whole(upload'[i]) /\ upload'[i].open = {}
    <3>1. CASE upload[i] = Opened(s)
      <4>1. upload[i].open = {s} /\ upload[i].has = {} BY <3>1 DEF Opened
      <4>2. {} \cup {s} = {s} /\ {s} \ {s} = {} OBVIOUS
      <4>3. upload'[i] = Full(s) BY <1>0, <1>1, <2>1, <4>1, <4>2 DEF CloseUpload, Full
      <4>4. upload'[i].open = {} BY <4>3 DEF Full
      <4>5. Whole(upload'[i]) BY <4>3 DEF Whole
      <4> QED BY <4>4, <4>5
    <3>2. CASE upload[i] = NoUpload
      <4>1. upload'[i] = NoUpload BY <2>1, <3>2 DEF CloseUpload, NoUpload
      <4> QED BY <4>1 DEF Whole, NoUpload
    <3> QED BY <1>0, <2>1, <3>1, <3>2 DEF Uploaded
  <2>5. Uploaded' BY <1>0, <1>1, <1>3, <1>4, <2>1, <2>3, <2>4, UploadedOwn
  <2> QED BY <2>2, <2>5
<1> DEFINE own == KindOf[s] = "convert" => Whole(upload[i])
<1>10. ASSUME UNCHANGED upload, req'[s] \in {"saving", "saved", "accepted"}, req[s] # "opened", own,
              \A h \in Ids : h # i => (Recorded(h)' => Recorded(h)),
              Recorded(i)' => Recorded(i) \/ KindOf[s] = "convert"
       PROVE  Uploaded'
  <2>1. Recorded(i)' => Whole(upload'[i]) BY <1>0, <1>1, <1>10 DEF Uploaded
  <2>2. \A q \in upload'[i].open : req'[q] = "opened" /\ IdOf[q] = i
    <3>1. \A q \in upload[i].open : q \in Requests BY <1>0, <1>1 DEF Uploads
    <3>2. \A q \in upload[i].open : q # s /\ req[q] = "opened" /\ IdOf[q] = i
      BY <1>0, <1>1, <1>10 DEF Uploaded
    <3> QED BY <1>3, <1>10, <3>1, <3>2
  <2> QED BY <1>0, <1>1, <1>3, <1>4, <1>10, <2>1, <2>2, UploadedOwn
<1>11. CASE BeginAdd(s)
  <2> DEFINE e == [jobs EXCEPT ![i] = k]
  <2>1. UNCHANGED <<upload, channel>> /\ req'[s] = "saving" /\ req[s] \in {"written", "checked"}
        /\ (KindOf[s] = "convert" => req[s] = "written") /\ Store!Change(Api(s), e)
    BY <1>0, <1>11 DEF BeginAdd, Store!Add, diskVars, taskVars
  <2>2. Sync' /\ jobs' = e /\ file' = file BY <1>0, <1>1, <2>1, SyncChange
  <2>3. e[i] = k /\ \A h \in Ids : h # i => e[h] = jobs[h]
    BY <1>0, <1>1 DEF TypeOK, Store!StoreTypeOK, Store!JobSets
  <2>4. own BY <1>0, <2>1 DEF Uploaded
  <2>5. \A h \in Ids : Recorded(h)' => Recorded(h) \/ (h = i /\ KindOf[s] = "convert")
    <3> SUFFICES ASSUME NEW h \in Ids, Recorded(h)' PROVE Recorded(h) \/ (h = i /\ KindOf[s] = "convert")
      OBVIOUS
    <3>1. \/ e[h] \in ConvertJobs
          \/ Store!Load(file)[h] \in ConvertJobs
          \/ \E x \in ConvertJobs : JobId(x) = h /\ AtWork(x)
      BY <1>5, <2>1, <2>2 DEF Recorded, JobId, Store!Load, Store!NoJobs
    <3>2. e[h] \in ConvertJobs => jobs[h] \in ConvertJobs \/ (h = i /\ KindOf[s] = "convert")
      BY <1>1, <2>3 DEF ConvertJobs
    <3> QED BY <3>1, <3>2 DEF Recorded
  <2>6. Uploaded' BY <1>1, <1>10, <2>1, <2>4, <2>5
  <2> QED BY <2>2, <2>6
<1>12. CASE EndAdd(s)
  <2>1. /\ UNCHANGED <<upload, channel>> /\ req[s] = "saving" /\ req'[s] = "saved"
        /\ Store!Unlock(Api(s))
    BY <1>0, <1>12 DEF EndAdd, diskVars, taskVars
  <2>2. Sync' /\ jobs' = jobs /\ file' = file BY <1>0, <1>1, <2>1, SyncUnlock
  <2>3. own BY <1>0, <2>1 DEF Uploaded
  <2>4. \A h \in Ids : Recorded(h)' => Recorded(h) BY <1>6, <2>1, <2>2
  <2>5. Uploaded' BY <1>1, <1>10, <2>1, <2>3, <2>4
  <2> QED BY <2>2, <2>5
<1>13. CASE SendJob(s)
  <2>1. /\ UNCHANGED <<storeVars, upload>> /\ req[s] = "saved" /\ req'[s] = "accepted"
        /\ channel' = Append(channel, k)
    BY <1>0, <1>13 DEF SendJob, diskVars
  <2>2. Sync' /\ jobs' = jobs /\ file' = file BY <1>0, <2>1, SyncStutter
  <2>3. own BY <1>0, <2>1 DEF Uploaded
  <2>4. \A x : InChannel(x)' <=> InChannel(x) \/ x = k BY <1>0, <1>1, <2>1, AppendChannel
  <2>5. \A h \in Ids : Recorded(h)' => Recorded(h) \/ (h = i /\ KindOf[s] = "convert")
    <3> SUFFICES ASSUME NEW h \in Ids, Recorded(h)' PROVE Recorded(h) \/ (h = i /\ KindOf[s] = "convert")
      OBVIOUS
    <3>1. \/ jobs[h] \in ConvertJobs
          \/ Store!Load(file)[h] \in ConvertJobs
          \/ \E x \in ConvertJobs : JobId(x) = h /\ (AtWork(x) \/ x = k)
      BY <1>3, <2>2, <2>4 DEF Recorded, JobId, Store!Load, Store!NoJobs, AtWork
    <3>2. k \in ConvertJobs => KindOf[s] = "convert" BY <1>1 DEF ConvertJobs
    <3> QED BY <1>1, <3>1, <3>2 DEF Recorded
  <2>6. Uploaded' BY <1>1, <1>10, <2>1, <2>3, <2>5
  <2> QED BY <2>2, <2>6
<1>14. ~DropRequest(s) BY <1>2 DEF DropRequest
<1> QED BY <1>7, <1>8, <1>9, <1>11, <1>12, <1>13, <1>14 DEF ApiStep

\* A crash cuts off the uploads under way, and none of them is the input of a
\* convert that starts again.
LEMMA RestartUploaded ==
  ASSUME VInv, Restart
  PROVE  Sync' /\ Uploaded'
<1> DEFINE f == Store!Load(file)
<1>0. TypeOK /\ StorePlaced /\ Uploaded BY DEF VInv, PInv
<1>1. Sync' /\ jobs' = f /\ file' = file BY SyncReload DEF Restart
<1>2. Placed(f) BY <1>0, NoJobsPlaced DEF StorePlaced, Store!Load
<1>3. f' = f BY <1>1 DEF Store!Load, Store!NoJobs
<1>4. \A n \in DOMAIN channel' : \E h \in Ids : f[h] = channel'[n] /\ channel'[n] \in Jobs
  BY DEF Restart, Orders, Loaded
<1> HIDE DEF f
<1>5. \A x \in Jobs : AtWork(x)' => f[JobId(x)] = x
  <2> SUFFICES ASSUME NEW x \in Jobs, AtWork(x)' PROVE f[JobId(x)] = x OBVIOUS
  <2>1. JobId(x) \in Ids BY JobTypes
  <2>2. slot'[JobId(x)].job = NoJob BY <2>1 DEF Restart, NoTask
  <2>3. InChannel(x)' BY <2>2, PipelineAssumption DEF AtWork, JobId
  <2>4. PICK n \in DOMAIN channel' : channel'[n] = x BY <2>3 DEF InChannel
  <2>5. PICK h \in Ids : f[h] = x BY <1>4, <2>4
  <2>6. JobId(x) = h BY <1>2, <2>5, PipelineAssumption DEF Placed
  <2> QED BY <2>5, <2>6
<1>6. \A h \in Ids : Recorded(h)' => Recorded(h)
  <2> SUFFICES ASSUME NEW h \in Ids, Recorded(h)' PROVE f[h] \in ConvertJobs
    BY DEF Recorded, f
  <2>1. \/ jobs'[h] \in ConvertJobs \/ f'[h] \in ConvertJobs
        \/ \E x \in ConvertJobs : JobId(x) = h /\ AtWork(x)'
    BY DEF Recorded, f, JobId
  <2>2. \A x \in ConvertJobs : x \in Jobs BY DEF ConvertJobs
  <2> QED BY <1>1, <1>3, <1>5, <2>1, <2>2
<1>7. \A h \in Ids : upload'[h] = Abandoned(upload[h]) BY DEF Restart
<1>8. \A h \in Ids : upload'[h].open = {}
  <2>1. \A u : Abandoned(u).open = {}
    <3>1. ASSUME NEW u PROVE u.open = {} => Abandoned(u).open = {} BY DEF Abandoned
    <3>2. ASSUME NEW u PROVE u.open # {} => Abandoned(u).open = {} BY DEF Abandoned
    <3> QED BY <3>1, <3>2
  <2> QED BY <1>7, <2>1
<1>9. \A h \in Ids : Recorded(h)' => Whole(upload'[h])
  <2> SUFFICES ASSUME NEW h \in Ids, Recorded(h)' PROVE Whole(upload'[h]) OBVIOUS
  <2>1. Whole(upload[h]) BY <1>0, <1>6 DEF Uploaded
  <2>2. upload[h].open = {}
    <3>1. CASE upload[h] = NoUpload BY <3>1 DEF NoUpload
    <3>2. ASSUME NEW q \in Requests, upload[h] = Full(q) PROVE upload[h].open = {}
      BY <3>2 DEF Full
    <3> QED BY <2>1, <3>1, <3>2 DEF Whole
  <2>3. upload'[h] = upload[h] BY <1>7, <2>2 DEF Abandoned
  <2> QED BY <2>1, <2>3
<1>10. \A r \in Requests : req'[r] \notin InFlight BY DEF Restart, InFlight
<1>11. Uploaded'
  <2>1. \A h \in Ids : Recorded(h)' => Whole(upload[h])' BY <1>9 DEF Whole, Full, NoUpload
  <2>2. \A h \in Ids : \A q \in upload'[h].open : req'[q] = "opened" /\ IdOf[q] = h BY <1>8
  <2>3. \A r \in Requests : req'[r] \notin {"checked", "opened", "written", "saving", "saved"}
    BY <1>10 DEF InFlight
  <2> QED BY <2>1, <2>2, <2>3 DEF Uploaded
<1> QED BY <1>1, <1>11

LEMMA WholeRead ==
  ASSUME NEW u, Whole(u)
  PROVE  ContentOf(u) # Torn
<1>1. CASE u = NoUpload BY <1>1, PipelineAssumption DEF ContentOf, NoUpload
<1>2. ASSUME NEW q \in Requests, u = Full(q) PROVE ContentOf(u) # Torn
  BY <1>2, ContentFull, PipelineAssumption
<1> QED BY <1>1, <1>2 DEF Whole

\* A worker has the files of its id to itself, and encodes a whole upload.
LEMMA WorkerMade ==
  ASSUME VInv, NEW k \in Jobs, WorkerStep(k)
  PROVE  Made'
<1> DEFINE i == JobId(k)
<1>0. TypeOK /\ WorkerHasSlot /\ Uploaded /\ Made BY DEF VInv, PInv
<1>1. /\ worker \in [Jobs -> WorkerStates] /\ temp \in [Ids -> Contents]
      /\ video \in [Ids -> Contents] /\ i \in Ids
  BY <1>0, JobTypes DEF TypeOK
<1>2. /\ worker[k] # "none"
      /\ \A x \in Jobs : x # k => worker'[x] = worker[x]
      /\ \A h \in Ids : h # i => temp'[h] = temp[h] /\ video'[h] = video[h]
  BY <1>0, WorkerFrame
<1>3. \A x \in Jobs : x # k /\ worker[x] # "none" => JobId(x) # i
  BY <1>0, <1>2 DEF WorkerHasSlot
<1>4. SUFFICES /\ video'[i] # Torn
               /\ k \in ConvertJobs /\ worker'[k] = "publish" => temp'[i] # Torn
  <2>1. \A h \in Ids : video'[h] # Torn BY <1>0, <1>2, <1>4 DEF Made
  <2>2. ASSUME NEW x \in ConvertJobs, worker'[x] = "publish" PROVE temp'[JobId(x)] # Torn
    <3>1. x \in Jobs /\ JobId(x) \in Ids BY JobTypes DEF ConvertJobs
    <3>2. CASE x = k BY <1>4, <2>2, <3>2
    <3>3. CASE x # k
      <4>1. worker[x] = "publish" /\ JobId(x) # i BY <1>2, <1>3, <2>2, <3>1, <3>3
      <4> QED BY <1>0, <1>2, <3>1, <4>1 DEF Made
    <3> QED BY <3>2, <3>3
  <2> QED BY <2>1, <2>2 DEF Made, JobId
<1>5. video[i] # Torn BY <1>0, <1>1 DEF Made
<1>6. Nothing # Torn BY PipelineAssumption
<1> HIDE DEF i
<1>7. CASE ConvertPrepare(k) BY <1>1, <1>6, <1>7 DEF ConvertPrepare, Move, i
<1>8. CASE ConvertEncode(k)
  <2>1. k \in ConvertJobs BY <1>8 DEF ConvertEncode, ConvertJobs
  <2>2. Recorded(i) BY <1>0, <1>2, <2>1 DEF Recorded, WorkerHasSlot, AtWork, i
  <2>3. ContentOf(upload[i]) # Torn BY <1>0, <1>1, <2>2, WholeRead DEF Uploaded
  <2>4. /\ video' = video
        /\ \/ temp'[i] = ContentOf(upload[i])
           \/ worker'[k] = "err"
    BY <1>1, <1>8 DEF ConvertEncode, Move, i
  <2> QED BY <1>5, <2>3, <2>4
<1>9. CASE ConvertPublish(k)
  <2>1. temp[i] # Torn BY <1>0, <1>9 DEF ConvertPublish, ConvertJobs, Made, i
  <2>2. video'[i] \in {temp[i], video[i]} /\ worker'[k] # "publish"
    BY <1>1, <1>9 DEF ConvertPublish, Move, i
  <2> QED BY <1>5, <2>1, <2>2
<1>10. CASE ConvertUnlink(k) BY <1>1, <1>5, <1>10 DEF ConvertUnlink, Move
<1>11. CASE UploadSend(k) \/ UploadFails(k) \/ UploadPurge(k) \/ MigrateCopy(k)
  <2>1. k \notin ConvertJobs
    BY <1>11 DEF UploadSend, UploadFails, UploadPurge, MigrateCopy, ConvertJobs
  <2>2. video'[i] \in {video[i], Nothing}
    BY <1>1, <1>11 DEF UploadSend, UploadFails, UploadPurge, MigrateCopy, diskVars, i
  <2> QED BY <1>5, <1>6, <2>1, <2>2
<1> QED BY <1>7, <1>8, <1>9, <1>10, <1>11 DEF WorkerStep

LEMMA MadeStep ==
  ASSUME VInv, [Next]_vars
  PROVE  Made'
<1>0. TypeOK /\ SlotsPlaced /\ Made BY DEF VInv, PInv
<1>1. ASSUME UNCHANGED <<temp, video>>,
             \A x \in Jobs : worker'[x] = "publish" => worker[x] = "publish"
      PROVE  Made'
  BY <1>0, <1>1 DEF Made, ConvertJobs, JobId
<1>2. ASSUME NEW i \in Ids, TaskStep(i) PROVE Made'
  <2> DEFINE j == slot[i].job
  <2>1. j \in Jobs
    BY <1>0, <1>2, SlotJob DEF TaskStep, QueueForPermits, StartWorker, NextJob, JobDone,
       RetryLater, Retry, JobFailed, NoTask, SlotsPlaced
  <2> HIDE DEF j
  <2>2. /\ UNCHANGED <<temp, video>>
        /\ worker' = worker \/ \E w \in {"none", "start"} : worker' = [worker EXCEPT ![j] = w]
    BY <1>2 DEF TaskStep, QueueForPermits, StartWorker, NextJob, JobDone, RetryLater, Retry,
       JobFailed, diskVars, j
  <2>3. \A x \in Jobs : worker'[x] = "publish" => worker[x] = "publish"
    BY <1>0, <2>2 DEF TypeOK
  <2> QED BY <1>1, <2>2, <2>3
<1>3. CASE Restart BY <1>1, <1>3 DEF Restart
<1>4. ASSUME NEW r \in Requests, ApiStep(r) PROVE Made' BY <1>0, <1>1, <1>4, ApiFrame
<1>5. CASE LoopStep
  BY <1>1, <1>5 DEF LoopStep, StartTask, SkipJob, BeginRemove, EndRemove, Cleanup, diskVars
<1>6. CASE \/ \E q \in Requests : AdderBegin(q) \/ AdderEnd(q)
           \/ \E a \in Actors : SaveStep(a)
           \/ UNCHANGED vars
  BY <1>1, <1>6 DEF AdderBegin, AdderEnd, SaveStep, diskVars, vars
<1> QED BY <1>2, <1>3, <1>4, <1>5, <1>6, WorkerMade DEF Next

LEMMA VInvInit == Init => VInv
<1> SUFFICES ASSUME Init PROVE WorkerHasSlot /\ Sync /\ Uploaded /\ Made
  BY PInvInit DEF VInv
<1>1. WorkerHasSlot BY DEF Init, WorkerHasSlot, SlotsPlaced
<1>2. Sync /\ Store!Load(file) = Store!NoJobs /\ jobs = Store!NoJobs
  BY DEF Init, Store!StoreInit, Store!NoWrite, Store!Json, Store!Load, Sync
<1>3. \A i \in Ids : ~Recorded(i)
  <2>1. \A j \in Jobs : ~AtWork(j)
    BY JobTypes, PipelineAssumption DEF Init, AtWork, InChannel, JobId, NoTask
  <2> QED BY <1>2, <2>1, PipelineAssumption DEF Recorded, ConvertJobs, Store!NoJobs
<1>4. Uploaded BY <1>3, JobTypes DEF Init, Uploaded, NoUpload
<1>5. Made BY PipelineAssumption DEF Init, Made, ConvertJobs
<1> QED BY <1>1, <1>2, <1>4, <1>5

LEMMA VInvStep ==
  ASSUME VInv, Steady, [Next]_vars
  PROVE  VInv'
<1>0. PInv /\ TypeOK /\ WorkerHasSlot BY DEF VInv, PInv
<1>1. PInv' BY <1>0, PInvStep DEF Steady
<1>2. WorkerHasSlot' BY <1>0, WorkerHasSlotStep
<1>3. Sync' /\ Uploaded'
  BY ApiUploaded, TaskUploaded, LoopUploaded, OthersUploaded, RestartUploaded DEF Next
<1>4. Made' BY MadeStep
<1> QED BY <1>1, <1>2, <1>3, <1>4 DEF VInv

\* However often the process crashes and ids are submitted again, no half-made
\* playlist and none made from a half-received upload is published, provided
\* requests for an id do not overlap, no request is cancelled or broken off and
\* the file system does not fail.
THEOREM PublishedWhole ==
  ASSUME Steady
  PROVE  Spec => []PublishedIsWhole
<1>1. VInv /\ [Next]_vars => VInv' BY VInvStep
<1>2. VInv => PublishedIsWhole BY DEF VInv, Made, PublishedIsWhole
<1> QED BY <1>1, <1>2, VInvInit, PTL DEF Spec

===============================================================================
