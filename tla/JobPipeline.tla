----------------------------- MODULE JobPipeline ------------------------------
(***************************************************************************)
(* The job pipeline of crates/core: upload_mp4_raw and migrate_videos put  *)
(* jobs into the JobSetManager and into an unbounded channel; the job      *)
(* handler (AppState::start_job_handler) takes them out, runs at most one  *)
(* task per id, and each task waits for permits, runs gen_job on a spawned *)
(* worker and ends as Done, Next, Retry or Err.                            *)
(*                                                                         *)
(* The actors, which interleave at their awaits: the API requests, the     *)
(* handler loop with the task futures it polls, the workers, the futures   *)
(* next_job spawns to record an upload, and the file writes of JobStore.   *)
(* The process may crash and restart between any two steps.                *)
(***************************************************************************)
EXTENDS Naturals, Sequences, FiniteSets

CONSTANTS
  Ids,            \* job ids
  Requests,       \* calls of the API that submit a job
  IdOf,           \* the id each request names
  KindOf,         \* "convert" for upload_mp4_raw, "migrate" for migrate_videos
  NeedOf,         \* permits a convert needs: codecs x scales, never 0
  IsS3,           \* storage_manager.is_s3()
  Permits,        \* size of the convert pool
  MigratePermits, \* size of the migrate pool
  MaxRetries,     \* the 5 of ConvertJob and MigrateJob::wait_for_retry
  MaxCrashes,     \* bound on restarts
  Overlap,        \* TRUE if clients may have two requests for an id in flight
  MayBreak,       \* TRUE if the body of an upload may break off
  MayDrop, MayFail, \* as in JobStore
  NoJob, Free, Nothing, Torn

Kinds == {"convert", "upload", "migrate"}
Jobs  == [req : Requests, kind : Kinds]

ASSUME PipelineAssumption ==
  /\ IdOf \in [Requests -> Ids]
  /\ KindOf \in [Requests -> {"convert", "migrate"}]
  /\ NeedOf \in [Requests -> Nat \ {0}]
  /\ IsS3 \in BOOLEAN /\ Overlap \in BOOLEAN
  /\ Permits \in Nat /\ MigratePermits \in Nat \ {0}
  /\ MaxRetries \in Nat /\ MaxCrashes \in Nat
  /\ NoJob \notin Jobs
  /\ Requests \cap {Nothing, Torn} = {} /\ Nothing # Torn
  /\ IsFiniteSet(Ids)

VARIABLES
  jobs, file, lock, flight, faulty, \* the JobSetManager, see JobStore
  req,        \* program counter of each request
  channel,    \* the unbounded channel from job_tx to the handler
  slot,       \* StreamMap.in_progress: per id, its job and where its future is
  waiting,    \* per pool, the ids queued on its semaphore, first come first
  avail,      \* per pool, the permits not taken
  handler,    \* the handler loop: selecting, or busy with the end of a job
  worker,     \* per job, the spawned gen_job, if one runs
  adder,      \* per request, the future next_job spawned to record the upload
  tries,      \* per job, its retry_times, shared by all its clones
  upload,     \* uploads/<id>: whose bytes it has, who has it open
  temp,       \* temp/tmp-<id>
  video,      \* videos/<id>
  remote,     \* the objects of <id> in the destination bucket
  crashes,    \* restarts so far
  outcome     \* history: how the handler ended the job of each request

storeVars == <<jobs, file, lock, flight, faulty>>
diskVars  == <<upload, temp, video, remote>>
taskVars  == <<channel, slot, waiting, avail, handler, tries, outcome>>
vars == <<storeVars, diskVars, taskVars, req, worker, adder, crashes>>

Api(r)   == <<"api", r>>
Adder(r) == <<"adder", r>>
Loop     == <<"loop", Nothing>>
Actors   == ({"api", "adder"} \X Requests) \cup {Loop}

ASSUME FreeAssumption == Free \notin Actors

Store == INSTANCE JobStore WITH Payloads <- Jobs

Job(r, k) == [req |-> r, kind |-> k]
JobId(j)  == IdOf[j.req]

(***************************************************************************)
(* Files.  A file or directory is described by whose bytes it was made     *)
(* from: one request's, or Torn when it is incomplete or a mixture.        *)
(***************************************************************************)
Contents == Requests \cup {Nothing, Torn}
Uploads  == [exists : BOOLEAN, has : SUBSET (Requests \cup {Torn}), open : SUBSET Requests]
NoUpload == [exists |-> FALSE, has |-> {}, open |-> {}]

\* What a reader of uploads/<id> gets now.
ContentOf(u) ==
  IF ~u.exists THEN Nothing
  ELSE IF u.open = {} /\ \E r \in Requests : u.has = {r}
       THEN CHOOSE r \in Requests : u.has = {r}
       ELSE Torn

ReqStates == {"idle", "checked", "opened", "written", "saving", "saved",
              "accepted", "refused", "dropped"}
InFlight == {"checked", "opened", "written", "saving", "saved"}
TaskStates == {"new", "queued", "running", "sleeping"}
NoTask == [job |-> NoJob, at |-> "none"]
Tasks == [job : Jobs, at : TaskStates] \cup {NoTask}
HandlerStates == {"select", "remove", "removing", "cleanup"}
Selecting == [at |-> "select", job |-> NoJob, failed |-> FALSE]
WorkerStates == {"none", "start", "encode", "publish", "unlink", "send", "purge",
                 "copy", "ok", "err"}

TypeOK ==
  /\ Store!StoreTypeOK
  /\ req \in [Requests -> ReqStates]
  /\ channel \in Seq(Jobs)
  /\ slot \in [Ids -> Tasks]
  /\ waiting \in [Kinds -> Seq(Ids)]
  /\ avail \in [Kinds -> Nat]
  /\ handler \in [at : HandlerStates, job : Jobs \cup {NoJob}, failed : BOOLEAN]
  /\ worker \in [Jobs -> WorkerStates]
  /\ adder \in [Requests -> {"none", "spawned", "saving"}]
  /\ tries \in [Jobs -> 0 .. MaxRetries]
  /\ upload \in [Ids -> Uploads]
  /\ temp \in [Ids -> Contents]
  /\ video \in [Ids -> Contents]
  /\ remote \in [Ids -> Contents]
  /\ crashes \in 0 .. MaxCrashes
  /\ outcome \in [Requests -> {"none", "done", "failed"}]

(***************************************************************************)
(* Permits: JobSemaphores::for_kind has one pool per kind, and a job takes *)
(* what it needs, at most the whole pool.                                  *)
(***************************************************************************)
PoolLimit(k) ==
  CASE k = "upload"  -> 1
    [] k = "migrate" -> MigratePermits
    [] k = "convert" -> Permits

need_permit(j) == IF j.kind = "convert" THEN NeedOf[j.req] ELSE 1

\* A mutant: a job that needs more than the pool has waits for all of it.
AcquireUnclamped(j) == need_permit(j)

Acquire(j) ==
  IF need_permit(j) <= PoolLimit(j.kind) THEN need_permit(j) ELSE PoolLimit(j.kind)

Init ==
  /\ Store!StoreInit
  /\ req = [r \in Requests |-> "idle"]
  /\ channel = <<>>
  /\ slot = [i \in Ids |-> NoTask]
  /\ waiting = [k \in Kinds |-> <<>>]
  /\ avail = [k \in Kinds |-> PoolLimit(k)]
  /\ handler = Selecting
  /\ worker = [j \in Jobs |-> "none"]
  /\ adder = [r \in Requests |-> "none"]
  /\ tries = [j \in Jobs |-> 0]
  /\ upload = [i \in Ids |-> NoUpload]
  /\ temp = [i \in Ids |-> Nothing]
  /\ video = [i \in Ids |-> Nothing]
  /\ remote = [i \in Ids |-> Nothing]
  /\ crashes = 0
  /\ outcome = [r \in Requests |-> "none"]

-------------------------------------------------------------------------------
(***************************************************************************)
(* The API: upload_mp4_raw and migrate_videos, one step per await.  The    *)
(* requests are those that pass validation.                                *)
(***************************************************************************)
NobodyElse(r) ==
  \A s \in Requests \ {r} : IdOf[s] = IdOf[r] => req[s] \notin InFlight

Refused(r) ==
  \/ jobs[IdOf[r]] # NoJob
  \/ KindOf[r] = "migrate" /\ ~IsS3

\* A mutant: the look at the set of jobs is forgotten.
CheckNothing(r) ==
  /\ req[r] = "idle"
  /\ lock = Free
  /\ Overlap \/ NobodyElse(r)
  /\ req' = [req EXCEPT ![r] = "checked"]
  /\ UNCHANGED <<storeVars, diskVars, taskVars, worker, adder, crashes>>

\* The mutex is taken to look the id up and dropped at once.
CheckExists(r) ==
  /\ req[r] = "idle"
  /\ lock = Free
  /\ Overlap \/ NobodyElse(r)
  /\ req' = [req EXCEPT ![r] = IF Refused(r) THEN "refused" ELSE "checked"]
  /\ UNCHANGED <<storeVars, diskVars, taskVars, worker, adder, crashes>>

\* File::create truncates a file that is already there; bytes another request
\* has sent so far are lost from it.
OpenUpload(r) ==
  LET i == IdOf[r] IN
  /\ req[r] = "checked"
  /\ KindOf[r] = "convert"
  /\ \/ /\ req' = [req EXCEPT ![r] = "opened"]
        /\ upload' = [upload EXCEPT ![i] =
             [exists |-> TRUE,
              has    |-> IF upload[i].open = {} THEN {} ELSE {Torn},
              open   |-> upload[i].open \cup {r}]]
     \/ /\ MayFail
        /\ req' = [req EXCEPT ![r] = "refused"]
        /\ UNCHANGED upload
  /\ UNCHANGED <<storeVars, temp, video, remote, taskVars, worker, adder, crashes>>

\* Request r, if its file has not been unlinked, leaves bytes c and closes it.
CloseUpload(r, c) ==
  LET u == upload[IdOf[r]] IN
  IF r \in u.open
  THEN [upload EXCEPT ![IdOf[r]] =
          [exists |-> TRUE, has |-> u.has \cup {c}, open |-> u.open \ {r}]]
  ELSE upload

\* The body is streamed into the file; if the file was unlinked meanwhile, the
\* bytes go nowhere.  An error of the stream ends the loop as its end does.  A
\* failing write or flush removes whatever is at the path.
ReceiveBody(r) ==
  LET i == IdOf[r] IN
  /\ req[r] = "opened"
  /\ \/ /\ req' = [req EXCEPT ![r] = "written"]
        /\ upload' = CloseUpload(r, r)
     \/ /\ MayBreak
        /\ req' = [req EXCEPT ![r] = "written"]
        /\ upload' = CloseUpload(r, Torn)
     \/ /\ MayFail
        /\ req' = [req EXCEPT ![r] = "refused"]
        /\ upload' = [upload EXCEPT ![i] = NoUpload]
  /\ UNCHANGED <<storeVars, temp, video, remote, taskVars, worker, adder, crashes>>

BeginAdd(r) ==
  /\ req[r] = IF KindOf[r] = "convert" THEN "written" ELSE "checked"
  /\ Store!Add(Api(r), IdOf[r], Job(r, KindOf[r]))
  /\ req' = [req EXCEPT ![r] = "saving"]
  /\ UNCHANGED <<diskVars, taskVars, worker, adder, crashes>>

EndAdd(r) ==
  /\ req[r] = "saving"
  /\ Store!Unlock(Api(r))
  /\ req' = [req EXCEPT ![r] = "saved"]
  /\ UNCHANGED <<diskVars, taskVars, worker, adder, crashes>>

\* job_tx.unbounded_send and the 202 response.
SendJob(r) ==
  /\ req[r] = "saved"
  /\ channel' = Append(channel, Job(r, KindOf[r]))
  /\ req' = [req EXCEPT ![r] = "accepted"]
  /\ UNCHANGED <<storeVars, diskVars, slot, waiting, avail, handler, tries, outcome,
                 worker, adder, crashes>>

\* The client goes away and the server drops the handler's future at an await:
\* the open file stays as it is, and a save under way is detached.
DropRequest(r) ==
  /\ MayDrop
  /\ req[r] \in InFlight \ {"saved"}
  /\ req' = [req EXCEPT ![r] = "dropped"]
  /\ IF lock = Api(r) THEN Store!DropSaver(Api(r)) ELSE UNCHANGED storeVars
  /\ upload' = CloseUpload(r, Torn)
  /\ UNCHANGED <<temp, video, remote, taskVars, worker, adder, crashes>>

(***************************************************************************)
(* The handler loop.  Its select either receives a job or polls the tasks; *)
(* while it awaits the removal of an ended job it does neither.            *)
(***************************************************************************)
\* A mutant: a job received for a busy id takes the slot (StreamMap's insert
\* without the look at in_progress).
StartTaskAlways ==
  LET j == Head(channel) IN
  /\ handler.at = "select" /\ channel # <<>>
  /\ channel' = Tail(channel)
  /\ slot' = [slot EXCEPT ![JobId(j)] = [job |-> j, at |-> "new"]]
  /\ UNCHANGED <<storeVars, diskVars, waiting, avail, handler, tries, outcome,
                 req, worker, adder, crashes>>

\* add_if_not_in_progress returns true.
StartTask ==
  LET j == Head(channel) IN
  /\ handler.at = "select" /\ channel # <<>>
  /\ slot[JobId(j)] = NoTask
  /\ channel' = Tail(channel)
  /\ slot' = [slot EXCEPT ![JobId(j)] = [job |-> j, at |-> "new"]]
  /\ UNCHANGED <<storeVars, diskVars, waiting, avail, handler, tries, outcome,
                 req, worker, adder, crashes>>

\* add_if_not_in_progress returns false: the job is dropped with a warning.
SkipJob ==
  LET j == Head(channel) IN
  /\ handler.at = "select" /\ channel # <<>>
  /\ slot[JobId(j)] # NoTask
  /\ channel' = Tail(channel)
  /\ UNCHANGED <<storeVars, diskVars, slot, waiting, avail, handler, tries, outcome,
                 req, worker, adder, crashes>>

MoveTask(i, to) == slot' = [slot EXCEPT ![i] = [job |-> slot[i].job, at |-> to]]

\* The first poll of gen_task queues on the semaphore of the job's kind.
QueueForPermits(i) ==
  LET k == slot[i].job.kind IN
  /\ handler.at = "select"
  /\ slot[i].at = "new"
  /\ MoveTask(i, "queued")
  /\ waiting' = [waiting EXCEPT ![k] = Append(@, i)]
  /\ UNCHANGED <<storeVars, diskVars, channel, avail, handler, tries, outcome,
                 req, worker, adder, crashes>>

\* The semaphore is fair: only the first in its queue gets permits.
StartWorker(i) ==
  LET j == slot[i].job IN
  /\ handler.at = "select"
  /\ slot[i].at = "queued"
  /\ waiting[j.kind] # <<>> /\ Head(waiting[j.kind]) = i
  /\ avail[j.kind] >= Acquire(j)
  /\ waiting' = [waiting EXCEPT ![j.kind] = Tail(@)]
  /\ avail' = [avail EXCEPT ![j.kind] = @ - Acquire(j)]
  /\ MoveTask(i, "running")
  /\ worker' = [worker EXCEPT ![j] = "start"]
  /\ UNCHANGED <<storeVars, diskVars, channel, handler, tries, outcome, req, adder, crashes>>

\* The task of i ends: its permit is dropped and its slot is free again.
EndTask(i) ==
  LET j == slot[i].job IN
  /\ slot' = [slot EXCEPT ![i] = NoTask]
  /\ avail' = [avail EXCEPT ![j.kind] = @ + Acquire(j)]

HasNext(j) == j.kind = "convert" /\ IsS3

\* A mutant: the upload that follows a convert is not recorded.
NextJobUnrecorded(i) ==
  LET j == slot[i].job IN
  /\ handler.at = "select"
  /\ slot[i].at = "running" /\ worker[j] = "ok" /\ HasNext(j)
  /\ EndTask(i)
  /\ worker' = [worker EXCEPT ![j] = "none"]
  /\ handler' = [at |-> "remove", job |-> j, failed |-> FALSE]
  /\ channel' = Append(channel, Job(j.req, "upload"))
  /\ UNCHANGED <<storeVars, diskVars, waiting, tries, outcome, req, adder, crashes>>

\* JobResult::Next: next_job spawns a future that records the upload, and the
\* handler sends the upload to itself without waiting for that future.
NextJob(i) ==
  LET j == slot[i].job IN
  /\ handler.at = "select"
  /\ slot[i].at = "running" /\ worker[j] = "ok" /\ HasNext(j)
  /\ EndTask(i)
  /\ worker' = [worker EXCEPT ![j] = "none"]
  /\ adder' = [adder EXCEPT ![j.req] = "spawned"]
  /\ channel' = Append(channel, Job(j.req, "upload"))
  /\ UNCHANGED <<storeVars, diskVars, waiting, handler, tries, outcome, req, crashes>>

\* JobResult::Done.
JobDone(i) ==
  LET j == slot[i].job IN
  /\ handler.at = "select"
  /\ slot[i].at = "running" /\ worker[j] = "ok" /\ ~HasNext(j)
  /\ EndTask(i)
  /\ worker' = [worker EXCEPT ![j] = "none"]
  /\ handler' = [at |-> "remove", job |-> j, failed |-> FALSE]
  /\ UNCHANGED <<storeVars, diskVars, channel, waiting, tries, outcome, req, adder, crashes>>

\* A mutant: one retry more than the limit.
MayRetryOnceMore(j) == j.kind = "upload" \/ tries[j] <= MaxRetries

\* wait_for_retry: an upload is retried for ever.
MayRetry(j) == j.kind = "upload" \/ tries[j] < MaxRetries

\* The sleep before a retry keeps the permit.
RetryLater(i) ==
  LET j == slot[i].job IN
  /\ handler.at = "select"
  /\ slot[i].at = "running" /\ worker[j] = "err" /\ MayRetry(j)
  /\ worker' = [worker EXCEPT ![j] = "none"]
  /\ tries' = IF j.kind = "upload" THEN tries ELSE [tries EXCEPT ![j] = @ + 1]
  /\ MoveTask(i, "sleeping")
  /\ UNCHANGED <<storeVars, diskVars, channel, waiting, avail, handler, outcome,
                 req, adder, crashes>>

\* A mutant: the retried task keeps its permit.
RetryLeaks(i) ==
  LET j == slot[i].job IN
  /\ handler.at = "select"
  /\ slot[i].at = "sleeping"
  /\ slot' = [slot EXCEPT ![i] = NoTask]
  /\ channel' = Append(channel, j)
  /\ UNCHANGED <<storeVars, diskVars, waiting, avail, handler, tries, outcome,
                 req, worker, adder, crashes>>

\* JobResult::Retry: the job goes to the end of the channel.
Retry(i) ==
  LET j == slot[i].job IN
  /\ handler.at = "select"
  /\ slot[i].at = "sleeping"
  /\ EndTask(i)
  /\ channel' = Append(channel, j)
  /\ UNCHANGED <<storeVars, diskVars, waiting, handler, tries, outcome,
                 req, worker, adder, crashes>>

\* JobResult::Err, after the last retry.
JobFailed(i) ==
  LET j == slot[i].job IN
  /\ handler.at = "select"
  /\ slot[i].at = "running" /\ worker[j] = "err" /\ ~MayRetry(j)
  /\ EndTask(i)
  /\ worker' = [worker EXCEPT ![j] = "none"]
  /\ handler' = [at |-> "remove", job |-> j, failed |-> TRUE]
  /\ UNCHANGED <<storeVars, diskVars, channel, waiting, tries, outcome, req, adder, crashes>>

Become(to) == handler' = [at |-> to, job |-> handler.job, failed |-> handler.failed]

\* jobs_manager.remove, called for a job that is done and for one that failed.
BeginRemove ==
  /\ handler.at = "remove"
  /\ Store!Remove(Loop, JobId(handler.job))
  /\ Become("removing")
  /\ UNCHANGED <<diskVars, channel, slot, waiting, avail, tries, outcome,
                 req, worker, adder, crashes>>

EndRemove ==
  LET cleans == handler.failed /\ handler.job.kind = "convert" IN
  /\ handler.at = "removing"
  /\ Store!Unlock(Loop)
  /\ IF cleans THEN Become("cleanup") ELSE handler' = Selecting
  /\ outcome' = [outcome EXCEPT ![handler.job.req] =
                   IF handler.failed THEN "failed" ELSE "done"]
  /\ UNCHANGED <<diskVars, channel, slot, waiting, avail, tries, req, worker, adder, crashes>>

\* Action::Cleanup of a convert: remove_file(uploads/<id>).
Cleanup ==
  /\ handler.at = "cleanup"
  /\ upload' = [upload EXCEPT ![JobId(handler.job)] = NoUpload]
  /\ handler' = Selecting
  /\ UNCHANGED <<storeVars, temp, video, remote, channel, slot, waiting, avail, tries,
                 outcome, req, worker, adder, crashes>>

(***************************************************************************)
(* The future next_job spawned, and the writes of JobStore.                *)
(***************************************************************************)
AdderBegin(r) ==
  /\ adder[r] = "spawned"
  /\ Store!Add(Adder(r), IdOf[r], Job(r, "upload"))
  /\ adder' = [adder EXCEPT ![r] = "saving"]
  /\ UNCHANGED <<diskVars, taskVars, req, worker, crashes>>

AdderEnd(r) ==
  /\ adder[r] = "saving"
  /\ Store!Unlock(Adder(r))
  /\ adder' = [adder EXCEPT ![r] = "none"]
  /\ UNCHANGED <<diskVars, taskVars, req, worker, crashes>>

SaveStep(a) ==
  /\ Store!OpenFile(a) \/ Store!WriteFile(a)
  /\ UNCHANGED <<diskVars, taskVars, req, worker, adder, crashes>>

(***************************************************************************)
(* The workers: gen_job of the three kinds of job.  A step that may fail   *)
(* ends in "err"; the webhooks change nothing here and are left out.       *)
(***************************************************************************)
Move(j, to) == worker' = [worker EXCEPT ![j] = to]

\* ConvertJob::gen_job removes what an earlier run left, the published
\* directory included, and creates the temporary directory.
ConvertPrepare(j) ==
  /\ j.kind = "convert" /\ worker[j] = "start"
  /\ video' = [video EXCEPT ![JobId(j)] = Nothing]
  /\ \/ Move(j, "encode") /\ temp' = [temp EXCEPT ![JobId(j)] = Torn]
     \/ MayFail /\ Move(j, "err") /\ temp' = [temp EXCEPT ![JobId(j)] = Nothing]
  /\ UNCHANGED <<storeVars, upload, remote, taskVars, req, adder, crashes>>

\* A mutant: the playlist is made in videos/<id> itself, not renamed into it.
EncodeInPlace(j) ==
  LET i == JobId(j) IN
  /\ j.kind = "convert" /\ worker[j] = "encode"
  /\ \/ /\ ContentOf(upload[i]) # Nothing
        /\ Move(j, "publish")
        /\ temp' = [temp EXCEPT ![i] = ContentOf(upload[i])]
        /\ UNCHANGED video
     \/ /\ Move(j, "err")
        /\ video' = [video EXCEPT ![i] = Torn]
        /\ UNCHANGED temp
  /\ UNCHANGED <<storeVars, upload, remote, taskVars, req, adder, crashes>>

\* Remux or copy the input and encode it into the temporary directory.  FFmpeg
\* may fail at any time, and does if there is no input.
ConvertEncode(j) ==
  LET i == JobId(j) IN
  /\ j.kind = "convert" /\ worker[j] = "encode"
  /\ \/ /\ ContentOf(upload[i]) # Nothing
        /\ Move(j, "publish")
        /\ temp' = [temp EXCEPT ![i] = ContentOf(upload[i])]
     \/ Move(j, "err") /\ UNCHANGED temp
  /\ UNCHANGED <<storeVars, upload, video, remote, taskVars, req, adder, crashes>>

\* A mutant: the input is removed before the output is published.
PublishAfterUnlink(j) ==
  LET i == JobId(j) IN
  /\ j.kind = "convert" /\ worker[j] = "publish"
  /\ upload' = [upload EXCEPT ![i] = NoUpload]
  /\ \/ /\ Move(j, "unlink")
        /\ video' = [video EXCEPT ![i] = temp[i]]
        /\ temp' = [temp EXCEPT ![i] = Nothing]
     \/ MayFail /\ Move(j, "err") /\ UNCHANGED <<video, temp>>
  /\ UNCHANGED <<storeVars, remote, taskVars, req, adder, crashes>>

\* rename(temp, videos/<id>).
ConvertPublish(j) ==
  LET i == JobId(j) IN
  /\ j.kind = "convert" /\ worker[j] = "publish"
  /\ \/ /\ Move(j, "unlink")
        /\ video' = [video EXCEPT ![i] = temp[i]]
        /\ temp' = [temp EXCEPT ![i] = Nothing]
     \/ MayFail /\ Move(j, "err") /\ UNCHANGED <<video, temp>>
  /\ UNCHANGED <<storeVars, upload, remote, taskVars, req, adder, crashes>>

\* A mutant: the input is left behind.
UnlinkForgets(j) ==
  /\ j.kind = "convert" /\ worker[j] = "unlink"
  /\ Move(j, "ok")
  /\ UNCHANGED <<storeVars, diskVars, taskVars, req, adder, crashes>>

\* The input is removed once the output is in place.
ConvertUnlink(j) ==
  /\ j.kind = "convert" /\ worker[j] = "unlink"
  /\ Move(j, "ok")
  /\ upload' = [upload EXCEPT ![JobId(j)] = NoUpload]
  /\ UNCHANGED <<storeVars, temp, video, remote, taskVars, req, adder, crashes>>

\* UploadJob::gen_job: every file of videos/<id> goes to the bucket ...
UploadSend(j) ==
  LET i == JobId(j) IN
  /\ j.kind = "upload" /\ worker[j] = "start"
  /\ video[i] # Nothing
  /\ Move(j, "purge")
  /\ remote' = [remote EXCEPT ![i] = video[i]]
  /\ UNCHANGED <<storeVars, upload, temp, video, taskVars, req, adder, crashes>>

\* A mutant: a file that cannot be sent is skipped.
UploadSkips(j) ==
  LET i == JobId(j) IN
  /\ j.kind = "upload" /\ worker[j] = "start"
  /\ Move(j, "purge")
  /\ remote' = [remote EXCEPT ![i] = Torn]
  /\ UNCHANGED <<storeVars, upload, temp, video, taskVars, req, adder, crashes>>

\* ... or some do not, or the directory is missing.
UploadFails(j) ==
  LET i == JobId(j)
      mixed == IF video[i] \in {Nothing, remote[i]} THEN remote[i] ELSE Torn IN
  /\ j.kind = "upload" /\ worker[j] = "start"
  /\ Move(j, "err")
  /\ \E c \in {remote[i], mixed} : remote' = [remote EXCEPT ![i] = c]
  /\ UNCHANGED <<storeVars, upload, temp, video, taskVars, req, adder, crashes>>

\* remove_dir_all(videos/<id>) once every file has been sent.
UploadPurge(j) ==
  /\ j.kind = "upload" /\ worker[j] = "purge"
  /\ Move(j, "ok")
  /\ video' = [video EXCEPT ![JobId(j)] = Nothing]
  /\ UNCHANGED <<storeVars, upload, temp, remote, taskVars, req, adder, crashes>>

\* MigrateJob::gen_job copies between buckets; the source is left alone.
MigrateCopy(j) ==
  /\ j.kind = "migrate" /\ worker[j] = "start"
  /\ Move(j, "ok") \/ Move(j, "err")
  /\ UNCHANGED <<storeVars, diskVars, taskVars, req, adder, crashes>>

WorkerStep(j) ==
  \/ ConvertPrepare(j) \/ ConvertEncode(j) \/ ConvertPublish(j) \/ ConvertUnlink(j)
  \/ UploadSend(j) \/ UploadFails(j) \/ UploadPurge(j) \/ MigrateCopy(j)

(***************************************************************************)
(* The process dies and AppState::new starts it again: the disk is as it   *)
(* was, every future and thread is gone, retry_times are not serialized,   *)
(* and JobSetManager::new sends each loaded job, in the order of the list. *)
(***************************************************************************)
Loaded == {j \in Jobs : \E i \in Ids : Store!Load(file)[i] = j}

Orders(S) ==
  {f \in [1 .. Cardinality(S) -> S] :
     \A m, n \in 1 .. Cardinality(S) : f[m] = f[n] => m = n}

Abandoned(u) ==
  IF u.open = {} THEN u
  ELSE [exists |-> TRUE, has |-> u.has \cup {Torn}, open |-> {}]

Restart ==
  /\ crashes < MaxCrashes
  /\ crashes' = crashes + 1
  /\ Store!Reload
  /\ channel' \in Orders(Loaded)
  /\ slot' = [i \in Ids |-> NoTask]
  /\ waiting' = [k \in Kinds |-> <<>>]
  /\ avail' = [k \in Kinds |-> PoolLimit(k)]
  /\ handler' = Selecting
  /\ worker' = [j \in Jobs |-> "none"]
  /\ adder' = [r \in Requests |-> "none"]
  /\ tries' = [j \in Jobs |-> 0]
  /\ req' = [r \in Requests |-> IF req[r] \in InFlight THEN "dropped" ELSE req[r]]
  /\ upload' = [i \in Ids |-> Abandoned(upload[i])]
  /\ UNCHANGED <<temp, video, remote, outcome>>

ApiStep(r) ==
  \/ CheckExists(r) \/ OpenUpload(r) \/ ReceiveBody(r)
  \/ BeginAdd(r) \/ EndAdd(r) \/ SendJob(r) \/ DropRequest(r)

TaskStep(i) ==
  \/ QueueForPermits(i) \/ StartWorker(i) \/ NextJob(i) \/ JobDone(i)
  \/ RetryLater(i) \/ Retry(i) \/ JobFailed(i)

LoopStep == StartTask \/ SkipJob \/ BeginRemove \/ EndRemove \/ Cleanup

Next ==
  \/ \E r \in Requests : ApiStep(r) \/ AdderBegin(r) \/ AdderEnd(r)
  \/ \E i \in Ids : TaskStep(i)
  \/ \E j \in Jobs : WorkerStep(j)
  \/ \E a \in Actors : SaveStep(a)
  \/ LoopStep
  \/ Restart

Spec == Init /\ [][Next]_vars

(***************************************************************************)
(* The runtime schedules every future and thread that can go on, so each   *)
(* actor's steps are weakly fair; clients and crashes are not.  The one    *)
(* strong assumption is about the bucket: an upload that is tried again    *)
(* and again succeeds in the end.                                          *)
(***************************************************************************)
Fairness ==
  /\ WF_vars(LoopStep)
  /\ \A i \in Ids : WF_vars(TaskStep(i))
  /\ \A j \in Jobs : WF_vars(WorkerStep(j)) /\ SF_vars(UploadSend(j))
  /\ \A a \in Actors : WF_vars(SaveStep(a))
  /\ \A r \in Requests :
       /\ WF_vars(EndAdd(r)) /\ WF_vars(SendJob(r))
       /\ WF_vars(AdderBegin(r)) /\ WF_vars(AdderEnd(r))

FairSpec == Spec /\ Fairness

-------------------------------------------------------------------------------
\* No two workers ever run for one id: they would share temp/tmp-<id>,
\* /tmp/<id>-sanitized.mp4 and videos/<id>.  It must hold even when clients race
\* each other past the "already in-progress" check and across restarts, and
\* rests on the one slot per id of the handler's StreamMap.
OneWorkerPerId ==
  \A j1, j2 \in Jobs :
    worker[j1] # "none" /\ worker[j2] # "none" /\ JobId(j1) = JobId(j2) => j1 = j2

Queued(i)  == \E n \in DOMAIN channel : JobId(channel[n]) = i
HasWork(i) == slot[i] # NoTask \/ Queued(i)

\* If clients do not overlap requests for an id, every job that is queued or
\* running is recorded in the JobSetManager, so that a second submission is
\* refused and a restart would find it, although recording and removing happen
\* in other futures than sending and running.
PendingCoversWork == \A i \in Ids : HasWork(i) => jobs[i] # NoJob

\* If clients do not overlap requests for an id, there is never a second job of
\* an id that is queued or running: the handler's "already in-progress,
\* skipping" branch, which loses a job, is not taken.
OneJobPerId ==
  \A n \in DOMAIN channel :
    /\ slot[JobId(channel[n])] = NoTask
    /\ \A m \in DOMAIN channel : JobId(channel[m]) = JobId(channel[n]) => m = n

\* Why OneWorkerPerId holds: a slot holds a job of its own id, and a worker runs
\* only for the job in its id's slot, while that job's task awaits it.
SlotsPlaced == \A i \in Ids : slot[i] # NoTask => JobId(slot[i].job) = i

WorkerHasSlot ==
  /\ SlotsPlaced
  /\ \A j \in Jobs :
       worker[j] # "none" => slot[JobId(j)].job = j /\ slot[JobId(j)].at = "running"

\* Why PendingCoversWork and OneJobPerId hold when clients do not overlap, as an
\* inductive invariant: jobs are stored and run under their own id; a request
\* past its check has its id to itself, with no work for it and no removal
\* about to strike the entry it adds; and the handler removes an entry only
\* when its id's work is over.
Placed(s) == \A i \in Ids : s[i] # NoJob => JobId(s[i]) = i

JobsPlaced ==
  /\ Placed(jobs) /\ Placed(file.jobs) /\ SlotsPlaced
  /\ \A a \in Actors : Placed(flight[a].jobs)

ToRemove(i) == handler.at = "remove" /\ JobId(handler.job) = i

RequestOwnsId ==
  \A r \in Requests : req[r] \in InFlight =>
    /\ ~HasWork(IdOf[r]) /\ ~ToRemove(IdOf[r])
    /\ \A s \in Requests : req[s] \in InFlight /\ IdOf[s] = IdOf[r] => s = r
    /\ req[r] \in {"saving", "saved"} => jobs[IdOf[r]] # NoJob

RemovesLast ==
  handler.at = "remove" =>
    /\ handler.job \in Jobs
    /\ ~HasWork(JobId(handler.job)) /\ jobs[JobId(handler.job)] # NoJob

PendingInv ==
  PendingCoversWork /\ OneJobPerId /\ JobsPlaced /\ RequestOwnsId /\ RemovesLast

\* While every id is submitted once and nothing crashes, the video of an
\* accepted request that has not finally failed is always somewhere: as
\* uploaded, as published or in the bucket.
NoSourceLoss ==
  \A r \in Requests :
    KindOf[r] = "convert" /\ req[r] = "accepted" /\ outcome[r] # "failed" =>
      r \in {ContentOf(upload[IdOf[r]]), video[IdOf[r]], remote[IdOf[r]]}

\* A job reported done left its output where it is served from, made from the
\* bytes of its own request, and nothing of its input (bodies do not break off).
DoneIsServed ==
  \A r \in Requests :
    KindOf[r] = "convert" /\ outcome[r] = "done" =>
      /\ ContentOf(upload[IdOf[r]]) = Nothing
      /\ IF IsS3 THEN remote[IdOf[r]] = r /\ video[IdOf[r]] = Nothing
                 ELSE video[IdOf[r]] = r

\* The permits of pool k that are taken: those of its tasks that run, or sleep
\* before a retry, numbered per task.
Held(k) ==
  {p \in Ids \X (1 .. PoolLimit(k)) :
     LET t == slot[p[1]] IN
     t.at \in {"running", "sleeping"} /\ t.job.kind = k /\ p[2] <= Acquire(t.job)}

\* No permit is lost or made up: in each pool the free permits and those held
\* by tasks add up to the pool, through retries, failures and restarts.
PoolsBalanced ==
  \A k \in Kinds : avail[k] + Cardinality(Held(k)) = PoolLimit(k)

\* Whatever crashes happen, videos/<id> never holds a half-made playlist, nor
\* one made from a half-received upload (no overlapping, cancelled or broken
\* requests, no failing file system).
PublishedIsWhole == \A i \in Ids : video[i] # Torn

\* Every request that was answered 202 comes to an end: its job is done or has
\* finally failed, whatever the permits other jobs hold.
AcceptedJobEnds ==
  \A r \in Requests : req[r] = "accepted" ~> outcome[r] # "none"

\* What the comment in gen_task says, "Remove job from JobsManager when
\* processed successfully": when the job of the only request for an id is done
\* and nothing else runs for the id, the JobSetManager does not list it.
ProcessedIsRemoved ==
  \A r \in Requests :
    outcome[r] = "done" /\ lock = Free /\ adder[r] = "none" => jobs[IdOf[r]] = NoJob
===============================================================================
