------------------------------- MODULE JobStore -------------------------------
(***************************************************************************)
(* JobSetManager (crates/core/src/job/manager.rs): the set of pending jobs,*)
(* kept in memory behind an async mutex and mirrored in pending-jobs.json. *)
(*                                                                         *)
(* add and remove take the mutex, change the set and, still holding it,    *)
(* await tokio::fs::write.  That call runs std::fs::write on a blocking    *)
(* thread: it opens the file truncating it, then writes the new text.      *)
(* Dropping the future that awaits it releases the mutex but does not stop *)
(* the blocking thread, so a cancelled request leaves a detached write.    *)
(*                                                                         *)
(* The Vec of jobs holds at most one job per id (add retains the others    *)
(* and pushes), so it is a function from ids; its order is only used to    *)
(* re-send the jobs at startup, and the pipeline allows every order there. *)
(***************************************************************************)
EXTENDS Naturals, FiniteSets

CONSTANTS
  Ids,        \* job ids
  Payloads,   \* the jobs themselves, as stored
  NoJob,      \* an id without a stored job
  Actors,     \* the futures that call add and remove
  Free,       \* the mutex, when nobody holds it
  MayDrop,    \* TRUE if a future may be dropped while it awaits the save
  MayFail     \* TRUE if the file system may refuse to open or write

ASSUME StoreAssumption ==
  /\ NoJob \notin Payloads
  /\ Free \notin Actors
  /\ MayDrop \in BOOLEAN
  /\ MayFail \in BOOLEAN

VARIABLES
  jobs,     \* JobSetManager.jobs: the set in memory
  file,     \* pending-jobs.json
  lock,     \* who holds the mutex
  flight,   \* per actor, its tokio::fs::write, if one is under way
  faulty    \* history: a save was cancelled or refused since the last start

storeVars == <<jobs, file, lock, flight, faulty>>

JobSets == [Ids -> Payloads \cup {NoJob}]
NoJobs  == [i \in Ids |-> NoJob]

\* A file is blank after its truncation, garbled when one write landed on top
\* of another, and holds its text otherwise.
Files == [text : {"blank", "garbled", "json"}, jobs : JobSets]
Blank   == [text |-> "blank", jobs |-> NoJobs]
Garbled == [text |-> "garbled", jobs |-> NoJobs]
Json(s) == [text |-> "json", jobs |-> s]

Flights == [stage : {"none", "queued", "opened"}, jobs : JobSets]
NoWrite == [stage |-> "none", jobs |-> NoJobs]

StoreTypeOK ==
  /\ jobs \in JobSets
  /\ file \in Files
  /\ lock \in Actors \cup {Free}
  /\ flight \in [Actors -> Flights]
  /\ faulty \in BOOLEAN

(***************************************************************************)
(* JobSetManager::new: a file that is missing reads as no jobs, and so     *)
(* does one that does not parse (unwrap_or_default).                       *)
(***************************************************************************)
Load(f) == IF f.text = "json" THEN f.jobs ELSE NoJobs

\* A mutant: the mutex guard is dropped before the save is awaited.
ChangeUnlocked(a, s) ==
  /\ lock = Free
  /\ flight[a].stage = "none"
  /\ jobs' = s
  /\ flight' = [flight EXCEPT ![a] = [stage |-> "queued", jobs |-> s]]
  /\ UNCHANGED <<lock, file, faulty>>

\* A mutant: the text to save is made before the change.
ChangeSavesOld(a, s) ==
  /\ lock = Free
  /\ flight[a].stage = "none"
  /\ lock' = a
  /\ jobs' = s
  /\ flight' = [flight EXCEPT ![a] = [stage |-> "queued", jobs |-> jobs]]
  /\ UNCHANGED <<file, faulty>>

\* Taking the mutex, changing the set and starting the save, without an await
\* that could let another future in between.
Change(a, s) ==
  /\ lock = Free
  /\ flight[a].stage = "none"
  /\ lock' = a
  /\ jobs' = s
  /\ flight' = [flight EXCEPT ![a] = [stage |-> "queued", jobs |-> s]]
  /\ UNCHANGED <<file, faulty>>

Add(a, i, p) == Change(a, [jobs EXCEPT ![i] = p])

Remove(a, i) == Change(a, [jobs EXCEPT ![i] = NoJob])

\* std::fs::write, first half: File::create truncates the file, or fails and
\* leaves it alone.  A failed save is only logged.
OpenFile(a) ==
  /\ flight[a].stage = "queued"
  /\ \/ /\ file' = Blank
        /\ flight' = [flight EXCEPT ![a] =
             [stage |-> "opened", jobs |-> flight[a].jobs]]
        /\ UNCHANGED faulty
     \/ /\ MayFail
        /\ flight' = [flight EXCEPT ![a] = NoWrite]
        /\ faulty' = TRUE
        /\ UNCHANGED file
  /\ UNCHANGED <<jobs, lock>>

\* std::fs::write, second half: the text goes to offset 0 of a file that a
\* detached write may have filled since the truncation.
WriteFile(a) ==
  /\ flight[a].stage = "opened"
  /\ \/ file' = Json(flight[a].jobs) /\ UNCHANGED faulty
     \/ file.text # "blank" /\ file' = Garbled /\ UNCHANGED faulty
     \/ MayFail /\ file' = Blank /\ faulty' = TRUE
  /\ flight' = [flight EXCEPT ![a] = NoWrite]
  /\ UNCHANGED <<jobs, lock>>

\* add or remove returns: the guard is dropped.
Unlock(a) ==
  /\ lock = a
  /\ flight[a].stage = "none"
  /\ lock' = Free
  /\ UNCHANGED <<jobs, file, flight, faulty>>

\* The future of a is dropped while it awaits the write; the write goes on.
DropSaver(a) ==
  /\ MayDrop
  /\ lock = a
  /\ flight[a].stage # "none"
  /\ lock' = Free
  /\ faulty' = TRUE
  /\ UNCHANGED <<jobs, file, flight>>

\* The process dies and starts again: new() reads the file.
Reload ==
  /\ jobs' = Load(file)
  /\ lock' = Free
  /\ flight' = [a \in Actors |-> NoWrite]
  /\ faulty' = FALSE
  /\ UNCHANGED file

StoreInit ==
  /\ jobs = NoJobs
  /\ file = Json(NoJobs)
  /\ lock = Free
  /\ flight = [a \in Actors |-> NoWrite]
  /\ faulty = FALSE

StoreNext ==
  \/ \E a \in Actors, i \in Ids :
        \/ \E p \in Payloads : Add(a, i, p)
        \/ Remove(a, i)
  \/ \E a \in Actors : OpenFile(a) \/ WriteFile(a) \/ Unlock(a) \/ DropSaver(a)
  \/ Reload

StoreSpec == StoreInit /\ [][StoreNext]_storeVars

-------------------------------------------------------------------------------
\* At rest, restarting changes nothing: with no call of add or remove under
\* way and no write in flight, the file loads to exactly the set in memory,
\* whatever interleaving of add, remove and earlier restarts led here, as long
\* as no save was cancelled or refused since the last start.
FileTracksJobs ==
  /\ ~faulty
  /\ lock = Free /\ (\A a \in Actors : flight[a].stage = "none")
  => Load(file) = jobs

\* A save repairs what cancelled and failed saves left behind: when a future
\* that still awaits its write sees it land in the file as it was truncated,
\* the file loads to the set in memory, even though other writes may have been
\* detached or refused before.
SaveRepairs ==
  [][\A a \in Actors :
       /\ lock = a /\ flight[a].stage = "opened" /\ file.text = "blank"
       /\ flight'[a].stage = "none" /\ file'.text # "blank"
       => Load(file') = jobs']_storeVars

\* Why FileTracksJobs holds: without a fault, only the holder of the mutex has a
\* write in flight, and that write carries the set in memory.
HolderWrites ==
  \A a \in Actors :
    ~faulty /\ flight[a].stage # "none" => lock = a /\ flight[a].jobs = jobs

\* Between truncation and write the file is blank; otherwise it is behind
\* memory only while the holder has not opened it yet.
FileOfStage ==
  \A a \in Actors : ~faulty =>
    /\ flight[a].stage = "opened" => file = Blank
    /\ flight[a].stage = "none" /\ lock = a => Load(file) = jobs

StoreInv == StoreTypeOK /\ HolderWrites /\ FileOfStage /\ FileTracksJobs
===============================================================================
