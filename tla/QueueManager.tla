---------------------------- MODULE QueueManager ----------------------------
(***************************************************************************)
(* QueueManagerService: the BullMQ queue of one user and the worker that   *)
(* executes its jobs with the user's API key.  The queue and its jobs are  *)
(* in Redis and outlive the API; the worker is an object of the API        *)
(* process, and there is none until something is enqueued.                 *)
(*                                                                         *)
(* A job reads the task, reads the connection, marks the task RUNNING,     *)
(* calls the Anthropic API and writes what comes of it: one action per     *)
(* statement, for the user's requests run in between.                      *)
(***************************************************************************)
EXTENDS TaskTable, Connection, FiniteSets

CONSTANTS
    JobIds,     \* bound: jobs waiting, delayed or running at once
    Answers     \* bound: what a call may come to, among AllAnswers

AllAnswers == {"text",      \* a response
               "error",     \* an exception that is neither of the next two
               "limited",   \* 429, 529 or the like
               "undated",   \* the same, with a retry-after that is no number
              "garbled"}   \* there is no call: the key cannot be decrypted

ASSUME AnswersAssumption == Answers \subseteq AllAnswers
ASSUME JobIdsAssumption  == IsFiniteSet(JobIds)

VARIABLES
    job,        \* job[j]: a job and, once the worker has it, where process() is
    worker      \* concurrency of the user's worker, 0 if there is none

queueVars == <<job, worker>>

Running  == {"check", "key", "fail", "start", "call", "delay"}
Pending  == {"waiting", "delayed", "stalled"}
Job      == [pc : Running \cup Pending, task : Tasks]
NoJob    == [pc |-> "none", task |-> NoTask]

QueueInit ==
    /\ job = [j \in JobIds |-> NoJob]
    /\ worker = 0

QueueTypeOK ==
    /\ job \in [JobIds -> Job \cup {NoJob}]
    /\ worker \in 0..MaxLimit

At(j, pc)  == job[j].pc = pc
JobsOf(t)  == {j \in JobIds : job[j].task = t}
Executing  == {j \in JobIds : job[j].pc \in Running}

-----------------------------------------------------------------------------
Goto(j, pc) == job' = [job EXCEPT ![j].pc = pc]
Done(j)     == job' = [job EXCEPT ![j] = NoJob]

(* ensureWorker and add.  `limit' is what enqueue has read before.         *)
(* Mutant: ensureWorker is forgotten.                                      *)
AddOnly(t, limit) ==
    /\ worker' = worker
    /\ \E j \in JobIds : job[j] = NoJob /\ job' = [job EXCEPT ![j] = [pc |-> "waiting", task |-> t]]
AddJob(t, limit) ==
    /\ worker' = limit
    /\ \E j \in JobIds : job[j] = NoJob /\ job' = [job EXCEPT ![j] = [pc |-> "waiting", task |-> t]]

SyncConcurrency(limit) == worker' = IF worker = 0 THEN 0 ELSE limit

(* BullMQ: the worker takes a waiting job if it has room for it; a delayed *)
(* job waits again when its time has come; a job whose worker has gone is  *)
(* found stalled and waits again.  All of that is the worker's doing.      *)
(* Mutant: a worker runs whatever there is.                                *)
AnyRoom == worker # 0
HasRoom == Cardinality(Executing) < worker

Take(j) ==
    /\ At(j, "waiting") /\ HasRoom
    /\ Goto(j, "check")
    /\ UNCHANGED <<worker, tableVars>>

Wake(j) ==
    /\ At(j, "delayed") \/ At(j, "stalled")
    /\ worker # 0
    /\ Goto(j, "waiting")
    /\ UNCHANGED <<worker, tableVars>>

-----------------------------------------------------------------------------
(* process: the task is gone, or the user has stopped it.                  *)
Check(j) ==
    /\ At(j, "check")
    /\ IF row[job[j].task].status \in {"NONE", "CANCELED", "PAUSED"} THEN Done(j) ELSE Goto(j, "key")
    /\ UNCHANGED <<worker, tableVars>>

CheckKey(j) ==
    /\ At(j, "key")
    /\ Goto(j, IF connection.key THEN "start" ELSE "fail")
    /\ UNCHANGED <<worker, tableVars>>

(* The three guarded UPDATEs of a job.                                     *)
Write(t, status) ==
    row' = [row EXCEPT ![t] = IF Writable(@) THEN [@ EXCEPT !.status = status] ELSE @]

Fail(j) ==
    /\ At(j, "fail")
    /\ Write(job[j].task, "FAILED")
    /\ Done(j)
    /\ UNCHANGED <<worker, created>>

(* A task that has been removed makes emitUpdated throw, which ends the    *)
(* job.                                                                    *)
Start(j) ==
    /\ At(j, "start")
    /\ Write(job[j].task, "RUNNING")
    /\ IF Exists(job[j].task) THEN Goto(j, "call") ELSE Done(j)
    /\ UNCHANGED <<worker, created>>

(* handleExecutionError writes PAUSED_RATE_LIMIT over any status.  With a  *)
(* date that is none the UPDATE itself fails, and the job with it; so it   *)
(* does if the key cannot be decrypted.                                    *)
Limited(t) ==
    row' = [row EXCEPT ![t] = IF Exists(t) THEN [@ EXCEPT !.status = "PAUSED_RATE_LIMIT"] ELSE @]

(* What follows a call.  Mutant: a limited task is never enqueued again.   *)
NotAgain(t, answer) == FALSE
Again(t, answer)    == answer = "limited" /\ Exists(t)

Answer(j, answer) ==
    LET t == job[j].task
    IN  /\ At(j, "call")
        /\ CASE answer = "text"    -> Write(t, "COMPLETED")
             [] answer = "error"   -> Write(t, "FAILED")
             [] answer = "limited" -> Limited(t)
             [] answer \in {"undated", "garbled"} -> UNCHANGED row
        /\ IF Again(t, answer) THEN Goto(j, "delay") ELSE Done(j)
        /\ UNCHANGED <<worker, created>>

(* The delayed job is added before the one that adds it is over; here the  *)
(* one becomes the other.                                                  *)
Delay(j) == At(j, "delay") /\ Goto(j, "delayed") /\ UNCHANGED <<worker, tableVars>>

(* The API process dies: the worker goes, its jobs are left active.        *)
WorkerDies ==
    /\ worker' = 0
    /\ job' = [j \in JobIds |-> IF job[j].pc \in Running THEN [job[j] EXCEPT !.pc = "stalled"] ELSE job[j]]
=============================================================================
