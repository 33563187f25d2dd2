------------------------------ MODULE ApiMode ------------------------------
(***************************************************************************)
(* API_KEY mode: the REST handlers, the settings and the queue over one    *)
(* table of tasks.  No device takes part, and the passes the handlers ask  *)
(* the dispatcher for end at once.                                         *)
(***************************************************************************)
EXTENDS TasksService, QueueManager

CONSTANTS
    Deletable,  \* bound: the tasks the user may remove
    Saves,      \* bound: how many PUTs of the settings are under way at once
    MaxCrashes  \* bound: how often the API process dies

ASSUME MaxCrashesAssumption == MaxCrashes \in Nat

VARIABLES
    enqueuing,  \* enqueuing[r]: what enqueue has read and is to enqueue
    syncing,    \* syncing[s]: the limit a PUT of the settings has stored and
                \* has yet to hand the worker, 0 if it has none
    crashes     \* how often the API has died

apiVars == <<tableVars, connection, req, queueVars, enqueuing, syncing, crashes>>

Nothing == [step |-> "none", task |-> NoTask, limit |-> 0]
NoneToSync == [s \in Saves |-> 0]
Enqueue == [step : {"none", "read", "add"}, task : Tasks \cup {NoTask}, limit : 0..MaxLimit]

ApiInit ==
    /\ TableInit
    /\ ConnectionInit
    /\ TasksInit
    /\ QueueInit
    /\ enqueuing = [r \in Requests |-> Nothing]
    /\ syncing = NoneToSync
    /\ crashes = 0

ApiTypeOK ==
    /\ TableTypeOK
    /\ ConnectionTypeOK
    /\ TasksTypeOK
    /\ QueueTypeOK
    /\ enqueuing \in [Requests -> Enqueue]
    /\ syncing \in [Saves -> 0..MaxLimit]
    /\ crashes \in 0..MaxCrashes

-----------------------------------------------------------------------------
aside == <<queueVars, syncing, crashes, connection>>

(* A request is over when what it enqueues is enqueued.                    *)
Ready(r) == enqueuing[r] = Nothing

CreateTask(r)      == Ready(r) /\ Create(r) /\ UNCHANGED <<aside, enqueuing>>
LoadTask(r, op, t) == Ready(r) /\ Load(r, op, t) /\ UNCHANGED <<aside, enqueuing>>
UpdateTask(r)      == Update(r) /\ UNCHANGED <<aside, enqueuing>>

(* The type has been read: enqueue.                                        *)
RouteTask(r) ==
    /\ Route(r)
    /\ enqueuing' = [enqueuing EXCEPT ![r] = [step |-> "read", task |-> req[r].task, limit |-> 0]]
    /\ UNCHANGED aside

ReadLimit(r) ==
    /\ enqueuing[r].step = "read"
    /\ enqueuing' = [enqueuing EXCEPT ![r].step = "add", ![r].limit = connection.limit]
    /\ UNCHANGED <<aside, req, tableVars>>

Add(r) ==
    /\ enqueuing[r].step = "add"
    /\ AddJob(enqueuing[r].task, enqueuing[r].limit)
    /\ enqueuing' = [enqueuing EXCEPT ![r] = Nothing]
    /\ UNCHANGED <<connection, syncing, crashes, req, tableVars>>

Delete(t) == t \in Deletable /\ Remove(t) /\ UNCHANGED <<aside, enqueuing>>

(* PUT /connection: the UPSERT, and after an await the worker's            *)
(* concurrency.  Nothing keeps two of them apart, and those that are under *)
(* way reach the worker in any order.                                      *)
Save(s, limit, newKey) ==
    /\ syncing[s] = 0
    /\ SaveConnection("API_KEY", limit, newKey)
    /\ syncing' = [syncing EXCEPT ![s] = limit]
    /\ UNCHANGED <<queueVars, crashes, enqueuing, req, tableVars>>

Sync(s) ==
    /\ syncing[s] # 0
    /\ SyncConcurrency(syncing[s])
    /\ syncing' = [syncing EXCEPT ![s] = 0]
    /\ UNCHANGED <<job, crashes, connection, enqueuing, req, tableVars>>

(* The API dies and is started again: what was in its memory is gone.      *)
Crash ==
    /\ crashes < MaxCrashes
    /\ crashes' = crashes + 1
    /\ WorkerDies
    /\ req' = [r \in Requests |-> Idle]
    /\ enqueuing' = [r \in Requests |-> Nothing]
    /\ syncing' = NoneToSync
    /\ UNCHANGED <<connection, tableVars>>

RequestGoesOn(r) == UpdateTask(r) \/ RouteTask(r) \/ ReadLimit(r) \/ Add(r)

JobGoesOn(j) ==
    /\ Wake(j) \/ Check(j) \/ CheckKey(j) \/ Fail(j) \/ Start(j) \/ Delay(j)
    /\ UNCHANGED <<connection, req, enqueuing, syncing, crashes>>

TakeJob(j) == Take(j) /\ UNCHANGED <<connection, req, enqueuing, syncing, crashes>>

EndCall(j, answer) == Answer(j, answer) /\ UNCHANGED <<connection, req, enqueuing, syncing, crashes>>

ApiNext ==
    \/ \E r \in Requests : \/ CreateTask(r)
                           \/ \E op \in Ops, t \in Tasks : LoadTask(r, op, t)
                           \/ RequestGoesOn(r)
    \/ \E t \in Tasks : Delete(t)
    \/ \E s \in Saves : Sync(s) \/ \E limit \in Limits, newKey \in BOOLEAN : Save(s, limit, newKey)
    \/ \E j \in JobIds : JobGoesOn(j) \/ TakeJob(j) \/ \E answer \in Answers : EndCall(j, answer)
    \/ Crash

ApiSpec == ApiInit /\ [][ApiNext]_apiVars

(* The API and BullMQ go on; a call returns, and not always with a rate    *)
(* limit.  A job is not passed over for ever.                              *)
ApiFairness ==
    /\ \A r \in Requests : WF_apiVars(RequestGoesOn(r))
    /\ \A s \in Saves : WF_apiVars(Sync(s))
    /\ \A j \in JobIds : /\ WF_apiVars(JobGoesOn(j))
                         /\ SF_apiVars(TakeJob(j))
                         /\ WF_apiVars(\E answer \in Answers : EndCall(j, answer))
                         /\ SF_apiVars(\E answer \in Answers \cap {"text", "error"} : EndCall(j, answer))
FairApiSpec == ApiSpec /\ ApiFairness

-----------------------------------------------------------------------------
(* Someone in the API process is about to write or to enqueue the task.    *)
InHand(t) == \E r \in Requests : req[r].task = t \/ enqueuing[r].task = t

(* As long as the API has not died, a task that waits or runs has a job    *)
(* that will take it further and a worker to run the job, or a request is  *)
(* about to give it both: "no manual intervention needed"                  *)
(* (queue-manager.service.ts:137).                                         *)
NothingStranded ==
    crashes = 0 =>
        \A t \in Tasks : row[t].status \in Waiting \cup Occupying
                            => InHand(t) \/ (JobsOf(t) # {} /\ worker # 0)

(* A task with a job is finished in the end, or stopped by its user, as    *)
(* long as there is a worker: also if the API died while it waited, ran or *)
(* was delayed, and only the next enqueueing brought the worker back.      *)
HasJob(t) == row[t].status \in Waiting \cup Occupying /\ JobsOf(t) # {}
JobsAreWorkedOff ==
    \A t \in Tasks : (HasJob(t) /\ worker # 0)
                        ~> (worker = 0 \/ row[t].status \in Finished \cup {"NONE", "PAUSED"})

(* The queue is worked off automatically, "server-side, 24/7"              *)
(* (README.md:9-13).                                                       *)
ApiQueueIsWorkedOff ==
    \A t \in Tasks : row[t].status = "QUEUED" ~> row[t].status \in Finished \cup {"NONE", "PAUSED"}

(* "Concurrency 1-4 per user, taking effect immediately in both modes"     *)
(* (README.md:28): once no request and no save is under way, the worker    *)
(* runs as many jobs as the settings say.                                  *)
LimitTakesEffect ==
    (/\ \A r \in Requests : req[r].at = "idle" /\ Ready(r)
     /\ syncing = NoneToSync)
        => worker \in {0, connection.limit}

-----------------------------------------------------------------------------
(* The user's worker holds the tasks whose jobs it executes.               *)
Executed(t) == \E j \in JobsOf(t) : job[j].pc \in Running

Allocation == INSTANCE Allocator WITH
    Clients <- Tasks, Holders <- {"worker"}, Nobody <- "nobody", room <- worker,
    waiting <- {t \in Tasks : \E j \in JobsOf(t) : job[j].pc \in Pending},
    holder  <- [t \in Tasks |-> IF Executed(t) THEN "worker" ELSE "nobody"]

(* The queue hands tasks to the worker as Allocator promises, also when    *)
(* the API dies in the middle of it: a task is executed out of the queue   *)
(* only, once at a time, and never beside as many others as the worker's   *)
(* concurrency at that moment (queue-manager.service.ts:39-76).            *)
QueueAllocates == Allocation!AllocSpec
=============================================================================
