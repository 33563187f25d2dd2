------------------------------ MODULE Platform ------------------------------
(***************************************************************************)
(* The server with both of its execution modes: the REST handlers, the     *)
(* settings that switch between the modes, the gateway with its devices    *)
(* and the queue with its worker, over one table of tasks.  A switch moves *)
(* nothing: what has been enqueued stays in Redis and what has been handed *)
(* to a device stays there.                                                *)
(***************************************************************************)
EXTENDS ApiMode, Gateway

CONSTANT MaxTurns   \* bound: calls on a task (not its deletion), saves, connections, removals of devices and crashes, all in all

ASSUME MaxTurnsAssumption == MaxTurns \in Nat

Server == INSTANCE LocalServer

VARIABLES
    turns,      \* how many of them there have been
    handed,     \* history: <<d, t>> when t has been handed to device d
    straddling, \* history: the tasks that were there when the modes changed, or
                \* were claimed by a pass that was under way then
    old,        \* history: the passes that were under way then
    resumed,    \* history: the tasks resumed while they had a job
    stuck,      \* history: the tasks whose job ended without writing them
    contended   \* history: at the last save since the API was started another
                \* one or an enqueue held a limit it had read before

history      == <<handed, straddling, old, resumed, stuck, contended>>
platformVars == <<apiVars, gatewayVars, turns, history>>

(* The user has stored a key when the tasks begin.                         *)
PlatformInit ==
    /\ TableInit /\ TasksInit /\ QueueInit /\ GatewayInit
    /\ connection = [type |-> "API_KEY", limit |-> DefaultLimit, key |-> TRUE]
    /\ enqueuing = [r \in Requests |-> Nothing] /\ syncing = NoneToSync
    /\ crashes = 0 /\ turns = 0
    /\ handed = {} /\ straddling = {} /\ old = {} /\ resumed = {} /\ stuck = {} /\ contended = FALSE

PlatformTypeOK ==
    /\ ApiTypeOK
    /\ GatewayTypeOK
    /\ turns \in 0..MaxTurns
    /\ handed \subseteq Devices \X Tasks
    /\ old \subseteq Passes /\ straddling \subseteq Tasks /\ resumed \subseteq Tasks /\ stuck \subseteq Tasks
    /\ contended \in BOOLEAN

Counted == turns < MaxTurns /\ turns' = turns + 1

queueSide == <<queueVars, enqueuing, syncing, crashes>>

-----------------------------------------------------------------------------
(* The handlers.                                                           *)
CreateOrLoad(r) ==
    /\ \/ CreateTask(r) /\ UNCHANGED turns
       \/ (\E op \in Ops, t \in Tasks : LoadTask(r, op, t)) /\ Counted
    /\ UNCHANGED <<gatewayVars, history>>

Resumes(r) == req[r].op = "resume" /\ JobsOf(req[r].task) # {}

UpdateRow(r) ==
    /\ Server!UpdateTask(r)
    /\ resumed' = IF Resumes(r) THEN resumed \cup {req[r].task} ELSE resumed
    /\ UNCHANGED <<queueSide, handed, straddling, old, stuck, contended, turns>>

(* The mode is read when the task is there.  Mutant: it does not matter.   *)
EnqueuedAlways(type) == TRUE
Enqueued(type)       == type = "API_KEY"

RouteToQueue(r) ==
    /\ Enqueued(connection.type)
    /\ RouteTask(r)
    /\ UNCHANGED <<gatewayVars, turns, history>>

RouteToDevices(r) ==
    /\ connection.type = "LOCAL_CLI"
    /\ Server!RouteTask(r)
    /\ UNCHANGED <<queueSide, turns, history>>

(* An enqueue that was begun in API_KEY mode ends in whatever mode.        *)
EnqueueRead(r) == ReadLimit(r) /\ UNCHANGED <<gatewayVars, turns, history>>

EnqueueAdd(r)  == Add(r) /\ UNCHANGED <<gatewayVars, turns, history>>

DeleteTask(t) ==
    /\ t \in Deletable
    /\ Server!RemoveTask(t)
    /\ UNCHANGED <<queueSide, turns, history>>

-----------------------------------------------------------------------------
(* Something under way has read a limit and has yet to hand it the worker. *)
Overlapped == syncing # NoneToSync \/ \E r \in Requests : enqueuing[r].step = "add"

(* PUT /connection: the worker's concurrency, or a pass, after the UPSERT. *)
(* Mutant: the limit is left to the next enqueue.                          *)
NotSynced(s, type, limit) == UNCHANGED syncing
Synced(s, type, limit)    == syncing' = IF type = "API_KEY" THEN [syncing EXCEPT ![s] = limit] ELSE syncing

Switch(s, type, limit) ==
    /\ syncing[s] = 0 /\ Counted
    /\ Server!Configure(type, limit)
    /\ Synced(s, type, limit)
    /\ contended' = Overlapped
    /\ straddling' = IF type = connection.type THEN straddling
                     ELSE straddling \cup {t \in Tasks : Exists(t)}
    /\ old' = IF type = connection.type THEN old ELSE {p \in Passes : pass[p].pc # "free"}
    /\ UNCHANGED <<queueVars, enqueuing, crashes, handed, resumed, stuck>>

SyncWorker(s) == Sync(s) /\ UNCHANGED <<gatewayVars, turns, history>>

-----------------------------------------------------------------------------
(* The dispatcher and the devices.  A device reports on what it was handed.*)
StillOld == old' = {p \in old : pass'[p].pc # "free"}

DispatchOn(p) ==
    /\ \/ ReadConnection(p) \/ ReadDevices(p) \/ SendAssign(p)
       \/ \E d \in Devices : CountSlots(p, d)
    /\ StillOld
    /\ UNCHANGED <<connection, req, queueSide, turns, handed, straddling, resumed, stuck, contended>>

ClaimTask(p) ==
    LET claimed == {t \in Tasks : row[t].status = "QUEUED" /\ row'[t].status = "RUNNING"}
    IN  /\ Server!ClaimOldest(p)
        /\ handed' = handed \cup ({pass[p].dev} \X claimed)
        /\ straddling' = IF p \in old THEN straddling \cup claimed ELSE straddling
        /\ StillOld
        /\ UNCHANGED <<connection, req, queueSide, resumed, stuck, contended, turns>>

SessionOn ==
    /\ Server!SessionStep
    /\ IF \E s \in Sessions : session[s] = NoSession /\ session'[s] # NoSession
       THEN Counted ELSE UNCHANGED turns
    /\ UNCHANGED <<connection, req, queueSide, history>>

DeleteDevice(d) ==
    /\ RemoveDevice(d) /\ Counted
    /\ UNCHANGED <<connection, req, queueSide, history>>

ReportOn(t) ==
    /\ \/ ApplyReport(t)
       \/ \E s \in Sessions, rep \in Reports :
              <<session[s].device, t>> \in handed /\ Receive(s, t, rep)
    /\ UNCHANGED <<connection, req, queueSide, turns, history>>

-----------------------------------------------------------------------------
(* The worker.                                                             *)
WorkerOn(j) ==
    /\ TakeJob(j) \/ JobGoesOn(j) \/ \E answer \in Answers : EndCall(j, answer)
    /\ stuck' = IF At(j, "call") /\ row' = row /\ Writable(row[job[j].task]) /\ job'[j] = NoJob
                THEN stuck \cup {job[j].task} ELSE stuck
    /\ UNCHANGED <<gatewayVars, handed, straddling, old, resumed, contended, turns>>

(* The API dies: sessions, chains and passes are gone, and nobody marks    *)
(* the devices OFFLINE.                                                    *)
Die ==
    /\ Crash /\ Counted
    /\ session' = [s \in Sessions |-> NoSession]
    /\ chain'   = [t \in Tasks |-> <<>>]
    /\ pass'    = [p \in Passes |-> NoRun]
    /\ dispatchChain' = NoPass
    /\ overlooked' = TRUE
    /\ contended' = FALSE
    /\ old' = {}
    /\ UNCHANGED <<device, handed, straddling, resumed, stuck>>

PlatformNext ==
    \/ \E r \in Requests : \/ CreateOrLoad(r) \/ UpdateRow(r) \/ RouteToQueue(r)
                           \/ RouteToDevices(r) \/ EnqueueRead(r) \/ EnqueueAdd(r)
    \/ \E t \in Tasks : DeleteTask(t) \/ ReportOn(t)
    \/ \E s \in Saves : \/ SyncWorker(s)
                         \/ \E type \in Modes, limit \in Limits : Switch(s, type, limit)
    \/ \E p \in Passes : DispatchOn(p) \/ ClaimTask(p)
    \/ SessionOn
    \/ \E d \in Devices : DeleteDevice(d)
    \/ \E j \in JobIds : WorkerOn(j)
    \/ Die

PlatformSpec == PlatformInit /\ [][PlatformNext]_platformVars

-----------------------------------------------------------------------------
(* Neither the API nor the dispatcher is in the middle of something.       *)
Quiet ==
    /\ \A p \in Passes : pass[p].pc = "free"
    /\ \A r \in Requests : req[r].at = "idle" /\ Ready(r)
    /\ syncing = NoneToSync

(* A task that a device holds is in no queue: only one that was there when *)
(* the modes changed, or that an enqueue or a pass begun before takes up   *)
(* afterwards (claude-connection.service.ts:90-94).                        *)
OneExecutor ==
    \A t \in Tasks : JobsOf(t) # {} /\ row[t].device # NoDevice /\ row[t].status \in Occupying
                        => t \in straddling

(* A task has a second job, and is executed twice, only if it was resumed  *)
(* while it had one, or was there when the modes changed                   *)
(* (queue-manager.service.ts:63-71, tasks.service.ts:113-126).             *)
SecondJobExplained ==
    \A t \in Tasks : Cardinality(JobsOf(t)) > 1 => t \in resumed \cup straddling

(* In API_KEY mode every task that is to be executed has a job and a       *)
(* worker: without a crash, only one that was there when the modes changed *)
(* or whose job failed before it could write has none.                     *)
StrandedExplained ==
    Quiet /\ connection.type = "API_KEY" /\ crashes = 0 =>
        \A t \in Tasks : row[t].status \in Waiting \cup Occupying
                            => (JobsOf(t) # {} /\ worker # 0) \/ t \in straddling \cup stuck

(* A save that no other one and no enqueue overlapped takes effect, and    *)
(* nothing that comes later undoes it, be it enqueues that add what they   *)
(* have read, switches to and fro or a new worker: at rest the worker runs *)
(* as many jobs as the settings say                                        *)
(* (claude-connection.service.ts:90-91, queue-manager.service.ts:63-76).   *)
WorkerFollowsLimit ==
    Quiet /\ connection.type = "API_KEY" /\ worker # 0 => worker = connection.limit \/ contended

(* What may write a row that is finished: a request that checked it        *)
(* before, the answer of a call, or a report.                              *)
ByRequest(t) == \E r \in Requests : req[r].task = t /\ UpdateRow(r)
ByLimit(t)   == \E j \in JobsOf(t) : At(j, "call") /\ job'[j].pc = "delay"
ByReport(t)  == ApplyReport(t)

Left(t, status) == row[t].status = status /\ row'[t].status \notin {status, "NONE"}

(* A task that has been cancelled stays so, in both modes, but for a call  *)
(* answered with a rate limit, and where requests come several at a time   *)
(* for one that checked it before: no claim, no report, no disconnect, no  *)
(* other end of a job, and no request that is alone brings it back         *)
(* (queue-manager.service.ts:95-141, realtime.gateway.ts:157-170,          *)
(* tasks.service.ts:78-159).                                               *)
SeveralRequests == \E q, r \in Requests : q # r
CancelExplained ==
    [][\A t \in Tasks :
          Left(t, "CANCELED") => ByLimit(t) \/ (SeveralRequests /\ ByRequest(t))]_platformVars

(* A task that has been completed stays so, but for a request that checked *)
(* it before, for the report of a device that was handed it, and for a     *)
(* task with an executor too many: no pass hands it out again              *)
(* (realtime.gateway.ts:227-233, tasks.service.ts:78-143).                 *)
CompletedExplained ==
    [][\A t \in Tasks : Left(t, "COMPLETED") => \/ ByRequest(t) \/ ByReport(t)
                                                \/ t \in straddling \cup resumed]_platformVars

(* "Cancelled manually, final" (003_task_control.sql:1-2), the user's      *)
(* requests coming one at a time.                                          *)
CancelIsFinal == Server!CancelIsFinal

(* Also with the queue beside it and after a crash of the API, which       *)
(* leaves devices ONLINE that are gone, a task passes from one device to   *)
(* another only by way of none (realtime.gateway.ts:185-191).              *)
HandedOverOnlyWhenReleased == Server!HandedOverOnlyWhenReleased
=============================================================================
