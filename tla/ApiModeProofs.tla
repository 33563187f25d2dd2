---------------------------- MODULE ApiModeProofs ----------------------------
(***************************************************************************)
(* What ApiMode guarantees for any number of tasks, requests and jobs.     *)
(*                                                                         *)
(* JobAnatomy says what a step of a job may do to the job, to the row of   *)
(* its task and to everything else; the invariants are proved from that.   *)
(***************************************************************************)
EXTENDS ApiMode, TasksServiceProofs, FiniteSetTheorems

-----------------------------------------------------------------------------
(* What a request enqueues is a task; it has read a limit when it adds the *)
(* job, and is done with everything else.  A job runs on a worker.         *)
EnqueuesSound ==
    /\ \A r \in Requests : req[r].at # "idle" => enqueuing[r] = Nothing
    /\ \A r \in Requests : enqueuing[r].step = "none" => enqueuing[r] = Nothing
    /\ \A r \in Requests : enqueuing[r].step # "none" => /\ enqueuing[r].task \in Tasks
                                                         /\ enqueuing[r].task <= created
    /\ \A r \in Requests : enqueuing[r].step = "add" => enqueuing[r].limit # 0
    /\ \A j \in Executing : worker # 0

ApiInv == ApiTypeOK /\ TasksSound /\ EnqueuesSound

-----------------------------------------------------------------------------
(* What a step of job j may do.                                            *)
Changes(t, status) == Exists(t) /\ row'[t] = [row[t] EXCEPT !.status = status]

JobMoves(j) ==
    LET t == job[j].task
    IN  \E pc \in Running \cup Pending :
            /\ Goto(j, pc)
            /\ pc \in Running => job[j].pc \in Running \/ Cardinality(Executing) < worker
            /\ \/ row'[t] = row[t]
               \/ /\ job[j].pc \in Running /\ \E status \in Occupying : Changes(t, status)
                  /\ Writable(row[t]) \/ (At(j, "call") /\ pc = "delay")
JobEnds(j) ==
    LET t == job[j].task
    IN  /\ Done(j) /\ job[j].pc \in Running
        /\ row'[t] = row[t] \/ (Writable(row[t]) /\ \E status \in Final : Changes(t, status))
        /\ \/ row'[t].status \notin Waiting \cup Occupying
           \/ row' = row /\ At(j, "call") /\ \E answer \in Answers : answer \in {"undated", "garbled"}

JobStep(j) ==
    /\ job[j] \in Job
    /\ UNCHANGED <<worker, created, connection, req, enqueuing, syncing, crashes>>
    /\ row' = [u \in Tasks |-> row'[u]]
    /\ \A u \in Tasks : u # job[j].task => row'[u] = row[u]
    /\ JobMoves(j) \/ JobEnds(j)

(* A statement that writes the status keeps the rest of the row.           *)
LEMMA StatusWritten ==
    ASSUME NEW t \in Tasks, row[t] \in Row, NEW status \in Statuses, Changes(t, status)
    PROVE  /\ row'[t] \in Row /\ row'[t].status = status
           /\ row'[t].device = row[t].device /\ row'[t].revived = row[t].revived
  BY DEF Changes, Row

(* The guarded UPDATE of the queue changes one row, if it may be written.  *)
LEMMA WritesStatus ==
    ASSUME TableTypeOK, NEW t \in Tasks, NEW status \in Statuses, Write(t, status)
    PROVE  /\ row' = [u \in Tasks |-> row'[u]]
           /\ \A u \in Tasks : u # t => row'[u] = row[u]
           /\ Writable(row[t]) => Changes(t, status)
           /\ ~Writable(row[t]) => row'[t] = row[t]
  BY DEF TableTypeOK, Write, Writable, Changes, Exists, Row

(* A step of a job moves or ends that job, and writes no row but its       *)
(* task's.                                                                 *)
LEMMA JobAnatomy ==
    ASSUME ApiTypeOK, NEW j \in JobIds,
           JobGoesOn(j) \/ TakeJob(j) \/ \E answer \in Answers : EndCall(j, answer)
    PROVE  JobStep(j)
<1> DEFINE t == job[j].task
<1>0. /\ job[j] \in Job \cup {NoJob} /\ row \in [Tasks -> Row] /\ TableTypeOK
      /\ job[j] \in Job => t \in Tasks /\ row[t] \in Row
  BY DEF ApiTypeOK, QueueTypeOK, TableTypeOK, Job
<1>1. job[j] \in Job
  <2>1. job[j].pc # "none"
    BY DEF JobGoesOn, TakeJob, EndCall, Wake, Check, CheckKey, Fail, Start, Delay, Take, Answer, At
  <2>q. QED BY <1>0, <2>1 DEF NoJob
<1>2. UNCHANGED <<worker, created, connection, req, enqueuing, syncing, crashes>>
  BY DEF JobGoesOn, TakeJob, EndCall, Wake, Check, CheckKey, Fail, Start, Delay, Take, Answer,
     tableVars
<1>3. t \in Tasks /\ row[t] \in Row
  BY <1>0, <1>1
<1>t. /\ {"RUNNING", "PAUSED_RATE_LIMIT", "COMPLETED", "FAILED"} \subseteq Statuses
      /\ \A x \in Row : ~Writable(x) => x.status \notin Waiting \cup Occupying
  BY DEF Statuses, Waiting, Occupying, Finished, Writable
<1> HIDE DEF t
<1>4. ASSUME UNCHANGED row, NEW pc \in Running \cup Pending, Goto(j, pc),
             pc \in Running => job[j].pc \in Running \/ Cardinality(Executing) < worker
      PROVE  JobStep(j)
  BY <1>0, <1>1, <1>2, <1>4 DEF JobStep, JobMoves
<1>5. ASSUME UNCHANGED row, Done(j), job[j].pc \in Running,
             row[t].status \notin Waiting \cup Occupying
      PROVE  JobStep(j)
  BY <1>0, <1>1, <1>2, <1>5 DEF JobStep, JobEnds, t
<1>6. CASE Wake(j) \/ Check(j) \/ CheckKey(j) \/ Delay(j) \/ Take(j)
  <2>1. UNCHANGED row
    BY <1>6 DEF Wake, Check, CheckKey, Delay, Take, tableVars
  <2>2. CASE Wake(j) \/ CheckKey(j) \/ Delay(j) \/ Take(j)
    BY <1>4, <2>1, <2>2 DEF Wake, CheckKey, Delay, Take, HasRoom, At, Running, Pending
  <2>3. CASE Check(j)
    <3>1. CASE row[t].status \in {"NONE", "CANCELED", "PAUSED"}
      BY <1>5, <2>1, <2>3, <3>1 DEF Check, At, Running, Waiting, Occupying, t
    <3>2. CASE row[t].status \notin {"NONE", "CANCELED", "PAUSED"}
      BY <1>4, <2>1, <2>3, <3>2 DEF Check, At, Running, t
    <3>q. QED BY <3>1, <3>2
  <2>q. QED BY <1>6, <2>2, <2>3
<1>7. ASSUME NEW status \in {"COMPLETED", "FAILED"}, Write(t, status), Done(j), job[j].pc \in Running
      PROVE  JobStep(j)
  <2>1. /\ row' = [u \in Tasks |-> row'[u]]
        /\ \A u \in Tasks : u # t => row'[u] = row[u]
        /\ \/ Writable(row[t]) /\ Changes(t, status)
           \/ row'[t] = row[t] /\ row'[t].status \notin Waiting \cup Occupying
    BY <1>0, <1>3, <1>7, <1>t, WritesStatus
  <2>2. status \in Final /\ status \notin Waiting \cup Occupying
    BY <1>7 DEF Final, Waiting, Occupying
  <2>3. Changes(t, status) => row'[t].status = status
    BY <1>3, <1>7, <1>t, StatusWritten
  <2>4. JobEnds(j)
    BY <1>7, <2>1, <2>2, <2>3 DEF JobEnds, t
  <2>q. QED BY <1>1, <1>2, <2>1, <2>4 DEF JobStep, t
<1>8. CASE Fail(j)
  BY <1>7, <1>8 DEF Fail, At, Running, t
<1>9. CASE Start(j)
  <2>1. Write(t, "RUNNING") /\ job[j].pc = "start"
    BY <1>9 DEF Start, At, t
  <2>2. /\ row' = [u \in Tasks |-> row'[u]]
        /\ \A u \in Tasks : u # t => row'[u] = row[u]
        /\ (Writable(row[t]) /\ Changes(t, "RUNNING")) \/ row'[t] = row[t]
    BY <1>0, <1>3, <1>t, <2>1, WritesStatus
  <2>3. CASE Exists(t)
    <3>1. Goto(j, "call")
      BY <1>9, <2>3 DEF Start, t
    <3>2. JobMoves(j)
      BY <2>1, <2>2, <3>1 DEF JobMoves, Running, Occupying, t
    <3>q. QED BY <1>1, <1>2, <2>2, <3>2 DEF JobStep, t
  <2>4. CASE ~Exists(t)
    <3>1. Done(j) /\ row'[t] = row[t] /\ row'[t].status \notin Waiting \cup Occupying
      BY <1>9, <2>2, <2>4 DEF Start, Exists, Changes, Waiting, Occupying, t
    <3>2. JobEnds(j)
      BY <2>1, <3>1 DEF JobEnds, Running, t
    <3>q. QED BY <1>1, <1>2, <2>2, <3>2 DEF JobStep, t
  <2>q. QED BY <2>3, <2>4
<1>10. ASSUME NEW answer \in Answers, Answer(j, answer)
       PROVE  JobStep(j)
  <2>1. job[j].pc = "call" /\ answer \in AllAnswers /\ "call" \in Running /\ "delay" \in Running
    BY <1>10, AnswersAssumption DEF Answer, At, Running
  <2>2. CASE answer \in {"text", "error"}
    <3>1. Done(j) /\ \E status \in {"COMPLETED", "FAILED"} : Write(t, status)
      BY <1>10, <2>2 DEF Answer, Again, t
    <3>q. QED BY <1>7, <2>1, <3>1
  <2>3. CASE answer = "limited" /\ Exists(t)
    <3>1. Goto(j, "delay") /\ row' = [row EXCEPT ![t] = [@ EXCEPT !.status = "PAUSED_RATE_LIMIT"]]
      BY <1>10, <2>3 DEF Answer, Again, Limited, t
    <3>2. /\ row' = [u \in Tasks |-> row'[u]]
          /\ \A u \in Tasks : u # t => row'[u] = row[u]
          /\ Changes(t, "PAUSED_RATE_LIMIT")
      BY <1>0, <1>3, <1>t, <2>3, <3>1 DEF Changes, Row
    <3>3. JobMoves(j)
      BY <2>1, <3>1, <3>2 DEF JobMoves, Occupying, At, t
    <3>q. QED BY <1>1, <1>2, <3>2, <3>3 DEF JobStep, t
  <2>4. CASE answer = "limited" /\ ~Exists(t)
    <3>1. Done(j) /\ row' = [row EXCEPT ![t] = @]
      BY <1>10, <2>4 DEF Answer, Again, Limited, t
    <3>2. UNCHANGED row /\ row[t].status \notin Waiting \cup Occupying
      BY <1>0, <2>4, <3>1 DEF Exists, Waiting, Occupying
    <3>q. QED BY <1>5, <2>1, <3>1, <3>2
  <2>5. CASE answer \in {"undated", "garbled"}
    <3>1. Done(j) /\ UNCHANGED row
      BY <1>10, <2>5 DEF Answer, Again
    <3>2. JobEnds(j)
      BY <2>1, <2>5, <3>1 DEF JobEnds, At
    <3>q. QED BY <1>0, <1>1, <1>2, <3>1, <3>2 DEF JobStep
  <2>q. QED BY <2>1, <2>2, <2>3, <2>4, <2>5 DEF AllAnswers
<1>q. QED BY <1>6, <1>8, <1>9, <1>10 DEF JobGoesOn, TakeJob, EndCall

(* What a job's step does to the jobs.                                     *)
LEMMA JobsAfterStep ==
    ASSUME ApiTypeOK, NEW j \in JobIds, JobStep(j)
    PROVE  /\ job' \in [JobIds -> Job \cup {NoJob}]
           /\ \A k \in JobIds : k # j => job'[k] = job[k]
           /\ JobMoves(j) => /\ job'[j].task = job[j].task
                             /\ job'[j].pc \in Running \cup Pending
                             /\ job'[j].pc \in Running => job[j].pc \in Running
                                                           \/ Cardinality(Executing) < worker
           /\ JobEnds(j) => job'[j] = NoJob
           /\ job[j].task \in Tasks
           /\ row' \in [Tasks -> Row]
<1>0. job \in [JobIds -> Job \cup {NoJob}] /\ job[j] \in Job /\ row \in [Tasks -> Row]
  BY DEF ApiTypeOK, QueueTypeOK, TableTypeOK, JobStep
<1>1. ASSUME JobMoves(j)
      PROVE  \E pc \in Running \cup Pending :
                 /\ job' = [job EXCEPT ![j] = [pc |-> pc, task |-> job[j].task]]
                 /\ [pc |-> pc, task |-> job[j].task] \in Job
                 /\ pc \in Running => job[j].pc \in Running \/ Cardinality(Executing) < worker
  BY <1>0, <1>1 DEF JobMoves, Goto, Job
<1>2. ASSUME JobEnds(j) PROVE job' = [job EXCEPT ![j] = NoJob]
  BY <1>2 DEF JobEnds, Done
<1>3. row' \in [Tasks -> Row]
  <2>1. row'[job[j].task] \in Row
    <3>1. \/ row'[job[j].task] = row[job[j].task]
          \/ \E status \in Statuses : Changes(job[j].task, status)
      BY DEF JobStep, JobMoves, JobEnds, Statuses, Final, Finished
    <3>2. job[j].task \in Tasks /\ row[job[j].task] \in Row
      BY <1>0 DEF Job
    <3>q. QED BY <3>1, <3>2, StatusWritten
  <2>q. QED BY <1>0, <2>1 DEF JobStep
<1>4. job[j].task \in Tasks
  BY <1>0 DEF Job
<1>5. CASE JobMoves(j) /\ ~JobEnds(j)
  <2>1. PICK pc \in Running \cup Pending :
            /\ job' = [job EXCEPT ![j] = [pc |-> pc, task |-> job[j].task]]
            /\ [pc |-> pc, task |-> job[j].task] \in Job
            /\ pc \in Running => job[j].pc \in Running \/ Cardinality(Executing) < worker
    BY <1>1, <1>5
  <2>2. job'[j] = [pc |-> pc, task |-> job[j].task]
    BY <1>0, <2>1
  <2>3. job' \in [JobIds -> Job \cup {NoJob}] /\ \A k \in JobIds : k # j => job'[k] = job[k]
    BY <1>0, <2>1
  <2>q. QED BY <1>3, <1>4, <1>5, <2>1, <2>2, <2>3
<1>6. CASE JobEnds(j) /\ ~JobMoves(j)
  BY <1>0, <1>2, <1>3, <1>4, <1>6
<1>7. ~(JobEnds(j) /\ JobMoves(j))
  BY <1>0, <1>1, <1>2 DEF NoJob, Running, Pending
<1>q. QED BY <1>5, <1>6, <1>7 DEF JobStep

(* A job whose worker dies stays a job of its task.                        *)
LEMMA JobsAfterCrash ==
    ASSUME ApiTypeOK, Crash
    PROVE  \A j \in JobIds : job'[j].task = job[j].task /\ (job[j].pc = "none" <=> job'[j].pc = "none")
<1> SUFFICES ASSUME NEW j \in JobIds
             PROVE  job'[j].task = job[j].task /\ (job[j].pc = "none" <=> job'[j].pc = "none")
  OBVIOUS
<1>1. job'[j] = IF job[j].pc \in Running THEN [job[j] EXCEPT !.pc = "stalled"] ELSE job[j]
  BY DEF Crash, WorkerDies
<1>2. job[j].pc \in Running => job[j] \in Job /\ job[j].pc # "none"
  BY DEF ApiTypeOK, QueueTypeOK, NoJob, Running
<1>q. QED BY <1>1, <1>2 DEF Job

-----------------------------------------------------------------------------
(* What enqueue() keeps between its awaits.                                *)
LEMMA EnqueueTyped ==
    ASSUME NEW t \in Tasks, NEW limit \in 0..MaxLimit
    PROVE  /\ Nothing \in Enqueue
           /\ [step |-> "read", task |-> t, limit |-> 0] \in Enqueue
           /\ [step |-> "add", task |-> t, limit |-> limit] \in Enqueue
  BY MaxLimitAssumption DEF Nothing, Enqueue

(* API_KEY mode starts with an empty queue and no worker.                  *)
LEMMA ApiInvInit == ApiInit => ApiInv
<1> SUFFICES ASSUME ApiInit PROVE ApiInv
  OBVIOUS
<1>1. TasksInv
  BY TasksInvInit DEF ApiInit
<1>2. NoJob.pc = "none" /\ Nothing.step = "none" /\ Idle.at = "idle" /\ 0 \in 0..MaxLimit
      /\ Nothing \in Enqueue
  BY MaxLimitAssumption DEF NoJob, Nothing, Idle, Enqueue
<1>3. ConnectionTypeOK /\ QueueTypeOK
  BY <1>2, MaxLimitAssumption
  DEF ApiInit, ConnectionInit, ConnectionTypeOK, Connections, DefaultLimit, QueueInit, QueueTypeOK
<1>4. ApiTypeOK
  BY <1>1, <1>2, <1>3, MaxCrashesAssumption DEF ApiInit, ApiTypeOK, TasksInv, NoneToSync
<1>5. Executing = {}
  BY <1>2 DEF ApiInit, QueueInit, Executing, Running
<1>6. EnqueuesSound
  BY <1>2, <1>5 DEF ApiInit, TasksInit, EnqueuesSound
<1>q. QED BY <1>1, <1>4, <1>6 DEF ApiInv, TasksInv

(* A step of the requests or of the settings.                              *)
LEMMA ApiInvStep ==
    ASSUME ApiInv, [ApiNext]_apiVars
    PROVE  ApiInv'
<1>0. /\ TasksInv /\ ConnectionTypeOK /\ QueueTypeOK
      /\ enqueuing \in [Requests -> Enqueue] /\ syncing \in [Saves -> 0..MaxLimit]
      /\ crashes \in 0..MaxCrashes /\ created \in 0..MaxTasks
      /\ EnqueuesSound
  BY DEF ApiInv, ApiTypeOK, TasksInv, TableTypeOK
<1>t. /\ Nothing.step = "none" /\ Idle.at = "idle" /\ NoJob.pc = "none"
      /\ Nothing \in Enqueue /\ Idle \in Request
      /\ 0 \in 0..MaxLimit
      /\ \A t \in Tasks : Routing(t).at = "route" /\ Routing(t).task = t
  BY MaxLimitAssumption DEF Nothing, Idle, NoJob, Routing, Enqueue, Request
<1>e. ASSUME UNCHANGED <<job, worker>> PROVE Executing' = Executing
  BY <1>e DEF Executing
<1>a. ASSUME TasksInv', UNCHANGED <<aside, enqueuing>>, created' \in {created, created + 1},
             \A r \in Requests : req'[r].at # "idle" => req[r].at # "idle" \/ Ready(r)
      PROVE  ApiInv'
  <2>1. UNCHANGED <<job, worker, syncing, crashes, connection, enqueuing>>
    BY <1>a DEF aside, queueVars
  <2>2. ApiTypeOK'
    BY <1>0, <1>a, <2>1
    DEF ApiTypeOK, TasksInv, QueueTypeOK, ConnectionTypeOK
  <2>3. EnqueuesSound'
    BY <1>0, <1>a, <1>e, <2>1 DEF EnqueuesSound, Ready, Tasks
  <2>q. QED BY <1>a, <2>2, <2>3 DEF ApiInv, TasksInv
<1>1. ASSUME NEW r \in Requests, CreateTask(r) PROVE ApiInv'
  BY <1>0, <1>1, <1>a, CreateKeepsTasksInv DEF CreateTask
<1>2. ASSUME NEW r \in Requests, NEW op \in Ops, NEW t \in Tasks, LoadTask(r, op, t) PROVE ApiInv'
  BY <1>0, <1>2, <1>a, LoadKeepsTasksInv DEF LoadTask, tableVars
<1>3. ASSUME NEW r \in Requests, UpdateTask(r) PROVE ApiInv'
  <2>1. req[r].at = "update"
    BY <1>3 DEF UpdateTask, Update
  <2>2. \A q \in Requests : q # r => req'[q] = req[q]
    BY <1>0, <1>3, UpdateKeepsTasksInv DEF UpdateTask
  <2>3. TasksInv' /\ UNCHANGED created
    BY <1>0, <1>3, UpdateKeepsTasksInv DEF UpdateTask
  <2>q. QED BY <1>3, <1>a, <2>1, <2>2, <2>3 DEF UpdateTask
<1>4. ASSUME NEW t \in Tasks, Delete(t) PROVE ApiInv'
  BY <1>0, <1>4, <1>a, RemoveKeepsTasksInv DEF Delete
<1>5. ASSUME NEW r \in Requests, RouteTask(r) PROVE ApiInv'
  <2> DEFINE new == [step |-> "read", task |-> req[r].task, limit |-> 0]
  <2>1. /\ TasksInv' /\ UNCHANGED created /\ req[r].task \in Tasks /\ req[r].task <= created
        /\ req'[r] = Idle /\ \A q \in Requests : q # r => req'[q] = req[q]
    BY <1>0, <1>5, RouteKeepsTasksInv DEF RouteTask, tableVars
  <2>2. UNCHANGED <<job, worker, syncing, crashes, connection>>
    BY <1>5 DEF RouteTask, aside, queueVars
  <2>3. /\ enqueuing' = [enqueuing EXCEPT ![r] = new] /\ new \in Enqueue
        /\ new.step = "read" /\ new.task = req[r].task
    BY <1>5, <2>1, EnqueueTyped, <1>t DEF RouteTask
  <2> HIDE DEF new
  <2>4. ApiTypeOK'
    BY <1>0, <2>1, <2>2, <2>3 DEF ApiTypeOK, TasksInv, QueueTypeOK, ConnectionTypeOK
  <2>5. EnqueuesSound'
    BY <1>0, <1>e, <1>t, <2>1, <2>2, <2>3 DEF EnqueuesSound
  <2>q. QED BY <2>1, <2>4, <2>5 DEF ApiInv, TasksInv
<1>6. ASSUME NEW r \in Requests, ReadLimit(r) PROVE ApiInv'
  <2> DEFINE new == [step |-> "add", task |-> enqueuing[r].task, limit |-> connection.limit]
  <2>1. UNCHANGED <<job, worker, syncing, crashes, connection, req, row, created>>
    BY <1>6 DEF ReadLimit, aside, queueVars, tableVars
  <2>2. /\ enqueuing[r].step = "read" /\ enqueuing[r] \in Enqueue
        /\ enqueuing' = [enqueuing EXCEPT ![r].step = "add", ![r].limit = connection.limit]
    BY <1>0, <1>6 DEF ReadLimit
  <2>3. connection.limit \in 1..MaxLimit /\ enqueuing[r].task \in Tasks /\ enqueuing[r].task <= created
    BY <1>0, <2>2 DEF ConnectionTypeOK, Connections, EnqueuesSound
  <2>4. connection.limit \in 0..MaxLimit /\ connection.limit # 0
    BY <2>3, MaxLimitAssumption
  <2>5. /\ enqueuing' = [enqueuing EXCEPT ![r] = new] /\ new \in Enqueue
        /\ new.step = "add" /\ new.task = enqueuing[r].task /\ new.limit = connection.limit
    <3>1. new \in Enqueue
      BY <2>3, <2>4, EnqueueTyped
    <3>2. enqueuing' = [enqueuing EXCEPT ![r] = [@ EXCEPT !.step = "add", !.limit = connection.limit]]
      BY <1>0, <2>2
    <3>3. [enqueuing[r] EXCEPT !.step = "add", !.limit = connection.limit] = new
      <4> DEFINE y == [enqueuing[r] EXCEPT !.step = "add"]
      <4>1. y \in Enqueue /\ y.step = "add" /\ y.task = enqueuing[r].task
        BY <2>2 DEF Enqueue
      <4> HIDE DEF y
      <4>2. [y EXCEPT !.limit = connection.limit] = new
        BY <4>1 DEF Enqueue
      <4>q. QED BY <4>2 DEF y
    <3>q. QED BY <3>1, <3>2, <3>3
  <2> HIDE DEF new
  <2>6. ApiTypeOK'
    BY <1>0, <2>1, <2>5
    DEF ApiTypeOK, TasksInv, TableTypeOK, TasksTypeOK, QueueTypeOK, ConnectionTypeOK
  <2>7. EnqueuesSound'
    BY <1>0, <1>e, <1>t, <2>1, <2>2, <2>3, <2>4, <2>5 DEF EnqueuesSound
  <2>8. TasksSound'
    BY <1>0, <2>1 DEF TasksInv, TasksSound, Exists
  <2>q. QED BY <2>6, <2>7, <2>8 DEF ApiInv
<1>7. ASSUME NEW r \in Requests, Add(r) PROVE ApiInv'
  <2>1. UNCHANGED <<syncing, crashes, connection, req, row, created>>
    BY <1>7 DEF Add, tableVars
  <2>2. /\ enqueuing[r].step = "add" /\ enqueuing[r] \in Enqueue
        /\ enqueuing' = [enqueuing EXCEPT ![r] = Nothing]
        /\ worker' = enqueuing[r].limit
        /\ \E j \in JobIds : /\ job[j] = NoJob
                             /\ job' = [job EXCEPT ![j] = [pc |-> "waiting", task |-> enqueuing[r].task]]
    BY <1>0, <1>7 DEF Add, AddJob
  <2>3. enqueuing[r].task \in Tasks /\ enqueuing[r].limit \in 0..MaxLimit /\ enqueuing[r].limit # 0
    BY <1>0, <2>2 DEF EnqueuesSound, Enqueue
  <2>4. [pc |-> "waiting", task |-> enqueuing[r].task] \in Job
    BY <2>3 DEF Job, Pending
  <2>5. ApiTypeOK'
    BY <1>0, <1>t, <2>1, <2>2, <2>3, <2>4
    DEF ApiTypeOK, TasksInv, TableTypeOK, TasksTypeOK, QueueTypeOK, ConnectionTypeOK
  <2>6. EnqueuesSound'
    BY <1>0, <1>t, <2>1, <2>2, <2>3 DEF EnqueuesSound
  <2>7. TasksSound'
    BY <1>0, <2>1 DEF TasksInv, TasksSound, Exists
  <2>q. QED BY <2>5, <2>6, <2>7 DEF ApiInv
<1>8. ASSUME NEW s \in Saves, NEW limit \in Limits, NEW newKey \in BOOLEAN, Save(s, limit, newKey)
      PROVE  ApiInv'
  <2>1. UNCHANGED <<job, worker, crashes, enqueuing, req, row, created>>
    BY <1>8 DEF Save, queueVars, tableVars
  <2>2. /\ syncing' \in [Saves -> 0..MaxLimit] /\ limit \in 1..MaxLimit
        /\ connection' = [type |-> "API_KEY", limit |-> limit,
                          key |-> connection.key \/ ("API_KEY" = "API_KEY" /\ newKey)]
    BY <1>0, <1>8, LimitsAssumption, MaxLimitAssumption DEF Save, SaveConnection
  <2>3. connection.key \in BOOLEAN
    BY <1>0 DEF ConnectionTypeOK, Connections
  <2>4. connection' \in Connections
    BY <2>2, <2>3 DEF Connections
  <2>5. ApiTypeOK'
    BY <1>0, <2>1, <2>2, <2>4
    DEF ApiTypeOK, TasksInv, TableTypeOK, TasksTypeOK, QueueTypeOK, ConnectionTypeOK
  <2>6. EnqueuesSound' /\ TasksSound'
    BY <1>0, <1>e, <2>1 DEF EnqueuesSound, TasksInv, TasksSound, Exists
  <2>q. QED BY <2>5, <2>6 DEF ApiInv
<1>9. ASSUME NEW s \in Saves, Sync(s) PROVE ApiInv'
  <2>1. UNCHANGED <<job, crashes, connection, enqueuing, req, row, created>>
    BY <1>9 DEF Sync, tableVars
  <2>2. /\ syncing' \in [Saves -> 0..MaxLimit] /\ worker' \in 0..MaxLimit
        /\ worker # 0 => worker' # 0
    BY <1>0, <1>9, <1>t DEF Sync, SyncConcurrency, QueueTypeOK
  <2>3. Executing' = Executing
    BY <2>1 DEF Executing
  <2>4. ApiTypeOK'
    BY <1>0, <1>t, <2>1, <2>2
    DEF ApiTypeOK, TasksInv, TableTypeOK, TasksTypeOK, QueueTypeOK, ConnectionTypeOK
  <2>5. EnqueuesSound' /\ TasksSound'
    BY <1>0, <2>1, <2>2, <2>3 DEF EnqueuesSound, TasksInv, TasksSound, Exists
  <2>q. QED BY <2>4, <2>5 DEF ApiInv
<1>10. ASSUME NEW j \in JobIds, JobStep(j) PROVE ApiInv'
  <2>0. ApiTypeOK
    BY DEF ApiInv
  <2>1. UNCHANGED <<worker, created, connection, req, enqueuing, syncing, crashes>>
    BY <1>10 DEF JobStep
  <2>2. /\ job' \in [JobIds -> Job \cup {NoJob}] /\ row' \in [Tasks -> Row]
        /\ \A k \in JobIds : k # j => job'[k] = job[k]
        /\ job'[j].pc \in Running => job[j].pc \in Running \/ Cardinality(Executing) < worker
    <3>1. JobMoves(j) \/ JobEnds(j)
      BY <1>10 DEF JobStep
    <3>2. NoJob.pc \notin Running
      BY <1>t DEF Running
    <3>3. CASE JobMoves(j)
      BY <1>10, <2>0, <3>3, JobsAfterStep, Zenon
    <3>4. CASE JobEnds(j)
      <4>1. /\ job' \in [JobIds -> Job \cup {NoJob}] /\ row' \in [Tasks -> Row]
            /\ \A k \in JobIds : k # j => job'[k] = job[k]
            /\ job'[j] = NoJob
        BY <1>10, <2>0, <3>4, JobsAfterStep, Zenon
      <4>q. QED BY <3>2, <4>1
    <3>q. QED BY <3>1, <3>3, <3>4
  <2>3. ApiTypeOK'
    BY <1>0, <2>1, <2>2
    DEF ApiTypeOK, TasksInv, TableTypeOK, TasksTypeOK, QueueTypeOK, ConnectionTypeOK
  <2>4. Cardinality(Executing) < worker => worker # 0
    <3>1. IsFiniteSet(Executing)
      BY JobIdsAssumption, FS_Subset DEF Executing
    <3>q. QED BY <1>0, <3>1, FS_CardinalityType DEF QueueTypeOK
  <2>5. EnqueuesSound'
    BY <1>0, <2>1, <2>2, <2>4 DEF EnqueuesSound, Executing
  <2>6. TasksSound'
    <3>1. \A t \in Tasks : Exists(t)' => Exists(t)
      BY <1>10 DEF JobStep, JobMoves, JobEnds, Changes, Exists
    <3>q. QED BY <1>0, <2>1, <3>1 DEF TasksInv, TasksSound
  <2>q. QED BY <2>3, <2>5, <2>6 DEF ApiInv
<1>11. CASE Crash
  <2>1. UNCHANGED <<connection, row, created>>
    BY <1>11 DEF Crash, tableVars
  <2>2. /\ crashes' \in 0..MaxCrashes /\ syncing' \in [Saves -> 0..MaxLimit] /\ worker' = 0
        /\ req' = [r \in Requests |-> Idle]
        /\ enqueuing' = [r \in Requests |-> Nothing]
    BY <1>0, <1>11, <1>t, MaxCrashesAssumption DEF Crash, WorkerDies, NoneToSync
  <2>3. job' \in [JobIds -> Job \cup {NoJob}] /\ Executing' = {}
    <3>1. ASSUME NEW j \in JobIds
          PROVE  job'[j] \in Job \cup {NoJob} /\ job'[j].pc \notin Running
      <4>1. job'[j] = IF job[j].pc \in Running THEN [job[j] EXCEPT !.pc = "stalled"] ELSE job[j]
        BY <1>11 DEF Crash, WorkerDies
      <4>2. job[j] \in Job \cup {NoJob}
        BY <1>0 DEF QueueTypeOK
      <4>3. CASE job[j].pc \in Running
        <5>1. job[j] \in Job
          BY <4>2, <4>3, <1>t DEF Running
        <5>q. QED BY <4>1, <4>3, <5>1 DEF Job, Running, Pending
      <4>q. QED BY <4>1, <4>2, <4>3
    <3>2. job' = [j \in JobIds |-> job'[j]]
      BY <1>11 DEF Crash, WorkerDies
    <3>q. QED BY <3>1, <3>2 DEF Executing
  <2>4. ApiTypeOK'
    BY <1>0, <1>t, <2>1, <2>2, <2>3
    DEF ApiTypeOK, TasksInv, TableTypeOK, TasksTypeOK, QueueTypeOK, ConnectionTypeOK
  <2>5. EnqueuesSound' /\ TasksSound'
    BY <1>0, <1>t, <2>1, <2>2, <2>3 DEF EnqueuesSound, TasksInv, TasksSound, Exists
  <2>q. QED BY <2>4, <2>5 DEF ApiInv
<1>12. CASE UNCHANGED apiVars
  BY <1>0, <1>12, <1>a DEF apiVars, aside, tableVars, queueVars, TasksInv, TableTypeOK,
     TasksTypeOK, TasksSound, Exists
<1>q. QED
  BY <1>1, <1>2, <1>3, <1>4, <1>5, <1>6, <1>7, <1>8, <1>9, <1>10, <1>11, <1>12, JobAnatomy
  DEF ApiNext, RequestGoesOn, ApiInv

(* The inductive invariant of API_KEY mode: types, rows only for tasks that*)
(* have been created, and enqueues that are about a task and hold a limit. *)
THEOREM ApiInvariance == ApiSpec => []ApiInv
  BY ApiInvInit, ApiInvStep, PTL DEF ApiSpec

(* Every variable of API_KEY mode stays in its type.                       *)
THEOREM ApiTypeCorrect == ApiSpec => []ApiTypeOK
  BY ApiInvariance, PTL DEF ApiInv

-----------------------------------------------------------------------------
(* Every answer is written into the row: no date that is none, and a key   *)
(* that can be decrypted.                                                  *)
AnswersWritten == "undated" \notin Answers /\ "garbled" \notin Answers

Kept(t) == InHand(t) \/ (JobsOf(t) # {} /\ worker # 0)

(* The call of a job of task t comes to an answer that is not written.     *)
Unwritten(t) ==
    \E j \in JobsOf(t) : /\ At(j, "call") /\ JobEnds(j) /\ row' = row
                         /\ \E answer \in Answers : answer \in {"undated", "garbled"}

(* What is idle is about no task.                                          *)
LEMMA NotAboutATask ==
    /\ Idle.task \notin Tasks /\ Nothing.task \notin Tasks /\ NoJob.task \notin Tasks
    /\ Nothing.step = "none" /\ Idle.at = "idle" /\ NoJob.pc = "none"
  BY DEF Idle, Nothing, NoJob, NoTask, Tasks

(* A task stays in somebody's hands, unless the API dies or an answer is   *)
(* not written.                                                            *)
LEMMA KeptStep ==
    ASSUME ApiInv, [ApiNext]_apiVars, ~Crash, NEW t \in Tasks,
           row[t].status \in Waiting \cup Occupying => Kept(t),
           row'[t].status \in Waiting \cup Occupying, ~Unwritten(t)
    PROVE  Kept(t)'
<1>0. /\ TasksInv /\ ApiTypeOK /\ EnqueuesSound /\ TasksSound
      /\ req \in [Requests -> Request] /\ enqueuing \in [Requests -> Enqueue]
      /\ row \in [Tasks -> Row]
  BY DEF ApiInv, ApiTypeOK, TasksInv, TableTypeOK, TasksTypeOK
<1>3. row[t].status \in Waiting \cup Occupying => Kept(t)
  OBVIOUS
<1>a. ASSUME UNCHANGED <<job, worker>>, row[t].status \in Waiting \cup Occupying,
             \A q \in Requests : req[q].task = t \/ enqueuing[q].task = t
                                    => req'[q].task = t \/ enqueuing'[q].task = t
      PROVE  Kept(t)'
  BY <1>3, <1>a DEF Kept, InHand, JobsOf
<1>4. ASSUME NEW r \in Requests, CreateTask(r) PROVE Kept(t)'
  <2>1. /\ \A u \in Tasks : u # created + 1 => row'[u] = row[u]
        /\ req'[r] = Routing(created + 1) /\ \A q \in Requests : q # r => req'[q] = req[q]
    BY <1>0, <1>4, CreateKeepsTasksInv DEF CreateTask
  <2>2. /\ UNCHANGED <<job, worker, enqueuing>>
        /\ req[r].task # t /\ enqueuing[r].task # t
    BY <1>0, <1>4, NotAboutATask DEF CreateTask, Create, aside, queueVars, Ready, TasksSound
  <2>3. CASE t = created + 1
    BY <2>1, <2>3 DEF Kept, InHand, Routing
  <2>4. CASE t # created + 1
    BY <1>a, <2>1, <2>2, <2>4
  <2>q. QED BY <2>3, <2>4
<1>5. ASSUME NEW r \in Requests, NEW op \in Ops, NEW u \in Tasks, LoadTask(r, op, u) PROVE Kept(t)'
  <2>1. UNCHANGED row /\ \A q \in Requests : q # r => req'[q] = req[q]
    BY <1>0, <1>5, LoadKeepsTasksInv DEF LoadTask, tableVars
  <2>2. /\ UNCHANGED <<job, worker, enqueuing>>
        /\ req[r].task # t /\ enqueuing[r].task # t
    BY <1>0, <1>5, NotAboutATask DEF LoadTask, Load, aside, queueVars, Ready, TasksSound
  <2>q. QED BY <1>a, <2>1, <2>2
<1>6. ASSUME NEW r \in Requests, UpdateTask(r) PROVE Kept(t)'
  <2> DEFINE u  == req[r].task
             op == req[r].op
  <2>1. /\ u \in Tasks /\ op \in Ops
        /\ row'[u] = IF Exists(u) THEN Written(op, row[u]) ELSE row[u]
        /\ \A v \in Tasks : v # u => row'[v] = row[v]
        /\ req'[r] = IF Exists(u) /\ op \in {"resume", "retry"} THEN Routing(u) ELSE Idle
        /\ \A q \in Requests : q # r => req'[q] = req[q]
    BY <1>0, <1>6, UpdateKeepsTasksInv DEF UpdateTask
  <2>2. UNCHANGED <<job, worker, enqueuing>> /\ enqueuing[r].task # t
    BY <1>0, <1>6, NotAboutATask DEF UpdateTask, Update, aside, queueVars, EnqueuesSound
  <2> HIDE DEF u, op
  <2>3. CASE t # u
    BY <1>a, <2>1, <2>2, <2>3 DEF u
  <2>4. CASE t = u /\ Exists(u) /\ op \in {"resume", "retry"}
    BY <2>1, <2>4 DEF Kept, InHand, Routing
  <2>5. CASE t = u /\ Exists(u) /\ op \in {"cancel", "pause"}
    <3>1. row'[t].status \in {"CANCELED", "PAUSED"}
      BY <1>0, <2>1, <2>5, WrittenStatus
    <3>q. QED BY <3>1 DEF Waiting, Occupying
  <2>6. CASE t = u /\ ~Exists(u)
    BY <2>1, <2>6 DEF Exists, Waiting, Occupying
  <2>q. QED BY <2>1, <2>3, <2>4, <2>5, <2>6 DEF Ops
<1>7. ASSUME NEW r \in Requests, RouteTask(r) PROVE Kept(t)'
  <2>1. /\ UNCHANGED row
        /\ req'[r] = Idle /\ \A q \in Requests : q # r => req'[q] = req[q]
    BY <1>0, <1>7, RouteKeepsTasksInv DEF RouteTask, tableVars
  <2>2. /\ UNCHANGED <<job, worker>>
        /\ enqueuing' = [enqueuing EXCEPT ![r] = [step |-> "read", task |-> req[r].task, limit |-> 0]]
        /\ enqueuing[r].task # t
    BY <1>0, <1>7, NotAboutATask DEF RouteTask, Route, aside, queueVars, EnqueuesSound
  <2>3. enqueuing'[r].task = req[r].task /\ \A q \in Requests : q # r => enqueuing'[q] = enqueuing[q]
    BY <1>0, <2>2
  <2>q. QED BY <1>a, <2>1, <2>2, <2>3
<1>8. ASSUME NEW r \in Requests, ReadLimit(r) PROVE Kept(t)'
  <2>1. UNCHANGED <<job, worker, req, row>>
    BY <1>8 DEF ReadLimit, aside, queueVars, tableVars
  <2>2. \A q \in Requests : enqueuing'[q].task = enqueuing[q].task
    BY <1>0, <1>8 DEF ReadLimit, Enqueue
  <2>q. QED BY <1>a, <2>1, <2>2
<1>9. ASSUME NEW r \in Requests, Add(r) PROVE Kept(t)'
  <2>1. UNCHANGED <<req, row>> /\ enqueuing[r].step = "add" /\ worker' = enqueuing[r].limit
    BY <1>9 DEF Add, AddJob, tableVars
  <2>2. worker' # 0
    BY <1>0, <2>1 DEF EnqueuesSound
  <2>3. \A q \in Requests : q # r => enqueuing'[q] = enqueuing[q]
    BY <1>0, <1>9 DEF Add
  <2>4. PICK j \in JobIds : /\ job[j] = NoJob
                            /\ job' = [job EXCEPT ![j] = [pc |-> "waiting", task |-> enqueuing[r].task]]
    BY <1>9 DEF Add, AddJob
  <2>5. /\ \A k \in JobIds : k # j => job'[k] = job[k]
        /\ job[j].task # t /\ job'[j].task = enqueuing[r].task
    BY <1>0, <2>4, NotAboutATask DEF ApiTypeOK, QueueTypeOK
  <2>6. JobsOf(t) # {} \/ enqueuing[r].task = t => JobsOf(t)' # {}
    BY <2>5 DEF JobsOf
  <2>7. req[r].task # t
    BY <1>0, <2>1, NotAboutATask DEF EnqueuesSound, TasksSound
  <2>q. QED BY <1>3, <2>1, <2>2, <2>3, <2>6, <2>7 DEF Kept, InHand
<1>10. ASSUME NEW u \in Tasks, Delete(u) PROVE Kept(t)'
  <2>1. /\ UNCHANGED req /\ row'[u] = NoRow /\ \A v \in Tasks : v # u => row'[v] = row[v]
    BY <1>0, <1>10, RemoveKeepsTasksInv DEF Delete
  <2>2. UNCHANGED <<job, worker, enqueuing>>
    BY <1>10 DEF Delete, aside, queueVars
  <2>3. NoRow.status \notin Waiting \cup Occupying
    BY DEF NoRow, Waiting, Occupying
  <2>q. QED BY <1>a, <2>1, <2>2, <2>3
<1>11. ASSUME NEW s \in Saves, NEW limit \in Limits, NEW newKey \in BOOLEAN, Save(s, limit, newKey)
       PROVE  Kept(t)'
  BY <1>11, <1>a DEF Save, queueVars, tableVars
<1>12. ASSUME NEW s \in Saves, Sync(s) PROVE Kept(t)'
  BY <1>3, <1>12 DEF Sync, SyncConcurrency, tableVars, Kept, InHand, JobsOf
<1>13. ASSUME NEW j \in JobIds, JobStep(j) PROVE Kept(t)'
  <2>1. UNCHANGED <<worker, req, enqueuing>>
    BY <1>13 DEF JobStep
  <2>2. /\ \A k \in JobIds : k # j => job'[k] = job[k]
        /\ job[j].task \in Tasks
    BY <1>0, <1>13, JobsAfterStep
  <2>3. InHand(t)' <=> InHand(t)
    BY <2>1 DEF InHand
  <2>4. CASE JobMoves(j)
    <3>1. job'[j].task = job[j].task
      BY <1>0, <1>13, <2>4, JobsAfterStep
    <3>2. JobsOf(t)' = JobsOf(t)
      BY <2>2, <3>1 DEF JobsOf
    <3>3. row'[t] = row[t] \/ (job[j].task = t /\ job[j].pc \in Running)
      BY <1>13, <2>4 DEF JobStep, JobMoves
    <3>4. job[j].task = t /\ job[j].pc \in Running => JobsOf(t) # {} /\ worker # 0
      BY <1>0 DEF EnqueuesSound, Executing, JobsOf
    <3>q. QED BY <1>3, <2>1, <2>3, <3>2, <3>3, <3>4 DEF Kept
  <2>5. CASE JobEnds(j)
    <3>1. job[j].task # t
      BY <2>5 DEF JobEnds, Unwritten, JobsOf
    <3>2. row'[t] = row[t]
      BY <1>13, <3>1 DEF JobStep
    <3>3. JobsOf(t) # {} => JobsOf(t)' # {}
      BY <2>2, <3>1 DEF JobsOf
    <3>q. QED BY <1>3, <2>1, <2>3, <3>2, <3>3 DEF Kept
  <2>q. QED BY <1>13, <2>4, <2>5 DEF JobStep
<1>14. CASE UNCHANGED apiVars
  BY <1>a, <1>14 DEF apiVars, tableVars, queueVars
<1>q. QED
  BY <1>0, <1>4, <1>5, <1>6, <1>7, <1>8, <1>9, <1>10, <1>11, <1>12, <1>13, <1>14, JobAnatomy
  DEF ApiNext, RequestGoesOn

(* A task is left to be executed only with a request, an enqueue or a job  *)
(* about it: each hands it to the next before it ends.                     *)
LEMMA NothingStrandedStep ==
    ASSUME AnswersWritten, ApiInv, NothingStranded, [ApiNext]_apiVars
    PROVE  NothingStranded'
<1> SUFFICES ASSUME crashes' = 0, NEW t \in Tasks, row'[t].status \in Waiting \cup Occupying
             PROVE  Kept(t)'
  BY DEF NothingStranded, Kept
<1>1. crashes = 0 \/ Crash
  BY DEF ApiNext, RequestGoesOn, CreateTask, LoadTask, UpdateTask, RouteTask, ReadLimit, Add,
     Delete, Save, Sync, JobGoesOn, TakeJob, EndCall, apiVars, aside
<1>2. ~Crash
  <2>1. crashes \in Nat
    BY MaxCrashesAssumption DEF ApiInv, ApiTypeOK
  <2>q. QED BY <2>1 DEF Crash
<1>3. row[t].status \in Waiting \cup Occupying => Kept(t)
  BY <1>1, <1>2 DEF NothingStranded, Kept
<1>4. ~Unwritten(t)
  BY DEF Unwritten, AnswersWritten
<1>q. QED BY <1>2, <1>3, <1>4, KeptStep

(* A task that waits or runs has a job and a worker as long as the API has *)
(* not died, whatever the requests do beside one another.                  *)
THEOREM ApiNothingStranded ==
    ASSUME AnswersWritten
    PROVE  ApiSpec => []NothingStranded
<1>1. ApiInit => NothingStranded
  BY DEF ApiInit, TableInit, NoRow, NothingStranded, Waiting, Occupying
<1>q. QED BY <1>1, NothingStrandedStep, ApiInvariance, PTL DEF ApiSpec

-----------------------------------------------------------------------------
(* While the user's requests come one at a time, a task gets a second job  *)
(* only by being resumed while it has one.  It is retried when it has      *)
(* none: its job wrote FAILED and was over.  The lemmas are about one task *)
(* each, for in Platform they do not hold of every task.                   *)
Coming(t) == \E r \in Requests : \/ req[r].at = "route" /\ req[r].task = t
                                 \/ enqueuing[r].task = t
JobsCreated == \A j \in JobIds : job[j].pc # "none" => job[j].task <= created
JobUnique(t) ==
    /\ \A j, k \in JobsOf(t) : j = k
    /\ JobsOf(t) # {} => ~Coming(t)
JobOpen(t) ==
    /\ JobsOf(t) # {} \/ Coming(t) => row[t].status \notin Final
    /\ \A r \in Requests : req[r].at = "update" /\ req[r].op = "retry" /\ req[r].task = t
                               => row[t].status \in {"FAILED", "NONE"}

(* A request that is about to enqueue task t finds no job of it.           *)
EntersAlone(t) ==
    \A r \in Requests : UpdateTask(r) /\ Exists(t) /\ req[r].task = t /\ req[r].op \in {"resume", "retry"}
                            => JobsOf(t) = {}

(* Requests, enqueues and jobs are about tasks that were created.          *)
LEMMA JobsCreatedStep ==
    ASSUME ApiInv, JobsCreated, [ApiNext]_apiVars
    PROVE  JobsCreated'
<1>0. /\ TasksInv /\ ApiTypeOK /\ EnqueuesSound
      /\ created \in 0..MaxTasks /\ job \in [JobIds -> Job \cup {NoJob}]
      /\ \A j \in JobIds : job[j].pc # "none" => job[j].task \in Tasks
  BY NotAboutATask DEF ApiInv, ApiTypeOK, QueueTypeOK, TasksInv, TableTypeOK, Job
<1>1. ASSUME UNCHANGED job, created' \in {created, created + 1} PROVE JobsCreated'
  BY <1>0, <1>1 DEF JobsCreated, Tasks
<1>2. ASSUME NEW r \in Requests, CreateTask(r) PROVE JobsCreated'
  BY <1>1, <1>2 DEF CreateTask, Create, aside, queueVars
<1>3. ASSUME NEW r \in Requests, Add(r) PROVE JobsCreated'
  <2>1. PICK j \in JobIds : job' = [job EXCEPT ![j] = [pc |-> "waiting", task |-> enqueuing[r].task]]
    BY <1>3 DEF Add, AddJob
  <2>2. enqueuing[r].task <= created /\ UNCHANGED created
    BY <1>0, <1>3 DEF Add, tableVars, EnqueuesSound
  <2>q. QED BY <1>0, <2>1, <2>2 DEF JobsCreated
<1>4. ASSUME NEW j \in JobIds, JobStep(j) PROVE JobsCreated'
  <2>1. /\ \A k \in JobIds : k # j => job'[k] = job[k]
        /\ job'[j].task = job[j].task \/ job'[j] = NoJob
        /\ UNCHANGED created /\ job[j].pc # "none"
    <3>1. UNCHANGED created /\ job[j].pc # "none"
      BY <1>4 DEF JobStep, Job, Running, Pending
    <3>q. QED BY <1>0, <1>4, <3>1, JobsAfterStep DEF JobStep
  <2>q. QED BY <2>1, NotAboutATask DEF JobsCreated
<1>5. CASE Crash
  BY <1>0, <1>5, JobsAfterCrash DEF JobsCreated, Crash, tableVars
<1>q. QED
  BY <1>0, <1>1, <1>2, <1>3, <1>4, <1>5, JobAnatomy
  DEF ApiNext, RequestGoesOn, LoadTask, Load, UpdateTask, Update, RouteTask, Route, ReadLimit, Delete,
      Remove, Save, Sync, apiVars, aside, queueVars, tableVars

(* Nothing comes to be about a task that something else is about already,  *)
(* unless a request brings the task back.                                  *)
LEMMA JobUniqueStep ==
    ASSUME OneRequest, ApiInv, JobsCreated, NEW t \in Tasks, JobUnique(t), EntersAlone(t),
           [ApiNext]_apiVars
    PROVE  JobUnique(t)'
<1>0. /\ TasksInv /\ ApiTypeOK /\ EnqueuesSound /\ TasksSound
      /\ req \in [Requests -> Request] /\ enqueuing \in [Requests -> Enqueue]
      /\ row \in [Tasks -> Row] /\ created \in 0..MaxTasks
      /\ job \in [JobIds -> Job \cup {NoJob}]
      /\ \A q, r \in Requests : q = r
  BY DEF ApiInv, ApiTypeOK, QueueTypeOK, TasksInv, TableTypeOK, TasksTypeOK, OneRequest
<1>a. ASSUME JobsOf(t)' \subseteq JobsOf(t), Coming(t)' => Coming(t) \/ JobsOf(t) = {}
      PROVE  JobUnique(t)'
  BY <1>a DEF JobUnique
<1>u. ASSUME UNCHANGED job PROVE JobsOf(t)' = JobsOf(t)
  BY <1>u DEF JobsOf
<1>1. ASSUME NEW r \in Requests, CreateTask(r) PROVE JobUnique(t)'
  <2>1. /\ req'[r] = Routing(created + 1) /\ created + 1 \in Tasks
        /\ UNCHANGED <<job, enqueuing>> /\ enqueuing[r].task \notin Tasks
    BY <1>0, <1>1, CreateKeepsTasksInv, NotAboutATask DEF CreateTask, aside, queueVars, Ready
  <2>2. Coming(t)' => t = created + 1
    BY <1>0, <2>1 DEF Coming, Routing
  <2>3. JobsOf(created + 1) = {}
    <3>1. \A j \in JobIds : job[j].task \in Tasks => job[j].pc # "none"
      BY <1>0, NotAboutATask DEF Job, Running, Pending
    <3>q. QED BY <1>0, <2>1, <3>1 DEF JobsCreated, JobsOf, Tasks
  <2>q. QED BY <1>a, <1>u, <2>1, <2>2, <2>3
<1>2. ASSUME NEW r \in Requests, NEW op \in Ops, NEW u \in Tasks, LoadTask(r, op, u) PROVE JobUnique(t)'
  <2>1. /\ UNCHANGED <<job, enqueuing>> /\ enqueuing[r] = Nothing
        /\ req'[r] = [at |-> "update", op |-> op, task |-> u]
    BY <1>0, <1>2, LoadKeepsTasksInv DEF LoadTask, aside, queueVars, Ready
  <2>2. ~Coming(t)'
    BY <1>0, <2>1, NotAboutATask DEF Coming
  <2>q. QED BY <1>a, <1>u, <2>1, <2>2
<1>3. ASSUME NEW r \in Requests, UpdateTask(r) PROVE JobUnique(t)'
  <2>1. /\ UNCHANGED <<job, enqueuing>> /\ enqueuing[r] = Nothing
        /\ req'[r] = IF Exists(req[r].task) /\ req[r].op \in {"resume", "retry"} THEN Routing(req[r].task) ELSE Idle
    BY <1>0, <1>3, UpdateKeepsTasksInv DEF UpdateTask, Update, aside, queueVars, EnqueuesSound
  <2>2. Coming(t)' => Exists(t) /\ req[r].task = t /\ req[r].op \in {"resume", "retry"}
    BY <1>0, <2>1, NotAboutATask DEF Coming, Routing
  <2>q. QED BY <1>3, <1>a, <1>u, <2>1, <2>2 DEF EntersAlone
<1>4. ASSUME NEW r \in Requests, RouteTask(r) PROVE JobUnique(t)'
  <2>1. /\ UNCHANGED job /\ req'[r] = Idle /\ req[r].at = "route"
        /\ enqueuing' = [enqueuing EXCEPT ![r] = [step |-> "read", task |-> req[r].task, limit |-> 0]]
    BY <1>0, <1>4, RouteKeepsTasksInv DEF RouteTask, Route, aside, queueVars
  <2>2. Coming(t)' => Coming(t)
    BY <1>0, <2>1, NotAboutATask DEF Coming
  <2>q. QED BY <1>a, <1>u, <2>1, <2>2
<1>5. ASSUME NEW r \in Requests, ReadLimit(r) PROVE JobUnique(t)'
  <2>1. UNCHANGED <<job, req>> /\ \A q \in Requests : enqueuing'[q].task = enqueuing[q].task
    BY <1>0, <1>5 DEF ReadLimit, aside, queueVars, Enqueue
  <2>q. QED BY <1>a, <1>u, <2>1 DEF Coming
<1>6. ASSUME NEW r \in Requests, Add(r) PROVE JobUnique(t)'
  <2>1. UNCHANGED req /\ enqueuing[r].step = "add" /\ enqueuing'[r] = Nothing
    BY <1>0, <1>6 DEF Add
  <2>2. PICK j \in JobIds : job' = [job EXCEPT ![j] = [pc |-> "waiting", task |-> enqueuing[r].task]]
    BY <1>6 DEF Add, AddJob
  <2>3. ~Coming(t)'
    <3>1. req[r].at = "idle"
      BY <1>0, <2>1, NotAboutATask DEF EnqueuesSound
    <3>q. QED BY <1>0, <2>1, <3>1, NotAboutATask DEF Coming
  <2>4. enqueuing[r].task = t => JobsOf(t) = {}
    BY DEF Coming, JobUnique
  <2>5. /\ \A k \in JobIds : k # j => job'[k] = job[k]
        /\ job'[j].task = enqueuing[r].task
    BY <1>0, <2>2
  <2>6. JobsOf(t)' \subseteq JobsOf(t) \/ (JobsOf(t) = {} /\ JobsOf(t)' \subseteq {j})
    BY <2>4, <2>5 DEF JobsOf
  <2>q. QED BY <2>3, <2>6 DEF JobUnique
<1>7. ASSUME UNCHANGED <<req, job, enqueuing>> PROVE JobUnique(t)'
  BY <1>a, <1>u, <1>7 DEF Coming
<1>8. ASSUME NEW j \in JobIds, JobStep(j) PROVE JobUnique(t)'
  <2>1. UNCHANGED <<req, enqueuing>>
    BY <1>8 DEF JobStep
  <2>2. /\ \A k \in JobIds : k # j => job'[k] = job[k]
        /\ job'[j].task = job[j].task \/ job'[j] = NoJob
    BY <1>0, <1>8, JobsAfterStep DEF JobStep
  <2>3. JobsOf(t)' \subseteq JobsOf(t)
    BY <2>2, NotAboutATask DEF JobsOf
  <2>q. QED BY <1>a, <2>1, <2>3 DEF Coming
<1>9. CASE Crash
  <2>1. \A r \in Requests : req'[r] = Idle /\ enqueuing'[r] = Nothing
    BY <1>9 DEF Crash
  <2>2. JobsOf(t)' = JobsOf(t)
    BY <1>0, <1>9, JobsAfterCrash DEF JobsOf
  <2>q. QED BY <1>a, <2>1, <2>2, NotAboutATask DEF Coming
<1>q. QED
  BY <1>0, <1>1, <1>2, <1>3, <1>4, <1>5, <1>6, <1>7, <1>8, <1>9, JobAnatomy
  DEF ApiNext, RequestGoesOn, Delete, Remove, Save, Sync, apiVars, aside, queueVars, tableVars

(* A task with a job, or one on its way, is not finished, and one about to *)
(* be retried has failed or is gone.                                       *)
LEMMA JobOpenStep ==
    ASSUME OneRequest, ApiInv, JobsCreated, NEW t \in Tasks, JobUnique(t), JobOpen(t), [ApiNext]_apiVars
    PROVE  JobOpen(t)'
<1>0. /\ TasksInv /\ ApiTypeOK /\ EnqueuesSound /\ TasksSound
      /\ req \in [Requests -> Request] /\ enqueuing \in [Requests -> Enqueue]
      /\ row \in [Tasks -> Row] /\ created \in 0..MaxTasks
      /\ job \in [JobIds -> Job \cup {NoJob}]
      /\ \A q, r \in Requests : q = r
  BY DEF ApiInv, ApiTypeOK, QueueTypeOK, TasksInv, TableTypeOK, TasksTypeOK, OneRequest
<1>a. ASSUME UNCHANGED <<row, req>>, JobsOf(t)' # {} => JobsOf(t) # {} \/ Coming(t),
             Coming(t)' => Coming(t)
      PROVE  JobOpen(t)'
  BY <1>a DEF JobOpen
<1>n. ASSUME row'[t].status \notin Final, \A r \in Requests : req'[r].at # "update"
      PROVE  JobOpen(t)'
  BY <1>n DEF JobOpen
<1>u. ASSUME UNCHANGED job PROVE JobsOf(t)' = JobsOf(t)
  BY <1>u DEF JobsOf
<1>1. ASSUME NEW r \in Requests, CreateTask(r) PROVE JobOpen(t)'
  <2>1. /\ row'[created + 1] = Inserted
        /\ \A u \in Tasks : u # created + 1 => row'[u] = row[u]
        /\ req'[r] = Routing(created + 1) /\ created + 1 \in Tasks
        /\ UNCHANGED <<job, enqueuing>> /\ enqueuing[r].task \notin Tasks
    BY <1>0, <1>1, CreateKeepsTasksInv, NotAboutATask DEF CreateTask, aside, queueVars, Ready
  <2>2. Routing(created + 1).at = "route" /\ Routing(created + 1).task = created + 1
    BY DEF Routing
  <2>3. CASE t = created + 1
    BY <1>0, <1>n, <2>1, <2>2, <2>3 DEF Inserted, NoRow, Final
  <2>4. CASE t # created + 1
    <3>1. ~Coming(t)'
      BY <1>0, <2>1, <2>2, <2>4 DEF Coming
    <3>q. QED BY <1>0, <1>u, <2>1, <2>2, <2>4, <3>1 DEF JobOpen
  <2>q. QED BY <2>3, <2>4
<1>2. ASSUME NEW r \in Requests, NEW op \in Ops, NEW u \in Tasks, LoadTask(r, op, u) PROVE JobOpen(t)'
  <2>1. /\ UNCHANGED <<row, job, enqueuing>> /\ enqueuing[r] = Nothing
        /\ req'[r] = [at |-> "update", op |-> op, task |-> u]
        /\ Allowed(op, row[u].status)
    BY <1>0, <1>2, LoadKeepsTasksInv DEF LoadTask, Load, aside, queueVars, tableVars, Ready
  <2>2. ~Coming(t)'
    BY <1>0, <2>1, NotAboutATask DEF Coming
  <2>3. op = "retry" => row[u].status = "FAILED"
    BY <2>1 DEF Allowed
  <2>q. QED BY <1>0, <1>u, <2>1, <2>2, <2>3 DEF JobOpen
<1>3. ASSUME NEW r \in Requests, UpdateTask(r) PROVE JobOpen(t)'
  <2> DEFINE u  == req[r].task
             op == req[r].op
  <2>1. /\ u \in Tasks /\ op \in Ops
        /\ row'[u] = IF Exists(u) THEN Written(op, row[u]) ELSE row[u]
        /\ \A v \in Tasks : v # u => row'[v] = row[v]
        /\ req'[r] = IF Exists(u) /\ op \in {"resume", "retry"} THEN Routing(u) ELSE Idle
    BY <1>0, <1>3, UpdateKeepsTasksInv DEF UpdateTask
  <2>2. UNCHANGED <<job, enqueuing>> /\ enqueuing[r] = Nothing
    BY <1>0, <1>3 DEF UpdateTask, Update, aside, queueVars, EnqueuesSound
  <2> HIDE DEF u, op
  <2>3. \A q \in Requests : req'[q].at # "update"
    BY <1>0, <2>1 DEF Routing, Idle
  <2>4. CASE t = u
    <3>1. row'[t].status \notin Final
      BY <1>0, <2>1, <2>4, WrittenStatus DEF Exists, Final, Ops
    <3>q. QED BY <1>n, <2>3, <3>1
  <2>5. CASE t # u
    <3>1. ~Coming(t)'
      BY <1>0, <2>1, <2>2, <2>5, NotAboutATask DEF Coming, Routing
    <3>q. QED BY <1>u, <2>1, <2>2, <2>3, <2>5, <3>1 DEF JobOpen
  <2>q. QED BY <2>4, <2>5
<1>4. ASSUME NEW r \in Requests, RouteTask(r) PROVE JobOpen(t)'
  <2>1. /\ UNCHANGED <<row, job>> /\ req'[r] = Idle /\ req[r].at = "route"
        /\ enqueuing' = [enqueuing EXCEPT ![r] = [step |-> "read", task |-> req[r].task, limit |-> 0]]
    BY <1>0, <1>4, RouteKeepsTasksInv DEF RouteTask, Route, aside, queueVars, tableVars
  <2>2. Coming(t)' => Coming(t)
    BY <1>0, <2>1, NotAboutATask DEF Coming
  <2>q. QED BY <1>0, <1>u, <2>1, <2>2, NotAboutATask DEF JobOpen
<1>5. ASSUME NEW r \in Requests, ReadLimit(r) PROVE JobOpen(t)'
  <2>1. UNCHANGED <<row, job, req>> /\ \A q \in Requests : enqueuing'[q].task = enqueuing[q].task
    BY <1>0, <1>5 DEF ReadLimit, aside, queueVars, tableVars, Enqueue
  <2>q. QED BY <1>a, <1>u, <2>1 DEF Coming
<1>6. ASSUME NEW r \in Requests, Add(r) PROVE JobOpen(t)'
  <2>1. UNCHANGED <<row, req>> /\ enqueuing' = [enqueuing EXCEPT ![r] = Nothing]
    BY <1>6 DEF Add, tableVars
  <2>2. PICK j \in JobIds : job' = [job EXCEPT ![j] = [pc |-> "waiting", task |-> enqueuing[r].task]]
    BY <1>6 DEF Add, AddJob
  <2>3. JobsOf(t)' # {} => JobsOf(t) # {} \/ enqueuing[r].task = t
    BY <1>0, <2>2 DEF JobsOf
  <2>4. Coming(t)' => Coming(t)
    BY <1>0, <2>1, NotAboutATask DEF Coming
  <2>q. QED BY <1>a, <2>1, <2>3, <2>4 DEF Coming
<1>7. ASSUME NEW u \in Tasks, Delete(u) PROVE JobOpen(t)'
  <2>1. /\ UNCHANGED req /\ row'[u] = NoRow /\ \A v \in Tasks : v # u => row'[v] = row[v]
    BY <1>0, <1>7, RemoveKeepsTasksInv DEF Delete
  <2>2. UNCHANGED <<job, enqueuing>>
    BY <1>7 DEF Delete, aside, queueVars
  <2>3. NoRow.status = "NONE" /\ "NONE" \notin Final
    BY DEF NoRow, Final
  <2>q. QED BY <1>u, <2>1, <2>2, <2>3 DEF JobOpen, Coming
<1>8. ASSUME UNCHANGED <<row, req, job, enqueuing>> PROVE JobOpen(t)'
  BY <1>a, <1>u, <1>8 DEF Coming
<1>9. ASSUME NEW j \in JobIds, JobStep(j) PROVE JobOpen(t)'
  <2>1. UNCHANGED <<req, enqueuing>> /\ (job[j].task # t => row'[t] = row[t])
    BY <1>9 DEF JobStep
  <2>2. \A k \in JobIds : k # j => job'[k] = job[k]
    BY <1>0, <1>9, JobsAfterStep
  <2>3. Coming(t)' <=> Coming(t)
    BY <2>1 DEF Coming
  <2>4. CASE job[j].task # t
    <3>1. JobsOf(t)' = JobsOf(t)
      BY <1>0, <1>9, <2>2, <2>4, JobsAfterStep, NotAboutATask DEF JobsOf, JobStep
    <3>q. QED BY <2>1, <2>3, <2>4, <3>1 DEF JobOpen
  <2>5. CASE job[j].task = t
    <3>1. j \in JobsOf(t) /\ ~Coming(t) /\ row[t].status \notin Final
      BY <2>5 DEF JobsOf, JobUnique, JobOpen
    <3>2. \A r \in Requests : req[r].at = "update" /\ req[r].op = "retry" /\ req[r].task = t
                                  => row[t].status = "NONE" /\ row'[t] = row[t]
      BY <1>9, <2>5, <3>1 DEF JobOpen, Final, JobStep, JobMoves, JobEnds, Changes, Exists
    <3>3. CASE JobMoves(j)
      <4>1. \A status \in Occupying : Changes(t, status) => row'[t].status = status
        BY <1>0, StatusWritten DEF Statuses
      <4>2. row'[t].status \notin Final
        BY <2>5, <3>1, <3>3, <4>1 DEF JobMoves, Occupying, Final
      <4>q. QED BY <2>1, <3>2, <4>2 DEF JobOpen
    <3>4. CASE JobEnds(j)
      <4>1. job'[j] = NoJob
        BY <1>0, <1>9, <3>4, JobsAfterStep
      <4>2. JobsOf(t)' = {}
        BY <2>2, <3>1, <4>1, NotAboutATask DEF JobsOf, JobUnique
      <4>q. QED BY <2>1, <2>3, <3>1, <3>2, <4>2 DEF JobOpen
    <3>q. QED BY <1>9, <3>3, <3>4 DEF JobStep
  <2>q. QED BY <2>4, <2>5
<1>10. CASE Crash
  <2>1. UNCHANGED row /\ \A r \in Requests : req'[r] = Idle /\ enqueuing'[r] = Nothing
    BY <1>10 DEF Crash, tableVars
  <2>2. JobsOf(t)' = JobsOf(t)
    BY <1>0, <1>10, JobsAfterCrash DEF JobsOf
  <2>q. QED BY <2>1, <2>2, NotAboutATask DEF JobOpen, Coming
<1>q. QED
  BY <1>0, <1>1, <1>2, <1>3, <1>4, <1>5, <1>6, <1>7, <1>8, <1>9, <1>10, JobAnatomy
  DEF ApiNext, RequestGoesOn, Save, Sync, apiVars, queueVars, tableVars

(* Where nothing is resumed, that is so for every task.                    *)
JobsSingle ==
    /\ JobsCreated
    /\ \A t \in Tasks : JobUnique(t) /\ JobOpen(t)
    /\ \A r \in Requests : req[r].at = "update" => req[r].op \in Asked

OneByOne == OneRequest /\ "resume" \notin Asked

(* At the start nothing is about any task.                                 *)
LEMMA JobsSingleInit == ApiInit => JobsSingle
<1> SUFFICES ASSUME ApiInit PROVE JobsSingle
  OBVIOUS
<1>1. /\ \A j \in JobIds : job[j] = NoJob
      /\ \A r \in Requests : req[r] = Idle /\ enqueuing[r] = Nothing
  BY DEF ApiInit, QueueInit, TasksInit
<1>2. \A t \in Tasks : ~Coming(t) /\ JobsOf(t) = {}
  BY <1>1, NotAboutATask DEF Coming, JobsOf
<1>q. QED BY <1>1, <1>2, NotAboutATask DEF JobsSingle, JobsCreated, JobUnique, JobOpen

(* With one request at a time that resumes nothing, a task gets a second   *)
(* job in no step.                                                         *)
LEMMA JobsSingleStep ==
    ASSUME OneByOne, ApiInv, JobsSingle, [ApiNext]_apiVars
    PROVE  JobsSingle'
<1>1. JobsCreated'
  BY JobsCreatedStep DEF JobsSingle
<1>2. ASSUME NEW t \in Tasks PROVE EntersAlone(t)
  <2> SUFFICES ASSUME NEW r \in Requests, UpdateTask(r), Exists(t), req[r].task = t,
                      req[r].op \in {"resume", "retry"}
               PROVE  JobsOf(t) = {}
    BY DEF EntersAlone
  <2>1. req[r].at = "update"
    BY DEF UpdateTask, Update
  <2>2. req[r].op = "retry"
    BY <2>1 DEF JobsSingle, OneByOne
  <2>q. QED BY <2>1, <2>2 DEF JobsSingle, JobOpen, Exists, Final
<1>3. \A t \in Tasks : JobUnique(t)' /\ JobOpen(t)'
  BY <1>2, JobUniqueStep, JobOpenStep DEF JobsSingle, OneByOne
<1>4. \A r \in Requests : req'[r].at = "update" => req'[r].op \in Asked
  <2>1. \A r \in Requests : \/ req'[r] = req[r] \/ req'[r].at # "update" \/ req'[r].op \in Asked
    <3>1. req \in [Requests -> Request]
      BY DEF ApiInv, ApiTypeOK, TasksTypeOK
    <3>2. ASSUME NEW j \in JobIds, JobStep(j) PROVE UNCHANGED req
      BY <3>2 DEF JobStep
    <3>3. ASSUME NEW r \in Requests, CreateTask(r) \/ RequestGoesOn(r) \/ \E op \in Ops, t \in Tasks : LoadTask(r, op, t)
          PROVE  \A q \in Requests : req'[q] = req[q] \/ req'[q].at # "update" \/ req'[q].op \in Asked
      BY <3>1, <3>3
      DEF CreateTask, Create, LoadTask, Load, RequestGoesOn, UpdateTask, Update, RouteTask, Route,
          ReadLimit, Add, Idle, Routing
    <3>4. ApiTypeOK
      BY DEF ApiInv
    <3>q. QED BY <3>2, <3>3, <3>4, JobAnatomy DEF ApiNext, Delete, Remove, Save, Sync, Crash, apiVars, Idle
  <2>q. QED BY <2>1 DEF JobsSingle
<1>q. QED BY <1>1, <1>3, <1>4 DEF JobsSingle

-----------------------------------------------------------------------------
(* The jobs, as Allocator sees them.                                       *)
InQueue  == {t \in Tasks : \E j \in JobsOf(t) : job[j].pc \in Pending}
HoldersOf == [t \in Tasks |-> IF Executed(t) THEN "worker" ELSE "nobody"]

(* So the job of a task says everything about it.                          *)
LEMMA OneJob ==
    ASSUME ApiInv, JobsSingle, NEW j \in JobIds, job[j].pc # "none"
    PROVE  LET t == job[j].task
           IN  /\ t \in Tasks /\ JobsOf(t) = {j}
               /\ Executed(t) <=> job[j].pc \in Running
               /\ t \in InQueue <=> job[j].pc \in Pending
<1>1. job[j].task \in Tasks
  BY NotAboutATask DEF ApiInv, ApiTypeOK, QueueTypeOK, Job
<1>2. JobsOf(job[j].task) = {j}
  BY <1>1 DEF JobsOf, JobsSingle, JobUnique
<1>q. QED BY <1>1, <1>2 DEF Executed, InQueue

NoneTwice == \A t \in Tasks : ~(Executed(t) /\ t \in InQueue)

(* No task is executed and in the queue at once.                           *)
LEMMA NoneIsTwice == ApiInv /\ JobsSingle => NoneTwice
<1> SUFFICES ASSUME ApiInv, JobsSingle, NEW t \in Tasks, Executed(t)
             PROVE  t \notin InQueue
  BY DEF NoneTwice
<1>1. PICK j \in JobIds : job[j].task = t /\ job[j].pc \in Running
  BY DEF Executed, JobsOf
<1>q. QED BY <1>1, OneJob DEF Running, Pending

(* A step that gives the worker nothing new takes some tasks from it.      *)
LEMMA JobsReturn ==
    ASSUME NoneTwice, NoneTwice', \A t \in Tasks : Executed(t)' => Executed(t)
    PROVE  \E ts \in SUBSET Tasks : Allocation!Return(ts)
<1> DEFINE ts == {t \in Tasks : \/ ~(Executed(t)' <=> Executed(t))
                                \/ ~(t \in InQueue <=> t \in InQueue')}
<1>1. \A t \in ts : ~Executed(t)'
  BY DEF NoneTwice
<1>2. \A t \in Tasks : t \notin ts => (Executed(t)' <=> Executed(t)) /\ (t \in InQueue' <=> t \in InQueue)
  OBVIOUS
<1>3. InQueue \subseteq Tasks /\ InQueue' \subseteq Tasks /\ ts \subseteq Tasks
  BY DEF InQueue
<1> HIDE DEF ts
<1>4. InQueue' \ ts = InQueue \ ts
  BY <1>2, <1>3
<1>5. HoldersOf' = [t \in Tasks |-> IF t \in ts THEN "nobody" ELSE HoldersOf[t]]
  BY <1>1, <1>2, <1>3 DEF HoldersOf
<1>q. QED BY <1>3, <1>4, <1>5, Zenon DEF Allocation!Return, HoldersOf, InQueue

(* A worker has no more tasks than jobs it executes.                       *)
LEMMA TakeGrants ==
    ASSUME ApiInv, JobsSingle, JobsSingle', NEW j \in JobIds, JobStep(j),
           job'[j].pc \in Running, job[j].pc \notin Running
    PROVE  \E t \in Tasks, h \in {"worker"} : Allocation!Grant(t, h)
<1>0. ApiTypeOK /\ job \in [JobIds -> Job \cup {NoJob}] /\ worker \in 0..MaxLimit
  BY DEF ApiInv, ApiTypeOK, QueueTypeOK
<1>t. PICK t \in Tasks : t = job[j].task
  BY DEF JobStep, Job
<1>1. /\ job[j] \in Job /\ job[j].pc # "none" /\ job[j].pc \in Pending
      /\ \A k \in JobIds : k # j => job'[k] = job[k]
      /\ job'[j].task = t /\ Cardinality(Executing) < worker
  <2>1. job[j] \in Job /\ job[j].pc # "none" /\ job[j].pc \in Pending
    BY DEF JobStep, Job, Running, Pending
  <2>2. JobMoves(j)
    <3>1. NoJob.pc \notin Running
      BY DEF NoJob, Running
    <3>2. JobEnds(j) => job'[j] = NoJob
      BY <1>0, JobsAfterStep
    <3>q. QED BY <3>1, <3>2 DEF JobStep
  <2>3. /\ \A k \in JobIds : k # j => job'[k] = job[k]
        /\ job'[j].task = t
        /\ job[j].pc \in Running \/ Cardinality(Executing) < worker
    BY <1>0, <1>t, <2>2, JobsAfterStep
  <2>q. QED BY <2>1, <2>3
<1>2. /\ t \in Tasks /\ JobsOf(t) = {j} /\ ~Executed(t) /\ t \in InQueue
  BY <1>1, <1>t, OneJob DEF Running, Pending
<1>3. JobsOf(t)' = {j}
  BY <1>1, <1>2 DEF JobsOf
<1>4. \A u \in Tasks : u # t => JobsOf(u)' = JobsOf(u) /\ j \notin JobsOf(u)
  BY <1>1, <1>t DEF JobsOf
<1>5. Executed(t)' /\ t \notin InQueue'
  BY <1>3 DEF Executed, InQueue, Running, Pending
<1>6. \A u \in Tasks : u # t => (Executed(u)' <=> Executed(u)) /\ (u \in InQueue' <=> u \in InQueue)
  <2> SUFFICES ASSUME NEW u \in Tasks, u # t
               PROVE  (Executed(u)' <=> Executed(u)) /\ (u \in InQueue' <=> u \in InQueue)
    OBVIOUS
  <2>1. \A k \in JobsOf(u) : k \in JobIds /\ job'[k] = job[k]
    BY <1>1, <1>4 DEF JobsOf
  <2>q. QED BY <1>4, <2>1 DEF Executed, InQueue
<1>7. Cardinality({u \in Tasks : HoldersOf[u] = "worker"}) < worker
  <2> DEFINE held == {u \in Tasks : HoldersOf[u] = "worker"}
             f    == [k \in Executing |-> job[k].task]
  <2>1. \A u \in held : u \in Tasks /\ \E k \in Executing : job[k].task = u
    BY DEF HoldersOf, Executed, Executing, JobsOf
  <2>2. \A k \in Executing : job[k].task \in held
    <3> SUFFICES ASSUME NEW k \in Executing PROVE job[k].task \in held
      OBVIOUS
    <3>1. k \in JobIds /\ job[k].pc \in Running /\ job[k].pc # "none"
      BY DEF Executing, Running
    <3>2. job[k].task \in Tasks /\ Executed(job[k].task)
      BY <3>1, OneJob
    <3>q. QED BY <3>2 DEF HoldersOf
  <2>3. f \in Surjection(Executing, held)
    BY <2>1, <2>2 DEF Surjection
  <2>4. IsFiniteSet(Executing)
    BY JobIdsAssumption, FS_Subset DEF Executing
  <2> HIDE DEF held, f
  <2>5. IsFiniteSet(held) /\ Cardinality(held) <= Cardinality(Executing)
    BY <2>3, <2>4, FS_Surjection
  <2>6. Cardinality(held) \in Nat /\ Cardinality(Executing) \in Nat
    BY <2>4, <2>5, FS_CardinalityType
  <2>q. QED BY <1>0, <1>1, <2>5, <2>6, MaxLimitAssumption DEF held
<1>8. InQueue' = InQueue \ {t}
  BY <1>5, <1>6 DEF InQueue
<1>9. HoldersOf[t] = "nobody" /\ HoldersOf' = [HoldersOf EXCEPT ![t] = "worker"]
  BY <1>2, <1>5, <1>6 DEF HoldersOf
<1>10. Cardinality(Allocation!HeldBy("worker")) < worker
  BY <1>7, Zenon DEF Allocation!HeldBy, HoldersOf
<1>11. Allocation!Grant(t, "worker")
  BY <1>2, <1>8, <1>9, <1>10, Zenon
  DEF Allocation!Grant, InQueue, HoldersOf, Cardinality, Allocation!Cardinality
<1>q. QED BY <1>2, <1>11, Zenon

(* The queue and its worker implement Allocator, also across crashes.      *)
THEOREM ApiQueueAllocates ==
    ASSUME OneByOne
    PROVE  ApiSpec => QueueAllocates
<1>1. ApiInit => Allocation!AllocInit
  <2> SUFFICES ASSUME ApiInit PROVE Allocation!AllocInit
    OBVIOUS
  <2>1. \A t \in Tasks : JobsOf(t) = {}
    BY NotAboutATask DEF ApiInit, QueueInit, JobsOf
  <2>q. QED BY <2>1 DEF Allocation!AllocInit, Executed
<1>2. ApiInv /\ ApiInv' /\ JobsSingle /\ JobsSingle' /\ NoneTwice /\ NoneTwice' /\ [ApiNext]_apiVars
        => [Allocation!AllocNext]_(Allocation!allocVars)
  <2> SUFFICES ASSUME ApiInv, ApiInv', JobsSingle, JobsSingle', NoneTwice, NoneTwice', [ApiNext]_apiVars
               PROVE  Allocation!AllocNext
    OBVIOUS
  <2>a. ASSUME \A t \in Tasks : Executed(t)' => Executed(t) PROVE Allocation!AllocNext
    BY <2>a, JobsReturn DEF Allocation!AllocNext
  <2>b. ASSUME \A k \in JobIds : job'[k].pc \in Running => job[k].pc \in Running /\ job'[k].task = job[k].task
        PROVE  Allocation!AllocNext
    BY <2>a, <2>b DEF Executed, JobsOf
  <2>0. ApiTypeOK /\ job \in [JobIds -> Job \cup {NoJob}]
    BY DEF ApiInv, ApiTypeOK, QueueTypeOK
  <2>1. CASE UNCHANGED job
    BY <2>b, <2>1
  <2>2. ASSUME NEW r \in Requests, Add(r) PROVE Allocation!AllocNext
    <3>1. PICK j \in JobIds : job' = [job EXCEPT ![j] = [pc |-> "waiting", task |-> enqueuing[r].task]]
      BY <2>2 DEF Add, AddJob
    <3>q. QED BY <2>0, <2>b, <3>1 DEF Running
  <2>3. CASE Crash
    <3>1. ASSUME NEW k \in JobIds PROVE job'[k].pc \notin Running
      <4>1. job'[k] = IF job[k].pc \in Running THEN [job[k] EXCEPT !.pc = "stalled"] ELSE job[k]
        BY <2>3 DEF Crash, WorkerDies
      <4>2. CASE job[k].pc \in Running
        <5>1. job[k] \in Job
          BY <2>0, <4>2 DEF Running, NoJob
        <5>q. QED BY <4>1, <4>2, <5>1 DEF Job, Running
      <4>q. QED BY <4>1, <4>2
    <3>q. QED BY <2>b, <3>1
  <2>4. ASSUME NEW j \in JobIds, JobStep(j) PROVE Allocation!AllocNext
    <3>1. CASE job'[j].pc \in Running /\ job[j].pc \notin Running
      BY <2>4, <3>1, TakeGrants DEF Allocation!AllocNext
    <3>2. CASE job'[j].pc \in Running => job[j].pc \in Running
      <4>1. \A k \in JobIds : k # j => job'[k] = job[k]
        BY <2>0, <2>4, JobsAfterStep
      <4>2. job'[j].pc \in Running => job'[j].task = job[j].task
        <5>1. JobEnds(j) => job'[j] = NoJob
          BY <2>0, <2>4, JobsAfterStep
        <5>2. JobMoves(j) => job'[j].task = job[j].task
          BY <2>0, <2>4, JobsAfterStep
        <5>3. NoJob.pc \notin Running
          BY DEF NoJob, Running
        <5>q. QED BY <2>4, <5>1, <5>2, <5>3 DEF JobStep
      <4>q. QED BY <2>b, <3>2, <4>1, <4>2
    <3>q. QED BY <3>1, <3>2
  <2>q. QED
    BY <2>0, <2>1, <2>2, <2>3, <2>4, JobAnatomy
    DEF ApiNext, RequestGoesOn, CreateTask, LoadTask, UpdateTask, RouteTask, ReadLimit, Delete,
        Save, Sync, apiVars, aside, queueVars
<1>3. ApiInv /\ JobsSingle /\ [ApiNext]_apiVars => JobsSingle'
  BY JobsSingleStep
<1>q. QED
  BY <1>1, <1>2, <1>3, JobsSingleInit, NoneIsTwice, ApiInvariance, PTL
  DEF ApiSpec, QueueAllocates, Allocation!AllocSpec
=============================================================================
