---------------------------- MODULE PlatformProofs ----------------------------
(***************************************************************************)
(* What the server guarantees with both of its modes side by side, for any *)
(* number of tasks, devices, sessions, requests, passes and jobs.          *)
(***************************************************************************)
EXTENDS Platform, ApiModeProofs, GatewayProofs

-----------------------------------------------------------------------------
(* What Platform takes from LocalServer, in its own terms.                 *)
AsksForPass == Dispatch(NoTask) \/ UNCHANGED dispatchVars

(* The writing half of a request in local mode, in terms of its parts.     *)
LEMMA UpdateOfServer ==
    ASSUME NEW r \in Requests, Server!UpdateTask(r)
    PROVE  /\ Update(r)
           /\ IF DispatchesAfter(r) THEN Dispatch(NoTask) ELSE UNCHANGED dispatchVars
           /\ UNCHANGED <<connection, device, session, chain, overlooked>>
  BY DEF Server!UpdateTask, Server!Update, Update, Server!Exists, Exists, Server!Written, Written,
     Server!Canceled, Canceled, Server!Paused, Paused, Server!Requeued, Requeued,
     Server!Routing, Routing, Server!Idle, Idle, Server!DispatchesAfter, DispatchesAfter,
     Server!Dispatch, Dispatch, Server!NoRun, NoRun, Server!NoTask, NoTask,
     Server!dispatchVars, dispatchVars

(* The routing of a task in local mode, in terms of its parts.             *)
LEMMA RouteOfServer ==
    ASSUME NEW r \in Requests, Server!RouteTask(r)
    PROVE  /\ Route(r) /\ AsksForPass
           /\ UNCHANGED <<connection, device, session, chain, overlooked>>
  BY DEF Server!RouteTask, Server!Route, Route, Server!Idle, Idle, Server!tableVars, tableVars,
     Server!Dispatch, Dispatch, Server!NoRun, NoRun, Server!NoTask, NoTask,
     Server!dispatchVars, dispatchVars, AsksForPass

(* A removal in local mode, in terms of its parts.                         *)
LEMMA RemoveOfServer ==
    ASSUME NEW t \in Tasks, Server!RemoveTask(t)
    PROVE  /\ Remove(t) /\ overlooked' = (overlooked \/ row[t].status \in Occupying)
           /\ UNCHANGED <<connection, device, session, chain, dispatchVars>>
  BY DEF Server!RemoveTask, Server!Remove, Remove, Server!Exists, Exists, Server!NoRow, NoRow,
     Server!Occupying, Occupying, Server!dispatchVars, dispatchVars

(* A PUT of the settings in local mode, in terms of its parts.             *)
LEMMA ConfigureOfServer ==
    ASSUME NEW type \in Modes, NEW limit \in Limits, Server!Configure(type, limit)
    PROVE  /\ SaveConnection(type, limit, FALSE)
           /\ AsksForPass
           /\ UNCHANGED <<tableVars, req, device, session, chain, overlooked>>
  BY DEF Server!Configure, Server!SaveConnection, SaveConnection, Server!tableVars, tableVars,
     Server!Dispatch, Dispatch, Server!NoRun, NoRun, Server!NoTask, NoTask,
     Server!dispatchVars, dispatchVars, AsksForPass

(* A claim of the server is a claim of the gateway.                        *)
LEMMA ClaimOfServer ==
    ASSUME NEW p \in Passes, Server!ClaimOldest(p)
    PROVE  \E skipped \in SUBSET Tasks : Claim(p, skipped)
<1>1. PICK skipped \in SUBSET Tasks : Server!Claim(p, skipped)
  BY DEF Server!ClaimOldest, Server!Queued, Server!Tasks, Tasks
<1>2. Claim(p, skipped)
  BY <1>1 DEF Server!Claim, Claim, Server!Turn, Turn, Server!Claimable, Claimable, Server!Queued, Queued,
     Server!Tasks, Tasks, Server!Settle, Settle, Server!NoRun, NoRun, Server!NoTask, NoTask,
     Server!Claimed, Claimed, Server!Step, Step
<1>q. QED BY <1>2

(* A step of a session is one of the socket's handlers.                    *)
LEMMA SessionOfServer ==
    ASSUME Server!SessionStep
    PROVE  \E s \in Sessions : Serves(s)
  BY DEF Server!SessionStep, Serves, Server!Connect, Connect, Server!Identify, Identify,
     Server!MarkOnline, MarkOnline, Server!Drop, Drop, Server!MarkOffline, MarkOffline,
     Server!Requeue, Requeue, Server!NoSession, NoSession, Server!Settled, Settled,
     Server!Identified, Identified, Server!SetStatus, SetStatus, Server!Occupied, Occupied,
     Server!Occupying, Occupying, Server!Requeued, Requeued, Server!Tasks, Tasks,
     Server!Dispatch, Dispatch, Server!NoRun, NoRun, Server!NoTask, NoTask,
     Server!dispatchVars, dispatchVars, Server!tableVars, tableVars

-----------------------------------------------------------------------------
(* The steps of the gateway, and those of API_KEY mode.                    *)
GatewaySide == GatewayActs /\ UNCHANGED <<connection, req, queueSide>>

(* The steps of the platform that are the gateway's.                       *)
LEMMA GatewaySteps ==
    ASSUME \/ \E p \in Passes : DispatchOn(p) \/ ClaimTask(p)
           \/ SessionOn
           \/ \E d \in Devices : DeleteDevice(d)
           \/ \E t \in Tasks : ReportOn(t)
    PROVE  GatewaySide
<1>1. ASSUME NEW p \in Passes, DispatchOn(p) PROVE GatewaySide
  BY <1>1 DEF DispatchOn, GatewaySide, GatewayActs, PassRuns
<1>2. ASSUME NEW p \in Passes, ClaimTask(p) PROVE GatewaySide
  BY <1>2, ClaimOfServer DEF ClaimTask, GatewaySide, GatewayActs, PassRuns
<1>3. ASSUME SessionOn PROVE GatewaySide
  BY <1>3, SessionOfServer DEF SessionOn, GatewaySide, GatewayActs
<1>4. ASSUME NEW d \in Devices, DeleteDevice(d) PROVE GatewaySide
  BY <1>4 DEF DeleteDevice, GatewaySide, GatewayActs
<1>5. ASSUME NEW t \in Tasks, ReportOn(t) PROVE GatewaySide
  BY <1>5 DEF ReportOn, GatewaySide, GatewayActs
<1>q. QED BY <1>1, <1>2, <1>3, <1>4, <1>5

(* The steps of the platform that are API_KEY mode's.                      *)
LEMMA ApiSteps ==
    ASSUME \/ \E r \in Requests : \/ CreateOrLoad(r) \/ UpdateRow(r) \/ RouteToQueue(r)
                                  \/ EnqueueRead(r) \/ EnqueueAdd(r)
           \/ \E t \in Tasks : DeleteTask(t)
           \/ \E s \in Saves : SyncWorker(s)
           \/ \E j \in JobIds : WorkerOn(j)
           \/ Die
    PROVE  ApiNext
<1>1. ASSUME NEW r \in Requests, UpdateRow(r) PROVE UpdateTask(r)
  BY <1>1, UpdateOfServer DEF UpdateRow, UpdateTask, queueSide, aside
<1>2. ASSUME NEW t \in Tasks, DeleteTask(t) PROVE Delete(t)
  BY <1>2, RemoveOfServer DEF DeleteTask, Delete, queueSide, aside
<1>q. QED
  BY <1>1, <1>2
  DEF ApiNext, RequestGoesOn, CreateOrLoad, RouteToQueue, EnqueueRead, EnqueueAdd, SyncWorker,
      WorkerOn, Die

(* A device's statements create no row.                                    *)
LEMMA OldRowsOnly ==
    ASSUME NEW t \in Tasks, row[t] \in Row, GatewayTypeOK, DeviceWrites(t)
    PROVE  row'[t] \in Row /\ (Exists(t)' => Exists(t))
<1>1. \A p \in Passes : pass[p].dev \in Devices \cup {NoDevice}
  BY DEF GatewayTypeOK, Pass
<1>2. IsReported(t) => Head(chain[t]) \in Reports
  <2>1. chain[t] \in Seq(Received)
    BY DEF GatewayTypeOK
  <2>q. QED BY <2>1, ReceivedAssumption DEF IsReported
<1>3. row'[t] \in Row
  BY <1>1, <1>2, RowTyped DEF DeviceWrites, IsReported, HandsOut
<1>4. Exists(t)' => Exists(t)
  BY DEF DeviceWrites, IsReported, HandsOut, Writable, Exists, Occupying, DeviceForgotten, Row
<1>q. QED BY <1>3, <1>4

PlatInv ==
    /\ PlatformTypeOK
    /\ TasksSound /\ EnqueuesSound
    /\ ReportsAwait /\ ClaimsForADevice

(* The invariant of API_KEY mode survives beside the devices.              *)
LEMMA ApiSide ==
    ASSUME PlatInv, [PlatformNext]_platformVars
    PROVE  ApiInv'
<1>0. /\ ApiInv /\ GatewayTypeOK /\ TasksInv /\ row \in [Tasks -> Row] /\ EnqueuesSound
      /\ ConnectionTypeOK
  BY DEF PlatInv, PlatformTypeOK, ApiInv, ApiTypeOK, TasksInv, TableTypeOK
<1>1. ASSUME ApiNext \/ UNCHANGED apiVars PROVE ApiInv'
  BY <1>0, <1>1, ApiInvStep
<1>2. ASSUME NEW r \in Requests, RouteToDevices(r) PROVE ApiInv'
  <2>1. Route(r) /\ UNCHANGED <<connection, queueSide>>
    BY <1>2, RouteOfServer DEF RouteToDevices
  <2>2. /\ TasksInv' /\ UNCHANGED <<row, created>>
        /\ req'[r] = Idle /\ \A q \in Requests : q # r => req'[q] = req[q]
    BY <1>0, <2>1, RouteKeepsTasksInv DEF tableVars
  <2>3. UNCHANGED <<job, worker, syncing, crashes, enqueuing>>
    BY <2>1 DEF queueSide, queueVars
  <2>4. ApiTypeOK'
    BY <1>0, <2>1, <2>2, <2>3 DEF ApiInv, ApiTypeOK, TasksInv, QueueTypeOK, ConnectionTypeOK
  <2>5. EnqueuesSound'
    BY <1>0, <2>2, <2>3, NotAboutATask DEF EnqueuesSound, Executing
  <2>q. QED BY <2>2, <2>4, <2>5 DEF ApiInv, TasksInv
<1>3. ASSUME NEW s \in Saves, NEW type \in Modes, NEW limit \in Limits, Switch(s, type, limit) PROVE ApiInv'
  <2>1. /\ SaveConnection(type, limit, FALSE)
        /\ UNCHANGED <<row, created, req, job, worker, enqueuing, crashes>>
        /\ syncing' \in {syncing, [syncing EXCEPT ![s] = limit]}
    BY <1>3, ConfigureOfServer DEF Switch, Synced, queueVars, tableVars
  <2>2. syncing' \in [Saves -> 0..MaxLimit]
    BY <1>0, <2>1, LimitsAssumption, MaxLimitAssumption DEF ApiInv, ApiTypeOK
  <2>3. ConnectionTypeOK'
    BY <1>0, <2>1, LimitsAssumption, ModesAssumption DEF SaveConnection, ConnectionTypeOK, Connections
  <2>4. ApiTypeOK'
    BY <1>0, <2>1, <2>2, <2>3 DEF ApiInv, ApiTypeOK, TasksInv, TableTypeOK, TasksTypeOK, QueueTypeOK
  <2>5. EnqueuesSound' /\ TasksSound'
    BY <1>0, <2>1 DEF EnqueuesSound, Executing, TasksInv, TasksSound, Exists
  <2>q. QED BY <2>4, <2>5 DEF ApiInv
<1>4. ASSUME GatewaySide PROVE ApiInv'
  <2>1. UNCHANGED <<created, connection, req, job, worker, enqueuing, syncing, crashes>>
    BY <1>0, <1>4, GatewayWrites DEF GatewaySide, queueSide, queueVars
  <2>2. row' = [t \in Tasks |-> row'[t]] /\ \A t \in Tasks : row'[t] \in Row /\ (Exists(t)' => Exists(t))
    BY <1>0, <1>4, GatewayWrites, OldRowsOnly DEF GatewaySide
  <2>3. ApiTypeOK'
    BY <1>0, <2>1, <2>2
    DEF ApiInv, ApiTypeOK, TasksInv, TableTypeOK, TasksTypeOK, QueueTypeOK, ConnectionTypeOK
  <2>4. EnqueuesSound' /\ TasksSound'
    BY <1>0, <2>1, <2>2 DEF EnqueuesSound, Executing, TasksInv, TasksSound
  <2>q. QED BY <2>3, <2>4 DEF ApiInv
<1>5. CASE UNCHANGED platformVars
  BY <1>1, <1>5 DEF platformVars
<1>q. QED
  BY <1>1, <1>2, <1>3, <1>4, <1>5, ApiSteps, GatewaySteps DEF PlatformNext

(* Every step but the death of the API moves the dispatcher's chain as     *)
(* GatewayProofs says; that leaves nothing of it.                          *)
LEMMA PlatformPasses ==
    ASSUME PlatInv, [PlatformNext]_platformVars, ~Die
    PROVE  PassStep
<1>0. GatewayTypeOK /\ ConnectionTypeOK
  BY DEF PlatInv, PlatformTypeOK, ApiTypeOK
<1>1. ASSUME UNCHANGED <<chain, dispatchVars>> PROVE PassStep
  BY <1>1 DEF PassStep
<1>2. ASSUME AsksForPass, UNCHANGED chain PROVE PassStep
  BY <1>2, DispatchEnqueues DEF AsksForPass, PassStep
<1>3. ASSUME NEW r \in Requests, CreateOrLoad(r) \/ UpdateRow(r) \/ RouteToQueue(r)
                                   \/ RouteToDevices(r) \/ EnqueueRead(r) \/ EnqueueAdd(r)
      PROVE  PassStep
  <2>1. CASE UpdateRow(r)
    BY <1>2, <2>1, UpdateOfServer DEF UpdateRow, AsksForPass
  <2>2. CASE RouteToDevices(r)
    BY <1>2, <2>2, RouteOfServer DEF RouteToDevices
  <2>3. CASE CreateOrLoad(r) \/ RouteToQueue(r) \/ EnqueueRead(r) \/ EnqueueAdd(r)
    BY <1>1, <2>3 DEF CreateOrLoad, RouteToQueue, EnqueueRead, EnqueueAdd, gatewayVars, dispatchVars
  <2>q. QED BY <1>3, <2>1, <2>2, <2>3
<1>4. ASSUME NEW t \in Tasks, DeleteTask(t) PROVE PassStep
  BY <1>1, <1>4, RemoveOfServer DEF DeleteTask
<1>5. ASSUME NEW s \in Saves, NEW type \in Modes, NEW limit \in Limits, Switch(s, type, limit) PROVE PassStep
  BY <1>2, <1>5, ConfigureOfServer DEF Switch
<1>6. ASSUME (\E s \in Saves : SyncWorker(s)) \/ \E j \in JobIds : WorkerOn(j) PROVE PassStep
  BY <1>1, <1>6 DEF SyncWorker, WorkerOn, gatewayVars, dispatchVars
<1>7. ASSUME GatewaySide PROVE PassStep
  BY <1>0, <1>7, GatewayMoves DEF GatewaySide
<1>8. CASE UNCHANGED platformVars
  BY <1>1, <1>8 DEF platformVars, gatewayVars, dispatchVars
<1>q. QED
  BY <1>3, <1>4, <1>5, <1>6, <1>7, <1>8, GatewaySteps DEF PlatformNext

(* Sockets and devices keep their types beside the queue.                  *)
LEMMA PlatformSockets ==
    ASSUME PlatInv, [PlatformNext]_platformVars
    PROVE  SocketsTypeOK'
<1>0. GatewayTypeOK /\ SocketsTypeOK /\ row \in [Tasks -> Row]
  BY DEF PlatInv, PlatformTypeOK, ApiTypeOK, TableTypeOK, GatewayTypeOK, SocketsTypeOK
<1>1. ASSUME UNCHANGED <<device, session, overlooked>> PROVE SocketsTypeOK'
  BY <1>0, <1>1 DEF SocketsTypeOK
<1>2. ASSUME NEW r \in Requests, CreateOrLoad(r) \/ UpdateRow(r) \/ RouteToQueue(r)
                                   \/ RouteToDevices(r) \/ EnqueueRead(r) \/ EnqueueAdd(r)
      PROVE  SocketsTypeOK'
  BY <1>1, <1>2, UpdateOfServer, RouteOfServer
  DEF CreateOrLoad, UpdateRow, RouteToQueue, RouteToDevices, EnqueueRead, EnqueueAdd, gatewayVars
<1>3. ASSUME NEW t \in Tasks, DeleteTask(t) PROVE SocketsTypeOK'
  BY <1>0, <1>3, RemoveOfServer DEF DeleteTask, SocketsTypeOK
<1>4. ASSUME NEW s \in Saves, NEW type \in Modes, NEW limit \in Limits, Switch(s, type, limit) PROVE SocketsTypeOK'
  BY <1>1, <1>4, ConfigureOfServer DEF Switch
<1>5. ASSUME (\E s \in Saves : SyncWorker(s)) \/ \E j \in JobIds : WorkerOn(j) PROVE SocketsTypeOK'
  BY <1>1, <1>5 DEF SyncWorker, WorkerOn, gatewayVars
<1>6. ASSUME GatewaySide PROVE SocketsTypeOK'
  BY <1>0, <1>6, GatewayWrites DEF GatewaySide
<1>7. CASE Die
  <2>1. UNCHANGED device /\ session' = [s \in Sessions |-> NoSession] /\ overlooked' = TRUE
    BY <1>7 DEF Die
  <2>2. NoSession \in Session
    BY DEF NoSession, Session
  <2>q. QED BY <1>0, <2>1, <2>2 DEF SocketsTypeOK
<1>8. CASE UNCHANGED platformVars
  BY <1>1, <1>8 DEF platformVars, gatewayVars
<1>q. QED
  BY <1>2, <1>3, <1>4, <1>5, <1>6, <1>7, <1>8, GatewaySteps DEF PlatformNext

HistoryTypeOK ==
    /\ turns \in 0..MaxTurns
    /\ handed \subseteq Devices \X Tasks
    /\ old \subseteq Passes /\ straddling \subseteq Tasks /\ resumed \subseteq Tasks /\ stuck \subseteq Tasks
    /\ contended \in BOOLEAN

(* The history variables keep their types.                                 *)
LEMMA HistoryTyped ==
    ASSUME PlatInv, HistoryTypeOK, [PlatformNext]_platformVars
    PROVE  HistoryTypeOK'
<1> USE DEF HistoryTypeOK
<1>0. /\ GatewayTypeOK /\ TasksSound
      /\ job \in [JobIds -> Job \cup {NoJob}]
  BY DEF PlatInv, PlatformTypeOK, ApiTypeOK, QueueTypeOK
<1>t. ASSUME Counted \/ UNCHANGED turns PROVE turns' \in 0..MaxTurns
  BY <1>t, MaxTurnsAssumption DEF Counted
<1>1. ASSUME NEW r \in Requests, CreateOrLoad(r) PROVE HistoryTypeOK'
  BY <1>1, <1>t DEF CreateOrLoad, history
<1>2. ASSUME NEW r \in Requests, UpdateRow(r) PROVE HistoryTypeOK'
  <2>1. req[r].task \in Tasks
    BY <1>0, <1>2, UpdateOfServer DEF UpdateRow, Update, TasksSound
  <2>q. QED BY <1>2, <2>1 DEF UpdateRow
<1>3. ASSUME NEW r \in Requests, RouteToQueue(r) \/ RouteToDevices(r) \/ EnqueueRead(r) \/ EnqueueAdd(r)
      PROVE  HistoryTypeOK'
  BY <1>3 DEF RouteToQueue, RouteToDevices, EnqueueRead, EnqueueAdd, history
<1>4. ASSUME NEW t \in Tasks, DeleteTask(t) PROVE HistoryTypeOK'
  BY <1>4 DEF DeleteTask, history
<1>5. ASSUME NEW s \in Saves, NEW type \in Modes, NEW limit \in Limits, Switch(s, type, limit) PROVE HistoryTypeOK'
  <2>1. contended' = Overlapped /\ Overlapped \in BOOLEAN
    BY <1>5 DEF Switch, Overlapped
  <2>2. contended' \in BOOLEAN
    BY <2>1
  <2>q. QED BY <1>5, <1>t, <2>2 DEF Switch
<1>6. ASSUME NEW s \in Saves, SyncWorker(s) PROVE HistoryTypeOK'
  BY <1>6 DEF SyncWorker, history
<1>7. ASSUME NEW p \in Passes, DispatchOn(p) PROVE HistoryTypeOK'
  BY <1>7 DEF DispatchOn, StillOld
<1>8. ASSUME NEW p \in Passes, ClaimTask(p) PROVE HistoryTypeOK'
  <2>1. pass[p].dev \in Devices
    BY <1>8, ClaimOfServer DEF ClaimTask, Claim, PlatInv, ClaimsForADevice
  <2>q. QED BY <1>8, <2>1 DEF ClaimTask, StillOld
<1>9. CASE SessionOn
  BY <1>9, <1>t DEF SessionOn, history
<1>10. ASSUME NEW d \in Devices, DeleteDevice(d) PROVE HistoryTypeOK'
  BY <1>10, <1>t DEF DeleteDevice, history
<1>11. ASSUME NEW t \in Tasks, ReportOn(t) PROVE HistoryTypeOK'
  BY <1>11 DEF ReportOn, history
<1>12. ASSUME NEW j \in JobIds, WorkerOn(j) PROVE HistoryTypeOK'
  <2>1. At(j, "call") => job[j].task \in Tasks
    BY <1>0 DEF At, NoJob, Job
  <2>q. QED BY <1>12, <2>1 DEF WorkerOn
<1>13. CASE Die
  BY <1>13, <1>t DEF Die
<1>14. CASE UNCHANGED platformVars
  BY <1>14 DEF platformVars, history
<1>q. QED
  BY <1>1, <1>2, <1>3, <1>4, <1>5, <1>6, <1>7, <1>8, <1>9, <1>10, <1>11, <1>12, <1>13, <1>14
  DEF PlatformNext

(* The invariant holds at the start ...                                    *)
LEMMA PlatInvInit == PlatformInit => PlatInv
<1> SUFFICES ASSUME PlatformInit PROVE PlatInv
  OBVIOUS
<1>1. TasksInv
  BY TasksInvInit DEF PlatformInit
<1>2. NoJob.pc = "none" /\ Nothing.step = "none" /\ Idle.at = "idle" /\ 0 \in 0..MaxLimit
      /\ Nothing \in Enqueue
  BY MaxLimitAssumption DEF NoJob, Nothing, Idle, Enqueue
<1>3. ConnectionTypeOK /\ QueueTypeOK
  BY <1>2, MaxLimitAssumption
  DEF PlatformInit, ConnectionTypeOK, Connections, DefaultLimit, QueueInit, QueueTypeOK
<1>4. ApiTypeOK
  <2>1. NoneToSync \in [Saves -> 0..MaxLimit]
    BY <1>2 DEF NoneToSync
  <2>q. QED BY <1>1, <1>2, <1>3, <2>1, MaxCrashesAssumption DEF PlatformInit, ApiTypeOK, TasksInv
<1>5. EnqueuesSound
  <2>1. Executing = {}
    BY <1>2 DEF PlatformInit, QueueInit, Executing, Running
  <2>q. QED BY <1>2, <2>1 DEF PlatformInit, TasksInit, EnqueuesSound
<1>6. NoRun \in Pass /\ NoSession \in Session
  BY BlankTyped DEF NoSession, Session
<1>7. GatewayTypeOK
  <2>1. <<>> \in Seq(Received)
    OBVIOUS
  <2>2. chain \in [Tasks -> Seq(Received)]
    BY <2>1 DEF PlatformInit, GatewayInit
  <2> HIDE DEF Tasks
  <2>3. /\ device \in [Devices -> {"ONLINE", "OFFLINE", "GONE"}]
        /\ session \in [Sessions -> Session] /\ pass \in [Passes -> Pass]
    BY <1>6 DEF PlatformInit, GatewayInit
  <2>4. dispatchChain \in Passes \cup {NoPass} /\ overlooked \in BOOLEAN
    BY DEF PlatformInit, GatewayInit
  <2>q. QED BY <2>2, <2>3, <2>4 DEF GatewayTypeOK
<1>8. ReportsAwait /\ ClaimsForADevice
  BY DEF PlatformInit, GatewayInit, NoRun, ReportsAwait, ClaimsForADevice
<1>9. HistoryTypeOK
  <2>1. turns \in 0..MaxTurns
    BY MaxTurnsAssumption DEF PlatformInit
  <2>q. QED BY <2>1 DEF PlatformInit, HistoryTypeOK
<1>q. QED
  BY <1>1, <1>4, <1>5, <1>7, <1>8, <1>9 DEF PlatInv, PlatformTypeOK, HistoryTypeOK, TasksInv

(* ... and every step keeps it: what either side does, the other stands.   *)
LEMMA PlatInvStep == PlatInv /\ [PlatformNext]_platformVars => PlatInv'
<1> SUFFICES ASSUME PlatInv, [PlatformNext]_platformVars PROVE PlatInv'
  OBVIOUS
<1>1. ApiInv' /\ SocketsTypeOK'
  BY ApiSide, PlatformSockets
<1>2. HistoryTypeOK'
  BY HistoryTyped DEF PlatInv, PlatformTypeOK, HistoryTypeOK
<1>3. DispatcherTypeOK' /\ ReportsAwait' /\ ClaimsForADevice'
  <2>1. CASE ~Die
    BY <2>1, PlatformPasses, DispatcherStep, ForADeviceStep
    DEF PlatInv, PlatformTypeOK, GatewayTypeOK, DispatcherTypeOK
  <2>2. CASE Die
    <3>1. /\ chain' = [t \in Tasks |-> <<>>] /\ pass' = [p \in Passes |-> NoRun]
          /\ dispatchChain' = NoPass /\ NoRun \in Pass
      BY <2>2, BlankTyped DEF Die
    <3>q. QED BY <3>1 DEF NoRun, DispatcherTypeOK, ReportsAwait, ClaimsForADevice
  <2>q. QED BY <2>1, <2>2
<1>q. QED
  BY <1>1, <1>2, <1>3
  DEF PlatInv, PlatformTypeOK, ApiInv, GatewayTypeOK, SocketsTypeOK, DispatcherTypeOK, HistoryTypeOK

(* The inductive invariant of both modes together: types, and what the     *)
(* table, the queue and the dispatcher each rely on.                       *)
THEOREM PlatformInvariance == PlatformSpec => []PlatInv
  BY PlatInvInit, PlatInvStep, PTL DEF PlatformSpec

(* Every variable of the server stays in its type, also when the modes are *)
(* switched and the API dies.                                              *)
THEOREM PlatformTypeCorrect == PlatformSpec => []PlatformTypeOK
  BY PlatformInvariance, PTL DEF PlatInv

-----------------------------------------------------------------------------
(* What a step may do to the row of task t.                                *)
RowMoves(t) ==
    \/ row'[t] = row[t]
    \/ ~Exists(t) /\ row'[t] = Inserted
    \/ row'[t] = NoRow
    \/ \E r \in Requests : /\ req[r].at = "update" /\ req[r].task = t
                           /\ req[r].op \in Ops /\ row'[t] = Written(req[r].op, row[t])
                           /\ UpdateRow(r)
    \/ DeviceWrites(t)
    \/ \E j \in JobsOf(t) : JobStep(j)

(* A step of the worker is a step of a job and none of the gateway's.      *)
LEMMA WorkerOnSteps ==
    ASSUME ApiTypeOK, NEW j \in JobIds, WorkerOn(j)
    PROVE  JobStep(j) /\ UNCHANGED gatewayVars
  BY JobAnatomy DEF WorkerOn

(* What any step of the platform does to a row.                            *)
LEMMA PlatformWrites ==
    ASSUME PlatInv, [PlatformNext]_platformVars, NEW t \in Tasks
    PROVE  RowMoves(t)
<1> USE DEF RowMoves
<1>0. TasksInv /\ ApiTypeOK /\ GatewayTypeOK /\ row \in [Tasks -> Row]
  BY DEF PlatInv, PlatformTypeOK, ApiTypeOK, TasksInv, TableTypeOK
<1>1. ASSUME NEW r \in Requests, CreateOrLoad(r) PROVE RowMoves(t)
  <2>1. CASE CreateTask(r)
    BY <1>0, <2>1, CreateKeepsTasksInv DEF CreateTask
  <2>2. CASE ~CreateTask(r)
    BY <1>1, <2>2 DEF CreateOrLoad, LoadTask, Load, tableVars
  <2>q. QED BY <2>1, <2>2
<1>2. ASSUME NEW r \in Requests, UpdateRow(r) PROVE RowMoves(t)
  <2>1. Update(r)
    BY <1>2, UpdateOfServer DEF UpdateRow
  <2>2. /\ req[r].op \in Ops /\ req[r].at = "update"
        /\ req[r].task = t /\ Exists(t) => row'[t] = Written(req[r].op, row[t])
        /\ req[r].task # t \/ ~Exists(t) => row'[t] = row[t]
    BY <1>0, <2>1, UpdateKeepsTasksInv DEF Update
  <2>q. QED BY <1>2, <2>2
<1>3. ASSUME NEW r \in Requests, RouteToQueue(r) \/ RouteToDevices(r) \/ EnqueueRead(r) \/ EnqueueAdd(r)
      PROVE  RowMoves(t)
  BY <1>3, RouteOfServer
  DEF RouteToQueue, RouteTask, RouteToDevices, EnqueueRead, EnqueueAdd, ReadLimit, Add, Route, tableVars
<1>4. ASSUME NEW u \in Tasks, DeleteTask(u) PROVE RowMoves(t)
  <2>1. Remove(u)
    BY <1>4, RemoveOfServer DEF DeleteTask
  <2>q. QED BY <1>0, <2>1, RemoveKeepsTasksInv
<1>5. ASSUME NEW s \in Saves, NEW type \in Modes, NEW limit \in Limits, Switch(s, type, limit) PROVE RowMoves(t)
  BY <1>5, ConfigureOfServer DEF Switch, tableVars
<1>6. ASSUME NEW s \in Saves, SyncWorker(s) PROVE RowMoves(t)
  BY <1>6 DEF SyncWorker, Sync, tableVars
<1>7. ASSUME GatewaySide PROVE RowMoves(t)
  BY <1>0, <1>7, GatewayWrites DEF GatewaySide
<1>8. ASSUME NEW j \in JobIds, WorkerOn(j) PROVE RowMoves(t)
  BY <1>0, <1>8, WorkerOnSteps DEF JobStep, JobsOf
<1>9. CASE Die \/ UNCHANGED platformVars
  BY <1>9 DEF Die, Crash, platformVars, apiVars, tableVars
<1>q. QED
  BY <1>1, <1>2, <1>3, <1>4, <1>5, <1>6, <1>7, <1>8, <1>9, GatewaySteps DEF PlatformNext

(* No statement of either mode writes another device over a device.        *)
LEMMA HandedOverStep ==
    ASSUME PlatInv, QueuedBelongsToNobody, [PlatformNext]_platformVars, NEW t \in Tasks
    PROVE  /\ row'[t].status = "QUEUED" => row'[t].device = NoDevice
           /\ row[t].device # NoDevice /\ row'[t].device # NoDevice => row'[t].device = row[t].device
<1>0. row[t] \in Row /\ GatewayTypeOK /\ (row[t].status = "QUEUED" => row[t].device = NoDevice)
  BY DEF PlatInv, PlatformTypeOK, ApiTypeOK, TableTypeOK, QueuedBelongsToNobody, Queued
<1>1. CASE row'[t] = row[t]
  BY <1>0, <1>1
<1>2. CASE (~Exists(t) /\ row'[t] = Inserted) \/ row'[t] = NoRow
  BY <1>2 DEF Inserted, NoRow
<1>3. ASSUME NEW op \in Ops, row'[t] = Written(op, row[t])
      PROVE  /\ row'[t].status = "QUEUED" => row'[t].device = NoDevice
             /\ row'[t].device # NoDevice => row'[t].device = row[t].device
  BY <1>0, <1>3 DEF Written, Canceled, Paused, Requeued, Row
<1>4. ASSUME NEW j \in JobsOf(t), JobStep(j), row'[t] # row[t]
      PROVE  row'[t].status # "QUEUED" /\ row'[t].device = row[t].device
  <2>1. \E status \in Occupying \cup Final : Changes(t, status)
    BY <1>4 DEF JobStep, JobMoves, JobEnds, JobsOf
  <2>q. QED BY <1>0, <2>1, StatusWritten DEF Occupying, Final, Finished, Statuses
<1>5. CASE DeviceWrites(t)
  <2>1. CASE IsReported(t)
    <3>1. chain[t] \in Seq(Received) /\ chain[t] # <<>> /\ row'[t] = Reported(row[t], Head(chain[t]))
      BY <1>0, <2>1 DEF GatewayTypeOK, IsReported
    <3>2. Head(chain[t]) \in Reports
      BY <3>1, ReceivedAssumption
    <3>q. QED BY <1>0, <3>1, <3>2 DEF Reported, ReportWrites, Reports, Row
  <2>2. CASE ~IsReported(t)
    BY <1>0, <1>5, <2>2 DEF DeviceWrites, HandsOut, Requeued, DeviceForgotten, Claimed, Row
  <2>q. QED BY <2>1, <2>2
<1>q. QED BY <1>1, <1>2, <1>3, <1>4, <1>5, PlatformWrites DEF RowMoves

(* A queued task is assigned to no device, whichever mode has queued it.   *)
THEOREM PlatformQueuedBelongsToNobody == PlatformSpec => []QueuedBelongsToNobody
<1>1. PlatformInit => QueuedBelongsToNobody
  BY DEF PlatformInit, TableInit, QueuedBelongsToNobody, Queued, NoRow
<1>2. PlatInv /\ QueuedBelongsToNobody /\ [PlatformNext]_platformVars => QueuedBelongsToNobody'
  BY HandedOverStep DEF QueuedBelongsToNobody, Queued
<1>q. QED BY <1>1, <1>2, PlatformInvariance, PTL DEF PlatformSpec

(* A task passes from one device to another only by way of none, also with *)
(* the queue beside the devices and after the API has died.                *)
THEOREM PlatformHandedOver == PlatformSpec => HandedOverOnlyWhenReleased
<1>1. PlatInv /\ QueuedBelongsToNobody /\ [PlatformNext]_platformVars
        => [\A t \in Tasks : row[t].device # NoDevice /\ row'[t].device # NoDevice
                                => row'[t].device = row[t].device]_(Server!vars)
  BY HandedOverStep
<1>q. QED
  BY <1>1, PlatformInvariance, PlatformQueuedBelongsToNobody, PTL
  DEF PlatformSpec, HandedOverOnlyWhenReleased, Server!HandedOverOnlyWhenReleased, Server!Tasks, Tasks

-----------------------------------------------------------------------------
(* Since the last save, unless something overlapped it, every limit on its *)
(* way to the worker is the one saved; and the worker has it, or it is on  *)
(* its way.                                                                *)
LimitOnItsWay ==
    ~contended =>
        /\ \A r \in Requests : enqueuing[r].step = "add" => enqueuing[r].limit = connection.limit
        /\ \A s \in Saves : syncing[s] \in {0, connection.limit}
        /\ connection.type = "API_KEY" /\ worker # 0 =>
               worker = connection.limit \/ \E s \in Saves : syncing[s] # 0

(* A limit the worker does not have yet is on its way to it, in a save or  *)
(* an enqueue.                                                             *)
LEMMA LimitOnItsWayStep ==
    ASSUME PlatInv, LimitOnItsWay, [PlatformNext]_platformVars
    PROVE  LimitOnItsWay'
<1> USE DEF LimitOnItsWay
<1>0. enqueuing \in [Requests -> Enqueue] /\ syncing \in [Saves -> 0..MaxLimit]
  BY DEF PlatInv, PlatformTypeOK, ApiTypeOK
<1>a. ASSUME UNCHANGED <<connection, worker, enqueuing, syncing, contended>> PROVE LimitOnItsWay'
  BY <1>a
<1>1. ASSUME NEW r \in Requests, CreateOrLoad(r) \/ UpdateRow(r) \/ RouteToDevices(r)
      PROVE  LimitOnItsWay'
  BY <1>1, <1>a, UpdateOfServer, RouteOfServer
  DEF CreateOrLoad, CreateTask, LoadTask, UpdateRow, RouteToDevices, aside, queueVars, queueSide, history
<1>2. ASSUME NEW r \in Requests, RouteToQueue(r) PROVE LimitOnItsWay'
  BY <1>0, <1>2 DEF RouteToQueue, RouteTask, aside, queueVars, history
<1>3. ASSUME NEW r \in Requests, EnqueueRead(r) PROVE LimitOnItsWay'
  <2>1. /\ enqueuing' = [enqueuing EXCEPT ![r].step = "add", ![r].limit = connection.limit]
        /\ UNCHANGED <<connection, worker, syncing, contended>>
    BY <1>3 DEF EnqueueRead, ReadLimit, aside, queueVars, history
  <2>2. enqueuing'[r].limit = connection.limit /\ \A q \in Requests : q # r => enqueuing'[q] = enqueuing[q]
    BY <1>0, <2>1 DEF Enqueue
  <2>q. QED BY <2>1, <2>2
<1>4. ASSUME NEW r \in Requests, EnqueueAdd(r) PROVE LimitOnItsWay'
  <2>1. /\ enqueuing[r].step = "add" /\ worker' = enqueuing[r].limit
        /\ enqueuing' = [enqueuing EXCEPT ![r] = Nothing]
        /\ UNCHANGED <<connection, syncing, contended>>
    BY <1>4 DEF EnqueueAdd, Add, AddJob, history
  <2>2. Nothing.step # "add"
    BY DEF Nothing
  <2>q. QED BY <1>0, <2>1, <2>2
<1>5. ASSUME NEW t \in Tasks, DeleteTask(t) PROVE LimitOnItsWay'
  BY <1>5, <1>a, RemoveOfServer DEF DeleteTask, queueSide, queueVars, history
<1>6. ASSUME NEW s \in Saves, NEW type \in Modes, NEW limit \in Limits, Switch(s, type, limit)
      PROVE  LimitOnItsWay'
  <2> SUFFICES ASSUME ~contended' PROVE LimitOnItsWay'
    OBVIOUS
  <2>0. ~Overlapped
    BY <1>6 DEF Switch
  <2>1. /\ connection'.type = type /\ connection'.limit = limit
        /\ UNCHANGED enqueuing /\ Synced(s, type, limit)
        /\ syncing = NoneToSync /\ \A r \in Requests : enqueuing[r].step # "add"
    BY <1>6, <2>0, ConfigureOfServer DEF Switch, SaveConnection, Overlapped
  <2>2. limit # 0 /\ type \in {"API_KEY", "LOCAL_CLI"}
    BY LimitsAssumption, ModesAssumption
  <2>3. \A v \in Saves : syncing[v] = 0
    BY <2>1 DEF NoneToSync
  <2>q. QED BY <1>0, <2>1, <2>2, <2>3 DEF Synced
<1>7. ASSUME NEW s \in Saves, SyncWorker(s) PROVE LimitOnItsWay'
  BY <1>0, <1>7 DEF SyncWorker, Sync, SyncConcurrency, history
<1>8. ASSUME GatewaySide, UNCHANGED contended PROVE LimitOnItsWay'
  BY <1>8, <1>a DEF GatewaySide, queueSide, queueVars
<1>9. ASSUME NEW j \in JobIds, WorkerOn(j) PROVE LimitOnItsWay'
  <2>1. JobStep(j) /\ UNCHANGED contended
    BY <1>9, WorkerOnSteps DEF WorkerOn, PlatInv, PlatformTypeOK
  <2>q. QED BY <1>a, <2>1 DEF JobStep
<1>10. CASE Die
  <2>1. /\ worker' = 0 /\ syncing' = NoneToSync
        /\ enqueuing' = [r \in Requests |-> Nothing]
    BY <1>10 DEF Die, Crash, WorkerDies
  <2>2. Nothing.step # "add" /\ \A s \in Saves : NoneToSync[s] = 0
    BY DEF Nothing, NoneToSync
  <2>q. QED BY <2>1, <2>2
<1>11. CASE UNCHANGED platformVars
  BY <1>11, <1>a DEF platformVars, apiVars, queueVars, history
<1>12. ASSUME \/ \E p \in Passes : DispatchOn(p) \/ ClaimTask(p)
              \/ SessionOn
              \/ \E d \in Devices : DeleteDevice(d)
              \/ \E t \in Tasks : ReportOn(t)
       PROVE  UNCHANGED contended
  BY <1>12 DEF DispatchOn, ClaimTask, SessionOn, DeleteDevice, ReportOn, history
<1>q. QED
  BY <1>1, <1>2, <1>3, <1>4, <1>5, <1>6, <1>7, <1>8, <1>9, <1>10, <1>11, <1>12, GatewaySteps
  DEF PlatformNext

(* However the modes were switched and whatever was enqueued meanwhile, a  *)
(* worker at rest runs as many jobs as the settings say, unless another    *)
(* save or an enqueue held a limit it had read when they were saved last.  *)
THEOREM PlatformWorkerFollowsLimit == PlatformSpec => []WorkerFollowsLimit
<1>1. PlatformInit => LimitOnItsWay
  BY DEF PlatformInit, QueueInit, LimitOnItsWay, NoneToSync, Nothing
<1>2. LimitOnItsWay => WorkerFollowsLimit
  BY DEF LimitOnItsWay, WorkerFollowsLimit, Quiet, NoneToSync
<1>q. QED BY <1>1, <1>2, LimitOnItsWayStep, PlatformInvariance, PTL DEF PlatformSpec

-----------------------------------------------------------------------------
(* The two modes apart.  A task that was not there when the modes changed  *)
(* has no job and is not about to get one while the devices are in charge, *)
(* and has been handed to none of them while the queue is; a pass that is  *)
(* past its first statement, and was not under way when the modes changed, *)
(* has read LOCAL_CLI.                                                     *)
Handed(t)   == \E d \in Devices : <<d, t>> \in handed
NewComer(t) == Exists(t) /\ t \notin straddling
HasStarted(p) == pass[p].pc \notin {"free", "read"}

ModesApart ==
    /\ \A j \in JobIds : job[j].pc # "none" => job[j].task <= created
    /\ \A p \in Passes : HasStarted(p) /\ p \notin old => connection.type = "LOCAL_CLI"
    /\ \A t \in Tasks : chain[t] # <<>> \/ row[t].device # NoDevice => Handed(t)
    /\ \A t \in Tasks : Handed(t) => t <= created
    /\ \A t \in Tasks : NewComer(t) /\ connection.type = "LOCAL_CLI" =>
            JobsOf(t) = {} /\ \A r \in Requests : enqueuing[r].task # t
    /\ \A t \in Tasks : NewComer(t) /\ connection.type = "API_KEY" => ~Handed(t)

(* What asks for a pass starts none.                                       *)
LEMMA AskedOnly ==
    ASSUME GatewayTypeOK, (\E t \in Tasks \cup {NoTask} : Dispatch(t)) \/ UNCHANGED dispatchVars
    PROVE  \A p \in Passes : HasStarted(p)' => HasStarted(p)
<1>1. ASSUME NEW t, Dispatch(t) PROVE \A p \in Passes : HasStarted(p)' => HasStarted(p)
  <2>1. PICK p \in Passes : pass' = [pass EXCEPT ![p] =
            [NoRun EXCEPT !.pc = "read", !.after = dispatchChain, !.report = t]]
    BY <1>1 DEF Dispatch
  <2>2. [NoRun EXCEPT !.pc = "read", !.after = dispatchChain, !.report = t].pc = "read"
    BY DEF NoRun
  <2>q. QED BY <2>1, <2>2 DEF GatewayTypeOK, HasStarted
<1>q. QED BY <1>1 DEF dispatchVars, HasStarted

(* Claims apart, no statement of the gateway gives a task to a device.     *)
LEMMA NothingHandedOut ==
    ASSUME GatewayTypeOK, row \in [Tasks -> Row], NEW u \in Tasks,
           \/ \E s \in Sessions : Serves(s)
           \/ \E d \in Devices : RemoveDevice(d)
           \/ \E t \in Tasks : ApplyReport(t) \/ \E s \in Sessions, rep \in Reports : Receive(s, t, rep)
    PROVE  row'[u].device # NoDevice => row[u].device # NoDevice
<1>0. row[u] \in Row
  OBVIOUS
<1>1. ASSUME NEW s \in Sessions, Serves(s) PROVE row'[u].device # NoDevice => row[u].device # NoDevice
  <2>1. CASE Requeue(s)
    <3>1. row'[u] = row[u] \/ row'[u] = Requeued(row[u])
      BY <2>1 DEF Requeue
    <3>q. QED BY <1>0, <3>1 DEF Requeued, Row
  <2>2. CASE ~Requeue(s)
    BY <1>1, <2>2 DEF Serves, Connect, Identify, MarkOnline, Drop, MarkOffline, tableVars
  <2>q. QED BY <2>1, <2>2
<1>2. ASSUME NEW d \in Devices, RemoveDevice(d) PROVE row'[u].device # NoDevice => row[u].device # NoDevice
  BY <1>0, <1>2 DEF RemoveDevice, DeviceForgotten, Row
<1>3. ASSUME NEW t \in Tasks, ApplyReport(t) PROVE row'[u].device # NoDevice => row[u].device # NoDevice
  <2>1. row'[u] = row[u] \/ row'[u] = Reported(row[u], Head(chain[t]))
    BY <1>3 DEF ApplyReport
  <2>q. QED BY <1>0, <2>1 DEF Reported, ReportWrites, Row
<1>4. ASSUME NEW t \in Tasks, NEW s \in Sessions, NEW rep \in Reports, Receive(s, t, rep)
      PROVE  row'[u].device # NoDevice => row[u].device # NoDevice
  BY <1>4 DEF Receive, tableVars
<1>q. QED BY <1>1, <1>2, <1>3, <1>4

(* A pass that starts has read LOCAL_CLI, and no pass makes a report.      *)
LEMMA PassGoesOn ==
    ASSUME GatewayTypeOK, ConnectionTypeOK, ReportsAwait, NEW p \in Passes, PassRuns(p)
    PROVE  /\ \A q \in Passes : HasStarted(q)' => HasStarted(q) \/ connection.type = "LOCAL_CLI"
           /\ \A t \in Tasks : chain'[t] # <<>> => chain[t] # <<>>
<1>0. pass \in [Passes -> Pass] /\ chain \in [Tasks -> Seq(Received)]
      /\ \A q \in Passes : pass[q].report \in Tasks \cup {NoTask}
  BY DEF GatewayTypeOK, Pass
<1>1. CASE Turn(p) /\ Settle(p)
  <2>1. \A q \in Passes : pass'[q] = IF q = p THEN NoRun
                                    ELSE IF pass[q].after = p
                                    THEN [pass[q] EXCEPT !.after = NoPass] ELSE pass[q]
    BY <1>1 DEF Settle
  <2>2. \A q \in Passes : [pass[q] EXCEPT !.after = NoPass].pc = pass[q].pc
    BY <1>0, ReleasedTyped
  <2>3. NoRun.pc = "free"
    BY DEF NoRun
  <2>4. ASSUME NEW q \in Passes PROVE pass'[q].pc \in {"free", pass[q].pc}
    <3>1. CASE pass[q].after = p
      BY <2>1, <2>2, <2>3, <3>1
    <3>2. CASE pass[q].after # p
      BY <2>1, <2>3, <3>2
    <3>q. QED BY <3>1, <3>2
  <2>5. \A t \in Tasks : chain'[t] # <<>> => chain[t] # <<>>
    BY <1>0, <1>1 DEF Settle, ReportsAwait, NoTask
  <2>q. QED BY <2>4, <2>5 DEF HasStarted
<1>2. CASE Advances(p) /\ ~Settle(p)
  <2>1. /\ \A q \in Passes : q # p => pass'[q] = pass[q]
        /\ UNCHANGED chain /\ pass[p].pc # "free"
    BY <1>0, <1>2 DEF Advances, Turn
  <2>2. pass[p].pc = "read" => connection.type = "LOCAL_CLI"
    BY <1>2 DEF PassRuns, ReadConnection, ReadDevices, CountSlots, Claim, SendAssign
  <2>q. QED BY <2>1, <2>2 DEF HasStarted
<1>q. QED BY <1>1, <1>2, PassMoves DEF Advances

(* At the start there are no tasks, jobs or passes.                        *)
LEMMA ModesApartInit == PlatformInit => ModesApart
<1> SUFFICES ASSUME PlatformInit PROVE ModesApart
  OBVIOUS
<1>1. /\ \A j \in JobIds : job[j].pc = "none"
      /\ \A p \in Passes : pass[p].pc = "free"
      /\ \A t \in Tasks : row[t].device = NoDevice /\ row[t].status = "NONE" /\ chain[t] = <<>>
      /\ handed = {}
  BY DEF PlatformInit, QueueInit, GatewayInit, TableInit, NoRow, NoJob, NoRun
<1>q. QED BY <1>1 DEF ModesApart, HasStarted, NewComer, Exists, Handed

(* A task that was at no switch belongs to one mode: claims and jobs begin *)
(* in the mode the connection has.                                         *)
LEMMA ModesApartStep ==
    ASSUME PlatInv, ModesApart, [PlatformNext]_platformVars
    PROVE  ModesApart'
<1>0. /\ TasksInv /\ ApiTypeOK /\ GatewayTypeOK /\ EnqueuesSound /\ TasksSound /\ ReportsAwait
      /\ row \in [Tasks -> Row] /\ created \in 0..MaxTasks
      /\ job \in [JobIds -> Job \cup {NoJob}] /\ enqueuing \in [Requests -> Enqueue]
      /\ connection.type \in {"API_KEY", "LOCAL_CLI"} /\ pass \in [Passes -> Pass]
  BY DEF PlatInv, PlatformTypeOK, ApiTypeOK, QueueTypeOK, ConnectionTypeOK, Connections,
     GatewayTypeOK, TasksInv, TableTypeOK
<1>j. \A j \in JobIds : job[j].pc = "none" => job[j].task \notin Tasks
  BY <1>0, NotAboutATask DEF Job, Running, Pending
<1>a. ASSUME created' = created, \A t \in Tasks : Exists(t)' => Exists(t),
             UNCHANGED <<connection, handed, straddling>>,
             \A j \in JobIds : job'[j] = job[j] \/ (job[j].pc # "none" /\ job'[j].task = job[j].task)
                                                \/ job'[j] = NoJob,
             \A r \in Requests : enqueuing'[r].task = enqueuing[r].task \/ enqueuing'[r].task = NoTask,
             \A p \in Passes : HasStarted(p)' /\ p \notin old' =>
                   (HasStarted(p) /\ p \notin old) \/ connection.type = "LOCAL_CLI",
             \A t \in Tasks : chain'[t] # <<>> => chain[t] # <<>> \/ Handed(t),
             \A t \in Tasks : row'[t].device # NoDevice => row[t].device # NoDevice
      PROVE  ModesApart'
  <2>1. \A t \in Tasks : (Handed(t)' <=> Handed(t)) /\ (NewComer(t)' => NewComer(t))
    BY <1>a DEF Handed, NewComer
  <2>2. \A t \in Tasks : JobsOf(t) = {} => JobsOf(t)' = {}
    BY <1>a, <1>j, NotAboutATask DEF JobsOf
  <2>3. \A j \in JobIds : job'[j].pc # "none" => job'[j].task <= created'
    BY <1>a, NotAboutATask DEF ModesApart
  <2>4. \A p \in Passes : HasStarted(p)' /\ p \notin old' => connection'.type = "LOCAL_CLI"
    BY <1>a DEF ModesApart
  <2>5. \A t \in Tasks : t # NoTask
    BY DEF Tasks, NoTask
  <2>6. \A t \in Tasks : chain'[t] # <<>> \/ row'[t].device # NoDevice => Handed(t)'
    BY <1>a, <2>1 DEF ModesApart
  <2>7. \A t \in Tasks : NewComer(t)' /\ connection'.type = "LOCAL_CLI" =>
            JobsOf(t)' = {} /\ \A r \in Requests : enqueuing'[r].task # t
    BY <1>a, <2>1, <2>2, <2>5 DEF ModesApart
  <2>8. \A t \in Tasks : Handed(t)' => t <= created'
    BY <1>a, <2>1 DEF ModesApart
  <2>9. \A t \in Tasks : NewComer(t)' /\ connection'.type = "API_KEY" => ~Handed(t)'
    BY <1>a, <2>1 DEF ModesApart
  <2>q. QED BY <2>3, <2>4, <2>6, <2>7, <2>8, <2>9 DEF ModesApart
<1>p. ASSUME (\E t \in Tasks \cup {NoTask} : Dispatch(t)) \/ UNCHANGED dispatchVars, UNCHANGED old
      PROVE  \A p \in Passes : HasStarted(p)' /\ p \notin old' =>
                   (HasStarted(p) /\ p \notin old) \/ connection.type = "LOCAL_CLI"
  BY <1>0, <1>p, AskedOnly
<1>s. ASSUME StillOld PROVE \A p \in Passes : HasStarted(p)' /\ p \notin old' => p \notin old
  BY <1>s DEF StillOld, HasStarted
<1>1. ASSUME NEW r \in Requests, CreateOrLoad(r) PROVE ModesApart'
  <2>1. CASE CreateTask(r)
    <3>1. /\ created + 1 \in Tasks /\ created' = created + 1 /\ ~Exists(created + 1)
          /\ row'[created + 1] = Inserted
          /\ \A t \in Tasks : t # created + 1 => row'[t] = row[t]
      BY <1>0, <2>1, CreateKeepsTasksInv DEF CreateTask
    <3>2. UNCHANGED <<job, enqueuing, connection, pass, chain, handed, straddling, old>>
      BY <1>1, <2>1 DEF CreateOrLoad, CreateTask, aside, queueVars, gatewayVars, history
    <3>3. Inserted.device = NoDevice
      BY DEF Inserted, NoRow
    <3>4. /\ \A j \in JobIds : job[j].task # created + 1
          /\ \A r1 \in Requests : enqueuing[r1].task # created + 1
          /\ ~Handed(created + 1)
      <4>1. \A r1 \in Requests : enqueuing[r1].task # created + 1
        BY <1>0, <3>1, NotAboutATask DEF EnqueuesSound
      <4>q. QED BY <1>0, <1>j, <3>1, <4>1 DEF ModesApart
    <3>5. /\ \A t \in Tasks : (Handed(t)' <=> Handed(t)) /\ (NewComer(t)' => NewComer(t) \/ t = created + 1)
          /\ \A t \in Tasks : JobsOf(t)' = JobsOf(t)
          /\ JobsOf(created + 1) = {}
          /\ \A p \in Passes : HasStarted(p)' <=> HasStarted(p)
      BY <3>1, <3>2, <3>4 DEF Handed, NewComer, Exists, JobsOf, HasStarted
    <3>6. \A t \in Tasks : row'[t].device # NoDevice => row[t].device # NoDevice
      BY <3>1, <3>3
    <3>7. \A j \in JobIds : job'[j].pc # "none" => job'[j].task <= created'
      <4>1. \A j \in JobIds : job[j].pc # "none" => job[j].task \in Tasks /\ job[j].task <= created
        BY <1>0, NotAboutATask DEF ModesApart, Job
      <4>q. QED BY <1>0, <3>1, <3>2, <4>1 DEF Tasks
    <3>8. \A t \in Tasks : Handed(t)' => t <= created'
      BY <1>0, <3>1, <3>5 DEF ModesApart, Tasks
    <3>9. \A p \in Passes : HasStarted(p)' /\ p \notin old' => connection'.type = "LOCAL_CLI"
      BY <3>2, <3>5 DEF ModesApart
    <3>10. \A t \in Tasks : chain'[t] # <<>> \/ row'[t].device # NoDevice => Handed(t)'
      BY <3>2, <3>5, <3>6 DEF ModesApart
    <3>11. \A t \in Tasks : NewComer(t)' /\ connection'.type = "LOCAL_CLI" =>
               JobsOf(t)' = {} /\ \A q \in Requests : enqueuing'[q].task # t
      BY <3>2, <3>4, <3>5 DEF ModesApart
    <3>12. \A t \in Tasks : NewComer(t)' /\ connection'.type = "API_KEY" => ~Handed(t)'
      BY <3>2, <3>4, <3>5 DEF ModesApart
    <3>q. QED BY <3>7, <3>8, <3>9, <3>10, <3>11, <3>12 DEF ModesApart
  <2>2. CASE \E op \in Ops, t \in Tasks : LoadTask(r, op, t)
    <3>1. UNCHANGED <<row, created, job, enqueuing, connection, pass, chain, handed, straddling, old>>
      BY <1>1, <2>2 DEF CreateOrLoad, LoadTask, Load, aside, queueVars, tableVars, gatewayVars, history
    <3>q. QED BY <1>a, <3>1 DEF Exists, HasStarted
  <2>q. QED BY <1>1, <2>1, <2>2 DEF CreateOrLoad
<1>2. ASSUME NEW r \in Requests, UpdateRow(r) PROVE ModesApart'
  <2>1. /\ Update(r) /\ UNCHANGED <<connection, chain>>
        /\ Dispatch(NoTask) \/ UNCHANGED dispatchVars
    BY <1>2, UpdateOfServer DEF UpdateRow
  <2>2. UNCHANGED <<job, enqueuing, handed, straddling, old>>
    BY <1>2 DEF UpdateRow, queueSide, queueVars
  <2>3. /\ UNCHANGED created
        /\ \A t \in Tasks : \/ row'[t] = row[t]
                            \/ Exists(t) /\ \E op \in Ops : row'[t] = Written(op, row[t])
    BY <1>0, <2>1, UpdateKeepsTasksInv
  <2>4. \A t \in Tasks : (Exists(t)' => Exists(t)) /\ (row'[t].device # NoDevice => row[t].device # NoDevice)
    <3>1. ASSUME NEW t \in Tasks, NEW op \in Ops, row'[t] = Written(op, row[t])
          PROVE  row'[t].device # NoDevice => row[t].device # NoDevice
      BY <1>0, <3>1 DEF Written, Canceled, Paused, Requeued, Row
    <3>q. QED BY <2>3, <3>1 DEF Exists
  <2>q. QED BY <1>a, <1>p, <2>1, <2>2, <2>3, <2>4
<1>3. ASSUME NEW r \in Requests, RouteToQueue(r) PROVE ModesApart'
  <2>1. /\ connection.type = "API_KEY" /\ Route(r)
        /\ UNCHANGED <<row, created, job, connection, pass, chain, handed, straddling, old>>
        /\ enqueuing' = [enqueuing EXCEPT ![r] = [step |-> "read", task |-> req[r].task, limit |-> 0]]
    BY <1>3 DEF RouteToQueue, Enqueued, RouteTask, Route, aside, queueVars, tableVars, gatewayVars, history
  <2>2. \A t \in Tasks : (Handed(t)' <=> Handed(t)) /\ (NewComer(t)' <=> NewComer(t)) /\ JobsOf(t)' = JobsOf(t)
    BY <2>1 DEF Handed, NewComer, Exists, JobsOf
  <2>q. QED BY <2>1, <2>2 DEF ModesApart, HasStarted
<1>4. ASSUME NEW r \in Requests, RouteToDevices(r) PROVE ModesApart'
  <2>1. /\ Route(r) /\ AsksForPass /\ UNCHANGED <<connection, chain>>
        /\ UNCHANGED <<job, enqueuing, handed, straddling, old>>
    BY <1>4, RouteOfServer DEF RouteToDevices, queueSide, queueVars, history
  <2>q. QED BY <1>a, <1>p, <2>1 DEF Route, tableVars, Exists, AsksForPass
<1>5. ASSUME NEW r \in Requests, EnqueueRead(r) PROVE ModesApart'
  <2>1. UNCHANGED <<row, created, job, connection, pass, chain, handed, straddling, old>>
    BY <1>5 DEF EnqueueRead, ReadLimit, aside, queueVars, tableVars, gatewayVars, history
  <2>2. \A q \in Requests : enqueuing'[q].task = enqueuing[q].task
    BY <1>0, <1>5 DEF EnqueueRead, ReadLimit, Enqueue
  <2>q. QED BY <1>a, <2>1, <2>2 DEF Exists, HasStarted
<1>6. ASSUME NEW r \in Requests, EnqueueAdd(r) PROVE ModesApart'
  <2> DEFINE t == enqueuing[r].task
  <2>1. /\ UNCHANGED <<row, created, connection, pass, chain, handed, straddling, old>>
        /\ enqueuing' = [enqueuing EXCEPT ![r] = Nothing] /\ enqueuing[r].step = "add"
        /\ \E j \in JobIds : job' = [job EXCEPT ![j] = [pc |-> "waiting", task |-> t]]
    BY <1>6 DEF EnqueueAdd, Add, AddJob, tableVars, gatewayVars, history
  <2>2. t \in Tasks /\ t <= created
    BY <1>0, <2>1 DEF EnqueuesSound
  <2>3. NewComer(t) => connection.type # "LOCAL_CLI"
    BY <2>2 DEF ModesApart
  <2> HIDE DEF t
  <2>4. \A j \in JobIds : job'[j] = job[j] \/ job'[j].task = t
    BY <1>0, <2>1
  <2>5. \A u \in Tasks : (Handed(u)' <=> Handed(u)) /\ (NewComer(u)' <=> NewComer(u))
    BY <2>1 DEF Handed, NewComer, Exists
  <2>6. \A u \in Tasks : u # t /\ JobsOf(u) = {} => JobsOf(u)' = {}
    BY <2>4 DEF JobsOf
  <2>7. \A q \in Requests : enqueuing'[q].task = enqueuing[q].task \/ enqueuing'[q].task \notin Tasks
    BY <1>0, <2>1, NotAboutATask
  <2>q. QED BY <2>1, <2>2, <2>3, <2>4, <2>5, <2>6, <2>7 DEF ModesApart, HasStarted
<1>7. ASSUME NEW t \in Tasks, DeleteTask(t) PROVE ModesApart'
  <2>1. Remove(t) /\ UNCHANGED <<connection, chain, dispatchVars>>
        /\ UNCHANGED <<job, enqueuing, handed, straddling, old>>
    BY <1>7, RemoveOfServer DEF DeleteTask, queueSide, queueVars, history
  <2>2. UNCHANGED created /\ row'[t] = NoRow /\ \A u \in Tasks : u # t => row'[u] = row[u]
    BY <1>0, <2>1, RemoveKeepsTasksInv
  <2>3. NoRow.status = "NONE" /\ NoRow.device = NoDevice
    BY DEF NoRow
  <2>q. QED BY <1>a, <1>p, <2>1, <2>2, <2>3 DEF Exists
<1>8. ASSUME NEW s \in Saves, NEW type \in Modes, NEW limit \in Limits, Switch(s, type, limit) PROVE ModesApart'
  <2>1. /\ connection'.type = type /\ AsksForPass
        /\ UNCHANGED <<row, created, chain, job, enqueuing, handed>>
        /\ straddling' = IF type = connection.type THEN straddling
                         ELSE straddling \cup {t \in Tasks : Exists(t)}
        /\ old' = IF type = connection.type THEN old ELSE {p \in Passes : pass[p].pc # "free"}
    BY <1>8, ConfigureOfServer DEF Switch, SaveConnection, tableVars, queueVars
  <2>2. \A p \in Passes : HasStarted(p)' => HasStarted(p)
    BY <1>0, <2>1, AskedOnly DEF AsksForPass
  <2>3. \A t \in Tasks : (Handed(t)' <=> Handed(t)) /\ JobsOf(t)' = JobsOf(t)
    BY <2>1 DEF Handed, JobsOf
  <2>4. CASE type = connection.type
    <3>1. \A t \in Tasks : NewComer(t)' <=> NewComer(t)
      BY <2>1, <2>4 DEF NewComer, Exists
    <3>q. QED BY <2>1, <2>2, <2>3, <2>4, <3>1 DEF ModesApart
  <2>5. CASE type # connection.type
    <3>1. \A t \in Tasks : ~NewComer(t)'
      BY <2>1, <2>5 DEF NewComer, Exists
    <3>2. \A p \in Passes : HasStarted(p)' => p \in old'
      BY <2>1, <2>2, <2>5 DEF HasStarted
    <3>q. QED BY <2>1, <2>3, <3>1, <3>2 DEF ModesApart
  <2>q. QED BY <2>4, <2>5
<1>9. CASE (\E s \in Saves : SyncWorker(s)) \/ UNCHANGED platformVars
  <2>1. UNCHANGED <<row, created, job, enqueuing, connection, pass, chain, handed, straddling, old>>
    BY <1>9 DEF SyncWorker, Sync, platformVars, apiVars, tableVars, queueVars, gatewayVars, history
  <2>q. QED BY <1>a, <2>1 DEF Exists, HasStarted
<1>10. ASSUME NEW p \in Passes, DispatchOn(p) PROVE ModesApart'
  <2>1. /\ UNCHANGED <<row, created, job, enqueuing, connection, handed, straddling>>
        /\ StillOld
        /\ ReadConnection(p) \/ ReadDevices(p) \/ SendAssign(p) \/ \E d \in Devices : CountSlots(p, d)
    BY <1>10 DEF DispatchOn, ReadConnection, ReadDevices, SendAssign, CountSlots, queueSide, queueVars, tableVars
  <2>2. PassRuns(p) /\ Turn(p)
    BY <2>1 DEF PassRuns, ReadConnection, ReadDevices, SendAssign, CountSlots
  <2>3. /\ \A q \in Passes : HasStarted(q)' => HasStarted(q) \/ connection.type = "LOCAL_CLI"
        /\ \A t \in Tasks : chain'[t] # <<>> => chain[t] # <<>>
    BY <1>0, <2>2, PassGoesOn DEF ApiTypeOK
  <2>q. QED BY <1>a, <1>s, <2>1, <2>3 DEF Exists
<1>11. ASSUME NEW p \in Passes, ClaimTask(p) PROVE ModesApart'
  <2> DEFINE claimed == {t \in Tasks : row[t].status = "QUEUED" /\ row'[t].status = "RUNNING"}
  <2>1. /\ UNCHANGED <<job, enqueuing, connection>> /\ StillOld
        /\ handed' = handed \cup ({pass[p].dev} \X claimed)
        /\ straddling' = IF p \in old THEN straddling \cup claimed ELSE straddling
    BY <1>11 DEF ClaimTask, queueSide, queueVars
  <2>2. PICK skipped \in SUBSET Tasks : Claim(p, skipped)
    BY <1>11, ClaimOfServer DEF ClaimTask
  <2>3. /\ UNCHANGED created /\ HasStarted(p) /\ pass[p].dev \in Devices
        /\ PassRuns(p)
        /\ \A t \in Tasks : row'[t] = row[t] \/ (row[t].status = "QUEUED" /\ row'[t] = Claimed(row[t], pass[p].dev))
    <3>1. pass[p].pc = "claim"
      BY <2>2 DEF Claim
    <3>2. pass[p].dev \in Devices
      BY <3>1 DEF PlatInv, ClaimsForADevice
    <3>3. \A t \in Tasks : row'[t] = row[t] \/ (row[t].status = "QUEUED" /\ row'[t] = Claimed(row[t], pass[p].dev))
      BY <1>0, <2>2 DEF Claim, Claimable, Queued
    <3>q. QED BY <2>2, <3>1, <3>2, <3>3 DEF Claim, HasStarted, PassRuns
  <2>4. \A t \in Tasks : row'[t] = row[t] \/ (t \in claimed /\ Exists(t))
    <3>1. ASSUME NEW t \in Tasks, row[t].status = "QUEUED", row'[t] = Claimed(row[t], pass[p].dev)
          PROVE  t \in claimed /\ Exists(t)
      BY <1>0, <3>1 DEF Claimed, Row, Exists
    <3>q. QED BY <2>3, <3>1
  <2>5. \A t \in claimed : t \in Tasks /\ Exists(t) /\ t <= created
    BY <1>0 DEF Exists, TasksSound, Tasks
  <2> HIDE DEF claimed
  <2>6. \A t \in Tasks : Handed(t)' <=> Handed(t) \/ t \in claimed
    BY <2>1, <2>3 DEF Handed
  <2>7. \A t \in Tasks : NewComer(t)' => NewComer(t) /\ (t \in claimed => p \notin old)
    BY <2>1, <2>4 DEF NewComer, Exists
  <2>8. p \notin old => connection.type = "LOCAL_CLI"
    BY <2>3 DEF ModesApart
  <2>9. \A q \in Passes : HasStarted(q)' /\ q \notin old' => connection'.type = "LOCAL_CLI"
    BY <1>0, <1>s, <2>1, <2>3, PassGoesOn DEF ApiTypeOK, ModesApart
  <2>10. \A t \in Tasks : chain'[t] # <<>> \/ row'[t].device # NoDevice => Handed(t)'
    BY <1>0, <2>3, <2>4, <2>6, PassGoesOn DEF ApiTypeOK, ModesApart
  <2>11. \A t \in Tasks : Handed(t)' => t <= created'
    BY <2>3, <2>5, <2>6 DEF ModesApart
  <2>12. \A t \in Tasks : JobsOf(t)' = JobsOf(t)
    BY <2>1 DEF JobsOf
  <2>q. QED BY <1>0, <2>1, <2>3, <2>6, <2>7, <2>8, <2>9, <2>10, <2>11, <2>12 DEF ModesApart
<1>12. ASSUME GatewayActs, UNCHANGED <<connection, req, queueSide, handed, straddling, old>>,
              \/ \E s \in Sessions : Serves(s)
              \/ \E d \in Devices : RemoveDevice(d)
              \/ \E t \in Tasks : ApplyReport(t) \/ \E s \in Sessions, rep \in Reports : Receive(s, t, rep),
              \A t \in Tasks : chain'[t] # <<>> => chain[t] # <<>> \/ Handed(t),
              (\E t \in Tasks \cup {NoTask} : Dispatch(t)) \/ UNCHANGED dispatchVars
       PROVE  ModesApart'
  <2>1. /\ UNCHANGED created
        /\ \A t \in Tasks : /\ Exists(t)' => Exists(t)
                            /\ row'[t].device # NoDevice => row[t].device # NoDevice
    BY <1>0, <1>12, GatewayWrites, OldRowsOnly, NothingHandedOut
  <2>2. UNCHANGED <<job, enqueuing>>
    BY <1>12 DEF queueSide, queueVars
  <2>q. QED BY <1>a, <1>p, <1>12, <2>1, <2>2
<1>13. CASE SessionOn
  <2>1. PICK s \in Sessions : Serves(s)
    BY <1>13, SessionOfServer DEF SessionOn
  <2>2. UNCHANGED chain /\ (Dispatch(NoTask) \/ UNCHANGED dispatchVars)
    BY <2>1 DEF Serves, Connect, Identify, MarkOnline, Drop, MarkOffline, Requeue
  <2>q. QED BY <1>12, <1>13, <2>1, <2>2 DEF SessionOn, GatewayActs, history
<1>14. ASSUME NEW d \in Devices, DeleteDevice(d) PROVE ModesApart'
  <2>1. RemoveDevice(d) /\ UNCHANGED chain /\ UNCHANGED dispatchVars
    BY <1>14 DEF DeleteDevice, RemoveDevice
  <2>q. QED BY <1>12, <1>14, <2>1 DEF DeleteDevice, GatewayActs, history
<1>15. ASSUME NEW t \in Tasks, ReportOn(t) PROVE ModesApart'
  <2>1. CASE ApplyReport(t)
    <3>1. chain[t] # <<>> /\ (UNCHANGED chain \/ chain' = [chain EXCEPT ![t] = Tail(@)])
      BY <2>1 DEF ApplyReport
    <3>2. \A u \in Tasks : chain'[u] # <<>> => chain[u] # <<>>
      BY <1>0, <3>1 DEF GatewayTypeOK
    <3>3. Dispatch(t) \/ UNCHANGED dispatchVars
      BY <2>1 DEF ApplyReport
    <3>q. QED BY <1>12, <1>15, <2>1, <3>2, <3>3 DEF ReportOn, GatewayActs, history
  <2>2. ASSUME NEW s \in Sessions, NEW rep \in Reports, <<session[s].device, t>> \in handed, Receive(s, t, rep)
        PROVE  ModesApart'
    <3>1. Handed(t)
      BY <2>2 DEF Handed, PlatInv, PlatformTypeOK
    <3>2. \A u \in Tasks : chain'[u] # <<>> => chain[u] # <<>> \/ Handed(u)
      BY <1>0, <2>2, <3>1 DEF Receive, GatewayTypeOK
    <3>3. UNCHANGED dispatchVars
      BY <2>2 DEF Receive
    <3>q. QED BY <1>12, <1>15, <2>2, <3>2, <3>3 DEF ReportOn, GatewayActs, history
  <2>q. QED BY <1>15, <2>1, <2>2 DEF ReportOn
<1>16. ASSUME NEW j \in JobIds, WorkerOn(j) PROVE ModesApart'
  <2>1. JobStep(j) /\ UNCHANGED <<pass, chain, handed, straddling, old>>
    BY <1>0, <1>16, WorkerOnSteps DEF WorkerOn, gatewayVars
  <2>2. UNCHANGED <<created, connection, enqueuing>>
    BY <2>1 DEF JobStep
  <2>3. \A k \in JobIds : job'[k] = job[k] \/ (job[k].pc # "none" /\ job'[k].task = job[k].task)
                                           \/ job'[k] = NoJob
    <3>1. job[j].pc # "none"
      BY <2>1 DEF JobStep, Job, Running, Pending
    <3>2. /\ \A k \in JobIds : k # j => job'[k] = job[k]
          /\ job'[j].task = job[j].task \/ job'[j] = NoJob
      BY <1>0, <2>1, JobsAfterStep DEF JobStep
    <3>q. QED BY <3>1, <3>2
  <2>4. \A t \in Tasks : (Exists(t)' => Exists(t)) /\ (row'[t].device # NoDevice => row[t].device # NoDevice)
    <3>1. \A t \in Tasks : row'[t] = row[t] \/ \E status \in Statuses : Changes(t, status)
      BY <2>1 DEF JobStep, JobMoves, JobEnds, Statuses, Final, Finished
    <3>2. \A t \in Tasks : row[t] \in Row
      BY <1>0
    <3>3. ASSUME NEW t \in Tasks, NEW status \in Statuses, Changes(t, status)
          PROVE  Exists(t) /\ row'[t].device = row[t].device
      BY <3>2, <3>3, StatusWritten DEF Changes
    <3>q. QED BY <3>1, <3>3 DEF Exists
  <2>q. QED BY <1>a, <2>1, <2>2, <2>3, <2>4 DEF HasStarted
<1>17. CASE Die
  <2>1. /\ UNCHANGED <<connection, row, created, handed, straddling>>
        /\ enqueuing' = [r \in Requests |-> Nothing]
        /\ chain' = [t \in Tasks |-> <<>>] /\ pass' = [p \in Passes |-> NoRun]
        /\ job' = [j \in JobIds |-> IF job[j].pc \in Running THEN [job[j] EXCEPT !.pc = "stalled"] ELSE job[j]]
    BY <1>17 DEF Die, Crash, WorkerDies, tableVars
  <2>2. \A j \in JobIds : job'[j] = job[j] \/ (job[j].pc # "none" /\ job'[j].task = job[j].task)
    <3>1. ASSUME NEW j \in JobIds, job[j].pc \in Running
          PROVE  job[j].pc # "none" /\ job'[j].task = job[j].task
      <4>1. job[j] \in Job
        BY <1>0, <3>1 DEF NoJob, Running
      <4>q. QED BY <2>1, <3>1, <4>1 DEF Job, Running
    <3>q. QED BY <2>1, <3>1
  <2>3. NoRun.pc = "free" /\ Nothing.task = NoTask
    BY DEF NoRun, Nothing
  <2>4. /\ \A p \in Passes : ~HasStarted(p)'
        /\ \A r \in Requests : enqueuing'[r].task = NoTask
        /\ \A t \in Tasks : chain'[t] = <<>>
    BY <2>1, <2>3 DEF HasStarted
  <2>q. QED BY <1>a, <2>1, <2>2, <2>4 DEF Exists
<1>q. QED
  BY <1>1, <1>2, <1>3, <1>4, <1>5, <1>6, <1>7, <1>8, <1>9, <1>10, <1>11, <1>13, <1>14, <1>15, <1>16, <1>17
  DEF PlatformNext

(* No task is in the hands of both a device and the queue, except those    *)
(* that were there when the modes changed or were claimed by a pass that   *)
(* had begun before.                                                       *)
THEOREM PlatformOneExecutor == PlatformSpec => []OneExecutor
<1>1. PlatInv /\ ModesApart => OneExecutor
  <2> SUFFICES ASSUME PlatInv, ModesApart, NEW t \in Tasks, JobsOf(t) # {}, row[t].device # NoDevice,
                      row[t].status \in Occupying, t \notin straddling
               PROVE  FALSE
    BY DEF OneExecutor
  <2>1. NewComer(t) /\ Handed(t) /\ connection.type \in {"API_KEY", "LOCAL_CLI"}
    BY DEF NewComer, Exists, Occupying, ModesApart, PlatInv, PlatformTypeOK, ApiTypeOK,
       ConnectionTypeOK, Connections
  <2>q. QED BY <2>1 DEF ModesApart
<1>q. QED BY <1>1, ModesApartInit, ModesApartStep, PlatformInvariance, PTL DEF PlatformSpec

-----------------------------------------------------------------------------
(* What switching the modes may do to the tasks of the queue: nothing to   *)
(* one that comes afterwards.  No device has it, so that in API_KEY mode   *)
(* the gateway neither finishes nor revives it.                            *)
LEMMA BesideTheQueue ==
    ASSUME PlatInv, ModesApart, GatewaySide, connection.type = "API_KEY",
           NEW t \in Tasks, NewComer(t)
    PROVE  \/ row'[t].status = row[t].status
           \/ /\ row[t].status  \in Waiting \cup Occupying
              /\ row'[t].status \in Waiting \cup Occupying
<1>1. row[t] \in Row /\ GatewayTypeOK /\ row \in [Tasks -> Row]
  BY DEF PlatInv, PlatformTypeOK, ApiTypeOK, TableTypeOK
<1>2. DeviceWrites(t)
  BY <1>1, GatewayWrites DEF GatewaySide
<1>3. ~IsReported(t)
  BY DEF ModesApart, IsReported
<1>q. QED
  BY <1>1, <1>2, <1>3 DEF DeviceWrites, HandsOut, Requeued, DeviceForgotten, Claimed, Row, Waiting, Occupying

(* A task that is to be executed in API_KEY mode is in the hands of a      *)
(* request or has a job and a worker.                                      *)
NewComersKept ==
    connection.type = "API_KEY" /\ crashes = 0 =>
        \A t \in Tasks \ (straddling \cup stuck) : row[t].status \in Waiting \cup Occupying => Kept(t)

(* The reasons are remembered.                                             *)
LEMMA HistoryGrows ==
    ASSUME [PlatformNext]_platformVars
    PROVE  straddling \subseteq straddling' /\ stuck \subseteq stuck' /\ resumed \subseteq resumed'
<1>1. ASSUME NEW r \in Requests, CreateOrLoad(r) \/ UpdateRow(r) \/ RouteToQueue(r)
                                   \/ RouteToDevices(r) \/ EnqueueRead(r) \/ EnqueueAdd(r)
      PROVE  straddling \subseteq straddling' /\ stuck \subseteq stuck' /\ resumed \subseteq resumed'
  BY <1>1 DEF CreateOrLoad, UpdateRow, RouteToQueue, RouteToDevices, EnqueueRead, EnqueueAdd, history
<1>2. ASSUME NEW t \in Tasks, DeleteTask(t) \/ ReportOn(t)
      PROVE  straddling \subseteq straddling' /\ stuck \subseteq stuck' /\ resumed \subseteq resumed'
  BY <1>2 DEF DeleteTask, ReportOn, history
<1>3. ASSUME NEW p \in Passes, DispatchOn(p) \/ ClaimTask(p)
      PROVE  straddling \subseteq straddling' /\ stuck \subseteq stuck' /\ resumed \subseteq resumed'
  BY <1>3 DEF DispatchOn, ClaimTask
<1>4. ASSUME NEW s \in Saves, NEW type \in Modes, NEW limit \in Limits, Switch(s, type, limit)
      PROVE  straddling \subseteq straddling' /\ stuck \subseteq stuck' /\ resumed \subseteq resumed'
  BY <1>4 DEF Switch
<1>5. ASSUME NEW j \in JobIds, WorkerOn(j)
      PROVE  straddling \subseteq straddling' /\ stuck \subseteq stuck' /\ resumed \subseteq resumed'
  BY <1>5 DEF WorkerOn
<1>q. QED
  BY <1>1, <1>2, <1>3, <1>4, <1>5
  DEF PlatformNext, SyncWorker, SessionOn, DeleteDevice, Die, platformVars, history

(* Whoever ends a job without a word is known.                             *)
LEMMA UnwrittenIsStuck ==
    ASSUME PlatInv, [PlatformNext]_platformVars, NEW t \in Tasks, Writable(row[t]), Unwritten(t)
    PROVE  t \in stuck'
<1>1. PICK j \in JobsOf(t) : At(j, "call") /\ JobEnds(j) /\ row' = row
  BY DEF Unwritten
<1>2. /\ j \in JobIds /\ job[j].task = t /\ job[j].pc = "call" /\ job[j].pc # "none"
      /\ ApiTypeOK /\ job \in [JobIds -> Job \cup {NoJob}] /\ job'[j] = NoJob
  BY <1>1 DEF JobsOf, At, PlatInv, PlatformTypeOK, ApiTypeOK, QueueTypeOK, JobEnds, Done
<1>3. job'[j] # job[j] /\ job[j] # NoJob
  BY <1>2, NotAboutATask
<1>4. ASSUME NEW k \in JobIds, WorkerOn(k) PROVE t \in stuck'
  <2>1. JobStep(k)
    BY <1>2, <1>4, WorkerOnSteps
  <2>2. k = j
    BY <1>2, <1>3, <2>1, JobsAfterStep
  <2>q. QED BY <1>1, <1>2, <1>4, <2>2 DEF WorkerOn
<1>5. ASSUME NEW r \in Requests, EnqueueAdd(r) PROVE FALSE
  BY <1>2, <1>3, <1>5 DEF EnqueueAdd, Add, AddJob
<1>6. ASSUME Die PROVE FALSE
  BY <1>2, <1>3, <1>6, JobsAfterCrash, NotAboutATask DEF Die, Crash
<1>7. job' # job
  BY <1>3
<1>8. ASSUME NEW r \in Requests, CreateOrLoad(r) \/ UpdateRow(r) \/ RouteToQueue(r)
                                   \/ RouteToDevices(r) \/ EnqueueRead(r)
      PROVE  UNCHANGED job
  BY <1>8
  DEF CreateOrLoad, CreateTask, LoadTask, UpdateRow, RouteToQueue, RouteTask, RouteToDevices,
      EnqueueRead, ReadLimit, aside, queueSide, queueVars
<1>9. ASSUME GatewaySide PROVE UNCHANGED job
  BY <1>9 DEF GatewaySide, queueSide, queueVars
<1>q. QED
  BY <1>4, <1>5, <1>6, <1>7, <1>8, <1>9, GatewaySteps
  DEF PlatformNext, DeleteTask, Switch, SyncWorker, Sync, queueSide, queueVars, platformVars, apiVars

(* In API_KEY mode a task is handed from its request to an enqueue to a    *)
(* job, and lost only for the reasons listed.                              *)
LEMMA NewComersKeptStep ==
    ASSUME PlatInv, ModesApart, NewComersKept, [PlatformNext]_platformVars
    PROVE  NewComersKept'
<1> SUFFICES ASSUME connection'.type = "API_KEY", crashes' = 0, NEW t \in Tasks,
                    t \notin straddling', t \notin stuck', row'[t].status \in Waiting \cup Occupying
             PROVE  Kept(t)'
  BY DEF NewComersKept
<1>0. /\ ApiInv /\ GatewayTypeOK /\ row \in [Tasks -> Row]
      /\ t \notin straddling /\ t \notin stuck
  BY HistoryGrows DEF PlatInv, PlatformTypeOK, ApiInv, ApiTypeOK, TableTypeOK
<1>a. ASSUME UNCHANGED <<req, job, worker, enqueuing, crashes>>, connection.type = "API_KEY",
             row[t].status \in Waiting \cup Occupying
      PROVE  Kept(t)'
  <2>1. Kept(t)
    BY <1>0, <1>a DEF NewComersKept
  <2>q. QED BY <1>a, <2>1 DEF Kept, InHand, JobsOf
<1>k. ASSUME ApiNext, UNCHANGED connection, ~Crash, UNCHANGED crashes PROVE Kept(t)'
  <2>1. row[t].status \in Waiting \cup Occupying => Kept(t)
    BY <1>0, <1>k DEF NewComersKept
  <2>2. ~Unwritten(t)
    <3>1. ASSUME Unwritten(t) PROVE t \in stuck'
      <4>1. Writable(row[t])
        BY <3>1 DEF Unwritten, Writable, Waiting, Occupying
      <4>q. QED BY <3>1, <4>1, UnwrittenIsStuck
    <3>q. QED BY <3>1
  <2>q. QED BY <1>0, <1>k, <2>1, <2>2, KeptStep
<1>c. ASSUME UNCHANGED crashes PROVE ~Crash
  <2>1. crashes \in Nat
    BY <1>0, MaxCrashesAssumption DEF ApiInv, ApiTypeOK
  <2>q. QED BY <1>c, <2>1 DEF Crash
<1>1. ASSUME NEW r \in Requests, CreateOrLoad(r) \/ UpdateRow(r) \/ RouteToQueue(r)
                                   \/ EnqueueRead(r) \/ EnqueueAdd(r)
      PROVE  Kept(t)'
  <2>1. UNCHANGED <<connection, crashes>>
    BY <1>1, UpdateOfServer
    DEF CreateOrLoad, CreateTask, LoadTask, UpdateRow, RouteToQueue, RouteTask, EnqueueRead,
        ReadLimit, EnqueueAdd, Add, aside, queueSide
  <2>q. QED BY <1>1, <1>c, <1>k, <2>1, ApiSteps
<1>2. ASSUME NEW u \in Tasks, DeleteTask(u) PROVE Kept(t)'
  <2>1. UNCHANGED <<connection, crashes>>
    BY <1>2, RemoveOfServer DEF DeleteTask, queueSide
  <2>q. QED BY <1>2, <1>c, <1>k, <2>1, ApiSteps
<1>3. ASSUME (\E s \in Saves : SyncWorker(s)) \/ \E j \in JobIds : WorkerOn(j) PROVE Kept(t)'
  <2>1. UNCHANGED <<connection, crashes>>
    BY <1>0, <1>3, WorkerOnSteps DEF ApiInv, SyncWorker, Sync, JobStep
  <2>q. QED BY <1>3, <1>c, <1>k, <2>1, ApiSteps
<1>4. ASSUME NEW r \in Requests, RouteToDevices(r) PROVE Kept(t)'
  BY <1>4, RouteOfServer DEF RouteToDevices
<1>5. ASSUME NEW s \in Saves, NEW type \in Modes, NEW limit \in Limits, Switch(s, type, limit) PROVE Kept(t)'
  <2>1. UNCHANGED <<row, req, job, worker, enqueuing, crashes>> /\ connection'.type = type
    BY <1>5, ConfigureOfServer DEF Switch, SaveConnection, tableVars, queueVars
  <2>2. type # connection.type => t \in straddling'
    BY <1>5, <2>1 DEF Switch, Exists, Waiting, Occupying
  <2>q. QED BY <1>a, <2>1, <2>2
<1>6. ASSUME GatewaySide PROVE Kept(t)'
  <2>1. UNCHANGED <<connection, req, job, worker, enqueuing, crashes>>
    BY <1>6 DEF GatewaySide, queueSide, queueVars
  <2>2. NewComer(t)
    BY <1>0, <1>6, GatewayWrites, OldRowsOnly DEF GatewaySide, NewComer, Exists, Waiting, Occupying
  <2>3. row[t].status \in Waiting \cup Occupying
    BY <1>6, <2>1, <2>2, BesideTheQueue
  <2>q. QED BY <1>a, <2>1, <2>3
<1>7. CASE Die
  <2>1. crashes \in Nat
    BY <1>0, MaxCrashesAssumption DEF ApiInv, ApiTypeOK
  <2>q. QED BY <1>7, <2>1 DEF Die, Crash
<1>8. CASE UNCHANGED platformVars
  BY <1>8, <1>a DEF platformVars, apiVars, queueVars, tableVars
<1>q. QED
  BY <1>1, <1>2, <1>3, <1>4, <1>5, <1>6, <1>7, <1>8, GatewaySteps DEF PlatformNext

(* In API_KEY mode and without a crash, a task that is to be executed has  *)
(* a job and a worker, but for one that was there when the modes changed   *)
(* or whose job failed before it could write.                              *)
THEOREM PlatformStrandedExplained == PlatformSpec => []StrandedExplained
<1>1. PlatformInit => NewComersKept
  BY DEF PlatformInit, TableInit, NoRow, NewComersKept, Waiting, Occupying
<1>2. PlatInv /\ NewComersKept => StrandedExplained
  <2> SUFFICES ASSUME PlatInv, NewComersKept, Quiet, connection.type = "API_KEY", crashes = 0,
                      NEW t \in Tasks, row[t].status \in Waiting \cup Occupying,
                      t \notin straddling \cup stuck
               PROVE  JobsOf(t) # {} /\ worker # 0
    BY DEF StrandedExplained
  <2>1. Kept(t)
    BY DEF NewComersKept
  <2>2. ~InHand(t)
    BY NotAboutATask DEF Quiet, Ready, InHand, PlatInv, TasksSound
  <2>q. QED BY <2>1, <2>2 DEF Kept
<1>q. QED
  BY <1>1, <1>2, NewComersKeptStep, ModesApartInit, ModesApartStep, PlatformInvariance, PTL DEF PlatformSpec

-----------------------------------------------------------------------------
(* While the user's requests come one at a time, a task that was neither   *)
(* resumed while it had a job nor there when the modes changed has one job *)
(* at most; in API_KEY mode it is not over as long as it has one.          *)
JobsApart ==
    \A t \in Tasks \ (resumed \cup straddling) :
        JobUnique(t) /\ (connection.type = "API_KEY" => JobOpen(t))

(* With one request at a time, a step in which a request writes is that    *)
(* request's.                                                              *)
LEMMA OnlyUpdateRow ==
    ASSUME OneRequest, PlatInv, [PlatformNext]_platformVars, NEW r \in Requests, UpdateTask(r)
    PROVE  UpdateRow(r)
<1>0. /\ req[r].at = "update" /\ req'[r] # req[r] /\ crashes' = crashes
      /\ \A q \in Requests : q = r
      /\ crashes \in Nat
  <2>1. /\ req[r].at = "update" /\ crashes' = crashes
        /\ \/ req'[r] = Idle \/ \E t \in Tasks : req'[r] = Routing(t)
    BY DEF UpdateTask, Update, aside, PlatInv, PlatformTypeOK, ApiTypeOK, TasksTypeOK, TasksSound
  <2>2. Idle.at # "update" /\ \A t \in Tasks : Routing(t).at # "update"
    BY DEF Idle, Routing
  <2>q. QED
    BY <2>1, <2>2, MaxCrashesAssumption DEF OneRequest, PlatInv, PlatformTypeOK, ApiTypeOK
<1>1. ASSUME NEW q \in Requests, CreateOrLoad(q) \/ RouteToQueue(q) \/ RouteToDevices(q)
                                   \/ EnqueueRead(q) \/ EnqueueAdd(q)
      PROVE  FALSE
  BY <1>0, <1>1, RouteOfServer
  DEF CreateOrLoad, CreateTask, Create, LoadTask, Load, RouteToQueue, RouteTask, Route, RouteToDevices,
      EnqueueRead, ReadLimit, EnqueueAdd, Add
<1>2. ASSUME NEW s \in Saves, NEW type \in Modes, NEW limit \in Limits, Switch(s, type, limit) PROVE FALSE
  BY <1>0, <1>2, ConfigureOfServer DEF Switch
<1>3. ASSUME NEW u \in Tasks, DeleteTask(u) PROVE FALSE
  BY <1>0, <1>3, RemoveOfServer DEF DeleteTask, Remove
<1>4. ASSUME NEW j \in JobIds, WorkerOn(j) PROVE FALSE
  BY <1>0, <1>4, WorkerOnSteps DEF JobStep, PlatInv, PlatformTypeOK
<1>5. ASSUME GatewaySide \/ (\E s \in Saves : SyncWorker(s)) \/ UNCHANGED platformVars PROVE FALSE
  BY <1>0, <1>5 DEF GatewaySide, SyncWorker, Sync, platformVars, apiVars
<1>6. ASSUME Die PROVE FALSE
  BY <1>0, <1>6 DEF Die, Crash
<1>q. QED
  BY <1>0, <1>1, <1>2, <1>3, <1>4, <1>5, <1>6, GatewaySteps DEF PlatformNext

(* A task that is requeued while it has a job has been resumed, or retried *)
(* in LOCAL_CLI mode, where it has none.                                   *)
LEMMA EntryIsAlone ==
    ASSUME OneRequest, PlatInv, [PlatformNext]_platformVars, NEW t \in Tasks, t \notin resumed',
           JobUnique(t), connection.type = "API_KEY" => JobOpen(t),
           connection.type = "API_KEY" \/ ~Exists(t)'
    PROVE  EntersAlone(t)
<1> SUFFICES ASSUME NEW r \in Requests, UpdateTask(r), Exists(t), req[r].task = t,
                    req[r].op \in {"resume", "retry"}, JobsOf(t) # {}
             PROVE  FALSE
  BY DEF EntersAlone
<1>0. /\ UpdateRow(r) /\ row[t] \in Row /\ row \in [Tasks -> Row]
      /\ req[r].at = "update" /\ req[r].op \in Ops
      /\ row'[t] = Written(req[r].op, row[t])
  BY OnlyUpdateRow DEF PlatInv, PlatformTypeOK, ApiTypeOK, TableTypeOK, UpdateTask, Update, Ops
<1>1. connection.type = "API_KEY"
  <2>1. row'[t].status = "QUEUED"
    BY <1>0, WrittenStatus
  <2>q. QED BY <2>1 DEF Exists
<1>2. CASE req[r].op = "retry"
  BY <1>0, <1>1, <1>2 DEF JobOpen, Exists, Final
<1>3. CASE req[r].op = "resume"
  BY <1>0, <1>3 DEF UpdateRow, Resumes
<1>q. QED BY <1>2, <1>3

(* With one request at a time a task gets a second job by a resume or a    *)
(* switch only.                                                            *)
LEMMA JobsApartStep ==
    ASSUME OneRequest, PlatInv, ModesApart, JobsApart, [PlatformNext]_platformVars
    PROVE  JobsApart'
<1> SUFFICES ASSUME NEW t \in Tasks, t \notin resumed', t \notin straddling'
             PROVE  JobUnique(t)' /\ (connection'.type = "API_KEY" => JobOpen(t)')
  BY DEF JobsApart
<1>0. /\ ApiInv /\ GatewayTypeOK /\ row \in [Tasks -> Row] /\ JobsCreated
      /\ t \notin straddling /\ t \notin resumed
      /\ connection.type \in {"API_KEY", "LOCAL_CLI"}
  BY HistoryGrows
  DEF PlatInv, PlatformTypeOK, ApiInv, ApiTypeOK, TableTypeOK, ModesApart, JobsCreated,
      ConnectionTypeOK, Connections
<1>1. JobUnique(t) /\ (connection.type = "API_KEY" => JobOpen(t))
  BY <1>0 DEF JobsApart
<1>a. ASSUME UNCHANGED <<req, job, enqueuing>>
      PROVE  /\ JobUnique(t)'
             /\ JobOpen(t) /\ row'[t].status = row[t].status => JobOpen(t)'
             /\ JobOpen(t) /\ row[t].status \in Waiting \cup Occupying
                           /\ row'[t].status \in Waiting \cup Occupying => JobOpen(t)'
             /\ row'[t].status = "NONE" => JobOpen(t)'
  <2>1. (JobsOf(t)' = JobsOf(t)) /\ (Coming(t)' <=> Coming(t))
    BY <1>a DEF JobsOf, Coming
  <2>q. QED BY <1>a, <1>1, <2>1 DEF JobUnique, JobOpen, Waiting, Occupying, Final
<1>k. ASSUME ApiNext \/ UNCHANGED apiVars, UNCHANGED connection
      PROVE  JobUnique(t)' /\ (connection'.type = "API_KEY" => JobOpen(t)')
  <2>1. CASE connection.type = "API_KEY"
    <3>1. EntersAlone(t)
      BY <1>1, <2>1, EntryIsAlone
    <3>q. QED BY <1>0, <1>1, <1>k, <2>1, <3>1, JobUniqueStep, JobOpenStep
  <2>2. CASE connection.type = "LOCAL_CLI" /\ Exists(t)'
    <3>1. JobsOf(t)' = {}
      BY <1>k, <2>2, ModesApartStep DEF ModesApart, NewComer
    <3>q. QED BY <1>k, <2>2, <3>1 DEF JobUnique
  <2>3. CASE connection.type = "LOCAL_CLI" /\ ~Exists(t)'
    <3>1. EntersAlone(t)
      BY <1>1, <2>3, EntryIsAlone
    <3>q. QED BY <1>0, <1>1, <1>k, <2>3, <3>1, JobUniqueStep
  <2>q. QED BY <1>0, <2>1, <2>2, <2>3
<1>2. ASSUME NEW r \in Requests, CreateOrLoad(r) \/ UpdateRow(r) \/ RouteToQueue(r)
                                   \/ EnqueueRead(r) \/ EnqueueAdd(r)
      PROVE  JobUnique(t)' /\ (connection'.type = "API_KEY" => JobOpen(t)')
  <2>1. UNCHANGED connection
    BY <1>2, UpdateOfServer
    DEF CreateOrLoad, CreateTask, LoadTask, UpdateRow, RouteToQueue, RouteTask, EnqueueRead,
        ReadLimit, EnqueueAdd, Add, aside
  <2>q. QED BY <1>2, <1>k, <2>1, ApiSteps
<1>3. ASSUME NEW u \in Tasks, DeleteTask(u)
      PROVE  JobUnique(t)' /\ (connection'.type = "API_KEY" => JobOpen(t)')
  <2>1. UNCHANGED connection
    BY <1>3, RemoveOfServer DEF DeleteTask
  <2>q. QED BY <1>3, <1>k, <2>1, ApiSteps
<1>4. ASSUME (\E s \in Saves : SyncWorker(s)) \/ Die \/ \E j \in JobIds : WorkerOn(j)
      PROVE  JobUnique(t)' /\ (connection'.type = "API_KEY" => JobOpen(t)')
  <2>1. UNCHANGED connection
    BY <1>0, <1>4, WorkerOnSteps DEF ApiInv, SyncWorker, Sync, Die, Crash, JobStep
  <2>q. QED BY <1>4, <1>k, <2>1, ApiSteps
<1>5. ASSUME NEW r \in Requests, RouteToDevices(r)
      PROVE  JobUnique(t)' /\ (connection'.type = "API_KEY" => JobOpen(t)')
  <2>1. Route(r) /\ UNCHANGED <<connection, job, enqueuing>> /\ connection.type = "LOCAL_CLI"
    BY <1>5, RouteOfServer DEF RouteToDevices, queueSide, queueVars
  <2>2. Coming(t)' => Coming(t)
    BY <2>1, NotAboutATask DEF Coming, Route
  <2>3. JobsOf(t)' = JobsOf(t)
    BY <2>1 DEF JobsOf
  <2>q. QED BY <1>1, <2>1, <2>2, <2>3 DEF JobUnique
<1>6. ASSUME NEW s \in Saves, NEW type \in Modes, NEW limit \in Limits, Switch(s, type, limit)
      PROVE  JobUnique(t)' /\ (connection'.type = "API_KEY" => JobOpen(t)')
  <2>1. UNCHANGED <<row, req, job, enqueuing>> /\ connection'.type = type
    BY <1>6, ConfigureOfServer DEF Switch, SaveConnection, tableVars, queueVars
  <2>2. type # connection.type => row'[t].status = "NONE"
    BY <1>6, <2>1 DEF Switch, Exists
  <2>q. QED BY <1>1, <1>a, <2>1, <2>2
<1>7. ASSUME GatewaySide
      PROVE  JobUnique(t)' /\ (connection'.type = "API_KEY" => JobOpen(t)')
  <2>1. UNCHANGED <<connection, req, job, enqueuing>>
    BY <1>7 DEF GatewaySide, queueSide, queueVars
  <2>2. CASE Exists(t) /\ connection.type = "API_KEY"
    <3>1. NewComer(t)
      BY <1>0, <2>2 DEF NewComer
    <3>q. QED BY <1>1, <1>7, <1>a, <2>1, <2>2, <3>1, BesideTheQueue
  <2>3. CASE ~Exists(t)
    <3>1. ~Exists(t)'
      BY <1>0, <1>7, <2>3, GatewayWrites, OldRowsOnly DEF GatewaySide
    <3>q. QED BY <1>a, <2>1, <3>1 DEF Exists
  <2>q. QED BY <1>a, <2>1, <2>2, <2>3
<1>8. CASE UNCHANGED platformVars
  BY <1>8, <1>k DEF platformVars, apiVars
<1>q. QED
  BY <1>2, <1>3, <1>4, <1>5, <1>6, <1>7, <1>8, GatewaySteps DEF PlatformNext

(* At the start there is no job.                                           *)
LEMMA JobsApartInit == PlatformInit => JobsApart
<1> SUFFICES ASSUME PlatformInit, NEW t \in Tasks PROVE JobUnique(t) /\ JobOpen(t)
  BY DEF JobsApart
<1>1. /\ \A j \in JobIds : job[j] = NoJob
      /\ \A r \in Requests : req[r] = Idle /\ enqueuing[r] = Nothing
  BY DEF PlatformInit, QueueInit, TasksInit
<1>2. ~Coming(t) /\ JobsOf(t) = {}
  BY <1>1, NotAboutATask DEF Coming, JobsOf
<1>q. QED BY <1>1, <1>2, NotAboutATask DEF JobUnique, JobOpen

(* The invariants of the platform with one request at a time, together.    *)
LEMMA JobsApartAlways ==
    ASSUME OneRequest
    PROVE  PlatformSpec => [](PlatInv /\ ModesApart /\ JobsApart)
  BY JobsApartInit, JobsApartStep, ModesApartInit, ModesApartStep, PlatformInvariance, PTL
  DEF PlatformSpec

(* As long as the user's requests come one at a time, a task has two jobs  *)
(* only if it was resumed while it had one, or was there when the modes    *)
(* changed.                                                                *)
THEOREM PlatformSecondJobExplained ==
    ASSUME OneRequest
    PROVE  PlatformSpec => []SecondJobExplained
<1>1. JobsApart => SecondJobExplained
  <2> SUFFICES ASSUME JobsApart, NEW t \in Tasks, t \notin resumed \cup straddling
               PROVE  ~(Cardinality(JobsOf(t)) > 1)
    BY DEF SecondJobExplained
  <2>1. JobsOf(t) = {} \/ \E j : JobsOf(t) = {j}
    BY DEF JobsApart, JobUnique
  <2>2. Cardinality(JobsOf(t)) \in {0, 1}
    BY <2>1, FS_EmptySet, FS_Singleton
  <2>q. QED BY <2>2
<1>q. QED BY <1>1, JobsApartAlways, PTL

-----------------------------------------------------------------------------
(* By whom a row is written that has been left CANCELED or COMPLETED.      *)
LEMMA LeftBy ==
    ASSUME PlatInv, [PlatformNext]_platformVars, NEW t \in Tasks,
           NEW status \in {"CANCELED", "COMPLETED"}, Left(t, status)
    PROVE  \/ ByRequest(t)
           \/ status = "COMPLETED" /\ ByReport(t)
           \/ \E j \in JobsOf(t) : status = "CANCELED" => At(j, "call") /\ job'[j].pc = "delay"
<1>0. /\ row[t] \in Row /\ ApiTypeOK /\ job \in [JobIds -> Job \cup {NoJob}]
      /\ row[t].status = status /\ row'[t].status # status /\ row'[t].status # "NONE"
  BY DEF PlatInv, PlatformTypeOK, ApiTypeOK, TableTypeOK, QueueTypeOK, Left
<1>1. row'[t] # row[t] /\ Exists(t) /\ row'[t] # NoRow
  BY <1>0 DEF Exists, NoRow
<1>2. ASSUME NEW r \in Requests, req[r].task = t, UpdateRow(r) PROVE ByRequest(t)
  BY <1>2 DEF ByRequest
<1>3. ASSUME DeviceWrites(t) PROVE status = "COMPLETED" /\ ByReport(t)
  <2>1. IsReported(t)
    BY <1>0, <1>1, <1>3 DEF DeviceWrites, HandsOut, Occupying, DeviceForgotten, Row
  <2>q. QED BY <1>0, <2>1 DEF IsReported, Writable, ByReport
<1>4. ASSUME NEW j \in JobsOf(t), JobStep(j), status = "CANCELED"
      PROVE  At(j, "call") /\ job'[j].pc = "delay"
  <2>1. JobMoves(j)
    BY <1>0, <1>1, <1>4 DEF JobStep, JobEnds, JobsOf, Writable
  <2>2. At(j, "call") /\ Goto(j, "delay")
    BY <1>0, <1>1, <1>4, <2>1 DEF JobMoves, JobsOf, Writable
  <2>3. j \in JobIds /\ job[j] \in Job
    BY <1>4 DEF JobsOf, JobStep
  <2>q. QED BY <1>0, <2>2, <2>3 DEF Goto, Job
<1>q. QED BY <1>1, <1>2, <1>3, <1>4, PlatformWrites DEF RowMoves

(* A request that is alone finds a task that it does not cancel as little  *)
(* cancelled as it has read it.                                            *)
CheckStands ==
    ~SeveralRequests =>
        \A r \in Requests : req[r].at = "update" /\ req[r].op # "cancel"
                                => row[req[r].task].status # "CANCELED"

(* A request that is to write has just read its task, or it has been so    *)
(* before the step.                                                        *)
LEMMA WritersMove ==
    ASSUME ~SeveralRequests, PlatInv, [PlatformNext]_platformVars, NEW r \in Requests,
           req'[r].at = "update"
    PROVE  \/ req'[r] = req[r] /\ ~UpdateRow(r)
           \/ \E op \in Ops, t \in Tasks : LoadTask(r, op, t)
<1>0. /\ TasksInv /\ req \in [Requests -> Request] /\ \A q \in Requests : q = r
      /\ Idle.at # "update" /\ \A t : Routing(t).at # "update"
  BY DEF PlatInv, PlatformTypeOK, ApiTypeOK, TasksTypeOK, TasksInv, SeveralRequests, Idle, Routing
<1>1. ASSUME NEW q \in Requests, CreateOrLoad(q)
      PROVE  \E op \in Ops, t \in Tasks : LoadTask(r, op, t)
  BY <1>0, <1>1 DEF CreateOrLoad, CreateTask, Create
<1>2. ASSUME NEW q \in Requests, UpdateRow(q) \/ RouteToQueue(q) \/ RouteToDevices(q) PROVE FALSE
  BY <1>0, <1>2, UpdateOfServer, RouteOfServer
  DEF UpdateRow, Update, RouteToQueue, RouteTask, Route, RouteToDevices
<1>3. ASSUME Die PROVE FALSE
  BY <1>0, <1>3 DEF Die, Crash
<1>4. ASSUME NEW q \in Requests, EnqueueRead(q) \/ EnqueueAdd(q) PROVE req' = req
  BY <1>4 DEF EnqueueRead, ReadLimit, EnqueueAdd, Add
<1>5. ASSUME NEW s \in Saves, NEW type \in Modes, NEW limit \in Limits, Switch(s, type, limit)
      PROVE  req' = req
  BY <1>5, ConfigureOfServer DEF Switch
<1>6. ASSUME NEW u \in Tasks, DeleteTask(u) PROVE req' = req
  BY <1>6, RemoveOfServer DEF DeleteTask, Remove
<1>7. ASSUME NEW j \in JobIds, WorkerOn(j) PROVE req' = req
  BY <1>7, WorkerOnSteps DEF JobStep, PlatInv, PlatformTypeOK
<1>8. ASSUME GatewaySide \/ (\E s \in Saves : SyncWorker(s)) \/ UNCHANGED platformVars PROVE req' = req
  BY <1>8 DEF GatewaySide, SyncWorker, Sync, platformVars, apiVars
<1>q. QED
  BY <1>1, <1>2, <1>3, <1>4, <1>5, <1>6, <1>7, <1>8, GatewaySteps DEF PlatformNext

(* Nothing but the request that cancels a task makes it cancelled.         *)
LEMMA CanceledBy ==
    ASSUME PlatInv, [PlatformNext]_platformVars, NEW t \in Tasks,
           row[t].status # "CANCELED", row'[t].status = "CANCELED"
    PROVE  \E r \in Requests : UpdateRow(r)
<1>0. row[t] \in Row /\ GatewayTypeOK
  BY DEF PlatInv, PlatformTypeOK, ApiTypeOK, TableTypeOK
<1>1. NoRow.status # "CANCELED" /\ Inserted.status # "CANCELED"
  BY DEF NoRow, Inserted
<1>2. ASSUME NEW j \in JobsOf(t), JobStep(j) PROVE FALSE
  <2>1. row'[t] # row[t]
    OBVIOUS
  <2>2. PICK status \in Occupying \cup Final : Changes(t, status)
    BY <1>2, <2>1 DEF JobStep, JobMoves, JobEnds, JobsOf
  <2>3. status \in Statuses /\ status # "CANCELED"
    BY <2>2 DEF Occupying, Final, Finished, Statuses
  <2>4. row'[t].status = status
    BY <1>0, <2>2, <2>3, StatusWritten
  <2>q. QED BY <2>3, <2>4
<1>3. CASE DeviceWrites(t)
  <2>1. CASE IsReported(t)
    <3>1. chain[t] \in Seq(Received) /\ chain[t] # <<>> /\ row'[t] = Reported(row[t], Head(chain[t]))
      BY <1>0, <2>1 DEF GatewayTypeOK, IsReported
    <3>2. Head(chain[t]) \in Reports
      BY <3>1, ReceivedAssumption
    <3>q. QED BY <1>0, <3>1, <3>2 DEF Reported, ReportWrites, Reports, Row
  <2>2. /\ Requeued(row[t]).status # "CANCELED" /\ DeviceForgotten(row[t]).status # "CANCELED"
        /\ \A d : Claimed(row[t], d).status # "CANCELED"
    BY <1>0 DEF Requeued, DeviceForgotten, Claimed, Row
  <2>q. QED BY <1>3, <2>1, <2>2 DEF DeviceWrites, HandsOut
<1>q. QED BY <1>1, <1>2, <1>3, PlatformWrites DEF RowMoves

(* While requests come one at a time, no other writer cancels the task of  *)
(* the one under way.                                                      *)
LEMMA CheckStandsStep ==
    ASSUME PlatInv, CheckStands, [PlatformNext]_platformVars
    PROVE  CheckStands'
<1> SUFFICES ASSUME ~SeveralRequests, NEW r \in Requests, req'[r].at = "update", req'[r].op # "cancel",
                    row'[req'[r].task].status = "CANCELED"
             PROVE  FALSE
  BY DEF CheckStands, SeveralRequests
<1>1. ASSUME NEW op \in Ops, NEW t \in Tasks, LoadTask(r, op, t) PROVE FALSE
  <2>1. /\ req'[r] = [at |-> "update", op |-> op, task |-> t]
        /\ Allowed(op, row[t].status) /\ row' = row
    BY <1>1 DEF LoadTask, Load, tableVars, PlatInv, PlatformTypeOK, ApiTypeOK, TasksTypeOK
  <2>2. op # "cancel" => ~Allowed(op, "CANCELED")
    BY DEF Allowed, Ops, Waiting, Occupying
  <2>q. QED BY <2>1, <2>2
<1>2. CASE req'[r] = req[r] /\ ~UpdateRow(r)
  <2>1. req[r].task \in Tasks /\ row[req[r].task].status # "CANCELED"
    BY <1>2 DEF CheckStands, PlatInv, PlatformTypeOK, ApiTypeOK, TasksSound
  <2>2. PICK q \in Requests : UpdateRow(q)
    BY <1>2, <2>1, CanceledBy
  <2>q. QED BY <1>2, <2>2 DEF SeveralRequests
<1>q. QED BY <1>1, <1>2, WritersMove

(* A task that has been cancelled stays so, in both modes, but for a call  *)
(* answered with a rate limit, and for a request that checked it before    *)
(* where they come several at a time.                                      *)
THEOREM PlatformCancelExplained == PlatformSpec => CancelExplained
<1>1. PlatformInit => CheckStands
  BY DEF PlatformInit, TasksInit, Idle, CheckStands
<1>2. ASSUME PlatInv, CheckStands, [PlatformNext]_platformVars, NEW t \in Tasks, Left(t, "CANCELED")
      PROVE  ByLimit(t) \/ (SeveralRequests /\ ByRequest(t))
  <2>1. ByLimit(t) \/ ByRequest(t)
    BY <1>2, LeftBy DEF ByLimit
  <2>2. ASSUME ~SeveralRequests, NEW r \in Requests, req[r].task = t, UpdateRow(r) PROVE FALSE
    <3>0. Update(r)
      BY <2>2, UpdateOfServer DEF UpdateRow
    <3>1. /\ req[r].at = "update" /\ req[r].op \in Ops
          /\ row \in [Tasks -> Row] /\ (row'[t] = row[t] \/ row'[t] = Written(req[r].op, row[t]))
      BY <1>2, <2>2, <3>0 DEF Update, PlatInv, PlatformTypeOK, ApiTypeOK, TableTypeOK, TasksSound
    <3>2. req[r].op = "cancel"
      BY <1>2, <2>2, <3>1 DEF CheckStands, Left
    <3>3. row[t] \in Row /\ Written("cancel", row[t]).status = "CANCELED"
      BY <3>1, WrittenStatus DEF Ops
    <3>q. QED BY <1>2, <3>1, <3>2, <3>3 DEF Left
  <2>q. QED BY <2>1, <2>2 DEF ByRequest
<1>3. PlatInv /\ CheckStands /\ [PlatformNext]_platformVars
        => [\A t \in Tasks :
               Left(t, "CANCELED") => ByLimit(t) \/ (SeveralRequests /\ ByRequest(t))]_platformVars
  BY <1>2
<1>4. PlatInv /\ CheckStands /\ [PlatformNext]_platformVars => CheckStands'
  BY CheckStandsStep
<1>q. QED
  BY <1>1, <1>3, <1>4, PlatformInvariance, PTL DEF PlatformSpec, CancelExplained

(* A completed task that still has a job has an executor too many.         *)
LEMMA CompletedHasNoJob ==
    ASSUME PlatInv, ModesApart, JobsApart, NEW t \in Tasks, row[t].status = "COMPLETED", JobsOf(t) # {}
    PROVE  t \in straddling \cup resumed
<1> SUFFICES ASSUME t \notin straddling, t \notin resumed PROVE FALSE
  OBVIOUS
<1>1. connection.type \in {"API_KEY", "LOCAL_CLI"}
  BY DEF PlatInv, PlatformTypeOK, ApiTypeOK, ConnectionTypeOK, Connections
<1>2. CASE connection.type = "LOCAL_CLI"
  BY <1>2 DEF ModesApart, NewComer, Exists
<1>3. CASE connection.type = "API_KEY"
  BY <1>3 DEF JobsApart, JobOpen, Final
<1>q. QED BY <1>1, <1>2, <1>3

(* As long as the user's requests come one at a time, a task that has been *)
(* completed stays so, but for a request that checked it before, a device's*)
(* report, and an executor too many.                                       *)
THEOREM PlatformCompletedExplained ==
    ASSUME OneRequest
    PROVE  PlatformSpec => CompletedExplained
<1>1. ASSUME PlatInv, ModesApart, JobsApart, [PlatformNext]_platformVars,
             NEW t \in Tasks, Left(t, "COMPLETED")
      PROVE  ByRequest(t) \/ ByReport(t) \/ t \in straddling \cup resumed
  <2>1. row[t].status = "COMPLETED"
    BY <1>1 DEF Left
  <2>q. QED BY <1>1, <2>1, LeftBy, CompletedHasNoJob
<1>2. PlatInv /\ ModesApart /\ JobsApart /\ [PlatformNext]_platformVars
        => [\A t \in Tasks : Left(t, "COMPLETED") => \/ ByRequest(t) \/ ByReport(t)
                                                     \/ t \in straddling \cup resumed]_platformVars
  BY <1>1
<1>q. QED BY <1>2, JobsApartAlways, PTL DEF PlatformSpec, CompletedExplained
=============================================================================
