-------------------------- MODULE LocalModeProofs --------------------------
(***************************************************************************)
(* What LOCAL_CLI mode guarantees for any number of tasks, devices,        *)
(* sessions, requests and passes.                                          *)
(*                                                                         *)
(* First the server of LocalServer, whose devices may report anything.     *)
(* Two lemmas take a step of it apart: RowAnatomy says what it may do to   *)
(* the table, PassAnatomy what it may do to the dispatcher's promise       *)
(* chain. The invariants are then proved from those, not action by action. *)
(*                                                                         *)
(* Then the mode with its agents and sockets: it is an implementation of   *)
(* that server, so that what is proved of the server holds of the whole.   *)
(* A step is one of the server's only if what arrives by the sockets is a  *)
(* report about a task, hence the invariant: what is in the sockets is of  *)
(* its type, which needs the agents' runs to be about tasks, which needs   *)
(* the dispatcher to assign tasks only.                                    *)
(*                                                                         *)
(* Last, what the mode promises about a task from its claim to its last    *)
(* report: who executes it, and that it is not lost.                       *)
(***************************************************************************)
EXTENDS LocalMode, TasksServiceProofs, GatewayProofs

USE DEF Tasks, NoTask

-----------------------------------------------------------------------------
(* Whatever the step, the promise chain moves in one of these ways.        *)
LEMMA PassAnatomy ==
    ASSUME TypeOK, [Next]_vars
    PROVE  PassStep
<1>1. ASSUME RequestStep PROVE PassStep
  <2>1. UNCHANGED chain
    BY <1>1 DEF RequestStep, CreateTask, LoadTask, UpdateTask, RouteTask, gatewayVars
  <2>2. Dispatch(NoTask) \/ UNCHANGED dispatchVars
    BY <1>1 DEF RequestStep, CreateTask, LoadTask, UpdateTask, RouteTask, gatewayVars,
       dispatchVars
  <2>q. QED BY <2>1, <2>2, DispatchEnqueues DEF PassStep
<1>2. ASSUME NEW t \in Tasks, RemoveTask(t) PROVE PassStep
  BY <1>2 DEF RemoveTask, PassStep
<1>3. ASSUME NEW type \in Modes, NEW limit \in Limits, Reconfigure(type, limit) PROVE PassStep
  BY <1>3, DispatchEnqueues DEF Reconfigure, Configure, PassStep
<1>4. ASSUME DispatchStep PROVE PassStep
  <2>1. \E p \in Passes : PassRuns(p)
    BY <1>4 DEF DispatchStep, ClaimOldest, Queued, PassRuns
  <2>q. QED BY <2>1, PassMoves DEF PassStep, TypeOK
<1>5. ASSUME SessionStep PROVE PassStep
  BY <1>5, SessionMoves DEF SessionStep, Serves
<1>6. ASSUME ReportStep PROVE PassStep
  BY <1>6, ReportMoves DEF ReportStep
<1>7. ASSUME NEW d \in Devices, RemoveDevice(d) PROVE PassStep
  BY <1>7 DEF RemoveDevice, PassStep
<1>8. ASSUME UNCHANGED vars PROVE PassStep
  BY <1>8 DEF vars, gatewayVars, dispatchVars, PassStep
<1>q. QED
  BY <1>1, <1>2, <1>3, <1>4, <1>5, <1>6, <1>7, <1>8 DEF Next

-----------------------------------------------------------------------------
(* What a step may do to the row of task t, unless it claims one.          *)
Inserts(t)   == ~Exists(t) /\ row'[t] = Inserted /\ t = created + 1 /\ created' = created + 1
Writes(r, t) == /\ req[r].at = "update" /\ req[r].task = t /\ req[r].op \in Ops
                /\ Exists(t) /\ row'[t] = Written(req[r].op, row[t])
                /\ req'[r].at # "update"
RowStep(t) ==
    \/ row'[t] = row[t]
    \/ row'[t] = NoRow
    \/ Inserts(t)
    \/ \E r \in Requests : Writes(r, t)
    \/ row[t].status \in Occupying /\ row'[t] = Requeued(row[t])
    \/ /\ chain[t] # <<>> /\ ~AwaitsPass(t)
       /\ \E rep \in Received : row'[t] = Reported(row[t], rep)
    \/ row'[t] = DeviceForgotten(row[t])

Claims(p, t) ==
    /\ Turn(p) /\ pass[p].pc = "claim"
    /\ t \in Queued
    /\ device[pass[p].dev] # "GONE"
    /\ row' = [row EXCEPT ![t] = Claimed(@, pass[p].dev)]
    /\ pass' = [pass EXCEPT ![p] = [pass[p] EXCEPT !.pc = "assign", !.task = t]]

(* Tasks not yet created have no row; a request under way is about a task. *)
TableSound ==
    /\ \A t \in Tasks : t > created => ~Exists(t)
    /\ \A r \in Requests : req[r].at = "update" => req[r].task \in Tasks /\ req[r].op \in Ops

TableStep ==
    /\ row' = [t \in Tasks |-> row'[t]]
    /\ UNCHANGED created \/ (created < MaxTasks /\ created' = created + 1)
    /\ \/ \E p \in Passes, t \in Tasks : Claims(p, t)
       \/ \A t \in Tasks : RowStep(t)

(* Every step writes the table as TableStep says: one claim, or any number *)
(* of the other statements.                                                *)
LEMMA RowAnatomy ==
    ASSUME TypeOK, TableSound, [Next]_vars
    PROVE  TableStep
<1>0. /\ row \in [Tasks -> Row] /\ created \in 0..MaxTasks
      /\ req \in [Requests -> Request]
      /\ chain \in [Tasks -> Seq(Received)]
  BY DEF TypeOK, TableTypeOK, TasksTypeOK, GatewayTypeOK
<1>1. ASSUME UNCHANGED <<row, created>> PROVE TableStep
  BY <1>0, <1>1 DEF TableStep, RowStep
<1>2. ASSUME NEW r \in Requests, CreateTask(r) PROVE TableStep
  <2>1. /\ created < MaxTasks /\ created' = created + 1
        /\ row' = [row EXCEPT ![created + 1] = Inserted]
    BY <1>2 DEF CreateTask, Create
  <2>2. created + 1 \in Tasks /\ ~Exists(created + 1)
    BY <1>0, <2>1, MaxTasksAssumption DEF TableSound
  <2>3. row'[created + 1] = Inserted /\ \A t \in Tasks : t # created + 1 => row'[t] = row[t]
    BY <1>0, <2>1, <2>2
  <2>4. \A t \in Tasks : RowStep(t)
    BY <2>1, <2>2, <2>3 DEF RowStep, Inserts
  <2>q. QED BY <1>0, <2>1, <2>4 DEF TableStep
<1>3. ASSUME NEW r \in Requests, UpdateTask(r) PROVE TableStep
  <2> DEFINE t == req[r].task
  <2>1. t \in Tasks /\ req[r].op \in Ops /\ req[r].at = "update"
    BY <1>3 DEF UpdateTask, Update, TableSound
  <2>2. CASE Exists(t)
    <3>1. row' = [row EXCEPT ![t] = Written(req[r].op, @)] /\ UNCHANGED created
      BY <1>3, <2>2 DEF UpdateTask, Update
    <3>2. req'[r].at # "update"
      BY <1>0, <1>3 DEF UpdateTask, Update, Idle, Routing
    <3>3. row'[t] = Written(req[r].op, row[t]) /\ \A u \in Tasks : u # t => row'[u] = row[u]
      BY <1>0, <2>1, <3>1
    <3>4. \A u \in Tasks : RowStep(u)
      BY <2>1, <2>2, <3>2, <3>3 DEF RowStep, Writes
    <3>q. QED BY <1>0, <3>1, <3>4 DEF TableStep
  <2>3. CASE ~Exists(t)
    BY <1>1, <1>3, <2>3 DEF UpdateTask, Update
  <2>q. QED BY <2>2, <2>3
<1>4. ASSUME NEW t \in Tasks, RemoveTask(t) PROVE TableStep
  BY <1>0, <1>4 DEF RemoveTask, Remove, TableStep, RowStep
<1>5. ASSUME NEW p \in Passes, ClaimOldest(p) PROVE TableStep
  <2>1. UNCHANGED created
    BY <1>5 DEF ClaimOldest, Claim
  <2>2. CASE UNCHANGED row
    BY <1>1, <2>1, <2>2
  <2>3. CASE ~UNCHANGED row
    <3>1. /\ Turn(p) /\ pass[p].pc = "claim" /\ device[pass[p].dev] # "GONE"
          /\ \E t \in Queued :
                /\ row' = [row EXCEPT ![t] = Claimed(@, pass[p].dev)]
                /\ pass' = [pass EXCEPT ![p] = [pass[p] EXCEPT !.pc = "assign", !.task = t]]
      BY <1>5, <2>3 DEF ClaimOldest, Claim, Claimable, Step
    <3>2. \E q \in Passes, t \in Tasks : Claims(q, t)
      BY <3>1 DEF Claims, Queued
    <3>3. row' = [t \in Tasks |-> row'[t]]
      BY <1>0, <3>1
    <3>q. QED BY <2>1, <3>2, <3>3 DEF TableStep
  <2>q. QED BY <2>2, <2>3
<1>6. ASSUME NEW s \in Sessions, Requeue(s) PROVE TableStep
  <2>1. /\ row' = [t \in Tasks |-> IF t \in Occupied(session[s].device) THEN Requeued(row[t])
                                  ELSE row[t]]
        /\ UNCHANGED created
    BY <1>6 DEF Requeue
  <2>2. \A t \in Tasks : RowStep(t)
    BY <2>1 DEF RowStep, Occupied
  <2>q. QED BY <2>1, <2>2 DEF TableStep
<1>7. ASSUME NEW t \in Tasks, ApplyReport(t) PROVE TableStep
  <2>1. /\ chain[t] # <<>> /\ ~AwaitsPass(t) /\ UNCHANGED created
        /\ row' = [row EXCEPT ![t] = Reported(@, Head(chain[t]))]
    BY <1>7 DEF ApplyReport
  <2>2. Head(chain[t]) \in Received
    BY <1>0, <2>1
  <2>3. row'[t] = Reported(row[t], Head(chain[t])) /\ \A u \in Tasks : u # t => row'[u] = row[u]
    BY <1>0, <2>1
  <2>4. \A u \in Tasks : RowStep(u)
    BY <2>1, <2>2, <2>3 DEF RowStep
  <2>q. QED BY <1>0, <2>1, <2>4 DEF TableStep
<1>8. ASSUME NEW d \in Devices, RemoveDevice(d) PROVE TableStep
  <2>1. /\ row' = [t \in Tasks |-> IF row[t].device = d THEN DeviceForgotten(row[t]) ELSE row[t]]
        /\ UNCHANGED created
    BY <1>8 DEF RemoveDevice
  <2>2. \A t \in Tasks : RowStep(t)
    BY <2>1 DEF RowStep
  <2>q. QED BY <2>1, <2>2 DEF TableStep
<1>9. ASSUME \/ \E r \in Requests : \/ \E op \in Ops, t \in Tasks : LoadTask(r, op, t)
                                    \/ RouteTask(r)
             \/ \E type \in Modes, limit \in Limits : Reconfigure(type, limit)
             \/ \E p \in Passes : \/ ReadConnection(p) \/ ReadDevices(p) \/ SendAssign(p)
                                  \/ \E d \in Devices : CountSlots(p, d)
             \/ \E s \in Sessions : \/ \E d \in Devices : Connect(s, d)
                                    \/ Identify(s) \/ MarkOnline(s) \/ Drop(s) \/ MarkOffline(s)
             \/ \E t \in Tasks, s \in Sessions, rep \in Reports : Receive(s, t, rep)
             \/ UNCHANGED vars
      PROVE  UNCHANGED <<row, created>>
  BY <1>9 DEF LoadTask, Load, RouteTask, Route, Reconfigure, Configure, ReadConnection, ReadDevices,
     SendAssign, CountSlots, Connect, Identify, MarkOnline, Drop, MarkOffline, Receive,
     vars, tableVars
<1>q. QED
  BY <1>1, <1>2, <1>3, <1>4, <1>5, <1>6, <1>7, <1>8, <1>9
  DEF Next, RequestStep, DispatchStep, SessionStep, ReportStep

-----------------------------------------------------------------------------
(* The statements keep the type of the table.                              *)
LEMMA TableTyped ==
    ASSUME TypeOK, TableStep
    PROVE  TableTypeOK'
<1>0. /\ row \in [Tasks -> Row] /\ created \in 0..MaxTasks
      /\ pass \in [Passes -> Pass]
  BY DEF TypeOK, TableTypeOK, GatewayTypeOK
<1>1. created' \in 0..MaxTasks
  BY <1>0, MaxTasksAssumption DEF TableStep
<1>2. ASSUME NEW p \in Passes, NEW t \in Tasks, Claims(p, t)
      PROVE  row' \in [Tasks -> Row]
  <2>1. pass[p].dev \in Devices \cup {NoDevice}
    BY <1>0 DEF Pass
  <2>2. Claimed(row[t], pass[p].dev) \in Row
    BY <1>0, <2>1, RowTyped
  <2>q. QED BY <1>0, <1>2, <2>2 DEF Claims
<1>3. ASSUME \A t \in Tasks : RowStep(t)
      PROVE  row' \in [Tasks -> Row]
  <2>1. ASSUME NEW t \in Tasks PROVE row'[t] \in Row
    <3>1. row[t] \in Row /\ RowStep(t)
      BY <1>0, <1>3
    <3>q. QED BY <3>1, RowTyped, ReceivedAssumption DEF RowStep, Inserts, Writes
  <2>2. row' = [t \in Tasks |-> row'[t]]
    BY DEF TableStep
  <2>q. QED BY <2>1, <2>2
<1>q. QED BY <1>1, <1>2, <1>3 DEF TableStep, TableTypeOK

OthersTypeOK ==
    /\ TasksTypeOK
    /\ ConnectionTypeOK
    /\ device \in [Devices -> {"ONLINE", "OFFLINE", "GONE"}]
    /\ session \in [Sessions -> Session]
    /\ overlooked \in BOOLEAN

(* The steps keep the types of everything but the table and the dispatcher.*)
LEMMA OthersTyped ==
    ASSUME TypeOK, TableSound, [Next]_vars
    PROVE  OthersTypeOK'
<1> USE DEF OthersTypeOK, TasksTypeOK, ConnectionTypeOK
<1>0. /\ OthersTypeOK
      /\ row \in [Tasks -> Row] /\ created \in 0..MaxTasks
  BY DEF TypeOK, TableTypeOK, GatewayTypeOK
<1>1. ASSUME RequestStep PROVE OthersTypeOK'
  <2>1. UNCHANGED <<connection, device, session, overlooked>>
    BY <1>1 DEF RequestStep, CreateTask, LoadTask, UpdateTask, RouteTask, gatewayVars
  <2>2. Idle \in Request /\ \A t \in Tasks : Routing(t) \in Request
    BY DEF Idle, Routing, Request
  <2>3. ASSUME NEW r \in Requests, CreateTask(r) PROVE req' \in [Requests -> Request]
    <3>1. created + 1 \in Tasks
      BY <1>0, <2>3, MaxTasksAssumption DEF CreateTask, Create
    <3>q. QED BY <1>0, <2>2, <2>3, <3>1 DEF CreateTask, Create
  <2>4. ASSUME NEW r \in Requests, NEW op \in Ops, NEW t \in Tasks, LoadTask(r, op, t)
        PROVE  req' \in [Requests -> Request]
    <3>1. [at |-> "update", op |-> op, task |-> t] \in Request
      BY DEF Request
    <3>q. QED BY <1>0, <2>4, <3>1 DEF LoadTask, Load
  <2>5. ASSUME NEW r \in Requests, UpdateTask(r) PROVE req' \in [Requests -> Request]
    <3>1. req[r].task \in Tasks
      BY <2>5 DEF UpdateTask, Update, TableSound
    <3>q. QED BY <1>0, <2>2, <2>5, <3>1 DEF UpdateTask, Update
  <2>6. ASSUME NEW r \in Requests, RouteTask(r) PROVE req' \in [Requests -> Request]
    BY <1>0, <2>2, <2>6 DEF RouteTask, Route
  <2>q. QED BY <1>0, <1>1, <2>1, <2>3, <2>4, <2>5, <2>6 DEF RequestStep
<1>2. ASSUME NEW t \in Tasks, RemoveTask(t) PROVE OthersTypeOK'
  BY <1>0, <1>2 DEF RemoveTask, Remove
<1>3. ASSUME NEW type \in Modes, NEW limit \in Limits, Reconfigure(type, limit)
      PROVE  OthersTypeOK'
  <2>1. connection' \in Connections
    BY <1>0, <1>3, ModesAssumption, LimitsAssumption DEF Reconfigure, Configure, SaveConnection, Connections
  <2>q. QED BY <1>0, <1>3, <2>1 DEF Reconfigure, Configure
<1>4. ASSUME DispatchStep, UNCHANGED <<connection, req>> PROVE OthersTypeOK'
  <2>1. UNCHANGED <<device, session>> /\ overlooked' \in BOOLEAN
    BY <1>0, <1>4 DEF DispatchStep, ReadConnection, ReadDevices, CountSlots, ClaimOldest, Claim,
       SendAssign
  <2>q. QED BY <1>0, <1>4, <2>1
<1>5. ASSUME SessionStep, UNCHANGED <<connection, req>> PROVE OthersTypeOK'
  <2>1. SocketsTypeOK
    BY <1>0 DEF SocketsTypeOK
  <2>2. SocketsTypeOK'
    BY <1>5, <2>1, SocketsTyped DEF SessionStep, Serves
  <2>q. QED BY <1>0, <1>5, <2>2 DEF SocketsTypeOK
<1>6. ASSUME ReportStep, UNCHANGED <<connection, req>> PROVE OthersTypeOK'
  BY <1>0, <1>6 DEF ReportStep, Receive, ApplyReport
<1>7. ASSUME NEW d \in Devices, RemoveDevice(d), UNCHANGED <<connection, req>> PROVE OthersTypeOK'
  BY <1>0, <1>7 DEF RemoveDevice
<1>8. ASSUME UNCHANGED vars PROVE OthersTypeOK'
  BY <1>0, <1>8 DEF vars, gatewayVars
<1>q. QED
  BY <1>1, <1>2, <1>3, <1>4, <1>5, <1>6, <1>7, <1>8 DEF Next

-----------------------------------------------------------------------------
(* A request reaches its UPDATE through the check of its handler only.     *)
Loads(r) ==
    \E op \in Ops, t \in Tasks :
        /\ req'[r] = [at |-> "update", op |-> op, task |-> t]
        /\ Allowed(op, row[t].status)
        /\ UNCHANGED row

(* A request comes to its write only by having read and checked the row.   *)
LEMMA RequestAnatomy ==
    ASSUME TypeOK, [Next]_vars, NEW r \in Requests
    PROVE  req'[r] = req[r] \/ req'[r].at # "update" \/ Loads(r)
<1>0. req \in [Requests -> Request]
  BY DEF TypeOK, TasksTypeOK
<1>1. ASSUME NEW q \in Requests, CreateTask(q)
      PROVE  req'[r] = req[r] \/ req'[r].at # "update"
  BY <1>0, <1>1 DEF CreateTask, Create, Routing
<1>2. ASSUME NEW q \in Requests, NEW op \in Ops, NEW t \in Tasks, LoadTask(q, op, t)
      PROVE  req'[r] = req[r] \/ Loads(r)
  BY <1>0, <1>2 DEF LoadTask, Load, Loads, tableVars
<1>3. ASSUME NEW q \in Requests, UpdateTask(q)
      PROVE  req'[r] = req[r] \/ req'[r].at # "update"
  BY <1>0, <1>3 DEF UpdateTask, Update, Idle, Routing
<1>4. ASSUME NEW q \in Requests, RouteTask(q)
      PROVE  req'[r] = req[r] \/ req'[r].at # "update"
  BY <1>0, <1>4 DEF RouteTask, Route, Idle
<1>5. ASSUME ~RequestStep PROVE UNCHANGED req
  BY <1>5 DEF Next, RemoveTask, Remove, Reconfigure, Configure, vars
<1>q. QED BY <1>1, <1>2, <1>3, <1>4, <1>5 DEF RequestStep

(* Numbers not given out have no row, and requests are about tasks given   *)
(* out.                                                                    *)
LEMMA TableSoundStep ==
    ASSUME TypeOK, TableSound, TableStep, [Next]_vars
    PROVE  TableSound'
<1>1. ASSUME NEW t \in Tasks, t > created' PROVE row'[t].status = "NONE"
  <2>1. t > created /\ row[t].status = "NONE" /\ row[t] \in Row
    BY <1>1, MaxTasksAssumption DEF TableStep, TableSound, Exists, TypeOK, TableTypeOK
  <2>2. CASE \E p \in Passes, u \in Tasks : Claims(p, u)
    BY <2>1, <2>2 DEF Claims, Queued, TypeOK, TableTypeOK
  <2>3. CASE RowStep(t)
    <3>1. ~Inserts(t)
      BY <1>1, <2>1 DEF Inserts, TypeOK, TableTypeOK
    <3>2. \A r \in Requests : ~Writes(r, t)
      BY <2>1 DEF Writes, Exists
    <3>3. row[t].status \notin Occupying /\ ~Writable(row[t])
      BY <2>1 DEF Occupying, Writable
    <3>4. DeviceForgotten(row[t]).status = "NONE" /\ NoRow.status = "NONE"
      BY <2>1 DEF DeviceForgotten, NoRow, Row
    <3>q. QED BY <2>1, <2>3, <3>1, <3>2, <3>3, <3>4 DEF RowStep, Reported
  <2>q. QED BY <2>2, <2>3 DEF TableStep
<1>2. ASSUME NEW r \in Requests, req'[r].at = "update"
      PROVE  req'[r].task \in Tasks /\ req'[r].op \in Ops
  <2>1. CASE req'[r] = req[r]
    BY <1>2, <2>1 DEF TableSound
  <2>2. CASE Loads(r)
    BY <2>2 DEF Loads
  <2>q. QED BY <1>2, <2>1, <2>2, RequestAnatomy
<1>q. QED BY <1>1, <1>2 DEF TableSound, Exists

(* A row gets queued by statements that take it from its device.           *)
LEMMA QueuedStep ==
    ASSUME TypeOK, QueuedBelongsToNobody, TableStep
    PROVE  QueuedBelongsToNobody'
<1> SUFFICES ASSUME NEW t \in Tasks, row'[t].status = "QUEUED"
             PROVE  row'[t].device = NoDevice
  BY DEF QueuedBelongsToNobody, Queued
<1>0. row[t] \in Row
  BY DEF TypeOK, TableTypeOK
<1>1. ASSUME NEW p \in Passes, NEW u \in Tasks, Claims(p, u)
      PROVE  row'[t].device = NoDevice
  BY <1>0, <1>1 DEF Claims, Claimed, QueuedBelongsToNobody, Queued, TypeOK, TableTypeOK, Row
<1>2. ASSUME RowStep(t) PROVE row'[t].device = NoDevice
  <2>1. NoRow.device = NoDevice /\ Inserted.device = NoDevice
    BY DEF NoRow, Inserted
  <2>2. \A op \in Ops : Written(op, row[t]).status = "QUEUED"
                         => Written(op, row[t]).device = NoDevice
    BY <1>0 DEF Written, Canceled, Paused, Requeued, Row, Ops
  <2>3. Requeued(row[t]).device = NoDevice /\ DeviceForgotten(row[t]).device = NoDevice
    BY <1>0 DEF Requeued, DeviceForgotten, Row
  <2>4. \A rep \in Received : Reported(row[t], rep).status = "QUEUED"
                              => Reported(row[t], rep) = row[t]
    BY <1>0, ReceivedAssumption DEF Reported, ReportWrites, Reports, Row
  <2>q. QED
    BY <1>2, <2>1, <2>2, <2>3, <2>4
    DEF RowStep, Inserts, Writes, QueuedBelongsToNobody, Queued
<1>q. QED BY <1>1, <1>2 DEF TableStep

-----------------------------------------------------------------------------
(* Only a claim adds to what a device holds by claims.                     *)
LEMMA HeldShrinks ==
    ASSUME TypeOK, \A t \in Tasks : RowStep(t), NEW d \in Devices
    PROVE  Held(d)' \subseteq Held(d)
<1> SUFFICES ASSUME NEW t \in Tasks, row'[t].device = d, row'[t].status \in Occupying,
                    ~row'[t].revived
             PROVE  row[t].device = d /\ row[t].status \in Occupying /\ ~row[t].revived
  BY DEF Held, Occupied
<1>0. row[t] \in Row /\ d # NoDevice
  BY NoDeviceAssumption DEF TypeOK, TableTypeOK
<1>1. NoRow.device = NoDevice /\ Inserted.device = NoDevice
  BY DEF NoRow, Inserted
<1>2. \A op \in Ops : Written(op, row[t]).status \notin Occupying
  BY <1>0 DEF Written, Canceled, Paused, Requeued, Row, Ops, Occupying
<1>3. Requeued(row[t]).device = NoDevice /\ DeviceForgotten(row[t]).device = NoDevice
  BY <1>0 DEF Requeued, DeviceForgotten, Row
<1>4. \A rep \in Received :
          /\ Reported(row[t], rep).device = row[t].device
          /\ Reported(row[t], rep).status \in Occupying /\ ~Reported(row[t], rep).revived
                => row[t].status \in Occupying /\ ~row[t].revived
  BY <1>0, ReceivedAssumption DEF Reported, ReportWrites, Reports, Row
<1>q. QED BY <1>0, <1>1, <1>2, <1>3, <1>4 DEF RowStep, Inserts, Writes

(* A device holds finitely many tasks, each of them in an occupied slot.   *)
LEMMA HeldFinite ==
    ASSUME NEW d
    PROVE  IsFiniteSet(Occupied(d)) /\ IsFiniteSet(Held(d)) /\ Held(d) \subseteq Occupied(d)
<1>1. IsFiniteSet(Tasks)
  BY MaxTasksAssumption, FS_Interval
<1>2. Occupied(d) \subseteq Tasks /\ Held(d) \subseteq Occupied(d)
  BY DEF Occupied, Held
<1>q. QED BY <1>1, <1>2, FS_Subset

-----------------------------------------------------------------------------
(* Between the count and the claim the room a pass has found stays: only a *)
(* claim could take it, and only one pass at a time may claim.             *)
HasRoom(p) ==
    /\ pass[p].dev \in Devices
    /\ Cardinality(Held(pass[p].dev)) < pass[p].limit
ClaimHasRoom == \A p \in Passes : pass[p].pc = "claim" => HasRoom(p)

(* Between count and claim nothing takes the slot that was counted: no     *)
(* other pass claims, and other statements only free slots.                *)
LEMMA ClaimHasRoomStep ==
    ASSUME TypeOK, ReportsAwait, OneChain, ClaimHasRoom, PassStep, TableStep
    PROVE  ClaimHasRoom'
<1> SUFFICES ASSUME NEW p \in Passes, pass'[p].pc = "claim"
             PROVE  HasRoom(p)'
  BY DEF ClaimHasRoom
<1>0. /\ DispatcherTypeOK
      /\ pass[p] \in Pass /\ pass[p].limit \in Nat
  BY MaxLimitAssumption DEF TypeOK, GatewayTypeOK, DispatcherTypeOK, Pass
<1>1. ASSUME Advances(p)
      PROVE  HasRoom(p)'
  <2>1. PICK new \in Pass : /\ new.pc = "claim" => /\ new.dev \in Devices
                                                   /\ HasSlot(new.dev, new.limit)
                                                   /\ UNCHANGED row
                            /\ pass' = [pass EXCEPT ![p] = new]
    BY <1>1 DEF Advances
  <2>2. /\ pass'[p] = new /\ new.dev \in Devices /\ HasSlot(new.dev, new.limit)
        /\ UNCHANGED row
    BY <1>0, <2>1 DEF DispatcherTypeOK
  <2>3. /\ Cardinality(Held(new.dev)) <= Cardinality(Occupied(new.dev))
        /\ Cardinality(Held(new.dev)) \in Nat /\ Cardinality(Occupied(new.dev)) \in Nat
    BY HeldFinite, FS_Subset, FS_CardinalityType
  <2>4. Cardinality(Occupied(new.dev)) < new.limit /\ new.limit \in Nat
    BY <2>2, MaxLimitAssumption DEF HasSlot, Pass
  <2>5. Held(pass[p].dev)' = Held(new.dev)
    BY <2>2 DEF Held, Occupied
  <2>6. Cardinality(Held(new.dev)) < new.limit
    BY <2>3, <2>4
  <2>q. QED BY <2>2, <2>5, <2>6 DEF HasRoom
<1>2. ASSUME ~Advances(p)
      PROVE  /\ pass[p].pc = "claim"
             /\ pass'[p].dev = pass[p].dev /\ pass'[p].limit = pass[p].limit
  <2>1. ASSUME NEW q \in Passes, NEW t \in Tasks \cup {NoTask}, Enqueues(q, t)
        PROVE  pass'[p] = pass[p]
    <3>1. pass'[q].pc = "read"
      BY <1>0, <2>1, BlankTyped DEF Enqueues, NoRun, DispatcherTypeOK
    <3>q. QED BY <1>0, <2>1, <3>1 DEF Enqueues, DispatcherTypeOK
  <2>2. ASSUME NEW q \in Passes, Settle(q)
        PROVE  /\ pass'[p].pc = pass[p].pc
               /\ pass'[p].dev = pass[p].dev /\ pass'[p].limit = pass[p].limit
    <3>1. NoRun.pc = "free"
      BY DEF NoRun
    <3>2. pass'[p] = pass[p] \/ pass'[p] = [pass[p] EXCEPT !.after = NoPass]
      BY <2>2, <3>1 DEF Settle
    <3>q. QED BY <1>0, <3>2, ReleasedTyped
  <2>3. ASSUME NEW q \in Passes, Advances(q)
        PROVE  pass'[p] = pass[p]
    BY <1>0, <1>2, <2>3 DEF Advances, DispatcherTypeOK
  <2>q. QED BY <2>1, <2>2, <2>3 DEF PassStep, dispatchVars
<1>3. ASSUME ~Advances(p), NEW q \in Passes, NEW t \in Tasks, Claims(q, t)
      PROVE  FALSE
  <2>1. pass[p].pc = "claim" /\ Turn(q)
    BY <1>2, <1>3 DEF Claims
  <2>2. p = q
    BY <1>0, <2>1, OneRuns
  <2>3. pass'[p].pc = "assign"
    BY <1>0, <1>3, <2>2 DEF Claims, DispatcherTypeOK, Pass
  <2>q. QED BY <2>3
<1>4. ASSUME ~Advances(p), \A t \in Tasks : RowStep(t)
      PROVE  HasRoom(p)'
  <2>1. /\ pass[p].dev \in Devices /\ Cardinality(Held(pass[p].dev)) < pass[p].limit
        /\ pass'[p].dev = pass[p].dev /\ pass'[p].limit = pass[p].limit
    BY <1>2, <1>4 DEF ClaimHasRoom, HasRoom
  <2>2. PICK d \in Devices : pass[p].dev = d
    BY <2>1
  <2>3. IsFiniteSet(Held(d)) /\ Held(d)' \subseteq Held(d)
    BY <1>4, HeldFinite, HeldShrinks
  <2>4. /\ Cardinality(Held(d)') <= Cardinality(Held(d))
        /\ Cardinality(Held(d)') \in Nat /\ Cardinality(Held(d)) \in Nat
    BY <2>3, FS_Subset, FS_CardinalityType
  <2>5. Held(pass[p].dev)' = Held(d)' /\ Held(pass[p].dev) = Held(d)
    BY <2>1, <2>2 DEF Held, Occupied
  <2>6. Cardinality(Held(d)') < pass[p].limit
    BY <1>0, <2>1, <2>4, <2>5
  <2>q. QED BY <2>1, <2>5, <2>6 DEF HasRoom
<1>q. QED BY <1>1, <1>3, <1>4 DEF TableStep

-----------------------------------------------------------------------------
Inv ==
    /\ TypeOK
    /\ TableSound
    /\ ReportsAwait
    /\ OneChain
    /\ QueuedBelongsToNobody
    /\ ClaimHasRoom

(* The inductive invariant holds at the start ...                          *)
LEMMA InvInit == Init => Inv
<1> SUFFICES ASSUME Init PROVE Inv
  OBVIOUS
<1> USE DEF Init, TableInit, ConnectionInit, TasksInit, GatewayInit
<1>1. NoRow \in Row /\ NoRow.status = "NONE"
  BY DEF NoRow, Row
<1>2. NoRun \in Pass /\ NoRun.pc = "free" /\ NoRun.report = NoTask
  BY BlankTyped DEF NoRun
<1>3. NoSession \in Session
  BY DEF NoSession, Session
<1>4. Idle \in Request /\ Idle.at = "idle"
  BY DEF Idle, Request
<1>5. TypeOK
  <2>1. TableTypeOK
    BY <1>1, MaxTasksAssumption DEF TableTypeOK
  <2>2. ConnectionTypeOK
    BY MaxLimitAssumption DEF ConnectionTypeOK, Connections, DefaultLimit
  <2>3. TasksTypeOK
    BY <1>4 DEF TasksTypeOK
  <2>4. GatewayTypeOK
    <3>1. pass \in [Passes -> Pass] /\ session \in [Sessions -> Session]
      BY <1>2, <1>3
    <3>2. chain \in [Tasks -> Seq(Received)]
      BY DEF GatewayInit
    <3>3. /\ device \in [Devices -> {"ONLINE", "OFFLINE", "GONE"}]
          /\ dispatchChain \in Passes \cup {NoPass} /\ overlooked \in BOOLEAN
      OBVIOUS
    <3>q. QED BY <3>1, <3>2, <3>3 DEF GatewayTypeOK
  <2>q. QED BY <2>1, <2>2, <2>3, <2>4 DEF TypeOK
<1>6. TableSound
  BY <1>1, <1>4 DEF TableSound, Exists
<1>7. ReportsAwait
  BY <1>2 DEF ReportsAwait
<1>8. OneChain
  BY <1>2 DEF OneChain, Underway
<1>9. QueuedBelongsToNobody
  BY <1>1 DEF QueuedBelongsToNobody, Queued
<1>10. ClaimHasRoom
  BY <1>2 DEF ClaimHasRoom
<1>q. QED BY <1>5, <1>6, <1>7, <1>8, <1>9, <1>10 DEF Inv

(* ... and every step preserves it.                                        *)
LEMMA InvStep == Inv /\ [Next]_vars => Inv'
<1> SUFFICES ASSUME Inv, [Next]_vars PROVE Inv'
  OBVIOUS
<1>1. TypeOK /\ TableSound /\ ReportsAwait /\ OneChain /\ QueuedBelongsToNobody /\ ClaimHasRoom
  BY DEF Inv
<1>2. PassStep /\ TableStep
  BY <1>1, PassAnatomy, RowAnatomy
<1>3. DispatcherTypeOK
  BY <1>1 DEF TypeOK, GatewayTypeOK, DispatcherTypeOK
<1>4. DispatcherTypeOK' /\ ReportsAwait'
  BY <1>1, <1>2, <1>3, DispatcherStep
<1>5. OneChain'
  BY <1>1, <1>2, <1>3, OneChainStep
<1>6. TableTypeOK' /\ OthersTypeOK'
  BY <1>1, <1>2, TableTyped, OthersTyped
<1>7. TypeOK'
  BY <1>4, <1>6 DEF TypeOK, GatewayTypeOK, DispatcherTypeOK, OthersTypeOK
<1>8. TableSound' /\ QueuedBelongsToNobody' /\ ClaimHasRoom'
  BY <1>1, <1>2, TableSoundStep, QueuedStep, ClaimHasRoomStep
<1>q. QED BY <1>4, <1>5, <1>7, <1>8 DEF Inv

(* The inductive invariant of the server, whatever the devices report.     *)
THEOREM Invariance == Spec => []Inv
  BY InvInit, InvStep, PTL DEF Spec

(* The variables of the server stay within their types.                    *)
THEOREM TypeCorrectness == Spec => []TypeOK
  BY Invariance, PTL DEF Inv

(* A queued task is assigned to no device.                                 *)
THEOREM QueuedUnassigned == Spec => []QueuedBelongsToNobody
  BY Invariance, PTL DEF Inv

-----------------------------------------------------------------------------
(* A claim leaves a device with at most as many claimed tasks as the limit *)
(* its pass has read, however many triggers ask for passes meanwhile       *)
(* (realtime.gateway.ts:41-43).                                            *)
LEMMA ClaimStepWithinLimit ==
    ASSUME Inv, [Next]_vars, NEW d \in Devices
    PROVE  ClaimWithinLimit(d)
<1>0. /\ TypeOK /\ ClaimHasRoom /\ TableStep
      /\ row \in [Tasks -> Row]
  BY RowAnatomy DEF Inv, TypeOK, TableTypeOK
<1>1. CASE \A t \in Tasks : RowStep(t)
  BY <1>0, <1>1, HeldShrinks DEF ClaimWithinLimit
<1>2. ASSUME NEW p \in Passes, NEW t \in Tasks, Claims(p, t)
      PROVE  ClaimWithinLimit(d)
  <2>1. /\ row'[t] = Claimed(row[t], pass[p].dev)
        /\ \A u \in Tasks : u # t => row'[u] = row[u]
    BY <1>0, <1>2 DEF Claims
  <2>2. row'[t].device = pass[p].dev
    BY <1>0, <2>1 DEF Claimed, Row
  <2>3. CASE pass[p].dev # d
    <3>1. Held(d)' \subseteq Held(d)
      BY <2>1, <2>2, <2>3 DEF Held, Occupied
    <3>q. QED BY <3>1 DEF ClaimWithinLimit
  <2>4. CASE pass[p].dev = d
    <3>1. Held(d)' \subseteq Held(d) \cup {t}
      BY <2>1 DEF Held, Occupied
    <3>2. /\ IsFiniteSet(Held(d)) /\ Cardinality(Held(d)) \in Nat
          /\ Cardinality(Held(d)) < pass[p].limit /\ pass[p].limit \in Nat
      <4>1. IsFiniteSet(Held(d)) /\ Cardinality(Held(d)) \in Nat
        BY HeldFinite, FS_CardinalityType
      <4>2. pass[p] \in Pass /\ pass[p].pc = "claim"
        BY <1>0, <1>2 DEF Claims, TypeOK, GatewayTypeOK
      <4>3. pass[p].limit \in Nat
        BY <4>2, MaxLimitAssumption DEF Pass
      <4>4. Cardinality(Held(d)) < pass[p].limit
        BY <1>0, <2>4, <4>2 DEF ClaimHasRoom, HasRoom
      <4>q. QED BY <4>1, <4>3, <4>4
    <3>3. /\ IsFiniteSet(Held(d) \cup {t})
          /\ Cardinality(Held(d) \cup {t}) <= Cardinality(Held(d)) + 1
      <4>1. IsFiniteSet(Held(d))
        BY <3>2
      <4>2. /\ IsFiniteSet(Held(d) \cup {t})
            /\ Cardinality(Held(d) \cup {t}) = IF t \in Held(d) THEN Cardinality(Held(d))
                                              ELSE Cardinality(Held(d)) + 1
        BY <4>1, FS_AddElement
      <4>q. QED BY <3>2, <4>2
    <3>4. /\ Cardinality(Held(d)') <= Cardinality(Held(d) \cup {t})
          /\ Cardinality(Held(d)') \in Nat /\ Cardinality(Held(d) \cup {t}) \in Nat
      BY <3>1, <3>3, FS_Subset, FS_CardinalityType
    <3>5. Cardinality(Held(d)') <= pass[p].limit
      BY <3>2, <3>3, <3>4
    <3>q. QED BY <3>5 DEF ClaimWithinLimit
  <2>q. QED BY <2>3, <2>4
<1>q. QED BY <1>0, <1>1, <1>2 DEF TableStep

(* No claim takes a device past the limit its pass has read                *)
(* (realtime.gateway.ts:169-186).                                          *)
THEOREM LimitRespected == Spec => ClaimsRespectLimit
<1>1. Inv /\ [Next]_vars => [\A d \in Devices : ClaimWithinLimit(d)]_vars
  BY ClaimStepWithinLimit
<1>q. QED BY <1>1, Invariance, PTL DEF Spec, ClaimsRespectLimit

(* A task leaves its device before another one gets it                     *)
(* (realtime.gateway.ts:185-191).                                          *)
HandedOver(t) == row[t].device # NoDevice /\ row'[t].device # NoDevice
                    => row'[t].device = row[t].device

(* No statement writes another device over a device.                       *)
LEMMA HandedOverStep ==
    ASSUME Inv, [Next]_vars, NEW t \in Tasks
    PROVE  HandedOver(t)
<1>0. /\ QueuedBelongsToNobody /\ TableStep
      /\ row \in [Tasks -> Row] /\ row[t] \in Row
  BY RowAnatomy DEF Inv, TypeOK, TableTypeOK
<1>1. ASSUME NEW p \in Passes, NEW u \in Tasks, Claims(p, u)
      PROVE  HandedOver(t)
  BY <1>0, <1>1 DEF Claims, QueuedBelongsToNobody, HandedOver
<1>2. ASSUME RowStep(t) PROVE HandedOver(t)
  <2>1. NoRow.device = NoDevice /\ Inserted.device = NoDevice
    BY DEF NoRow, Inserted
  <2>2. \A op \in Ops : Written(op, row[t]).device \in {row[t].device, NoDevice}
    BY <1>0 DEF Written, Canceled, Paused, Requeued, Row, Ops
  <2>3. Requeued(row[t]).device = NoDevice /\ DeviceForgotten(row[t]).device = NoDevice
    BY <1>0 DEF Requeued, DeviceForgotten, Row
  <2>4. \A rep \in Received : Reported(row[t], rep).device = row[t].device
    BY <1>0 DEF Reported, ReportWrites, Row
  <2>q. QED
    BY <1>2, <2>1, <2>2, <2>3, <2>4 DEF RowStep, Inserts, Writes, HandedOver
<1>q. QED BY <1>0, <1>1, <1>2 DEF TableStep

(* A task goes from one device to another only by way of none.             *)
THEOREM NeverHandedToTwo == Spec => HandedOverOnlyWhenReleased
<1>1. Inv /\ [Next]_vars =>
        [\A t \in Tasks : row[t].device # NoDevice /\ row'[t].device # NoDevice
                             => row'[t].device = row[t].device]_vars
  BY HandedOverStep DEF HandedOver
<1>q. QED BY <1>1, Invariance, PTL DEF Spec, HandedOverOnlyWhenReleased

-----------------------------------------------------------------------------
(* Only the write of a request that read the row before it was cancelled   *)
(* brings a cancelled task back.                                           *)
LEMMA RevertStep ==
    ASSUME Inv, [Next]_vars, NEW t \in Tasks, Revert(t)
    PROVE  StaleWrite(t)
<1>0. /\ TableStep /\ row \in [Tasks -> Row] /\ row[t] \in Row
      /\ row[t].status = "CANCELED" /\ row'[t].status \notin {"CANCELED", "NONE"}
  BY RowAnatomy DEF Inv, TypeOK, TableTypeOK, Revert
<1>1. ASSUME NEW p \in Passes, NEW u \in Tasks, Claims(p, u)
      PROVE  FALSE
  BY <1>0, <1>1 DEF Claims, Queued
<1>2. ASSUME RowStep(t) PROVE StaleWrite(t)
  <2>1. ~Inserts(t)
    BY <1>0 DEF Inserts, Exists
  <2>2. NoRow.status = "NONE"
    BY DEF NoRow
  <2>3. row[t].status \notin Occupying
    BY <1>0 DEF Occupying
  <2>4. \A rep \in Received : Reported(row[t], rep) = row[t]
    BY <1>0 DEF Reported, Writable
  <2>5. DeviceForgotten(row[t]).status = row[t].status
    BY <1>0 DEF DeviceForgotten, Row
  <2>6. PICK r \in Requests : Writes(r, t)
    BY <1>0, <1>2, <2>1, <2>2, <2>3, <2>4, <2>5 DEF RowStep
  <2>7. req[r].op # "cancel"
    <3>1. Written("cancel", row[t]).status = "CANCELED"
      BY <1>0 DEF Written, Canceled, Row
    <3>q. QED BY <1>0, <2>6, <3>1 DEF Writes
  <2>q. QED BY <2>6, <2>7 DEF Writes, StaleWrite
<1>q. QED BY <1>0, <1>1, <1>2 DEF TableStep

(* A cancelled task is brought back by nothing but a request that had      *)
(* checked its status before (tasks.service.ts:111, :127, :152).           *)
THEOREM RevertsAreStaleWrites == Spec => OnlyStaleWritesRevert
<1>1. Inv /\ [Next]_vars => [\A t \in Tasks : Revert(t) => StaleWrite(t)]_vars
  BY RevertStep
<1>q. QED BY <1>1, Invariance, PTL DEF Spec, OnlyStaleWritesRevert

(* With one request at a time what a request has checked still holds when  *)
(* it writes, as far as being cancelled goes.                              *)
CheckHolds ==
    \A r \in Requests : req[r].at = "update" /\ req[r].op # "cancel"
                            => row[req[r].task].status # "CANCELED"

(* The one request in flight finds the row as it has read it, for every    *)
(* other writer leaves a cancelled row alone.                              *)
LEMMA CheckHoldsStep ==
    ASSUME OneRequest, Inv, CheckHolds, [Next]_vars
    PROVE  CheckHolds'
<1> SUFFICES ASSUME NEW r \in Requests, req'[r].at = "update", req'[r].op # "cancel"
             PROVE  row'[req'[r].task].status # "CANCELED"
  BY DEF CheckHolds
<1>0. TypeOK /\ TableSound /\ TableStep /\ row \in [Tasks -> Row]
  BY RowAnatomy DEF Inv, TypeOK, TableTypeOK
<1>1. CASE Loads(r)
  <2>1. PICK op \in Ops, t \in Tasks : /\ req'[r] = [at |-> "update", op |-> op, task |-> t]
                                       /\ Allowed(op, row[t].status)
                                       /\ UNCHANGED row
    BY <1>1 DEF Loads
  <2>2. op # "cancel"
    BY <2>1
  <2>3. ~Allowed(op, "CANCELED")
    BY <2>2 DEF Allowed, Ops, Waiting, Occupying
  <2>q. QED BY <2>1, <2>3
<1>2. CASE req'[r] = req[r]
  <2> DEFINE t == req[r].task
  <2>1. t \in Tasks /\ row[t].status # "CANCELED" /\ row[t] \in Row
    BY <1>0, <1>2 DEF CheckHolds, TableSound
  <2>2. ASSUME NEW p \in Passes, NEW u \in Tasks, Claims(p, u)
        PROVE  row'[t].status # "CANCELED"
    BY <1>0, <2>1, <2>2 DEF Claims, Claimed, Row
  <2>3. ASSUME RowStep(t) PROVE row'[t].status # "CANCELED"
    <3>1. \A q \in Requests : ~Writes(q, t)
      BY <1>2 DEF Writes, OneRequest
    <3>2. NoRow.status # "CANCELED" /\ Inserted.status # "CANCELED"
      BY DEF NoRow, Inserted
    <3>3. Requeued(row[t]).status # "CANCELED" /\ DeviceForgotten(row[t]).status # "CANCELED"
      BY <2>1 DEF Requeued, DeviceForgotten, Row
    <3>4. \A rep \in Received : Reported(row[t], rep).status # "CANCELED"
      BY <2>1, ReceivedAssumption DEF Reported, ReportWrites, Reports, Row
    <3>q. QED BY <2>1, <2>3, <3>1, <3>2, <3>3, <3>4 DEF RowStep, Inserts
  <2>4. row'[t].status # "CANCELED"
    BY <1>0, <2>1, <2>2, <2>3 DEF TableStep
  <2>q. QED BY <1>2, <2>4
<1>q. QED BY <1>0, <1>1, <1>2, RequestAnatomy

(* "Cancelled manually, final": so it is while requests come one at a      *)
(* time.                                                                   *)
THEOREM CancelFinal == ASSUME OneRequest PROVE Spec => CancelIsFinal
<1>1. Init => CheckHolds
  BY DEF Init, TasksInit, Idle, CheckHolds
<1>2. Inv /\ CheckHolds /\ [Next]_vars => CheckHolds'
  BY CheckHoldsStep
<1>3. Inv /\ CheckHolds /\ [Next]_vars => [\A t \in Tasks : ~Revert(t)]_vars
  <2> SUFFICES ASSUME Inv, CheckHolds, [Next]_vars, NEW t \in Tasks, Revert(t)
               PROVE  FALSE
    OBVIOUS
  <2>1. StaleWrite(t)
    BY RevertStep
  <2>q. QED BY <2>1 DEF StaleWrite, CheckHolds, Revert
<1>q. QED BY <1>1, <1>2, <1>3, Invariance, PTL DEF Spec, CancelIsFinal

-----------------------------------------------------------------------------
(* The table hands tasks out as Allocator promises: a claim is a Grant,    *)
(* anything else that is written takes some tasks from their devices, and  *)
(* some of those it queues.                                                *)
HoldersOf == [t \in Tasks |-> Holder(t)]

(* No statement but a claim gives a task to a device.                      *)
LEMMA HolderKeptOrLost ==
    ASSUME TypeOK, NEW t \in Tasks, RowStep(t)
    PROVE  Holder(t)' \in {Holder(t), NoDevice}
<1>0. row[t] \in Row /\ row[t].device \in Devices \cup {NoDevice}
  BY DEF TypeOK, TableTypeOK, Row
<1> USE <1>0 DEF Holder, Occupying
<1>1. CASE row'[t] = row[t]
  BY <1>1
<1>2. CASE row'[t] = NoRow
  BY <1>2 DEF NoRow
<1>3. CASE Inserts(t)
  BY <1>3 DEF Inserts, Inserted, NoRow
<1>4. ASSUME NEW r \in Requests, Writes(r, t) PROVE Holder(t)' = NoDevice
  BY <1>4 DEF Writes, Written, Canceled, Paused, Requeued, Ops, Row
<1>5. CASE row'[t] = Requeued(row[t])
  BY <1>5 DEF Requeued, Row
<1>6. ASSUME NEW rep \in Received, row'[t] = Reported(row[t], rep)
      PROVE  Holder(t)' \in {Holder(t), NoDevice}
  BY <1>6 DEF Reported, ReportWrites, Row
<1>7. CASE row'[t] = DeviceForgotten(row[t])
  BY <1>7 DEF DeviceForgotten, Row
<1>q. QED BY <1>1, <1>2, <1>3, <1>4, <1>5, <1>6, <1>7 DEF RowStep

(* Statements that claim nothing only give tasks back to the abstract      *)
(* allocator.                                                              *)
LEMMA WritesReturn ==
    ASSUME TypeOK, \A t \in Tasks : RowStep(t)
    PROVE  \E ts \in SUBSET Tasks : Allocation!Return(ts)
<1> DEFINE ts == {t \in Tasks : \/ Holder(t)' # Holder(t)
                                \/ (t \in Queued) # (t \in Queued')}
<1>1. ASSUME NEW t \in ts PROVE Holder(t)' = NoDevice
  <2>1. t \in Tasks /\ Holder(t)' \in {Holder(t), NoDevice}
    BY HolderKeptOrLost
  <2>2. t \in Queued => Holder(t) = NoDevice
    BY DEF Queued, Holder, Occupying
  <2>3. t \in Queued' => Holder(t)' = NoDevice
    BY DEF Queued, Holder, Occupying
  <2>q. QED BY <2>1, <2>2, <2>3
<1>2. \A t \in Tasks : t \notin ts => Holder(t)' = Holder(t) /\ (t \in Queued' <=> t \in Queued)
  OBVIOUS
<1>3. Queued \subseteq Tasks /\ Queued' \subseteq Tasks /\ ts \subseteq Tasks
  BY DEF Queued
<1> HIDE DEF ts
<1>4. Queued' \ ts = Queued \ ts
  BY <1>2, <1>3
<1>5. HoldersOf' = [t \in Tasks |-> IF t \in ts THEN NoDevice ELSE HoldersOf[t]]
  BY <1>1, <1>2 DEF HoldersOf
<1>q. QED BY <1>3, <1>4, <1>5 DEF Allocation!Return, HoldersOf

(* The pass that claims is the one at work.                                *)
LEMMA ClaimantAtWork ==
    ASSUME Inv, NEW p \in Passes, Turn(p), pass[p].pc = "claim"
    PROVE  ReadBefore = pass[p].limit
<1>1. DispatcherTypeOK /\ OneChain
  BY DEF Inv, TypeOK, GatewayTypeOK, DispatcherTypeOK
<1>2. ASSUME NEW q \in AtWork PROVE q = p
  <2>1. q \in Passes /\ pass[q].pc \in {"devices", "count", "claim", "assign"}
    BY <1>1 DEF AtWork, DispatcherTypeOK, Pass
  <2>q. QED BY <1>1, <2>1, OneRuns
<1>3. p \in AtWork
  BY DEF AtWork
<1>4. AtWork = {p}
  BY <1>2, <1>3
<1>q. QED BY <1>4 DEF ReadBefore

(* A claim is a grant of a waiting task to a device with room.             *)
LEMMA ClaimGrants ==
    ASSUME Inv, NEW p \in Passes, NEW t \in Tasks, Claims(p, t)
    PROVE  \E d \in Devices : Allocation!Grant(t, d)
<1> DEFINE d == pass[p].dev
<1>1. /\ pass[p].pc = "claim" /\ pass[p] \in Pass /\ Turn(p)
      /\ t \in Queued /\ row \in [Tasks -> Row]
      /\ row' = [row EXCEPT ![t] = Claimed(@, d)]
  BY DEF Claims, Inv, TypeOK, TableTypeOK, GatewayTypeOK
<1>2. d \in Devices /\ Cardinality(Held(d)) < pass[p].limit
  BY <1>1 DEF Inv, ClaimHasRoom, HasRoom
<1>3. Held(d) = {u \in Tasks : HoldersOf[u] = d}
  BY <1>2, NoDeviceAssumption DEF Held, Occupied, HoldersOf, Holder
<1>4. Cardinality(Held(d)) < ReadBefore
  BY <1>1, <1>2, ClaimantAtWork
<1>5. HoldersOf[t] = NoDevice
  BY <1>1 DEF HoldersOf, Holder, Queued, Occupying
<1>6. /\ row'[t].status = "RUNNING" /\ row'[t].device = d /\ ~row'[t].revived
      /\ \A u \in Tasks : u # t => row'[u] = row[u]
  BY <1>1 DEF Claimed, Row
<1>7. Queued' = Queued \ {t}
  BY <1>6 DEF Queued
<1>8. HoldersOf' = [HoldersOf EXCEPT ![t] = d]
  BY <1>6 DEF HoldersOf, Holder, Occupying
<1>9. Cardinality(Allocation!HeldBy(d)) < ReadBefore
  BY <1>3, <1>4, Zenon DEF Allocation!HeldBy, HoldersOf
<1>10. Allocation!Grant(t, d)
  BY <1>1, <1>5, <1>7, <1>8, <1>9, Zenon
  DEF Allocation!Grant, HoldersOf, Cardinality, Allocation!Cardinality
<1>q. QED BY <1>2, <1>10, Zenon

(* The dispatcher, with all that goes on around it, implements Allocator.  *)
THEOREM ServerAllocates == Spec => DispatchAllocates
<1>1. Init => Allocation!AllocInit
  BY DEF Init, TableInit, NoRow, Queued, Holder, Occupying, Allocation!AllocInit
<1>2. Inv /\ [Next]_vars => [Allocation!AllocNext]_(Allocation!allocVars)
  <2> SUFFICES ASSUME Inv, [Next]_vars PROVE Allocation!AllocNext
    OBVIOUS
  <2>1. TableStep /\ TypeOK
    BY RowAnatomy DEF Inv
  <2>q. QED BY <2>1, ClaimGrants, WritesReturn DEF TableStep, Allocation!AllocNext
<1>q. QED BY <1>1, <1>2, Invariance, PTL DEF Spec, DispatchAllocates, Allocation!AllocSpec

-----------------------------------------------------------------------------
(* No device idles while a task waits.  As long as no pass is about to     *)
(* start, nor a request about to ask for one, the pass that is running     *)
(* knows the limit and every device that is online, and it will still look *)
(* at each of them that could take a task - or the tasks that wait are     *)
(* being written by somebody who asks for a pass, or queue them no more.   *)
PassComes ==
    \/ \E p \in Passes : pass[p].pc = "read"
    \/ \E r \in Requests : req[r].at = "route"

Rounds  == {"count", "claim", "assign"}
Begun == {"devices"} \cup Rounds

WillVisit(x, d) ==
    \/ x.pc \in {"devices", "assign"}
    \/ x.pc \in {"count", "claim"} /\ (x.again \/ d \in x.todo)
    \/ x.pc = "claim" /\ d = x.dev

KnowsLimit   == \A p \in Passes : pass[p].pc \in Begun => pass[p].limit = connection.limit
KnowsDevices == \A p \in Passes, d \in Devices :
                    pass[p].pc \in Rounds /\ device[d] = "ONLINE" => d \in pass[p].online
Served(d, t) == Writing(t) \/ \E p \in Passes : WillVisit(pass[p], d)
AllServed    == \A d \in Devices, t \in Queued :
                    device[d] = "ONLINE" /\ HasSlot(d, connection.limit) => Served(d, t)

UpToDate == KnowsLimit /\ KnowsDevices /\ AllServed
LookedAfter == connection.type = "LOCAL_CLI" /\ ~overlooked /\ ~PassComes => UpToDate

(* After a call of scheduleDispatch a pass is coming.                      *)
LEMMA AskedFor ==
    ASSUME DispatcherTypeOK, NEW t, Dispatch(t)
    PROVE  PassComes'
<1>1. PICK p \in Passes : pass' = [pass EXCEPT ![p] = [NoRun EXCEPT !.pc = "read", !.after = dispatchChain,
                                                                   !.report = t]]
  BY DEF Dispatch
<1>2. pass'[p].pc = "read"
  BY <1>1 DEF DispatcherTypeOK, NoRun
<1>q. QED BY <1>2 DEF PassComes

(* A slot is there after a step only if it was before, unless the device   *)
(* has been left by a task.                                                *)
LEMMA SlotWasThere ==
    ASSUME NEW d \in Devices, NEW limit \in Nat, Occupied(d) \subseteq Occupied(d)', HasSlot(d, limit)'
    PROVE  HasSlot(d, limit)
<1>1. IsFiniteSet(Tasks)
  BY MaxTasksAssumption, FS_Interval
<1>2. Occupied(d)' \subseteq Tasks
  BY DEF Occupied
<1>3. IsFiniteSet(Occupied(d)')
  BY <1>1, <1>2, FS_Subset
<1>4. /\ Cardinality(Occupied(d)) <= Cardinality(Occupied(d)')
      /\ Cardinality(Occupied(d)) \in Nat /\ Cardinality(Occupied(d)') \in Nat
  BY <1>3, FS_Subset, FS_CardinalityType
<1>q. QED BY <1>4 DEF HasSlot

(* Whoever leaves the dispatcher alone, brings no device, frees no slot    *)
(* and queues nothing needs no pass.                                       *)
LEMMA NothingToDo ==
    ASSUME TypeOK, LookedAfter, UNCHANGED <<connection, pass>>, overlooked => overlooked',
           \A r \in Requests : req[r].at = "route" => req'[r].at = "route",
           \A d \in Devices : device'[d] = "ONLINE" => /\ device[d] = "ONLINE"
                                                       /\ Occupied(d) \subseteq Occupied(d)',
           \A t \in Queued' : t \in Queued /\ (Writing(t) => Writing(t)')
    PROVE  LookedAfter'
<1> SUFFICES ASSUME connection'.type = "LOCAL_CLI", ~overlooked', ~PassComes'
             PROVE  UpToDate'
  BY DEF LookedAfter
<1>1. ~PassComes
  BY DEF PassComes
<1>2. UpToDate
  BY <1>1 DEF LookedAfter
<1>3. KnowsLimit' /\ KnowsDevices'
  BY <1>2 DEF UpToDate, KnowsLimit, KnowsDevices
<1>4. ASSUME NEW d \in Devices, NEW t \in Queued', device'[d] = "ONLINE",
             HasSlot(d, connection.limit)'
      PROVE  Served(d, t)'
  <2>1. connection.limit \in Nat /\ connection.limit' = connection.limit
    BY MaxLimitAssumption DEF TypeOK, ConnectionTypeOK, Connections
  <2>2. HasSlot(d, connection.limit)'
    BY <1>4
  <2>3. HasSlot(d, connection.limit)
    BY <1>4, <2>1, <2>2, SlotWasThere DEF HasSlot
  <2>4. Served(d, t)
    BY <1>2, <1>4, <2>3 DEF UpToDate, AllServed
  <2>q. QED BY <2>4, <1>4 DEF Served
<1>q. QED BY <1>3, <1>4 DEF UpToDate, AllServed

(* A pass goes on and does not end: it still looks at whom it had to.      *)
LEMMA PassGoesOn ==
    ASSUME TypeOK, OneChain, LookedAfter, NEW p \in Passes, Turn(p), pass[p].pc \in Begun,
           NEW new \in Pass, Step(p, new), new.report = pass[p].report,
           new.pc \in Rounds, new.limit = pass[p].limit,
           UNCHANGED <<connection, req, device, overlooked>>,
           ASSUME UpToDate, NEW d \in Devices, device[d] = "ONLINE"
           PROVE  /\ d \in new.online
                  /\ Occupied(d) \subseteq Occupied(d)'
                  /\ WillVisit(pass[p], d) => WillVisit(new, d) \/ ~HasSlot(d, pass[p].limit),
           Queued' \subseteq Queued
    PROVE  LookedAfter'
<1>0. /\ pass' = [pass EXCEPT ![p] = new] /\ UNCHANGED chain
      /\ pass \in [Passes -> Pass] /\ DispatcherTypeOK
      /\ pass'[p] = new /\ \A q \in Passes : q # p => pass'[q] = pass[q]
  BY DEF Step, TypeOK, GatewayTypeOK, DispatcherTypeOK
<1> SUFFICES ASSUME connection'.type = "LOCAL_CLI", ~overlooked', ~PassComes'
             PROVE  UpToDate'
  BY DEF LookedAfter
<1>1. ~PassComes
  <2>1. ASSUME NEW q \in Passes, pass[q].pc = "read" PROVE FALSE
    BY <1>0, <2>1 DEF PassComes, Begun, Rounds
  <2>q. QED BY <2>1 DEF PassComes
<1>2. UpToDate
  BY <1>1 DEF LookedAfter
<1>3. \A q \in Passes : pass'[q].pc \in Begun => q = p
  BY <1>0, OneRuns DEF Begun, Rounds
<1>4. \A q \in Passes : pass[q].pc \in Begun => q = p
  BY <1>0, OneRuns DEF Begun, Rounds
<1>5. KnowsLimit'
  BY <1>0, <1>2, <1>3 DEF UpToDate, KnowsLimit
<1>6. KnowsDevices'
  BY <1>0, <1>2, <1>3 DEF KnowsDevices, Begun
<1>7. \A t \in Tasks : AwaitsPass(t)' => AwaitsPass(t)
  BY <1>0 DEF AwaitsPass
<1>8. \A t \in Tasks : Writing(t) => Writing(t)'
  BY <1>0, <1>7 DEF Writing
<1>9. ASSUME NEW d \in Devices, NEW t \in Queued', device'[d] = "ONLINE",
             HasSlot(d, connection.limit)'
      PROVE  Served(d, t)'
  <2>1. /\ connection.limit \in Nat /\ connection.limit' = connection.limit
        /\ pass[p].limit = connection.limit
    BY <1>2, MaxLimitAssumption DEF TypeOK, ConnectionTypeOK, Connections, UpToDate, KnowsLimit
  <2>2. HasSlot(d, connection.limit)
    BY <1>2, <1>9, <2>1, SlotWasThere DEF HasSlot
  <2>3. Served(d, t)
    BY <1>2, <1>9, <2>2 DEF UpToDate, AllServed
  <2>4. CASE Writing(t)
    BY <1>8, <2>4 DEF Served, Queued
  <2>5. ASSUME NEW q \in Passes, WillVisit(pass[q], d) PROVE Served(d, t)'
    <3>1. q = p
      BY <1>4, <2>5 DEF WillVisit, Begun, Rounds
    <3>2. WillVisit(new, d)
      BY <1>2, <1>9, <2>1, <2>2, <2>5, <3>1
    <3>q. QED BY <1>0, <3>2 DEF Served, WillVisit
  <2>q. QED BY <2>3, <2>4, <2>5 DEF Served
<1>q. QED BY <1>5, <1>6, <1>9 DEF UpToDate, AllServed

(* A pass ends when the tasks that wait are being written or no device is  *)
(* left that could take one.                                               *)
LEMMA PassEnds ==
    ASSUME TypeOK, OneChain, LookedAfter, NEW p \in Passes, Turn(p), pass[p].pc \in Begun, Settle(p),
           UNCHANGED <<connection, req, device, overlooked, row>>,
           ASSUME UpToDate, NEW d \in Devices, NEW t \in Queued, device[d] = "ONLINE",
                  HasSlot(d, connection.limit)
           PROVE  Writing(t)
    PROVE  LookedAfter'
<1>0. /\ pass \in [Passes -> Pass] /\ DispatcherTypeOK /\ chain \in [Tasks -> Seq(Received)]
  BY DEF TypeOK, GatewayTypeOK, DispatcherTypeOK
<1>1. /\ pass'[p].pc = "free" /\ pass'[p].report = NoTask
      /\ \A q \in Passes : q # p => /\ pass'[q].pc = pass[q].pc
                                    /\ pass'[q].report = pass[q].report
  <2>1. NoRun.pc = "free" /\ NoRun.report = NoTask
    BY DEF NoRun
  <2>2. \A q \in Passes : pass'[q] = IF q = p THEN NoRun
                                    ELSE IF pass[q].after = p
                                    THEN [pass[q] EXCEPT !.after = NoPass] ELSE pass[q]
    BY DEF Settle
  <2>3. \A q \in Passes : /\ [pass[q] EXCEPT !.after = NoPass].pc = pass[q].pc
                          /\ [pass[q] EXCEPT !.after = NoPass].report = pass[q].report
    BY <1>0, ReleasedTyped
  <2>4. pass'[p] = NoRun
    BY <2>2
  <2>5. ASSUME NEW q \in Passes, q # p
        PROVE  pass'[q].pc = pass[q].pc /\ pass'[q].report = pass[q].report
    <3>1. pass'[q] = pass[q] \/ pass'[q] = [pass[q] EXCEPT !.after = NoPass]
      BY <2>2, <2>5
    <3>q. QED BY <2>3, <3>1
  <2>q. QED BY <2>1, <2>4, <2>5
<1> SUFFICES ASSUME connection'.type = "LOCAL_CLI", ~overlooked', ~PassComes'
             PROVE  UpToDate'
  BY DEF LookedAfter
<1>2. UpToDate
  <2>1. ASSUME NEW q \in Passes, pass[q].pc = "read" PROVE FALSE
    BY <1>1, <2>1 DEF PassComes, Begun, Rounds
  <2>q. QED BY <2>1 DEF LookedAfter, PassComes
<1>3. \A q \in Passes : pass'[q].pc \notin Begun
  BY <1>0, <1>1, OneRuns DEF Begun, Rounds
<1>4. ASSUME NEW t \in Tasks, Writing(t) PROVE Writing(t)'
  <2>1. AwaitsPass(t)' => AwaitsPass(t)
    BY <1>1 DEF AwaitsPass
  <2>2. AwaitsPass(t) \/ chain'[t] = chain[t]
    BY <1>0 DEF Settle, AwaitsPass
  <2>q. QED BY <1>4, <2>1, <2>2 DEF Writing
<1>5. ASSUME NEW d \in Devices, NEW t \in Queued', device'[d] = "ONLINE",
             HasSlot(d, connection.limit)'
      PROVE  Writing(t)'
  <2>1. t \in Queued /\ HasSlot(d, connection.limit)
    BY <1>5 DEF Queued, HasSlot, Occupied
  <2>q. QED BY <1>2, <1>4, <1>5, <2>1 DEF Queued
<1>q. QED BY <1>3, <1>5 DEF UpToDate, KnowsLimit, KnowsDevices, AllServed, Served, Begun

(* The connection has been read: the pass has yet to look at all devices.  *)
LEMMA PassBegins ==
    ASSUME TypeOK, OneChain, NEW p \in Passes, ReadConnection(p), UNCHANGED <<connection, req>>
    PROVE  LookedAfter'
<1>0. /\ pass \in [Passes -> Pass] /\ DispatcherTypeOK
  BY DEF TypeOK, GatewayTypeOK, DispatcherTypeOK
<1> SUFFICES ASSUME connection'.type = "LOCAL_CLI"
             PROVE  UpToDate'
  BY DEF LookedAfter
<1> DEFINE new == [pass[p] EXCEPT !.pc = "devices", !.limit = connection.limit]
<1>1. Turn(p) /\ pass[p].pc = "read" /\ Step(p, new)
  BY DEF ReadConnection
<1>2. new.pc = "devices" /\ new.limit = connection.limit
  BY <1>0 DEF Pass
<1>3. pass'[p] = new /\ \A q \in Passes : q # p => pass'[q] = pass[q]
  BY <1>0, <1>1 DEF Step
<1> HIDE DEF new
<1>4. \A q \in Passes : pass'[q].pc \in Begun => q = p
  BY <1>0, <1>1, <1>3, OneRuns DEF Begun, Rounds
<1>5. KnowsLimit' /\ KnowsDevices'
  BY <1>2, <1>3, <1>4 DEF KnowsLimit, KnowsDevices, Begun, Rounds
<1>6. \A d \in Devices : WillVisit(pass'[p], d)
  BY <1>2, <1>3 DEF WillVisit
<1>q. QED BY <1>5, <1>6 DEF UpToDate, AllServed, Served

(* A pass that has read the devices of the user takes all that are online  *)
(* on its round.                                                           *)
LEMMA DevicesLookedAfter ==
    ASSUME TypeOK, OneChain, LookedAfter, NEW p \in Passes, ReadDevices(p),
           UNCHANGED <<connection, req>>
    PROVE  LookedAfter'
<1> DEFINE online == {d \in Devices : device[d] = "ONLINE"}
           new == [pass[p] EXCEPT !.pc = "count", !.online = online, !.todo = online]
<1>0. /\ pass[p] \in Pass /\ Turn(p) /\ pass[p].pc = "devices"
      /\ UNCHANGED <<device, session, overlooked, tableVars>>
  BY DEF TypeOK, GatewayTypeOK, ReadDevices
<1>1. CASE online = {}
  BY <1>0, <1>1, PassEnds DEF ReadDevices, Begun, tableVars
<1>2. CASE online # {}
  <2>1. Step(p, new)
    BY <1>2 DEF ReadDevices
  <2>2. /\ new \in Pass /\ new.report = pass[p].report /\ new.pc = "count"
        /\ new.limit = pass[p].limit /\ new.online = online /\ new.todo = online
    BY <1>0 DEF Pass
  <2> HIDE DEF new
  <2>3. ASSUME NEW d \in Devices, device[d] = "ONLINE"
        PROVE  d \in new.online /\ WillVisit(new, d) /\ Occupied(d) \subseteq Occupied(d)'
    BY <1>0, <2>2, <2>3 DEF WillVisit, Occupied, tableVars
  <2>4. Queued' \subseteq Queued
    BY <1>0 DEF Queued, tableVars
  <2>q. QED BY <1>0, <2>1, <2>2, <2>3, <2>4, PassGoesOn DEF Begun, Rounds
<1>q. QED BY <1>1, <1>2

(* The round goes on to the next device, or another round begins.          *)
LEMMA ProceedsLookedAfter ==
    ASSUME TypeOK, OneChain, LookedAfter, NEW p \in Passes, Turn(p), pass[p].pc \in Rounds,
           NEW todo \in SUBSET Devices, NEW again \in BOOLEAN, Proceed(p, todo, again),
           UNCHANGED <<connection, req, device, overlooked, row>>,
           ASSUME UpToDate, NEW d \in Devices, device[d] = "ONLINE", HasSlot(d, connection.limit),
                  WillVisit(pass[p], d)
           PROVE  again \/ d \in todo
    PROVE  LookedAfter'
<1> DEFINE going == [pass[p] EXCEPT !.pc = "count", !.dev = NoDevice, !.task = NoTask]
           same  == [going EXCEPT !.todo = todo, !.again = again]
           more  == [going EXCEPT !.todo = pass[p].online, !.again = FALSE]
<1>0. pass[p] \in Pass /\ DispatcherTypeOK
  BY DEF TypeOK, GatewayTypeOK, DispatcherTypeOK
<1>1. /\ same \in Pass /\ same.pc = "count" /\ same.report = pass[p].report
      /\ same.limit = pass[p].limit /\ same.online = pass[p].online
      /\ same.todo = todo /\ same.again = again
  BY <1>0 DEF Pass
<1>2. /\ more \in Pass /\ more.pc = "count" /\ more.report = pass[p].report
      /\ more.limit = pass[p].limit /\ more.online = pass[p].online
      /\ more.todo = pass[p].online
  BY <1>0 DEF Pass
<1>3. \/ Step(p, same)
      \/ again /\ Step(p, more)
      \/ todo = {} /\ ~again /\ Settle(p)
  BY DEF Proceed
<1>4. ASSUME UpToDate, NEW d \in Devices, device[d] = "ONLINE"
      PROVE  /\ d \in pass[p].online /\ Occupied(d) \subseteq Occupied(d)'
             /\ pass[p].limit = connection.limit
  BY <1>4 DEF UpToDate, KnowsDevices, KnowsLimit, Begun, Occupied
<1>5. Queued' \subseteq Queued
  BY DEF Queued
<1> HIDE DEF same, more, going
<1>6. CASE Step(p, same)
  <2>1. ASSUME UpToDate, NEW d \in Devices, device[d] = "ONLINE"
        PROVE  /\ d \in same.online /\ Occupied(d) \subseteq Occupied(d)'
               /\ WillVisit(pass[p], d) => WillVisit(same, d) \/ ~HasSlot(d, pass[p].limit)
    <3>1. d \in same.online /\ Occupied(d) \subseteq Occupied(d)' /\ pass[p].limit = connection.limit
      BY <1>1, <1>4, <2>1
    <3>2. ASSUME WillVisit(pass[p], d), HasSlot(d, connection.limit) PROVE WillVisit(same, d)
      BY <1>1, <2>1, <3>2 DEF WillVisit
    <3>q. QED BY <3>1, <3>2
  <2>q. QED BY <1>0, <1>1, <1>5, <1>6, <2>1, PassGoesOn DEF Begun, Rounds
<1>7. CASE again /\ Step(p, more)
  <2>1. ASSUME UpToDate, NEW d \in Devices, device[d] = "ONLINE"
        PROVE  d \in more.online /\ Occupied(d) \subseteq Occupied(d)' /\ WillVisit(more, d)
    BY <1>2, <1>4, <2>1 DEF WillVisit
  <2>q. QED BY <1>0, <1>2, <1>5, <1>7, <2>1, PassGoesOn DEF Begun, Rounds
<1>8. CASE todo = {} /\ ~again /\ Settle(p)
  <2>1. ASSUME UpToDate, NEW d \in Devices, NEW t \in Queued, device[d] = "ONLINE",
               HasSlot(d, connection.limit)
        PROVE  Writing(t)
    <3>1. ~WillVisit(pass[p], d)
      BY <1>8, <2>1
    <3>2. \A q \in Passes : WillVisit(pass[q], d) => q = p
      BY <1>0, OneRuns DEF WillVisit
    <3>q. QED BY <2>1, <3>1, <3>2 DEF UpToDate, AllServed, Served
  <2>q. QED BY <1>8, <2>1, PassEnds DEF Begun
<1>q. QED BY <1>3, <1>6, <1>7, <1>8

(* A device that is passed over because it is full has no slot to be looked*)
(* after.                                                                  *)
LEMMA CountLookedAfter ==
    ASSUME TypeOK, OneChain, LookedAfter, NEW p \in Passes, NEW d \in Devices, CountSlots(p, d),
           UNCHANGED <<connection, req>>
    PROVE  LookedAfter'
<1>0. /\ pass[p] \in Pass /\ Turn(p) /\ pass[p].pc = "count"
      /\ UNCHANGED <<device, overlooked, row>>
  BY DEF TypeOK, GatewayTypeOK, CountSlots, tableVars
<1>1. CASE HasSlot(d, pass[p].limit)
  <2> DEFINE new == [pass[p] EXCEPT !.pc = "claim", !.dev = d, !.todo = @ \ {d}]
  <2>1. Step(p, new)
    BY <1>1 DEF CountSlots
  <2>2. /\ new \in Pass /\ new.report = pass[p].report /\ new.pc = "claim" /\ new.dev = d
        /\ new.limit = pass[p].limit /\ new.online = pass[p].online /\ new.again = pass[p].again
        /\ new.todo = pass[p].todo \ {d}
    BY <1>0 DEF Pass
  <2> HIDE DEF new
  <2>3. ASSUME UpToDate, NEW e \in Devices, device[e] = "ONLINE"
        PROVE  /\ e \in new.online /\ Occupied(e) \subseteq Occupied(e)'
               /\ WillVisit(pass[p], e) => WillVisit(new, e)
    BY <1>0, <2>2, <2>3 DEF WillVisit, Occupied, UpToDate, KnowsDevices, Rounds
  <2>4. Queued' \subseteq Queued
    BY <1>0 DEF Queued
  <2>q. QED BY <1>0, <2>1, <2>2, <2>3, <2>4, PassGoesOn DEF Begun, Rounds
<1>2. CASE ~HasSlot(d, pass[p].limit)
  <2>1. Proceed(p, pass[p].todo \ {d}, pass[p].again)
    BY <1>2 DEF CountSlots
  <2>2. pass[p].todo \ {d} \in SUBSET Devices /\ pass[p].again \in BOOLEAN
    BY <1>0 DEF Pass
  <2>3. ASSUME UpToDate, NEW e \in Devices, HasSlot(e, connection.limit), WillVisit(pass[p], e)
        PROVE  pass[p].again \/ e \in pass[p].todo \ {d}
    <3>1. pass[p].limit = connection.limit
      BY <1>0, <2>3 DEF UpToDate, KnowsLimit, Begun, Rounds
    <3>2. e # d
      BY <1>2, <2>3, <3>1
    <3>q. QED BY <1>0, <2>3, <3>2 DEF WillVisit
  <2>q. QED BY <1>0, <2>1, <2>2, <2>3, ProceedsLookedAfter DEF Rounds
<1>q. QED BY <1>1, <1>2

(* A claim that finds nothing leaves nothing queued that was not locked;   *)
(* one that finds a task goes on with the same device.                     *)
LEMMA ClaimLookedAfter ==
    ASSUME TypeOK, OneChain, LookedAfter, NEW p \in Passes, ClaimOldest(p),
           UNCHANGED <<connection, req>>
    PROVE  LookedAfter'
<1> DEFINE d == pass[p].dev
<1>0. /\ pass[p] \in Pass /\ Turn(p) /\ pass[p].pc = "claim" /\ row \in [Tasks -> Row]
      /\ UNCHANGED device
  BY DEF TypeOK, GatewayTypeOK, TableTypeOK, ClaimOldest, Claim
<1>1. PICK skipped \in SUBSET {t \in Queued : Writing(t)} : Claim(p, skipped)
  BY DEF ClaimOldest
<1>2. CASE Claimable(skipped) = {}
  <2>1. Settle(p) /\ UNCHANGED <<row, overlooked>>
    BY <1>1, <1>2 DEF Claim
  <2>2. \A t \in Queued : Writing(t)
    BY <1>2 DEF Claimable
  <2>q. QED BY <1>0, <2>1, <2>2, PassEnds DEF Begun, Rounds
<1>3. CASE overlooked'
  BY <1>3 DEF LookedAfter
<1>4. CASE Claimable(skipped) # {} /\ ~overlooked'
  <2>1. PICK t \in Queued : /\ row' = [row EXCEPT ![t] = Claimed(@, d)]
                            /\ Step(p, [pass[p] EXCEPT !.pc = "assign", !.task = t])
                            /\ UNCHANGED overlooked
    BY <1>1, <1>4 DEF Claim, Claimable
  <2> DEFINE new == [pass[p] EXCEPT !.pc = "assign", !.task = t]
  <2>2. /\ new \in Pass /\ new.report = pass[p].report /\ new.pc = "assign"
        /\ new.limit = pass[p].limit /\ new.online = pass[p].online
    BY <1>0, <2>1 DEF Pass, Queued
  <2>3. Step(p, new)
    BY <2>1
  <2> HIDE DEF new
  <2>4. /\ t \in Tasks /\ row[t].status = "QUEUED" /\ row'[t].status = "RUNNING"
        /\ \A u \in Tasks : u # t => row'[u] = row[u]
    BY <1>0, <2>1 DEF Queued, Claimed, Row
  <2>5. ASSUME UpToDate, NEW e \in Devices, device[e] = "ONLINE"
        PROVE  e \in new.online /\ Occupied(e) \subseteq Occupied(e)' /\ WillVisit(new, e)
    <3>1. e \in new.online /\ WillVisit(new, e)
      BY <1>0, <2>2, <2>5 DEF WillVisit, UpToDate, KnowsDevices, Rounds
    <3>2. Occupied(e) \subseteq Occupied(e)'
      BY <2>4 DEF Occupied, Occupying
    <3>q. QED BY <3>1, <3>2
  <2>6. Queued' \subseteq Queued
    BY <2>4 DEF Queued
  <2>q. QED BY <1>0, <2>1, <2>2, <2>3, <2>5, <2>6, PassGoesOn DEF Begun, Rounds
<1>q. QED BY <1>2, <1>3, <1>4

(* A pass that has assigned a task goes round again.                       *)
LEMMA AssignLookedAfter ==
    ASSUME TypeOK, OneChain, LookedAfter, NEW p \in Passes, SendAssign(p),
           UNCHANGED <<connection, req>>
    PROVE  LookedAfter'
<1>1. /\ pass[p] \in Pass /\ Turn(p) /\ pass[p].pc = "assign"
      /\ UNCHANGED <<device, overlooked, row>> /\ Proceed(p, pass[p].todo, TRUE)
  BY DEF TypeOK, GatewayTypeOK, SendAssign, tableVars
<1>2. pass[p].todo \in SUBSET Devices
  BY <1>1 DEF Pass
<1>q. QED BY <1>1, <1>2, ProceedsLookedAfter DEF Rounds

(* A request asks for a pass after it has made work or room, or leaves     *)
(* that to its last step.                                                  *)
LEMMA RequestLookedAfter ==
    ASSUME TypeOK, TableSound, LookedAfter, RequestStep
    PROVE  LookedAfter'
<1>0. /\ req \in [Requests -> Request] /\ DispatcherTypeOK
  BY DEF TypeOK, TasksTypeOK, GatewayTypeOK, DispatcherTypeOK
<1>1. ASSUME NEW r \in Requests, CreateTask(r) PROVE LookedAfter'
  <2>1. req'[r].at = "route"
    BY <1>0, <1>1 DEF CreateTask, Create, Routing
  <2>q. QED BY <2>1 DEF LookedAfter, PassComes
<1>2. ASSUME NEW r \in Requests, NEW op \in Ops, NEW t \in Tasks, LoadTask(r, op, t)
      PROVE  LookedAfter'
  <2>1. /\ UNCHANGED <<connection, pass, overlooked, device, row, chain>>
        /\ req[r].at = "idle" /\ \A q \in Requests : q # r => req'[q] = req[q]
    BY <1>0, <1>2 DEF LoadTask, Load, gatewayVars, tableVars
  <2>2. \A u \in Tasks : Writing(u) => Writing(u)'
    BY <2>1 DEF Writing, AwaitsPass
  <2>3. \A d \in Devices : Occupied(d) \subseteq Occupied(d)'
    BY <2>1 DEF Occupied
  <2>4. \A q \in Requests : req[q].at = "route" => req'[q].at = "route"
    BY <2>1
  <2>q. QED BY <2>1, <2>2, <2>3, <2>4, NothingToDo DEF Queued
<1>3. ASSUME NEW r \in Requests, UpdateTask(r) PROVE LookedAfter'
  <2>1. req[r].at = "update" /\ req[r].task \in Tasks /\ req[r].op \in Ops
    BY <1>3 DEF UpdateTask, Update, TableSound
  <2>2. CASE Exists(req[r].task) /\ req[r].op \in {"cancel", "pause"}
    BY <1>0, <1>3, <2>2, AskedFor DEF UpdateTask, DispatchesAfter, LookedAfter
  <2>3. CASE Exists(req[r].task) /\ req[r].op \in {"resume", "retry"}
    <3>1. req'[r].at = "route"
      BY <1>0, <1>3, <2>3 DEF UpdateTask, Update, Routing
    <3>q. QED BY <3>1 DEF LookedAfter, PassComes
  <2>4. CASE ~Exists(req[r].task)
    <3>1. /\ UNCHANGED <<connection, pass, overlooked, device, row, chain>>
          /\ \A q \in Requests : q # r => req'[q] = req[q]
      BY <1>0, <1>3, <2>4 DEF UpdateTask, Update, DispatchesAfter, dispatchVars
    <3>2. \A u \in Queued : Writing(u) => Writing(u)'
      BY <2>4, <3>1 DEF Writing, AwaitsPass, Exists, Queued
    <3>3. \A d \in Devices : Occupied(d) \subseteq Occupied(d)'
      BY <3>1 DEF Occupied
    <3>4. \A q \in Requests : req[q].at = "route" => req'[q].at = "route"
      BY <2>1, <3>1
    <3>q. QED BY <3>1, <3>2, <3>3, <3>4, NothingToDo DEF Queued
  <2>q. QED BY <2>1, <2>2, <2>3, <2>4 DEF Ops
<1>4. ASSUME NEW r \in Requests, RouteTask(r) PROVE LookedAfter'
  <2>1. CASE connection.type = "LOCAL_CLI"
    BY <1>0, <1>4, <2>1, AskedFor DEF RouteTask, LookedAfter
  <2>2. CASE connection.type # "LOCAL_CLI"
    BY <1>4, <2>2 DEF RouteTask, LookedAfter
  <2>q. QED BY <2>1, <2>2
<1>q. QED BY <1>1, <1>2, <1>3, <1>4 DEF RequestStep

(* A device that comes online is followed by a pass; one that goes frees   *)
(* nobody else's slot, and what it had goes back without a pass.           *)
LEMMA SessionLookedAfter ==
    ASSUME TypeOK, LookedAfter, NEW s \in Sessions, Serves(s), UNCHANGED <<connection, req>>
    PROVE  LookedAfter'
<1>0. /\ device \in [Devices -> {"ONLINE", "OFFLINE", "GONE"}] /\ DispatcherTypeOK
      /\ session \in [Sessions -> Session]
  BY DEF TypeOK, GatewayTypeOK, DispatcherTypeOK
<1>1. CASE MarkOnline(s)
  BY <1>0, <1>1, AskedFor DEF MarkOnline, LookedAfter
<1>2. CASE ~MarkOnline(s)
  <2>1. UNCHANGED <<pass, chain>>
    BY <1>2 DEF Serves, Connect, Identify, Drop, MarkOffline, Requeue, dispatchVars
  <2>2. \A d \in Devices : device'[d] = "ONLINE" => device[d] = "ONLINE"
    BY <1>0, <1>2 DEF Serves, Connect, Identify, Drop, MarkOffline, Requeue, SetStatus
  <2>3. overlooked' \/ UNCHANGED row
    <3>1. CASE Requeue(s) /\ Occupied(session[s].device) = {}
      BY <3>1 DEF Requeue, TypeOK, TableTypeOK
    <3>2. CASE Requeue(s) /\ Occupied(session[s].device) # {}
      BY <3>2 DEF Requeue
    <3>q. QED BY <1>2, <3>1, <3>2 DEF Serves, Connect, Identify, Drop, MarkOffline, tableVars
  <2>4. CASE UNCHANGED row
    <3>1. \A t \in Tasks : Writing(t) => Writing(t)'
      BY <2>1 DEF Writing, AwaitsPass
    <3>2. overlooked => overlooked'
      <4>1. CASE Requeue(s)
        BY <4>1, Zenon DEF Requeue
      <4>2. CASE ~Requeue(s)
        BY <1>2, <4>2 DEF Serves, Connect, Identify, Drop, MarkOffline
      <4>q. QED BY <4>1, <4>2
    <3>q. QED BY <2>1, <2>2, <2>4, <3>1, <3>2, NothingToDo DEF Occupied, Queued
  <2>5. CASE overlooked'
    BY <2>5 DEF LookedAfter
  <2>q. QED BY <2>3, <2>4, <2>5
<1>q. QED BY <1>1, <1>2

(* A report that ends a task asks for a pass, and one that pauses it is    *)
(* overlooked; the others free nothing.                                    *)
LEMMA ReportLookedAfter ==
    ASSUME TypeOK, LookedAfter, ReportStep, UNCHANGED <<connection, req>>
    PROVE  LookedAfter'
<1>0. /\ row \in [Tasks -> Row] /\ chain \in [Tasks -> Seq(Received)] /\ DispatcherTypeOK
  BY DEF TypeOK, TableTypeOK, GatewayTypeOK, DispatcherTypeOK
<1>1. ASSUME NEW t \in Tasks, NEW s \in Sessions, NEW rep \in Reports, Receive(s, t, rep)
      PROVE  LookedAfter'
  <2>1. /\ chain' = [chain EXCEPT ![t] = Append(@, rep)] /\ rep \in Received
        /\ UNCHANGED <<pass, overlooked, device, row>>
    BY <1>1 DEF Receive, Joined, dispatchVars, tableVars
  <2>2. chain'[t] # <<>> /\ \A u \in Tasks : u # t => chain'[u] = chain[u]
    BY <1>0, <2>1
  <2>3. \A u \in Tasks : Writing(u) => Writing(u)'
    BY <2>1, <2>2 DEF Writing, AwaitsPass
  <2>q. QED BY <2>1, <2>3, NothingToDo DEF Occupied, Queued
<1>2. ASSUME NEW t \in Tasks, ApplyReport(t) PROVE LookedAfter'
  <2> DEFINE rep == Head(chain[t])
  <2>0. /\ rep \in Reports /\ UNCHANGED device
        /\ row' = [row EXCEPT ![t] = Reported(@, rep)]
        /\ overlooked' = (overlooked \/ FreesSilently(t, rep))
    BY <1>0, <1>2, ReceivedAssumption DEF ApplyReport
  <2>1. CASE DispatchesFor(t, rep)
    BY <1>0, <1>2, <2>1, AskedFor DEF ApplyReport, LookedAfter
  <2>2. CASE FreesSilently(t, rep)
    BY <2>0, <2>2 DEF LookedAfter
  <2>3. CASE ~DispatchesFor(t, rep) /\ ~FreesSilently(t, rep)
    <3>1. /\ chain' = [chain EXCEPT ![t] = Tail(@)] /\ UNCHANGED pass
      BY <1>2, <2>3 DEF ApplyReport, dispatchVars
    <3>2. \A u \in Tasks : u # t => /\ chain'[u] = chain[u] /\ row'[u] = row[u]
      BY <1>0, <2>0, <3>1
    <3>3. \A u \in Tasks : u # t /\ Writing(u) => Writing(u)'
      BY <3>1, <3>2 DEF Writing, AwaitsPass
    <3>4. row'[t].status # "QUEUED" /\ row'[t].device = row[t].device
      BY <1>0, <2>0 DEF Reported, ReportWrites, Row, Writable, Reports
    <3>5. row[t].status \in Occupying => row'[t].status \in Occupying
      <4>1. rep \in {"RUNNING", "PAUSED_RATE_LIMIT"} \/ ~Writable(row[t]) \/ row[t].status \notin Occupying
        BY <2>0, <2>3 DEF DispatchesFor, FreesSilently, Reports, Final
      <4>q. QED BY <1>0, <2>0, <4>1 DEF Reported, ReportWrites, Row, Occupying
    <3>6. \A d \in Devices : Occupied(d) \subseteq Occupied(d)'
      BY <3>2, <3>4, <3>5 DEF Occupied
    <3>7. \A u \in Queued' : u \in Queued /\ (Writing(u) => Writing(u)')
      BY <3>2, <3>3, <3>4 DEF Queued
    <3>8. overlooked => overlooked'
      BY <2>0
    <3>q. QED BY <2>0, <3>1, <3>6, <3>7, <3>8, NothingToDo
  <2>q. QED BY <2>1, <2>2, <2>3
<1>q. QED BY <1>1, <1>2 DEF ReportStep

(* Every step leaves a free slot to the pass that will visit it, or asks   *)
(* for another pass, or is overlooked.                                     *)
LEMMA LookedAfterStep == Inv /\ LookedAfter /\ [Next]_vars => LookedAfter'
<1> SUFFICES ASSUME Inv, LookedAfter, [Next]_vars PROVE LookedAfter'
  OBVIOUS
<1>0. /\ TypeOK /\ TableSound /\ OneChain /\ DispatcherTypeOK
      /\ overlooked \in BOOLEAN /\ row \in [Tasks -> Row]
  BY DEF Inv, TypeOK, TableTypeOK, GatewayTypeOK, DispatcherTypeOK
<1>1. ASSUME RequestStep PROVE LookedAfter'
  BY <1>0, <1>1, RequestLookedAfter
<1>2. ASSUME NEW t \in Tasks, RemoveTask(t) PROVE LookedAfter'
  <2>1. CASE row[t].status \in Occupying
    BY <2>1, <1>2 DEF RemoveTask, LookedAfter
  <2>2. CASE row[t].status \notin Occupying
    <3>1. /\ UNCHANGED <<connection, pass, req, device, chain>>
          /\ overlooked => overlooked'
      BY <1>2 DEF RemoveTask, Remove, dispatchVars
    <3>2. row'[t].status = "NONE" /\ \A u \in Tasks : u # t => row'[u] = row[u]
      BY <1>0, <1>2 DEF RemoveTask, Remove, NoRow
    <3>3. \A d \in Devices : Occupied(d) \subseteq Occupied(d)'
      BY <2>2, <3>2 DEF Occupied
    <3>4. \A u \in Queued' : u \in Queued
      BY <3>2 DEF Queued
    <3>5. \A u \in Tasks : Writing(u) => Writing(u)'
      BY <3>1 DEF Writing, AwaitsPass
    <3>q. QED BY <1>0, <3>1, <3>3, <3>4, <3>5, NothingToDo DEF Queued
  <2>q. QED BY <2>1, <2>2
<1>3. ASSUME NEW type \in Modes, NEW limit \in Limits, Reconfigure(type, limit) PROVE LookedAfter'
  <2>1. CASE type = "LOCAL_CLI"
    BY <1>0, <1>3, <2>1, AskedFor DEF Reconfigure, Configure, LookedAfter
  <2>2. CASE type # "LOCAL_CLI"
    <3>1. connection'.type # "LOCAL_CLI"
      BY <1>3, <2>2 DEF Reconfigure, Configure, SaveConnection
    <3>q. QED BY <3>1 DEF LookedAfter
  <2>q. QED BY <2>1, <2>2
<1>4. ASSUME DispatchStep, UNCHANGED <<connection, req>> PROVE LookedAfter'
  BY <1>0, <1>4, PassBegins, DevicesLookedAfter, CountLookedAfter, ClaimLookedAfter,
     AssignLookedAfter DEF DispatchStep
<1>5. ASSUME SessionStep, UNCHANGED <<connection, req>> PROVE LookedAfter'
  BY <1>0, <1>5, SessionLookedAfter DEF SessionStep, Serves
<1>6. ASSUME ReportStep, UNCHANGED <<connection, req>> PROVE LookedAfter'
  BY <1>0, <1>6, ReportLookedAfter
<1>7. ASSUME NEW d \in Devices, RemoveDevice(d), UNCHANGED <<connection, req>> PROVE LookedAfter'
  <2>1. /\ UNCHANGED <<pass, chain, overlooked>>
        /\ row' = [t \in Tasks |-> IF row[t].device = d THEN DeviceForgotten(row[t]) ELSE row[t]]
        /\ device' = [device EXCEPT ![d] = "GONE"]
    BY <1>7 DEF RemoveDevice, dispatchVars
  <2>2. \A e \in Devices : device'[e] = "ONLINE" => e # d /\ device[e] = "ONLINE"
    BY <1>0, <2>1 DEF TypeOK, GatewayTypeOK
  <2>3. \A t \in Tasks : row'[t].status = row[t].status /\ (row[t].device # d => row'[t] = row[t])
    BY <1>0, <2>1 DEF DeviceForgotten, Row
  <2>4. \A e \in Devices : e # d => Occupied(e) \subseteq Occupied(e)'
    BY <2>3 DEF Occupied
  <2>5. \A t \in Tasks : Writing(t) => Writing(t)'
    BY <1>7, <2>1 DEF Writing, AwaitsPass
  <2>q. QED BY <1>0, <1>7, <2>1, <2>2, <2>3, <2>4, <2>5, NothingToDo DEF Queued
<1>8. ASSUME UNCHANGED vars PROVE LookedAfter'
  <2>1. UNCHANGED <<connection, pass, req, device, chain, overlooked, row>>
    BY <1>8 DEF vars, gatewayVars, tableVars
  <2>2. \A t \in Tasks : Writing(t) => Writing(t)'
    BY <2>1 DEF Writing, AwaitsPass
  <2>q. QED BY <1>0, <2>1, <2>2, NothingToDo DEF Occupied, Queued
<1>q. QED BY <1>1, <1>2, <1>3, <1>4, <1>5, <1>6, <1>7, <1>8 DEF Next

(* Once nothing is in flight, no device that is online has room while a    *)
(* task waits, except for what is overlooked: every other step that makes  *)
(* work or room asks for a pass, and no pass ends too early                *)
(* (realtime.gateway.ts:197-262).                                          *)
THEOREM NobodyIdles == Spec => []WorkConserving
<1>1. Init => LookedAfter
  BY DEF Init, TableInit, NoRow, LookedAfter, UpToDate, KnowsLimit, KnowsDevices, AllServed, Queued,
     GatewayInit, NoRun, Begun, Rounds
<1>2. LookedAfter => WorkConserving
  <2> SUFFICES ASSUME LookedAfter, Quiet, connection.type = "LOCAL_CLI", ~overlooked,
                      NEW d \in Devices, device[d] = "ONLINE", HasSlot(d, connection.limit),
                      NEW t \in Queued
               PROVE  FALSE
    BY DEF WorkConserving, IdleDevice
  <2>1. ~PassComes
    BY DEF Quiet, PassComes
  <2>2. Served(d, t)
    BY <2>1 DEF LookedAfter, UpToDate, AllServed
  <2>3. ~Writing(t)
    BY DEF Quiet, Writing, Queued
  <2>4. \A p \in Passes : ~WillVisit(pass[p], d)
    BY DEF Quiet, WillVisit
  <2>q. QED BY <2>2, <2>3, <2>4 DEF Served
<1>q. QED BY <1>1, <1>2, LookedAfterStep, Invariance, PTL DEF Spec

-----------------------------------------------------------------------------
(* Local mode: the agents and the sockets.                                 *)

WiresTypeOK ==
    /\ link \in [Devices -> Sessions \cup {NoLink}]
    /\ down \in [Devices -> Seq(Orders)]
    /\ up   \in [Devices -> Seq(Tells)]

AssignsTask == \A p \in Passes : pass[p].pc = "assign" => pass[p].task \in Tasks

LocalInv ==
    /\ Inv
    /\ AgentTypeOK
    /\ AbortFindsItsRun
    /\ WiresTypeOK
    /\ AssignsTask

(* Local mode starts with nothing assigned, running or under way.          *)
LEMMA LocalInvInit == LocalInit => LocalInv
<1> SUFFICES ASSUME LocalInit PROVE LocalInv
  OBVIOUS
<1>1. Inv
  BY InvInit DEF LocalInit
<1>2. AgentTypeOK /\ AbortFindsItsRun
  BY NoChildAssumption DEF LocalInit, AgentInit, AgentTypeOK, AbortFindsItsRun, Run
<1>3. WiresTypeOK
  BY DEF LocalInit, WiresTypeOK
<1>4. AssignsTask
  BY DEF LocalInit, Init, GatewayInit, AssignsTask, NoRun
<1>q. QED BY <1>1, <1>2, <1>3, <1>4 DEF LocalInv

-----------------------------------------------------------------------------
(* Every step of the whole is a step of the server, or none of its         *)
(* business.                                                               *)
LEMMA LocalStepImplements ==
    ASSUME WiresTypeOK, [LocalNext]_localVars
    PROVE  [Next]_vars
<1>1. ASSUME NEW r \in Requests, NEW op \in Ops, NEW t \in Tasks, LoadAndAbort(r, op, t)
      PROVE  RequestStep
  BY <1>1 DEF LoadAndAbort, RequestStep
<1>2. ASSUME OtherRequest PROVE RequestStep
  BY <1>2 DEF OtherRequest, RequestStep
<1>3. ASSUME NEW t \in Tasks, Delete(t) \/ Apply(t) PROVE Next
  BY <1>3 DEF Delete, Apply, ReportStep, Next
<1>4. ASSUME SaveSettings PROVE Next
  BY <1>4 DEF SaveSettings, Next
<1>5. ASSUME NEW p \in Passes, Assign(p) \/ OtherPassStep(p) PROVE Next
  BY <1>5 DEF Assign, OtherPassStep, DispatchStep, Next
<1>6. ASSUME NEW s \in Sessions, SessionHandler(s) \/ Notice(s) PROVE Next
  BY <1>6 DEF SessionHandler, Notice, SessionStep, Next
<1>7. ASSUME NEW d \in Devices, Open(d) PROVE Next
  BY <1>7 DEF Open, SessionStep, Next
<1>8. ASSUME NEW d \in Devices, Upload(d) PROVE Next \/ UNCHANGED vars
  <2> DEFINE s == link[d]
             m == Head(up[d])
  <2>1. s \in Sessions
    BY <1>8 DEF Upload, WiresTypeOK
  <2>2. up[d] \in Seq(Tells) /\ up[d] # <<>>
    BY <1>8 DEF Upload, WiresTypeOK
  <2>3. m \in Tells
    BY <2>2
  <2>4. m.task \in Tasks /\ m.status \in Reports
    BY <2>3 DEF Tells
  <2>5. (Receive(s, m.task, m.status) /\ UNCHANGED <<connection, req>>) \/ UNCHANGED vars
    BY <1>8 DEF Upload
  <2> HIDE DEF s, m
  <2>q. QED BY <2>1, <2>4, <2>5 DEF ReportStep, Next
<1>9. ASSUME NEW d \in Devices, Deliver(d) \/ Lose(d) \/ Crash(d) PROVE UNCHANGED vars
  BY <1>9 DEF Deliver, Lose, Crash, Fault
<1>10. ASSUME NEW c \in Runs, Fire(c) \/ \E outcome \in Ends : Close(c, outcome)
       PROVE  UNCHANGED vars
  BY <1>10 DEF Fire, Close
<1>11. ASSUME UNCHANGED localVars PROVE UNCHANGED vars
  BY <1>11 DEF localVars
<1>12. RequestStep => Next
  BY DEF Next
<1>13. ASSUME NEW s \in Sessions, Refuse(s) PROVE Next
  BY <1>13 DEF Refuse, SessionStep, Next
<1>14. ASSUME NEW d \in Devices, DeleteDevice(d) PROVE Next
  BY <1>14 DEF DeleteDevice, Next
<1>q. QED
  BY <1>1, <1>2, <1>3, <1>4, <1>5, <1>6, <1>7, <1>8, <1>9, <1>10, <1>11, <1>12, <1>13, <1>14
  DEF LocalNext, ServerStep, AgentStep

-----------------------------------------------------------------------------
(* Only a claim brings a pass to "assign", and it brings a task along.     *)
LEMMA AssignsTaskStep ==
    ASSUME DispatcherTypeOK, AssignsTask, PassStep
    PROVE  AssignsTask'
<1> SUFFICES ASSUME NEW p \in Passes, pass'[p].pc = "assign"
             PROVE  pass'[p].task \in Tasks
  BY DEF AssignsTask
<1>0. pass[p] \in Pass /\ (pass[p].pc = "assign" => pass[p].task \in Tasks)
  BY DEF DispatcherTypeOK, AssignsTask
<1>1. ASSUME NEW q \in Passes, NEW t, Enqueues(q, t) PROVE pass'[p] = pass[p]
  BY <1>1, BlankTyped DEF Enqueues, DispatcherTypeOK, NoRun
<1>2. ASSUME NEW q \in Passes, Settle(q)
      PROVE  pass'[p].pc = pass[p].pc /\ pass'[p].task = pass[p].task
  BY <1>0, <1>2 DEF Settle, NoRun, Pass
<1>3. ASSUME NEW q \in Passes, Advances(q) PROVE pass'[p].task \in Tasks
  <2>1. PICK new \in Pass : /\ new.pc = "assign" => new.task \in Tasks
                            /\ pass' = [pass EXCEPT ![q] = new]
    BY <1>3 DEF Advances
  <2>2. pass'[p] = IF p = q THEN new ELSE pass[p]
    BY <2>1 DEF DispatcherTypeOK
  <2>q. QED BY <1>0, <2>1, <2>2
<1>4. ASSUME UNCHANGED dispatchVars PROVE pass'[p] = pass[p]
  BY <1>4 DEF dispatchVars
<1>q. QED BY <1>0, <1>1, <1>2, <1>3, <1>4 DEF PassStep

-----------------------------------------------------------------------------
(* The agents: the ways in which a step moves them.                        *)
AgentMoves ==
    \/ \E c \in Runs, d \in Hosts, t \in Jobs : Assigned(c, d, t)
    \/ \E d \in Hosts, t \in Jobs, reason \in {"pause", "cancel"} : Aborted(d, t, reason)
    \/ \E c \in Runs, outcome \in Outcomes : Closed(c, outcome)
    \/ \E c \in Runs : Fired(c)
    \/ \E d \in Hosts : Restarted(d)
    \/ UNCHANGED agentVars

(* A run just started is a run, of its task and on its device.             *)
LEMMA SpawnedTyped ==
    ASSUME NEW d \in Hosts, NEW t \in Jobs
    PROVE  /\ Spawned(d, t) \in Run
           /\ Spawned(d, t).st = "running" /\ Spawned(d, t).host = d /\ Spawned(d, t).task = t
  BY DEF Spawned, Run

(* A run that is over is free.                                             *)
LEMMA OverTyped == Over.st = "free"
  BY DEF Over

(* The agent's maps name runs of their tasks that are still going on: every*)
(* change of a run changes its entry with it (activeRuns, pendingRetries). *)
LEMMA AgentStepSound ==
    ASSUME AgentTypeOK, AbortFindsItsRun, AgentMoves
    PROVE  AgentTypeOK' /\ AbortFindsItsRun'
<1> USE NoChildAssumption
<1>0. /\ run \in [Runs -> Run \cup {Over}]
      /\ active \in [Hosts -> [Jobs -> Runs \cup {NoChild}]]
      /\ retry \in [Hosts -> [Jobs -> Runs \cup {NoChild}]]
      /\ \A c \in Runs : run[c].st # "free" => run[c] \in Run
  BY OverTyped DEF AgentTypeOK
<1>1. ASSUME NEW c \in Runs, NEW d \in Hosts, NEW t \in Jobs, Assigned(c, d, t)
      PROVE  AgentTypeOK' /\ AbortFindsItsRun'
  <2>1. /\ run' = [run EXCEPT ![c] = Spawned(d, t)] /\ run[c].st = "free"
        /\ active' = [active EXCEPT ![d][t] = c] /\ retry' = retry
    BY <1>1, OverTyped DEF Assigned, Free
  <2>2. AgentTypeOK'
    BY <1>0, <2>1, SpawnedTyped DEF AgentTypeOK
  <2>3. AbortFindsItsRun'
    BY <1>0, <2>1, SpawnedTyped DEF AbortFindsItsRun, Running, Timed
  <2>q. QED BY <2>2, <2>3
<1>2. ASSUME NEW d \in Hosts, NEW t \in Jobs, NEW reason \in {"pause", "cancel"},
             Aborted(d, t, reason)
      PROVE  AgentTypeOK' /\ AbortFindsItsRun'
  <2>1. /\ active' = active /\ retry' = [retry EXCEPT ![d][t] = NoChild]
        /\ run' = [c \in Runs |-> IF c = active[d][t] THEN [run[c] EXCEPT !.abort = reason]
                                  ELSE IF c = retry[d][t] THEN Over ELSE run[c]]
    BY <1>2 DEF Aborted, Unentered
  <2>2. ASSUME NEW c \in Runs, c = active[d][t]
        PROVE  /\ run'[c] \in Run /\ run'[c].st = "running" /\ run[c].st = "running"
               /\ run'[c].host = run[c].host /\ run'[c].task = run[c].task
    <3>1. run[c].st = "running" /\ run[c] \in Run
      BY <1>0, <2>2 DEF AbortFindsItsRun, Running
    <3>q. QED BY <2>1, <2>2, <3>1 DEF Run
  <2>3. \A c \in Runs : c # active[d][t] => run'[c] = IF c = retry[d][t] THEN Over ELSE run[c]
    BY <2>1
  <2>4. AgentTypeOK'
    <3>1. \A c \in Runs : run'[c] \in Run \cup {Over}
      BY <1>0, <2>2, <2>3
    <3>q. QED BY <1>0, <2>1, <3>1 DEF AgentTypeOK
  <2>5. AbortFindsItsRun'
    <3> SUFFICES ASSUME NEW e \in Hosts, NEW u \in Jobs, NEW c \in Runs
                 PROVE  /\ active'[e][u] = c => Running(c)' /\ run'[c].host = e /\ run'[c].task = u
                        /\ retry'[e][u] = c => Timed(c)' /\ run'[c].host = e /\ run'[c].task = u
      BY DEF AbortFindsItsRun
    <3>1. ASSUME active'[e][u] = c
          PROVE  Running(c)' /\ run'[c].host = e /\ run'[c].task = u
      <4>1. run[c].st = "running" /\ run[c].host = e /\ run[c].task = u
        BY <2>1, <3>1 DEF AbortFindsItsRun, Running
      <4>2. c # retry[d][t]
        BY <4>1 DEF AbortFindsItsRun, Timed
      <4>q. QED BY <2>2, <2>3, <4>1, <4>2 DEF Running
    <3>2. ASSUME retry'[e][u] = c
          PROVE  Timed(c)' /\ run'[c].host = e /\ run'[c].task = u
      <4>1. retry[e][u] = c /\ ~(e = d /\ u = t)
        BY <1>0, <2>1, <3>2
      <4>2. run[c].st = "waiting" /\ run[c].host = e /\ run[c].task = u
        BY <4>1 DEF AbortFindsItsRun, Timed
      <4>3. c # active[d][t]
        BY <4>2 DEF AbortFindsItsRun, Running
      <4>4. c # retry[d][t]
        BY <4>1, <4>2 DEF AbortFindsItsRun
      <4>q. QED BY <2>3, <4>2, <4>3, <4>4 DEF Timed
    <3>q. QED BY <3>1, <3>2
  <2>q. QED BY <2>4, <2>5
<1>3. ASSUME NEW c \in Runs, NEW outcome \in Outcomes, Closed(c, outcome)
      PROVE  AgentTypeOK' /\ AbortFindsItsRun'
  <2> DEFINE d == run[c].host
             t == run[c].task
             new == Ended(c, outcome)
  <2>1. /\ run[c].st = "running" /\ run[c] \in Run /\ d \in Hosts /\ t \in Jobs
    BY <1>0, <1>3 DEF Closed, Running, Run
  <2>2. /\ run' = [run EXCEPT ![c] = new]
        /\ active' = [active EXCEPT ![d][t] = NoChild]
        /\ retry' = IF new = Over THEN retry ELSE [retry EXCEPT ![d][t] = c]
    BY <1>3 DEF Closed, Unentered
  <2>3. new = Over \/ (new \in Run /\ new.st = "waiting" /\ new.host = d /\ new.task = t)
    BY <2>1 DEF Ended, Run
  <2> HIDE DEF new
  <2>4. AgentTypeOK'
    BY <1>0, <2>1, <2>2, <2>3 DEF AgentTypeOK
  <2>5. AbortFindsItsRun'
    BY <1>0, <2>1, <2>2, <2>3 DEF AbortFindsItsRun, Running, Timed
  <2>q. QED BY <2>4, <2>5
<1>4. ASSUME NEW c \in Runs, Fired(c)
      PROVE  AgentTypeOK' /\ AbortFindsItsRun'
  <2> DEFINE d == run[c].host
             t == run[c].task
  <2>1. run[c].st = "waiting" /\ run[c] \in Run /\ d \in Hosts /\ t \in Jobs
    BY <1>0, <1>4 DEF Fired, Timed, Run
  <2>2. /\ run' = [run EXCEPT ![c] = Spawned(d, t)]
        /\ active' = [active EXCEPT ![d][t] = c]
        /\ retry' = [retry EXCEPT ![d][t] = NoChild]
    BY <1>4 DEF Fired, Unentered
  <2>3. AgentTypeOK'
    BY <1>0, <2>1, <2>2, SpawnedTyped DEF AgentTypeOK
  <2>4. AbortFindsItsRun'
    BY <1>0, <2>1, <2>2, SpawnedTyped DEF AbortFindsItsRun, Running, Timed
  <2>q. QED BY <2>3, <2>4
<1>5. ASSUME NEW d \in Hosts, Restarted(d)
      PROVE  AgentTypeOK' /\ AbortFindsItsRun'
  <2>1. /\ run' = [c \in Runs |-> IF run[c].st # "free" /\ run[c].host = d THEN Over ELSE run[c]]
        /\ active' = [active EXCEPT ![d] = [t \in Jobs |-> NoChild]]
        /\ retry'  = [retry EXCEPT ![d] = [t \in Jobs |-> NoChild]]
    BY <1>5 DEF Restarted
  <2>2. AgentTypeOK'
    BY <1>0, <2>1 DEF AgentTypeOK
  <2>3. AbortFindsItsRun'
    BY <1>0, <2>1 DEF AbortFindsItsRun, Running, Timed
  <2>q. QED BY <2>2, <2>3
<1>6. ASSUME UNCHANGED agentVars PROVE AgentTypeOK' /\ AbortFindsItsRun'
  BY <1>6 DEF agentVars, AgentTypeOK, AbortFindsItsRun, Running, Timed
<1>q. QED BY <1>1, <1>2, <1>3, <1>4, <1>5, <1>6 DEF AgentMoves

(* Every step of local mode is a step of Agent or leaves the agents alone. *)
LEMMA AgentAnatomy ==
    ASSUME WiresTypeOK, [LocalNext]_localVars
    PROVE  AgentMoves
<1> USE AgentsAssumption
<1>1. ASSUME ServerStep PROVE UNCHANGED agentVars
  BY <1>1 DEF ServerStep, LoadAndAbort, OtherRequest, Delete, Apply, SaveSettings, Assign,
     OtherPassStep, SessionHandler, Notice, Refuse, DeleteDevice
<1>2. ASSUME NEW d \in Devices, Deliver(d) PROVE AgentMoves
  <2> DEFINE m == Head(down[d])
  <2>1. m \in Orders
    BY <1>2 DEF Deliver, WiresTypeOK
  <2>2. m.task \in Jobs /\ m.order \in {"assign", "pause", "cancel"}
    BY <2>1 DEF Orders
  <2>3. IF m.order = "assign" THEN Start(d, m.task) ELSE Aborted(d, m.task, m.order)
    BY <1>2 DEF Deliver
  <2> HIDE DEF m
  <2>4. CASE m.order = "assign"
    <3>1. Start(d, m.task)
      BY <2>3, <2>4
    <3>2. (\E c \in Runs : Assigned(c, d, m.task)) \/ UNCHANGED agentVars
      BY <3>1 DEF Start
    <3>q. QED BY <2>2, <3>2 DEF AgentMoves
  <2>5. CASE m.order # "assign"
    BY <2>2, <2>3, <2>5 DEF AgentMoves
  <2>q. QED BY <2>4, <2>5
<1>3. ASSUME NEW d \in Devices, Open(d) \/ Upload(d) \/ Lose(d) PROVE UNCHANGED agentVars
  BY <1>3 DEF Open, Upload, Lose
<1>4. ASSUME NEW d \in Devices, Crash(d) PROVE AgentMoves
  BY <1>4 DEF Crash, AgentMoves
<1>5. ASSUME NEW c \in Runs, Fire(c) \/ \E outcome \in Ends : Close(c, outcome)
      PROVE  AgentMoves
  BY <1>5, EndsAssumption DEF Fire, Close, AgentMoves
<1>6. ASSUME UNCHANGED localVars PROVE UNCHANGED agentVars
  BY <1>6 DEF localVars
<1>7. UNCHANGED agentVars => AgentMoves
  BY DEF AgentMoves
<1>q. QED BY <1>1, <1>2, <1>3, <1>4, <1>5, <1>6, <1>7 DEF LocalNext, AgentStep

-----------------------------------------------------------------------------
(* The sockets.                                                            *)
LEMMA SendTyped ==
    ASSUME WiresTypeOK, NEW d, NEW order \in {"assign", "pause", "cancel"}, NEW t \in Tasks,
           Send(d, order, t)
    PROVE  down' \in [Devices -> Seq(Orders)]
<1>1. [order |-> order, task |-> t] \in Orders
  BY DEF Orders
<1>2. down \in [Devices -> Seq(Orders)]
  BY DEF WiresTypeOK
<1> DEFINE m == [order |-> order, task |-> t]
<1>3. down' = down \/ down' = [down EXCEPT ![d] = Append(@, m)]
  BY DEF Send
<1> HIDE DEF m
<1>4. ASSUME d \in Devices PROVE Append(down[d], m) \in Seq(Orders)
  BY <1>1, <1>2, <1>4 DEF m
<1>q. QED BY <1>2, <1>3, <1>4

(* What an agent sends about a task is a report.                           *)
LEMMA EmitTyped ==
    ASSUME WiresTypeOK, NEW d \in Devices, NEW t \in Tasks, NEW statuses \in Seq(Reports),
           Emit(d, t, statuses)
    PROVE  up' \in [Devices -> Seq(Tells)]
<1> DEFINE told == [i \in DOMAIN statuses |-> [task |-> t, status |-> statuses[i]]]
<1>1. told \in Seq(Tells)
  <2>1. \A i \in 1..Len(statuses) : [task |-> t, status |-> statuses[i]] \in Tells
    BY DEF Tells
  <2>q. QED BY <2>1
<1>2. up' = [up EXCEPT ![d] = @ \o told]
  BY DEF Emit
<1> HIDE DEF told
<1>q. QED BY <1>1, <1>2 DEF WiresTypeOK

(* The messages a run sends are reports.                                   *)
LEMMA WordsTyped ==
    /\ Starting \in Seq(Reports) /\ Unstartable \in Seq(Reports)
    /\ \A c \in Runs, outcome \in Outcomes : run[c] \in Run => Report(c, outcome) \in Seq(Reports)
<1>1. Starting \in Seq(Reports) /\ Unstartable \in Seq(Reports)
  BY DEF Starting, Unstartable, Reports
<1>2. ASSUME NEW c \in Runs, NEW outcome \in Outcomes, run[c] \in Run
      PROVE  Report(c, outcome) \in Seq(Reports)
  <2>1. run[c].abort \in {"no", "pause", "cancel"} /\ outcome \in Reports
    BY <1>2 DEF Run, Outcomes, Reports
  <2>2. CASE run[c].abort = "no"
    <3>1. Report(c, outcome) = <<outcome>>
      BY <2>2 DEF Report
    <3>q. QED BY <2>1, <3>1
  <2>3. CASE run[c].abort = "pause"
    <3>1. Report(c, outcome) = <<"PAUSED">>
      BY <2>3 DEF Report
    <3>q. QED BY <3>1 DEF Reports
  <2>4. CASE run[c].abort = "cancel"
    <3>1. Report(c, outcome) = <<>>
      BY <2>4 DEF Report
    <3>q. QED BY <3>1
  <2>q. QED BY <2>1, <2>2, <2>3, <2>4
<1>q. QED BY <1>1, <1>2

(* The message queues keep their types: assignments come from the          *)
(* dispatcher, aborts from requests, reports from runs.                    *)
LEMMA WiresStep ==
    ASSUME TypeOK, AgentTypeOK, AbortFindsItsRun, WiresTypeOK, AssignsTask,
           [LocalNext]_localVars
    PROVE  WiresTypeOK'
<1> USE AgentsAssumption
<1>0. /\ link \in [Devices -> Sessions \cup {NoLink}]
      /\ down \in [Devices -> Seq(Orders)]
      /\ up   \in [Devices -> Seq(Tells)]
      /\ \A c \in Runs : run[c].st # "free" => run[c] \in Run
  BY OverTyped DEF WiresTypeOK, AgentTypeOK
<1>1. ASSUME NEW r \in Requests, NEW op \in Ops, NEW t \in Tasks, LoadAndAbort(r, op, t)
      PROVE  WiresTypeOK'
  <2>1. UNCHANGED <<link, up>> /\ (UNCHANGED down \/ (SendsAbort(op, row[t]) /\ Send(row[t].device, op, t)))
    BY <1>1 DEF LoadAndAbort
  <2>2. SendsAbort(op, row[t]) => op \in {"assign", "pause", "cancel"}
    BY DEF SendsAbort
  <2>3. down' \in [Devices -> Seq(Orders)]
    BY <1>0, <2>1, <2>2, SendTyped
  <2>q. QED BY <1>0, <2>1, <2>3 DEF WiresTypeOK
<1>2. ASSUME NEW p \in Passes, Assign(p) PROVE WiresTypeOK'
  <2>1. pass[p].task \in Tasks /\ Send(pass[p].dev, "assign", pass[p].task) /\ UNCHANGED <<link, up>>
    BY <1>2 DEF Assign, SendAssign, AssignsTask
  <2>2. down' \in [Devices -> Seq(Orders)]
    BY <2>1, SendTyped
  <2>q. QED BY <1>0, <2>1, <2>2 DEF WiresTypeOK
<1>3. ASSUME \/ OtherRequest \/ SaveSettings
             \/ \E t \in Tasks : Delete(t) \/ Apply(t)
             \/ \E p \in Passes : OtherPassStep(p)
             \/ \E s \in Sessions : SessionHandler(s) \/ Notice(s)
             \/ \E d \in Devices : DeleteDevice(d)
      PROVE  WiresTypeOK'
  <2>1. UNCHANGED wires
    BY <1>3 DEF OtherRequest, SaveSettings, Delete, Apply, OtherPassStep, SessionHandler, Notice, DeleteDevice
  <2>q. QED BY <2>1 DEF wires, WiresTypeOK
<1>4. ASSUME NEW d \in Devices, Open(d) PROVE WiresTypeOK'
  BY <1>0, <1>4 DEF Open, WiresTypeOK
<1>5. ASSUME NEW d \in Devices, Upload(d) PROVE WiresTypeOK'
  <2>1. up' = [up EXCEPT ![d] = Tail(@)] /\ up[d] # <<>> /\ UNCHANGED <<link, down>>
    BY <1>5 DEF Upload
  <2>2. Tail(up[d]) \in Seq(Tells)
    BY <1>0, <2>1, TailTyped
  <2>q. QED BY <1>0, <2>1, <2>2 DEF WiresTypeOK
<1>6. ASSUME NEW d \in Devices, Deliver(d) PROVE WiresTypeOK'
  <2> DEFINE m == Head(down[d])
  <2>1. down' = [down EXCEPT ![d] = Tail(@)] /\ down[d] # <<>> /\ UNCHANGED link
    BY <1>6 DEF Deliver
  <2>2. Tail(down[d]) \in Seq(Orders) /\ m \in Orders
    BY <1>0, <2>1, TailTyped
  <2>3. m.task \in Tasks
    BY <2>2 DEF Orders
  <2>4. Start(d, m.task) \/ UNCHANGED up
    BY <1>6 DEF Deliver
  <2> HIDE DEF m
  <2>5. Emit(d, m.task, Starting) \/ Emit(d, m.task, Unstartable) \/ UNCHANGED up
    BY <2>4 DEF Start
  <2>6. up' \in [Devices -> Seq(Tells)]
    BY <1>0, <2>3, <2>5, WordsTyped, EmitTyped
  <2>q. QED BY <1>0, <2>1, <2>2, <2>6 DEF WiresTypeOK
<1>7. ASSUME NEW d \in Devices, Lose(d) \/ Crash(d) PROVE WiresTypeOK'
  <2>1. Cut(d)
    BY <1>7 DEF Lose, Crash, Fault
  <2>q. QED BY <1>0, <2>1 DEF Cut, WiresTypeOK
<1>8. ASSUME NEW c \in Runs, NEW outcome \in Ends, Close(c, outcome) PROVE WiresTypeOK'
  <2>1. run[c] \in Run /\ UNCHANGED <<link, down>>
        /\ Emit(run[c].host, run[c].task, Report(c, outcome))
    BY <1>0, <1>8 DEF Close, Closed, Running
  <2>2. Report(c, outcome) \in Seq(Reports) /\ run[c].host \in Devices /\ run[c].task \in Tasks
    BY <2>1, WordsTyped, EndsAssumption DEF Run
  <2>3. up' \in [Devices -> Seq(Tells)]
    BY <2>1, <2>2, EmitTyped
  <2>q. QED BY <1>0, <2>1, <2>3 DEF WiresTypeOK
<1>9. ASSUME NEW c \in Runs, Fire(c) PROVE WiresTypeOK'
  <2>1. run[c] \in Run /\ UNCHANGED <<link, down>>
        /\ Emit(run[c].host, run[c].task, Starting)
    BY <1>0, <1>9 DEF Fire, Fired, Timed
  <2>2. up' \in [Devices -> Seq(Tells)]
    BY <2>1, WordsTyped, EmitTyped DEF Run
  <2>q. QED BY <1>0, <2>1, <2>2 DEF WiresTypeOK
<1>10. ASSUME UNCHANGED localVars PROVE WiresTypeOK'
  BY <1>10 DEF localVars, wires, WiresTypeOK
<1>11. ASSUME NEW s \in Sessions, Refuse(s) PROVE WiresTypeOK'
  <2>1. UNCHANGED wires \/ \E d : Cut(d)
    BY <1>11 DEF Refuse
  <2>2. ASSUME NEW d, Cut(d) PROVE WiresTypeOK'
    <3>1. NoLink \in Sessions \cup {NoLink} /\ <<>> \in Seq(Orders) /\ <<>> \in Seq(Tells)
      OBVIOUS
    <3>2. link' \in [Devices -> Sessions \cup {NoLink}]
      BY <1>0, <2>2, <3>1 DEF Cut
    <3>3. down' \in [Devices -> Seq(Orders)] /\ up' \in [Devices -> Seq(Tells)]
      BY <1>0, <2>2, <3>1 DEF Cut
    <3>q. QED BY <3>2, <3>3 DEF WiresTypeOK
  <2>3. UNCHANGED wires => WiresTypeOK'
    BY DEF wires, WiresTypeOK
  <2>q. QED BY <2>1, <2>2, <2>3
<1>q. QED
  BY <1>1, <1>2, <1>3, <1>4, <1>5, <1>6, <1>7, <1>8, <1>9, <1>10, <1>11
  DEF LocalNext, ServerStep, AgentStep

-----------------------------------------------------------------------------
(* Every step preserves the invariant of local mode.                       *)
LEMMA LocalInvStep == LocalInv /\ [LocalNext]_localVars => LocalInv'
<1> SUFFICES ASSUME LocalInv, [LocalNext]_localVars PROVE LocalInv'
  OBVIOUS
<1>1. /\ Inv /\ AgentTypeOK /\ AbortFindsItsRun /\ WiresTypeOK /\ AssignsTask
      /\ TypeOK /\ DispatcherTypeOK
  BY DEF LocalInv, Inv, TypeOK, GatewayTypeOK, DispatcherTypeOK
<1>2. [Next]_vars
  BY <1>1, LocalStepImplements
<1>3. Inv'
  BY <1>1, <1>2, InvStep
<1>4. AssignsTask'
  BY <1>1, <1>2, PassAnatomy, AssignsTaskStep
<1>5. AgentTypeOK' /\ AbortFindsItsRun'
  BY <1>1, AgentAnatomy, AgentStepSound
<1>6. WiresTypeOK'
  BY <1>1, WiresStep
<1>q. QED BY <1>3, <1>4, <1>5, <1>6 DEF LocalInv

(* The inductive invariant of the whole of LOCAL_CLI mode: the server's, the*)
(* agents' tables, and what is under way between them.                     *)
THEOREM LocalInvariance == LocalSpec => []LocalInv
  BY LocalInvInit, LocalInvStep, PTL DEF LocalSpec

(* The mode as a whole implements the server with devices that may report  *)
(* anything.                                                               *)
THEOREM ImplementsServer == LocalSpec => Spec
<1>1. LocalInv /\ [LocalNext]_localVars => [Next]_vars
  BY LocalStepImplements DEF LocalInv
<1>2. LocalInit => Init
  BY DEF LocalInit
<1>q. QED BY <1>1, <1>2, LocalInvariance, PTL DEF LocalSpec, Spec

(* task:abort never finds a run that is over, or one of another task.      *)
THEOREM AbortSound == LocalSpec => []AbortFindsItsRun
  BY LocalInvariance, PTL DEF LocalInv

-----------------------------------------------------------------------------
(* What the agents do needs more than the types: the rest is about the     *)
(* calm mode, in which nobody pauses or removes a device, the user does    *)
(* one thing at a time, and a connection breaks with its agent only, in an *)
(* orderly world.                                                          *)
(* Without any one of these the theorems at the end are false: a retry     *)
(* checked before another has been written starts a task twice, a report   *)
(* in the wrong order undoes a pause, an agent that is cut off goes on     *)
(* with what the server gives to another, and so does one whose device     *)
(* comes back before its disconnect has been dealt with; a device removed  *)
(* at work leaves a row that no disconnect puts back, and a process whose  *)
(* row is nobody's (devices.service.ts:52-59).                             *)
Tidy == (Faults # {} => Orderly) /\ Removable = {}
Calm == OneRequest /\ "pause" \notin Asked /\ "lose" \notin Faults /\ Tidy

-----------------------------------------------------------------------------
(* What a queue of orders says of task t.                                  *)
AssignOf(m, t) == m.order = "assign" /\ m.task = t
AbortOf(m, t)  == m.order # "assign" /\ m.task = t

AssignsIn(s, t)    == \E i \in 1..Len(s) : AssignOf(s[i], t)
AbortsIn(s, t)     == \E i \in 1..Len(s) : AbortOf(s[i], t)
AssignsOnce(s, t)  == \A i, j \in 1..Len(s) : AssignOf(s[i], t) /\ AssignOf(s[j], t) => i = j

(* What an order at the end of a queue adds.                               *)
LEMMA OrderSent ==
    ASSUME NEW s \in Seq(Orders), NEW m \in Orders, NEW t
    PROVE  /\ AssignsIn(Append(s, m), t) <=> AssignsIn(s, t) \/ AssignOf(m, t)
           /\ AbortsIn(Append(s, m), t) <=> AbortsIn(s, t) \/ AbortOf(m, t)
           /\ AssignsOnce(s, t) /\ ~(AssignsIn(s, t) /\ AssignOf(m, t))
                => AssignsOnce(Append(s, m), t)
<1> DEFINE w == Append(s, m)
<1>1. /\ Len(s) \in Nat /\ Len(w) = Len(s) + 1 /\ w[Len(s) + 1] = m
      /\ \A i \in 1..Len(s) : w[i] = s[i]
  OBVIOUS
<1> HIDE DEF w
<1>2. \A i \in 1..Len(w) : i \in 1..Len(s) \/ i = Len(s) + 1
  BY <1>1
<1>3. 1..Len(s) \subseteq 1..Len(w) /\ Len(s) + 1 \in 1..Len(w)
  BY <1>1
<1>4. AssignsIn(w, t) <=> AssignsIn(s, t) \/ AssignOf(m, t)
  BY <1>1, <1>2, <1>3, Zenon DEF AssignsIn
<1>5. AbortsIn(w, t) <=> AbortsIn(s, t) \/ AbortOf(m, t)
  BY <1>1, <1>2, <1>3, Zenon DEF AbortsIn
<1>6. AssignsOnce(s, t) /\ ~(AssignsIn(s, t) /\ AssignOf(m, t)) => AssignsOnce(w, t)
  BY <1>1, <1>2, Zenon DEF AssignsOnce, AssignsIn
<1>q. QED BY <1>4, <1>5, <1>6 DEF w

(* What the order at the head of a queue was.                              *)
LEMMA OrderTaken ==
    ASSUME NEW s \in Seq(Orders), s # <<>>, NEW t
    PROVE  /\ AssignsIn(s, t) <=> AssignsIn(Tail(s), t) \/ AssignOf(Head(s), t)
           /\ AbortsIn(s, t) <=> AbortsIn(Tail(s), t) \/ AbortOf(Head(s), t)
           /\ AssignsOnce(s, t) => /\ AssignsOnce(Tail(s), t)
                                   /\ AssignOf(Head(s), t) => ~AssignsIn(Tail(s), t)
<1> DEFINE w == Tail(s)
           m == Head(s)
<1>1. /\ Len(s) \in Nat /\ Len(s) >= 1 /\ Len(w) \in Nat /\ Len(s) = Len(w) + 1 /\ m = s[1]
      /\ \A i \in 1..Len(w) : w[i] = s[i + 1]
  OBVIOUS
<1> HIDE DEF w, m
<1>2. /\ \A i \in 1..Len(s) : i = 1 \/ (i - 1 \in 1..Len(w) /\ w[i - 1] = s[i])
      /\ \A i \in 1..Len(w) : i + 1 \in 1..Len(s) /\ i + 1 # 1
      /\ 1 \in 1..Len(s)
      /\ \A i, j \in 1..Len(w) : i + 1 = j + 1 => i = j
  BY <1>1
<1>3. \A i \in 1..Len(w) : i + 1 \in 1..Len(s) /\ w[i] = s[i + 1]
  BY <1>1, <1>2
<1>5. AssignsIn(s, t) <=> AssignsIn(w, t) \/ AssignOf(m, t)
  <2>1. ASSUME NEW i \in 1..Len(s), AssignOf(s[i], t) PROVE AssignsIn(w, t) \/ AssignOf(m, t)
    <3>1. CASE i = 1
      BY <1>1, <2>1, <3>1
    <3>2. CASE i # 1
      <4>1. i - 1 \in 1..Len(w) /\ AssignOf(w[i - 1], t)
        BY <1>2, <2>1, <3>2
      <4>q. QED BY <4>1 DEF AssignsIn
    <3>q. QED BY <3>1, <3>2
  <2>2. ASSUME NEW i \in 1..Len(w), AssignOf(w[i], t) PROVE AssignsIn(s, t)
    <3>1. i + 1 \in 1..Len(s) /\ AssignOf(s[i + 1], t)
      BY <1>3, <2>2
    <3>q. QED BY <3>1 DEF AssignsIn
  <2>3. AssignOf(m, t) => AssignsIn(s, t)
    BY <1>1, <1>2 DEF AssignsIn
  <2>q. QED BY <2>1, <2>2, <2>3 DEF AssignsIn
<1>6. AbortsIn(s, t) <=> AbortsIn(w, t) \/ AbortOf(m, t)
  <2>1. ASSUME NEW i \in 1..Len(s), AbortOf(s[i], t) PROVE AbortsIn(w, t) \/ AbortOf(m, t)
    <3>1. CASE i = 1
      BY <1>1, <2>1, <3>1
    <3>2. CASE i # 1
      <4>1. i - 1 \in 1..Len(w) /\ AbortOf(w[i - 1], t)
        BY <1>2, <2>1, <3>2
      <4>q. QED BY <4>1 DEF AbortsIn
    <3>q. QED BY <3>1, <3>2
  <2>2. ASSUME NEW i \in 1..Len(w), AbortOf(w[i], t) PROVE AbortsIn(s, t)
    <3>1. i + 1 \in 1..Len(s) /\ AbortOf(s[i + 1], t)
      BY <1>3, <2>2
    <3>q. QED BY <3>1 DEF AbortsIn
  <2>3. AbortOf(m, t) => AbortsIn(s, t)
    BY <1>1, <1>2 DEF AbortsIn
  <2>q. QED BY <2>1, <2>2, <2>3 DEF AbortsIn
<1>7. ASSUME AssignsOnce(s, t) PROVE AssignsOnce(w, t) /\ (AssignOf(m, t) => ~AssignsIn(w, t))
  <2>1. ASSUME NEW i \in 1..Len(w), NEW j \in 1..Len(w), AssignOf(w[i], t), AssignOf(w[j], t)
        PROVE  i = j
    <3>1. AssignOf(s[i + 1], t) /\ AssignOf(s[j + 1], t)
      BY <1>3, <2>1
    <3>2. i + 1 = j + 1
      BY <1>3, <1>7, <3>1 DEF AssignsOnce
    <3>q. QED BY <1>2, <3>2
  <2>2. ASSUME NEW i \in 1..Len(w), AssignOf(w[i], t), AssignOf(m, t)
        PROVE  FALSE
    <3>1. AssignOf(s[i + 1], t) /\ AssignOf(s[1], t)
      BY <1>1, <1>3, <2>2
    <3>q. QED BY <1>2, <1>7, <3>1 DEF AssignsOnce
  <2>q. QED BY <2>1, <2>2 DEF AssignsOnce, AssignsIn
<1>q. QED BY <1>5, <1>6, <1>7 DEF w, m

(* What a queue of reports, or a list of them, says of task t.             *)
EndOf(m, t) == m.task = t /\ m.status \in Final

SpeaksOf(s, t) == \E i \in 1..Len(s) : s[i].task = t
EndsIn(s, t)   == \E i \in 1..Len(s) : EndOf(s[i], t)
EndsLast(s, t) == \A i, j \in 1..Len(s) : EndOf(s[i], t) /\ i < j => s[j].task # t

(* What reports at the end of a queue add.                                 *)
LEMMA Told ==
    ASSUME NEW s \in Seq(Tells), NEW w \in Seq(Tells), NEW t
    PROVE  /\ SpeaksOf(s \o w, t) <=> SpeaksOf(s, t) \/ SpeaksOf(w, t)
           /\ EndsIn(s \o w, t) <=> EndsIn(s, t) \/ EndsIn(w, t)
           /\ EndsLast(s, t) /\ EndsLast(w, t) /\ (EndsIn(s, t) => ~SpeaksOf(w, t))
                => EndsLast(s \o w, t)
<1> DEFINE v == s \o w
<1>1. /\ Len(s) \in Nat /\ Len(w) \in Nat /\ Len(v) = Len(s) + Len(w)
      /\ \A i \in 1..Len(s) : v[i] = s[i]
      /\ \A i \in 1..Len(w) : v[Len(s) + i] = w[i]
  OBVIOUS
<1> HIDE DEF v
<1>2. \A i \in 1..Len(v) : \/ i \in 1..Len(s) /\ v[i] = s[i]
                           \/ \E k \in 1..Len(w) : i = Len(s) + k /\ v[i] = w[k]
  <2> SUFFICES ASSUME NEW i \in 1..Len(v), i \notin 1..Len(s)
               PROVE  \E k \in 1..Len(w) : i = Len(s) + k /\ v[i] = w[k]
    BY <1>1
  <2>1. i - Len(s) \in 1..Len(w) /\ i = Len(s) + (i - Len(s))
    BY <1>1
  <2>q. QED BY <1>1, <2>1
<1>3. /\ \A i \in 1..Len(s) : i \in 1..Len(v) /\ v[i] = s[i]
      /\ \A k \in 1..Len(w) : Len(s) + k \in 1..Len(v) /\ v[Len(s) + k] = w[k]
  BY <1>1
<1>4. SpeaksOf(v, t) <=> SpeaksOf(s, t) \/ SpeaksOf(w, t)
  <2>1. ASSUME NEW i \in 1..Len(v), v[i].task = t PROVE SpeaksOf(s, t) \/ SpeaksOf(w, t)
    BY <1>2, <2>1 DEF SpeaksOf
  <2>2. ASSUME NEW i \in 1..Len(s), s[i].task = t PROVE SpeaksOf(v, t)
    <3>1. i \in 1..Len(v) /\ v[i].task = t
      BY <1>3, <2>2
    <3>q. QED BY <3>1 DEF SpeaksOf
  <2>3. ASSUME NEW i \in 1..Len(w), w[i].task = t PROVE SpeaksOf(v, t)
    <3>1. Len(s) + i \in 1..Len(v) /\ v[Len(s) + i].task = t
      BY <1>3, <2>3
    <3>q. QED BY <3>1 DEF SpeaksOf
  <2>q. QED BY <2>1, <2>2, <2>3 DEF SpeaksOf
<1>5. EndsIn(v, t) <=> EndsIn(s, t) \/ EndsIn(w, t)
  <2>1. ASSUME NEW i \in 1..Len(v), EndOf(v[i], t) PROVE EndsIn(s, t) \/ EndsIn(w, t)
    BY <1>2, <2>1 DEF EndsIn
  <2>2. ASSUME NEW i \in 1..Len(s), EndOf(s[i], t) PROVE EndsIn(v, t)
    <3>1. i \in 1..Len(v) /\ EndOf(v[i], t)
      BY <1>3, <2>2
    <3>q. QED BY <3>1 DEF EndsIn
  <2>3. ASSUME NEW i \in 1..Len(w), EndOf(w[i], t) PROVE EndsIn(v, t)
    <3>1. Len(s) + i \in 1..Len(v) /\ EndOf(v[Len(s) + i], t)
      BY <1>3, <2>3
    <3>q. QED BY <3>1 DEF EndsIn
  <2>q. QED BY <2>1, <2>2, <2>3 DEF EndsIn
<1>6. ASSUME EndsLast(s, t), EndsLast(w, t), EndsIn(s, t) => ~SpeaksOf(w, t),
             NEW i \in 1..Len(v), NEW j \in 1..Len(v), EndOf(v[i], t), i < j, v[j].task = t
      PROVE  FALSE
  <2>1. CASE i \in 1..Len(s) /\ j \in 1..Len(s)
    BY <1>3, <1>6, <2>1 DEF EndsLast
  <2>2. CASE i \in 1..Len(s) /\ j \notin 1..Len(s)
    <3>1. EndsIn(s, t)
      BY <1>3, <1>6, <2>2, Zenon DEF EndsIn
    <3>2. SpeaksOf(w, t)
      BY <1>2, <1>6, <2>2, Zenon DEF SpeaksOf
    <3>q. QED BY <1>6, <3>1, <3>2
  <2>3. CASE i \notin 1..Len(s)
    <3>1. PICK k \in 1..Len(w) : i = Len(s) + k /\ v[i] = w[k]
      BY <1>2, <2>3
    <3>2. j \notin 1..Len(s)
      BY <1>1, <1>6, <3>1
    <3>3. PICK l \in 1..Len(w) : j = Len(s) + l /\ v[j] = w[l]
      BY <1>2, <3>2
    <3>4. k < l
      BY <1>1, <1>6, <3>1, <3>3
    <3>q. QED BY <1>6, <3>1, <3>3, <3>4 DEF EndsLast
  <2>q. QED BY <2>1, <2>2, <2>3
<1>7. EndsLast(s, t) /\ EndsLast(w, t) /\ (EndsIn(s, t) => ~SpeaksOf(w, t)) => EndsLast(v, t)
  BY <1>6 DEF EndsLast
<1>q. QED BY <1>4, <1>5, <1>7 DEF v

(* What the report at the head of a queue was.                             *)
LEMMA TellTaken ==
    ASSUME NEW s \in Seq(Tells), s # <<>>, NEW t
    PROVE  /\ SpeaksOf(s, t) <=> SpeaksOf(Tail(s), t) \/ Head(s).task = t
           /\ EndsIn(s, t) <=> EndsIn(Tail(s), t) \/ EndOf(Head(s), t)
           /\ EndsLast(s, t) => /\ EndsLast(Tail(s), t)
                                /\ EndOf(Head(s), t) => ~SpeaksOf(Tail(s), t)
<1> DEFINE w == Tail(s)
           m == Head(s)
<1>1. /\ Len(s) \in Nat /\ Len(s) >= 1 /\ Len(w) \in Nat /\ Len(s) = Len(w) + 1 /\ m = s[1]
      /\ \A i \in 1..Len(w) : w[i] = s[i + 1]
  OBVIOUS
<1> HIDE DEF w, m
<1>2. /\ \A i \in 1..Len(s) : i = 1 \/ (i - 1 \in 1..Len(w) /\ w[i - 1] = s[i])
      /\ \A i \in 1..Len(w) : i + 1 \in 1..Len(s) /\ 1 < i + 1 /\ w[i] = s[i + 1]
      /\ 1 \in 1..Len(s)
      /\ \A i, j \in 1..Len(w) : i < j => i + 1 < j + 1
  BY <1>1
<1>3. \A i \in 1..Len(s) : i = 1 \/ \E j \in 1..Len(w) : w[j] = s[i]
  BY <1>2
<1>4. SpeaksOf(s, t) <=> SpeaksOf(w, t) \/ m.task = t
  BY <1>1, <1>2, <1>3, Zenon DEF SpeaksOf
<1>5. EndsIn(s, t) <=> EndsIn(w, t) \/ EndOf(m, t)
  BY <1>1, <1>2, <1>3, Zenon DEF EndsIn
<1>6. ASSUME EndsLast(s, t) PROVE EndsLast(w, t) /\ (EndOf(m, t) => ~SpeaksOf(w, t))
  BY <1>1, <1>2, <1>6, Zenon DEF EndsLast, SpeaksOf
<1>q. QED BY <1>4, <1>5, <1>6 DEF w, m

FinalIn(s)   == \E i \in 1..Len(s) : s[i] \in Final
FinalLast(s) == \A i \in 1..Len(s) : s[i] \in Final => i = Len(s)

(* What a report at the end of a chain adds.                               *)
LEMMA FinalJoined ==
    ASSUME NEW s \in Seq(Reports), NEW x \in Reports, ~FinalIn(s)
    PROVE  /\ FinalLast(Append(s, x))
           /\ FinalIn(Append(s, x)) <=> x \in Final
<1> DEFINE w == Append(s, x)
<1>1. /\ Len(s) \in Nat /\ Len(w) = Len(s) + 1 /\ w[Len(s) + 1] = x
      /\ \A i \in 1..Len(s) : w[i] = s[i]
  OBVIOUS
<1> HIDE DEF w
<1>2. Len(w) \in 1..Len(w) /\ \A i \in 1..Len(w) : i = Len(w) \/ i \in 1..Len(s)
  BY <1>1
<1>q. QED BY <1>1, <1>2, Zenon DEF FinalIn, FinalLast, w

(* What the report at the head of a chain was.                             *)
LEMMA FinalTaken ==
    ASSUME NEW s \in Seq(Reports), s # <<>>
    PROVE  /\ FinalIn(s) <=> FinalIn(Tail(s)) \/ Head(s) \in Final
           /\ FinalLast(s) => /\ FinalLast(Tail(s))
                              /\ Head(s) \in Final => Tail(s) = <<>>
<1> DEFINE w == Tail(s)
           x == Head(s)
<1>1. /\ Len(s) \in Nat /\ Len(s) >= 1 /\ Len(w) \in Nat /\ Len(s) = Len(w) + 1 /\ x = s[1]
      /\ \A i \in 1..Len(w) : w[i] = s[i + 1]
  OBVIOUS
<1>a. Len(s) = 1 => w = <<>>
  <2> SUFFICES ASSUME Len(s) = 1 PROVE w = <<>>
    OBVIOUS
  <2>1. w \in Seq(Reports) /\ Len(w) = 0
    BY <1>1, TailTyped
  <2> HIDE DEF w
  <2>q. QED BY <2>1
<1> HIDE DEF w, x
<1>2. /\ \A i \in 1..Len(s) : i = 1 \/ (i - 1 \in 1..Len(w) /\ w[i - 1] = s[i])
      /\ \A i \in 1..Len(w) : i + 1 \in 1..Len(s) /\ w[i] = s[i + 1]
      /\ 1 \in 1..Len(s)
      /\ \A i \in 1..Len(w) : i + 1 = Len(s) => i = Len(w)
  BY <1>1
<1>3. \A i \in 1..Len(s) : i = 1 \/ \E j \in 1..Len(w) : w[j] = s[i]
  BY <1>2
<1>4. FinalIn(s) <=> FinalIn(w) \/ x \in Final
  BY <1>1, <1>2, <1>3, Zenon DEF FinalIn
<1>5. ASSUME FinalLast(s) PROVE FinalLast(w) /\ (x \in Final => w = <<>>)
  <2>1. FinalLast(w)
    BY <1>2, <1>5, Zenon DEF FinalLast
  <2>2. ASSUME x \in Final PROVE 1 = Len(s)
    BY <1>1, <1>2, <1>5, <2>2 DEF FinalLast
  <2>q. QED BY <1>a, <2>1, <2>2
<1>q. QED BY <1>4, <1>5 DEF w, x

-----------------------------------------------------------------------------
(* Who executes task t, and what is still under way about it.  A report    *)
(* whose UPDATE is done stays at the head of its chain until the pass it   *)
(* has asked for is through, and says nothing any more.                    *)
Assigning(p, t) == pass[p].pc = "assign" /\ pass[p].task = t
Unapplied(t)    == IF AwaitsPass(t) THEN Tail(chain[t]) ELSE chain[t]

ToBeAssigned(t) == \E p \in Passes : Assigning(p, t)
ToBeStarted(t)  == \E d \in Devices : AssignsIn(down[d], t)
Started(t)      == \E c \in Runs : Ran(c, t)
Executor(t)     == ToBeAssigned(t) \/ ToBeStarted(t) \/ Started(t)
Telling(t)      == \E d \in Devices : SpeaksOf(up[d], t)

CancelPending(t) == \E r \in Requests : req[r].at = "update" /\ req[r].op = "cancel" /\ req[r].task = t
AbortPending(t)  == \/ \E d \in Devices : AbortsIn(down[d], t)
                    \/ \E c \in Runs : Ran(c, t) /\ run[c].abort # "no"
EndPending(t)    == (\E d \in Devices : EndsIn(up[d], t)) \/ FinalIn(Unapplied(t))

InSlot(t)  == row[t].status \in Occupying
AtRest(t) == row[t].status \in {"QUEUED", "COMPLETED", "FAILED"}

(* One pass, one order or one run at a time carries the task.              *)
OneExecutor(t) ==
    /\ \A p, q \in Passes : Assigning(p, t) /\ Assigning(q, t) => p = q
    /\ \A d, e \in Devices : AssignsIn(down[d], t) /\ AssignsIn(down[e], t) => d = e
    /\ \A d \in Devices : AssignsOnce(down[d], t)
    /\ \A b, c \in Runs : Ran(b, t) /\ Ran(c, t) => b = c
    /\ ToBeAssigned(t) => ~ToBeStarted(t) /\ ~Started(t)
    /\ ToBeStarted(t) => ~Started(t)

(* Nothing is under way about a task that waits, is done or is not there.  *)
NothingUnderWay(t) == ~Executor(t) /\ ~Telling(t) /\ Unapplied(t) = <<>>
RestsInPeace(t)    == AtRest(t) \/ t > created => NothingUnderWay(t)

(* What is under way about a task in a slot concerns the device it is on.  *)
OnItsDevice(t) == InSlot(t) =>
    /\ \A p \in Passes : Assigning(p, t) => pass[p].dev = row[t].device
    /\ \A d \in Devices : AssignsIn(down[d], t) \/ SpeaksOf(up[d], t) => d = row[t].device
    /\ \A c \in Runs : Ran(c, t) => run[c].host = row[t].device

(* Who has reported the end is done, and says nothing after it.            *)
EndIsLast(t) == InSlot(t) =>
    /\ EndPending(t) => ~Executor(t)
    /\ \A d \in Devices : EndsLast(up[d], t)
    /\ FinalIn(Unapplied(t)) => ~Telling(t)
    /\ FinalLast(Unapplied(t))

(* An abort is that of a cancel, done or about to be done.                 *)
AbortIsCancel(t) ==
    AbortPending(t) => t <= created /\ (row[t].status \in {"CANCELED", "NONE"} \/ CancelPending(t))

(* A task in a slot is executed, or its end or its cancelling is near, or  *)
(* its device has left and the server has yet to put it back.              *)
Left(t) == \E s \in Sessions : Abandoned(s) /\ session[s].device = row[t].device
Kept(t) == InSlot(t) => Executor(t) \/ EndPending(t) \/ CancelPending(t) \/ Left(t)

(* Reports about it are applied only while its device is connected.        *)
OnHeard(t) == \E d \in Devices : row[t].device = d /\ Heard(d)
Voiced(t)  == InSlot(t) /\ Unapplied(t) # <<>> => OnHeard(t)

CalmTask(t) ==
    /\ OneExecutor(t)
    /\ RestsInPeace(t)
    /\ OnItsDevice(t)
    /\ EndIsLast(t)
    /\ AbortIsCancel(t)
    /\ Kept(t)
    /\ Voiced(t)

(* Nobody pauses, a retry is of a task that has failed.                    *)
CalmOrders  == {m \in Orders : m.order # "pause"}
CalmTells   == {m \in Tells : m.status # "PAUSED"}
CalmReports == Reports \ {"PAUSED"}
NoPause ==
    /\ \A t \in Tasks : row[t].status # "PAUSED"
    /\ chain \in [Tasks -> Seq(CalmReports)]
    /\ down \in [Devices -> Seq(CalmOrders)]
    /\ up \in [Devices -> Seq(CalmTells)]
    /\ \A c \in Runs : run[c].st # "free" => run[c].abort # "pause"
    /\ \A r \in Requests : req[r].at = "update" =>
            /\ req[r].op \in {"cancel", "retry"}
            /\ req[r].op = "retry" => row[req[r].task].status \in {"FAILED", "NONE"}

(* The devices a pass knows.                                               *)
PassDevices(p) == pass[p].online \cup pass[p].todo \cup ({pass[p].dev} \ {NoDevice})

-----------------------------------------------------------------------------
(* What a step that is not about task t leaves as it is.                   *)
SameRow(t)    == row'[t] = row[t] /\ (t > created' <=> t > created) /\ (t <= created => t <= created')
SamePasses(t) == \A p \in Passes : /\ Assigning(p, t)' <=> Assigning(p, t)
                                   /\ Assigning(p, t) => pass'[p].dev = pass[p].dev
SameOrders(t) == \A d \in Devices : /\ AssignsIn(down'[d], t) <=> AssignsIn(down[d], t)
                                    /\ AssignsOnce(down[d], t) => AssignsOnce(down'[d], t)
SameRuns(t)   == \A c \in Runs : /\ Ran(c, t)' <=> Ran(c, t)
                                 /\ Ran(c, t) => run'[c].host = run[c].host
SameTells(t)  == \A d \in Devices : /\ SpeaksOf(up'[d], t) <=> SpeaksOf(up[d], t)
                                    /\ EndsIn(up'[d], t) <=> EndsIn(up[d], t)
                                    /\ EndsLast(up[d], t) => EndsLast(up'[d], t)
SameChain(t)  == Unapplied(t)' = Unapplied(t)
StillPending(t) == CancelPending(t) => CancelPending(t)'
NoNewAbort(t)   == /\ \A d \in Devices : AbortsIn(down'[d], t) => AbortPending(t)
                   /\ \A c \in Runs : Ran(c, t)' /\ run'[c].abort # "no" => AbortPending(t)

(* Nobody who has left comes back, and nobody who is connected leaves.     *)
Steady == /\ \A s \in Sessions : Abandoned(s) => Abandoned(s)' /\ session'[s].device = session[s].device
          /\ \A d \in Devices : Heard(d) => Heard(d)'
SteadyFor(t) == InSlot(t) => (Left(t) => Left(t)') /\ (OnHeard(t) => OnHeard(t)')

(* Nor does the device of a task that stays where it is.                   *)
LEMMA SteadyTask ==
    ASSUME Steady, NEW t \in Tasks, row'[t].device = row[t].device
    PROVE  SteadyFor(t)
  BY DEF Steady, SteadyFor, Left, OnHeard

(* Aborts that were there before are still explained.                      *)
LEMMA AbortsExplained ==
    ASSUME NEW t \in Tasks, CalmTask(t), NoNewAbort(t), SameRow(t), StillPending(t)
    PROVE  AbortIsCancel(t)'
<1>1. AbortPending(t)' => AbortPending(t)
  BY Zenon DEF NoNewAbort, AbortPending
<1>q. QED BY <1>1 DEF CalmTask, AbortIsCancel, SameRow, StillPending

(* All about the task but the aborts under way is as it was.               *)
LEMMA UntouchedKeeps ==
    ASSUME NEW t \in Tasks, CalmTask(t), SameRow(t), SamePasses(t), SameOrders(t), SameRuns(t),
           SameTells(t), SameChain(t), StillPending(t), SteadyFor(t), AbortIsCancel(t)'
    PROVE  CalmTask(t)'
<1>1. /\ ToBeAssigned(t)' <=> ToBeAssigned(t)
      /\ ToBeStarted(t)' <=> ToBeStarted(t)
      /\ Started(t)' <=> Started(t)
      /\ Telling(t)' <=> Telling(t)
  BY Zenon DEF SamePasses, SameOrders, SameRuns, SameTells, ToBeAssigned, ToBeStarted, Started, Telling
<1>2. /\ FinalIn(Unapplied(t))' <=> FinalIn(Unapplied(t))
      /\ FinalLast(Unapplied(t))' <=> FinalLast(Unapplied(t))
      /\ (Unapplied(t) = <<>>)' <=> Unapplied(t) = <<>>
  BY DEF SameChain, FinalIn, FinalLast
<1>3. /\ EndPending(t)' <=> EndPending(t)
      /\ Executor(t)' <=> Executor(t)
  BY <1>1, <1>2, Zenon DEF SameTells, EndPending, Executor
<1>4. /\ InSlot(t)' <=> InSlot(t)
      /\ AtRest(t)' <=> AtRest(t)
  BY DEF SameRow, InSlot, AtRest
<1>5. OneExecutor(t)'
  BY <1>1, Zenon DEF CalmTask, OneExecutor, SamePasses, SameOrders, SameRuns
<1>6. RestsInPeace(t)'
  BY <1>1, <1>2, <1>3, <1>4, Zenon DEF CalmTask, RestsInPeace, NothingUnderWay, SameRow
<1>7. OnItsDevice(t)'
  BY <1>4 DEF CalmTask, OnItsDevice, SamePasses, SameOrders, SameRuns, SameTells, SameRow
<1>8. EndIsLast(t)'
  BY <1>1, <1>2, <1>3, <1>4, Zenon DEF CalmTask, EndIsLast, SameTells
<1>9. Kept(t)'
  BY <1>3, <1>4 DEF CalmTask, Kept, StillPending, SteadyFor
<1>10. Voiced(t)'
  BY <1>2, <1>4 DEF CalmTask, Voiced, SteadyFor
<1>q. QED BY <1>5, <1>6, <1>7, <1>8, <1>9, <1>10 DEF CalmTask

(* The row is written by a request or removed.                             *)
LEMMA LeavesItsSlot ==
    ASSUME NEW t \in Tasks, CalmTask(t), SamePasses(t), SameOrders(t), SameRuns(t), SameTells(t),
           SameChain(t), ~InSlot(t)', AtRest(t)' \/ t > created' => NothingUnderWay(t),
           AbortIsCancel(t)'
    PROVE  CalmTask(t)'
<1>1. /\ ToBeAssigned(t)' <=> ToBeAssigned(t)
      /\ ToBeStarted(t)' <=> ToBeStarted(t)
      /\ Started(t)' <=> Started(t)
      /\ Telling(t)' <=> Telling(t)
  BY Zenon DEF SamePasses, SameOrders, SameRuns, SameTells, ToBeAssigned, ToBeStarted, Started, Telling
<1>2. OneExecutor(t)'
  BY <1>1, Zenon DEF CalmTask, OneExecutor, SamePasses, SameOrders, SameRuns
<1>3. NothingUnderWay(t)' <=> NothingUnderWay(t)
  BY <1>1 DEF NothingUnderWay, Executor, SameChain
<1>q. QED BY <1>2, <1>3 DEF CalmTask, RestsInPeace, OnItsDevice, EndIsLast, Kept, Voiced

(* The one who executes the task hands it on, or is done with it.          *)
LEMMA ExecutorMoves ==
    ASSUME NEW t \in Tasks, CalmTask(t), Executor(t), SameRow(t), SameChain(t), SteadyFor(t),
           OneExecutor(t)', OnItsDevice(t)', AbortIsCancel(t)',
           InSlot(t) => /\ \A d \in Devices : EndsLast(up'[d], t)
                        /\ \/ Executor(t)' /\ \A d \in Devices : ~EndsIn(up'[d], t)
                           \/ ~Executor(t)' /\ (EndPending(t)' \/ CancelPending(t)')
    PROVE  CalmTask(t)'
<1>1. /\ FinalIn(Unapplied(t))' <=> FinalIn(Unapplied(t))
      /\ FinalLast(Unapplied(t))' <=> FinalLast(Unapplied(t))
  BY DEF SameChain, FinalIn, FinalLast
<1>2. /\ InSlot(t)' <=> InSlot(t)
      /\ AtRest(t)' <=> AtRest(t)
  BY DEF SameRow, InSlot, AtRest
<1>3. RestsInPeace(t)'
  BY <1>2 DEF CalmTask, RestsInPeace, NothingUnderWay, SameRow
<1>4. InSlot(t) => ~FinalIn(Unapplied(t)) /\ FinalLast(Unapplied(t))
  BY DEF CalmTask, EndIsLast, EndPending
<1>5. EndIsLast(t)' /\ Kept(t)'
  BY <1>1, <1>2, <1>4 DEF EndIsLast, EndPending, Kept
<1>6. Voiced(t)'
  BY <1>2 DEF CalmTask, Voiced, SteadyFor, SameChain
<1>q. QED BY <1>3, <1>5, <1>6 DEF CalmTask

-----------------------------------------------------------------------------
(* What the dispatcher does to the assignments under way, to the reports   *)
(* that are not applied, and to the devices its passes know.               *)
DispatcherOK == DispatcherTypeOK /\ ReportsAwait

Drops(p) ==
    \A q \in Passes : /\ PassDevices(q)' \subseteq PassDevices(q)
                      /\ \A t \in Tasks : /\ Assigning(q, t)' <=> q # p /\ Assigning(q, t)
                                          /\ Assigning(q, t)' => pass'[q].dev = pass[q].dev

(* A pass that is asked for assigns nothing yet.                           *)
LEMMA EnqueueKeeps ==
    ASSUME DispatcherOK, NEW p \in Passes, NEW x \in Tasks \cup {NoTask}, Enqueues(p, x),
           UNCHANGED chain, x # NoTask => ~AwaitsPass(x)
    PROVE  /\ \A t \in Tasks : SamePasses(t) /\ (t # x => SameChain(t))
           /\ x \in Tasks => Unapplied(x)' = Tail(chain[x]) /\ Unapplied(x) = chain[x]
           /\ \A q \in Passes : PassDevices(q)' \subseteq PassDevices(q)
<1> DEFINE new == [NoRun EXCEPT !.pc = "read", !.after = dispatchChain, !.report = x]
<1>1. /\ new.pc = "read" /\ new.report = x /\ new.dev = NoDevice /\ new.online = {} /\ new.todo = {}
  BY DEF NoRun
<1>2. pass' = [pass EXCEPT ![p] = new] /\ pass[p].pc = "free"
  BY DEF Enqueues
<1> HIDE DEF new
<1>3. pass'[p] = new /\ \A q \in Passes : q # p => pass'[q] = pass[q]
  BY <1>2 DEF DispatcherOK, DispatcherTypeOK
<1>4. \A q \in Passes : pass[q] \in Pass /\ pass[q].report \in Tasks \cup {NoTask}
  BY DEF DispatcherOK, DispatcherTypeOK, Pass
<1>5. pass[p].report = NoTask
  BY <1>2 DEF DispatcherOK, ReportsAwait
<1>6. \A t \in Tasks : SamePasses(t)
  BY <1>1, <1>2, <1>3, Zenon DEF SamePasses, Assigning
<1>7. \A t \in Tasks : t # NoTask
  BY DEF Tasks, NoTask
<1>8. \A t \in Tasks : AwaitsPass(t)' <=> AwaitsPass(t) \/ t = x
  BY <1>1, <1>3, <1>5, <1>7, Zenon DEF AwaitsPass
<1>9. \A t \in Tasks : t # x => Unapplied(t)' = Unapplied(t)
  BY <1>8 DEF Unapplied
<1>10. x \in Tasks => Unapplied(x)' = Tail(chain[x]) /\ Unapplied(x) = chain[x]
  BY <1>7, <1>8 DEF Unapplied
<1>11. \A q \in Passes : PassDevices(q)' \subseteq PassDevices(q)
  <2>1. PassDevices(p)' = {}
    BY <1>1, <1>3 DEF PassDevices
  <2>2. \A q \in Passes : q # p => PassDevices(q)' = PassDevices(q)
    BY <1>3 DEF PassDevices
  <2>q. QED BY <2>1, <2>2
<1>q. QED BY <1>6, <1>9, <1>10, <1>11 DEF SameChain

(* A pass that settles takes the report it was for off its chain.          *)
LEMMA SettleKeeps ==
    ASSUME DispatcherOK, NEW p \in Passes, Settle(p)
    PROVE  Drops(p) /\ \A t \in Tasks : SameChain(t)
<1>1. \A q \in Passes : pass[q] \in Pass /\ pass[q].report \in Tasks \cup {NoTask}
  BY DEF DispatcherOK, DispatcherTypeOK, Pass
<1>2. \A q \in Passes : pass'[q] = IF q = p THEN NoRun
                                  ELSE IF pass[q].after = p
                                  THEN [pass[q] EXCEPT !.after = NoPass] ELSE pass[q]
  BY DEF Settle
<1>3. /\ NoRun.pc = "free" /\ NoRun.report = NoTask
      /\ NoRun.dev = NoDevice /\ NoRun.online = {} /\ NoRun.todo = {}
  BY DEF NoRun
<1>4. ASSUME NEW q \in Passes, q # p
      PROVE  /\ pass'[q].pc = pass[q].pc /\ pass'[q].task = pass[q].task
             /\ pass'[q].dev = pass[q].dev /\ pass'[q].report = pass[q].report
             /\ pass'[q].online = pass[q].online /\ pass'[q].todo = pass[q].todo
  <2>1. pass'[q] = pass[q] \/ pass'[q] = [pass[q] EXCEPT !.after = NoPass]
    BY <1>2, <1>4
  <2>q. QED BY <1>1, <2>1 DEF Pass
<1>5. pass'[p] = NoRun
  BY <1>2
<1>6. Drops(p)
  <2>1. \A q \in Passes, t \in Tasks : /\ Assigning(q, t)' <=> q # p /\ Assigning(q, t)
                                       /\ Assigning(q, t)' => pass'[q].dev = pass[q].dev
    BY <1>3, <1>4, <1>5 DEF Assigning
  <2>2. \A q \in Passes : PassDevices(q)' \subseteq PassDevices(q)
    BY <1>3, <1>4, <1>5 DEF PassDevices
  <2>q. QED BY <2>1, <2>2 DEF Drops
<1>7. \A t \in Tasks : t # NoTask
  BY DEF Tasks, NoTask
<1>8. ASSUME NEW t \in Tasks PROVE Unapplied(t)' = Unapplied(t)
  <2>1. CASE pass[p].report = t
    <3>1. AwaitsPass(t) /\ chain'[t] = Tail(chain[t])
      BY <1>7, <2>1 DEF AwaitsPass, Settle, DispatcherOK, DispatcherTypeOK
    <3>2. ~AwaitsPass(t)'
      BY <1>3, <1>4, <1>5, <1>7, <2>1 DEF AwaitsPass, DispatcherOK, ReportsAwait
    <3>q. QED BY <3>1, <3>2 DEF Unapplied
  <2>2. CASE pass[p].report # t
    <3>1. chain'[t] = chain[t]
      BY <1>1, <2>2 DEF Settle, DispatcherOK, DispatcherTypeOK
    <3>2. AwaitsPass(t)' <=> AwaitsPass(t)
      BY <1>3, <1>4, <1>5, <1>7, <2>2 DEF AwaitsPass
    <3>q. QED BY <3>1, <3>2 DEF Unapplied
  <2>q. QED BY <2>1, <2>2
<1>q. QED BY <1>6, <1>8 DEF SameChain

(* A pass that goes on.                                                    *)
LEMMA GoesOn ==
    ASSUME DispatcherOK, NEW p \in Passes, NEW new, Step(p, new), new.report = pass[p].report
    PROVE  /\ pass'[p] = new /\ \A q \in Passes : q # p => pass'[q] = pass[q]
           /\ \A t \in Tasks : SameChain(t)
<1>1. pass'[p] = new /\ (\A q \in Passes : q # p => pass'[q] = pass[q]) /\ UNCHANGED chain
  BY DEF Step, DispatcherOK, DispatcherTypeOK
<1>2. \A t \in Tasks : AwaitsPass(t)' <=> AwaitsPass(t)
  BY <1>1 DEF AwaitsPass
<1>q. QED BY <1>1, <1>2 DEF SameChain, Unapplied

(* A pass that goes on drops its assignment and no other.                  *)
LEMMA ProceedKeeps ==
    ASSUME DispatcherOK, NEW p \in Passes, NEW todo \in SUBSET PassDevices(p), NEW again,
           Proceed(p, todo, again)
    PROVE  Drops(p) /\ \A t \in Tasks : SameChain(t)
<1> DEFINE going == [pass[p] EXCEPT !.pc = "count", !.dev = NoDevice, !.task = NoTask]
           same  == [going EXCEPT !.todo = todo, !.again = again]
           more  == [going EXCEPT !.todo = pass[p].online, !.again = FALSE]
<1>0. pass[p] \in Pass
  BY DEF DispatcherOK, DispatcherTypeOK
<1>a. /\ same.report = pass[p].report /\ same.pc = "count" /\ same.dev = NoDevice
      /\ same.online = pass[p].online /\ same.todo = todo
  BY <1>0 DEF Pass
<1>b. /\ more.report = pass[p].report /\ more.pc = "count" /\ more.dev = NoDevice
      /\ more.online = pass[p].online /\ more.todo = pass[p].online
  BY <1>0 DEF Pass
<1>2. Step(p, same) \/ Step(p, more) \/ Settle(p)
  BY DEF Proceed
<1> HIDE DEF same, more
<1>1. ASSUME NEW new \in {same, more}
      PROVE  /\ new.report = pass[p].report /\ new.pc = "count" /\ new.dev = NoDevice
             /\ new.online = pass[p].online /\ new.todo \subseteq PassDevices(p)
  BY <1>a, <1>b DEF PassDevices
<1>3. ASSUME NEW new \in {same, more}, Step(p, new)
      PROVE  Drops(p) /\ \A t \in Tasks : SameChain(t)
  <2>1. /\ pass'[p] = new /\ \A q \in Passes : q # p => pass'[q] = pass[q]
        /\ \A t \in Tasks : SameChain(t)
    BY <1>1, <1>3, GoesOn
  <2>2. \A q \in Passes, t \in Tasks : /\ Assigning(q, t)' <=> q # p /\ Assigning(q, t)
                                       /\ Assigning(q, t)' => pass'[q].dev = pass[q].dev
    BY <1>1, <2>1 DEF Assigning
  <2>3. PassDevices(p)' \subseteq PassDevices(p)
    <3>1. PassDevices(p)' = new.online \cup new.todo \cup ({new.dev} \ {NoDevice})
      BY <2>1 DEF PassDevices
    <3>2. new.online \subseteq PassDevices(p) /\ new.todo \subseteq PassDevices(p) /\ new.dev = NoDevice
      BY <1>1 DEF PassDevices
    <3>q. QED BY <3>1, <3>2
  <2>4. \A q \in Passes : q # p => PassDevices(q)' = PassDevices(q)
    BY <2>1 DEF PassDevices
  <2>q. QED BY <2>1, <2>2, <2>3, <2>4 DEF Drops
<1>q. QED BY <1>2, <1>3, SettleKeeps

(* A pass that is not about to assign hands out nothing but by a claim.    *)
OnlineDevices == {d \in Devices : device[d] = "ONLINE"}
PassesLearn   == \A q \in Passes : PassDevices(q)' \subseteq PassDevices(q) \cup OnlineDevices

(* A pass that is not about to assign takes no assignment with it.         *)
LEMMA DropsNothing ==
    ASSUME NEW p \in Passes, pass[p].pc # "assign", Drops(p)
    PROVE  \A t \in Tasks : SamePasses(t)
  BY DEF Drops, SamePasses, Assigning

(* A step of a pass claims a task, or is about none.                       *)
LEMMA PassKeeps ==
    ASSUME DispatcherOK, NEW p \in Passes, OtherPassStep(p)
    PROVE  /\ \A t \in Tasks : SameChain(t)
           /\ PassesLearn
           /\ \/ UNCHANGED row /\ \A t \in Tasks : SamePasses(t)
              \/ \E t \in Tasks : /\ Claims(p, t)
                                  /\ \A u \in Tasks : u # t => SamePasses(u)
<1>0. pass[p] \in Pass
  BY DEF DispatcherOK, DispatcherTypeOK
<1> DEFINE Goal == /\ \A t \in Tasks : SameChain(t) /\ SamePasses(t)
                   /\ PassesLearn
<1>1. ASSUME Settle(p), pass[p].pc # "assign" PROVE Goal
  BY <1>1, SettleKeeps, DropsNothing DEF Drops, PassesLearn
<1>2. ASSUME NEW new, Step(p, new), new.report = pass[p].report,
             new.pc # "assign", pass[p].pc # "assign",
             new.online \cup new.todo \cup ({new.dev} \ {NoDevice}) \subseteq PassDevices(p) \cup OnlineDevices
      PROVE  Goal
  <2>1. /\ pass'[p] = new /\ \A q \in Passes : q # p => pass'[q] = pass[q]
        /\ \A t \in Tasks : SameChain(t)
    BY <1>2, GoesOn
  <2>2. \A t \in Tasks : SamePasses(t)
    BY <1>2, <2>1 DEF SamePasses, Assigning
  <2>3. PassesLearn
    <3>1. PassDevices(p)' \subseteq PassDevices(p) \cup OnlineDevices
      BY <1>2, <2>1 DEF PassDevices
    <3>2. \A q \in Passes : q # p => PassDevices(q)' = PassDevices(q)
      BY <2>1 DEF PassDevices
    <3>q. QED BY <3>1, <3>2 DEF PassesLearn
  <2>q. QED BY <2>1, <2>2, <2>3
<1>3. CASE ReadConnection(p)
  <2> DEFINE new == [pass[p] EXCEPT !.pc = "devices", !.limit = connection.limit]
  <2>1. pass[p].pc = "read" /\ UNCHANGED row /\ (Step(p, new) \/ Settle(p))
    BY <1>3 DEF ReadConnection, tableVars
  <2>2. /\ new.report = pass[p].report /\ new.pc = "devices" /\ new.online = pass[p].online
        /\ new.todo = pass[p].todo /\ new.dev = pass[p].dev
    BY <1>0 DEF Pass
  <2> HIDE DEF new
  <2>3. new.online \cup new.todo \cup ({new.dev} \ {NoDevice}) \subseteq PassDevices(p) \cup OnlineDevices
    BY <2>2 DEF PassDevices
  <2>4. Goal
    BY <1>1, <1>2, <2>1, <2>2, <2>3
  <2>q. QED BY <2>1, <2>4
<1>4. CASE ReadDevices(p)
  <2> DEFINE new == [pass[p] EXCEPT !.pc = "count", !.online = OnlineDevices, !.todo = OnlineDevices]
  <2>1. pass[p].pc = "devices" /\ UNCHANGED row /\ (Step(p, new) \/ Settle(p))
    BY <1>4 DEF ReadDevices, OnlineDevices, tableVars
  <2>2. /\ new.report = pass[p].report /\ new.pc = "count" /\ new.online = OnlineDevices
        /\ new.todo = OnlineDevices /\ new.dev = pass[p].dev
    BY <1>0 DEF Pass
  <2> HIDE DEF new
  <2>3. new.online \cup new.todo \cup ({new.dev} \ {NoDevice}) \subseteq PassDevices(p) \cup OnlineDevices
    BY <2>2 DEF PassDevices
  <2>4. Goal
    BY <1>1, <1>2, <2>1, <2>2, <2>3
  <2>q. QED BY <2>1, <2>4
<1>5. ASSUME NEW d \in Devices, CountSlots(p, d)
      PROVE  Goal /\ UNCHANGED row
  <2> DEFINE new == [pass[p] EXCEPT !.pc = "claim", !.dev = d, !.todo = @ \ {d}]
  <2>1. /\ pass[p].pc = "count" /\ d \in pass[p].todo /\ UNCHANGED row
        /\ Step(p, new) \/ Proceed(p, pass[p].todo \ {d}, pass[p].again)
    BY <1>5 DEF CountSlots, tableVars
  <2>2. /\ new.report = pass[p].report /\ new.pc = "claim" /\ new.online = pass[p].online
        /\ new.todo = pass[p].todo \ {d} /\ new.dev = d
    BY <1>0 DEF Pass
  <2> HIDE DEF new
  <2>3. new.online \cup new.todo \cup ({new.dev} \ {NoDevice}) \subseteq PassDevices(p) \cup OnlineDevices
    BY <2>1, <2>2 DEF PassDevices
  <2>4. CASE Step(p, new)
    BY <1>2, <2>1, <2>2, <2>3, <2>4
  <2>5. CASE Proceed(p, pass[p].todo \ {d}, pass[p].again)
    <3>1. pass[p].todo \ {d} \in SUBSET PassDevices(p)
      BY DEF PassDevices
    <3>2. Drops(p) /\ \A t \in Tasks : SameChain(t)
      BY <2>5, <3>1, ProceedKeeps
    <3>q. QED BY <2>1, <3>2, DropsNothing DEF Drops, PassesLearn
  <2>q. QED BY <2>1, <2>4, <2>5
<1>6. CASE ClaimOldest(p)
  <2>1. PICK skipped \in SUBSET Tasks : Claim(p, skipped)
    BY <1>6 DEF ClaimOldest, Queued
  <2>2. pass[p].pc = "claim" /\ Turn(p)
    BY <2>1 DEF Claim
  <2>3. CASE Settle(p) /\ UNCHANGED row
    BY <1>1, <2>2, <2>3
  <2>4. CASE ~(Settle(p) /\ UNCHANGED row)
    <3>1. PICK t \in Tasks : /\ t \in Queued /\ device[pass[p].dev] # "GONE"
                             /\ row' = [row EXCEPT ![t] = Claimed(@, pass[p].dev)]
                             /\ Step(p, [pass[p] EXCEPT !.pc = "assign", !.task = t])
      BY <2>1, <2>4 DEF Claim, Claimable, Queued
    <3> DEFINE new == [pass[p] EXCEPT !.pc = "assign", !.task = t]
    <3>2. /\ new.report = pass[p].report /\ new.online = pass[p].online /\ new.todo = pass[p].todo
          /\ new.dev = pass[p].dev /\ new.pc = "assign" /\ new.task = t
      BY <1>0 DEF Pass
    <3>3. Step(p, new) /\ Claims(p, t)
      BY <2>2, <3>1 DEF Claims, Step
    <3> HIDE DEF new
    <3>4. /\ pass'[p] = new /\ \A q \in Passes : q # p => pass'[q] = pass[q]
          /\ \A u \in Tasks : SameChain(u)
      BY <3>2, <3>3, GoesOn
    <3>5. \A u \in Tasks : u # t => SamePasses(u)
      BY <2>2, <3>2, <3>4 DEF SamePasses, Assigning
    <3>6. PassesLearn
      BY <3>2, <3>4 DEF PassesLearn, PassDevices
    <3>q. QED BY <3>3, <3>4, <3>5, <3>6
  <2>q. QED BY <2>3, <2>4
<1>q. QED BY <1>3, <1>4, <1>5, <1>6 DEF OtherPassStep

-----------------------------------------------------------------------------
(* Connections that break, in the orderly world of Settling and            *)
(* Undisturbed.  A device is attached by one session; or it has left one   *)
(* that the server is not through with; or it is away, OFFLINE, without a  *)
(* session and without a task its claims have given it.  The server hands  *)
(* nothing to a device that is not attached, because no pass knows it.     *)
Unseen(d) == \A p \in Passes : d \notin PassDevices(p)

OnlySession(s, d) == \A q \in Sessions : session[q].device = d <=> q = s

Attached(d) ==
    \E s \in Sessions : /\ link[d] = s /\ OnlySession(s, d)
                        /\ session[s].open /\ session[s].disconnect = "none"

Leaves(s, d) ==
    /\ OnlySession(s, d) /\ session[s].connect = "done"
    /\ session[s].open => session[s].disconnect = "none"
    /\ ~session[s].open => session[s].disconnect \in {"mark", "requeue"}
    /\ session[s].disconnect = "requeue" => device[d] = "OFFLINE"
Leaving(d) == Orderly /\ link[d] = NoLink /\ Unseen(d) /\ \E s \in Sessions : Leaves(s, d)

Away(d) ==
    /\ link[d] = NoLink /\ Unseen(d)
    /\ \A s \in Sessions : session[s].device # d
    /\ device[d] = "OFFLINE"
    /\ Held(d) = {}

(* A pass that is over knows no device.                                    *)
BlankPasses == \A p \in Passes : pass[p].pc = "free" => PassDevices(p) = {}

(* Every socket is that of a device.                                       *)
OfDevices == \A s \in Sessions : session[s] # NoSession => session[s].device \in Devices

OrderlyInv ==
    /\ LocalInv
    /\ BlankPasses
    /\ OfDevices
    /\ \A d \in Devices : device[d] # "GONE" /\ (Attached(d) \/ Leaving(d) \/ Away(d))

(* What the invariant says of the types, for use in the lemmas below.      *)
LEMMA OrderlyFacts ==
    ASSUME LocalInv
    PROVE  /\ DispatcherOK /\ TypeOK /\ TableSound /\ WiresTypeOK
           /\ row \in [Tasks -> Row] /\ session \in [Sessions -> Session]
           /\ device \in [Devices -> {"ONLINE", "OFFLINE", "GONE"}]
           /\ link \in [Devices -> Sessions \cup {NoLink}]
           /\ chain \in [Tasks -> Seq(Received)] /\ pass \in [Passes -> Pass]
  BY DEF LocalInv, Inv, TypeOK, TableTypeOK, GatewayTypeOK, DispatcherOK, DispatcherTypeOK, WiresTypeOK

(* A pass that settles is as blank as one that never ran.                  *)
LEMMA BlankStep ==
    ASSUME DispatcherTypeOK, BlankPasses, PassStep
    PROVE  BlankPasses'
<1>0. pass \in [Passes -> Pass] /\ \A p \in Passes : pass[p] \in Pass
  BY DEF DispatcherTypeOK
<1>1. NoRun.pc = "free" /\ NoRun.online = {} /\ NoRun.todo = {} /\ NoRun.dev = NoDevice
  BY DEF NoRun
<1>2. ASSUME NEW p \in Passes, NEW t, Enqueues(p, t)
      PROVE  BlankPasses'
  <2> DEFINE new == [NoRun EXCEPT !.pc = "read", !.after = dispatchChain, !.report = t]
  <2>1. pass' = [pass EXCEPT ![p] = new] /\ new.pc = "read"
    BY <1>2 DEF Enqueues, NoRun
  <2> HIDE DEF new
  <2>2. pass'[p].pc = "read" /\ \A q \in Passes : q # p => pass'[q] = pass[q]
    BY <1>0, <2>1
  <2>q. QED BY <2>2 DEF BlankPasses, PassDevices
<1>3. ASSUME NEW p \in Passes, Settle(p)
      PROVE  BlankPasses'
  <2>1. \A q \in Passes : pass'[q] = IF q = p THEN NoRun
                                     ELSE IF pass[q].after = p
                                     THEN [pass[q] EXCEPT !.after = NoPass] ELSE pass[q]
    BY <1>3 DEF Settle
  <2>2. ASSUME NEW q \in Passes, q # p
        PROVE  /\ pass'[q].pc = pass[q].pc /\ pass'[q].dev = pass[q].dev
               /\ pass'[q].online = pass[q].online /\ pass'[q].todo = pass[q].todo
    <3>1. pass'[q] = pass[q] \/ pass'[q] = [pass[q] EXCEPT !.after = NoPass]
      BY <2>1, <2>2
    <3>q. QED BY <1>0, <3>1 DEF Pass
  <2>3. \A q \in Passes : q # p => PassDevices(q)' = PassDevices(q)
    BY <2>2 DEF PassDevices
  <2>4. PassDevices(p)' = {}
    BY <1>1, <2>1 DEF PassDevices
  <2>q. QED BY <2>2, <2>3, <2>4 DEF BlankPasses
<1>4. ASSUME NEW p \in Passes, Advances(p)
      PROVE  BlankPasses'
  <2>1. pass'[p].pc # "free" /\ \A q \in Passes : q # p => pass'[q] = pass[q]
    BY <1>0, <1>4 DEF Advances
  <2>q. QED BY <2>1 DEF BlankPasses, PassDevices
<1>5. ASSUME UNCHANGED pass PROVE BlankPasses'
  BY <1>5 DEF BlankPasses, PassDevices
<1>q. QED BY <1>2, <1>3, <1>4, <1>5 DEF PassStep, dispatchVars

-----------------------------------------------------------------------------
(* A pass gets to know the devices that are ONLINE, and gets to know them  *)
(* only while no connection is being settled.                              *)
LEMMA PassesKnow ==
    ASSUME LocalInv, [LocalNext]_localVars
    PROVE  \/ \A q \in Passes : PassDevices(q)' \subseteq PassDevices(q)
           \/ ~Settling /\ PassesLearn
<1> DEFINE Forgets == \A q \in Passes : PassDevices(q)' \subseteq PassDevices(q)
<1>0. DispatcherOK
  BY OrderlyFacts
<1>1. ASSUME UNCHANGED pass PROVE Forgets
  BY <1>1 DEF PassDevices
<1>2. ASSUME Dispatch(NoTask), UNCHANGED chain PROVE Forgets
  <2>1. PICK p \in Passes : Enqueues(p, NoTask)
    BY <1>2, DispatchEnqueues
  <2>q. QED BY <1>0, <1>2, <2>1, EnqueueKeeps
<1>3. ASSUME NEW t \in Tasks, Apply(t) PROVE Forgets
  <2>1. ~AwaitsPass(t) /\ ((Dispatch(t) /\ UNCHANGED chain) \/ UNCHANGED pass)
    BY <1>3 DEF Apply, ApplyReport, dispatchVars
  <2>2. ASSUME NEW p \in Passes, Enqueues(p, t), UNCHANGED chain PROVE Forgets
    BY <1>0, <2>1, <2>2, EnqueueKeeps
  <2>q. QED BY <1>1, <2>1, <2>2, DispatchEnqueues
<1>4. ASSUME NEW p \in Passes, Assign(p) PROVE Forgets
  <2>1. Proceed(p, pass[p].todo, TRUE) /\ pass[p].todo \in SUBSET PassDevices(p)
    BY <1>4 DEF Assign, SendAssign, PassDevices
  <2>q. QED BY <1>0, <2>1, ProceedKeeps DEF Drops
<1>5. ASSUME NEW p \in Passes, OtherPassStep(p) PROVE PassesLearn
  BY <1>0, <1>5, PassKeeps
<1> HIDE DEF Forgets
<1>6. CASE \E r \in Requests, op \in Ops, t \in Tasks : LoadAndAbort(r, op, t)
  BY <1>1, <1>6 DEF LoadAndAbort, LoadTask, gatewayVars, dispatchVars, Forgets
<1>7. CASE OtherRequest
  <2>1. UNCHANGED pass \/ (Dispatch(NoTask) /\ UNCHANGED chain)
    BY <1>7 DEF OtherRequest, CreateTask, UpdateTask, RouteTask, gatewayVars, dispatchVars
  <2>q. QED BY <1>1, <1>2, <2>1 DEF Forgets
<1>8. CASE SaveSettings
  <2>1. UNCHANGED pass \/ (Dispatch(NoTask) /\ UNCHANGED chain)
    BY <1>8 DEF SaveSettings, Reconfigure, Configure, dispatchVars
  <2>q. QED BY <1>1, <1>2, <2>1 DEF Forgets
<1>9. CASE \E s \in Sessions : SessionHandler(s) \/ Notice(s)
  <2>1. UNCHANGED pass \/ (Dispatch(NoTask) /\ UNCHANGED chain)
    BY <1>9 DEF SessionHandler, Notice, Identify, MarkOnline, MarkOffline, Requeue, Drop, dispatchVars
  <2>q. QED BY <1>1, <1>2, <2>1 DEF Forgets
<1>10. CASE \E t \in Tasks : Delete(t)
  BY <1>1, <1>10 DEF Delete, RemoveTask, dispatchVars, Forgets
<1>11. CASE AgentStep
  BY <1>1, <1>11 DEF AgentStep, Open, Connect, Upload, Receive, Deliver, Lose, Crash, Fault, Fire, Close,
     vars, gatewayVars, dispatchVars, Forgets
<1>12. CASE UNCHANGED localVars
  BY <1>1, <1>12 DEF localVars, vars, gatewayVars, dispatchVars, Forgets
<1>13. CASE (\E s \in Sessions : Refuse(s)) \/ (\E d \in Devices : DeleteDevice(d))
  BY <1>1, <1>13 DEF Refuse, Identify, DeleteDevice, RemoveDevice, dispatchVars, Forgets
<1>q. QED
  BY <1>3, <1>4, <1>5, <1>6, <1>7, <1>8, <1>9, <1>10, <1>11, <1>12, <1>13 DEF LocalNext, ServerStep, Forgets

(* So a device no pass knows stays unknown while it is not ONLINE, or      *)
(* while the server has a connection to settle.                            *)
LEMMA UnseenStep ==
    ASSUME LocalInv, [LocalNext]_localVars, NEW d \in Devices, Unseen(d), Settling \/ device[d] # "ONLINE"
    PROVE  Unseen(d)'
  BY PassesKnow DEF Unseen, PassesLearn, OnlineDevices

(* What a device holds by claims does not grow while no pass knows it.     *)
LEMMA UnseenGetsNothing ==
    ASSUME LocalInv, [LocalNext]_localVars, NEW d \in Devices, Unseen(d)
    PROVE  Held(d)' \subseteq Held(d)
<1>0. TypeOK /\ TableStep /\ ClaimHasRoom /\ row \in [Tasks -> Row] /\ d # NoDevice
  BY OrderlyFacts, LocalStepImplements, RowAnatomy, NoDeviceAssumption DEF LocalInv, Inv
<1>1. ASSUME NEW p \in Passes, NEW t \in Tasks, Claims(p, t)
      PROVE  Held(d)' \subseteq Held(d)
  <2>1. pass[p].dev # d
    BY <1>0 DEF Unseen, PassDevices
  <2>2. row'[t].device # d /\ \A u \in Tasks : u # t => row'[u] = row[u]
    BY <1>0, <1>1, <2>1 DEF Claims, Claimed, Row
  <2>q. QED BY <2>2 DEF Held, Occupied
<1>q. QED BY <1>0, <1>1, HeldShrinks DEF TableStep

-----------------------------------------------------------------------------
(* A step that is not about the sockets of device d.                       *)
Aloof(d) ==
    /\ link'[d] = link[d] /\ device'[d] = device[d]
    /\ \A s \in Sessions : \/ session'[s] = session[s]
                           \/ session[s].device # d /\ session'[s].device # d

Phase(d) == Attached(d) \/ Leaving(d) \/ Away(d)

(* What a device may have become: away only if it was, or if the server    *)
(* has just put all its tasks back.                                        *)
PhaseStep(d) == Attached(d)' \/ Leaving(d)' \/ (Away(d)' /\ (Away(d) \/ Occupied(d)' = {}))

(* The session of a device that has left it is to be settled.              *)
LEMMA LeavingSettles ==
    ASSUME NEW d \in Devices, Leaving(d)
    PROVE  Settling
<1>1. PICK s \in Sessions : Leaves(s, d)
  BY DEF Leaving
<1>2. session[s].device = d /\ d # NoDevice /\ link[d] # s
  BY <1>1, NoDeviceAssumption, NoLinkAssumption DEF Leaves, OnlySession, Leaving
<1>3. session[s] # NoSession
  BY <1>2 DEF NoSession
<1>q. QED BY <1>2, <1>3 DEF Settling, Abandoned, Leaving

(* Such a step leaves the device where it was.                             *)
LEMMA AloofKeeps ==
    ASSUME LocalInv, [LocalNext]_localVars, NEW d \in Devices, Phase(d), Aloof(d)
    PROVE  PhaseStep(d)
<1>1. \A s \in Sessions : /\ session'[s].device = d <=> session[s].device = d
                          /\ session[s].device = d => session'[s] = session[s]
  BY DEF Aloof
<1>2. link'[d] = link[d] /\ device'[d] = device[d]
  BY DEF Aloof
<1>3. CASE Attached(d)
  <2>1. PICK s \in Sessions : /\ link[d] = s /\ OnlySession(s, d)
                              /\ session[s].open /\ session[s].disconnect = "none"
    BY <1>3 DEF Attached
  <2>2. session'[s] = session[s] /\ OnlySession(s, d)'
    BY <1>1, <2>1 DEF OnlySession
  <2>q. QED BY <1>2, <2>1, <2>2 DEF Attached, PhaseStep
<1>4. CASE Leaving(d)
  <2>1. PICK s \in Sessions : Leaves(s, d)
    BY <1>4 DEF Leaving
  <2>2. session'[s] = session[s] /\ OnlySession(s, d)'
    BY <1>1, <2>1 DEF Leaves, OnlySession
  <2>3. Leaves(s, d)'
    BY <1>2, <2>1, <2>2 DEF Leaves
  <2>4. Unseen(d)'
    BY <1>4, LeavingSettles, UnseenStep DEF Leaving
  <2>q. QED BY <1>2, <1>4, <2>3, <2>4 DEF Leaving, PhaseStep
<1>5. CASE Away(d)
  <2>1. Unseen(d)'
    BY <1>5, UnseenStep DEF Away
  <2>2. Held(d)' = {}
    BY <1>5, UnseenGetsNothing DEF Away
  <2>q. QED BY <1>1, <1>2, <1>5, <2>1, <2>2 DEF Away, PhaseStep
<1>q. QED BY <1>3, <1>4, <1>5 DEF Phase

(* The agent connects: only one that is away, since a session that has yet *)
(* to be settled keeps it out.                                             *)
LEMMA OpenAttaches ==
    ASSUME LocalInv, NEW d \in Devices, Phase(d), ~Settling, Open(d)
    PROVE  Attached(d)'
<1>0. /\ session \in [Sessions -> Session] /\ link \in [Devices -> Sessions \cup {NoLink}]
      /\ d # NoDevice
  BY OrderlyFacts, NoDeviceAssumption
<1>1. PICK s \in Sessions : Connect(s, d) /\ link' = [link EXCEPT ![d] = s]
  BY DEF Open
<1>2. link[d] = NoLink
  BY DEF Open
<1>3. ~Attached(d)
  BY <1>2, NoLinkAssumption DEF Attached
<1>4. Away(d)
  BY <1>3, LeavingSettles DEF Phase
<1>5. /\ session'[s].device = d /\ session'[s].open /\ session'[s].disconnect = "none"
      /\ \A q \in Sessions : q # s => session'[q] = session[q]
  BY <1>0, <1>1 DEF Connect
<1>6. link'[d] = s
  BY <1>0, <1>1
<1>7. OnlySession(s, d)'
  BY <1>4, <1>5 DEF OnlySession, Away
<1>q. QED BY <1>5, <1>6, <1>7 DEF Attached

(* The connection breaks while nothing else is under way.                  *)
LEMMA FaultLeaves ==
    ASSUME Orderly, LocalInv, BlankPasses, NEW d \in Devices, Phase(d), Fault(d)
    PROVE  PhaseStep(d)
<1>0. link \in [Devices -> Sessions \cup {NoLink}]
  BY OrderlyFacts
<1>1. /\ link'[d] = NoLink
      /\ UNCHANGED <<row, device, session, pass>>
  BY <1>0 DEF Fault, Cut, vars, gatewayVars, dispatchVars, tableVars
<1>2. /\ \A p \in Passes : pass[p].pc = "free"
      /\ \A s \in Sessions : session[s].connect = "done"
  BY DEF Fault, Undisturbed
<1>3. /\ Unseen(d)' <=> Unseen(d)
      /\ \A s \in Sessions : Leaves(s, d)' <=> Leaves(s, d)
  BY <1>1 DEF Unseen, PassDevices, Leaves, OnlySession
<1>4. CASE Attached(d)
  <2>1. PICK s \in Sessions : /\ link[d] = s /\ OnlySession(s, d)
                              /\ session[s].open /\ session[s].disconnect = "none"
    BY <1>4 DEF Attached
  <2>2. Leaves(s, d) /\ Unseen(d)
    BY <1>2, <2>1 DEF Leaves, Unseen, BlankPasses
  <2>q. QED BY <1>1, <1>3, <2>2 DEF Leaving, PhaseStep
<1>5. CASE Leaving(d)
  BY <1>1, <1>3, <1>5 DEF Leaving, PhaseStep
<1>6. CASE Away(d)
  BY <1>1, <1>3, <1>6 DEF Away, Held, Occupied, PhaseStep
<1>q. QED BY <1>4, <1>5, <1>6 DEF Phase

(* The handlers of a session of d.                                         *)
LEMMA IdentifyKeeps ==
    ASSUME LocalInv, NEW d \in Devices, Phase(d), device[d] # "GONE",
           NEW s \in Sessions, session[s].device = d, UNCHANGED link, Identify(s) \/ MarkOnline(s)
    PROVE  Attached(d)'
<1>0. session \in [Sessions -> Session] /\ session[s] \in Session
  BY OrderlyFacts
<1>1. session[s].connect # "done"
  BY DEF Identify, MarkOnline
<1>2. /\ link[d] = s /\ OnlySession(s, d)
      /\ session[s].open /\ session[s].disconnect = "none"
  BY <1>1 DEF Phase, Attached, Leaving, Leaves, Away, OnlySession
<1> DEFINE y == [session[s] EXCEPT !.connect = "mark"]
           z == [session[s] EXCEPT !.connect = "done"]
<1>3. /\ y.device = d /\ y.open /\ y.disconnect = "none"
      /\ z.device = d /\ z.open /\ z.disconnect = "none" /\ Settled(z) = z
  BY <1>0, <1>2 DEF Session, Settled
<1>4. session' = [session EXCEPT ![s] = y] \/ session' = [session EXCEPT ![s] = z]
  BY <1>3 DEF Identify, MarkOnline
<1> HIDE DEF y, z
<1>5. /\ session'[s].device = d /\ session'[s].open /\ session'[s].disconnect = "none"
      /\ \A q \in Sessions : q # s => session'[q] = session[q]
  BY <1>0, <1>3, <1>4
<1>6. OnlySession(s, d)'
  BY <1>2, <1>5 DEF OnlySession
<1>q. QED BY <1>2, <1>5, <1>6 DEF Attached

(* The server notices that the device has left, and marks it OFFLINE.      *)
LEMMA DropKeeps ==
    ASSUME LocalInv, [LocalNext]_localVars, NEW d \in Devices, Phase(d), device[d] # "GONE",
           NEW s \in Sessions, session[s].device = d, UNCHANGED link,
           (Abandoned(s) /\ Drop(s)) \/ MarkOffline(s)
    PROVE  Leaving(d)'
<1>0. /\ session \in [Sessions -> Session] /\ session[s] \in Session /\ d # NoDevice
      /\ device \in [Devices -> {"ONLINE", "OFFLINE", "GONE"}]
  BY OrderlyFacts, NoDeviceAssumption
<1>1. ~Attached(d)
  BY DEF Attached, OnlySession, Abandoned, MarkOffline
<1>2. Leaving(d) /\ Leaves(s, d)
  BY <1>1 DEF Phase, Leaving, Leaves, Away, OnlySession
<1>3. Unseen(d)'
  BY <1>2, LeavingSettles, UnseenStep DEF Leaving
<1> DEFINE y == [session[s] EXCEPT !.open = FALSE, !.disconnect = "mark"]
           z == [session[s] EXCEPT !.disconnect = "requeue"]
<1>4. CASE Drop(s)
  <2>1. Identified(s)
    BY <1>0, <1>2 DEF Identified, Leaves
  <2>2. session' = [session EXCEPT ![s] = y] /\ UNCHANGED device
    BY <1>4, <2>1 DEF Drop
  <2>3. y.device = d /\ ~y.open /\ y.disconnect = "mark" /\ y.connect = "done"
    BY <1>0, <1>2 DEF Session, Leaves
  <2> HIDE DEF y
  <2>4. session'[s] = y /\ \A q \in Sessions : q # s => session'[q] = session[q]
    BY <1>0, <2>2
  <2>5. OnlySession(s, d)'
    BY <1>2, <2>3, <2>4 DEF OnlySession, Leaves
  <2>6. Leaves(s, d)'
    BY <2>3, <2>4, <2>5 DEF Leaves
  <2>q. QED BY <1>2, <1>3, <2>6 DEF Leaving
<1>5. CASE MarkOffline(s)
  <2>1. session' = [session EXCEPT ![s] = z] /\ ~session[s].open
    BY <1>2, <1>5 DEF MarkOffline, Leaves
  <2>2. z.device = d /\ ~z.open /\ z.disconnect = "requeue" /\ z.connect = "done"
    BY <1>0, <1>2, <2>1 DEF Session, Leaves
  <2> HIDE DEF z
  <2>3. session'[s] = z /\ \A q \in Sessions : q # s => session'[q] = session[q]
    BY <1>0, <2>1
  <2>4. device'[d] = "OFFLINE"
    BY <1>0, <1>5 DEF MarkOffline, SetStatus
  <2>5. OnlySession(s, d)'
    BY <1>2, <2>2, <2>3 DEF OnlySession, Leaves
  <2>6. Leaves(s, d)'
    BY <2>2, <2>3, <2>4, <2>5 DEF Leaves
  <2>q. QED BY <1>2, <1>3, <2>6 DEF Leaving
<1>q. QED BY <1>4, <1>5

(* The server has put the tasks of the device back, and is through with it.*)
LEMMA RequeueEmpties ==
    ASSUME LocalInv, [LocalNext]_localVars, NEW d \in Devices, Phase(d),
           NEW s \in Sessions, session[s].device = d, UNCHANGED link, Requeue(s)
    PROVE  Away(d)' /\ Occupied(d)' = {}
<1>0. /\ session \in [Sessions -> Session] /\ session[s] \in Session /\ d # NoDevice
      /\ row \in [Tasks -> Row] /\ session[s].disconnect = "requeue"
  BY OrderlyFacts, NoDeviceAssumption DEF Requeue
<1>1. ~Attached(d)
  BY <1>0 DEF Attached, OnlySession
<1>2. Leaving(d) /\ Leaves(s, d) /\ ~session[s].open
  BY <1>0, <1>1 DEF Phase, Leaving, Leaves, Away, OnlySession
<1>3. Unseen(d)'
  BY <1>2, LeavingSettles, UnseenStep DEF Leaving
<1> DEFINE z == [session[s] EXCEPT !.disconnect = "none"]
<1>4. Settled(z) = NoSession
  BY <1>0, <1>2 DEF Session, Leaves, Settled
<1>5. session' = [session EXCEPT ![s] = NoSession] /\ UNCHANGED device
  BY <1>4 DEF Requeue
<1>6. session'[s].device # d /\ \A q \in Sessions : q # s => session'[q] = session[q]
  BY <1>0, <1>5 DEF NoSession
<1>7. \A q \in Sessions : session'[q].device # d
  BY <1>2, <1>6 DEF Leaves, OnlySession
<1>8. Occupied(d)' = {}
  <2>1. \A t \in Tasks : row'[t] = IF t \in Occupied(d) THEN Requeued(row[t]) ELSE row[t]
    BY DEF Requeue
  <2>2. \A t \in Tasks : Requeued(row[t]).device = NoDevice
    BY <1>0 DEF Requeued, Row
  <2>q. QED BY <1>0, <2>1, <2>2 DEF Occupied
<1>9. Held(d)' = {}
  BY <1>8 DEF Held
<1>q. QED BY <1>0, <1>2, <1>3, <1>5, <1>7, <1>8, <1>9 DEF Away, Leaving, Leaves

-----------------------------------------------------------------------------
(* The sessions of other devices are none of a device's business.          *)
LEMMA OthersAloof ==
    ASSUME LocalInv, NEW d \in Devices, NEW s \in Sessions, session[s].device # d, UNCHANGED link,
           Identify(s) \/ MarkOnline(s) \/ MarkOffline(s) \/ Requeue(s) \/ Drop(s)
    PROVE  Aloof(d)
<1>0. /\ session \in [Sessions -> Session] /\ session[s] \in Session /\ d # NoDevice
      /\ device \in [Devices -> {"ONLINE", "OFFLINE", "GONE"}]
  BY OrderlyFacts, NoDeviceAssumption
<1>1. device'[d] = device[d]
  BY <1>0 DEF Identify, MarkOnline, MarkOffline, Requeue, Drop, SetStatus
<1> DEFINE Its(x) == x = NoSession \/ x.device = session[s].device
<1>2. /\ Its([session[s] EXCEPT !.connect = "mark"])
      /\ Its([session[s] EXCEPT !.connect = "done"])
      /\ Its([session[s] EXCEPT !.disconnect = "requeue"])
      /\ Its([session[s] EXCEPT !.disconnect = "none"])
      /\ \A how \in {"mark", "none"} : Its([session[s] EXCEPT !.open = FALSE, !.disconnect = how])
  BY <1>0 DEF Session
<1>3. PICK x : session' = [session EXCEPT ![s] = x] /\ Its(x)
  <2>1. CASE Identify(s)
    BY <1>2, <2>1 DEF Identify
  <2>2. CASE MarkOnline(s)
    BY <1>2, <2>2 DEF MarkOnline, Settled
  <2>3. CASE MarkOffline(s)
    BY <1>2, <2>3 DEF MarkOffline
  <2>4. CASE Requeue(s)
    BY <1>2, <2>4 DEF Requeue, Settled
  <2>5. CASE Drop(s)
    BY <1>2, <2>5 DEF Drop
  <2>q. QED BY <2>1, <2>2, <2>3, <2>4, <2>5
<1>4. x.device # d
  BY <1>0, <1>3 DEF NoSession
<1>5. session'[s] = x /\ \A q \in Sessions : q # s => session'[q] = session[q]
  BY <1>0, <1>3
<1>q. QED BY <1>1, <1>4, <1>5 DEF Aloof

(* A device is removed, or one that has been is refused.                   *)
Removing ==
    \/ \E s \in Sessions : Refuse(s)
    \/ \E d \in Devices : DeleteDevice(d)

(* Who may touch the sockets.                                              *)
LEMMA SocketsMove ==
    ASSUME [LocalNext]_localVars
    PROVE  \/ UNCHANGED <<device, session, link>>
           \/ \E s \in Sessions : UNCHANGED link /\ (SessionHandler(s) \/ Notice(s))
           \/ \E d \in Devices : ~Settling /\ Open(d)
           \/ \E d \in Devices : Lose(d) \/ Crash(d)
           \/ Removing
<1> DEFINE Still == UNCHANGED <<device, session, link>>
<1>1. ASSUME NEW s \in Sessions, SessionHandler(s) \/ Notice(s) PROVE UNCHANGED link
  BY <1>1 DEF SessionHandler, Notice, wires
<1>2. CASE \E r \in Requests, op \in Ops, t \in Tasks : LoadAndAbort(r, op, t)
  BY <1>2 DEF LoadAndAbort, LoadTask, gatewayVars
<1>3. CASE OtherRequest
  BY <1>3 DEF OtherRequest, CreateTask, UpdateTask, RouteTask, gatewayVars, wires
<1>4. CASE \E t \in Tasks : Delete(t) \/ Apply(t)
  BY <1>4 DEF Delete, RemoveTask, Apply, ApplyReport, wires
<1>5. CASE SaveSettings
  BY <1>5 DEF SaveSettings, Reconfigure, Configure, wires
<1>6. ASSUME NEW p \in Passes, Assign(p) \/ OtherPassStep(p) PROVE Still
  BY <1>6 DEF Assign, SendAssign, OtherPassStep, ReadConnection, ReadDevices, ClaimOldest, Claim, CountSlots, wires
<1>7. ASSUME NEW d \in Devices, Upload(d) \/ Deliver(d) PROVE Still
  BY <1>7 DEF Upload, Receive, Deliver, vars, gatewayVars
<1>8. ASSUME NEW c \in Runs, Fire(c) \/ \E outcome \in Ends : Close(c, outcome) PROVE Still
  BY <1>8 DEF Fire, Close, vars, gatewayVars
<1>9. CASE UNCHANGED localVars
  BY <1>9 DEF localVars, vars, gatewayVars, wires
<1> HIDE DEF Still
<1>10. CASE ServerStep
  <2>1. CASE \E s \in Sessions : SessionHandler(s) \/ Notice(s)
    BY <1>1, <2>1
  <2>q. QED BY <1>2, <1>3, <1>4, <1>5, <1>6, <1>10, <2>1 DEF ServerStep, Still, Removing
<1>11. CASE AgentStep
  BY <1>7, <1>8, <1>11 DEF AgentStep, Still
<1>q. QED BY <1>9, <1>10, <1>11 DEF LocalNext

(* In a tidy world neither happens.                                        *)
LEMMA NothingRemoved ==
    ASSUME Tidy, OrderlyInv
    PROVE  ~Removing
<1>1. ASSUME NEW s \in Sessions, Refuse(s) PROVE FALSE
  <2>1. session[s].connect = "find" /\ device[session[s].device] = "GONE"
    BY <1>1 DEF Refuse, Identify, Unknown
  <2>2. session[s] # NoSession
    BY <2>1 DEF NoSession
  <2>q. QED BY <2>1, <2>2 DEF OrderlyInv, OfDevices
<1>2. ASSUME NEW d \in Devices, DeleteDevice(d) PROVE FALSE
  BY <1>2 DEF DeleteDevice, RemoveDevice, Tidy
<1>q. QED BY <1>1, <1>2 DEF Removing

(* Every step takes every device to one of the phases again.               *)
LEMMA PhaseKept ==
    ASSUME Tidy, OrderlyInv, [LocalNext]_localVars, NEW d \in Devices
    PROVE  PhaseStep(d)
<1>0. /\ LocalInv /\ BlankPasses /\ device[d] # "GONE" /\ Phase(d)
      /\ session \in [Sessions -> Session] /\ link \in [Devices -> Sessions \cup {NoLink}]
      /\ d # NoDevice
  BY OrderlyFacts, NoDeviceAssumption DEF OrderlyInv, Phase
<1>1. ASSUME UNCHANGED <<device, session, link>> PROVE PhaseStep(d)
  BY <1>0, <1>1, AloofKeeps DEF Aloof
<1>2. ASSUME NEW s \in Sessions, UNCHANGED link, SessionHandler(s) \/ Notice(s) PROVE PhaseStep(d)
  <2>1. CASE session[s].device # d
    <3>1. Identify(s) \/ MarkOnline(s) \/ MarkOffline(s) \/ Requeue(s) \/ Drop(s)
      BY <1>2 DEF SessionHandler, Notice
    <3>q. QED BY <1>0, <1>2, <2>1, <3>1, OthersAloof, AloofKeeps
  <2>2. CASE session[s].device = d /\ (Identify(s) \/ MarkOnline(s))
    BY <1>0, <1>2, <2>2, IdentifyKeeps DEF PhaseStep
  <2>3. CASE session[s].device = d /\ ((Abandoned(s) /\ Drop(s)) \/ MarkOffline(s))
    BY <1>0, <1>2, <2>3, DropKeeps DEF PhaseStep
  <2>4. CASE session[s].device = d /\ Requeue(s)
    BY <1>0, <1>2, <2>4, RequeueEmpties DEF PhaseStep
  <2>q. QED BY <1>2, <2>1, <2>2, <2>3, <2>4 DEF SessionHandler, Notice
<1>3. ASSUME NEW e \in Devices, ~Settling, Open(e) PROVE PhaseStep(d)
  <2>1. CASE e = d
    BY <1>0, <1>3, <2>1, OpenAttaches DEF PhaseStep
  <2>2. CASE e # d
    <3>1. PICK s \in Sessions : Connect(s, e) /\ link' = [link EXCEPT ![e] = s]
      BY <1>3 DEF Open
    <3>2. /\ session[s].device # d /\ session'[s].device # d
          /\ \A q \in Sessions : q # s => session'[q] = session[q]
      BY <1>0, <2>2, <3>1 DEF Connect, NoSession
    <3>3. Aloof(d)
      BY <1>0, <2>2, <3>1, <3>2 DEF Aloof, Connect
    <3>q. QED BY <1>0, <3>3, AloofKeeps
  <2>q. QED BY <2>1, <2>2
<1>4. ASSUME NEW e \in Devices, Lose(e) \/ Crash(e) PROVE PhaseStep(d)
  <2>1. Orderly /\ Fault(e)
    BY <1>4 DEF Lose, Crash, Tidy
  <2>2. CASE e = d
    BY <1>0, <2>1, <2>2, FaultLeaves
  <2>3. CASE e # d
    <3>1. Aloof(d)
      BY <1>0, <2>1, <2>3 DEF Fault, Cut, Aloof, vars, gatewayVars
    <3>q. QED BY <1>0, <3>1, AloofKeeps
  <2>q. QED BY <2>2, <2>3
<1>q. QED BY <1>1, <1>2, <1>3, <1>4, SocketsMove, NothingRemoved

(* Where no device is removed none is gone.                                *)
LEMMA NeverGone ==
    ASSUME Tidy, OrderlyInv, [LocalNext]_localVars, NEW d \in Devices
    PROVE  device'[d] # "GONE"
<1>0. device \in [Devices -> {"ONLINE", "OFFLINE", "GONE"}] /\ device[d] # "GONE"
  BY OrderlyFacts DEF OrderlyInv
<1>1. ASSUME NEW s \in Sessions, SessionHandler(s) \/ Notice(s) PROVE device'[d] # "GONE"
  BY <1>0, <1>1 DEF SessionHandler, Notice, Identify, MarkOnline, MarkOffline, Requeue, Drop, SetStatus
<1>2. ASSUME NEW e \in Devices, Open(e) \/ Lose(e) \/ Crash(e) PROVE UNCHANGED device
  BY <1>2 DEF Open, Connect, Lose, Crash, Fault, vars, gatewayVars
<1>q. QED BY <1>0, <1>1, <1>2, SocketsMove, NothingRemoved

(* A socket remains that of the same device until the server forgets it,   *)
(* and that of an identified one.                                          *)
LEMMA SameSocket ==
    ASSUME LocalInv, [LocalNext]_localVars, NEW s \in Sessions, session[s] # NoSession
    PROVE  \/ session'[s] = NoSession
           \/ /\ session'[s].device = session[s].device
              /\ session'[s].connect = "find" => session[s].connect = "find"
<1>0. session \in [Sessions -> Session]
  BY OrderlyFacts
<1> DEFINE Its(x) == \/ x = NoSession
                     \/ /\ x.device = session[s].device
                        /\ x.connect = "find" => session[s].connect = "find"
<1>1. /\ Its([session[s] EXCEPT !.connect = "mark"])
      /\ Its([session[s] EXCEPT !.connect = "done"])
      /\ Its([session[s] EXCEPT !.disconnect = "requeue"])
      /\ Its([session[s] EXCEPT !.disconnect = "none"])
      /\ \A how \in {"mark", "none"} : Its([session[s] EXCEPT !.open = FALSE, !.disconnect = how])
  <2>1. session[s] \in Session
    BY <1>0
  <2>q. QED BY <2>1 DEF Session
<1>2. ASSUME SessionHandler(s) \/ Notice(s) PROVE Its(session'[s])
  <2>1. PICK x : session' = [session EXCEPT ![s] = x] /\ Its(x)
    <3>1. CASE Identify(s)
      BY <1>1, <3>1 DEF Identify
    <3>2. CASE MarkOnline(s)
      BY <1>1, <3>2 DEF MarkOnline, Settled
    <3>3. CASE MarkOffline(s)
      BY <1>1, <3>3 DEF MarkOffline
    <3>4. CASE Requeue(s)
      BY <1>1, <3>4 DEF Requeue, Settled
    <3>5. CASE Drop(s)
      BY <1>1, <3>5 DEF Drop
    <3>q. QED BY <1>2, <3>1, <3>2, <3>3, <3>4, <3>5 DEF SessionHandler, Notice
  <2>q. QED BY <1>0, <2>1
<1>3. ASSUME NEW q \in Sessions, q # s, SessionHandler(q) \/ Notice(q) PROVE session'[s] = session[s]
  BY <1>0, <1>3 DEF SessionHandler, Notice, Identify, MarkOnline, MarkOffline, Requeue, Drop
<1>4. ASSUME NEW d \in Devices, Open(d) \/ Lose(d) \/ Crash(d) PROVE session'[s] = session[s]
  BY <1>0, <1>4 DEF Open, Connect, Lose, Crash, Fault, vars, gatewayVars
<1>5. ASSUME Removing PROVE session'[s] = session[s] \/ session'[s] = NoSession
  BY <1>0, <1>5 DEF Removing, Refuse, Unknown, Identify, DeleteDevice, RemoveDevice
<1>q. QED BY <1>2, <1>3, <1>4, <1>5, SocketsMove

(* And a socket that is opened is that of the device that opens it.        *)
LEMMA OfDevicesKept ==
    ASSUME LocalInv, OfDevices, [LocalNext]_localVars
    PROVE  OfDevices'
<1>0. session \in [Sessions -> Session]
  BY OrderlyFacts
<1>1. ASSUME NEW s \in Sessions, session[s] = NoSession, session'[s] # NoSession
      PROVE  session'[s].device \in Devices
  <2>1. ASSUME NEW q \in Sessions, SessionHandler(q) \/ Notice(q) PROVE session'[s] = session[s]
    <3>1. q # s
      BY <1>1, <2>1 DEF SessionHandler, Notice, Identify, MarkOnline, MarkOffline, Requeue, Abandoned, NoSession
    <3>q. QED
      BY <1>0, <2>1, <3>1 DEF SessionHandler, Notice, Identify, MarkOnline, MarkOffline, Requeue, Drop
  <2>2. ASSUME NEW d \in Devices, Lose(d) \/ Crash(d) PROVE session'[s] = session[s]
    BY <2>2 DEF Lose, Crash, Fault, vars, gatewayVars
  <2>3. ASSUME NEW d \in Devices, Open(d) PROVE session'[s] = session[s] \/ session'[s].device = d
    BY <1>0, <2>3 DEF Open, Connect
  <2>4. ASSUME Removing PROVE session'[s] = session[s] \/ session'[s] = NoSession
    BY <1>0, <2>4 DEF Removing, Refuse, Unknown, Identify, DeleteDevice, RemoveDevice
  <2>q. QED BY <1>1, <2>1, <2>2, <2>3, <2>4, SocketsMove
<1>2. ASSUME NEW s \in Sessions, session[s] # NoSession, session'[s] # NoSession
      PROVE  session'[s].device \in Devices
  BY <1>2, SameSocket DEF OfDevices
<1>q. QED BY <1>1, <1>2 DEF OfDevices

(* An orderly world starts with every device away ...                      *)
LEMMA OrderlyInit == LocalInit => OrderlyInv
<1> SUFFICES ASSUME LocalInit PROVE OrderlyInv
  OBVIOUS
<1>1. LocalInv
  BY LocalInvInit
<1>2. /\ \A p \in Passes : pass[p] = NoRun
      /\ \A s \in Sessions : session[s] = NoSession
      /\ \A d \in Devices : link[d] = NoLink /\ device[d] = "OFFLINE"
      /\ \A t \in Tasks : row[t] = NoRow
  BY DEF LocalInit, Init, GatewayInit, TableInit
<1>3. \A p \in Passes : PassDevices(p) = {}
  BY <1>2 DEF PassDevices, NoRun
<1>4. ASSUME NEW d \in Devices PROVE Away(d)
  <2>1. Held(d) = {}
    BY <1>2 DEF Held, Occupied, NoRow, Occupying
  <2>2. \A s \in Sessions : session[s].device # d
    BY <1>2, NoDeviceAssumption DEF NoSession
  <2>q. QED BY <1>2, <1>3, <2>1, <2>2 DEF Away, Unseen
<1>q. QED BY <1>1, <1>2, <1>3, <1>4 DEF OrderlyInv, BlankPasses, OfDevices

(* ... and keeps every device in one of its phases.                        *)
LEMMA OrderlyStep ==
    ASSUME Tidy, OrderlyInv, [LocalNext]_localVars
    PROVE  OrderlyInv'
<1>1. LocalInv'
  BY LocalInvStep DEF OrderlyInv
<1>2. BlankPasses'
  <2>1. TypeOK /\ DispatcherTypeOK /\ [Next]_vars
    BY OrderlyFacts, LocalStepImplements DEF OrderlyInv, DispatcherOK
  <2>q. QED BY <2>1, PassAnatomy, BlankStep DEF OrderlyInv
<1>3. ASSUME NEW d \in Devices PROVE device'[d] # "GONE" /\ (Attached(d) \/ Leaving(d) \/ Away(d))'
  BY NeverGone, PhaseKept DEF OrderlyInv, PhaseStep
<1>4. OfDevices'
  BY OfDevicesKept DEF OrderlyInv
<1>q. QED BY <1>1, <1>2, <1>3, <1>4 DEF OrderlyInv

(* In a tidy world every device is attached, leaving or away.              *)
LEMMA OrderlyInvariance == ASSUME Tidy PROVE LocalSpec => []OrderlyInv
<1>1. OrderlyInv /\ [LocalNext]_localVars => OrderlyInv'
  BY OrderlyStep
<1>q. QED BY <1>1, OrderlyInit, PTL DEF LocalSpec

-----------------------------------------------------------------------------
(* Only devices that are connected are given tasks, get orders or work;    *)
(* one that has left is ONLINE until the server has dealt with it.         *)
Wired ==
    /\ \A d \in Devices : device[d] = "ONLINE" => Heard(d) \/ Leaving(d)
    /\ \A p \in Passes : \A d \in PassDevices(p) : Heard(d)
    /\ \A d \in Devices : down[d] # <<>> \/ up[d] # <<>> => Heard(d)
    /\ \A c \in Runs : run[c].st # "free" => Heard(run[c].host)

(* An assignment goes to a device. *)
AssignsToDevice == \A p \in Passes : pass[p].pc = "assign" => pass[p].dev \in Devices

CalmInv ==
    /\ OrderlyInv
    /\ AssignsToDevice
    /\ NoPause
    /\ Wired
    /\ \A t \in Tasks : CalmTask(t)

-----------------------------------------------------------------------------
(* What stays as it is when the variables that say it do.                  *)
LEMMA Standing ==
    ASSUME NEW t \in Tasks
    PROVE  /\ UNCHANGED <<row, created>> => SameRow(t)
           /\ UNCHANGED pass => SamePasses(t)
           /\ UNCHANGED down => SameOrders(t)
           /\ UNCHANGED run => SameRuns(t)
           /\ UNCHANGED up => SameTells(t)
           /\ UNCHANGED <<chain, pass>> => SameChain(t)
           /\ UNCHANGED req => StillPending(t)
           /\ UNCHANGED <<down, run>> => NoNewAbort(t)
<1>1. UNCHANGED <<row, created>> => SameRow(t)
  BY DEF SameRow
<1>2. UNCHANGED pass => SamePasses(t)
  BY DEF SamePasses, Assigning
<1>3. UNCHANGED down => SameOrders(t)
  BY DEF SameOrders
<1>4. UNCHANGED run => SameRuns(t)
  BY DEF SameRuns, Ran
<1>5. UNCHANGED up => SameTells(t)
  BY DEF SameTells
<1>6. UNCHANGED <<chain, pass>> => SameChain(t)
  BY DEF SameChain, Unapplied, AwaitsPass
<1>7. UNCHANGED req => StillPending(t)
  BY DEF StillPending, CancelPending
<1>8. UNCHANGED <<down, run>> => NoNewAbort(t)
  <2> SUFFICES ASSUME UNCHANGED <<down, run>> PROVE NoNewAbort(t)
    OBVIOUS
  <2>1. \A d \in Devices : AbortsIn(down'[d], t) <=> AbortsIn(down[d], t)
    OBVIOUS
  <2>2. \A c \in Runs : (Ran(c, t)' <=> Ran(c, t)) /\ run'[c].abort = run[c].abort
    BY DEF Ran
  <2>q. QED BY <2>1, <2>2 DEF NoNewAbort, AbortPending
<1>q. QED BY <1>1, <1>2, <1>3, <1>4, <1>5, <1>6, <1>7, <1>8

(* What the invariant says of the server.                                  *)
LEMMA CalmFacts ==
    ASSUME CalmInv
    PROVE  /\ DispatcherOK /\ TypeOK /\ TableSound /\ WiresTypeOK /\ AgentTypeOK
           /\ row \in [Tasks -> Row] /\ created \in 0..MaxTasks
           /\ req \in [Requests -> Request] /\ session \in [Sessions -> Session]
           /\ device \in [Devices -> {"ONLINE", "OFFLINE", "GONE"}]
           /\ \A t \in Tasks : CalmTask(t)
           /\ \A t \in Tasks : chain[t] \in Seq(Received) /\ chain[t] \in Seq(Reports)
           /\ \A c \in Runs : run[c] = Over \/ run[c] \in Run
<1>1. /\ DispatcherOK /\ TypeOK /\ TableSound /\ WiresTypeOK /\ AgentTypeOK
  BY DEF CalmInv, OrderlyInv, LocalInv, Inv, TypeOK, GatewayTypeOK, DispatcherOK, DispatcherTypeOK
<1>2. /\ row \in [Tasks -> Row] /\ created \in 0..MaxTasks
      /\ req \in [Requests -> Request] /\ session \in [Sessions -> Session]
      /\ device \in [Devices -> {"ONLINE", "OFFLINE", "GONE"}]
      /\ chain \in [Tasks -> Seq(Received)]
  BY <1>1 DEF TypeOK, TableTypeOK, TasksTypeOK, GatewayTypeOK
<1>3. \A t \in Tasks : chain[t] \in Seq(Received) /\ chain[t] \in Seq(Reports)
  BY <1>2, ReceivedAssumption
<1>4. \A c \in Runs : run[c] = Over \/ run[c] \in Run
  BY <1>1 DEF AgentTypeOK
<1>q. QED BY <1>1, <1>2, <1>3, <1>4 DEF CalmInv

(* A task about which nothing is under way, and which holds no slot.       *)
LEMMA RestKeeps ==
    ASSUME NEW t \in Tasks, NothingUnderWay(t)', ~InSlot(t)', AbortIsCancel(t)'
    PROVE  CalmTask(t)'
<1>1. OneExecutor(t)'
  BY DEF NothingUnderWay, Executor, ToBeAssigned, ToBeStarted, Started, OneExecutor, AssignsOnce, AssignsIn
<1>q. QED BY <1>1 DEF CalmTask, RestsInPeace, OnItsDevice, EndIsLast, Kept, Voiced

-----------------------------------------------------------------------------
(* The requests.                                                           *)
SameButRow(t) == SamePasses(t) /\ SameOrders(t) /\ SameRuns(t) /\ SameTells(t) /\ SameChain(t)

(* A task the step is not about.                                           *)
LEMMA UnmovedKeeps ==
    ASSUME Steady, NEW t \in Tasks, CalmTask(t), SameRow(t), SameButRow(t), StillPending(t), NoNewAbort(t)
    PROVE  CalmTask(t)'
<1>1. SteadyFor(t)
  BY SteadyTask DEF SameRow
<1>q. QED BY <1>1, AbortsExplained, UntouchedKeeps DEF SameButRow

(* A step that at most asks for a pass.                                    *)
LEMMA AskedForPass ==
    ASSUME CalmInv, UNCHANGED <<chain, run, down, up>>, Dispatch(NoTask) \/ UNCHANGED pass
    PROVE  /\ \A t \in Tasks : SameButRow(t) /\ NoNewAbort(t)
           /\ \A q \in Passes : PassDevices(q)' \subseteq PassDevices(q)
<1>1. DispatcherOK
  BY CalmFacts
<1>2. ASSUME NEW p \in Passes, Enqueues(p, NoTask)
      PROVE  /\ \A t \in Tasks : SamePasses(t) /\ SameChain(t)
             /\ \A q \in Passes : PassDevices(q)' \subseteq PassDevices(q)
  BY <1>1, <1>2, EnqueueKeeps DEF Tasks, NoTask
<1>3. CASE Dispatch(NoTask)
  BY <1>2, <1>3, DispatchEnqueues, Standing DEF SameButRow
<1>4. CASE UNCHANGED pass
  BY <1>4, Standing DEF SameButRow, PassDevices
<1>q. QED BY <1>3, <1>4

(* What is sent to a device is in its queue if the device hears it.        *)
LEMMA SendKeeps ==
    ASSUME WiresTypeOK, NEW d \in Devices, NEW order \in {"assign", "pause", "cancel"},
           NEW x \in Tasks, Send(d, order, x), NEW t \in Tasks, NEW e \in Devices
    PROVE  /\ AssignsIn(down'[e], t) <=> \/ AssignsIn(down[e], t)
                                         \/ order = "assign" /\ x = t /\ e = d /\ Heard(d)
           /\ AbortsIn(down'[e], t) <=> \/ AbortsIn(down[e], t)
                                        \/ order # "assign" /\ x = t /\ e = d /\ Heard(d)
           /\ AssignsOnce(down[e], t) /\ ~(AssignsIn(down[e], t) /\ order = "assign" /\ x = t /\ e = d)
                => AssignsOnce(down'[e], t)
<1> DEFINE m == [order |-> order, task |-> x]
<1>1. m \in Orders /\ (AssignOf(m, t) <=> order = "assign" /\ x = t)
      /\ (AbortOf(m, t) <=> order # "assign" /\ x = t)
  BY DEF Orders, AssignOf, AbortOf
<1>2. down \in [Devices -> Seq(Orders)]
  BY DEF WiresTypeOK
<1>3. down' = IF Heard(d) THEN [down EXCEPT ![d] = Append(@, m)] ELSE down
  BY DEF Send
<1> HIDE DEF m
<1>4. down'[e] = IF Heard(d) /\ e = d THEN Append(down[e], m) ELSE down[e]
  BY <1>2, <1>3
<1>5. down[e] \in Seq(Orders)
  BY <1>2
<1>q. QED BY <1>1, <1>4, <1>5, OrderSent

(* A new task: nothing is under way about one that does not exist.         *)
LEMMA CreateKeeps ==
    ASSUME Calm, CalmInv, Steady, NEW r \in Requests, CreateTask(r), UNCHANGED <<agentVars, wires>>
    PROVE  (\A t \in Tasks : CalmTask(t)') /\ NoPause'
<1>0. /\ TableSound /\ row \in [Tasks -> Row] /\ created \in 0..MaxTasks
      /\ req \in [Requests -> Request] /\ \A t \in Tasks : CalmTask(t)
  BY CalmFacts
<1>a. req[r].at = "idle" /\ created < MaxTasks
  BY DEF CreateTask, Create
<1>2. PICK n \in Tasks : n = created + 1 /\ n > created
  BY <1>0, <1>a, MaxTasksAssumption DEF Tasks
<1>1. /\ created' = n
      /\ row' = [row EXCEPT ![n] = Inserted]
      /\ req' = [req EXCEPT ![r] = Routing(n)]
      /\ UNCHANGED <<chain, run, down, up, pass>>
  BY <1>2 DEF CreateTask, Create, gatewayVars, dispatchVars, agentVars, wires
<1>3. \A t \in Tasks : SameButRow(t) /\ NoNewAbort(t)
  BY <1>1, AskedForPass
<1>4. \A q \in Requests : req'[q].at = "route" /\ ~(req[q].at = "update")
  BY <1>0, <1>1, <1>a DEF Calm, OneRequest, Routing
<1>5. ASSUME NEW t \in Tasks, t # n PROVE CalmTask(t)'
  <2>1. t > n <=> t > created
    BY <1>0, <1>2, <1>5 DEF Tasks
  <2>2. SameRow(t)
    BY <1>0, <1>1, <1>2, <1>5, <2>1 DEF SameRow, Tasks
  <2>3. StillPending(t)
    BY <1>4 DEF StillPending, CancelPending
  <2>q. QED BY <1>0, <1>3, <2>2, <2>3, UnmovedKeeps
<1>6. CalmTask(n)'
  <2>1. NothingUnderWay(n) /\ ~AbortPending(n)
    BY <1>0, <1>2 DEF CalmTask, RestsInPeace, AbortIsCancel
  <2>2. NothingUnderWay(n)'
    BY <1>2, <1>3, <2>1 DEF SameButRow, SamePasses, SameOrders, SameRuns, SameTells, SameChain,
       NothingUnderWay, Executor, ToBeAssigned, ToBeStarted, Started, Telling
  <2>3. AbortIsCancel(n)'
    BY <1>2, <1>3, <2>1 DEF NoNewAbort, AbortPending, AbortIsCancel
  <2>4. ~InSlot(n)'
    BY <1>0, <1>1, <1>2 DEF InSlot, Inserted, NoRow, Occupying
  <2>q. QED BY <1>2, <2>2, <2>3, <2>4, RestKeeps
<1>7. NoPause'
  <2>1. \A t \in Tasks : row'[t].status # "PAUSED"
    BY <1>0, <1>1 DEF CalmInv, NoPause, Inserted, NoRow
  <2>q. QED BY <1>1, <1>4, <2>1 DEF CalmInv, NoPause
<1>q. QED BY <1>5, <1>6, <1>7

(* A task at rest stays so while nothing about it but its row changes.     *)
LEMMA RestStays ==
    ASSUME NEW t \in Tasks, SameButRow(t), NothingUnderWay(t)
    PROVE  NothingUnderWay(t)'
  BY DEF SameButRow, SamePasses, SameOrders, SameRuns, SameTells, SameChain,
     NothingUnderWay, Executor, ToBeAssigned, ToBeStarted, Started, Telling

(* The handler has checked the row and sends its abort.                    *)
LEMMA LoadKeeps ==
    ASSUME Calm, CalmInv, Steady, NEW r \in Requests, NEW op \in Ops, NEW x \in Tasks, LoadAndAbort(r, op, x)
    PROVE  (\A t \in Tasks : CalmTask(t)') /\ NoPause'
<1>0. /\ TableSound /\ row \in [Tasks -> Row] /\ created \in 0..MaxTasks /\ WiresTypeOK
      /\ req \in [Requests -> Request] /\ \A t \in Tasks : CalmTask(t)
  BY CalmFacts
<1>1. /\ req[r].at = "idle" /\ op \in Asked /\ Exists(x) /\ Allowed(op, row[x].status)
      /\ req' = [req EXCEPT ![r] = [at |-> "update", op |-> op, task |-> x]]
      /\ UNCHANGED <<row, created, chain, run, up, pass>>
      /\ IF SendsAbort(op, row[x]) THEN Send(row[x].device, op, x) ELSE UNCHANGED down
  BY DEF LoadAndAbort, LoadTask, Load, gatewayVars, dispatchVars, agentVars, tableVars
<1>2. op \in {"cancel", "retry"}
  BY <1>1 DEF Calm, Ops, Allowed, CalmInv, NoPause
<1>3. \A q \in Requests : q = r
  BY DEF Calm, OneRequest
<1>4. /\ req'[r].at = "update" /\ req'[r].op = op /\ req'[r].task = x
  BY <1>0, <1>1
<1>5. \/ UNCHANGED down
      \/ op = "cancel" /\ row[x].device \in Devices /\ Send(row[x].device, "cancel", x)
  BY <1>0, <1>1, <1>2 DEF SendsAbort, Row
<1>6. ASSUME NEW t \in Tasks
      PROVE  /\ SameOrders(t)
             /\ t # x \/ op # "cancel" => \A d \in Devices : AbortsIn(down'[d], t) => AbortsIn(down[d], t)
  <2>1. CASE UNCHANGED down
    BY <2>1, Standing
  <2>2. CASE op = "cancel" /\ row[x].device \in Devices /\ Send(row[x].device, "cancel", x)
    BY <1>0, <2>2, SendKeeps DEF SameOrders
  <2>q. QED BY <1>5, <2>1, <2>2
<1>7. \A t \in Tasks : SameRow(t) /\ SameButRow(t) /\ StillPending(t)
  <2>1. \A t \in Tasks : ~CancelPending(t)
    BY <1>1, <1>3 DEF CancelPending
  <2>q. QED BY <1>1, <1>6, <2>1, Standing DEF SameButRow, StillPending
<1>8. ASSUME NEW t \in Tasks, t # x \/ op # "cancel" PROVE CalmTask(t)'
  <2>1. NoNewAbort(t)
    BY <1>1, <1>6, <1>8 DEF NoNewAbort, AbortPending, Ran
  <2>q. QED BY <1>0, <1>7, <2>1, UnmovedKeeps
<1>9. ASSUME op = "cancel" PROVE CalmTask(x)'
  <2>1. CancelPending(x)'
    BY <1>4, <1>9 DEF CancelPending
  <2>2. x <= created'
    BY <1>0, <1>1 DEF TableSound, Tasks
  <2>3. AbortIsCancel(x)'
    BY <2>1, <2>2 DEF AbortIsCancel
  <2>4. SteadyFor(x)
    BY <1>7, SteadyTask DEF SameRow
  <2>q. QED BY <1>0, <1>7, <2>3, <2>4, UntouchedKeeps DEF SameButRow
<1>10. NoPause'
  <2>1. down' \in [Devices -> Seq(CalmOrders)]
    <3> DEFINE m == [order |-> "cancel", task |-> x]
    <3>1. m \in CalmOrders
      BY DEF CalmOrders, Orders
    <3>2. down' = down \/ (row[x].device \in Devices /\ down' = [down EXCEPT ![row[x].device] = Append(@, m)])
      BY <1>5 DEF Send
    <3> HIDE DEF m
    <3>3. down \in [Devices -> Seq(CalmOrders)]
      BY DEF CalmInv, NoPause
    <3>4. row[x].device \in Devices => Append(down[row[x].device], m) \in Seq(CalmOrders)
      BY <3>1, <3>3
    <3>q. QED BY <3>2, <3>3, <3>4
  <2>2. op = "retry" => row[x].status = "FAILED"
    BY <1>1 DEF Allowed
  <2>q. QED BY <1>1, <1>2, <1>3, <1>4, <2>1, <2>2 DEF CalmInv, NoPause
<1>q. QED BY <1>8, <1>9, <1>10

(* The handler writes: a retry into a row that is still FAILED.            *)
LEMMA UpdateKeeps ==
    ASSUME Calm, CalmInv, Steady, NEW r \in Requests, UpdateTask(r), UNCHANGED <<agentVars, wires>>
    PROVE  (\A t \in Tasks : CalmTask(t)') /\ NoPause'
<1>0. /\ TableSound /\ row \in [Tasks -> Row] /\ created \in 0..MaxTasks
      /\ req \in [Requests -> Request] /\ \A t \in Tasks : CalmTask(t)
  BY CalmFacts
<1>1. PICK x : x = req[r].task
  OBVIOUS
<1>2. PICK op : op = req[r].op
  OBVIOUS
<1>3. /\ req[r].at = "update" /\ x \in Tasks /\ op \in {"cancel", "retry"}
      /\ row' = IF Exists(x) THEN [row EXCEPT ![x] = Written(op, @)] ELSE row
      /\ req' = [req EXCEPT ![r] = IF Exists(x) /\ op \in {"resume", "retry"}
                                   THEN Routing(x) ELSE Idle]
      /\ UNCHANGED created
      /\ op = "retry" => row[x].status \in {"FAILED", "NONE"}
  BY <1>0, <1>1, <1>2 DEF UpdateTask, Update, TableSound, CalmInv, NoPause
<1>4. \A q \in Requests : q = r /\ req'[q].at # "update"
  BY <1>0, <1>3 DEF Calm, OneRequest, Routing, Idle
<1>5. UNCHANGED <<chain, run, down, up>> /\ (Dispatch(NoTask) \/ UNCHANGED pass)
  BY DEF UpdateTask, dispatchVars, agentVars, wires
<1>6. \A t \in Tasks : SameButRow(t) /\ NoNewAbort(t)
  BY <1>5, AskedForPass
<1>7. ASSUME NEW t \in Tasks, t # x PROVE CalmTask(t)'
  <2>1. SameRow(t)
    BY <1>0, <1>3, <1>7 DEF SameRow
  <2>2. StillPending(t)
    BY <1>1, <1>4, <1>7 DEF StillPending, CancelPending
  <2>q. QED BY <1>0, <1>6, <2>1, <2>2, UnmovedKeeps
<1>8. ASSUME op = "cancel" PROVE CalmTask(x)'
  <2>1. row'[x].status \in {"CANCELED", "NONE"}
    BY <1>0, <1>3, <1>8 DEF Written, Canceled, Exists, Row
  <2>2. AbortIsCancel(x)'
    <3>1. AbortPending(x)' => x <= created
      BY <1>0, <1>3, <1>6 DEF NoNewAbort, AbortPending, CalmTask, AbortIsCancel
    <3>q. QED BY <1>3, <2>1, <3>1 DEF AbortIsCancel
  <2>3. ~InSlot(x)' /\ ~AtRest(x)'
    BY <2>1 DEF InSlot, AtRest, Occupying
  <2>4. x > created' => NothingUnderWay(x)
    BY <1>0, <1>3 DEF CalmTask, RestsInPeace
  <2>q. QED BY <1>0, <1>3, <1>6, <2>2, <2>3, <2>4, LeavesItsSlot DEF SameButRow
<1>9. ASSUME op = "retry", Exists(x) PROVE CalmTask(x)'
  <2>1. row'[x].status = "QUEUED" /\ row[x].status = "FAILED"
    BY <1>0, <1>3, <1>9 DEF Written, Requeued, Exists, Row
  <2>2. NothingUnderWay(x)'
    BY <1>0, <1>3, <1>6, <2>1, RestStays DEF CalmTask, RestsInPeace, AtRest
  <2>3. ~CancelPending(x)
    BY <1>2, <1>4, <1>9 DEF CancelPending
  <2>4. ~AbortPending(x)
    BY <1>0, <1>3, <2>1, <2>3 DEF CalmTask, AbortIsCancel
  <2>5. AbortIsCancel(x)'
    BY <1>3, <1>6, <2>4 DEF NoNewAbort, AbortPending, AbortIsCancel
  <2>6. ~InSlot(x)'
    BY <2>1 DEF InSlot, Occupying
  <2>q. QED BY <1>3, <2>2, <2>5, <2>6, RestKeeps
<1>10. ASSUME op = "retry", ~Exists(x) PROVE CalmTask(x)'
  <2>1. SameRow(x) /\ ~CancelPending(x)
    BY <1>0, <1>2, <1>3, <1>4, <1>10 DEF SameRow, CancelPending
  <2>q. QED BY <1>0, <1>3, <1>6, <2>1, UnmovedKeeps DEF StillPending
<1>11. NoPause'
  <2>1. \A t \in Tasks : row'[t].status # "PAUSED"
    BY <1>0, <1>3 DEF CalmInv, NoPause, Written, Canceled, Requeued, Row
  <2>q. QED BY <1>4, <1>5, <2>1 DEF CalmInv, NoPause
<1>q. QED BY <1>3, <1>7, <1>8, <1>9, <1>10, <1>11

(* The handler asks for a pass.                                            *)
LEMMA RouteKeeps ==
    ASSUME CalmInv, Steady, NEW r \in Requests, RouteTask(r), UNCHANGED <<agentVars, wires>>
    PROVE  (\A t \in Tasks : CalmTask(t)') /\ NoPause'
<1>0. req \in [Requests -> Request] /\ \A t \in Tasks : CalmTask(t)
  BY CalmFacts
<1>1. /\ req[r].at = "route" /\ req' = [req EXCEPT ![r] = Idle]
      /\ UNCHANGED <<row, created, chain, run, down, up>>
      /\ Dispatch(NoTask) \/ UNCHANGED pass
  BY DEF RouteTask, Route, tableVars, dispatchVars, agentVars, wires
<1>2. \A q \in Requests : \/ req'[q] = req[q]
                          \/ req'[q].at # "update" /\ req[q].at # "update"
  BY <1>0, <1>1 DEF Idle
<1>3. \A t \in Tasks : StillPending(t) /\ SameRow(t) /\ SameButRow(t) /\ NoNewAbort(t)
  <2>1. \A t \in Tasks : StillPending(t)
    BY <1>2 DEF StillPending, CancelPending
  <2>q. QED BY <1>1, <2>1, AskedForPass, Standing
<1>4. \A t \in Tasks : CalmTask(t)'
  BY <1>0, <1>3, UnmovedKeeps
<1>q. QED BY <1>1, <1>2, <1>4 DEF CalmInv, NoPause

(* A deleted task has no row and cannot be cancelled any more.             *)
LEMMA DeleteKeeps ==
    ASSUME CalmInv, Steady, NEW x \in Tasks, Delete(x)
    PROVE  (\A t \in Tasks : CalmTask(t)') /\ NoPause'
<1>0. row \in [Tasks -> Row] /\ (\A t \in Tasks : CalmTask(t)) /\ TableSound
  BY CalmFacts
<1>1. /\ Exists(x) /\ row' = [row EXCEPT ![x] = NoRow]
      /\ UNCHANGED <<created, req, chain, run, down, up, pass>>
  BY DEF Delete, RemoveTask, Remove, dispatchVars, agentVars, wires
<1>2. \A t \in Tasks : StillPending(t) /\ SameButRow(t) /\ NoNewAbort(t)
  BY <1>1, AskedForPass, Standing
<1>3. ASSUME NEW t \in Tasks, t # x PROVE CalmTask(t)'
  <2>1. SameRow(t)
    BY <1>0, <1>1, <1>3 DEF SameRow
  <2>q. QED BY <1>0, <1>2, <2>1, UnmovedKeeps
<1>4. CalmTask(x)'
  <2>1. row'[x].status = "NONE"
    BY <1>0, <1>1 DEF NoRow
  <2>2. AbortIsCancel(x)'
    <3>1. AbortPending(x)' => x <= created
      BY <1>0, <1>2 DEF NoNewAbort, AbortPending, CalmTask, AbortIsCancel
    <3>q. QED BY <1>1, <2>1, <3>1 DEF AbortIsCancel
  <2>3. ~InSlot(x)' /\ ~AtRest(x)'
    BY <2>1 DEF InSlot, AtRest, Occupying
  <2>4. x > created' => NothingUnderWay(x)
    BY <1>0, <1>1 DEF CalmTask, RestsInPeace
  <2>q. QED BY <1>0, <1>2, <2>2, <2>3, <2>4, LeavesItsSlot DEF SameButRow
<1>5. NoPause'
  <2>1. \A t \in Tasks : row'[t].status # "PAUSED" /\ (row'[t] = row[t] \/ row'[t].status = "NONE")
    BY <1>0, <1>1 DEF CalmInv, NoPause, NoRow
  <2>q. QED BY <1>0, <1>1, <2>1 DEF CalmInv, NoPause, TableSound
<1>q. QED BY <1>3, <1>4, <1>5

(* Saving the settings disturbs no task.                                   *)
LEMMA SaveKeeps ==
    ASSUME CalmInv, Steady, SaveSettings
    PROVE  (\A t \in Tasks : CalmTask(t)') /\ NoPause'
<1>0. \A t \in Tasks : CalmTask(t)
  BY CalmFacts
<1>1. /\ UNCHANGED <<row, created, req, chain, run, down, up>>
      /\ Dispatch(NoTask) \/ UNCHANGED pass
  BY DEF SaveSettings, Reconfigure, Configure, tableVars, dispatchVars, agentVars, wires
<1>2. \A t \in Tasks : StillPending(t) /\ SameRow(t) /\ SameButRow(t) /\ NoNewAbort(t)
  BY <1>1, AskedForPass, Standing
<1>3. \A t \in Tasks : CalmTask(t)'
  BY <1>0, <1>2, UnmovedKeeps
<1>q. QED BY <1>1, <1>3 DEF CalmInv, NoPause

(* A session that is being set up, or taken down.                          *)
LEMMA ConnectKeeps ==
    ASSUME CalmInv, Steady,
           \/ \E s \in Sessions : Identify(s) \/ MarkOnline(s) \/ MarkOffline(s) \/ Drop(s)
           \/ \E s \in Sessions, d \in Devices : Connect(s, d),
           UNCHANGED <<req, agentVars, down, up>>
    PROVE  (\A t \in Tasks : CalmTask(t)') /\ NoPause'
<1>0. \A t \in Tasks : CalmTask(t)
  BY CalmFacts
<1>1. /\ UNCHANGED <<row, created, req, chain, run, down, up>>
      /\ Dispatch(NoTask) \/ UNCHANGED pass
  BY DEF Identify, MarkOnline, MarkOffline, Drop, Connect, tableVars, dispatchVars, agentVars
<1>2. \A t \in Tasks : StillPending(t) /\ SameRow(t) /\ SameButRow(t) /\ NoNewAbort(t)
  BY <1>1, AskedForPass, Standing
<1>3. \A t \in Tasks : CalmTask(t)'
  BY <1>0, <1>2, UnmovedKeeps
<1>q. QED BY <1>1, <1>3 DEF CalmInv, NoPause

-----------------------------------------------------------------------------
(* The dispatcher hands a task out.                                        *)
LEMMA StillToDevice ==
    ASSUME AssignsToDevice, AssignsTask', \A t \in Tasks : SamePasses(t)
    PROVE  AssignsToDevice'
  BY DEF AssignsToDevice, AssignsTask, SamePasses, Assigning

(* A pass that settles takes the report it belongs to off its chain.       *)
LEMMA SettleCalm ==
    ASSUME DispatcherOK, chain \in [Tasks -> Seq(CalmReports)], NEW p \in Passes,
           Settle(p) \/ UNCHANGED chain
    PROVE  chain' \in [Tasks -> Seq(CalmReports)]
<1>1. CASE UNCHANGED chain
  BY <1>1
<1>2. CASE Settle(p) /\ pass[p].report # NoTask
  <2>1. pass[p].report \in Tasks /\ chain[pass[p].report] # <<>>
    BY <1>2 DEF DispatcherOK, DispatcherTypeOK, ReportsAwait, Pass
  <2>2. Tail(chain[pass[p].report]) \in Seq(CalmReports)
    BY <2>1, TailTyped
  <2>q. QED BY <1>2, <2>1, <2>2 DEF Settle
<1>q. QED BY <1>1, <1>2 DEF Settle

(* A pass that goes on changes the reports' chains by settling only.       *)
LEMMA ProceedChain ==
    ASSUME NEW p \in Passes, NEW todo, NEW again, Proceed(p, todo, again)
    PROVE  Settle(p) \/ UNCHANGED chain
  BY DEF Proceed, Step

(* The same of any other statement of a pass.                              *)
LEMMA PassChain ==
    ASSUME NEW p \in Passes, OtherPassStep(p)
    PROVE  Settle(p) \/ UNCHANGED chain
<1>1. ASSUME NEW d \in Devices, CountSlots(p, d) PROVE Settle(p) \/ UNCHANGED chain
  BY <1>1, ProceedChain DEF CountSlots, Step
<1>2. ASSUME ReadConnection(p) \/ ReadDevices(p) \/ ClaimOldest(p)
      PROVE  Settle(p) \/ UNCHANGED chain
  BY <1>2 DEF ReadConnection, ReadDevices, ClaimOldest, Claim, Step
<1>q. QED BY <1>1, <1>2 DEF OtherPassStep

(* A claim takes a task at rest, and its pass becomes the executor.        *)
LEMMA PassStepKeeps ==
    ASSUME CalmInv, Steady, AssignsTask', NEW p \in Passes, OtherPassStep(p)
    PROVE  /\ \A t \in Tasks : CalmTask(t)'
           /\ NoPause'
           /\ AssignsToDevice'
<1> AssignsToDevice
  BY DEF CalmInv
<1>0. /\ TableSound /\ row \in [Tasks -> Row] /\ DispatcherOK /\ created \in 0..MaxTasks
      /\ pass \in [Passes -> Pass] /\ \A t \in Tasks : CalmTask(t)
  BY CalmFacts DEF DispatcherOK, DispatcherTypeOK
<1>1. /\ UNCHANGED <<created, req, run, down, up>>
      /\ \A t \in Tasks : SameChain(t)
      /\ \/ UNCHANGED row /\ \A t \in Tasks : SamePasses(t)
         \/ \E t \in Tasks : /\ Claims(p, t)
                             /\ \A u \in Tasks : u # t => SamePasses(u)
  BY <1>0, PassKeeps DEF OtherPassStep, ReadConnection, ReadDevices, ClaimOldest, Claim, CountSlots,
     tableVars, agentVars, wires
<1>2. \A t \in Tasks : /\ StillPending(t) /\ SameOrders(t) /\ SameRuns(t) /\ SameTells(t) /\ SameChain(t)
                       /\ NoNewAbort(t)
  BY <1>1, Standing
<1>3. chain' \in [Tasks -> Seq(CalmReports)]
  BY <1>0, PassChain, SettleCalm DEF CalmInv, NoPause
<1>4. ASSUME UNCHANGED row, \A t \in Tasks : SamePasses(t)
      PROVE  (\A t \in Tasks : CalmTask(t)') /\ NoPause' /\ AssignsToDevice'
  <2>1. \A t \in Tasks : SameRow(t) /\ SameButRow(t)
    BY <1>1, <1>2, <1>4, Standing DEF SameButRow
  <2>2. \A t \in Tasks : CalmTask(t)'
    BY <1>0, <1>2, <2>1, UnmovedKeeps
  <2>3. NoPause'
    BY <1>1, <1>3, <1>4 DEF CalmInv, NoPause
  <2>q. QED BY <1>4, <2>2, <2>3, StillToDevice
<1>5. ASSUME NEW x \in Tasks, Claims(p, x), \A u \in Tasks : u # x => SamePasses(u)
      PROVE  (\A t \in Tasks : CalmTask(t)') /\ NoPause' /\ AssignsToDevice'
  <2> DEFINE d == pass[p].dev
             new == [pass[p] EXCEPT !.pc = "assign", !.task = x]
  <2>1. /\ pass[p].pc = "claim" /\ row[x].status = "QUEUED"
        /\ row' = [row EXCEPT ![x] = Claimed(@, d)]
        /\ pass' = [pass EXCEPT ![p] = new]
    BY <1>5 DEF Claims, Queued
  <2>2. d \in Devices
    BY <2>1 DEF CalmInv, OrderlyInv, LocalInv, Inv, ClaimHasRoom, HasRoom
  <2>3. new.pc = "assign" /\ new.task = x /\ new.dev = d
    BY <1>0 DEF Pass
  <2>4. row'[x].status = "RUNNING" /\ row'[x].device = d
    BY <1>0, <2>1 DEF Claimed, Row
  <2> HIDE DEF new
  <2>5. pass'[p].pc = "assign" /\ pass'[p].task = x /\ pass'[p].dev = d
        /\ \A q \in Passes : q # p => pass'[q] = pass[q]
    BY <1>0, <2>1, <2>3
  <2>6. AssignsToDevice'
    BY <2>2, <2>5 DEF AssignsToDevice
  <2> HIDE DEF d
  <2>7. ASSUME NEW t \in Tasks, t # x PROVE CalmTask(t)'
    <3>1. SameRow(t)
      BY <1>0, <1>1, <2>1, <2>7 DEF SameRow
    <3>q. QED BY <1>0, <1>2, <1>5, <2>7, <3>1, UnmovedKeeps DEF SameButRow
  <2>8. CalmTask(x)'
    <3>1. NothingUnderWay(x)
      BY <1>0, <2>1 DEF CalmTask, RestsInPeace, AtRest
    <3>2. \A q \in Passes : Assigning(q, x)' <=> q = p
      BY <2>5, <3>1 DEF Assigning, NothingUnderWay, Executor, ToBeAssigned
    <3>3. ~ToBeStarted(x)' /\ ~Started(x)' /\ ~Telling(x)' /\ Unapplied(x)' = <<>>
      BY <1>2, <3>1 DEF NothingUnderWay, Executor, ToBeStarted, Started, Telling,
         SameOrders, SameRuns, SameTells, SameChain
    <3>4. ~EndPending(x)' /\ ~FinalIn(Unapplied(x)') /\ FinalLast(Unapplied(x)')
          /\ \A e \in Devices : EndsLast(up'[e], x)
      BY <3>3 DEF EndPending, Telling, EndsIn, SpeaksOf, EndOf, EndsLast, FinalIn, FinalLast
    <3>5. OneExecutor(x)'
      BY <3>2, <3>3 DEF OneExecutor, ToBeStarted, Started, AssignsIn, AssignsOnce
    <3>6. OnItsDevice(x)'
      BY <2>4, <2>5, <3>2, <3>3 DEF OnItsDevice, ToBeStarted, Started, Telling
    <3>7. RestsInPeace(x)'
      <4>1. ~(x > created')
        BY <1>0, <1>1, <2>1 DEF TableSound, Exists
      <4>q. QED BY <2>4, <4>1 DEF RestsInPeace, AtRest
    <3>8. EndIsLast(x)'
      BY <3>4, <3>3 DEF EndIsLast, FinalLast, FinalIn
    <3>9. AbortIsCancel(x)'
      <4>1. AbortPending(x)' => AbortPending(x)
        BY <1>2 DEF NoNewAbort, AbortPending
      <4>2. AbortPending(x)' => x <= created' /\ CancelPending(x)'
        BY <1>0, <1>1, <1>2, <2>1, <4>1 DEF CalmTask, AbortIsCancel, StillPending
      <4>q. QED BY <4>2 DEF AbortIsCancel
    <3>10. Kept(x)'
      BY <3>2 DEF Kept, Executor, ToBeAssigned
    <3>11. Voiced(x)'
      BY <3>3 DEF Voiced
    <3>q. QED BY <3>5, <3>6, <3>7, <3>8, <3>9, <3>10, <3>11 DEF CalmTask
  <2>9. NoPause'
    <3>1. \A t \in Tasks : row'[t].status # "PAUSED"
      BY <1>0, <2>1, <2>4 DEF CalmInv, NoPause
    <3>2. \A t \in Tasks : row[t].status \in {"FAILED", "NONE"} => row'[t] = row[t]
      BY <1>0, <2>1
    <3>q. QED BY <1>0, <1>1, <1>3, <3>1, <3>2 DEF CalmInv, NoPause, TableSound
  <2>q. QED BY <2>6, <2>7, <2>8, <2>9
<1>q. QED BY <1>1, <1>4, <1>5

(* The assignment hands the task from the pass to its device.              *)
LEMMA AssignKeeps ==
    ASSUME CalmInv, Steady, AssignsTask', NEW p \in Passes, Assign(p)
    PROVE  /\ \A t \in Tasks : CalmTask(t)'
           /\ NoPause'
           /\ AssignsToDevice'
           /\ \A q \in Passes : PassDevices(q)' \subseteq PassDevices(q)
<1> AssignsToDevice
  BY DEF CalmInv
<1>0. /\ WiresTypeOK /\ DispatcherOK /\ \A t \in Tasks : CalmTask(t)
  BY CalmFacts
<1>1. PICK x : x = pass[p].task
  OBVIOUS
<1>2. PICK d : d = pass[p].dev
  OBVIOUS
<1>3. /\ pass[p].pc = "assign" /\ x \in Tasks /\ d \in Devices
      /\ Proceed(p, pass[p].todo, TRUE)
      /\ Send(d, "assign", x)
      /\ UNCHANGED <<row, created, req, run, up>>
  BY <1>1, <1>2 DEF Assign, SendAssign, CalmInv, OrderlyInv, LocalInv, AssignsTask, AssignsToDevice, tableVars, agentVars
<1>4. Heard(d)
  BY <1>2, <1>3, NoDeviceAssumption DEF CalmInv, Wired, PassDevices
<1>5. Drops(p) /\ \A t \in Tasks : SameChain(t)
  <2>1. pass[p].todo \in SUBSET PassDevices(p)
    BY DEF PassDevices
  <2>q. QED BY <1>0, <1>3, <2>1, ProceedKeeps
<1>6. \A q \in Passes, t \in Tasks : /\ Assigning(q, t)' <=> q # p /\ Assigning(q, t)
                                     /\ Assigning(q, t)' => pass'[q].dev = pass[q].dev
  BY <1>5 DEF Drops
<1>7. \A t \in Tasks : /\ SameRow(t) /\ SameRuns(t) /\ SameTells(t) /\ StillPending(t) /\ SameChain(t)
                       /\ t # x => SameOrders(t)
                       /\ NoNewAbort(t)
  <2>1. ASSUME NEW t \in Tasks PROVE NoNewAbort(t)
    <3>1. \A e \in Devices : AbortsIn(down'[e], t) <=> AbortsIn(down[e], t)
      BY <1>0, <1>3, SendKeeps
    <3>2. \A c \in Runs : (Ran(c, t)' <=> Ran(c, t)) /\ run'[c].abort = run[c].abort
      BY <1>3 DEF Ran
    <3>q. QED BY <3>1, <3>2 DEF NoNewAbort, AbortPending
  <2>2. ASSUME NEW t \in Tasks, t # x PROVE SameOrders(t)
    BY <1>0, <1>3, <2>2, SendKeeps DEF SameOrders
  <2>q. QED BY <1>3, <1>5, <2>1, <2>2, Standing
<1>8. ASSUME NEW t \in Tasks, t # x PROVE CalmTask(t)'
  <2>1. SamePasses(t)
    BY <1>1, <1>6, <1>8 DEF SamePasses, Assigning
  <2>q. QED BY <1>0, <1>7, <1>8, <2>1, UnmovedKeeps DEF SameButRow
<1>9. CalmTask(x)'
  <2>1. Assigning(p, x)
    BY <1>1, <1>3 DEF Assigning
  <2>2. /\ \A q \in Passes : Assigning(q, x) => q = p
        /\ ~ToBeStarted(x) /\ ~Started(x)
    BY <1>0, <1>3, <2>1 DEF CalmTask, OneExecutor, ToBeAssigned
  <2>3. \A q \in Passes : ~Assigning(q, x)'
    BY <1>3, <1>6, <2>2
  <2>4. /\ \A e \in Devices : AssignsIn(down'[e], x) <=> e = d
        /\ \A e \in Devices : AssignsOnce(down'[e], x)
    <3>1. \A e \in Devices : ~AssignsIn(down[e], x)
      BY <2>2 DEF ToBeStarted
    <3>2. \A e \in Devices : AssignsOnce(down[e], x)
      BY <3>1 DEF AssignsIn, AssignsOnce
    <3>q. QED BY <1>0, <1>3, <1>4, <3>1, <3>2, SendKeeps
  <2>5. \A c \in Runs : ~Ran(c, x)'
    BY <1>3, <2>2 DEF Started, Ran
  <2>6. OneExecutor(x)'
    BY <2>3, <2>4, <2>5, Zenon DEF OneExecutor, ToBeAssigned, ToBeStarted, Started
  <2>7. InSlot(x)' <=> InSlot(x)
    BY <1>3 DEF InSlot
  <2>8. OnItsDevice(x)'
    <3>1. InSlot(x) => row[x].device = d /\ \A e \in Devices : SpeaksOf(up[e], x) => e = d
      BY <1>0, <1>2, <1>3, <2>1 DEF CalmTask, OnItsDevice
    <3>2. row'[x].device = row[x].device /\ up' = up
      BY <1>3
    <3>q. QED BY <2>3, <2>4, <2>5, <2>7, <3>1, <3>2 DEF OnItsDevice
  <2>9. AbortIsCancel(x)'
    BY <1>0, <1>3, <1>7, AbortsExplained
  <2>10. Executor(x)
    BY <2>1 DEF Executor, ToBeAssigned
  <2>11. Executor(x)'
    BY <1>3, <2>4 DEF Executor, ToBeStarted
  <2>12. InSlot(x) => (\A e \in Devices : EndsLast(up'[e], x)) /\ \A e \in Devices : ~EndsIn(up'[e], x)
    BY <1>0, <1>3, <2>10 DEF CalmTask, EndIsLast, EndPending
  <2>13. SteadyFor(x)
    BY <1>3, SteadyTask
  <2>q. QED BY <1>0, <1>3, <1>7, <2>6, <2>8, <2>9, <2>10, <2>11, <2>12, <2>13, ExecutorMoves
<1>10. NoPause'
  <2>1. chain' \in [Tasks -> Seq(CalmReports)]
    BY <1>0, <1>3, ProceedChain, SettleCalm DEF CalmInv, NoPause
  <2>2. down' \in [Devices -> Seq(CalmOrders)]
    <3> DEFINE m == [order |-> "assign", task |-> x]
    <3>1. m \in CalmOrders
      BY <1>3 DEF CalmOrders, Orders
    <3>2. down' = [down EXCEPT ![d] = Append(@, m)]
      BY <1>3, <1>4 DEF Send
    <3> HIDE DEF m
    <3>3. down \in [Devices -> Seq(CalmOrders)]
      BY DEF CalmInv, NoPause
    <3>4. Append(down[d], m) \in Seq(CalmOrders)
      BY <1>3, <3>1, <3>3
    <3>q. QED BY <3>2, <3>3, <3>4
  <2>q. QED BY <1>3, <2>1, <2>2 DEF CalmInv, NoPause
<1>11. AssignsToDevice'
  <2> SUFFICES ASSUME NEW q \in Passes, pass'[q].pc = "assign" PROVE pass'[q].dev \in Devices
    BY DEF AssignsToDevice
  <2>1. PICK t \in Tasks : Assigning(q, t)'
    BY DEF AssignsTask, Assigning
  <2>q. QED BY <1>6, <2>1 DEF AssignsToDevice, Assigning
<1>12. \A q \in Passes : PassDevices(q)' \subseteq PassDevices(q)
  BY <1>5 DEF Drops
<1>q. QED BY <1>8, <1>9, <1>10, <1>11, <1>12

-----------------------------------------------------------------------------
(* A report is applied.                                                    *)
LEMMA StoppedKeeps ==
    ASSUME NEW t \in Tasks, CalmTask(t), SamePasses(t), SameOrders(t), SameRuns(t),
           ~InSlot(t)', ~AtRest(t)', ~(t > created'), AbortIsCancel(t)'
    PROVE  CalmTask(t)'
<1>1. /\ ToBeAssigned(t)' <=> ToBeAssigned(t)
      /\ ToBeStarted(t)' <=> ToBeStarted(t)
      /\ Started(t)' <=> Started(t)
  BY Zenon DEF SamePasses, SameOrders, SameRuns, ToBeAssigned, ToBeStarted, Started
<1>2. OneExecutor(t)'
  BY <1>1, Zenon DEF CalmTask, OneExecutor, SamePasses, SameOrders, SameRuns
<1>q. QED BY <1>2 DEF CalmTask, RestsInPeace, OnItsDevice, EndIsLast, Kept, Voiced

(* The report at the head of the chain is written.                         *)
LEMMA ApplyKeeps ==
    ASSUME CalmInv, Steady, NEW x \in Tasks, Apply(x)
    PROVE  /\ \A t \in Tasks : CalmTask(t)' /\ SamePasses(t)
           /\ NoPause'
           /\ \A q \in Passes : PassDevices(q)' \subseteq PassDevices(q)
<1>0. /\ TableSound /\ row \in [Tasks -> Row] /\ DispatcherOK /\ created \in 0..MaxTasks
      /\ pass \in [Passes -> Pass] /\ (\A t \in Tasks : CalmTask(t))
      /\ chain \in [Tasks -> Seq(CalmReports)] /\ chain[x] \in Seq(Reports)
  BY CalmFacts DEF DispatcherOK, DispatcherTypeOK, CalmInv, NoPause
<1>1. PICK rep : rep = Head(chain[x])
  OBVIOUS
<1>2. /\ chain[x] # <<>> /\ ~AwaitsPass(x)
      /\ row' = [row EXCEPT ![x] = Reported(@, rep)]
      /\ IF DispatchesFor(x, rep) THEN Dispatch(x) /\ UNCHANGED chain
         ELSE chain' = [chain EXCEPT ![x] = Tail(@)] /\ UNCHANGED pass
      /\ UNCHANGED <<created, req, run, down, up>>
  BY <1>1 DEF Apply, ApplyReport, dispatchVars, agentVars, wires
<1>3. rep \in CalmReports /\ rep \in Reports /\ Tail(chain[x]) \in Seq(CalmReports)
  BY <1>0, <1>1, <1>2, TailTyped DEF CalmReports
<1>4. Unapplied(x) = chain[x]
  BY <1>2 DEF Unapplied
<1>5. ~AtRest(x) /\ ~(x > created) /\ row[x].status \in {"RUNNING", "PAUSED_RATE_LIMIT", "CANCELED", "NONE"}
  <2>1. ~AtRest(x) /\ ~(x > created)
    BY <1>0, <1>2, <1>4 DEF CalmTask, RestsInPeace, NothingUnderWay
  <2>2. row[x].status \in Statuses \cup {"NONE"} /\ row[x].status # "PAUSED"
    BY <1>0 DEF Row, CalmInv, NoPause
  <2>q. QED BY <2>1, <2>2 DEF Statuses, Waiting, Occupying, Finished, AtRest
<1>6. /\ \A t \in Tasks : SamePasses(t) /\ (t # x => SameChain(t))
      /\ Unapplied(x)' = Tail(chain[x])
      /\ \A q \in Passes : PassDevices(q)' \subseteq PassDevices(q)
  <2>1. ASSUME NEW p \in Passes, Enqueues(p, x), UNCHANGED chain
        PROVE  /\ \A t \in Tasks : SamePasses(t) /\ (t # x => SameChain(t))
               /\ Unapplied(x)' = Tail(chain[x])
               /\ \A q \in Passes : PassDevices(q)' \subseteq PassDevices(q)
    BY <1>0, <1>2, <2>1, EnqueueKeeps
  <2>2. ASSUME chain' = [chain EXCEPT ![x] = Tail(@)], UNCHANGED pass
        PROVE  /\ \A t \in Tasks : SamePasses(t) /\ (t # x => SameChain(t))
               /\ Unapplied(x)' = Tail(chain[x])
               /\ \A q \in Passes : PassDevices(q)' \subseteq PassDevices(q)
    BY <1>0, <1>2, <2>2, Standing DEF SameChain, Unapplied, AwaitsPass, PassDevices
  <2>q. QED BY <1>2, <2>1, <2>2, DispatchEnqueues
<1>7. \A t \in Tasks : /\ SameOrders(t) /\ SameRuns(t) /\ SameTells(t) /\ StillPending(t) /\ NoNewAbort(t)
                       /\ SamePasses(t)
  BY <1>2, <1>6, Standing
<1>8. ASSUME NEW t \in Tasks, t # x PROVE CalmTask(t)'
  <2>1. SameRow(t)
    BY <1>0, <1>2, <1>8 DEF SameRow
  <2>q. QED BY <1>0, <1>6, <1>7, <1>8, <2>1, UnmovedKeeps DEF SameButRow
<1>9. /\ AbortPending(x)' => AbortPending(x)
      /\ AbortPending(x) => x <= created' /\ (row[x].status \in {"CANCELED", "NONE"} \/ CancelPending(x)')
  BY <1>0, <1>2, <1>7 DEF NoNewAbort, AbortPending, CalmTask, AbortIsCancel, StillPending
<1>10. ASSUME ~Writable(row[x]) PROVE CalmTask(x)'
  <2>1. row'[x] = row[x] /\ row[x].status \in {"CANCELED", "NONE"}
    BY <1>0, <1>2, <1>10 DEF Reported, Writable
  <2>2. ~InSlot(x)' /\ ~AtRest(x)' /\ ~(x > created') /\ AbortIsCancel(x)'
    BY <1>2, <1>5, <1>9, <2>1 DEF InSlot, AtRest, AbortIsCancel, Occupying
  <2>q. QED BY <1>0, <1>7, <2>2, StoppedKeeps
<1>11. ASSUME Writable(row[x])
       PROVE  /\ InSlot(x) /\ row'[x].status = rep /\ row'[x].device = row[x].device
              /\ AbortIsCancel(x)'
  <2>1. InSlot(x) /\ row[x].status \notin {"CANCELED", "NONE"}
    BY <1>5, <1>11 DEF Writable, InSlot, Occupying
  <2>2. row'[x].status = rep /\ row'[x].device = row[x].device
    BY <1>0, <1>2, <1>11 DEF Reported, ReportWrites, Row
  <2>q. QED BY <1>9, <2>1, <2>2 DEF AbortIsCancel
<1>12. ASSUME Writable(row[x]), rep \in Final PROVE CalmTask(x)'
  <2>1. FinalIn(Unapplied(x)) /\ (FinalLast(Unapplied(x)) => Tail(chain[x]) = <<>>)
    BY <1>0, <1>1, <1>2, <1>4, <1>12, FinalTaken
  <2>2. ~Executor(x) /\ ~Telling(x) /\ Tail(chain[x]) = <<>>
    BY <1>0, <1>11, <1>12, <2>1 DEF CalmTask, EndIsLast, EndPending
  <2>3. NothingUnderWay(x)'
    BY <1>6, <1>7, <2>2 DEF NothingUnderWay, Executor, ToBeAssigned, ToBeStarted, Started, Telling,
       SamePasses, SameOrders, SameRuns, SameTells
  <2>4. ~InSlot(x)'
    BY <1>11, <1>12 DEF InSlot, Occupying, Final
  <2>q. QED BY <1>11, <1>12, <2>3, <2>4, RestKeeps
<1>13. ASSUME Writable(row[x]), rep \notin Final PROVE CalmTask(x)'
  <2>1. InSlot(x)' /\ InSlot(x) /\ ~AtRest(x)' /\ ~(x > created') /\ AbortIsCancel(x)'
        /\ row'[x].device = row[x].device
    BY <1>2, <1>3, <1>5, <1>11, <1>13 DEF CalmReports, Reports, Final, InSlot, AtRest, Occupying
  <2>2. /\ FinalIn(Unapplied(x)') <=> FinalIn(Unapplied(x))
        /\ FinalLast(Unapplied(x)) => FinalLast(Unapplied(x)')
    BY <1>0, <1>1, <1>2, <1>4, <1>6, <1>13, FinalTaken
  <2>3. /\ ToBeAssigned(x)' <=> ToBeAssigned(x)
        /\ ToBeStarted(x)' <=> ToBeStarted(x)
        /\ Started(x)' <=> Started(x)
        /\ Telling(x)' <=> Telling(x)
    BY <1>7, Zenon DEF SamePasses, SameOrders, SameRuns, SameTells, ToBeAssigned, ToBeStarted, Started, Telling
  <2>4. EndPending(x)' <=> EndPending(x)
    BY <1>7, <2>2, Zenon DEF SameTells, EndPending, FinalIn
  <2>5. OneExecutor(x)'
    BY <1>0, <1>7, <2>3, Zenon DEF CalmTask, OneExecutor, SamePasses, SameOrders, SameRuns
  <2>6. OnItsDevice(x)'
    BY <1>0, <1>7, <2>1 DEF CalmTask, OnItsDevice, SamePasses, SameOrders, SameRuns, SameTells
  <2>7. EndIsLast(x)'
    BY <1>0, <1>7, <2>1, <2>2, <2>3, <2>4 DEF CalmTask, EndIsLast, SameTells, Executor, FinalIn, FinalLast
  <2>8. Kept(x)'
    <3>1. SteadyFor(x)
      BY <2>1, SteadyTask
    <3>q. QED BY <1>0, <1>7, <2>1, <2>3, <2>4, <3>1 DEF CalmTask, Kept, StillPending, Executor, SteadyFor
  <2>9. Voiced(x)'
    <3>1. OnHeard(x)
      BY <1>0, <1>2, <1>4, <2>1 DEF CalmTask, Voiced
    <3>q. QED BY <2>1, <3>1, SteadyTask DEF SteadyFor, Voiced
  <2>q. QED BY <2>1, <2>5, <2>6, <2>7, <2>8, <2>9 DEF CalmTask, RestsInPeace
<1>14. NoPause'
  <2>1. \A t \in Tasks : row'[t].status # "PAUSED"
    BY <1>0, <1>2, <1>3, <1>5 DEF CalmInv, NoPause, Reported, ReportWrites, Row, CalmReports
  <2>2. \A t \in Tasks : row[t].status \in {"FAILED", "NONE"} => row'[t] = row[t]
    BY <1>0, <1>2, <1>5 DEF Reported, Writable
  <2>3. chain' \in [Tasks -> Seq(CalmReports)]
    BY <1>0, <1>2, <1>3
  <2>q. QED BY <1>0, <1>2, <2>1, <2>2, <2>3 DEF CalmInv, NoPause, TableSound
<1>q. QED BY <1>6, <1>8, <1>10, <1>12, <1>13, <1>14

-----------------------------------------------------------------------------
(* A report reaches the server.                                            *)
LEMMA TailOfJoined ==
    ASSUME NEW S, NEW s \in Seq(S), NEW x \in S, s # <<>>
    PROVE  Tail(Append(s, x)) = Append(Tail(s), x)
  OBVIOUS

(* A report moves from its socket to its chain.                            *)
LEMMA UploadKeeps ==
    ASSUME CalmInv, Steady, NEW d \in Devices, Upload(d)
    PROVE  (\A t \in Tasks : CalmTask(t)') /\ NoPause'
<1>0. /\ WiresTypeOK /\ DispatcherOK /\ created \in 0..MaxTasks
      /\ up \in [Devices -> Seq(CalmTells)] /\ up \in [Devices -> Seq(Tells)]
      /\ chain \in [Tasks -> Seq(CalmReports)] /\ (\A t \in Tasks : chain[t] \in Seq(Reports))
      /\ (\A t \in Tasks : CalmTask(t))
  BY CalmFacts DEF CalmInv, NoPause, WiresTypeOK
<1>1. PICK m : m = Head(up[d])
  OBVIOUS
<1>2. up[d] # <<>> /\ up' = [up EXCEPT ![d] = Tail(@)] /\ UNCHANGED <<run, active, retry, down>>
  BY DEF Upload, agentVars
<1>3. m \in CalmTells /\ m \in Tells /\ Tail(up[d]) \in Seq(CalmTells)
  BY <1>0, <1>1, <1>2, TailTyped
<1>4. PICK x \in Tasks : x = m.task
  BY <1>3 DEF Tells
<1>5. PICK rep \in CalmReports : rep = m.status /\ rep \in Reports
  BY <1>3 DEF Tells, CalmTells, CalmReports
<1>6. /\ chain' = [chain EXCEPT ![x] = Append(@, rep)]
      /\ UNCHANGED <<row, created, req, pass>>
  <2>1. Identified(link[d])
    BY <1>2 DEF CalmInv, Wired, Heard
  <2>q. QED BY <1>1, <1>4, <1>5, <2>1 DEF Upload, Receive, Joined, tableVars, dispatchVars
<1>7. \A t \in Tasks : SameRow(t) /\ SamePasses(t) /\ SameOrders(t) /\ SameRuns(t) /\ StillPending(t)
                       /\ NoNewAbort(t)
  BY <1>2, <1>6, Standing
<1>8. ASSUME NEW t \in Tasks
      PROVE  /\ SpeaksOf(up[d], t) <=> SpeaksOf(up'[d], t) \/ x = t
             /\ EndsIn(up[d], t) <=> EndsIn(up'[d], t) \/ (x = t /\ rep \in Final)
             /\ EndsLast(up[d], t) => EndsLast(up'[d], t)
             /\ EndsLast(up[d], t) /\ x = t /\ rep \in Final => ~SpeaksOf(up'[d], t)
             /\ \A e \in Devices : e # d => up'[e] = up[e]
  <2>1. up'[d] = Tail(up[d]) /\ up[d] \in Seq(Tells) /\ \A e \in Devices : e # d => up'[e] = up[e]
    BY <1>0, <1>2
  <2>2. EndOf(m, t) <=> x = t /\ rep \in Final
    BY <1>4, <1>5 DEF EndOf
  <2>q. QED BY <1>1, <1>2, <1>4, <2>1, <2>2, TellTaken
<1>9. ASSUME NEW t \in Tasks, t # x PROVE CalmTask(t)'
  <2>1. SameTells(t)
    BY <1>8, <1>9 DEF SameTells
  <2>2. SameChain(t)
    BY <1>0, <1>6, <1>9 DEF SameChain, Unapplied, AwaitsPass
  <2>q. QED BY <1>0, <1>7, <2>1, <2>2, UnmovedKeeps DEF SameButRow
<1>10. CalmTask(x)'
  <2>1. Telling(x)
    BY <1>8 DEF Telling
  <2>2. ~AtRest(x) /\ ~(x > created)
    BY <1>0, <2>1 DEF CalmTask, RestsInPeace, NothingUnderWay
  <2>3. Unapplied(x) \in Seq(Reports) /\ Unapplied(x)' = Append(Unapplied(x), rep)
    <3>1. AwaitsPass(x)' <=> AwaitsPass(x)
      BY <1>6 DEF AwaitsPass
    <3>2. chain'[x] = Append(chain[x], rep) /\ chain[x] \in Seq(Reports)
      BY <1>0, <1>6
    <3>3. AwaitsPass(x) => chain[x] # <<>>
      BY <1>0 DEF AwaitsPass, DispatcherOK, ReportsAwait, Tasks, NoTask
    <3>4. chain[x] # <<>> => /\ Tail(chain[x]) \in Seq(Reports)
                             /\ Tail(Append(chain[x], rep)) = Append(Tail(chain[x]), rep)
      BY <1>5, <3>2, TailTyped, TailOfJoined
    <3>q. QED BY <3>1, <3>2, <3>3, <3>4 DEF Unapplied
  <2>4. /\ InSlot(x)' <=> InSlot(x)
        /\ AtRest(x)' <=> AtRest(x)
        /\ Executor(x)' <=> Executor(x)
        /\ CancelPending(x)' <=> CancelPending(x)
    BY <1>2, <1>6 DEF InSlot, AtRest, Executor, ToBeAssigned, ToBeStarted, Started, Assigning, Ran, CancelPending
  <2>5. InSlot(x) => /\ ~FinalIn(Unapplied(x))
                     /\ row[x].device = d
                     /\ \A e \in Devices : EndsLast(up[e], x) /\ (SpeaksOf(up[e], x) => e = d)
    BY <1>0, <1>8, <2>1 DEF CalmTask, EndIsLast, OnItsDevice
  <2>6. InSlot(x) => /\ FinalLast(Unapplied(x)')
                     /\ FinalIn(Unapplied(x)') <=> rep \in Final
    BY <1>5, <2>3, <2>5, FinalJoined
  <2>7. OneExecutor(x)'
    <3>1. /\ ToBeAssigned(x)' <=> ToBeAssigned(x)
          /\ ToBeStarted(x)' <=> ToBeStarted(x)
          /\ Started(x)' <=> Started(x)
      BY <1>7, Zenon DEF SamePasses, SameOrders, SameRuns, ToBeAssigned, ToBeStarted, Started
    <3>q. QED BY <1>0, <1>7, <3>1, Zenon DEF CalmTask, OneExecutor, SamePasses, SameOrders, SameRuns
  <2>8. RestsInPeace(x)'
    BY <1>6, <2>2, <2>4 DEF RestsInPeace
  <2>9. OnItsDevice(x)'
    <3>1. \A e \in Devices : SpeaksOf(up'[e], x) => SpeaksOf(up[e], x)
      BY <1>8
    <3>q. QED BY <1>0, <1>7, <2>4, <3>1 DEF CalmTask, OnItsDevice, SamePasses, SameOrders, SameRuns, SameRow
  <2>10. InSlot(x) => (EndPending(x)' <=> EndPending(x))
    <3>1. ASSUME InSlot(x), EndPending(x)' PROVE EndPending(x)
      BY <1>8, <2>6, <3>1, Zenon DEF EndPending, FinalIn
    <3>2. ASSUME InSlot(x), EndPending(x) PROVE EndPending(x)'
      <4>1. PICK e \in Devices : EndsIn(up[e], x)
        BY <2>5, <3>2 DEF EndPending
      <4>2. EndsIn(up'[e], x) \/ rep \in Final
        BY <1>8, <4>1
      <4>q. QED BY <2>6, <3>2, <4>2, Zenon DEF EndPending, FinalIn
    <3>q. QED BY <3>1, <3>2
  <2>11. EndIsLast(x)'
    <3> SUFFICES ASSUME InSlot(x)
                 PROVE  /\ EndPending(x)' => ~Executor(x)'
                        /\ \A e \in Devices : EndsLast(up'[e], x)
                        /\ FinalIn(Unapplied(x)') => ~Telling(x)'
                        /\ FinalLast(Unapplied(x)')
      BY <2>4 DEF EndIsLast, FinalIn, FinalLast
    <3>1. EndPending(x)' => ~Executor(x)'
      BY <1>0, <2>4, <2>10 DEF CalmTask, EndIsLast
    <3>2. \A e \in Devices : EndsLast(up'[e], x)
      BY <1>8, <2>5
    <3>3. ASSUME FinalIn(Unapplied(x)'), NEW e \in Devices, SpeaksOf(up'[e], x) PROVE FALSE
      <4>1. e = d
        BY <1>8, <2>5, <3>3
      <4>q. QED BY <1>8, <2>5, <2>6, <3>3, <4>1
    <3>q. QED BY <2>6, <3>1, <3>2, <3>3 DEF Telling
  <2>12. AbortIsCancel(x)'
    BY <1>0, <1>7, AbortsExplained
  <2>13. Kept(x)'
    <3>1. SteadyFor(x)
      BY <1>6, SteadyTask
    <3>q. QED BY <1>0, <2>4, <2>10, <3>1 DEF CalmTask, Kept, SteadyFor
  <2>14. Voiced(x)'
    <3>1. InSlot(x) => row'[x].device = d
      BY <1>6, <2>5
    <3>2. Heard(d)'
      BY <1>2 DEF CalmInv, Wired, Steady
    <3>q. QED BY <2>4, <3>1, <3>2 DEF Voiced, OnHeard
  <2>q. QED BY <2>7, <2>8, <2>9, <2>11, <2>12, <2>13, <2>14 DEF CalmTask
<1>11. NoPause'
  <2>1. up' \in [Devices -> Seq(CalmTells)]
    BY <1>0, <1>2, <1>3
  <2>2. chain' \in [Tasks -> Seq(CalmReports)]
    <3>1. Append(chain[x], rep) \in Seq(CalmReports)
      BY <1>0
    <3>q. QED BY <1>0, <1>6, <3>1
  <2>q. QED BY <1>2, <1>6, <2>1, <2>2 DEF CalmInv, NoPause
<1>q. QED BY <1>9, <1>10, <1>11

-----------------------------------------------------------------------------
(* What the agents do.                                                     *)
LEMMA EmitKeeps ==
    ASSUME WiresTypeOK, NEW d \in Devices, NEW x \in Tasks, NEW statuses \in Seq(Reports),
           Emit(d, x, statuses), NEW t \in Tasks, NEW e \in Devices
    PROVE  /\ SpeaksOf(up[e], t) => SpeaksOf(up'[e], t)
           /\ SpeaksOf(up'[e], t) => SpeaksOf(up[e], t) \/ (e = d /\ t = x)
           /\ EndsIn(up'[e], t) <=> EndsIn(up[e], t) \/ (e = d /\ t = x /\ FinalIn(statuses))
           /\ EndsLast(up[e], t) /\ (t # x \/ (~EndsIn(up[e], t) /\ FinalLast(statuses)))
                => EndsLast(up'[e], t)
<1> DEFINE told == [i \in DOMAIN statuses |-> [task |-> x, status |-> statuses[i]]]
<1>1. /\ told \in Seq(Tells) /\ Len(told) = Len(statuses) /\ Len(statuses) \in Nat
      /\ \A i \in 1..Len(told) : told[i].task = x /\ told[i].status = statuses[i]
  <2>1. \A i \in 1..Len(statuses) : [task |-> x, status |-> statuses[i]] \in Tells
    BY DEF Tells
  <2>q. QED BY <2>1
<1>2. up' = [up EXCEPT ![d] = @ \o told]
  BY DEF Emit
<1> HIDE DEF told
<1>3. up[e] \in Seq(Tells) /\ up'[e] = IF e = d THEN up[e] \o told ELSE up[e]
  BY <1>2 DEF WiresTypeOK
<1>4. SpeaksOf(told, t) => t = x
  BY <1>1 DEF SpeaksOf
<1>5. EndsIn(told, t) <=> t = x /\ FinalIn(statuses)
  BY <1>1 DEF EndsIn, EndOf, FinalIn
<1>6. t # x \/ FinalLast(statuses) => EndsLast(told, t)
  <2> SUFFICES ASSUME t # x \/ FinalLast(statuses), NEW i \in 1..Len(told), NEW j \in 1..Len(told),
                      EndOf(told[i], t), i < j
               PROVE  told[j].task # t
    BY DEF EndsLast
  <2>1. CASE t # x
    BY <1>1, <2>1
  <2>2. CASE FinalLast(statuses)
    <3>1. statuses[i] \in Final
      BY <1>1 DEF EndOf
    <3>2. i = Len(statuses)
      BY <1>1, <2>2, <3>1 DEF FinalLast
    <3>q. QED BY <1>1, <3>2
  <2>q. QED BY <2>1, <2>2
<1>7. CASE e # d
  BY <1>3, <1>7
<1>8. CASE e = d
  <2>1. up'[e] = up[e] \o told
    BY <1>3, <1>8
  <2>2. /\ SpeaksOf(up'[e], t) <=> SpeaksOf(up[e], t) \/ SpeaksOf(told, t)
        /\ EndsIn(up'[e], t) <=> EndsIn(up[e], t) \/ EndsIn(told, t)
        /\ EndsLast(up[e], t) /\ EndsLast(told, t) /\ (EndsIn(up[e], t) => ~SpeaksOf(told, t))
             => EndsLast(up'[e], t)
    <3>1. /\ SpeaksOf(up[e] \o told, t) <=> SpeaksOf(up[e], t) \/ SpeaksOf(told, t)
          /\ EndsIn(up[e] \o told, t) <=> EndsIn(up[e], t) \/ EndsIn(told, t)
          /\ EndsLast(up[e], t) /\ EndsLast(told, t) /\ (EndsIn(up[e], t) => ~SpeaksOf(told, t))
               => EndsLast(up[e] \o told, t)
      BY <1>1, <1>3, Told
    <3>q. QED BY <2>1, <3>1
  <2>q. QED BY <1>4, <1>5, <1>6, <1>8, <2>2
<1>q. QED BY <1>7, <1>8

(* What agents say at once never goes on after an end.                     *)
LEMMA Words ==
    /\ FinalLast(Starting) /\ ~FinalIn(Starting)
    /\ FinalLast(Unstartable) /\ FinalIn(Unstartable)
    /\ FinalLast(<<>>) /\ ~FinalIn(<<>>)
    /\ \A x \in Reports : FinalLast(<<x>>) /\ (FinalIn(<<x>>) <=> x \in Final)
<1>1. "RUNNING" \notin Final /\ "FAILED" \in Final
  BY DEF Final
<1>2. FinalLast(<<>>) /\ ~FinalIn(<<>>)
  BY DEF FinalIn, FinalLast
<1>3. ASSUME NEW x PROVE FinalLast(<<x>>) /\ (FinalIn(<<x>>) <=> x \in Final)
  BY DEF FinalIn, FinalLast
<1>4. FinalLast(Unstartable) /\ FinalIn(Unstartable)
  <2>1. Len(Unstartable) = 2 /\ Unstartable[1] = "RUNNING" /\ Unstartable[2] = "FAILED"
    BY DEF Starting, Unstartable
  <2>q. QED BY <1>1, <2>1 DEF FinalIn, FinalLast
<1>q. QED BY <1>1, <1>2, <1>3, <1>4 DEF Starting

(* The executor of task x, on device d, speaks.                            *)
LEMMA SpeakKeeps ==
    ASSUME CalmInv, Steady, NEW d \in Devices, NEW x \in Tasks, NEW statuses \in Seq(Reports),
           FinalLast(statuses), Emit(d, x, statuses), UNCHANGED <<row, created, req, chain, pass>>,
           Executor(x), \A t \in Tasks : NoNewAbort(t),
           \A t \in Tasks : t # x => SameOrders(t) /\ SameRuns(t),
           OneExecutor(x)', ~ToBeAssigned(x),
           InSlot(x) => /\ row[x].device = d
                        /\ \A e \in Devices : ~AssignsIn(down'[e], x)
                        /\ \A c \in Runs : Ran(c, x)' => run'[c].host = d
                        /\ \/ Executor(x)' /\ ~FinalIn(statuses)
                           \/ ~Executor(x)' /\ (FinalIn(statuses) \/ CancelPending(x))
    PROVE  \A t \in Tasks : CalmTask(t)'
<1>0. WiresTypeOK /\ \A t \in Tasks : CalmTask(t)
  BY CalmFacts
<1>1. \A t \in Tasks : SameRow(t) /\ SamePasses(t) /\ SameChain(t) /\ StillPending(t)
  BY Standing
<1>2. ASSUME NEW t \in Tasks, t # x PROVE CalmTask(t)'
  <2>1. SameTells(t)
    BY <1>0, <1>2, EmitKeeps DEF SameTells
  <2>q. QED BY <1>0, <1>1, <1>2, <2>1, UnmovedKeeps DEF SameButRow
<1>3. CalmTask(x)'
  <2>1. InSlot(x)' <=> InSlot(x)
    BY DEF InSlot
  <2>2. OnItsDevice(x)'
    <3>1. InSlot(x) => \A e \in Devices : SpeaksOf(up'[e], x) => e = d
      BY <1>0, EmitKeeps DEF CalmTask, OnItsDevice
    <3>2. \A p \in Passes : ~Assigning(p, x)'
      BY <1>1 DEF SamePasses, ToBeAssigned
    <3>q. QED BY <2>1, <3>1, <3>2 DEF OnItsDevice
  <2>3. AbortIsCancel(x)'
    BY <1>0, <1>1, AbortsExplained
  <2>4. InSlot(x) => \A e \in Devices : EndsLast(up[e], x) /\ ~EndsIn(up[e], x)
    BY <1>0 DEF CalmTask, EndIsLast, EndPending
  <2>5. InSlot(x) => \A e \in Devices : EndsLast(up'[e], x)
    BY <1>0, <2>4, EmitKeeps
  <2>6. InSlot(x) => \A e \in Devices : EndsIn(up'[e], x) <=> e = d /\ FinalIn(statuses)
    BY <1>0, <2>4, EmitKeeps
  <2>7. InSlot(x) => \/ Executor(x)' /\ \A e \in Devices : ~EndsIn(up'[e], x)
                     \/ ~Executor(x)' /\ (EndPending(x)' \/ CancelPending(x)')
    <3>1. CancelPending(x) => CancelPending(x)'
      BY <1>1 DEF StillPending
    <3>q. QED BY <2>6, <3>1 DEF EndPending
  <2>8. SteadyFor(x)
    BY SteadyTask
  <2>q. QED BY <1>0, <1>1, <2>2, <2>3, <2>5, <2>7, <2>8, ExecutorMoves
<1>q. QED BY <1>2, <1>3

(* While nothing is paused no run speaks of a pause.                       *)
LEMMA SpeakCalmly ==
    ASSUME NoPause, NEW d \in Devices, NEW x \in Tasks, NEW statuses \in Seq(CalmReports),
           Emit(d, x, statuses)
    PROVE  up' \in [Devices -> Seq(CalmTells)]
<1> DEFINE told == [i \in DOMAIN statuses |-> [task |-> x, status |-> statuses[i]]]
<1>1. told \in Seq(CalmTells)
  <2>1. \A i \in 1..Len(statuses) : [task |-> x, status |-> statuses[i]] \in CalmTells
    BY DEF Tells, CalmTells, CalmReports
  <2>q. QED BY <2>1
<1>2. up' = [up EXCEPT ![d] = @ \o told] /\ up \in [Devices -> Seq(CalmTells)]
  BY DEF Emit, NoPause
<1> HIDE DEF told
<1>q. QED BY <1>1, <1>2

(* What the agents' invariant says of a run.                               *)
LEMMA AgentFacts ==
    ASSUME CalmInv
    PROVE  /\ Hosts = Devices /\ Jobs = Tasks
           /\ run \in [Runs -> Run \cup {Over}]
           /\ \A c \in Runs : run[c].st # "free" => /\ run[c].host \in Devices /\ run[c].task \in Tasks
                                                    /\ run[c].abort \in {"no", "cancel"}
           /\ Over.st = "free"
<1>1. AgentTypeOK /\ Hosts = Devices /\ Jobs = Tasks
  BY CalmFacts, AgentsAssumption
<1>2. ASSUME NEW c \in Runs, run[c].st # "free"
      PROVE  /\ run[c].host \in Devices /\ run[c].task \in Tasks
             /\ run[c].abort \in {"no", "cancel"}
  <2>1. run[c] \in Run
    BY <1>1, <1>2, OverTyped DEF AgentTypeOK
  <2>q. QED BY <1>1, <1>2, <2>1 DEF Run, CalmInv, NoPause
<1>q. QED BY <1>1, <1>2, OverTyped DEF AgentTypeOK

(* Delivering the head of a queue takes that order off it and no other.    *)
LEMMA OrderDelivered ==
    ASSUME WiresTypeOK, NEW d \in Devices, down[d] # <<>>, down' = [down EXCEPT ![d] = Tail(@)],
           NEW t \in Tasks, NEW e \in Devices
    PROVE  LET m == Head(down[d])
           IN  /\ AssignsIn(down[e], t) <=> AssignsIn(down'[e], t) \/ (e = d /\ AssignOf(m, t))
               /\ AbortsIn(down[e], t) <=> AbortsIn(down'[e], t) \/ (e = d /\ AbortOf(m, t))
               /\ AssignsOnce(down[e], t) => /\ AssignsOnce(down'[e], t)
                                             /\ e = d /\ AssignOf(m, t) => ~AssignsIn(down'[e], t)
<1>1. down[e] \in Seq(Orders) /\ down'[e] = IF e = d THEN Tail(down[d]) ELSE down[e]
  BY DEF WiresTypeOK
<1>q. QED BY <1>1, OrderTaken

(* An assignment arrives: the process becomes the executor, or has failed. *)
LEMMA StartKeeps ==
    ASSUME CalmInv, Steady, NEW d \in Devices, Deliver(d), Head(down[d]).order = "assign"
    PROVE  \A t \in Tasks : CalmTask(t)'
<1>0. /\ WiresTypeOK /\ (\A t \in Tasks : CalmTask(t)) /\ run \in [Runs -> Run \cup {Over}] /\ Over.st = "free"
  BY CalmFacts, AgentFacts
<1>1. PICK m : m = Head(down[d])
  OBVIOUS
<1>2. /\ down[d] # <<>> /\ down' = [down EXCEPT ![d] = Tail(@)]
      /\ UNCHANGED <<row, created, req, chain, pass>>
      /\ m.order = "assign" /\ Start(d, m.task)
  BY <1>1 DEF Deliver, vars, tableVars, gatewayVars, dispatchVars
<1>3. m \in Orders
  BY <1>0, <1>1, <1>2 DEF WiresTypeOK
<1>4. PICK x \in Tasks : x = m.task /\ \A t : (AssignOf(m, t) <=> t = x) /\ ~AbortOf(m, t)
  BY <1>2, <1>3 DEF Orders, AssignOf, AbortOf
<1>5. /\ \A e \in Devices, t \in Tasks :
             /\ AssignsIn(down[e], t) <=> AssignsIn(down'[e], t) \/ (e = d /\ t = x)
             /\ AbortsIn(down[e], t) <=> AbortsIn(down'[e], t)
             /\ AssignsOnce(down[e], t) => /\ AssignsOnce(down'[e], t)
                                           /\ e = d /\ t = x => ~AssignsIn(down'[e], t)
  BY <1>0, <1>1, <1>2, <1>4, OrderDelivered
<1>6. /\ AssignsIn(down[d], x) /\ ToBeStarted(x) /\ Executor(x) /\ ~ToBeAssigned(x) /\ ~Started(x)
      /\ \A e \in Devices : ~AssignsIn(down'[e], x)
      /\ \A e \in Devices : AssignsOnce(down'[e], x)
  <2>1. AssignsIn(down[d], x)
    BY <1>5
  <2>2. ToBeStarted(x)
    BY <2>1 DEF ToBeStarted
  <2>3. OneExecutor(x)
    BY <1>0 DEF CalmTask
  <2>4. \A e \in Devices : AssignsIn(down[e], x) => e = d
    BY <2>1, <2>3 DEF OneExecutor
  <2>5. \A e \in Devices : AssignsOnce(down[e], x)
    BY <2>3 DEF OneExecutor
  <2>q. QED BY <1>5, <2>1, <2>2, <2>3, <2>4, <2>5 DEF OneExecutor, Executor
<1>7. InSlot(x) => row[x].device = d
  BY <1>0, <1>6 DEF CalmTask, OnItsDevice
<1>8. ~ToBeAssigned(x)' /\ ~ToBeStarted(x)'
  BY <1>2, <1>6 DEF ToBeAssigned, Assigning, ToBeStarted
<1>9. \A t \in Tasks : t # x => SameOrders(t)
  BY <1>5 DEF SameOrders
<1>10. ASSUME UNCHANGED agentVars, Emit(d, x, Unstartable)
       PROVE  \A t \in Tasks : CalmTask(t)'
  <2>1. UNCHANGED run
    BY <1>10 DEF agentVars
  <2>2. \A t \in Tasks : NoNewAbort(t)
    <3>1. \A c \in Runs, t \in Tasks : (Ran(c, t)' <=> Ran(c, t)) /\ run'[c].abort = run[c].abort
      BY <2>1 DEF Ran
    <3>q. QED BY <1>5, <3>1 DEF NoNewAbort, AbortPending
  <2>3. ~Started(x)'
    BY <1>6, <2>1 DEF Started, Ran
  <2>4. OneExecutor(x)' /\ ~Executor(x)'
    BY <1>6, <1>8, <2>3 DEF OneExecutor, Executor, ToBeAssigned, ToBeStarted, Started
  <2>5. \A t \in Tasks : SameRuns(t)
    BY <2>1, Standing
  <2>6. \A c \in Runs : ~Ran(c, x)'
    BY <2>3 DEF Started
  <2>q. QED BY <1>2, <1>6, <1>7, <1>9, <1>10, <2>2, <2>4, <2>5, <2>6, Words, WordsTyped, SpeakKeeps
<1>11. ASSUME NEW c \in Runs, Assigned(c, d, x), Emit(d, x, Starting)
       PROVE  \A t \in Tasks : CalmTask(t)'
  <2>1. run[c].st = "free" /\ run' = [run EXCEPT ![c] = Spawned(d, x)]
    BY <1>0, <1>11 DEF Assigned, Free
  <2>2. run'[c] = Spawned(d, x) /\ \A b \in Runs : b # c => run'[b] = run[b]
    BY <1>0, <2>1
  <2>3. Spawned(d, x).st = "running" /\ Spawned(d, x).host = d /\ Spawned(d, x).task = x
        /\ Spawned(d, x).abort = "no"
    BY DEF Spawned
  <2>4. \A t \in Tasks : NoNewAbort(t)
    <3>1. \A b \in Runs, t \in Tasks : Ran(b, t)' /\ run'[b].abort # "no" => Ran(b, t) /\ run[b].abort # "no"
      BY <2>2, <2>3 DEF Ran
    <3>q. QED BY <1>5, <3>1 DEF NoNewAbort, AbortPending
  <2>5. \A b \in Runs : Ran(b, x)' <=> b = c
    BY <1>6, <2>2, <2>3 DEF Started, Ran
  <2>6. OneExecutor(x)' /\ Executor(x)'
    BY <1>6, <1>8, <2>5 DEF OneExecutor, Executor, ToBeAssigned, ToBeStarted, Started
  <2>7. \A t \in Tasks : t # x => SameRuns(t)
    BY <2>1, <2>2, <2>3 DEF SameRuns, Ran
  <2>8. \A b \in Runs : Ran(b, x)' => run'[b].host = d
    BY <2>2, <2>3, <2>5
  <2>q. QED BY <1>2, <1>6, <1>7, <1>9, <1>11, <2>4, <2>6, <2>7, <2>8, Words, WordsTyped, SpeakKeeps
<1>12. \/ UNCHANGED agentVars /\ Emit(d, x, Unstartable)
       \/ \E c \in Runs : Assigned(c, d, x) /\ Emit(d, x, Starting)
  BY <1>2, <1>4 DEF Start
<1>q. QED BY <1>10, <1>11, <1>12

(* An abort arrives: the task is cancelled, or about to be.                *)
LEMMA AbortKeeps ==
    ASSUME CalmInv, Steady, NEW d \in Devices, Deliver(d), Head(down[d]).order # "assign"
    PROVE  \A t \in Tasks : CalmTask(t)'
<1>0. /\ WiresTypeOK /\ (\A t \in Tasks : CalmTask(t)) /\ run \in [Runs -> Run \cup {Over}] /\ Over.st = "free"
      /\ Hosts = Devices /\ Jobs = Tasks /\ AbortFindsItsRun
  BY CalmFacts, AgentFacts DEF CalmInv, OrderlyInv, LocalInv
<1>1. PICK m : m = Head(down[d])
  OBVIOUS
<1>2. /\ down[d] # <<>> /\ down' = [down EXCEPT ![d] = Tail(@)]
      /\ UNCHANGED <<row, created, req, chain, pass, up>>
      /\ m.order # "assign" /\ Aborted(d, m.task, m.order)
  BY <1>1 DEF Deliver, vars, tableVars, gatewayVars, dispatchVars
<1>3. m \in Orders
  BY <1>0, <1>1, <1>2 DEF WiresTypeOK
<1>4. PICK x \in Tasks : x = m.task /\ \A t : ~AssignOf(m, t) /\ (AbortOf(m, t) <=> t = x)
  BY <1>2, <1>3 DEF Orders, AssignOf, AbortOf
<1>5. /\ \A e \in Devices, t \in Tasks :
             /\ AssignsIn(down[e], t) <=> AssignsIn(down'[e], t)
             /\ AbortsIn(down[e], t) <=> AbortsIn(down'[e], t) \/ (e = d /\ t = x)
             /\ AssignsOnce(down[e], t) => AssignsOnce(down'[e], t)
  BY <1>0, <1>1, <1>2, <1>4, OrderDelivered
<1>6. PICK a : a = active[d][x]
  OBVIOUS
<1>7. PICK b : b = retry[d][x]
  OBVIOUS
<1>8. /\ a \in Runs => run[a].st = "running" /\ run[a].task = x /\ run[a].host = d
      /\ b \in Runs => run[b].st = "waiting" /\ run[b].task = x /\ run[b].host = d
  BY <1>0, <1>6, <1>7 DEF AbortFindsItsRun, Running, Timed
<1>9. \A c \in Runs : run'[c] = IF c = a THEN [run[c] EXCEPT !.abort = m.order]
                                ELSE IF c = b THEN Over ELSE run[c]
  BY <1>2, <1>4, <1>6, <1>7 DEF Aborted
<1>10. a \in Runs => /\ run'[a].st = run[a].st /\ run'[a].task = run[a].task
                     /\ run'[a].host = run[a].host
  <2> SUFFICES ASSUME a \in Runs
               PROVE  run'[a].st = run[a].st /\ run'[a].task = run[a].task /\ run'[a].host = run[a].host
    OBVIOUS
  <2>1. run[a] \in Run
    BY <1>0, <1>8
  <2>2. run'[a] = [run[a] EXCEPT !.abort = m.order]
    BY <1>9
  <2>q. QED BY <2>1, <2>2 DEF Run
<1>11. \A t \in Tasks : SameRow(t) /\ SamePasses(t) /\ SameChain(t) /\ StillPending(t) /\ SameTells(t)
                        /\ SameOrders(t)
  BY <1>2, <1>5, Standing DEF SameOrders
<1>12. ASSUME NEW t \in Tasks, t # x PROVE CalmTask(t)'
  <2>1. \A c \in Runs : Ran(c, t) \/ Ran(c, t)' => run'[c] = run[c]
    BY <1>0, <1>8, <1>9, <1>10, <1>12 DEF Ran
  <2>2. SameRuns(t)
    BY <2>1 DEF SameRuns, Ran
  <2>3. NoNewAbort(t)
    <3>1. \A c \in Runs : Ran(c, t)' /\ run'[c].abort # "no" => Ran(c, t) /\ run[c].abort # "no"
      BY <2>1 DEF Ran
    <3>q. QED BY <1>5, <3>1 DEF NoNewAbort, AbortPending
  <2>q. QED BY <1>0, <1>11, <2>2, <2>3, UnmovedKeeps DEF SameButRow
<1>13. AbortPending(x) /\ AbortIsCancel(x)'
  <2>1. AbortPending(x)
    BY <1>5 DEF AbortPending
  <2>2. x <= created /\ (row[x].status \in {"CANCELED", "NONE"} \/ CancelPending(x))
    BY <1>0, <2>1 DEF CalmTask, AbortIsCancel
  <2>3. x <= created' /\ (row'[x].status \in {"CANCELED", "NONE"} \/ CancelPending(x)')
    BY <1>2, <1>11, <2>2 DEF StillPending
  <2>q. QED BY <2>1, <2>3 DEF AbortIsCancel
<1>14. ASSUME b \notin Runs PROVE CalmTask(x)'
  <2>1. SameRuns(x)
    BY <1>8, <1>9, <1>10, <1>14 DEF SameRuns, Ran
  <2>2. SteadyFor(x)
    BY <1>2, SteadyTask
  <2>q. QED BY <1>0, <1>11, <1>13, <2>1, <2>2, UntouchedKeeps
<1>15. ASSUME b \in Runs PROVE CalmTask(x)'
  <2>1. Ran(b, x) /\ Started(x)
    BY <1>8, <1>15 DEF Ran, Started
  <2>2. /\ ~ToBeAssigned(x) /\ ~ToBeStarted(x) /\ Executor(x)
        /\ \A c \in Runs : Ran(c, x) => c = b
    BY <1>0, <1>15, <2>1 DEF CalmTask, OneExecutor, Executor
  <2>3. b # a
    BY <1>8, <1>15
  <2>4. \A c \in Runs : ~Ran(c, x)'
    BY <1>0, <1>9, <1>10, <1>15, <2>2, <2>3 DEF Ran
  <2>5. ~ToBeAssigned(x)' /\ ~ToBeStarted(x)' /\ ~Started(x)'
    BY <1>11, <2>2, <2>4 DEF SamePasses, SameOrders, ToBeAssigned, ToBeStarted, Started
  <2>6. OneExecutor(x)' /\ ~Executor(x)'
    BY <2>5 DEF OneExecutor, Executor, ToBeAssigned, ToBeStarted, Started, AssignsIn, AssignsOnce
  <2>7. OnItsDevice(x)'
    BY <1>0, <1>11, <2>5 DEF CalmTask, OnItsDevice, SameTells, SameRow, InSlot, ToBeAssigned, ToBeStarted, Started
  <2>8. InSlot(x) => /\ CancelPending(x)'
                     /\ \A e \in Devices : EndsLast(up'[e], x)
    <3>1. InSlot(x) => CancelPending(x)
      BY <1>0, <1>13 DEF CalmTask, AbortIsCancel, InSlot, Occupying
    <3>q. QED BY <1>0, <1>11, <3>1 DEF StillPending, CalmTask, EndIsLast, SameTells
  <2>9. SteadyFor(x)
    BY <1>2, SteadyTask
  <2>q. QED BY <1>0, <1>11, <1>13, <2>2, <2>6, <2>7, <2>8, <2>9, ExecutorMoves
<1>q. QED BY <1>12, <1>14, <1>15

(* A process closes and has reported how, unless it was aborted.           *)
LEMMA CloseKeeps ==
    ASSUME CalmInv, Steady, NEW c \in Runs, NEW outcome \in Ends, Close(c, outcome)
    PROVE  (\A t \in Tasks : CalmTask(t)') /\ up' \in [Devices -> Seq(CalmTells)]
<1>0. /\ (\A t \in Tasks : CalmTask(t)) /\ run \in [Runs -> Run \cup {Over}] /\ Over.st = "free"
      /\ Hosts = Devices /\ Jobs = Tasks
  BY CalmFacts, AgentFacts
<1>1. /\ run[c].st = "running" /\ run' = [run EXCEPT ![c] = Ended(c, outcome)]
      /\ UNCHANGED <<row, created, req, chain, pass, down>>
      /\ Emit(run[c].host, run[c].task, Report(c, outcome))
  BY DEF Close, Closed, Running, vars, tableVars, gatewayVars, dispatchVars
<1>2. PICK d \in Devices : d = run[c].host
  BY <1>1, AgentFacts
<1>3. PICK x \in Tasks : x = run[c].task
  BY <1>1, AgentFacts
<1>4. PICK new : new = Ended(c, outcome)
  OBVIOUS
<1>5. run[c] \in Run /\ run[c].abort \in {"no", "cancel"} /\ outcome \in {"COMPLETED", "FAILED", "PAUSED_RATE_LIMIT"}
  BY <1>0, <1>1, AgentFacts, EndsAssumption DEF Outcomes
<1>6. PICK words \in Seq(CalmReports) :
             /\ words = Report(c, outcome) /\ words \in Seq(Reports) /\ FinalLast(words)
             /\ \/ new = Over /\ run[c].abort = "no" /\ FinalIn(words)
                \/ new = Over /\ run[c].abort = "cancel" /\ ~FinalIn(words)
                \/ new = [run[c] EXCEPT !.st = "waiting"] /\ run[c].abort = "no" /\ ~FinalIn(words)
  <2>1. outcome \in CalmReports /\ outcome \in Reports
    BY <1>5 DEF CalmReports, Reports
  <2>2. CASE run[c].abort = "no"
    <3>1. Report(c, outcome) = <<outcome>>
      BY <2>2 DEF Report
    <3>2. <<outcome>> \in Seq(CalmReports) /\ <<outcome>> \in Seq(Reports)
      BY <2>1
    <3>3. FinalLast(<<outcome>>) /\ (FinalIn(<<outcome>>) <=> outcome \in Final)
      BY <2>1, Words
    <3>4. CASE outcome = "PAUSED_RATE_LIMIT"
      <4>1. new = [run[c] EXCEPT !.st = "waiting"] /\ outcome \notin Final
        BY <1>4, <2>2, <3>4 DEF Ended, Final
      <4>q. QED BY <2>2, <3>1, <3>2, <3>3, <4>1
    <3>5. CASE outcome # "PAUSED_RATE_LIMIT"
      <4>1. new = Over /\ outcome \in Final
        BY <1>4, <1>5, <2>2, <3>5 DEF Ended, Final
      <4>q. QED BY <2>2, <3>1, <3>2, <3>3, <4>1
    <3>q. QED BY <3>4, <3>5
  <2>3. CASE run[c].abort = "cancel"
    <3>1. Report(c, outcome) = <<>> /\ new = Over
      BY <1>4, <2>3 DEF Report, Ended
    <3>2. <<>> \in Seq(CalmReports) /\ <<>> \in Seq(Reports)
      OBVIOUS
    <3>q. QED BY <2>3, <3>1, <3>2, Words
  <2>q. QED BY <1>5, <2>2, <2>3
<1>7. Emit(d, x, words)
  BY <1>1, <1>2, <1>3, <1>6
<1>8. /\ run'[c] = new /\ \A b \in Runs : b # c => run'[b] = run[b]
      /\ \/ new.st = "free"
         \/ new.st = "waiting" /\ new.task = x /\ new.host = d /\ new.abort = run[c].abort
  <2>1. run'[c] = new /\ \A b \in Runs : b # c => run'[b] = run[b]
    BY <1>0, <1>1, <1>4
  <2>2. CASE new = Over
    BY <1>0, <2>1, <2>2
  <2>3. CASE new = [run[c] EXCEPT !.st = "waiting"]
    BY <1>2, <1>3, <1>5, <2>1, <2>3 DEF Run
  <2>q. QED BY <1>6, <2>2, <2>3
<1>9. /\ Ran(c, x) /\ Started(x) /\ Executor(x) /\ ~ToBeAssigned(x) /\ ~ToBeStarted(x)
      /\ \A b \in Runs : Ran(b, x) => b = c
  <2>1. Ran(c, x) /\ Started(x)
    BY <1>1, <1>3 DEF Ran, Started
  <2>q. QED BY <1>0, <2>1 DEF CalmTask, OneExecutor, Executor
<1>10. /\ \A b \in Runs, t \in Tasks : Ran(b, t)' => Ran(b, t) /\ run'[b].host = run[b].host
                                                     /\ run'[b].abort = run[b].abort
       /\ \A b \in Runs, t \in Tasks : t # x => (Ran(b, t)' <=> Ran(b, t))
       /\ Ran(c, x)' <=> new.st # "free"
  BY <1>2, <1>3, <1>8, <1>9 DEF Ran
<1>11. \A t \in Tasks : NoNewAbort(t)
  <2>1. \A e \in Devices, t \in Tasks : AbortsIn(down'[e], t) <=> AbortsIn(down[e], t)
    BY <1>1
  <2>q. QED BY <1>10, <2>1 DEF NoNewAbort, AbortPending
<1>12. \A t \in Tasks : t # x => SameOrders(t) /\ SameRuns(t)
  BY <1>1, <1>10, Standing DEF SameRuns
<1>13. ~ToBeAssigned(x)' /\ ~ToBeStarted(x)'
  BY <1>1, <1>9 DEF ToBeAssigned, Assigning, ToBeStarted
<1>14. OneExecutor(x)' /\ (Executor(x)' <=> new.st # "free")
  <2>1. \A b \in Runs : Ran(b, x)' => b = c
    BY <1>9, <1>10
  <2>2. Started(x)' <=> new.st # "free"
    BY <1>10, <2>1 DEF Started
  <2>q. QED BY <1>13, <2>1, <2>2 DEF OneExecutor, Executor, ToBeAssigned, ToBeStarted, Started,
         AssignsIn, AssignsOnce
<1>15. InSlot(x) => /\ row[x].device = d
                    /\ \A e \in Devices : ~AssignsIn(down'[e], x)
                    /\ \A b \in Runs : Ran(b, x)' => run'[b].host = d
  BY <1>0, <1>2, <1>9, <1>10, <1>13 DEF CalmTask, OnItsDevice, ToBeStarted
<1>16. InSlot(x) => \/ Executor(x)' /\ ~FinalIn(words)
                    \/ ~Executor(x)' /\ (FinalIn(words) \/ CancelPending(x))
  <2>1. CASE run[c].abort = "no"
    <3>1. [run[c] EXCEPT !.st = "waiting"].st = "waiting"
      BY <1>5 DEF Run
    <3>q. QED BY <1>0, <1>6, <1>14, <2>1, <3>1
  <2>2. CASE run[c].abort = "cancel"
    <3>1. AbortPending(x)
      BY <1>9, <2>2 DEF AbortPending
    <3>2. InSlot(x) => CancelPending(x)
      BY <1>0, <3>1 DEF CalmTask, AbortIsCancel, InSlot, Occupying
    <3>q. QED BY <1>0, <1>6, <1>14, <2>2, <3>2
  <2>q. QED BY <1>5, <2>1, <2>2
<1>17. \A t \in Tasks : CalmTask(t)'
  BY <1>1, <1>6, <1>7, <1>9, <1>11, <1>12, <1>14, <1>15, <1>16, SpeakKeeps
<1>18. up' \in [Devices -> Seq(CalmTells)]
  BY <1>6, <1>7, SpeakCalmly DEF CalmInv
<1>q. QED BY <1>17, <1>18

(* A timer fires and the task is started over.                             *)
LEMMA FireKeeps ==
    ASSUME CalmInv, Steady, NEW c \in Runs, Fire(c)
    PROVE  (\A t \in Tasks : CalmTask(t)') /\ up' \in [Devices -> Seq(CalmTells)]
<1>0. /\ (\A t \in Tasks : CalmTask(t)) /\ run \in [Runs -> Run \cup {Over}]
  BY CalmFacts, AgentFacts
<1>1. /\ run[c].st = "waiting" /\ run' = [run EXCEPT ![c] = Spawned(run[c].host, run[c].task)]
      /\ UNCHANGED <<row, created, req, chain, pass, down>>
      /\ Emit(run[c].host, run[c].task, Starting)
  BY DEF Fire, Fired, Timed, vars, tableVars, gatewayVars, dispatchVars
<1>2. PICK d \in Devices : d = run[c].host
  BY <1>1, AgentFacts
<1>3. PICK x \in Tasks : x = run[c].task
  BY <1>1, AgentFacts
<1>4. /\ run'[c].st = "running" /\ run'[c].host = d /\ run'[c].task = x /\ run'[c].abort = "no"
      /\ \A b \in Runs : b # c => run'[b] = run[b]
  BY <1>0, <1>1, <1>2, <1>3 DEF Spawned
<1>5. \A t \in Tasks, b \in Runs : /\ Ran(b, t)' <=> Ran(b, t)
                                   /\ run'[b].host = run[b].host
                                   /\ run'[b].abort # "no" => run[b].abort # "no"
  BY <1>1, <1>2, <1>3, <1>4 DEF Ran
<1>6. \A t \in Tasks : SameRuns(t) /\ SameOrders(t) /\ SamePasses(t)
  BY <1>1, <1>5, Standing DEF SameRuns
<1>7. \A t \in Tasks : NoNewAbort(t)
  <2>1. \A e \in Devices, t \in Tasks : AbortsIn(down'[e], t) <=> AbortsIn(down[e], t)
    BY <1>1
  <2>q. QED BY <1>5, <2>1 DEF NoNewAbort, AbortPending
<1>8. /\ Started(x) /\ Executor(x) /\ ~ToBeAssigned(x) /\ ~ToBeStarted(x)
  <2>1. Started(x)
    BY <1>1, <1>3 DEF Ran, Started
  <2>q. QED BY <1>0, <2>1 DEF CalmTask, OneExecutor, Executor
<1>9. /\ ToBeAssigned(x)' <=> ToBeAssigned(x)
      /\ ToBeStarted(x)' <=> ToBeStarted(x)
      /\ Started(x)' <=> Started(x)
  BY <1>6, Zenon DEF SamePasses, SameOrders, SameRuns, ToBeAssigned, ToBeStarted, Started
<1>10. OneExecutor(x)' /\ Executor(x)'
  <2>1. OneExecutor(x)'
    BY <1>0, <1>6, <1>9, Zenon DEF CalmTask, OneExecutor, SamePasses, SameOrders, SameRuns
  <2>q. QED BY <1>8, <1>9, <2>1 DEF Executor
<1>11. InSlot(x) => /\ row[x].device = d
                    /\ \A e \in Devices : ~AssignsIn(down'[e], x)
                    /\ \A b \in Runs : Ran(b, x)' => run'[b].host = d
  <2>1. Ran(c, x)
    BY <1>1, <1>3 DEF Ran
  <2>q. QED BY <1>0, <1>2, <1>5, <1>8, <1>9, <2>1 DEF CalmTask, OnItsDevice, ToBeStarted
<1>12. Emit(d, x, Starting) /\ Starting \in Seq(Reports) /\ Starting \in Seq(CalmReports)
       /\ FinalLast(Starting) /\ ~FinalIn(Starting)
  <2>1. Starting \in Seq(CalmReports)
    BY DEF Starting, CalmReports, Reports
  <2>q. QED BY <1>1, <1>2, <1>3, <2>1, Words, WordsTyped
<1>13. \A t \in Tasks : CalmTask(t)'
  BY <1>1, <1>6, <1>7, <1>8, <1>10, <1>11, <1>12, SpeakKeeps
<1>14. up' \in [Devices -> Seq(CalmTells)]
  BY <1>12, SpeakCalmly DEF CalmInv
<1>q. QED BY <1>13, <1>14

-----------------------------------------------------------------------------
(* A session whose agent has left it is that of a device that is leaving.  *)
LEMMA AbandonedLeaves ==
    ASSUME OrderlyInv, NEW s \in Sessions, Abandoned(s)
    PROVE  session[s].device \in Devices /\ Leaving(session[s].device) /\ Leaves(s, session[s].device)
<1>1. PICK d \in Devices : session[s].device = d
  BY DEF OrderlyInv, OfDevices, Abandoned
<1>2. link[d] # s /\ (Attached(d) \/ Leaving(d) \/ Away(d))
  BY <1>1 DEF OrderlyInv, Abandoned
<1>3. ~Attached(d) /\ ~Away(d)
  BY <1>1, <1>2 DEF Attached, OnlySession, Away
<1>q. QED BY <1>1, <1>2, <1>3 DEF Leaving, Leaves, OnlySession

(* A connection comes about, breaks, or stays as it is.                    *)
LEMMA LinkStep ==
    ASSUME LocalInv, [LocalNext]_localVars, NEW d \in Devices
    PROVE  \/ link'[d] = link[d]
           \/ link'[d] = NoLink /\ (Lose(d) \/ Crash(d))
           \/ link[d] = NoLink /\ ~Settling /\ Open(d)
           \/ link'[d] = NoLink /\ Removing
<1>0. link \in [Devices -> Sessions \cup {NoLink}]
  BY OrderlyFacts DEF WiresTypeOK
<1>3. ASSUME Removing
      PROVE  link'[d] = link[d] \/ link'[d] = NoLink
  <2>1. UNCHANGED link \/ \E e : Cut(e)
    BY <1>3 DEF Removing, Refuse, DeleteDevice, wires
  <2>q. QED BY <1>0, <2>1 DEF Cut
<1>1. ASSUME NEW e \in Devices, ~Settling, Open(e)
      PROVE  link'[d] = link[d] \/ (link[d] = NoLink /\ ~Settling /\ Open(d))
  BY <1>0, <1>1 DEF Open
<1>2. ASSUME NEW e \in Devices, Lose(e) \/ Crash(e)
      PROVE  link'[d] = link[d] \/ (link'[d] = NoLink /\ (Lose(d) \/ Crash(d)))
  <2>1. link' = [link EXCEPT ![e] = NoLink]
    BY <1>2 DEF Lose, Crash, Fault, Cut
  <2>q. QED BY <1>0, <1>2, <2>1
<1>q. QED BY <1>1, <1>2, <1>3, SocketsMove

(* Who is connected stays so, unless the connection breaks.                *)
LEMMA HeardStays ==
    ASSUME OrderlyInv, OrderlyInv', [LocalNext]_localVars,
           NEW d \in Devices, Heard(d), link'[d] = link[d]
    PROVE  Heard(d)'
<1>0. d # NoDevice
  BY NoDeviceAssumption
<1>1. ~Leaving(d)' /\ ~Away(d)'
  BY DEF Heard, Leaving, Away
<1>2. PICK s \in Sessions : /\ link'[d] = s /\ session'[s].device = d /\ session'[s].open
  BY <1>1 DEF OrderlyInv, Attached, OnlySession
<1>3. session[s].device # NoDevice /\ session[s].connect # "find"
  BY <1>2 DEF Heard, Identified
<1>4. session[s] # NoSession /\ session'[s] # NoSession
  BY <1>0, <1>2, <1>3 DEF NoSession
<1>5. session'[s].connect # "find"
  BY <1>3, <1>4, SameSocket DEF OrderlyInv
<1>6. link'[d] # NoLink
  BY DEF Heard
<1>q. QED BY <1>0, <1>2, <1>5, <1>6 DEF Heard, Identified

(* A device comes ONLINE by the handler of one of its sockets.             *)
LEMMA GoesOnline ==
    ASSUME LocalInv, [LocalNext]_localVars, NEW d \in Devices, device'[d] = "ONLINE", device[d] # "ONLINE"
    PROVE  \E s \in Sessions : session[s].device = d /\ session[s].connect = "mark" /\ UNCHANGED link
<1>0. device \in [Devices -> {"ONLINE", "OFFLINE", "GONE"}]
  BY OrderlyFacts
<1>1. ASSUME NEW e \in Devices, Open(e) \/ Lose(e) \/ Crash(e) PROVE UNCHANGED device
  BY <1>1 DEF Open, Connect, Lose, Crash, Fault, vars, gatewayVars
<1>5. ~Removing
  BY <1>0 DEF Removing, Refuse, Identify, DeleteDevice, RemoveDevice
<1>2. PICK s \in Sessions : UNCHANGED link /\ (SessionHandler(s) \/ Notice(s))
  BY <1>1, <1>5, SocketsMove
<1>3. CASE MarkOnline(s)
  BY <1>0, <1>2, <1>3 DEF MarkOnline, SetStatus
<1>4. CASE Identify(s) \/ MarkOffline(s) \/ Requeue(s) \/ Drop(s)
  BY <1>0, <1>4 DEF Identify, MarkOffline, Requeue, Drop, SetStatus
<1>q. QED BY <1>2, <1>3, <1>4 DEF SessionHandler, Notice

(* Who is ONLINE is connected, or has left and the server does not know.   *)
LEMMA OnlineStep ==
    ASSUME CalmInv, OrderlyInv', [LocalNext]_localVars, NEW d \in Devices, device'[d] = "ONLINE"
    PROVE  Heard(d)' \/ Leaving(d)'
<1>0. OrderlyInv /\ LocalInv /\ (device[d] = "ONLINE" => Heard(d) \/ Leaving(d)) /\ d # NoDevice
  BY NoDeviceAssumption DEF CalmInv, Wired, OrderlyInv
<1>1. CASE ~Attached(d)'
  BY <1>1 DEF OrderlyInv, Away
<1>2. CASE Attached(d)'
  <2>1. link'[d] # NoLink
    BY <1>2, NoLinkAssumption DEF Attached
  <2>2. CASE link'[d] = link[d]
    <3>1. ~Leaving(d) /\ ~Away(d)
      BY <2>1, <2>2 DEF Leaving, Away
    <3>2. CASE device[d] = "ONLINE"
      BY <1>0, <2>2, <3>1, <3>2, HeardStays
    <3>3. CASE device[d] # "ONLINE"
      <4>1. PICK s \in Sessions : session[s].device = d /\ session[s].connect = "mark"
        BY <1>0, <3>3, GoesOnline
      <4>2. link[d] = s /\ session[s].open /\ link[d] # NoLink
        BY <1>0, <2>1, <2>2, <3>1, <4>1 DEF OrderlyInv, Attached, OnlySession
      <4>3. Heard(d)
        BY <1>0, <4>1, <4>2 DEF Heard, Identified
      <4>q. QED BY <1>0, <2>2, <4>3, HeardStays
    <3>q. QED BY <3>2, <3>3
  <2>3. CASE link[d] = NoLink /\ ~Settling /\ Open(d)
    <3>1. device[d] = "ONLINE"
      BY <2>3 DEF Open, Connect
    <3>q. QED BY <1>0, <2>3, <3>1, LeavingSettles DEF Heard
  <2>q. QED BY <1>0, <2>1, <2>2, <2>3, LinkStep
<1>q. QED BY <1>1, <1>2

(* A pass knows devices that are connected.                                *)
LEMMA PassesHeard ==
    ASSUME Tidy, CalmInv, OrderlyInv', [LocalNext]_localVars, NEW p \in Passes, NEW d \in PassDevices(p)'
    PROVE  Heard(d)'
<1>0. OrderlyInv /\ LocalInv /\ BlankPasses /\ Wired
  BY DEF CalmInv, OrderlyInv
<1>1. d \in PassDevices(p) \/ (~Settling /\ d \in OnlineDevices)
  BY <1>0, PassesKnow DEF PassesLearn
<1>2. d \in Devices
  <2>1. pass[p] \in Pass
    BY CalmFacts DEF DispatcherOK, DispatcherTypeOK
  <2>q. QED BY <1>1, <2>1 DEF PassDevices, Pass, OnlineDevices
<1>3. Heard(d)
  BY <1>0, <1>1, <1>2, LeavingSettles DEF Wired, OnlineDevices
<1>4. ASSUME Lose(d) \/ Crash(d) PROVE FALSE
  <2>1. UNCHANGED pass /\ \A q \in Passes : pass[q].pc = "free"
    BY <1>4 DEF Lose, Crash, Tidy, Fault, Undisturbed, vars, gatewayVars, dispatchVars
  <2>2. PassDevices(p) = {} /\ PassDevices(p)' = PassDevices(p)
    BY <1>0, <2>1 DEF BlankPasses, PassDevices
  <2>q. QED BY <2>2
<1>5. link'[d] = link[d]
  BY <1>0, <1>2, <1>3, <1>4, LinkStep, NothingRemoved DEF Heard
<1>q. QED BY <1>0, <1>2, <1>3, <1>5, HeardStays

(* Who works or is spoken to was connected before and is still.            *)
LEMMA WiredStep ==
    ASSUME Tidy, CalmInv, OrderlyInv', [LocalNext]_localVars,
           \A d \in Devices : down'[d] # <<>> \/ up'[d] # <<>> => Heard(d) /\ link'[d] = link[d],
           \A c \in Runs : run'[c].st # "free" =>
               Heard(run'[c].host) /\ link'[run'[c].host] = link[run'[c].host]
    PROVE  Wired'
<1>0. OrderlyInv
  BY DEF CalmInv
<1>1. \A d \in Devices : device'[d] = "ONLINE" => Heard(d)' \/ Leaving(d)'
  BY OnlineStep
<1>2. \A p \in Passes : \A d \in PassDevices(p)' : Heard(d)'
  BY PassesHeard
<1>3. \A d \in Devices : down'[d] # <<>> \/ up'[d] # <<>> => Heard(d)'
  BY <1>0, HeardStays
<1>4. ASSUME NEW c \in Runs, run'[c].st # "free" PROVE Heard(run[c].host)'
  <2>1. AgentTypeOK'
    BY DEF OrderlyInv, LocalInv
  <2>2. PICK d : d = run'[c].host
    OBVIOUS
  <2>3. d \in Devices
    BY <1>4, <2>1, <2>2, OverTyped, AgentsAssumption DEF AgentTypeOK, Run
  <2>4. Heard(d)'
    BY <1>0, <1>4, <2>2, <2>3, HeardStays
  <2>q. QED BY <2>2, <2>4 DEF Heard, Identified
<1>q. QED BY <1>1, <1>2, <1>3, <1>4 DEF Wired

(* Only who hears is sent anything.                                        *)
LEMMA SendHeard ==
    ASSUME Wired, WiresTypeOK, NEW d, NEW order, NEW x, Send(d, order, x) \/ UNCHANGED down, NEW e \in Devices
    PROVE  down'[e] # <<>> => Heard(e)
<1> DEFINE m == [order |-> order, task |-> x]
<1>1. UNCHANGED down \/ (Heard(d) /\ down' = [down EXCEPT ![d] = Append(@, m)])
  BY DEF Send
<1> HIDE DEF m
<1>2. CASE UNCHANGED down
  BY <1>2 DEF Wired
<1>3. CASE Heard(d) /\ down' = [down EXCEPT ![d] = Append(@, m)]
  <2>1. e # d => down'[e] = down[e]
    BY <1>3 DEF WiresTypeOK
  <2>q. QED BY <1>3, <2>1 DEF Wired
<1>q. QED BY <1>1, <1>2, <1>3

(* What an agent sends, it sends over a connection the server hears.       *)
LEMMA EmitHeard ==
    ASSUME Wired, WiresTypeOK, NEW d \in Devices, NEW x, NEW statuses, Heard(d),
           Emit(d, x, statuses) \/ UNCHANGED up, NEW e \in Devices
    PROVE  up'[e] # <<>> => Heard(e)
<1>1. e # d => up'[e] = up[e]
  BY DEF Emit, WiresTypeOK
<1>q. QED BY <1>1 DEF Wired

(* The server hands out to devices that are connected.                     *)
LEMMA WiredServer ==
    ASSUME Tidy, CalmInv, OrderlyInv', [LocalNext]_localVars, UNCHANGED <<link, run, up>>,
           \A e \in Devices : down'[e] # <<>> => Heard(e)
    PROVE  Wired'
<1>1. \A c \in Runs : run'[c].st # "free" => Heard(run'[c].host)
  BY DEF CalmInv, Wired
<1>2. \A d \in Devices : down'[d] # <<>> \/ up'[d] # <<>> => Heard(d)
  BY DEF CalmInv, Wired
<1>q. QED BY <1>1, <1>2, WiredStep

(* An agent works and reports only while it is connected.                  *)
LEMMA WiredAgents ==
    ASSUME Tidy, CalmInv, OrderlyInv', [LocalNext]_localVars, NEW d \in Devices,
           \/ Upload(d) \/ Deliver(d)
           \/ \E c \in Runs : run[c].host = d /\ (Fire(c) \/ \E outcome \in Ends : Close(c, outcome))
    PROVE  Wired'
<1>0. /\ WiresTypeOK /\ Wired /\ run \in [Runs -> Run \cup {Over}] /\ Over.st = "free"
      /\ Hosts = Devices /\ Jobs = Tasks /\ AbortFindsItsRun
  BY CalmFacts, AgentFacts DEF CalmInv, OrderlyInv, LocalInv
<1>1. UNCHANGED link
  BY DEF Upload, Deliver, Fire, Close
<1>2. CASE Upload(d)
  <2>1. up[d] # <<>> /\ up' = [up EXCEPT ![d] = Tail(@)] /\ UNCHANGED <<run, down>>
    BY <1>2 DEF Upload, agentVars
  <2>2. \A e \in Devices : e # d => up'[e] = up[e]
    BY <1>0, <2>1 DEF WiresTypeOK
  <2>q. QED BY <1>0, <1>1, <2>1, <2>2, WiredStep DEF Wired
<1>3. CASE Deliver(d)
  <2>1. PICK x : x = Head(down[d]).task
    OBVIOUS
  <2>2. /\ down[d] # <<>> /\ down' = [down EXCEPT ![d] = Tail(@)]
        /\ \/ UNCHANGED up /\ Aborted(d, x, Head(down[d]).order)
           \/ Start(d, x)
    BY <1>3, <2>1 DEF Deliver
  <2>3. Heard(d)
    BY <1>0, <2>2 DEF Wired
  <2>4. \A e \in Devices : down'[e] # <<>> => Heard(e)
    <3>1. \A e \in Devices : e # d => down'[e] = down[e]
      BY <1>0, <2>2 DEF WiresTypeOK
    <3>q. QED BY <1>0, <2>3, <3>1 DEF Wired
  <2>5. \A e \in Devices : up'[e] # <<>> => Heard(e)
    <3>1. UNCHANGED up \/ Emit(d, x, Starting) \/ Emit(d, x, Unstartable)
      BY <2>2 DEF Start
    <3>q. QED BY <1>0, <2>3, <3>1, EmitHeard
  <2>6. \A c \in Runs : run'[c].st # "free" => Heard(run'[c].host)
    <3>1. CASE Start(d, x)
      <4>1. \/ UNCHANGED run
            \/ \E c \in Runs : run' = [run EXCEPT ![c] = Spawned(d, x)]
        BY <3>1 DEF Start, Assigned, agentVars
      <4>2. Spawned(d, x).host = d
        BY DEF Spawned
      <4>3. \A c \in Runs : run'[c] = run[c] \/ run'[c].host = d
        BY <1>0, <4>1, <4>2
      <4>q. QED BY <1>0, <2>3, <4>3 DEF Wired
    <3>2. CASE Aborted(d, x, Head(down[d]).order)
      <4>1. PICK order : order = Head(down[d]).order
        OBVIOUS
      <4>2. \A c \in Runs : run'[c] = IF c = active[d][x] THEN [run[c] EXCEPT !.abort = order]
                                      ELSE IF c = retry[d][x] THEN Over ELSE run[c]
        BY <3>2, <4>1 DEF Aborted
      <4>3. \A c \in Runs : run[c] \in Run => [run[c] EXCEPT !.abort = order].host = run[c].host
        BY DEF Run
      <4>4. x \in Tasks
        <5>1. Head(down[d]) \in Orders
          BY <1>0, <2>2 DEF WiresTypeOK
        <5>q. QED BY <2>1, <5>1 DEF Orders
      <4>5. \A c \in Runs : c = active[d][x] => run[c].st = "running" /\ run[c] \in Run
        BY <1>0, <4>4 DEF AbortFindsItsRun, Running
      <4>6. \A c \in Runs : run'[c].st # "free" => run[c].st # "free" /\ run'[c].host = run[c].host
        BY <1>0, <4>2, <4>3, <4>5
      <4>q. QED BY <1>0, <4>6 DEF Wired
    <3>q. QED BY <2>2, <3>1, <3>2
  <2>q. QED BY <1>0, <1>1, <2>4, <2>5, <2>6, WiredStep
<1>4. ASSUME NEW c \in Runs, run[c].host = d, Fire(c) \/ \E outcome \in Ends : Close(c, outcome)
      PROVE  Wired'
  <2>1. run[c].st # "free" /\ run[c] \in Run /\ UNCHANGED down
    BY <1>0, <1>4 DEF Fire, Fired, Timed, Close, Closed, Running
  <2>2. Heard(d)
    BY <1>0, <1>4, <2>1 DEF Wired
  <2>3. \E x, statuses : Emit(d, x, statuses)
    BY <1>4 DEF Fire, Close
  <2>4. \A e \in Devices : up'[e] # <<>> => Heard(e)
    BY <1>0, <2>2, <2>3, EmitHeard
  <2>5. \A b \in Runs : run'[b] = run[b] \/ run'[b].st = "free" \/ run'[b].host = d
    <3>1. ASSUME Fire(c) PROVE \A b \in Runs : run'[b] = run[b] \/ run'[b].host = d
      <4>1. run' = [run EXCEPT ![c] = Spawned(d, run[c].task)]
        BY <1>4, <3>1 DEF Fire, Fired
      <4>2. Spawned(d, run[c].task).host = d
        BY DEF Spawned
      <4>q. QED BY <1>0, <4>1, <4>2
    <3>2. ASSUME NEW outcome \in Ends, Close(c, outcome)
          PROVE  \A b \in Runs : run'[b] = run[b] \/ run'[b].st = "free" \/ run'[b].host = d
      <4>1. run' = [run EXCEPT ![c] = Ended(c, outcome)]
        BY <3>2 DEF Close, Closed
      <4>2. Ended(c, outcome).st = "free" \/ Ended(c, outcome).host = d
        BY <1>0, <1>4, <2>1 DEF Ended, Run
      <4>q. QED BY <1>0, <4>1, <4>2
    <3>q. QED BY <1>4, <3>1, <3>2
  <2>q. QED BY <1>0, <1>1, <2>1, <2>2, <2>4, <2>5, WiredStep DEF Wired
<1>q. QED BY <1>2, <1>3, <1>4

(* Sockets that are opened or dealt with.                                  *)
LEMMA WiredSockets ==
    ASSUME Tidy, CalmInv, OrderlyInv', [LocalNext]_localVars, UNCHANGED <<run, down, up>>,
           \A d \in Devices : link[d] # NoLink => link'[d] = link[d]
    PROVE  Wired'
<1>1. \A d \in Devices : Heard(d) => link'[d] = link[d]
  BY DEF Heard
<1>q. QED BY <1>1, AgentFacts, WiredStep DEF CalmInv, Wired

(* Most steps leave everybody where he is.                                 *)
LEMMA SteadyStep ==
    ASSUME OrderlyInv, OrderlyInv', [LocalNext]_localVars,
           \A s \in Sessions : Abandoned(s) => session'[s] # NoSession,
           UNCHANGED link \/ \E d \in Devices : ~Settling /\ Open(d)
    PROVE  Steady
<1>0. link \in [Devices -> Sessions \cup {NoLink}]
  BY OrderlyFacts DEF OrderlyInv, WiresTypeOK
<1>1. ASSUME NEW s \in Sessions, Abandoned(s)
      PROVE  Abandoned(s)' /\ session'[s].device = session[s].device
  <2>1. Settling /\ session[s] # NoSession
    BY <1>1, AbandonedLeaves, LeavingSettles DEF Abandoned
  <2>2. session'[s].device = session[s].device
    BY <1>1, <2>1, SameSocket DEF OrderlyInv
  <2>q. QED BY <1>1, <2>1, <2>2 DEF Abandoned
<1>2. ASSUME NEW d \in Devices, Heard(d) PROVE Heard(d)'
  <2>1. link'[d] = link[d]
    BY <1>0, <1>2 DEF Heard, Open
  <2>q. QED BY <1>2, <2>1, HeardStays
<1>q. QED BY <1>1, <1>2 DEF Steady

(* The server's steps that do not concern the sockets.                     *)
LEMMA SteadyServer ==
    ASSUME OrderlyInv, OrderlyInv', [LocalNext]_localVars, UNCHANGED <<session, link>>
    PROVE  Steady
<1>1. \A s \in Sessions : Abandoned(s) => session'[s] # NoSession
  BY DEF Abandoned
<1>q. QED BY <1>1, SteadyStep

(* A session that is not through with its disconnect is not forgotten.     *)
LEMMA SteadySession ==
    ASSUME OrderlyInv, OrderlyInv', [LocalNext]_localVars, UNCHANGED link, NEW s \in Sessions,
           Identify(s) \/ MarkOnline(s) \/ MarkOffline(s) \/ Drop(s)
    PROVE  Steady
<1>0. session \in [Sessions -> Session]
  BY OrderlyFacts DEF OrderlyInv
<1>1. ASSUME NEW q \in Sessions, Abandoned(q) PROVE session'[q] # NoSession
  <2>1. CASE q # s
    <3>1. session'[q] = session[q]
      BY <1>0, <2>1 DEF Identify, MarkOnline, MarkOffline, Drop
    <3>q. QED BY <1>1, <3>1 DEF Abandoned
  <2>2. CASE q = s
    <3>1. session[s].connect = "done" /\ session[s].device \in Devices /\ session[s] \in Session
      BY <1>0, <1>1, <2>2, AbandonedLeaves DEF Leaves
    <3>2. CASE Drop(s)
      <4>1. session'[s].disconnect = "mark"
        BY <1>0, <3>1, <3>2, NoDeviceAssumption DEF Drop, Identified, Session
      <4>q. QED BY <2>2, <4>1 DEF NoSession
    <3>3. CASE MarkOffline(s)
      <4>1. session'[s].disconnect = "requeue"
        BY <1>0, <3>1, <3>3 DEF MarkOffline, Session
      <4>q. QED BY <2>2, <4>1 DEF NoSession
    <3>q. QED BY <3>1, <3>2, <3>3 DEF Identify, MarkOnline
  <2>q. QED BY <2>1, <2>2
<1>q. QED BY <1>1, SteadyStep

(* A device that has left executes nothing and has told everything.        *)
LEMMA LeavingHasNothing ==
    ASSUME CalmInv, NEW d \in Devices, Leaving(d), NEW t \in Tasks, InSlot(t), row[t].device = d
    PROVE  NothingUnderWay(t)
<1>0. CalmTask(t) /\ Wired /\ ~Heard(d) /\ d # NoDevice
  BY NoDeviceAssumption DEF CalmInv, Leaving, Heard
<1>1. down[d] = <<>> /\ up[d] = <<>>
  BY <1>0 DEF Wired
<1>2. ASSUME NEW p \in Passes, Assigning(p, t) PROVE FALSE
  <2>1. d \in PassDevices(p)
    BY <1>0, <1>2 DEF CalmTask, OnItsDevice, PassDevices
  <2>q. QED BY <2>1 DEF Leaving, Unseen
<1>3. ASSUME NEW e \in Devices, AssignsIn(down[e], t) \/ SpeaksOf(up[e], t) PROVE FALSE
  <2>1. e = d
    BY <1>0, <1>3 DEF CalmTask, OnItsDevice
  <2>2. Len(down[e]) = 0 /\ Len(up[e]) = 0
    BY <1>1, <2>1
  <2>q. QED BY <1>3, <2>2 DEF AssignsIn, SpeaksOf
<1>4. ASSUME NEW c \in Runs, Ran(c, t) PROVE FALSE
  BY <1>0, <1>4 DEF CalmTask, OnItsDevice, Wired, Ran
<1>5. Unapplied(t) = <<>>
  BY <1>0 DEF CalmTask, Voiced, OnHeard
<1>q. QED BY <1>2, <1>3, <1>4, <1>5 DEF NothingUnderWay, Executor, ToBeAssigned, ToBeStarted, Started, Telling

(* The server puts the tasks of a device that has left back into the queue.*)
LEMMA RequeueKeeps ==
    ASSUME CalmInv, OrderlyInv', [LocalNext]_localVars, NEW s \in Sessions, Requeue(s),
           UNCHANGED <<req, agentVars, wires>>
    PROVE  (\A t \in Tasks : CalmTask(t)') /\ NoPause'
<1>0. /\ OrderlyInv /\ row \in [Tasks -> Row] /\ session \in [Sessions -> Session]
      /\ \A t \in Tasks : CalmTask(t)
      /\ UNCHANGED <<link, down, up, run, chain, pass, created, req>>
  BY CalmFacts DEF CalmInv, Requeue, wires, agentVars, dispatchVars
<1>1. PICK d \in Devices : session[s].device = d
  BY <1>0 DEF OrderlyInv, OfDevices, Requeue, NoSession
<1>2. Leaving(d)
  <2>1. ~Attached(d) /\ ~Away(d)
    BY <1>1 DEF Attached, OnlySession, Away, Requeue
  <2>q. QED BY <1>0, <2>1 DEF OrderlyInv
<1>3. \A t \in Tasks : row'[t] = IF InSlot(t) /\ row[t].device = d THEN Requeued(row[t]) ELSE row[t]
  BY <1>0, <1>1 DEF Requeue, Occupied, InSlot
<1>4. ASSUME NEW t \in Tasks PROVE SameButRow(t) /\ StillPending(t) /\ NoNewAbort(t)
  BY <1>0, Standing DEF SameButRow
<1>5. ASSUME NEW t \in Tasks, InSlot(t), row[t].device = d
      PROVE  CalmTask(t)' /\ row'[t].status = "QUEUED"
  <2>1. NothingUnderWay(t)
    BY <1>2, <1>5, LeavingHasNothing
  <2>2. row'[t].status = "QUEUED" /\ ~InSlot(t)'
    BY <1>0, <1>3, <1>5 DEF Requeued, Row, InSlot, Occupying
  <2>3. NothingUnderWay(t)'
    BY <1>4, <2>1 DEF SameButRow, NothingUnderWay, SamePasses, SameOrders, SameRuns, SameTells, SameChain,
       Executor, ToBeAssigned, ToBeStarted, Started, Telling
  <2>4. AbortIsCancel(t)'
    <3>1. AbortPending(t)' => AbortPending(t)
      BY <1>4, Zenon DEF NoNewAbort, AbortPending
    <3>2. AbortPending(t) => t <= created /\ CancelPending(t)
      BY <1>0, <1>5 DEF CalmTask, AbortIsCancel, InSlot, Occupying
    <3>q. QED BY <1>0, <1>4, <3>1, <3>2 DEF AbortIsCancel, StillPending
  <2>q. QED BY <2>2, <2>3, <2>4, RestKeeps
<1>6. ASSUME NEW t \in Tasks, ~(InSlot(t) /\ row[t].device = d)
      PROVE  CalmTask(t)' /\ row'[t] = row[t]
  <2>1. row'[t] = row[t] /\ SameRow(t)
    BY <1>0, <1>3, <1>6 DEF SameRow
  <2>2. SteadyFor(t)
    <3>1. ASSUME InSlot(t), Left(t) PROVE Left(t)'
      <4>1. PICK q \in Sessions : Abandoned(q) /\ session[q].device = row[t].device
        BY <3>1 DEF Left
      <4>2. session'[q] = session[q]
        BY <1>0, <1>1, <1>6, <3>1, <4>1 DEF Requeue
      <4>q. QED BY <1>0, <2>1, <4>1, <4>2 DEF Left, Abandoned
    <3>2. OnHeard(t) => OnHeard(t)'
      BY <1>0, <2>1, HeardStays DEF OnHeard
    <3>q. QED BY <3>1, <3>2 DEF SteadyFor
  <2>3. AbortIsCancel(t)'
    BY <1>0, <1>4, <2>1, AbortsExplained
  <2>q. QED BY <1>0, <1>4, <2>1, <2>2, <2>3, UntouchedKeeps DEF SameButRow
<1>7. NoPause'
  <2>1. \A t \in Tasks : row'[t].status = row[t].status \/ (InSlot(t) /\ row'[t].status = "QUEUED")
    BY <1>5, <1>6
  <2>2. \A t \in Tasks : row'[t].status # "PAUSED"
    BY <2>1 DEF CalmInv, NoPause
  <2>3. ASSUME NEW r \in Requests, req[r].at = "update", req[r].op = "retry"
        PROVE  row'[req[r].task].status \in {"FAILED", "NONE"}
    <3>1. req[r].task \in Tasks
      BY <2>3, CalmFacts DEF TableSound
    <3>2. row[req[r].task].status \in {"FAILED", "NONE"}
      BY <2>3 DEF CalmInv, NoPause
    <3>q. QED BY <2>1, <3>1, <3>2 DEF InSlot, Occupying
  <2>q. QED BY <1>0, <2>2, <2>3 DEF CalmInv, NoPause
<1>q. QED BY <1>5, <1>6, <1>7

-----------------------------------------------------------------------------
(* The agent is stopped: what it worked on and what was under way is gone, *)
(* and the server will notice.                                             *)
LEMMA CrashFacts ==
    ASSUME Tidy, CalmInv, NEW d \in Devices, Crash(d)
    PROVE  /\ UNCHANGED <<row, created, req, chain, pass, session>>
           /\ \A p \in Passes : pass[p].pc = "free"
           /\ \A t \in Tasks : chain[t] = <<>> /\ ~AwaitsPass(t)
           /\ link'[d] = NoLink /\ down'[d] = <<>> /\ up'[d] = <<>>
           /\ \A e \in Devices : e # d => link'[e] = link[e] /\ down'[e] = down[e] /\ up'[e] = up[e]
           /\ \A c \in Runs : run'[c] = IF run[c].st # "free" /\ run[c].host = d THEN Over ELSE run[c]
<1>0. WiresTypeOK /\ Orderly /\ DispatcherOK
  BY CalmFacts DEF Crash, Tidy
<1>1. /\ UNCHANGED <<row, created, req, chain, pass, session>>
      /\ \A p \in Passes : pass[p].pc = "free"
      /\ \A t \in Tasks : chain[t] = <<>>
  BY <1>0 DEF Crash, Fault, Undisturbed, vars, gatewayVars, dispatchVars, tableVars
<1>2. \A t \in Tasks : ~AwaitsPass(t)
  BY <1>0, <1>1 DEF DispatcherOK, ReportsAwait, AwaitsPass, Tasks, NoTask
<1>3. /\ link'[d] = NoLink /\ down'[d] = <<>> /\ up'[d] = <<>>
      /\ \A e \in Devices : e # d => link'[e] = link[e] /\ down'[e] = down[e] /\ up'[e] = up[e]
  BY <1>0 DEF Crash, Fault, Cut, WiresTypeOK
<1>4. \A c \in Runs : run'[c] = IF run[c].st # "free" /\ run[c].host = d THEN Over ELSE run[c]
  BY DEF Crash, Restarted
<1>q. QED BY <1>1, <1>2, <1>3, <1>4

(* Nothing new comes about, and what stays is under way elsewhere.         *)
Elsewhere(d, t) ==
    \A e \in Devices :
        /\ AssignsIn(down'[e], t) => e # d /\ AssignsIn(down[e], t)
        /\ AbortsIn(down'[e], t) => e # d /\ AbortsIn(down[e], t)
        /\ AssignsOnce(down[e], t) => AssignsOnce(down'[e], t)
        /\ SpeaksOf(up'[e], t) => e # d /\ SpeaksOf(up[e], t)
        /\ EndsIn(up'[e], t) => e # d /\ EndsIn(up[e], t)
        /\ EndsLast(up[e], t) => EndsLast(up'[e], t)

(* So it is when an agent is stopped.                                      *)
LEMMA CrashTakesAway ==
    ASSUME Tidy, CalmInv, NEW d \in Devices, Crash(d), NEW t \in Tasks
    PROVE  /\ \A p \in Passes : ~Assigning(p, t) /\ ~Assigning(p, t)'
           /\ Elsewhere(d, t)
           /\ \A c \in Runs : Ran(c, t)' => Ran(c, t) /\ run'[c] = run[c] /\ run[c].host # d
           /\ Unapplied(t) = <<>> /\ Unapplied(t)' = <<>>
<1>0. /\ UNCHANGED <<pass, chain>> /\ \A p \in Passes : pass[p].pc = "free"
      /\ chain[t] = <<>> /\ ~AwaitsPass(t)
      /\ down'[d] = <<>> /\ up'[d] = <<>>
      /\ \A e \in Devices : e # d => down'[e] = down[e] /\ up'[e] = up[e]
      /\ \A c \in Runs : run'[c] = IF run[c].st # "free" /\ run[c].host = d THEN Over ELSE run[c]
  BY CrashFacts
<1>1. \A p \in Passes : ~Assigning(p, t) /\ ~Assigning(p, t)'
  BY <1>0 DEF Assigning
<1>2. Elsewhere(d, t)
  <2>1. Len(down'[d]) = 0 /\ Len(up'[d]) = 0
    BY <1>0
  <2>2. /\ ~AssignsIn(down'[d], t) /\ ~AbortsIn(down'[d], t) /\ AssignsOnce(down'[d], t)
        /\ ~SpeaksOf(up'[d], t) /\ ~EndsIn(up'[d], t) /\ EndsLast(up'[d], t)
    BY <2>1 DEF AssignsIn, AbortsIn, AssignsOnce, SpeaksOf, EndsIn, EndsLast
  <2>q. QED BY <1>0, <2>2 DEF Elsewhere
<1>3. ASSUME NEW c \in Runs, Ran(c, t)' PROVE Ran(c, t) /\ run'[c] = run[c] /\ run[c].host # d
  BY <1>0, <1>3, OverTyped DEF Ran
<1>4. Unapplied(t) = <<>> /\ Unapplied(t)' = <<>>
  BY <1>0 DEF Unapplied, AwaitsPass
<1>q. QED BY <1>1, <1>2, <1>3, <1>4

(* Each task is kept by what kept it, or has been left.                    *)
LEMMA CrashKeeps ==
    ASSUME Tidy, CalmInv, NEW d \in Devices, Crash(d)
    PROVE  (\A t \in Tasks : CalmTask(t)') /\ NoPause'
<1>0. /\ UNCHANGED <<row, created, req, chain, pass, session>>
      /\ link'[d] = NoLink /\ down'[d] = <<>> /\ up'[d] = <<>>
      /\ \A e \in Devices : e # d => link'[e] = link[e] /\ down'[e] = down[e] /\ up'[e] = up[e]
      /\ \A c \in Runs : run'[c] = IF run[c].st # "free" /\ run[c].host = d THEN Over ELSE run[c]
      /\ Wired /\ WiresTypeOK /\ WiresTypeOK'
  <2>1. WiresTypeOK /\ OrderlyInv /\ [Next]_vars
    BY CalmFacts DEF CalmInv, Crash, Fault
  <2>2. WiresTypeOK'
    BY <2>1 DEF WiresTypeOK, Crash, Fault, Cut
  <2>q. QED BY <2>1, <2>2, CrashFacts DEF CalmInv
<1>1. ASSUME NEW t \in Tasks PROVE CalmTask(t)'
  <2>0. CalmTask(t)
    BY CalmFacts
  <2>1. /\ \A p \in Passes : ~Assigning(p, t) /\ ~Assigning(p, t)'
        /\ Elsewhere(d, t)
        /\ \A c \in Runs : Ran(c, t)' => Ran(c, t) /\ run'[c] = run[c] /\ run[c].host # d
        /\ Unapplied(t) = <<>> /\ Unapplied(t)' = <<>>
    BY CrashTakesAway
  <2>2. /\ InSlot(t)' <=> InSlot(t)
        /\ AtRest(t)' <=> AtRest(t)
        /\ CancelPending(t)' <=> CancelPending(t)
        /\ row'[t] = row[t] /\ created' = created
    BY <1>0 DEF InSlot, AtRest, CancelPending
  <2>3. /\ ToBeStarted(t)' => ToBeStarted(t)
        /\ Started(t)' => Started(t)
        /\ Telling(t)' => Telling(t)
        /\ ~ToBeAssigned(t)' /\ ~ToBeAssigned(t)
    BY <2>1, Zenon DEF Elsewhere, ToBeStarted, Started, Telling, ToBeAssigned
  <2>4. /\ ~FinalIn(Unapplied(t)) /\ ~FinalIn(Unapplied(t))'
        /\ FinalLast(Unapplied(t))'
    BY <2>1 DEF FinalIn, FinalLast
  <2>5. OneExecutor(t)'
    BY <2>0, <2>1, <2>3, Zenon DEF Elsewhere, CalmTask, OneExecutor
  <2>6. RestsInPeace(t)'
    BY <2>0, <2>1, <2>2, <2>3 DEF CalmTask, RestsInPeace, NothingUnderWay, Executor
  <2>7. OnItsDevice(t)'
    <3>1. \A d2 \in Devices : /\ AssignsIn(down'[d2], t) => AssignsIn(down[d2], t)
                              /\ SpeaksOf(up'[d2], t) => SpeaksOf(up[d2], t)
      BY <2>1 DEF Elsewhere
    <3>q. QED BY <2>0, <2>1, <2>2, <3>1 DEF CalmTask, OnItsDevice
  <2>8. EndIsLast(t)'
    <3>1. EndPending(t)' => EndPending(t)
      BY <2>1, <2>4, Zenon DEF Elsewhere, EndPending
    <3>2. \A e \in Devices : EndsLast(up[e], t) => EndsLast(up'[e], t)
      BY <2>1 DEF Elsewhere
    <3>3. Executor(t)' => Executor(t)
      BY <2>3 DEF Executor
    <3>q. QED BY <2>0, <2>2, <2>4, <3>1, <3>2, <3>3 DEF CalmTask, EndIsLast
  <2>9. AbortIsCancel(t)'
    <3>1. AbortPending(t)' => AbortPending(t)
      BY <2>1, Zenon DEF Elsewhere, AbortPending
    <3>q. QED BY <2>0, <2>2, <3>1 DEF CalmTask, AbortIsCancel
  <2>10. Kept(t)'
    <3>1. CASE Left(t)
      <4>1. PICK s \in Sessions : Abandoned(s) /\ session[s].device = row[t].device
        BY <3>1 DEF Left
      <4>2. Abandoned(s)'
        <5>1. session[s].device \in Devices
          BY <4>1 DEF CalmInv, OrderlyInv, OfDevices, Abandoned
        <5>q. QED BY <1>0, <4>1, <5>1, NoLinkAssumption DEF Abandoned
      <4>q. QED BY <1>0, <4>1, <4>2 DEF Kept, Left
    <3>2. CASE Heard(d) /\ row[t].device = d
      <4>1. PICK s \in Sessions : link[d] = s /\ session[s].device = d
        BY <3>2 DEF Heard, CalmInv, OrderlyInv, Attached, OnlySession, Leaving, Away
      <4>2. Abandoned(s)'
        BY <1>0, <4>1, NoLinkAssumption, NoDeviceAssumption DEF Abandoned, NoSession
      <4>q. QED BY <1>0, <3>2, <4>1, <4>2 DEF Kept, Left
    <3>3. CASE CancelPending(t)
      BY <2>2, <3>3 DEF Kept
    <3>4. ASSUME NEW e \in Devices, InSlot(t), AssignsIn(down[e], t) \/ EndsIn(up[e], t)
          PROVE  Kept(t)'
      <4>1. SpeaksOf(up[e], t) \/ AssignsIn(down[e], t)
        BY <3>4 DEF SpeaksOf, EndsIn, EndOf
      <4>2. e = row[t].device
        BY <2>0, <3>4, <4>1 DEF CalmTask, OnItsDevice
      <4>3. CASE e = d
        <5>1. Len(down[e]) # 0 \/ Len(up[e]) # 0
          BY <3>4 DEF AssignsIn, EndsIn
        <5>2. down[d] # <<>> \/ up[d] # <<>>
          BY <4>3, <5>1
        <5>q. QED BY <1>0, <3>2, <4>2, <4>3, <5>2 DEF Wired
      <4>4. CASE e # d
        <5>1. down'[e] = down[e] /\ up'[e] = up[e]
          BY <1>0, <4>4
        <5>2. AssignsIn(down'[e], t) \/ EndsIn(up'[e], t)
          BY <3>4, <5>1
        <5>q. QED BY <5>2, Zenon DEF Kept, Executor, ToBeStarted, EndPending
      <4>q. QED BY <4>3, <4>4
    <3>5. ASSUME NEW c \in Runs, InSlot(t), Ran(c, t) PROVE Kept(t)'
      <4>1. run[c].host = row[t].device
        BY <2>0, <3>5 DEF CalmTask, OnItsDevice
      <4>2. CASE run[c].host = d
        BY <1>0, <3>2, <3>5, <4>1, <4>2 DEF Wired, Ran
      <4>3. CASE run[c].host # d
        BY <1>0, <3>5, <4>3 DEF Kept, Executor, Started, Ran
      <4>q. QED BY <4>2, <4>3
    <3>6. InSlot(t) => Executor(t) \/ EndPending(t) \/ CancelPending(t) \/ Left(t)
      BY <2>0 DEF CalmTask, Kept
    <3>7. CASE ~InSlot(t)
      BY <2>2, <3>7 DEF Kept
    <3>q. QED
      BY <2>3, <2>4, <3>1, <3>3, <3>4, <3>5, <3>6, <3>7 DEF Executor, ToBeStarted, Started, EndPending
  <2>11. Voiced(t)'
    BY <2>1 DEF Voiced
  <2>q. QED BY <2>5, <2>6, <2>7, <2>8, <2>9, <2>10, <2>11 DEF CalmTask
<1>2. NoPause'
  <2>1. /\ down' \in [Devices -> Seq(CalmOrders)]
        /\ up' \in [Devices -> Seq(CalmTells)]
    <3>1. /\ \A e \in Devices : down'[e] = <<>> \/ down'[e] = down[e]
          /\ \A e \in Devices : up'[e] = <<>> \/ up'[e] = up[e]
          /\ <<>> \in Seq(CalmOrders) /\ <<>> \in Seq(CalmTells)
      BY <1>0
    <3>2. down' \in [Devices -> Seq(Orders)] /\ up' \in [Devices -> Seq(Tells)]
      BY <1>0 DEF WiresTypeOK
    <3>q. QED BY <3>1, <3>2 DEF CalmInv, NoPause
  <2>2. \A c \in Runs : run'[c].st # "free" => run'[c].abort # "pause"
    BY <1>0, OverTyped DEF CalmInv, NoPause
  <2>q. QED BY <1>0, <2>1, <2>2 DEF CalmInv, NoPause
<1>q. QED BY <1>1, <1>2

-----------------------------------------------------------------------------
(* Every step of the server keeps the invariant.                           *)
LEMMA CalmServerStep ==
    ASSUME Calm, CalmInv, OrderlyInv', ServerStep
    PROVE  CalmInv'
<1>0. /\ AssignsTask' /\ AssignsToDevice /\ Wired /\ WiresTypeOK
      /\ OrderlyInv /\ Tidy /\ [LocalNext]_localVars
  BY CalmFacts DEF OrderlyInv, LocalInv, CalmInv, Calm, LocalNext
<1>a. ASSUME UNCHANGED <<session, link>> PROVE Steady
  BY <1>0, <1>a, SteadyServer
<1> DEFINE Here == (\A t \in Tasks : CalmTask(t)') /\ NoPause'
<1>1. ASSUME NEW r \in Requests, NEW op \in Ops, NEW t \in Tasks, LoadAndAbort(r, op, t)
      PROVE  Here /\ Wired' /\ AssignsToDevice'
  <2>1. UNCHANGED <<device, session, link, run, up, pass>>
    BY <1>1 DEF LoadAndAbort, LoadTask, gatewayVars, agentVars
  <2>2. \A e \in Devices : down'[e] # <<>> => Heard(e)
    BY <1>0, <1>1, SendHeard DEF LoadAndAbort
  <2>3. AssignsToDevice'
    BY <1>0, <2>1 DEF AssignsToDevice
  <2>q. QED BY <1>0, <1>1, <1>a, <2>1, <2>2, <2>3, LoadKeeps, WiredServer
<1>2. ASSUME UNCHANGED <<session, link, chain, run, down, up>>, Dispatch(NoTask) \/ UNCHANGED pass
      PROVE  Steady /\ Wired' /\ AssignsToDevice'
  <2>1. \A t \in Tasks : SamePasses(t)
    BY <1>2, AskedForPass DEF SameButRow
  <2>2. \A e \in Devices : down'[e] # <<>> => Heard(e)
    BY <1>0, <1>2 DEF Wired
  <2>q. QED BY <1>0, <1>2, <1>a, <2>1, <2>2, WiredServer, StillToDevice
<1>3. ASSUME OtherRequest PROVE Here /\ Wired' /\ AssignsToDevice'
  <2>1. /\ UNCHANGED <<session, link, chain, run, down, up>>
        /\ Dispatch(NoTask) \/ UNCHANGED pass
    BY <1>3 DEF OtherRequest, CreateTask, UpdateTask, RouteTask, dispatchVars, gatewayVars, agentVars, wires
  <2>2. Steady
    BY <1>2, <2>1
  <2>3. Here
    BY <1>3, <2>2, CreateKeeps, UpdateKeeps, RouteKeeps DEF OtherRequest
  <2>q. QED BY <1>2, <2>1, <2>3
<1>4. ASSUME NEW t \in Tasks, Delete(t) PROVE Here /\ Wired' /\ AssignsToDevice'
  <2>1. /\ UNCHANGED <<session, link, chain, run, down, up>>
        /\ Dispatch(NoTask) \/ UNCHANGED pass
    BY <1>4 DEF Delete, RemoveTask, dispatchVars, gatewayVars, agentVars, wires
  <2>q. QED BY <1>2, <1>4, <2>1, DeleteKeeps
<1>5. ASSUME NEW t \in Tasks, Apply(t) PROVE Here /\ Wired' /\ AssignsToDevice'
  <2>1. UNCHANGED <<session, link, run, down, up>>
    BY <1>5 DEF Apply, ApplyReport, agentVars, wires
  <2>2. \A e \in Devices : down'[e] # <<>> => Heard(e)
    BY <1>0, <2>1 DEF Wired
  <2>3. (\A u \in Tasks : CalmTask(u)' /\ SamePasses(u)) /\ NoPause'
    BY <1>5, <1>a, <2>1, ApplyKeeps
  <2>q. QED BY <1>0, <2>1, <2>2, <2>3, WiredServer, StillToDevice
<1>6. ASSUME SaveSettings PROVE Here /\ Wired' /\ AssignsToDevice'
  <2>1. /\ UNCHANGED <<session, link, chain, run, down, up>>
        /\ Dispatch(NoTask) \/ UNCHANGED pass
    BY <1>6 DEF SaveSettings, Reconfigure, Configure, dispatchVars, gatewayVars, agentVars, wires
  <2>q. QED BY <1>2, <1>6, <2>1, SaveKeeps
<1>7. ASSUME NEW p \in Passes, Assign(p) PROVE Here /\ Wired' /\ AssignsToDevice'
  <2>1. UNCHANGED <<session, link, run, up>>
    BY <1>7 DEF Assign, SendAssign, agentVars
  <2>2. \A e \in Devices : down'[e] # <<>> => Heard(e)
    BY <1>0, <1>7, SendHeard DEF Assign
  <2>q. QED BY <1>0, <1>7, <1>a, <2>1, <2>2, AssignKeeps, WiredServer
<1>8. ASSUME NEW p \in Passes, OtherPassStep(p) PROVE Here /\ Wired' /\ AssignsToDevice'
  <2>1. UNCHANGED <<session, link, run, down, up>>
    BY <1>8 DEF OtherPassStep, ReadConnection, ReadDevices, ClaimOldest, Claim, CountSlots, agentVars, wires
  <2>2. \A e \in Devices : down'[e] # <<>> => Heard(e)
    BY <1>0, <2>1 DEF Wired
  <2>q. QED BY <1>0, <1>8, <1>a, <2>1, <2>2, PassStepKeeps, WiredServer
<1>9. ASSUME NEW s \in Sessions, SessionHandler(s) \/ Notice(s) PROVE Here /\ Wired' /\ AssignsToDevice'
  <2>1. UNCHANGED <<req, agentVars, wires, link, run, chain, down, up>>
    BY <1>9 DEF SessionHandler, Notice, Identify, MarkOnline, MarkOffline, Requeue, Drop, agentVars, wires
  <2>2. Dispatch(NoTask) \/ UNCHANGED pass
    BY <1>9 DEF SessionHandler, Notice, Identify, MarkOnline, MarkOffline, Requeue, Drop, dispatchVars
  <2>3. Wired'
    BY <1>0, <2>1, WiredSockets
  <2>4. AssignsToDevice'
    <3>1. \A t \in Tasks : SamePasses(t)
      BY <2>1, <2>2, AskedForPass DEF SameButRow
    <3>q. QED BY <1>0, <3>1, StillToDevice
  <2>5. CASE Requeue(s)
    BY <1>0, <2>1, <2>3, <2>4, <2>5, RequeueKeeps
  <2>6. CASE Identify(s) \/ MarkOnline(s) \/ MarkOffline(s) \/ Drop(s)
    <3>1. Steady
      BY <1>0, <2>1, <2>6, SteadySession
    <3>q. QED BY <2>1, <2>3, <2>4, <2>6, <3>1, ConnectKeeps
  <2>q. QED BY <1>9, <2>5, <2>6 DEF SessionHandler, Notice
<1> HIDE DEF Here
<1>11. ~Removing
  BY <1>0, NothingRemoved
<1>10. Here /\ Wired' /\ AssignsToDevice'
  BY <1>1, <1>3, <1>4, <1>5, <1>6, <1>7, <1>8, <1>9, <1>11 DEF ServerStep, Removing
<1>q. QED BY <1>10 DEF CalmInv, Here

(* Every step of the sockets and agents does.                              *)
LEMMA CalmAgentStep ==
    ASSUME Calm, CalmInv, OrderlyInv', AgentStep
    PROVE  CalmInv'
<1>0. /\ AssignsToDevice /\ NoPause /\ Wired /\ WiresTypeOK /\ AgentTypeOK
      /\ OrderlyInv /\ Tidy /\ [LocalNext]_localVars
  BY CalmFacts DEF CalmInv, Calm, LocalNext
<1>a. ASSUME UNCHANGED <<session, link>> PROVE Steady
  BY <1>0, <1>a, SteadyServer
<1> DEFINE Here == (\A t \in Tasks : CalmTask(t)') /\ NoPause'
<1>1. ASSUME UNCHANGED pass PROVE AssignsToDevice'
  BY <1>0, <1>1 DEF AssignsToDevice
<1>2. ASSUME NEW d \in Devices, ~Settling, Open(d) PROVE Here /\ Wired' /\ AssignsToDevice'
  <2>1. UNCHANGED <<req, agentVars, run, pass, down, up>>
    BY <1>2 DEF Open, Connect, dispatchVars, agentVars
  <2>2. PICK s \in Sessions : Connect(s, d) /\ link[d] = NoLink /\ link' = [link EXCEPT ![d] = s]
    BY <1>2 DEF Open
  <2>3. Steady
    <3>1. \A q \in Sessions : ~Abandoned(q)
      BY <1>0, <1>2, AbandonedLeaves, LeavingSettles
    <3>q. QED BY <1>0, <1>2, <3>1, SteadyStep
  <2>4. Here
    BY <2>1, <2>2, <2>3, ConnectKeeps
  <2>5. \A e \in Devices : link[e] # NoLink => link'[e] = link[e]
    BY <1>0, <2>2 DEF WiresTypeOK
  <2>6. Wired'
    BY <1>0, <2>1, <2>5, WiredSockets
  <2>q. QED BY <1>1, <2>1, <2>4, <2>6
<1>3. ASSUME NEW d \in Devices, Upload(d) PROVE Here /\ Wired' /\ AssignsToDevice'
  <2>1. UNCHANGED <<pass, session, link>>
    BY <1>3 DEF Upload, Receive, vars, gatewayVars, dispatchVars
  <2>q. QED BY <1>0, <1>1, <1>3, <1>a, <2>1, UploadKeeps, WiredAgents
<1>4. ASSUME up' \in [Devices -> Seq(CalmTells)], down' \in [Devices -> Seq(CalmOrders)],
             UNCHANGED <<row, chain, req>>,
             \A c \in Runs : run'[c].st # "free" => run'[c].abort # "pause"
      PROVE  NoPause'
  BY <1>0, <1>4 DEF NoPause
<1>5. ASSUME NEW d \in Devices, Deliver(d) PROVE Here /\ Wired' /\ AssignsToDevice'
  <2>1. UNCHANGED <<row, chain, req, pass, session, link>>
    BY <1>5 DEF Deliver, vars, tableVars, gatewayVars
  <2>2. PICK m : m = Head(down[d])
    OBVIOUS
  <2>3. /\ m \in CalmOrders /\ m.order \in {"assign", "cancel"} /\ m.task \in Tasks
        /\ down' \in [Devices -> Seq(CalmOrders)]
    <3>1. down[d] \in Seq(CalmOrders) /\ down[d] # <<>>
      BY <1>0, <1>5 DEF Deliver, NoPause
    <3>2. Tail(down[d]) \in Seq(CalmOrders) /\ m \in CalmOrders
      BY <2>2, <3>1
    <3>3. m.order \in {"assign", "cancel"} /\ m.task \in Tasks
      BY <3>2 DEF CalmOrders, Orders
    <3>q. QED BY <1>0, <1>5, <3>2, <3>3 DEF Deliver, NoPause
  <2>4. /\ up' \in [Devices -> Seq(CalmTells)]
        /\ \A c \in Runs : run'[c].st # "free" => run'[c].abort # "pause"
    <3>1. CASE m.order = "assign"
      <4>1. Starting \in Seq(CalmReports) /\ Unstartable \in Seq(CalmReports)
        BY DEF Starting, Unstartable, CalmReports, Reports
      <4>2. up' \in [Devices -> Seq(CalmTells)]
        BY <1>0, <1>5, <2>2, <2>3, <3>1, <4>1, SpeakCalmly DEF Deliver, Start
      <4>3. \A c \in Runs : run'[c] = run[c] \/ run'[c].abort = "no"
        <5>1. Start(d, m.task)
          BY <1>5, <2>2, <3>1 DEF Deliver
        <5>2. UNCHANGED run \/ \E b : run' = [run EXCEPT ![b] = Spawned(d, m.task)]
          BY <5>1 DEF Start, Assigned, agentVars
        <5>3. Spawned(d, m.task).abort = "no"
          BY DEF Spawned
        <5>q. QED BY <5>2, <5>3, AgentFacts
      <4>q. QED BY <1>0, <4>2, <4>3 DEF NoPause
    <3>2. CASE m.order = "cancel"
      <4>1. Aborted(d, m.task, "cancel") /\ UNCHANGED up
        BY <1>5, <2>2, <3>2 DEF Deliver
      <4>2. \A c \in Runs : \/ run'[c] = run[c] \/ run'[c].st = "free" \/ run'[c].abort # "pause"
        BY <1>0, <4>1, AgentFacts DEF Aborted, agentVars, Run
      <4>q. QED BY <1>0, <4>1, <4>2 DEF NoPause
    <3>q. QED BY <2>3, <3>1, <3>2
  <2>5. \A t \in Tasks : CalmTask(t)'
    BY <1>5, <1>a, <2>1, StartKeeps, AbortKeeps
  <2>q. QED BY <1>0, <1>1, <1>4, <1>5, <2>1, <2>3, <2>4, <2>5, WiredAgents
<1>6. ASSUME NEW c \in Runs, Fire(c) \/ \E outcome \in Ends : Close(c, outcome)
      PROVE  Here /\ Wired' /\ AssignsToDevice'
  <2>1. UNCHANGED <<row, chain, req, pass, down, session, link>>
    BY <1>6 DEF Fire, Close, vars, tableVars, gatewayVars
  <2>2. (\A t \in Tasks : CalmTask(t)') /\ up' \in [Devices -> Seq(CalmTells)]
    BY <1>6, <1>a, <2>1, CloseKeeps, FireKeeps
  <2>3. \A b \in Runs : run'[b] = run[b] \/ run'[b].st = "free" \/ run'[b].abort # "pause"
    <3>1. run[c].st # "free"
      BY <1>6 DEF Fire, Close, Fired, Closed, Timed, Running
    <3>2. run[c] \in Run /\ run[c].abort # "pause"
      BY <3>1, AgentFacts
    <3>3. ASSUME Fire(c) PROVE \A b \in Runs : run'[b] = run[b] \/ run'[b].abort # "pause"
      <4>1. run' = [run EXCEPT ![c] = Spawned(run[c].host, run[c].task)]
        BY <3>3 DEF Fire, Fired
      <4>2. Spawned(run[c].host, run[c].task).abort = "no"
        BY DEF Spawned
      <4>q. QED BY <4>1, <4>2, AgentFacts
    <3>4. ASSUME NEW outcome \in Ends, Close(c, outcome)
          PROVE  \A b \in Runs : run'[b] = run[b] \/ run'[b].st = "free" \/ run'[b].abort # "pause"
      <4>1. run' = [run EXCEPT ![c] = Ended(c, outcome)]
        BY <3>4 DEF Close, Closed
      <4>2. Ended(c, outcome).st = "free" \/ Ended(c, outcome).abort # "pause"
        BY <3>2, AgentFacts DEF Ended, Run
      <4>q. QED BY <4>1, <4>2, AgentFacts
    <3>q. QED BY <1>6, <3>3, <3>4
  <2>4. run[c].host \in Devices
    <3>1. run[c].st # "free"
      BY <1>6 DEF Fire, Close, Fired, Closed, Timed, Running
    <3>q. QED BY <3>1, AgentFacts
  <2>5. Wired'
    BY <1>0, <1>6, <2>4, WiredAgents
  <2>6. NoPause'
    BY <1>0, <1>4, <2>1, <2>2, <2>3 DEF NoPause
  <2>q. QED BY <1>1, <2>1, <2>2, <2>5, <2>6
<1>7. ASSUME NEW d \in Devices, Crash(d) PROVE Here /\ Wired' /\ AssignsToDevice'
  <2>1. /\ UNCHANGED pass /\ down'[d] = <<>> /\ up'[d] = <<>>
        /\ \A e \in Devices : e # d => link'[e] = link[e] /\ down'[e] = down[e] /\ up'[e] = up[e]
        /\ \A c \in Runs : run'[c] = IF run[c].st # "free" /\ run[c].host = d THEN Over ELSE run[c]
    BY <1>0, <1>7, CrashFacts
  <2>2. \A e \in Devices : down'[e] # <<>> \/ up'[e] # <<>> => Heard(e) /\ link'[e] = link[e]
    BY <1>0, <2>1 DEF Wired
  <2>3. \A c \in Runs : run'[c].st # "free" =>
            Heard(run'[c].host) /\ link'[run'[c].host] = link[run'[c].host]
    BY <1>0, <2>1, AgentFacts DEF Wired
  <2>4. Wired'
    BY <1>0, <2>2, <2>3, WiredStep
  <2>q. QED BY <1>0, <1>1, <1>7, <2>1, <2>4, CrashKeeps
<1>8. ASSUME NEW d \in Devices PROVE ~Lose(d)
  BY DEF Calm, Lose
<1> HIDE DEF Here
<1>9. Here /\ Wired' /\ AssignsToDevice'
  BY <1>2, <1>3, <1>5, <1>6, <1>7, <1>8 DEF AgentStep
<1>q. QED BY <1>9 DEF CalmInv, Here

-----------------------------------------------------------------------------
(* At the start every task is at rest.                                     *)
LEMMA CalmInvInit == LocalInit => CalmInv
<1> SUFFICES ASSUME LocalInit PROVE CalmInv
  OBVIOUS
<1>1. /\ \A t \in Tasks : row[t] = NoRow
      /\ created = 0
      /\ \A r \in Requests : req[r] = Idle
      /\ \A d \in Devices : device[d] = "OFFLINE"
      /\ \A s \in Sessions : session[s] = NoSession
      /\ chain = [t \in Tasks |-> <<>>]
      /\ \A p \in Passes : pass[p] = NoRun
      /\ \A c \in Runs : run[c] = Over
      /\ \A d \in Devices : link[d] = NoLink
      /\ down = [d \in Devices |-> <<>>] /\ up = [d \in Devices |-> <<>>]
  BY DEF LocalInit, Init, TableInit, TasksInit, GatewayInit, AgentInit
<1>2. /\ NoRow.status = "NONE" /\ Idle.at = "idle" /\ Over.st = "free"
      /\ NoRun.pc = "free" /\ NoRun.report = NoTask /\ NoRun.dev = NoDevice
      /\ NoRun.online = {} /\ NoRun.todo = {}
  BY DEF NoRow, Idle, Over, NoRun
<1>3. NoPause
  BY <1>1, <1>2 DEF NoPause
<1>4. Wired
  BY <1>1, <1>2 DEF Wired, PassDevices
<1>5. AssignsToDevice
  BY <1>1, <1>2 DEF AssignsToDevice
<1>6. ASSUME NEW t \in Tasks PROVE CalmTask(t)
  <2>1. ~InSlot(t) /\ ~AtRest(t)
    BY <1>1, <1>2 DEF InSlot, AtRest, Occupying
  <2>2. /\ \A d \in Devices : /\ Len(down[d]) = 0 /\ Len(up[d]) = 0
        /\ ~AwaitsPass(t) /\ chain[t] = <<>>
    BY <1>1, <1>2 DEF AwaitsPass, NoTask, Tasks
  <2>3. /\ \A d \in Devices : /\ ~AssignsIn(down[d], t) /\ ~AbortsIn(down[d], t)
                              /\ AssignsOnce(down[d], t) /\ ~SpeaksOf(up[d], t)
    BY <2>2 DEF AssignsIn, AbortsIn, AssignsOnce, SpeaksOf
  <2>4. /\ \A p \in Passes : ~Assigning(p, t)
        /\ \A c \in Runs : ~Ran(c, t)
        /\ Unapplied(t) = <<>>
    BY <1>1, <1>2, <2>2 DEF Assigning, Ran, Unapplied
  <2>5. NothingUnderWay(t) /\ OneExecutor(t) /\ ~AbortPending(t)
    BY <2>3, <2>4 DEF NothingUnderWay, OneExecutor, AbortPending, Executor, ToBeAssigned, ToBeStarted,
       Started, Telling
  <2>q. QED BY <2>1, <2>5 DEF CalmTask, RestsInPeace, OnItsDevice, EndIsLast, AbortIsCancel, Kept, Voiced
<1>q. QED BY <1>3, <1>4, <1>5, <1>6, OrderlyInit DEF CalmInv

(* A step that changes nothing keeps the invariant.                        *)
LEMMA CalmStutters ==
    ASSUME CalmInv, OrderlyInv', UNCHANGED localVars
    PROVE  CalmInv'
<1>1. UNCHANGED <<row, created, req, device, session, chain, dispatchChain, pass, run, active, retry,
                  link, down, up>>
  BY DEF localVars, vars, tableVars, gatewayVars, agentVars, wires
<1>2. NoPause' /\ AssignsToDevice'
  BY <1>1 DEF CalmInv, NoPause, AssignsToDevice
<1>3. (\A d \in Devices : Leaving(d)' <=> Leaving(d)) /\ (\A d : Heard(d)' <=> Heard(d))
  BY <1>1 DEF Leaving, Leaves, OnlySession, Unseen, PassDevices, Heard, Identified
<1>4. Wired'
  BY <1>1, <1>3 DEF CalmInv, Wired, PassDevices
<1>5. \A t \in Tasks : CalmTask(t)'
  <2>1. \A t \in Tasks : SameRow(t) /\ SameButRow(t) /\ StillPending(t) /\ NoNewAbort(t)
    BY <1>1, Standing DEF SameButRow
  <2>2. Steady
    BY <1>1, <1>3 DEF Steady, Abandoned
  <2>q. QED BY <2>1, <2>2, CalmFacts, UnmovedKeeps
<1>q. QED BY <1>2, <1>4, <1>5 DEF CalmInv

(* Every step preserves it while the user is calm and the world tidy.      *)
LEMMA CalmStep ==
    ASSUME Calm, CalmInv, [LocalNext]_localVars
    PROVE  CalmInv'
<1>1. OrderlyInv'
  BY OrderlyStep DEF CalmInv, Calm
<1>q. QED BY <1>1, CalmServerStep, CalmAgentStep, CalmStutters DEF LocalNext

(* As long as nobody pauses or removes a device, the user does one thing   *)
(* at a time and agents are stopped in an orderly world only, every task   *)
(* has one executor at most, is quiet while it rests, and is not left      *)
(* alone while it occupies a slot.                                         *)
THEOREM CalmInvariance == ASSUME Calm PROVE LocalSpec => []CalmInv
<1>1. CalmInv /\ [LocalNext]_localVars => CalmInv'
  BY CalmStep
<1>q. QED BY <1>1, CalmInvInit, PTL DEF LocalSpec

(* Who executes a task, or reports its end, attends to it.                 *)
LEMMA CalmAttends == CalmInv => NoLostTask
<1> SUFFICES ASSUME CalmInv, NEW t \in Tasks, row[t].status \in Occupying PROVE Attended(t)
  BY DEF NoLostTask
<1>0. /\ down \in [Devices -> Seq(Orders)] /\ up \in [Devices -> Seq(Tells)]
      /\ chain[t] \in Seq(Received) /\ DispatcherOK /\ CalmTask(t)
  BY CalmFacts DEF WiresTypeOK
<1>1. Executor(t) \/ EndPending(t) \/ CancelPending(t) \/ Left(t)
  BY <1>0 DEF CalmTask, Kept, InSlot
<1>2. CASE ToBeAssigned(t) \/ Started(t) \/ CancelPending(t) \/ Left(t)
  BY <1>2 DEF Attended, ToBeAssigned, Assigning, Started, CancelPending, Left
<1>3. CASE ToBeStarted(t)
  <2>1. PICK d \in Devices : \E i \in 1..Len(down[d]) : AssignOf(down[d][i], t)
    BY <1>3 DEF ToBeStarted, AssignsIn
  <2>a. PICK i \in 1..Len(down[d]) : AssignOf(down[d][i], t)
    BY <2>1
  <2>2. i \in DOMAIN down[d] /\ down[d][i] \in Orders
    BY <1>0
  <2>3. down[d][i] = [order |-> "assign", task |-> t]
    BY <2>a, <2>2 DEF AssignOf, Orders
  <2>q. QED BY <2>2, <2>3 DEF Attended, Range
<1>4. CASE \E d \in Devices : EndsIn(up[d], t)
  <2>1. PICK d \in Devices : \E i \in 1..Len(up[d]) : EndOf(up[d][i], t)
    BY <1>4 DEF EndsIn
  <2>a. PICK i \in 1..Len(up[d]) : EndOf(up[d][i], t)
    BY <2>1
  <2>2. i \in DOMAIN up[d] /\ up[d][i] \in Tells
    BY <1>0
  <2>3. up[d][i] = [task |-> t, status |-> up[d][i].status] /\ up[d][i].status \in Reports
    BY <2>a, <2>2 DEF EndOf, Tells
  <2>q. QED BY <2>2, <2>3 DEF Attended, Range
<1>5. CASE FinalIn(Unapplied(t))
  <2>1. chain[t] # <<>>
    <3>1. CASE AwaitsPass(t)
      BY <1>0, <3>1 DEF DispatcherOK, ReportsAwait, AwaitsPass, Tasks, NoTask
    <3>2. CASE ~AwaitsPass(t)
      BY <1>0, <1>5, <3>2 DEF Unapplied, FinalIn
    <3>q. QED BY <3>1, <3>2
  <2>q. QED BY <2>1 DEF Attended
<1>q. QED BY <1>1, <1>2, <1>3, <1>4, <1>5 DEF Executor, EndPending

(* The invariant says of every task that it has one executor at most, on   *)
(* its own device.                                                         *)
LEMMA CalmProcesses == CalmInv => ProcessOwnsItsRow /\ OneRunPerTask
<1> SUFFICES ASSUME CalmInv PROVE ProcessOwnsItsRow /\ OneRunPerTask
  OBVIOUS
<1>0. row \in [Tasks -> Row] /\ \A t \in Tasks : CalmTask(t)
  BY CalmFacts
<1>1. ASSUME NEW c \in Runs, Alive(c), NEW t \in Tasks, t = run[c].task
      PROVE  \/ row[t].status \in {"CANCELED", "NONE"}
             \/ row[t].status \in Occupying /\ row[t].device = run[c].host
  <2>1. Ran(c, t)
    BY <1>1 DEF Alive, Ran
  <2>2. ~AtRest(t)
    BY <1>0, <2>1 DEF CalmTask, RestsInPeace, NothingUnderWay, Executor, Started
  <2>3. row[t].status \in Statuses \cup {"NONE"} /\ row[t].status # "PAUSED"
    BY <1>0 DEF Row, CalmInv, NoPause
  <2>4. InSlot(t) => run[c].host = row[t].device
    BY <1>0, <2>1 DEF CalmTask, OnItsDevice
  <2>q. QED BY <2>2, <2>3, <2>4 DEF AtRest, InSlot, Statuses, Waiting, Occupying, Finished
<1>2. ProcessOwnsItsRow
  <2>1. \A c \in Runs : Alive(c) => run[c].task \in Tasks /\ run[c].host \in Devices
    BY AgentFacts DEF Alive
  <2>2. \A d \in Devices : Owner(d) = d
    BY DEF CalmInv, OrderlyInv, Owner
  <2>q. QED BY <1>1, <2>1, <2>2 DEF ProcessOwnsItsRow
<1>3. ASSUME NEW t \in Tasks PROVE Cardinality({c \in Runs : Ran(c, t)}) <= 1
  <2>1. \A b, c \in Runs : Ran(b, t) /\ Ran(c, t) => b = c
    BY <1>0 DEF CalmTask, OneExecutor
  <2>2. CASE \E c \in Runs : Ran(c, t)
    <3>1. PICK b \in Runs : Ran(b, t)
      BY <2>2
    <3>2. {c \in Runs : Ran(c, t)} = {b}
      BY <2>1, <3>1
    <3>3. Cardinality({b}) = 1
      BY FS_Singleton
    <3>q. QED BY <3>2, <3>3
  <2>3. CASE ~\E c \in Runs : Ran(c, t)
    <3>1. {c \in Runs : Ran(c, t)} = {}
      BY <2>3
    <3>q. QED BY <3>1, FS_EmptySet
  <2>q. QED BY <2>2, <2>3
<1>q. QED BY <1>2, <1>3 DEF OneRunPerTask

(* A task that has finished is written by no report any more: nothing is   *)
(* under way about it.                                                     *)
LEMMA FinalStays ==
    ASSUME CalmInv, [LocalNext]_localVars, NEW t \in Tasks, row[t].status \in Final,
           row'[t].status \in Reports
    PROVE  row'[t].status = row[t].status
<1>0. /\ TypeOK /\ TableSound /\ WiresTypeOK /\ CalmTask(t) /\ row[t] \in Row
  BY CalmFacts
<1>1. Unapplied(t) = <<>>
  BY <1>0 DEF CalmTask, RestsInPeace, AtRest, Final, NothingUnderWay
<1>2. TableStep
  BY <1>0, LocalStepImplements, RowAnatomy
<1>3. row[t].status \notin Occupying \cup {"QUEUED", "NONE"}
  BY DEF Final, Occupying
<1>4. ASSUME NEW p \in Passes, NEW u \in Tasks, Claims(p, u) PROVE row'[t] = row[t]
  BY <1>0, <1>3, <1>4 DEF Claims, Queued, TypeOK, TableTypeOK
<1>5. ASSUME RowStep(t), row'[t] # row[t] PROVE row'[t].status = row[t].status
  <2>1. ~Inserts(t)
    BY <1>3 DEF Inserts, Exists
  <2>2. NoRow.status \notin Reports
    BY DEF NoRow, Reports
  <2>3. ~(chain[t] # <<>> /\ ~AwaitsPass(t))
    BY <1>1 DEF Unapplied
  <2>4. DeviceForgotten(row[t]).status = row[t].status
    BY <1>0 DEF DeviceForgotten, Row
  <2>5. ASSUME NEW r \in Requests PROVE ~Writes(r, t)
    <3>1. Writes(r, t) => req[r].op \in Ops /\ req[r].op \in {"cancel", "retry"}
      BY DEF Writes, CalmInv, NoPause
    <3>2. Writes(r, t) => row'[t].status \in {"CANCELED", "QUEUED"}
      BY <1>0, <3>1, WrittenStatus DEF Writes
    <3>q. QED BY <3>2 DEF Reports
  <2>q. QED BY <1>3, <1>5, <2>1, <2>2, <2>3, <2>4, <2>5 DEF RowStep
<1>q. QED BY <1>2, <1>4, <1>5 DEF TableStep

-----------------------------------------------------------------------------
(* Nothing is forgotten where no device is removed and the rest of Calm    *)
(* holds: a task that occupies a slot is being executed, or its end or its *)
(* cancelling is on its way, or the server has yet to notice that its      *)
(* device has left.                                                        *)
THEOREM NothingLost == ASSUME Calm PROVE LocalSpec => []NoLostTask
  BY CalmInvariance, CalmAttends, PTL

(* A process works on a task that its device holds or that is cancelled,   *)
(* where no device is removed and the rest of Calm holds.                  *)
THEOREM ProcessesOwnTheirRows == ASSUME Calm PROVE LocalSpec => []ProcessOwnsItsRow
<1>1. CalmInv => ProcessOwnsItsRow
  BY CalmProcesses
<1>q. QED BY <1>1, CalmInvariance, PTL

(* No task is executed twice at once, as long as Calm holds.               *)
THEOREM NeverRunTwice == ASSUME Calm PROVE LocalSpec => []OneRunPerTask
<1>1. CalmInv => OneRunPerTask
  BY CalmProcesses
<1>q. QED BY <1>1, CalmInvariance, PTL

(* No report takes a task out of COMPLETED or FAILED again, as long as     *)
(* Calm holds.                                                             *)
THEOREM FinalIsLast == ASSUME Calm PROVE LocalSpec => FinalReportIsLast
<1>1. CalmInv /\ [LocalNext]_localVars
        => [\A t \in Tasks : row[t].status \in Final /\ row'[t].status \in Reports
                                => row'[t].status = row[t].status]_localVars
  BY FinalStays
<1>q. QED BY <1>1, CalmInvariance, PTL DEF LocalSpec, FinalReportIsLast

(* The variables of the whole stay within their types, whatever goes wrong.*)
THEOREM LocalTypes == LocalSpec => []LocalTypeOK
<1> DEFINE Counted == faults \in 0..MaxFaults
<1>1. LocalInit => Counted
  BY MaxFaultsAssumption DEF LocalInit
<1>2. Counted /\ [LocalNext]_localVars => Counted'
  <2> SUFFICES ASSUME Counted, [LocalNext]_localVars PROVE Counted'
    OBVIOUS
  <2>1. UNCHANGED faults \/ (faults < MaxFaults /\ faults' = faults + 1)
    BY DEF LocalNext, ServerStep, AgentStep, LoadAndAbort, OtherRequest, Delete, Apply, SaveSettings, Assign,
       OtherPassStep, SessionHandler, Notice, Refuse, DeleteDevice, Open, Upload, Deliver, Lose, Crash, Fault, Close, Fire, localVars
  <2>q. QED BY <2>1, MaxFaultsAssumption
<1>3. LocalInv /\ Counted => LocalTypeOK
  BY DEF LocalInv, Inv, WiresTypeOK, LocalTypeOK
<1> HIDE DEF Counted
<1>q. QED BY <1>1, <1>2, <1>3, LocalInvariance, PTL DEF LocalSpec

-----------------------------------------------------------------------------
(* Once the server is through with every connect and disconnect, a device  *)
(* is attached or away.                                                    *)
Through == Quiet /\ \A s \in Sessions : ~Abandoned(s) /\ session[s].connect = "done"

ClaimsRequeuedWhenGone == Through => \A d \in Devices : Held(d) # {} => Reachable(d)

(* A device that is attached can be reached.                               *)
LEMMA ThroughMeansSettled ==
    ASSUME Through, NEW d \in Devices, Phase(d)
    PROVE  Reachable(d) \/ Away(d)
<1>1. ~Leaving(d)
  BY LeavingSettles DEF Settling, Through
<1>2. ASSUME Attached(d) PROVE Reachable(d)
  <2>1. PICK s \in Sessions : session[s].device = d /\ session[s].open
    BY <1>2 DEF Attached, OnlySession
  <2>2. Identified(s)
    BY <2>1, NoDeviceAssumption DEF Identified, Through
  <2>q. QED BY <2>1, <2>2 DEF Reachable
<1>q. QED BY <1>1, <1>2 DEF Phase

(* The reports of the only device come in over its connection, so that     *)
(* none is being applied while it has none.                                *)
OnlyDeviceSilent(d) ==
    /\ link[d] = NoLink => \A t \in Tasks : chain[t] = <<>>
    /\ Away(d) => Occupied(d) = {}

(* The chains fill by what comes in over a connection, and not otherwise.  *)
LEMMA ChainsFill ==
    ASSUME LocalInv, [LocalNext]_localVars, \A t \in Tasks : chain[t] = <<>>
    PROVE  UNCHANGED chain \/ \E d \in Devices : link[d] # NoLink /\ UNCHANGED link
<1> DEFINE Goal == UNCHANGED chain \/ \E d \in Devices : link[d] # NoLink /\ UNCHANGED link
<1>0. TypeOK /\ DispatcherOK
  BY OrderlyFacts
<1>1. ASSUME NEW p \in Passes, Assign(p) \/ OtherPassStep(p) PROVE UNCHANGED chain
  <2>1. PassRuns(p)
    BY <1>1 DEF Assign, OtherPassStep, ClaimOldest, Queued, PassRuns
  <2>2. Advances(p) \/ Settle(p)
    BY <1>0, <2>1, PassMoves DEF TypeOK
  <2>3. pass[p].report = NoTask
    BY <1>0 DEF DispatcherOK, DispatcherTypeOK, ReportsAwait, Pass
  <2>q. QED BY <2>2, <2>3 DEF Advances, Settle
<1>2. ASSUME NEW d \in Devices, Upload(d) PROVE Goal
  BY <1>2 DEF Upload
<1>3. ASSUME NEW t \in Tasks, Delete(t) \/ Apply(t) PROVE UNCHANGED chain
  BY <1>3 DEF Delete, RemoveTask, Apply, ApplyReport
<1>4. ASSUME NEW s \in Sessions, SessionHandler(s) \/ Notice(s) PROVE UNCHANGED chain
  BY <1>4 DEF SessionHandler, Notice, Identify, MarkOnline, MarkOffline, Requeue, Drop
<1>5. CASE \/ \E r \in Requests, op \in Ops, t \in Tasks : LoadAndAbort(r, op, t)
           \/ OtherRequest
           \/ SaveSettings
  BY <1>5 DEF LoadAndAbort, LoadTask, OtherRequest, CreateTask, UpdateTask, RouteTask, SaveSettings, Reconfigure, Configure,
     gatewayVars
<1>6. ASSUME NEW d \in Devices, Open(d) \/ Deliver(d) \/ Lose(d) \/ Crash(d) PROVE UNCHANGED chain
  BY <1>6 DEF Open, Connect, Deliver, Lose, Crash, Fault, vars, gatewayVars
<1>7. ASSUME NEW c \in Runs, Fire(c) \/ \E outcome \in Ends : Close(c, outcome) PROVE UNCHANGED chain
  BY <1>7 DEF Fire, Close, vars, gatewayVars
<1>8. CASE UNCHANGED localVars
  BY <1>8 DEF localVars, vars, gatewayVars
<1>9. CASE (\E s \in Sessions : Refuse(s)) \/ (\E d \in Devices : DeleteDevice(d))
  BY <1>9 DEF Refuse, Identify, DeleteDevice, RemoveDevice
<1>q. QED
  BY <1>1, <1>2, <1>3, <1>4, <1>5, <1>6, <1>7, <1>8, <1>9 DEF LocalNext, ServerStep, AgentStep

(* Without a report to apply a device no pass knows gets no more tasks.    *)
LEMMA SilentGetsNothing ==
    ASSUME LocalInv, [LocalNext]_localVars, NEW d \in Devices, Unseen(d), \A t \in Tasks : chain[t] = <<>>
    PROVE  Occupied(d)' \subseteq Occupied(d)
<1>0. TypeOK /\ TableStep /\ ClaimHasRoom /\ row \in [Tasks -> Row] /\ d # NoDevice
  BY OrderlyFacts, LocalStepImplements, RowAnatomy, NoDeviceAssumption DEF LocalInv, Inv
<1>1. ASSUME NEW p \in Passes, NEW t \in Tasks, Claims(p, t)
      PROVE  Occupied(d)' \subseteq Occupied(d)
  <2>1. pass[p].dev # d
    BY <1>0 DEF Unseen, PassDevices
  <2>2. row'[t].device # d /\ \A u \in Tasks : u # t => row'[u] = row[u]
    BY <1>0, <1>1, <2>1 DEF Claims, Claimed, Row
  <2>q. QED BY <2>2 DEF Occupied
<1>2. ASSUME NEW t \in Tasks, RowStep(t), row'[t].device = d, row'[t].status \in Occupying
      PROVE  row'[t] = row[t]
  <2>0. row[t] \in Row
    BY <1>0
  <2>1. NoRow.device = NoDevice /\ Inserted.device = NoDevice
    BY DEF NoRow, Inserted
  <2>2. \A op \in Ops : Written(op, row[t]).status \notin Occupying
    BY <2>0 DEF Written, Canceled, Paused, Requeued, Row, Ops, Occupying
  <2>3. Requeued(row[t]).device = NoDevice /\ DeviceForgotten(row[t]).device = NoDevice
    BY <2>0 DEF Requeued, DeviceForgotten, Row
  <2>q. QED BY <1>0, <1>2, <2>1, <2>2, <2>3 DEF RowStep, Inserts, Writes
<1>3. CASE \A t \in Tasks : RowStep(t)
  BY <1>2, <1>3 DEF Occupied
<1>q. QED BY <1>0, <1>1, <1>3 DEF TableStep

(* The only device stays silent while it is away.                          *)
LEMMA SilentStep ==
    ASSUME Tidy, OrderlyInv, [LocalNext]_localVars, NEW d, Devices = {d}, OnlyDeviceSilent(d)
    PROVE  OnlyDeviceSilent(d)'
<1>0. d \in Devices /\ LocalInv /\ PhaseStep(d)
      /\ link \in [Devices -> Sessions \cup {NoLink}]
  BY PhaseKept, OrderlyFacts DEF OrderlyInv
<1>1. ASSUME link'[d] = NoLink
      PROVE  \A t \in Tasks : chain[t] = <<>> /\ chain'[t] = <<>>
  <2>1. CASE link[d] = NoLink
    <3>1. \A t \in Tasks : chain[t] = <<>>
      BY <2>1 DEF OnlyDeviceSilent
    <3>q. QED BY <1>0, <2>1, <3>1, ChainsFill
  <2>2. CASE link[d] # NoLink
    <3>1. Orderly /\ Fault(d)
      BY <1>0, <1>1, <2>2, LinkStep, NothingRemoved DEF Lose, Crash, Tidy
    <3>q. QED BY <3>1 DEF Fault, Undisturbed, vars, gatewayVars
  <2>q. QED BY <2>1, <2>2
<1>2. ASSUME Away(d)' PROVE Occupied(d)' = {}
  <2>1. link'[d] = NoLink /\ \A s \in Sessions : session'[s].device # d
    BY <1>2 DEF Away
  <2>2. ~Attached(d)' /\ ~Leaving(d)'
    BY <2>1, NoLinkAssumption DEF Attached, Leaving, Leaves, OnlySession
  <2>3. Away(d) \/ Occupied(d)' = {}
    BY <1>0, <2>2 DEF PhaseStep
  <2>4. ASSUME Away(d) PROVE Occupied(d)' = {}
    <3>1. Unseen(d) /\ Occupied(d) = {}
      BY <2>4 DEF Away, OnlyDeviceSilent
    <3>2. \A t \in Tasks : chain[t] = <<>>
      BY <1>1, <2>1
    <3>q. QED BY <1>0, <3>1, <3>2, SilentGetsNothing
  <2>q. QED BY <2>3, <2>4
<1>q. QED BY <1>1, <1>2 DEF OnlyDeviceSilent

(* Where no device is removed and faults strike in an orderly world, no    *)
(* device that nobody is connected from has a slot its claims have filled, *)
(* however many devices there are (realtime.gateway.ts:101-102).           *)
THEOREM ClaimsRequeued == ASSUME Tidy PROVE LocalSpec => []ClaimsRequeuedWhenGone
<1>1. OrderlyInv => ClaimsRequeuedWhenGone
  BY ThroughMeansSettled DEF OrderlyInv, ClaimsRequeuedWhenGone, Phase, Away
<1>q. QED BY <1>1, OrderlyInvariance, PTL

(* If there is one device, none of its slots is occupied while nobody is   *)
(* connected from it.  With another one this fails: a process the other    *)
(* goes on with after its connection was lost reports on a task the first  *)
(* has finished, and the row is occupying once more.                       *)
THEOREM OnlyDeviceRequeued == ASSUME Tidy, NEW d, Devices = {d} PROVE LocalSpec => []RequeuedWhenGone
<1>1. LocalInit => OnlyDeviceSilent(d)
  <2> SUFFICES ASSUME LocalInit PROVE OnlyDeviceSilent(d)
    OBVIOUS
  <2>1. \A t \in Tasks : row[t] = NoRow /\ chain[t] = <<>>
    BY DEF LocalInit, Init, GatewayInit, TableInit
  <2>q. QED BY <2>1 DEF OnlyDeviceSilent, Occupied, NoRow, Occupying
<1>2. OrderlyInv /\ OnlyDeviceSilent(d) /\ [LocalNext]_localVars => OnlyDeviceSilent(d)'
  BY SilentStep
<1>3. OrderlyInv /\ OnlyDeviceSilent(d) => RequeuedWhenGone
  <2> SUFFICES ASSUME OrderlyInv, OnlyDeviceSilent(d), Through, Occupied(d) # {}
               PROVE  Reachable(d)
    BY DEF RequeuedWhenGone, Through
  <2>1. Reachable(d) \/ Away(d)
    BY ThroughMeansSettled DEF OrderlyInv, Phase
  <2>q. QED BY <2>1 DEF OnlyDeviceSilent
<1>q. QED BY <1>1, <1>2, <1>3, OrderlyInvariance, PTL DEF LocalSpec
=============================================================================
