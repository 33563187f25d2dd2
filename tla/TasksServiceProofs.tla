------------------------- MODULE TasksServiceProofs -------------------------
(***************************************************************************)
(* The lemmas about the table of tasks and its handlers that the proofs    *)
(* about both execution modes and about the web page need.                 *)
(***************************************************************************)
EXTENDS TasksService, TLAPS

(* Every statement writes a well-typed row.                                *)
LEMMA RowTyped ==
    ASSUME NEW x \in Row
    PROVE  /\ NoRow \in Row /\ Inserted \in Row
           /\ \A op \in Ops : Written(op, x) \in Row
           /\ Requeued(x) \in Row /\ DeviceForgotten(x) \in Row
           /\ \A d \in Devices \cup {NoDevice} : Claimed(x, d) \in Row
           /\ \A rep \in Reports : Reported(x, rep) \in Row
  BY DEF Row, NoRow, Inserted, Written, Canceled, Paused, Requeued, DeviceForgotten, Claimed,
     Reported, ReportWrites, Writable, Reports, Statuses, Waiting, Occupying, Finished, Ops

(* A handler writes one of these statuses, and only into a row it finds.   *)
LEMMA WrittenStatus ==
    ASSUME NEW x \in Row, NEW op \in Ops
    PROVE  Written(op, x).status = CASE op = "cancel" -> "CANCELED"
                                     [] op = "pause"  -> "PAUSED"
                                     [] OTHER         -> "QUEUED"
  BY DEF Written, Canceled, Paused, Requeued, Row, Ops

(* A task that has not been created has no row, and a request under way is *)
(* about one that has been.                                                *)
TasksSound ==
    /\ \A t \in Tasks : t > created => ~Exists(t)
    /\ \A r \in Requests : req[r].at = "idle" => req[r] = Idle
    /\ \A r \in Requests : req[r].at # "idle" => req[r].task \in Tasks /\ req[r].task <= created
    /\ \A r \in Requests : req[r].at = "update" => req[r].op \in Ops

TasksInv == TableTypeOK /\ TasksTypeOK /\ TasksSound

(* The user's requests come one at a time.                                 *)
OneRequest == \A q, r \in Requests : q = r

(* At the start there is no task and no request.                           *)
LEMMA TasksInvInit ==
    ASSUME TableInit, TasksInit
    PROVE  TasksInv
<1>1. NoRow \in Row /\ Idle \in Request
  BY DEF NoRow, Row, Idle, Request
<1>2. TableTypeOK /\ TasksTypeOK
  BY <1>1, MaxTasksAssumption DEF TableInit, TasksInit, TableTypeOK, TasksTypeOK
<1>3. TasksSound
  BY DEF TableInit, TasksInit, TasksSound, Exists, NoRow, Idle
<1>q. QED BY <1>2, <1>3 DEF TasksInv

(* The values a handler gives to its request are requests.                 *)
LEMMA RequestTyped ==
    ASSUME NEW t \in Tasks, NEW op \in Ops
    PROVE  /\ Idle \in Request /\ Routing(t) \in Request
           /\ [at |-> "update", op |-> op, task |-> t] \in Request
  BY DEF Request, Idle, Routing

(* create() inserts the next task and goes on to route it.                 *)
LEMMA CreateKeepsTasksInv ==
    ASSUME TasksInv, NEW r \in Requests, Create(r)
    PROVE  /\ TasksInv'
           /\ created + 1 \in Tasks /\ ~Exists(created + 1) /\ created' = created + 1
           /\ row'[created + 1] = Inserted
           /\ \A t \in Tasks : t # created + 1 => row'[t] = row[t]
           /\ req'[r] = Routing(created + 1) /\ \A q \in Requests : q # r => req'[q] = req[q]
<1>0. row \in [Tasks -> Row] /\ created \in 0..MaxTasks /\ req \in [Requests -> Request]
  BY DEF TasksInv, TableTypeOK, TasksTypeOK
<1>1. created + 1 \in Tasks /\ created' = created + 1 /\ created' \in 0..MaxTasks
  BY <1>0, MaxTasksAssumption DEF Create, Tasks
<1>2. ~Exists(created + 1)
  BY <1>0, <1>1 DEF TasksInv, TasksSound
<1>3. /\ row'[created + 1] = Inserted
      /\ \A t \in Tasks : t # created + 1 => row'[t] = row[t]
      /\ req'[r] = Routing(created + 1)
      /\ \A q \in Requests : q # r => req'[q] = req[q]
  BY <1>0, <1>1 DEF Create
<1>4. TableTypeOK' /\ TasksTypeOK'
  <2>1. Inserted \in Row /\ Routing(created + 1) \in Request
    BY <1>1 DEF Inserted, NoRow, Row, Statuses, Waiting, Routing, Request
  <2>q. QED BY <1>0, <1>1, <2>1 DEF TableTypeOK, TasksTypeOK, Create
<1>5. TasksSound'
  <2>1. Routing(created + 1).at = "route" /\ Routing(created + 1).task = created + 1
    BY DEF Routing
  <2>2. \A q \in Requests : q # r => req'[q] = req[q]
    BY <1>3
  <2>3. \A t \in Tasks : t > created' => ~Exists(t)'
    BY <1>0, <1>1, <1>3 DEF TasksInv, TasksSound, Exists, Tasks
  <2>4. \A q \in Requests : req'[q].at # "idle" => req'[q].task \in Tasks /\ req'[q].task <= created'
    BY <1>0, <1>1, <1>3, <2>1 DEF TasksInv, TasksSound, Tasks
  <2>q. QED BY <1>3, <2>1, <2>3, <2>4 DEF TasksInv, TasksSound
<1>q. QED BY <1>1, <1>2, <1>3, <1>4, <1>5 DEF TasksInv

(* The reading half of a handler writes nothing but its own request.       *)
LEMMA LoadKeepsTasksInv ==
    ASSUME TasksInv, NEW r \in Requests, NEW op \in Ops, NEW t \in Tasks, Load(r, op, t)
    PROVE  /\ TasksInv'
           /\ UNCHANGED tableVars
           /\ req'[r] = [at |-> "update", op |-> op, task |-> t]
           /\ \A q \in Requests : q # r => req'[q] = req[q]
<1>0. created \in 0..MaxTasks /\ req \in [Requests -> Request] /\ UNCHANGED <<row, created>>
  BY DEF TasksInv, TableTypeOK, TasksTypeOK, Load, tableVars
<1>1. /\ req'[r] = [at |-> "update", op |-> op, task |-> t]
      /\ \A q \in Requests : q # r => req'[q] = req[q]
  BY <1>0 DEF Load
<1>2. t <= created
  BY <1>0 DEF Load, TasksInv, TasksSound, Tasks
<1>3. TableTypeOK' /\ TasksTypeOK'
  BY <1>0, RequestTyped DEF TasksInv, TableTypeOK, TasksTypeOK, Load
<1>4. TasksSound'
  BY <1>0, <1>1, <1>2 DEF TasksInv, TasksSound, Exists
<1>q. QED BY <1>0, <1>1, <1>3, <1>4 DEF TasksInv, tableVars

(* The writing half changes one row, if it is still there, and ends the    *)
(* handler or routes the task.                                             *)
LEMMA UpdateKeepsTasksInv ==
    ASSUME TasksInv, NEW r \in Requests, Update(r)
    PROVE  LET t  == req[r].task
               op == req[r].op
           IN  /\ TasksInv'
               /\ t \in Tasks /\ op \in Ops /\ UNCHANGED created
               /\ row'[t] = IF Exists(t) THEN Written(op, row[t]) ELSE row[t]
               /\ \A u \in Tasks : u # t => row'[u] = row[u]
               /\ req'[r] = IF Exists(t) /\ op \in {"resume", "retry"} THEN Routing(t) ELSE Idle
               /\ \A q \in Requests : q # r => req'[q] = req[q]
<1> DEFINE t  == req[r].task
           op == req[r].op
<1>0. /\ row \in [Tasks -> Row] /\ created \in 0..MaxTasks
      /\ req \in [Requests -> Request] /\ UNCHANGED created
      /\ t \in Tasks /\ op \in Ops /\ t <= created
  BY DEF TasksInv, TableTypeOK, TasksTypeOK, TasksSound, Update
<1>1. /\ row' = IF Exists(t) THEN [row EXCEPT ![t] = Written(op, @)] ELSE row
      /\ req' = [req EXCEPT ![r] = IF Exists(t) /\ op \in {"resume", "retry"}
                                   THEN Routing(t) ELSE Idle]
  BY DEF Update
<1> HIDE DEF t, op
<1>2. /\ row'[t] = IF Exists(t) THEN Written(op, row[t]) ELSE row[t]
      /\ \A u \in Tasks : u # t => row'[u] = row[u]
      /\ req'[r] = IF Exists(t) /\ op \in {"resume", "retry"} THEN Routing(t) ELSE Idle
      /\ \A q \in Requests : q # r => req'[q] = req[q]
  BY <1>0, <1>1
<1>3. Written(op, row[t]) \in Row
  BY <1>0, RowTyped
<1>4. TableTypeOK' /\ TasksTypeOK'
  BY <1>0, <1>1, <1>3, RequestTyped DEF TableTypeOK, TasksTypeOK
<1>5. TasksSound'
  <2>1. /\ Routing(t).at = "route" /\ Routing(t).task = t /\ Idle.at = "idle"
    BY DEF Routing, Idle
  <2>2. \A u \in Tasks : u > created' => ~Exists(u)'
    BY <1>0, <1>2 DEF TasksInv, TasksSound, Exists
  <2>q. QED BY <1>0, <1>2, <2>1, <2>2 DEF TasksInv, TasksSound
<1>q. QED BY <1>0, <1>2, <1>4, <1>5 DEF TasksInv, t, op

(* Routing leaves the table alone, and is about a task that was created.   *)
LEMMA RouteKeepsTasksInv ==
    ASSUME TasksInv, NEW r \in Requests, Route(r)
    PROVE  /\ TasksInv'
           /\ UNCHANGED tableVars
           /\ req[r].task \in Tasks /\ req[r].task <= created
           /\ req'[r] = Idle /\ \A q \in Requests : q # r => req'[q] = req[q]
<1>0. req \in [Requests -> Request] /\ UNCHANGED <<row, created>>
  BY DEF TasksInv, TasksTypeOK, Route, tableVars
<1>1. req'[r] = Idle /\ \A q \in Requests : q # r => req'[q] = req[q]
  BY <1>0 DEF Route
<1>2. Idle \in Request /\ Idle.at = "idle"
  BY DEF Idle, Request
<1>3. TableTypeOK' /\ TasksTypeOK'
  BY <1>0, <1>2 DEF TasksInv, TableTypeOK, TasksTypeOK, Route
<1>4. TasksSound'
  BY <1>0, <1>1, <1>2 DEF TasksInv, TasksSound, Exists
<1>q. QED BY <1>0, <1>1, <1>3, <1>4 DEF TasksInv, TasksSound, Route, tableVars

(* remove() takes away one row.                                            *)
LEMMA RemoveKeepsTasksInv ==
    ASSUME TasksInv, NEW t \in Tasks, Remove(t)
    PROVE  /\ TasksInv'
           /\ UNCHANGED <<created, req>>
           /\ row'[t] = NoRow /\ \A u \in Tasks : u # t => row'[u] = row[u]
<1>0. row \in [Tasks -> Row] /\ UNCHANGED <<created, req>>
  BY DEF TasksInv, TableTypeOK, Remove
<1>1. row'[t] = NoRow /\ \A u \in Tasks : u # t => row'[u] = row[u]
  BY <1>0 DEF Remove
<1>2. NoRow \in Row /\ NoRow.status = "NONE"
  BY DEF NoRow, Row
<1>3. TableTypeOK' /\ TasksTypeOK'
  BY <1>0, <1>2 DEF TasksInv, TableTypeOK, TasksTypeOK, Remove
<1>4. TasksSound'
  BY <1>0, <1>1, <1>2 DEF TasksInv, TasksSound, Exists
<1>q. QED BY <1>0, <1>1, <1>3, <1>4 DEF TasksInv
=============================================================================
