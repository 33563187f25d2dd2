---------------------------- MODULE TasksService ----------------------------
(***************************************************************************)
(* The REST handlers of one user's tasks: create, cancel, pause, resume,   *)
(* retry and remove.  The last five read the row, check its status and     *)
(* write it in a second statement that does not check again, so two        *)
(* requests - a second browser tab, a double click - interleave between    *)
(* check and write.                                                        *)
(*                                                                         *)
(* A request is one of these calls in flight.  What it asks of the rest of *)
(* the system (abort the run on the device, look for work, route the task  *)
(* to the queue of its mode) is an action of the composing module:         *)
(* DispatchesAfter and the step "route" say where.                         *)
(***************************************************************************)
EXTENDS TaskTable

CONSTANTS
    Requests,   \* bound: how many requests are in flight at once
    Asked       \* bound: the calls the user makes besides create and remove

VARIABLE req            \* req[r]: the call request r is in the middle of

Ops == {"cancel", "pause", "resume", "retry"}

ASSUME AskedAssumption == Asked \subseteq Ops

Request == [at   : {"idle", "update", "route"},
            op   : Ops \cup {"none"},
            task : Tasks \cup {NoTask}]
Idle       == [at |-> "idle", op |-> "none", task |-> NoTask]
Routing(t) == [at |-> "route", op |-> "none", task |-> t]

TasksInit   == req = [r \in Requests |-> Idle]
TasksTypeOK == req \in [Requests -> Request]

-----------------------------------------------------------------------------
(* The status check each handler makes on the row it has read.  Mutant:    *)
(* "pause" lets any row through that has not been paused already, "retry"  *)
(* one that waits for its rate limit.                                      *)
AllowedLoosely(op, status) ==
    CASE op = "cancel" -> status \notin Finished
      [] op = "pause"  -> status # "PAUSED"
      [] op = "resume" -> status = "PAUSED"
      [] op = "retry"  -> status \in {"FAILED", "PAUSED_RATE_LIMIT"}
Allowed(op, status) ==
    CASE op = "cancel" -> status \notin Finished
      [] op = "pause"  -> status \in Waiting \cup Occupying
      [] op = "resume" -> status = "PAUSED"
      [] op = "retry"  -> status = "FAILED"

(* The row each handler writes.                                            *)
Written(op, x) ==
    CASE op = "cancel" -> Canceled(x)
      [] op = "pause"  -> Paused(x)
      [] OTHER         -> Requeued(x)

(* POST /tasks: the row is inserted; which way it goes is read afterwards. *)
Create(r) ==
    /\ req[r].at = "idle"
    /\ created < MaxTasks
    /\ created' = created + 1
    /\ row' = [row EXCEPT ![created + 1] = Inserted]
    /\ req' = [req EXCEPT ![r] = Routing(created + 1)]

(* loadOwned and the check on the row it returns.                          *)
Load(r, op, t) ==
    /\ req[r].at = "idle"
    /\ op \in Asked
    /\ Exists(t)
    /\ Allowed(op, row[t].status)
    /\ req' = [req EXCEPT ![r] = [at |-> "update", op |-> op, task |-> t]]
    /\ UNCHANGED tableVars

(* sendAbortToDevice, called with what Load has read.                      *)
SendsAbort(op, x) ==
    \/ op = "cancel" /\ x.device # NoDevice
    \/ op = "pause"  /\ x.device # NoDevice /\ x.status # "QUEUED"

(* UPDATE ... WHERE id = $1, whatever the status is by now.  A row removed *)
(* in the meantime gives no row back, and the handler fails on it.         *)
Update(r) ==
    LET t  == req[r].task
        op == req[r].op
    IN  /\ req[r].at = "update"
        /\ row' = IF Exists(t) THEN [row EXCEPT ![t] = Written(op, @)] ELSE row
        /\ req' = [req EXCEPT ![r] = IF Exists(t) /\ op \in {"resume", "retry"}
                                     THEN Routing(t) ELSE Idle]
        /\ UNCHANGED created

(* cancel and pause look for work as soon as they have written.            *)
DispatchesAfter(r) == req[r].op \in {"cancel", "pause"} /\ Exists(req[r].task)

(* SELECT type FROM claude_connections, and on to the queue of that mode.  *)
Route(r) ==
    /\ req[r].at = "route"
    /\ req' = [req EXCEPT ![r] = Idle]
    /\ UNCHANGED tableVars

(* DELETE /tasks/:id.  The check of the owner cannot change in between, so *)
(* reading and deleting are one step.  Nobody is told.                     *)
Remove(t) ==
    /\ Exists(t)
    /\ row' = [row EXCEPT ![t] = NoRow]
    /\ UNCHANGED <<created, req>>
=============================================================================
