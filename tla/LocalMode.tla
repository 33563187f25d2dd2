----------------------------- MODULE LocalMode -----------------------------
(***************************************************************************)
(* The whole of LOCAL_CLI mode: the server of LocalServer, the agents and  *)
(* the sockets between them.  Every step of the server is a step of        *)
(* LocalServer; what it sends and what it receives goes through two queues *)
(* per device, so that only a process that really ran can report.          *)
(*                                                                         *)
(* A socket is seen from two ends: `session' is the server's, `link' the   *)
(* agent's.  When the connection breaks the agent knows first, and what    *)
(* was under way in either direction is lost; what the agent emits         *)
(* afterwards its client library keeps until it is connected again.        *)
(***************************************************************************)
EXTENDS LocalServer, Agent, Functions

CONSTANTS
    NoLink,         \* the agent is not connected
    Ends,           \* bound: how processes end, among Outcomes
    Startable,      \* bound: whether a process can be started, a subset of BOOLEAN
    Deletable,      \* bound: the tasks the user may delete
    MaxMessages,    \* bound: reports of one device under way at once
    Faults,         \* bound: what may go wrong, among "lose" and "crash"
    MaxFaults,      \* bound: how often
    Orderly         \* bound: whether the server is done with one thing before
                    \* the next comes up, see Buried and Undisturbed

ASSUME NoLinkAssumption == NoLink \notin Sessions
ASSUME AgentsAssumption == Hosts = Devices /\ Jobs = Tasks
ASSUME EndsAssumption   == Ends \subseteq Outcomes
ASSUME FaultsAssumption == Faults \subseteq {"lose", "crash"} /\ Orderly \in BOOLEAN
ASSUME MaxFaultsAssumption == MaxFaults \in Nat

VARIABLES
    link,       \* link[d]: the session the agent on d is connected by
    down,       \* down[d]: what the server has sent to d
    up,         \* up[d]: the reports d has emitted
    faults      \* how many faults there have been

wires == <<link, down, up>>
localVars == <<vars, agentVars, wires, faults>>

Orders == [order : {"assign", "pause", "cancel"}, task : Tasks]
Tells  == [task : Tasks, status : Reports]

LocalInit ==
    /\ Init
    /\ AgentInit
    /\ link = [d \in Devices |-> NoLink]
    /\ down = [d \in Devices |-> <<>>]
    /\ up   = [d \in Devices |-> <<>>]
    /\ faults = 0

LocalTypeOK ==
    /\ TypeOK
    /\ AgentTypeOK
    /\ link \in [Devices -> Sessions \cup {NoLink}]
    /\ down \in [Devices -> Seq(Orders)]
    /\ up   \in [Devices -> Seq(Tells)]
    /\ faults \in 0..MaxFaults

-----------------------------------------------------------------------------
(* To the room of the device: whoever is not in it hears nothing.          *)
Heard(d) == link[d] # NoLink /\ session[link[d]].open /\ Identified(link[d])

Send(d, order, t) ==
    down' = IF Heard(d) THEN [down EXCEPT ![d] = Append(@, [order |-> order, task |-> t])] ELSE down

Emit(d, t, statuses) ==
    LET told == [i \in DOMAIN statuses |-> [task |-> t, status |-> statuses[i]]]
    IN  /\ Len(up[d]) + Len(statuses) <= MaxMessages
        /\ up' = [up EXCEPT ![d] = @ \o told]

(* A session whose agent has left it.                                      *)
Abandoned(s) == session[s] # NoSession /\ link[session[s].device] # s

(* In an orderly world a fault strikes while the server is connecting      *)
(* nobody and no pass and no report is under way, and it has dealt with    *)
(* the disconnect before a pass goes on or the device comes back.          *)
Settling    == Orderly /\ \E s \in Sessions : Abandoned(s)
Undisturbed == Orderly => /\ \A p \in Passes : pass[p].pc = "free"
                          /\ \A t \in Tasks : chain[t] = <<>>
                          /\ \A s \in Sessions : session[s].connect = "done"

-----------------------------------------------------------------------------
(* The server's steps, and what they send.                                 *)

LoadAndAbort(r, op, t) ==
    /\ LoadTask(r, op, t)
    /\ IF SendsAbort(op, row[t]) THEN Send(row[t].device, op, t) ELSE UNCHANGED down
    /\ UNCHANGED <<agentVars, link, up, faults>>

OtherRequest ==
    /\ \E r \in Requests : CreateTask(r) \/ UpdateTask(r) \/ RouteTask(r)
    /\ UNCHANGED <<agentVars, wires, faults>>

Assign(p) ==
    /\ SendAssign(p)
    /\ Send(pass[p].dev, "assign", pass[p].task)
    /\ UNCHANGED <<connection, req, agentVars, link, up, faults>>

OtherPassStep(p) ==
    /\ ReadConnection(p) \/ ReadDevices(p) \/ ClaimOldest(p) \/ \E d \in Devices : CountSlots(p, d)
    /\ UNCHANGED <<connection, req, agentVars, wires, faults>>

Unknown(s) == device[session[s].device] = "GONE"

SessionHandler(s) ==
    /\ (Identify(s) /\ ~Unknown(s)) \/ MarkOnline(s) \/ MarkOffline(s) \/ Requeue(s)
    /\ UNCHANGED <<connection, req, agentVars, wires, faults>>

Apply(t) == ApplyReport(t) /\ UNCHANGED <<connection, req, agentVars, wires, faults>>

DeleteDevice(d) == RemoveDevice(d) /\ UNCHANGED <<connection, req, agentVars, wires, faults>>

Delete(t) == t \in Deletable /\ RemoveTask(t) /\ UNCHANGED <<agentVars, wires, faults>>

SaveSettings ==
    /\ \E type \in Modes, limit \in Limits : Reconfigure(type, limit)
    /\ UNCHANGED <<agentVars, wires, faults>>

-----------------------------------------------------------------------------
(* The sockets.                                                            *)

Open(d) ==
    /\ link[d] = NoLink
    /\ \E s \in Sessions : Connect(s, d) /\ link' = [link EXCEPT ![d] = s]
    /\ UNCHANGED <<connection, req, agentVars, down, up, faults>>

Cut(d) ==
    /\ link' = [link EXCEPT ![d] = NoLink]
    /\ down' = [down EXCEPT ![d] = <<>>]
    /\ up'   = [up EXCEPT ![d] = <<>>]

(* The device has been removed: its token is not found, and the server     *)
(* closes the socket.                                                      *)
Refuse(s) ==
    LET d == session[s].device
    IN  /\ Identify(s) /\ Unknown(s)
        /\ IF link[d] = s THEN Cut(d) ELSE UNCHANGED wires
        /\ UNCHANGED <<connection, req, agentVars, faults>>

(* The server notices that the agent has left, sooner or later.            *)
Notice(s) ==
    /\ Abandoned(s)
    /\ Drop(s)
    /\ UNCHANGED <<connection, req, agentVars, wires, faults>>

(* A report reaches the server, which ignores it unless the socket has got *)
(* its identity.                                                           *)
Upload(d) ==
    LET s == link[d]
    IN  /\ up[d] # <<>> /\ s # NoLink /\ session[s].open
        /\ up' = [up EXCEPT ![d] = Tail(@)]
        /\ IF Identified(s)
           THEN Receive(s, Head(up[d]).task, Head(up[d]).status) /\ UNCHANGED <<connection, req>>
           ELSE UNCHANGED vars
        /\ UNCHANGED <<agentVars, link, down, faults>>

(* An order reaches the agent.                                             *)
Start(d, t) ==
    \/ /\ TRUE \in Startable /\ \E c \in Runs : Free(c)
       /\ Assigned(CHOOSE c \in Runs : Free(c), d, t)
       /\ Emit(d, t, Starting)
    \/ /\ FALSE \in Startable
       /\ Emit(d, t, Unstartable)
       /\ UNCHANGED agentVars

Deliver(d) ==
    /\ down[d] # <<>>
    /\ down' = [down EXCEPT ![d] = Tail(@)]
    /\ LET m == Head(down[d])
       IN  IF m.order = "assign" THEN Start(d, m.task)
           ELSE Aborted(d, m.task, m.order) /\ UNCHANGED up
    /\ UNCHANGED <<vars, link, faults>>

-----------------------------------------------------------------------------
(* The agents.                                                             *)

Close(c, outcome) ==
    /\ Closed(c, outcome)
    /\ Emit(run[c].host, run[c].task, Report(c, outcome))
    /\ UNCHANGED <<vars, link, down, faults>>

Fire(c) ==
    /\ Fired(c)
    /\ Emit(run[c].host, run[c].task, Starting)
    /\ UNCHANGED <<vars, link, down, faults>>

Fault(d) ==
    /\ faults < MaxFaults
    /\ Undisturbed
    /\ faults' = faults + 1
    /\ Cut(d)
    /\ UNCHANGED vars

(* The connection breaks under an agent that goes on working.              *)
Lose(d) == "lose" \in Faults /\ link[d] # NoLink /\ Fault(d) /\ UNCHANGED agentVars

(* The agent is stopped.                                                   *)
Crash(d) == "crash" \in Faults /\ Fault(d) /\ Restarted(d)

-----------------------------------------------------------------------------
ServerStep ==
    \/ \E r \in Requests, op \in Ops, t \in Tasks : LoadAndAbort(r, op, t)
    \/ OtherRequest
    \/ \E t \in Tasks : Delete(t) \/ Apply(t)
    \/ SaveSettings
    \/ \E p \in Passes : ~Settling /\ (Assign(p) \/ OtherPassStep(p))
    \/ \E s \in Sessions : SessionHandler(s) \/ Notice(s)
    \/ (\E s \in Sessions : Refuse(s)) \/ (\E d \in Devices : DeleteDevice(d))

AgentStep ==
    \/ \E d \in Devices : \/ ~Settling /\ Open(d)
                          \/ Upload(d)
                          \/ Deliver(d)
                          \/ Lose(d)
                          \/ Crash(d)
    \/ \E c \in Runs : Fire(c) \/ \E outcome \in Ends : Close(c, outcome)

LocalNext == ServerStep \/ AgentStep
LocalSpec == LocalInit /\ [][LocalNext]_localVars

Ran(c, t) == run[c].st # "free" /\ run[c].task = t

(* The server goes on, the sockets work and every process ends at last,    *)
(* not always on a rate limit.  Users and faults may stay away.            *)
Fairness ==
    /\ WF_localVars(OtherRequest /\ created' = created)
    /\ \A t \in Tasks : WF_localVars(Apply(t))
    /\ \A p \in Passes : WF_localVars(~Settling /\ (Assign(p) \/ OtherPassStep(p)))
    /\ \A s \in Sessions : WF_localVars(SessionHandler(s) \/ Refuse(s) \/ Notice(s))
    /\ \A d \in Devices : /\ WF_localVars(~Settling /\ Open(d))
                          /\ WF_localVars(Upload(d))
                          /\ WF_localVars(Deliver(d))
    /\ \A c \in Runs : /\ WF_localVars(Fire(c))
                       /\ WF_localVars(\E outcome \in Ends : Close(c, outcome))
    /\ \A t \in Tasks, d \in Devices :
           SF_localVars(\E c \in Runs, outcome \in Ends \cap Final :
                            Ran(c, t) /\ run[c].host = d /\ Close(c, outcome))
FairLocalSpec == LocalSpec /\ Fairness

-----------------------------------------------------------------------------
Alive(c)  == run[c].st # "free" /\ run[c].abort = "no"

(* Something is still on its way that will move a task on: its assignment, *)
(* its process or timer, a report, a write, or the server's noticing that  *)
(* its device has gone.                                                    *)
Attended(t) ==
    \/ \E p \in Passes : pass[p].pc = "assign" /\ pass[p].task = t
    \/ \E d \in Devices : [order |-> "assign", task |-> t] \in Range(down[d])
    \/ \E c \in Runs : Ran(c, t)
    \/ \E d \in Devices, status \in Reports : [task |-> t, status |-> status] \in Range(up[d])
    \/ chain[t] # <<>>
    \/ \E r \in Requests : req[r].at = "update" /\ req[r].task = t
    \/ \E s \in Sessions : Abandoned(s) /\ session[s].device = row[t].device

(* A task that occupies a slot of its device is never forgotten: it is not *)
(* left RUNNING or PAUSED_RATE_LIMIT with nobody to move it on             *)
(* ("resume at the reset time without any manual intervention",            *)
(* README.md:18-19).  When a device is removed its rows keep their status  *)
(* and occupy no slot of anybody's (devices.service.ts:57): once its agent *)
(* has stopped nobody moves them on.                                       *)
NoLostTask ==
    \A t \in Tasks : row[t].status \in Occupying /\ row[t].device # NoDevice => Attended(t)

(* "Put this device's running/paused tasks back into the queue"            *)
(* (realtime.gateway.ts:101-102): once the server is through with every    *)
(* connect and disconnect, no slot of a device nobody is connected from is *)
(* occupied.                                                               *)
RequeuedWhenGone ==
    (/\ Quiet
     /\ \A s \in Sessions : ~Abandoned(s) /\ session[s].connect = "done")
        => \A d \in Devices : Occupied(d) # {} => Reachable(d)

(* A process nobody has aborted works on a task its device holds, or on    *)
(* one that has been cancelled or deleted: no process for a task that is   *)
(* queued, finished or another device's.  The process of a device that has *)
(* been removed works on what is nobody's by then.                         *)
Owner(d) == IF device[d] = "GONE" THEN NoDevice ELSE d
ProcessOwnsItsRow ==
    \A c \in Runs : Alive(c) =>
        LET x == row[run[c].task]
        IN  \/ x.status \in {"CANCELED", "NONE"}
            \/ x.status \in Occupying /\ x.device = Owner(run[c].host)

(* A task has one process or timer at a time, over all devices             *)
(* (realtime.gateway.ts:185-191), so that activeRuns and pendingRetries    *)
(* never lose one under the key of another.                                *)
OneRunPerTask ==
    \A t \in Tasks : Cardinality({c \in Runs : Ran(c, t)}) <= 1

(* "RUNNING followed by FAILED" reach the table in that order              *)
(* (realtime.gateway.ts:29-31): a report never takes a task out of         *)
(* COMPLETED or FAILED again.                                              *)
FinalReportIsLast ==
    [][\A t \in Tasks : row[t].status \in Final /\ row'[t].status \in Reports
                            => row'[t].status = row[t].status]_localVars

(* The queue is worked off (README.md:9-13): a queued task is finished in  *)
(* the end, or deleted, or stopped by its user.                            *)
QueueIsWorkedOff ==
    \A t \in Tasks : (row[t].status = "QUEUED" /\ connection.type = "LOCAL_CLI")
                        ~> row[t].status \in Finished \cup {"NONE", "PAUSED"}
=============================================================================
