---------------------------- MODULE LocalServer ----------------------------
(***************************************************************************)
(* The server in LOCAL_CLI mode: the REST handlers, the gateway with its   *)
(* dispatcher, the devices and the connection settings, over one table of  *)
(* tasks.  The devices themselves are an open environment here: an         *)
(* identified device may report anything about any task, because the       *)
(* server checks neither whose task it is nor what was reported before.    *)
(***************************************************************************)
EXTENDS TasksService, Gateway

vars == <<tableVars, connection, req, gatewayVars>>

Init ==
    /\ TableInit
    /\ ConnectionInit
    /\ TasksInit
    /\ GatewayInit

TypeOK ==
    /\ TableTypeOK
    /\ ConnectionTypeOK
    /\ TasksTypeOK
    /\ GatewayTypeOK

-----------------------------------------------------------------------------
CreateTask(r) == Create(r) /\ UNCHANGED <<connection, gatewayVars>>

LoadTask(r, op, t) == Load(r, op, t) /\ UNCHANGED <<connection, gatewayVars>>

UpdateTask(r) ==
    /\ Update(r)
    /\ IF DispatchesAfter(r) THEN Dispatch(NoTask) ELSE UNCHANGED dispatchVars
    /\ UNCHANGED <<connection, device, session, chain, overlooked>>

(* In API_KEY mode the task goes to the job queue instead, which is not    *)
(* part of this module.                                                    *)
RouteTask(r) ==
    /\ Route(r)
    /\ IF connection.type = "LOCAL_CLI" THEN Dispatch(NoTask) ELSE UNCHANGED dispatchVars
    /\ UNCHANGED <<connection, device, session, chain, overlooked>>

(* A removed task frees its slot, and no pass is asked for.                *)
RemoveTask(t) ==
    /\ Remove(t)
    /\ overlooked' = (overlooked \/ row[t].status \in Occupying)
    /\ UNCHANGED <<connection, device, session, chain, dispatchVars>>

(* PUT /connection.  The key is of no use in this mode.                    *)
Configure(type, limit) ==
    /\ SaveConnection(type, limit, FALSE)
    /\ IF type = "LOCAL_CLI" THEN Dispatch(NoTask) ELSE UNCHANGED dispatchVars
    /\ UNCHANGED <<tableVars, req, device, session, chain, overlooked>>

(* An UPDATE of task t by a request or a report is under way.              *)
Writing(t) ==
    \/ \E r \in Requests : req[r].at = "update" /\ req[r].task = t
    \/ chain[t] # <<>> /\ ~AwaitsPass(t)

(* Bound: a save that changes nothing is left out.                         *)
Reconfigure(type, limit) == Configure(type, limit) /\ connection' # connection

ClaimOldest(p) == \E skipped \in SUBSET {t \in Queued : Writing(t)} : Claim(p, skipped)

RequestStep ==
    \E r \in Requests :
        \/ CreateTask(r)
        \/ \E op \in Ops, t \in Tasks : LoadTask(r, op, t)
        \/ UpdateTask(r)
        \/ RouteTask(r)

DispatchStep ==
    \E p \in Passes :
        \/ ReadConnection(p)
        \/ ReadDevices(p)
        \/ \E d \in Devices : CountSlots(p, d)
        \/ ClaimOldest(p)
        \/ SendAssign(p)

SessionStep ==
    \E s \in Sessions :
        \/ \E d \in Devices : Connect(s, d)
        \/ Identify(s)
        \/ MarkOnline(s)
        \/ Drop(s)
        \/ MarkOffline(s)
        \/ Requeue(s)

ReportStep ==
    \E t \in Tasks :
        \/ \E s \in Sessions, rep \in Reports : Receive(s, t, rep)
        \/ ApplyReport(t)

Next ==
    \/ RequestStep
    \/ \E t \in Tasks : RemoveTask(t)
    \/ \E type \in Modes, limit \in Limits : Reconfigure(type, limit)
    \/ DispatchStep /\ UNCHANGED <<connection, req>>
    \/ SessionStep /\ UNCHANGED <<connection, req>>
    \/ ReportStep /\ UNCHANGED <<connection, req>>
    \/ (\E d \in Devices : RemoveDevice(d)) /\ UNCHANGED <<connection, req>>

Spec == Init /\ [][Next]_vars

-----------------------------------------------------------------------------
(* A claim never takes a device past the limit its pass has read, whatever *)
(* other triggers ask for passes meanwhile (realtime.gateway.ts:41-43).    *)
(* Rows a late report has made occupying again are not the claims' doing   *)
(* and are not counted.                                                    *)
ClaimWithinLimit(d) ==
    Held(d)' \subseteq Held(d) \/ \E p \in Passes : Cardinality(Held(d)') <= pass[p].limit
ClaimsRespectLimit == [][\A d \in Devices : ClaimWithinLimit(d)]_vars

(* A task passes from one device to another only by way of no device, so   *)
(* that it is never handed to two at once (realtime.gateway.ts:185-191).   *)
HandedOverOnlyWhenReleased ==
    [][\A t \in Tasks : row[t].device # NoDevice /\ row'[t].device # NoDevice
                            => row'[t].device = row[t].device]_vars

(* A cancelled task stays cancelled or is removed, unless a request that   *)
(* checked its status before it was cancelled writes now: no report, no    *)
(* claim, no disconnect brings it back.                                    *)
Revert(t) == row[t].status = "CANCELED" /\ row'[t].status \notin {"CANCELED", "NONE"}
StaleWrite(t) == \E r \in Requests : req[r].at = "update" /\ req[r].task = t
                                        /\ req[r].op # "cancel"
OnlyStaleWritesRevert == [][\A t \in Tasks : Revert(t) => StaleWrite(t)]_vars

(* "Cancelled manually, final" (003_task_control.sql:1-2).  It holds as    *)
(* long as the user's requests come one at a time.                         *)
CancelIsFinal == [][\A t \in Tasks : ~Revert(t)]_vars

(* Once nothing is in flight, no device that is online has a free slot     *)
(* while a task is queued, except for what `overlooked' names: a           *)
(* disconnect that requeued, a removal or a non-final report that freed a  *)
(* slot, and a pass that failed on a removed device, none of which asks    *)
(* for a pass.  Every other step that makes work or room does.             *)
Quiet ==
    /\ \A p \in Passes : pass[p].pc = "free"
    /\ \A r \in Requests : req[r].at = "idle"
    /\ \A t \in Tasks : chain[t] = <<>>
IdleDevice ==
    \E d \in Devices : /\ device[d] = "ONLINE"
                       /\ HasSlot(d, connection.limit)
                       /\ Queued # {}
WorkConserving ==
    Quiet /\ connection.type = "LOCAL_CLI" /\ ~overlooked => ~IdleDevice

-----------------------------------------------------------------------------
(* The devices are the holders of what their claims have given them.       *)
Holder(t) == IF row[t].status \in Occupying /\ ~row[t].revived THEN row[t].device ELSE NoDevice

(* The limit that the pass at work has read, 0 if none is at work.         *)
AtWork     == {p \in Passes : pass[p].pc \notin {"free", "read"}}
ReadBefore == IF AtWork = {} THEN 0 ELSE pass[CHOOSE p \in AtWork : TRUE].limit

Allocation == INSTANCE Allocator WITH
    Clients <- Tasks, Holders <- Devices, Nobody <- NoDevice, room <- ReadBefore,
    waiting <- Queued, holder <- [t \in Tasks |-> Holder(t)]

(* Whatever the handlers, reports, sessions and passes are in the middle   *)
(* of, the table hands tasks out as Allocator promises: a task gets to a   *)
(* device out of the queue only, to one device at a time, and to none that *)
(* has as many already as the limit allows which the pass at work has read *)
(* (realtime.gateway.ts:185-245).                                          *)
DispatchAllocates == Allocation!AllocSpec
=============================================================================
