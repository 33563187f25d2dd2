------------------------------ MODULE Gateway ------------------------------
(***************************************************************************)
(* RealtimeGateway: the socket sessions of the user's devices, the reports *)
(* they send, and the dispatcher that hands queued tasks to idle devices.  *)
(*                                                                         *)
(* Every await of a handler is a place where the others run, so a handler  *)
(* is one action per statement:                                            *)
(*   a session   connects, is identified by its token, marks its device    *)
(*               ONLINE; when its socket closes it marks the device        *)
(*               OFFLINE and requeues the device's tasks;                   *)
(*   a report    joins the promise chain of its task and is applied when   *)
(*               the one before it is through;                             *)
(*   a pass      of the dispatcher joins the promise chain of the user,    *)
(*               reads connection and devices, then per device counts,     *)
(*               claims and assigns, until a round assigns nothing.        *)
(* The composing module says who calls Dispatch besides the gateway.       *)
(***************************************************************************)
EXTENDS TaskTable, Connection, Sequences, FiniteSets

CONSTANTS
    Removable,  \* bound: the devices the user may remove
    Sessions,   \* bound: how many sockets the server keeps track of at once
    Received,   \* bound: the statuses the devices report, among Reports
    MaxReports, \* bound: reports received and not yet through, over all tasks
    Passes,     \* bound: dispatch passes waiting or running at once
    NoPass      \* a promise that has settled, Promise.resolve()

ASSUME RemovableAssumption == Removable \subseteq Devices
ASSUME ReceivedAssumption == Received \subseteq Reports
ASSUME NoPassAssumption == NoPass \notin Passes
ASSUME PassesAssumption == IsFiniteSet(Passes)

VARIABLES
    device,         \* device[d]: ONLINE, OFFLINE, or GONE once it is removed
    session,        \* session[s]: one socket and its two handlers
    chain,          \* taskUpdateChains: chain[t], the reports not yet applied
    dispatchChain,  \* dispatchChains: the last pass asked for, or NoPass
    pass,           \* pass[p]: one run of dispatchForUser
    overlooked      \* history: a step made work for a device and asked for no
                    \* pass, and none has started since

gatewayVars == <<device, session, chain, dispatchChain, pass, overlooked>>
dispatchVars == <<dispatchChain, pass>>

Session == [device     : Devices \cup {NoDevice},
            open       : BOOLEAN,
            connect    : {"find", "mark", "done"},
            disconnect : {"none", "mark", "requeue"}]
NoSession == [device |-> NoDevice, open |-> FALSE, connect |-> "done", disconnect |-> "none"]

(* `after' is the promise the pass waits for; `report' the task whose      *)
(* report waits for the pass, if one does.                                 *)
Pass == [pc     : {"free", "read", "devices", "count", "claim", "assign"},
         after  : Passes \cup {NoPass},
         report : Tasks \cup {NoTask},
         limit  : 0..MaxLimit,
         online : SUBSET Devices,   \* onlineDevices
         todo   : SUBSET Devices,   \* those this round has yet to visit
         again  : BOOLEAN,          \* assignedSomething
         dev    : Devices \cup {NoDevice},
         task   : Tasks \cup {NoTask}]
NoRun == [pc |-> "free", after |-> NoPass, report |-> NoTask, limit |-> 0, online |-> {},
          todo |-> {}, again |-> FALSE, dev |-> NoDevice, task |-> NoTask]

GatewayInit ==
    /\ device  = [d \in Devices |-> "OFFLINE"]
    /\ session = [s \in Sessions |-> NoSession]
    /\ chain   = [t \in Tasks |-> <<>>]
    /\ dispatchChain = NoPass
    /\ pass    = [p \in Passes |-> NoRun]
    /\ overlooked = FALSE

GatewayTypeOK ==
    /\ device  \in [Devices -> {"ONLINE", "OFFLINE", "GONE"}]
    /\ session \in [Sessions -> Session]
    /\ chain   \in [Tasks -> Seq(Received)]
    /\ dispatchChain \in Passes \cup {NoPass}
    /\ pass    \in [Passes -> Pass]
    /\ overlooked \in BOOLEAN

Identified(s) == session[s].device # NoDevice /\ session[s].connect # "find"
Reachable(d)  == \E s \in Sessions : session[s].device = d /\ session[s].open /\ Identified(s)

-----------------------------------------------------------------------------
(* tryDispatchForUser: the pass asked for runs once the last one asked for *)
(* before it has settled.                                                  *)
Dispatch(t) ==
    \E p \in Passes :
        /\ pass[p].pc = "free"
        /\ pass' = [pass EXCEPT ![p] = [NoRun EXCEPT !.pc = "read", !.after = dispatchChain,
                                                     !.report = t]]
        /\ dispatchChain' = p

(* Mutant: passes for one user run side by side.                           *)
AnyTurn(p) == pass[p].pc # "free"
Turn(p)    == pass[p].pc # "free" /\ pass[p].after = NoPass

(* The pass settles, by returning or by failing: the next one may run, and *)
(* the report that waited for it is through.                               *)
Settle(p) ==
    /\ pass' = [q \in Passes |-> IF q = p THEN NoRun
                                 ELSE IF pass[q].after = p THEN [pass[q] EXCEPT !.after = NoPass]
                                 ELSE pass[q]]
    /\ dispatchChain' = IF dispatchChain = p THEN NoPass ELSE dispatchChain
    /\ chain' = IF pass[p].report = NoTask THEN chain
                ELSE [chain EXCEPT ![pass[p].report] = Tail(@)]

Step(p, new) ==
    /\ pass' = [pass EXCEPT ![p] = new]
    /\ UNCHANGED <<dispatchChain, chain>>

(* The next device of the round; after the last one another round if this  *)
(* one has assigned something, and the end of the pass if not.             *)
Proceed(p, todo, again) ==
    LET going == [pass[p] EXCEPT !.pc = "count", !.dev = NoDevice, !.task = NoTask]
    IN  IF todo # {}
        THEN Step(p, [going EXCEPT !.todo = todo, !.again = again])
        ELSE IF again
        THEN Step(p, [going EXCEPT !.todo = pass[p].online, !.again = FALSE])
        ELSE Settle(p)

ReadConnection(p) ==
    /\ Turn(p) /\ pass[p].pc = "read"
    /\ IF connection.type = "LOCAL_CLI"
       THEN Step(p, [pass[p] EXCEPT !.pc = "devices", !.limit = connection.limit])
       ELSE Settle(p)
    /\ overlooked' = FALSE
    /\ UNCHANGED <<device, session, tableVars>>

(* The online devices, and the first round over them.                      *)
ReadDevices(p) ==
    LET online == {d \in Devices : device[d] = "ONLINE"}
    IN  /\ Turn(p) /\ pass[p].pc = "devices"
        /\ IF online # {}
           THEN Step(p, [pass[p] EXCEPT !.pc = "count", !.online = online, !.todo = online])
           ELSE Settle(p)
        /\ UNCHANGED <<device, session, overlooked, tableVars>>

HasSlot(d, limit) == Cardinality(Occupied(d)) < limit

(* A device of the round, in whatever order the query returned them.       *)
CountSlots(p, d) ==
    /\ Turn(p) /\ pass[p].pc = "count" /\ d \in pass[p].todo
    /\ IF HasSlot(d, pass[p].limit)
       THEN Step(p, [pass[p] EXCEPT !.pc = "claim", !.dev = d, !.todo = @ \ {d}])
       ELSE Proceed(p, pass[p].todo \ {d}, pass[p].again)
    /\ UNCHANGED <<device, session, overlooked, tableVars>>

(* The subselect of the claim.  Mutant: it looks at tasks, not at QUEUED   *)
(* tasks.                                                                  *)
AnyClaimable(skipped) == {t \in Tasks : row[t].status \in {"QUEUED", "RUNNING"}} \ skipped
Claimable(skipped)    == Queued \ skipped

(* The claim skips the locked rows the composing module names (SKIP        *)
(* LOCKED).  One for a device that has been removed violates the foreign   *)
(* key, and the pass fails: the work it would have handed out is           *)
(* overlooked.                                                             *)
Claim(p, skipped) ==
    LET d == pass[p].dev
    IN  /\ Turn(p) /\ pass[p].pc = "claim"
        /\ IF Claimable(skipped) = {}
           THEN Settle(p) /\ UNCHANGED <<row, overlooked>>
           ELSE IF device[d] = "GONE"
           THEN Settle(p) /\ UNCHANGED row /\ overlooked' = TRUE
           ELSE \E t \in Claimable(skipped) :
                    /\ \A u \in Claimable(skipped) : t <= u
                    /\ row' = [row EXCEPT ![t] = Claimed(@, d)]
                    /\ Step(p, [pass[p] EXCEPT !.pc = "assign", !.task = t])
                    /\ UNCHANGED overlooked
        /\ UNCHANGED <<device, session, created>>

(* After the project has been read, task:assign goes to the device's room  *)
(* (to nobody, if no socket is in it) and the round goes on.               *)
SendAssign(p) ==
    /\ Turn(p) /\ pass[p].pc = "assign"
    /\ Proceed(p, pass[p].todo, TRUE)
    /\ UNCHANGED <<device, session, overlooked, tableVars>>

-----------------------------------------------------------------------------
(* A device opens a socket; findByToken is on its way.                     *)
Connect(s, d) ==
    /\ session[s] = NoSession
    /\ session' = [session EXCEPT ![s] = [device |-> d, open |-> TRUE,
                                          connect |-> "find", disconnect |-> "none"]]
    /\ UNCHANGED <<device, chain, dispatchVars, overlooked, tableVars>>

(* findByToken is back: the socket has its identity and its rooms.  An     *)
(* unknown token closes it.                                                *)
Identify(s) ==
    /\ session[s].connect = "find"
    /\ session' = [session EXCEPT ![s] = IF device[session[s].device] = "GONE" THEN NoSession
                                         ELSE [@ EXCEPT !.connect = "mark"]]
    /\ UNCHANGED <<device, chain, dispatchVars, overlooked, tableVars>>

(* setStatus.  Mutant: a device that was online once is never OFFLINE.     *)
StaysOnline(d, status) ==
    device' = [device EXCEPT ![d] = IF @ = "GONE" THEN @ ELSE "ONLINE"]
SetStatus(d, status) ==
    device' = [device EXCEPT ![d] = IF @ = "GONE" THEN @ ELSE status]

(* A session that is through with both handlers is forgotten.              *)
Settled(x) == IF ~x.open /\ x.connect = "done" /\ x.disconnect = "none" THEN NoSession ELSE x

MarkOnline(s) ==
    /\ session[s].connect = "mark"
    /\ SetStatus(session[s].device, "ONLINE")
    /\ session' = [session EXCEPT ![s] = Settled([@ EXCEPT !.connect = "done"])]
    /\ Dispatch(NoTask)
    /\ UNCHANGED <<chain, overlooked, tableVars>>

(* The socket closes.  handleDisconnect does nothing for a socket without  *)
(* an identity, and handleConnection goes on all the same.                 *)
Drop(s) ==
    /\ session[s].open
    /\ session' = [session EXCEPT ![s].open = FALSE,
                                  ![s].disconnect = IF Identified(s) THEN "mark" ELSE "none"]
    /\ UNCHANGED <<device, chain, dispatchVars, overlooked, tableVars>>

MarkOffline(s) ==
    /\ session[s].disconnect = "mark"
    /\ SetStatus(session[s].device, "OFFLINE")
    /\ session' = [session EXCEPT ![s].disconnect = "requeue"]
    /\ UNCHANGED <<chain, dispatchVars, overlooked, tableVars>>

(* The device's tasks go back into the queue; no pass is asked for.        *)
Requeue(s) ==
    LET d == session[s].device
    IN  /\ session[s].disconnect = "requeue"
        /\ row' = [t \in Tasks |-> IF t \in Occupied(d) THEN Requeued(row[t]) ELSE row[t]]
        /\ overlooked' = (overlooked \/ Occupied(d) # {})
        /\ session' = [session EXCEPT ![s] = Settled([@ EXCEPT !.disconnect = "none"])]
        /\ UNCHANGED <<device, chain, dispatchVars, created>>

-----------------------------------------------------------------------------
Backlog == UNION {{t} \X DOMAIN chain[t] : t \in Tasks}

(* runSerialized.  Mutant: the report does not wait for those before it.   *)
Overtaking(reports, rep) == <<rep>> \o reports
Joined(reports, rep)     == Append(reports, rep)

(* agent:status on an identified socket: the report joins the chain of its *)
(* task.  (One on a socket without an identity yet is ignored.)            *)
Receive(s, t, rep) ==
    /\ session[s].open /\ Identified(s)
    /\ rep \in Received
    /\ Cardinality(Backlog) < MaxReports
    /\ chain' = [chain EXCEPT ![t] = Joined(@, rep)]
    /\ UNCHANGED <<device, session, dispatchVars, overlooked, tableVars>>

(* The head of a chain whose UPDATE is done waits for the pass it asked    *)
(* for.                                                                    *)
AwaitsPass(t) == \E p \in Passes : pass[p].report = t

(* Mutant: the pass at the end of a task is forgotten.                     *)
NeverDispatches(t, rep) == FALSE
DispatchesFor(t, rep)   == rep \in Final /\ Writable(row[t])

(* A report that ends a slot's occupation and is not final is overlooked.  *)
FreesSilently(t, rep) == row[t].status \in Occupying /\ rep = "PAUSED"

ApplyReport(t) ==
    LET rep == Head(chain[t])
    IN  /\ chain[t] # <<>> /\ ~AwaitsPass(t)
        /\ row' = [row EXCEPT ![t] = Reported(@, rep)]
        /\ overlooked' = (overlooked \/ FreesSilently(t, rep))
        /\ IF DispatchesFor(t, rep)
           THEN Dispatch(t) /\ UNCHANGED chain
           ELSE chain' = [chain EXCEPT ![t] = Tail(@)] /\ UNCHANGED dispatchVars
        /\ UNCHANGED <<device, session, created>>

(* DELETE /devices/:id: the row goes and its tasks forget it.  Its socket, *)
(* if it has one, stays open.                                              *)
RemoveDevice(d) ==
    /\ d \in Removable
    /\ device[d] # "GONE"
    /\ device' = [device EXCEPT ![d] = "GONE"]
    /\ row' = [t \in Tasks |-> IF row[t].device = d THEN DeviceForgotten(row[t]) ELSE row[t]]
    /\ UNCHANGED <<session, chain, dispatchVars, overlooked, created>>
=============================================================================
