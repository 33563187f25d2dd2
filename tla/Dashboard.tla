------------------------------ MODULE Dashboard ------------------------------
(***************************************************************************)
(* The project page of the web client: the list of tasks it shows, which   *)
(* three things write to - the answer to a GET of the whole list, the      *)
(* task:update events and the answers to the page's own requests - in      *)
(* whatever order they arrive.                                             *)
(*                                                                         *)
(* The server's side is the REST handlers of TasksService, one device that *)
(* is handed tasks and reports on them, and the events they emit: a write  *)
(* is one step and the event about it a later one, for between the two the *)
(* handler awaits something.  What was written is numbered, to tell the    *)
(* states of a task apart that look the same.                              *)
(***************************************************************************)
EXTENDS TasksService, Sequences

CONSTANTS
    Others,     \* bound: claims, reports and disconnects under way at once
    Received,   \* bound: the statuses devices report, among Reports
    Fetches,    \* bound: GETs of the list under way at once
    FirstFetch, \* the GET the page starts with
    MaxWrites,  \* bound: how often a task is written
    MaxEvents   \* bound: events on their way at once

ASSUME FirstFetchAssumption == FirstFetch \in Fetches /\ Received \subseteq Reports
ASSUME OthersAssumption     == Requests \cap Others = {}
ASSUME MaxWritesAssumption  == MaxWrites \in Nat

VARIABLES
    written,    \* history: how often the row of a task has been written
    telling,    \* telling[w]: the event w is about to emit
    wire,       \* events on their way to the browser
    fetch,      \* fetch[f]: a GET of the list
    answer,     \* answer[r]: what the page does when request r is answered
    shown,      \* tasks: what the page shows of each task
    newest      \* history: the latest state of a task the page has been given

pageVars == <<fetch, answer, shown, newest>>
dashVars == <<tableVars, req, written, telling, wire, pageVars>>

Seen      == [status : Statuses \cup {"NONE"}, nr : 0..MaxWrites]
NotListed == [status |-> "NONE", nr |-> 0]

Silent  == [event |-> "none"]
Refresh == [event |-> "refresh"]
Updates == [event : {"update"}, task : Tasks, seen : Seen]
Events  == Updates \cup {Refresh}

NoFetch  == [st |-> "idle"]
InFlight == [st |-> "asked"]
Fetch    == [st : {"read"}, list : [Tasks -> Seen]] \cup {NoFetch, InFlight}

NoAnswer == [then |-> "nothing"]
Reload   == [then |-> "reload"]
Answer   == [then : {"merge", "drop"}, task : Tasks, seen : Seen] \cup {NoAnswer, Reload}

DashInit ==
    /\ TableInit
    /\ TasksInit
    /\ written = [t \in Tasks |-> 0]
    /\ telling = [w \in Requests \cup Others |-> Silent]
    /\ wire    = <<>>
    /\ fetch   = [f \in Fetches |-> IF f = FirstFetch THEN InFlight ELSE NoFetch]
    /\ answer  = [r \in Requests |-> NoAnswer]
    /\ shown   = [t \in Tasks |-> NotListed]
    /\ newest  = [t \in Tasks |-> 0]

DashTypeOK ==
    /\ TableTypeOK
    /\ TasksTypeOK
    /\ written \in [Tasks -> 0..MaxWrites]
    /\ telling \in [Requests \cup Others -> Events \cup {Silent}]
    /\ wire    \in Seq(Events)
    /\ fetch   \in [Fetches -> Fetch]
    /\ answer  \in [Requests -> Answer]
    /\ shown   \in [Tasks -> Seen]
    /\ newest  \in [Tasks -> 0..MaxWrites]

-----------------------------------------------------------------------------
Now(t)    == [status |-> row[t].status,  nr |-> written[t]]
After(t)  == [status |-> row'[t].status, nr |-> written'[t]]
News(t)   == [event |-> "update", task |-> t, seen |-> After(t)]

Numbered(ts) ==
    /\ \A t \in ts : written[t] < MaxWrites
    /\ written' = [t \in Tasks |-> IF t \in ts THEN written[t] + 1 ELSE written[t]]

Free(r) == req[r].at = "idle" /\ answer[r] = NoAnswer /\ telling[r] = Silent

(* The page is given states of some tasks.                                 *)
Given(list) ==
    /\ shown'  = list
    /\ newest' = [t \in Tasks |-> IF list[t].nr > newest[t] THEN list[t].nr ELSE newest[t]]

(* loadTasks.                                                              *)
Ask == \E f \in Fetches : fetch[f] = NoFetch /\ fetch' = [fetch EXCEPT ![f] = InFlight]

-----------------------------------------------------------------------------
(* The requests the page makes, and what the server does with them.        *)

(* The buttons under a task.                                               *)
Offered(status) ==
    {op \in Ops : \/ op = "pause"  /\ status \in Waiting \cup Occupying
                  \/ op = "resume" /\ status = "PAUSED"
                  \/ op = "cancel" /\ status \in Waiting \cup Occupying \cup {"PAUSED"}
                  \/ op = "retry"  /\ status = "FAILED"}
OffersRemove(status) == status \in Finished

(* handleSubmit: the list is loaded once the task is there and routed.     *)
Submit(r) ==
    /\ Free(r)
    /\ Create(r)
    /\ Numbered({created'})
    /\ answer' = [answer EXCEPT ![r] = Reload]
    /\ UNCHANGED <<telling, wire, fetch, shown, newest>>

Click(r, op, t) ==
    /\ Free(r)
    /\ op \in Offered(shown[t].status)
    /\ Load(r, op, t)
    /\ UNCHANGED <<written, telling, wire, pageVars>>

UpdateTask(r) ==
    LET t == req[r].task
    IN  /\ Update(r)
        /\ Numbered({t})
        /\ IF Exists(t)
           THEN /\ telling' = [telling EXCEPT ![r] = News(t)]
                /\ answer' = [answer EXCEPT ![r] = [then |-> "merge", task |-> t, seen |-> After(t)]]
           ELSE UNCHANGED <<telling, answer>>
        /\ UNCHANGED <<wire, fetch, shown, newest>>

RouteTask(r) ==
    /\ telling[r] = Silent
    /\ Route(r)
    /\ UNCHANGED <<written, telling, wire, pageVars>>

DeleteTask(r, t) ==
    /\ Free(r)
    /\ OffersRemove(shown[t].status)
    /\ Remove(t)
    /\ Numbered({t})
    /\ answer' = [answer EXCEPT ![r] = [then |-> "drop", task |-> t, seen |-> NotListed]]
    /\ UNCHANGED <<telling, wire, fetch, shown, newest>>

(* The answer arrives.  That to an action is merged into the task if it is *)
(* still in the list, whatever the list has learnt meanwhile.              *)
Answered(r) ==
    LET a == answer[r]
    IN  /\ a # NoAnswer /\ req[r].at = "idle" /\ telling[r] = Silent
        /\ answer' = [answer EXCEPT ![r] = NoAnswer]
        /\ IF a = Reload
           THEN Ask /\ UNCHANGED <<shown, newest>>
           ELSE /\ Given([shown EXCEPT ![a.task] = IF @ = NotListed THEN @ ELSE a.seen])
                /\ UNCHANGED fetch
        /\ UNCHANGED <<tableVars, req, written, telling, wire>>

-----------------------------------------------------------------------------
(* The rest of the server.                                                 *)

Tell(w, event) == telling[w] = Silent /\ telling' = [telling EXCEPT ![w] = event]

HandOut(w, t, d) ==
    /\ row[t].status = "QUEUED"
    /\ row' = [row EXCEPT ![t] = Claimed(@, d)]
    /\ Numbered({t})
    /\ Tell(w, News(t))
    /\ UNCHANGED <<created, req, wire, pageVars>>

HearReport(w, t, rep) ==
    /\ rep \in Received
    /\ Writable(row[t]) /\ row[t].device # NoDevice
    /\ row' = [row EXCEPT ![t] = Reported(@, rep)]
    /\ Numbered({t})
    /\ Tell(w, News(t))
    /\ UNCHANGED <<created, req, wire, pageVars>>

(* A device that disconnects: the page learns only that something may have *)
(* changed.  (For one that held nothing, this is what a connecting device  *)
(* comes to as well.)                                                      *)
Disconnect(w, d) ==
    /\ row' = [t \in Tasks |-> IF t \in Occupied(d) THEN Requeued(row[t]) ELSE row[t]]
    /\ Numbered(Occupied(d))
    /\ Tell(w, Refresh)
    /\ UNCHANGED <<created, req, wire, pageVars>>

EmitEvent(w) ==
    /\ telling[w] # Silent /\ Len(wire) < MaxEvents
    /\ wire' = Append(wire, telling[w])
    /\ telling' = [telling EXCEPT ![w] = Silent]
    /\ UNCHANGED <<tableVars, req, written, pageVars>>

-----------------------------------------------------------------------------
(* The rest of the page.                                                   *)

(* listByProject reads the rows.                                           *)
ReadList(f) ==
    /\ fetch[f] = InFlight
    /\ fetch' = [fetch EXCEPT ![f] = [st |-> "read", list |-> [t \in Tasks |-> Now(t)]]]
    /\ UNCHANGED <<tableVars, req, written, telling, wire, answer, shown, newest>>

ListArrives(f) ==
    /\ fetch[f].st = "read"
    /\ Given(fetch[f].list)
    /\ fetch' = [fetch EXCEPT ![f] = NoFetch]
    /\ UNCHANGED <<tableVars, req, written, telling, wire, answer>>

(* onRefresh.  Mutant: the page does not listen.                           *)
Ignore    == UNCHANGED fetch
OnRefresh == Ask

(* onTaskUpdate: a task that is not in the list yet is added to it.        *)
OnEvent ==
    LET m == Head(wire)
    IN  /\ wire # <<>>
        /\ wire' = Tail(wire)
        /\ IF m = Refresh
           THEN OnRefresh /\ UNCHANGED <<shown, newest>>
           ELSE Given([shown EXCEPT ![m.task] = m.seen]) /\ UNCHANGED fetch
        /\ UNCHANGED <<tableVars, req, written, telling, answer>>

DashNext ==
    \/ \E r \in Requests : \/ Submit(r)
                           \/ \E op \in Ops, t \in Tasks : Click(r, op, t)
                           \/ UpdateTask(r)
                           \/ RouteTask(r)
                           \/ \E t \in Tasks : DeleteTask(r, t)
                           \/ Answered(r)
    \/ \E w \in Others : \/ \E t \in Tasks, d \in Devices : HandOut(w, t, d)
                         \/ \E t \in Tasks, rep \in Reports : HearReport(w, t, rep)
                         \/ \E d \in Devices : Disconnect(w, d)
    \/ \E w \in Requests \cup Others : EmitEvent(w)
    \/ \E f \in Fetches : ReadList(f) \/ ListArrives(f)
    \/ OnEvent

DashSpec == DashInit /\ [][DashNext]_dashVars

-----------------------------------------------------------------------------
(* Nothing is on its way to the page any more.                             *)
Settled ==
    /\ wire = <<>>
    /\ \A w \in Requests \cup Others : telling[w] = Silent
    /\ \A f \in Fetches : fetch[f] = NoFetch
    /\ \A r \in Requests : Free(r)

(* Every change of a task reaches the page, by an event, an answer or the  *)
(* list a refresh makes it fetch (page.tsx:50-70): nothing is written that *)
(* nobody tells it.  (It may have been given the change and have written   *)
(* an older state over it.)                                                *)
EveryChangeArrives ==
    Settled => \A t \in Tasks : Exists(t) => newest[t] = written[t]
=============================================================================
