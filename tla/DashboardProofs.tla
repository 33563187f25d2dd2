--------------------------- MODULE DashboardProofs ---------------------------
(***************************************************************************)
(* What Dashboard guarantees for any number of tasks, requests, events and *)
(* fetches, in whatever order they reach the page.                         *)
(*                                                                         *)
(* Every state of an existing task that the page has not been given yet is *)
(* carried: by an event that has yet to be sent or to arrive, or by a      *)
(* fetch of the list that is made, or is to be made.  A step may hand the  *)
(* state from one carrier to the next but not drop it.                     *)
(***************************************************************************)
EXTENDS Dashboard, TasksServiceProofs

(* Nobody tells of a state that has not been written.                      *)
PastEvent(m)  == m.event = "update" => m.seen.nr <= written[m.task]
PastList(l)   == \A t \in Tasks : l[t].nr <= written[t]
PastFetch(x)  == x.st = "read" => PastList(x.list)
PastAnswer(a) == a.then \in {"merge", "drop"} => a.seen.nr <= written[a.task]

NothingAhead ==
    /\ \A w \in Requests \cup Others : PastEvent(telling[w])
    /\ \A k \in DOMAIN wire : PastEvent(wire[k])
    /\ \A f \in Fetches : PastFetch(fetch[f])
    /\ \A r \in Requests : PastAnswer(answer[r])
    /\ PastList(shown)
    /\ \A t \in Tasks : newest[t] <= written[t]

(* A request that is about to write has told and answered what came before.*)
WritesWhenSilent ==
    \A r \in Requests : req[r].at = "update" => telling[r] = Silent /\ answer[r] = NoAnswer

DashInv == DashTypeOK /\ TasksSound /\ NothingAhead /\ WritesWhenSilent

-----------------------------------------------------------------------------
(* The kinds of records in the page's variables tell themselves apart.     *)
LEMMA EventKinds ==
    /\ Silent.event = "none" /\ Refresh.event = "refresh"
    /\ \A m \in Events \cup {Silent} : /\ m.event = "refresh" => m = Refresh
                                       /\ m.event = "none" => m = Silent
                                       /\ m.event = "update" => m \in Updates
    /\ \A m \in Updates : m.event = "update" /\ m.task \in Tasks /\ m.seen \in Seen
  BY DEF Events, Updates, Silent, Refresh

(* The three states of a GET of the list.                                  *)
LEMMA FetchKinds ==
    /\ NoFetch.st = "idle" /\ InFlight.st = "asked" /\ NoFetch \in Fetch /\ InFlight \in Fetch
    /\ \A x \in Fetch : /\ x.st = "idle" => x = NoFetch
                        /\ x.st = "asked" => x = InFlight
                        /\ x.st = "read" => x.list \in [Tasks -> Seen]
    /\ \A l \in [Tasks -> Seen] : /\ [st |-> "read", list |-> l] \in Fetch
                                  /\ [st |-> "read", list |-> l].st = "read"
                                  /\ [st |-> "read", list |-> l].list = l
  BY DEF Fetch, NoFetch, InFlight

(* The answers a request of the page may get, and what it does with them.  *)
LEMMA AnswerKinds ==
    /\ NoAnswer.then = "nothing" /\ Reload.then = "reload"
    /\ NoAnswer \in Answer /\ Reload \in Answer
    /\ \A a \in Answer : /\ a.then = "reload" => a = Reload
                         /\ a.then = "nothing" => a = NoAnswer
                         /\ a # Reload /\ a # NoAnswer => /\ a.then \in {"merge", "drop"}
                                                          /\ a.task \in Tasks /\ a.seen \in Seen
    /\ \A t \in Tasks, s \in Seen : /\ [then |-> "merge", task |-> t, seen |-> s] \in Answer
                                    /\ [then |-> "drop", task |-> t, seen |-> s] \in Answer
  BY DEF Answer, NoAnswer, Reload

(* A task that is not listed was written before any write.                 *)
LEMMA NotListedSeen == NotListed \in Seen /\ NotListed.nr = 0
  BY MaxWritesAssumption DEF NotListed, Seen

-----------------------------------------------------------------------------
(* What a step may do to each variable.                                    *)
Tellers == Requests \cup Others

(* The types the invariant stands for, one by one.                         *)
LEMMA DashInvTypes ==
    ASSUME DashInv
    PROVE  /\ TasksInv /\ row \in [Tasks -> Row] /\ created \in 0..MaxTasks
           /\ req \in [Requests -> Request]
           /\ written \in [Tasks -> 0..MaxWrites]
           /\ telling \in [Tellers -> Events \cup {Silent}]
           /\ wire \in Seq(Events) /\ fetch \in [Fetches -> Fetch] /\ answer \in [Requests -> Answer]
           /\ shown \in [Tasks -> Seen] /\ newest \in [Tasks -> 0..MaxWrites]
  BY DEF DashInv, DashTypeOK, TasksInv, TableTypeOK, TasksTypeOK, Tellers

(* A statement numbers the writes of the rows it changes.                  *)
LEMMA NumberedGrows ==
    ASSUME written \in [Tasks -> 0..MaxWrites], NEW ts \in SUBSET Tasks, Numbered(ts)
    PROVE  /\ written' \in [Tasks -> 0..MaxWrites]
           /\ \A t \in Tasks : written'[t] = IF t \in ts THEN written[t] + 1 ELSE written[t]
  BY MaxWritesAssumption DEF Numbered

(* The writes of the other side keep what is known of the table.           *)
LEMMA OthersKeepTasksInv ==
    ASSUME TasksInv, UNCHANGED <<created, req>>, row' \in [Tasks -> Row],
           \A t \in Tasks : Exists(t)' => Exists(t)
    PROVE  TasksInv'
  BY DEF TasksInv, TableTypeOK, TasksTypeOK, TasksSound

TableStep ==
    /\ TasksInv' /\ written' \in [Tasks -> 0..MaxWrites]
    /\ \A t \in Tasks : written[t] <= written'[t]

(* What a step writes into the table, and which number it gives to the     *)
(* write.                                                                  *)
LEMMA TableAnatomy ==
    ASSUME DashInv, [DashNext]_dashVars
    PROVE  TableStep
<1>0. /\ TasksInv /\ row \in [Tasks -> Row] /\ created \in 0..MaxTasks
      /\ written \in [Tasks -> 0..MaxWrites]
  BY DashInvTypes
<1>a. ASSUME TasksInv', NEW ts \in SUBSET Tasks, Numbered(ts) PROVE TableStep
  BY <1>0, <1>a, NumberedGrows DEF TableStep
<1>b. ASSUME TasksInv', UNCHANGED written PROVE TableStep
  BY <1>0, <1>b DEF TableStep
<1>1. ASSUME NEW r \in Requests, Submit(r) PROVE TableStep
  <2>1. TasksInv' /\ created' \in Tasks
    BY <1>0, <1>1, CreateKeepsTasksInv DEF Submit
  <2>q. QED BY <1>1, <1>a, <2>1 DEF Submit
<1>2. ASSUME NEW r \in Requests, NEW op \in Ops, NEW t \in Tasks, Click(r, op, t) PROVE TableStep
  BY <1>0, <1>2, <1>b, LoadKeepsTasksInv DEF Click
<1>3. ASSUME NEW r \in Requests, UpdateTask(r) PROVE TableStep
  <2>1. TasksInv' /\ req[r].task \in Tasks
    BY <1>0, <1>3, UpdateKeepsTasksInv DEF UpdateTask
  <2>q. QED BY <1>3, <1>a, <2>1 DEF UpdateTask
<1>4. ASSUME NEW r \in Requests, RouteTask(r) PROVE TableStep
  BY <1>0, <1>4, <1>b, RouteKeepsTasksInv DEF RouteTask
<1>5. ASSUME NEW r \in Requests, NEW t \in Tasks, DeleteTask(r, t) PROVE TableStep
  BY <1>0, <1>5, <1>a, RemoveKeepsTasksInv DEF DeleteTask
<1>6. ASSUME NEW w \in Others, NEW t \in Tasks, NEW d \in Devices, HandOut(w, t, d) PROVE TableStep
  <2>1. row' = [row EXCEPT ![t] = Claimed(@, d)] /\ Claimed(row[t], d) \in Row
    BY <1>0, <1>6, RowTyped DEF HandOut
  <2>2. row' \in [Tasks -> Row] /\ \A u \in Tasks : Exists(u)' => Exists(u)
    BY <1>0, <1>6, <2>1 DEF HandOut, Exists
  <2>3. TasksInv'
    BY <1>0, <1>6, <2>2, OthersKeepTasksInv DEF HandOut
  <2>q. QED BY <1>6, <1>a, <2>3 DEF HandOut
<1>7. ASSUME NEW w \in Others, NEW t \in Tasks, NEW rep \in Reports, HearReport(w, t, rep)
      PROVE  TableStep
  <2>1. row' = [row EXCEPT ![t] = Reported(@, rep)] /\ Reported(row[t], rep) \in Row
    BY <1>0, <1>7, RowTyped DEF HearReport
  <2>2. row' \in [Tasks -> Row] /\ \A u \in Tasks : Exists(u)' => Exists(u)
    BY <1>0, <1>7, <2>1 DEF HearReport, Exists, Writable
  <2>3. TasksInv'
    BY <1>0, <1>7, <2>2, OthersKeepTasksInv DEF HearReport
  <2>q. QED BY <1>7, <1>a, <2>3 DEF HearReport
<1>8. ASSUME NEW w \in Others, NEW d \in Devices, Disconnect(w, d) PROVE TableStep
  <2>1. /\ row' = [t \in Tasks |-> IF t \in Occupied(d) THEN Requeued(row[t]) ELSE row[t]]
        /\ \A t \in Tasks : Requeued(row[t]) \in Row
    BY <1>0, <1>8, RowTyped DEF Disconnect
  <2>2. row' \in [Tasks -> Row] /\ \A u \in Tasks : Exists(u)' => Exists(u)
    BY <1>0, <2>1 DEF Exists, Occupied, Occupying
  <2>3. TasksInv'
    BY <1>0, <1>8, <2>2, OthersKeepTasksInv DEF Disconnect
  <2>4. Occupied(d) \in SUBSET Tasks
    BY DEF Occupied
  <2>q. QED BY <1>8, <1>a, <2>3, <2>4 DEF Disconnect
<1>9. ASSUME UNCHANGED <<tableVars, req, written>> PROVE TableStep
  <2>1. TasksInv'
    BY <1>0, <1>9, OthersKeepTasksInv DEF tableVars, Exists
  <2>q. QED BY <1>9, <1>b, <2>1
<1>q. QED
  BY <1>1, <1>2, <1>3, <1>4, <1>5, <1>6, <1>7, <1>8, <1>9
  DEF DashNext, Answered, EmitEvent, ReadList, ListArrives, OnEvent, dashVars

(* A state of a task that is told after the step.                          *)
LEMMA AfterSeen ==
    ASSUME TableStep, NEW t \in Tasks
    PROVE  /\ After(t) \in Seen /\ After(t).nr = written'[t] /\ Now(t)' = After(t)
           /\ News(t) \in Updates /\ News(t).task = t /\ News(t).seen = After(t)
           /\ News(t).event = "update"
<1>1. row'[t].status \in Statuses \cup {"NONE"} /\ written'[t] \in 0..MaxWrites
  BY DEF TableStep, TasksInv, TableTypeOK, Row
<1>2. After(t) \in Seen
  BY <1>1 DEF After, Seen
<1>q. QED BY <1>2 DEF After, Now, News, Updates

-----------------------------------------------------------------------------
TellStep ==
    /\ telling' = [w \in Tellers |-> telling'[w]]
    /\ \A w \in Tellers : \/ telling'[w] \in {telling[w], Silent, Refresh}
                          \/ \E t \in Tasks : telling'[w] = News(t)

(* What a step leaves to be emitted after its await.                       *)
LEMMA TellAnatomy ==
    ASSUME DashInv, [DashNext]_dashVars
    PROVE  TellStep
<1>0. telling \in [Tellers -> Events \cup {Silent}] /\ TasksInv
  BY DashInvTypes
<1>1. ASSUME NEW w \in Tellers, NEW m, telling' = [telling EXCEPT ![w] = m],
             m \in {Silent, Refresh} \/ \E t \in Tasks : m = News(t)
      PROVE  TellStep
  BY <1>0, <1>1 DEF TellStep
<1>2. ASSUME UNCHANGED telling PROVE TellStep
  BY <1>0, <1>2 DEF TellStep
<1>3. ASSUME NEW r \in Requests, UpdateTask(r) PROVE TellStep
  <2>1. req[r].task \in Tasks
    BY <1>0, <1>3, UpdateKeepsTasksInv DEF UpdateTask
  <2>q. QED BY <1>1, <1>2, <1>3, <2>1 DEF UpdateTask, Tellers
<1>4. ASSUME NEW w \in Others,
             \/ \E t \in Tasks, d \in Devices : HandOut(w, t, d)
             \/ \E t \in Tasks, rep \in Reports : HearReport(w, t, rep)
             \/ \E d \in Devices : Disconnect(w, d)
      PROVE  TellStep
  <2>1. \/ \E t \in Tasks : telling' = [telling EXCEPT ![w] = News(t)]
        \/ telling' = [telling EXCEPT ![w] = Refresh]
    BY <1>4 DEF HandOut, HearReport, Disconnect, Tell
  <2>q. QED BY <1>1, <1>4, <2>1 DEF Tellers
<1>5. ASSUME NEW w \in Tellers, EmitEvent(w) PROVE TellStep
  BY <1>1, <1>5 DEF EmitEvent
<1>q. QED
  BY <1>2, <1>3, <1>4, <1>5
  DEF DashNext, Submit, Click, RouteTask, DeleteTask, Answered, ReadList, ListArrives, OnEvent,
      dashVars, pageVars, Tellers

WireStep ==
    \/ UNCHANGED wire
    \/ \E w \in Tellers : telling[w] # Silent /\ wire' = Append(wire, telling[w])
    \/ wire # <<>> /\ wire' = Tail(wire)

(* The socket's queue grows at its end and is read at its head.            *)
LEMMA WireAnatomy ==
    ASSUME [DashNext]_dashVars
    PROVE  WireStep
<1>1. ASSUME NEW w \in Tellers, EmitEvent(w) PROVE WireStep
  BY <1>1 DEF EmitEvent, WireStep
<1>2. CASE OnEvent
  BY <1>2 DEF OnEvent, WireStep
<1>3. ASSUME UNCHANGED wire PROVE WireStep
  BY <1>3 DEF WireStep
<1>q. QED
  BY <1>1, <1>2, <1>3
  DEF DashNext, Submit, Click, UpdateTask, RouteTask, DeleteTask, Answered, HandOut, HearReport,
      Disconnect, ReadList, ListArrives, dashVars, pageVars, Tellers

FetchStep ==
    /\ fetch' = [f \in Fetches |-> fetch'[f]]
    /\ \A f \in Fetches : \/ fetch'[f] \in {fetch[f], NoFetch, InFlight}
                          \/ /\ fetch'[f] = [st |-> "read", list |-> [t \in Tasks |-> Now(t)]]
                             /\ UNCHANGED <<row, written>>

(* A GET of the list is asked, read by the server, and answered.           *)
LEMMA FetchAnatomy ==
    ASSUME DashInv, [DashNext]_dashVars
    PROVE  FetchStep
<1>0. fetch \in [Fetches -> Fetch]
  BY DashInvTypes
<1>1. ASSUME UNCHANGED fetch PROVE FetchStep
  BY <1>0, <1>1 DEF FetchStep
<1>2. CASE Ask
  BY <1>0, <1>2 DEF Ask, FetchStep
<1>3. ASSUME NEW f \in Fetches, ReadList(f) PROVE FetchStep
  BY <1>0, <1>3 DEF ReadList, FetchStep, tableVars
<1>4. ASSUME NEW f \in Fetches, ListArrives(f) PROVE FetchStep
  BY <1>0, <1>4 DEF ListArrives, FetchStep
<1>5. CASE OnEvent
  BY <1>1, <1>2, <1>5 DEF OnEvent, OnRefresh
<1>6. ASSUME NEW r \in Requests, Answered(r) PROVE FetchStep
  BY <1>1, <1>2, <1>6 DEF Answered
<1>q. QED
  BY <1>1, <1>3, <1>4, <1>5, <1>6
  DEF DashNext, Submit, Click, UpdateTask, RouteTask, DeleteTask, HandOut, HearReport,
      Disconnect, EmitEvent, dashVars, pageVars

AnswerStep ==
    /\ answer' = [r \in Requests |-> answer'[r]]
    /\ \A r \in Requests :
          \/ answer'[r] \in {answer[r], NoAnswer, Reload}
          \/ \E t \in Tasks : \/ answer'[r] = [then |-> "merge", task |-> t, seen |-> After(t)]
                              \/ answer'[r] = [then |-> "drop", task |-> t, seen |-> NotListed]

(* A request's answer is what its write has left in the row.               *)
LEMMA AnswerAnatomy ==
    ASSUME DashInv, [DashNext]_dashVars
    PROVE  AnswerStep
<1>0. answer \in [Requests -> Answer] /\ TasksInv
  BY DashInvTypes
<1>1. ASSUME UNCHANGED answer PROVE AnswerStep
  BY <1>0, <1>1 DEF AnswerStep
<1>2. ASSUME NEW r \in Requests, NEW a, answer' = [answer EXCEPT ![r] = a],
             \/ a \in {NoAnswer, Reload}
             \/ \E t \in Tasks : \/ a = [then |-> "merge", task |-> t, seen |-> After(t)]
                                 \/ a = [then |-> "drop", task |-> t, seen |-> NotListed]
      PROVE  AnswerStep
  BY <1>0, <1>2 DEF AnswerStep
<1>3. ASSUME NEW r \in Requests, Submit(r) PROVE AnswerStep
  BY <1>2, <1>3 DEF Submit
<1>4. ASSUME NEW r \in Requests, UpdateTask(r) PROVE AnswerStep
  <2>1. req[r].task \in Tasks
    BY <1>0, <1>4, UpdateKeepsTasksInv DEF UpdateTask
  <2>q. QED BY <1>1, <1>2, <1>4, <2>1 DEF UpdateTask
<1>5. ASSUME NEW r \in Requests, NEW t \in Tasks, DeleteTask(r, t) PROVE AnswerStep
  BY <1>2, <1>5 DEF DeleteTask
<1>6. ASSUME NEW r \in Requests, Answered(r) PROVE AnswerStep
  BY <1>2, <1>6 DEF Answered
<1>q. QED
  BY <1>1, <1>3, <1>4, <1>5, <1>6
  DEF DashNext, Click, RouteTask, HandOut, HearReport, Disconnect, EmitEvent, ReadList,
      ListArrives, OnEvent, dashVars, pageVars

PageStep ==
    \/ UNCHANGED <<shown, newest>>
    \/ \E list \in [Tasks -> Seen] : PastList(list) /\ Given(list)

(* The head of the socket's queue, and the rest.                           *)
LEMMA HeadOfWire ==
    ASSUME DashInv, wire # <<>>
    PROVE  /\ Head(wire) \in Events /\ PastEvent(Head(wire))
           /\ 1 \in DOMAIN wire /\ Head(wire) = wire[1]
           /\ Tail(wire) \in Seq(Events)
           /\ \A k \in DOMAIN wire : k # 1 => k - 1 \in DOMAIN Tail(wire) /\ Tail(wire)[k - 1] = wire[k]
           /\ \A k \in DOMAIN Tail(wire) : k + 1 \in DOMAIN wire /\ Tail(wire)[k] = wire[k + 1]
<1>1. wire \in Seq(Events)
  BY DashInvTypes
<1>2. /\ 1 \in DOMAIN wire /\ Head(wire) = wire[1] /\ Head(wire) \in Events
      /\ Tail(wire) \in Seq(Events)
  BY <1>1
<1>3. PastEvent(wire[1])
  BY <1>2 DEF DashInv, NothingAhead
<1>4. Len(wire) \in Nat /\ DOMAIN wire = 1..Len(wire) /\ Len(Tail(wire)) = Len(wire) - 1
      /\ DOMAIN Tail(wire) = 1..(Len(wire) - 1)
  BY <1>1
<1>5. \A k \in 1..(Len(wire) - 1) : Tail(wire)[k] = wire[k + 1]
  BY <1>1
<1>q. QED BY <1>2, <1>3, <1>4, <1>5

(* What the page shows changes by an event, a list or an answer only.      *)
LEMMA PageAnatomy ==
    ASSUME DashInv, [DashNext]_dashVars
    PROVE  PageStep
<1>0. /\ fetch \in [Fetches -> Fetch] /\ answer \in [Requests -> Answer]
      /\ shown \in [Tasks -> Seen] /\ PastList(shown)
  BY DashInvTypes DEF DashInv, NothingAhead
<1>1. ASSUME NEW t \in Tasks, NEW s \in Seen, s.nr <= written[t], Given([shown EXCEPT ![t] = s])
      PROVE  PageStep
  BY <1>0, <1>1 DEF PageStep, PastList
<1>2. ASSUME NEW r \in Requests, Answered(r) PROVE PageStep
  <2>1. CASE answer[r] = Reload
    BY <1>2, <2>1 DEF Answered, PageStep
  <2>2. CASE answer[r] # Reload
    <3>1. /\ answer[r].task \in Tasks /\ answer[r].seen \in Seen
          /\ answer[r].seen.nr <= written[answer[r].task]
      BY <1>0, <1>2, <2>2, AnswerKinds DEF Answered, DashInv, NothingAhead, PastAnswer
    <3>2. Given([shown EXCEPT ![answer[r].task] = IF @ = NotListed THEN @ ELSE answer[r].seen])
      BY <1>2, <2>2 DEF Answered
    <3>3. /\ shown[answer[r].task] \in Seen
          /\ shown[answer[r].task].nr <= written[answer[r].task]
      BY <1>0, <3>1 DEF PastList
    <3>q. QED BY <1>1, <3>1, <3>2, <3>3
  <2>q. QED BY <2>1, <2>2
<1>3. ASSUME NEW f \in Fetches, ListArrives(f) PROVE PageStep
  <2>1. fetch[f].list \in [Tasks -> Seen] /\ PastList(fetch[f].list)
    BY <1>0, <1>3, FetchKinds DEF ListArrives, DashInv, NothingAhead, PastFetch
  <2>q. QED BY <1>3, <2>1 DEF ListArrives, PageStep
<1>4. CASE OnEvent
  <2>1. Head(wire) \in Events /\ PastEvent(Head(wire))
    BY <1>4, HeadOfWire DEF OnEvent
  <2>2. CASE Head(wire) = Refresh
    BY <1>4, <2>2 DEF OnEvent, PageStep
  <2>3. CASE Head(wire) # Refresh
    <3> DEFINE m == Head(wire)
    <3>1. m \in Updates
      BY <2>1, <2>3 DEF Events
    <3>2. m.task \in Tasks /\ m.seen \in Seen /\ m.seen.nr <= written[m.task]
      BY <2>1, <3>1, EventKinds DEF PastEvent
    <3>3. Given([shown EXCEPT ![m.task] = m.seen])
      BY <1>4, <2>3 DEF OnEvent
    <3>q. QED BY <1>1, <3>2, <3>3
  <2>q. QED BY <2>2, <2>3
<1>q. QED
  BY <1>2, <1>3, <1>4
  DEF DashNext, Submit, Click, UpdateTask, RouteTask, DeleteTask, HandOut, HearReport, Disconnect,
      EmitEvent, ReadList, dashVars, pageVars, PageStep

-----------------------------------------------------------------------------
(* The invariant holds at the start.                                       *)
LEMMA DashInvInit == DashInit => DashInv
<1> SUFFICES ASSUME DashInit PROVE DashInv
  OBVIOUS
<1>1. TasksInv
  BY TasksInvInit DEF DashInit
<1>2. NotListed \in Seen /\ NotListed.nr = 0 /\ 0 \in 0..MaxWrites
  BY NotListedSeen, MaxWritesAssumption
<1>3. /\ \A w \in Tellers : telling[w] = Silent
      /\ \A f \in Fetches : fetch[f] \in {InFlight, NoFetch}
      /\ \A r \in Requests : answer[r] = NoAnswer /\ req[r].at # "update"
      /\ wire = <<>> /\ shown = [t \in Tasks |-> NotListed] /\ newest = [t \in Tasks |-> 0]
      /\ written = [t \in Tasks |-> 0]
  BY DEF DashInit, TasksInit, Idle, Tellers
<1>4. DashTypeOK
  BY <1>1, <1>2, <1>3, FetchKinds, AnswerKinds DEF DashInit, DashTypeOK, TasksInv
<1>5. NothingAhead
  BY <1>2, <1>3, EventKinds, FetchKinds, AnswerKinds
  DEF NothingAhead, PastEvent, PastList, PastFetch, PastAnswer, Tellers
<1>6. WritesWhenSilent
  BY <1>3 DEF WritesWhenSilent
<1>q. QED BY <1>1, <1>4, <1>5, <1>6 DEF DashInv, TasksInv

(* Every step keeps the types.                                             *)
LEMMA DashTypeStep ==
    ASSUME DashInv, [DashNext]_dashVars
    PROVE  DashTypeOK'
<1>0. TableStep /\ TellStep /\ WireStep /\ FetchStep /\ AnswerStep /\ PageStep
  BY TableAnatomy, TellAnatomy, WireAnatomy, FetchAnatomy, AnswerAnatomy, PageAnatomy
<1>t. /\ TasksInv /\ row \in [Tasks -> Row]
      /\ written \in [Tasks -> 0..MaxWrites]
      /\ telling \in [Tellers -> Events \cup {Silent}]
      /\ wire \in Seq(Events) /\ fetch \in [Fetches -> Fetch] /\ answer \in [Requests -> Answer]
      /\ shown \in [Tasks -> Seen] /\ newest \in [Tasks -> 0..MaxWrites]
  BY DashInvTypes
<1>1. telling' \in [Tellers -> Events \cup {Silent}]
  <2>1. \A t \in Tasks : News(t) \in Events
    BY <1>0, AfterSeen DEF Events
  <2>2. Refresh \in Events
    BY DEF Events
  <2>q. QED BY <1>0, <1>t, <2>1, <2>2 DEF TellStep
<1>2. wire' \in Seq(Events)
  <2>1. \A w \in Tellers : telling[w] # Silent => Append(wire, telling[w]) \in Seq(Events)
    BY <1>t
  <2>2. wire # <<>> => Tail(wire) \in Seq(Events)
    BY HeadOfWire
  <2>q. QED BY <1>0, <1>t, <2>1, <2>2 DEF WireStep
<1>3. fetch' \in [Fetches -> Fetch]
  <2>1. \A t \in Tasks : Now(t) \in Seen
    BY <1>t DEF Now, Seen, Row
  <2>2. [st |-> "read", list |-> [t \in Tasks |-> Now(t)]] \in Fetch
    BY <2>1, FetchKinds
  <2>q. QED BY <1>0, <1>t, <2>2, FetchKinds DEF FetchStep
<1>4. answer' \in [Requests -> Answer]
  <2>1. \A t \in Tasks : After(t) \in Seen
    BY <1>0, AfterSeen
  <2>2. \A t \in Tasks : /\ [then |-> "merge", task |-> t, seen |-> After(t)] \in Answer
                         /\ [then |-> "drop", task |-> t, seen |-> NotListed] \in Answer
    BY <2>1, AnswerKinds, NotListedSeen
  <2>3. ASSUME NEW r \in Requests PROVE answer'[r] \in Answer
    <3>1. answer[r] \in Answer /\ NoAnswer \in Answer /\ Reload \in Answer
      BY <1>t, AnswerKinds
    <3>2. \/ answer'[r] \in {answer[r], NoAnswer, Reload}
          \/ \E t \in Tasks : \/ answer'[r] = [then |-> "merge", task |-> t, seen |-> After(t)]
                              \/ answer'[r] = [then |-> "drop", task |-> t, seen |-> NotListed]
      BY <1>0 DEF AnswerStep
    <3> HIDE DEF After
    <3>q. QED BY <2>2, <3>1, <3>2, Zenon
  <2>q. QED BY <1>0, <2>3 DEF AnswerStep
<1>5. shown' \in [Tasks -> Seen] /\ newest' \in [Tasks -> 0..MaxWrites]
  <2>1. CASE UNCHANGED <<shown, newest>>
    BY <1>t, <2>1
  <2>2. ASSUME NEW list \in [Tasks -> Seen], Given(list)
        PROVE  shown' \in [Tasks -> Seen] /\ newest' \in [Tasks -> 0..MaxWrites]
    BY <1>t, <2>2 DEF Given, Seen
  <2>q. QED BY <1>0, <2>1, <2>2 DEF PageStep
<1>q. QED BY <1>0, <1>1, <1>2, <1>3, <1>4, <1>5 DEF DashTypeOK, TableStep, TasksInv, Tellers

(* Nothing on its way is newer than the table.                             *)
LEMMA NothingAheadStep ==
    ASSUME DashInv, [DashNext]_dashVars
    PROVE  NothingAhead'
<1>0. TableStep /\ TellStep /\ WireStep /\ FetchStep /\ AnswerStep /\ PageStep
  BY TableAnatomy, TellAnatomy, WireAnatomy, FetchAnatomy, AnswerAnatomy, PageAnatomy
<1>t. /\ written \in [Tasks -> 0..MaxWrites] /\ written' \in [Tasks -> 0..MaxWrites]
      /\ \A t \in Tasks : written[t] <= written'[t]
      /\ telling \in [Tellers -> Events \cup {Silent}]
      /\ wire \in Seq(Events) /\ fetch \in [Fetches -> Fetch] /\ answer \in [Requests -> Answer]
      /\ shown \in [Tasks -> Seen] /\ newest \in [Tasks -> 0..MaxWrites]
      /\ NothingAhead
  BY <1>0, DashInvTypes DEF TableStep, DashInv
<1>e. ASSUME NEW m \in Events \cup {Silent}, PastEvent(m)
      PROVE  m.event = "update" => m.seen.nr <= written'[m.task]
  BY <1>t, <1>e, EventKinds DEF PastEvent, Seen
<1>l. ASSUME NEW l \in [Tasks -> Seen], PastList(l)
      PROVE  \A t \in Tasks : l[t].nr <= written'[t]
  BY <1>t, <1>l DEF PastList, Seen
<1>n. \A t \in Tasks : News(t).event = "update" /\ News(t).task = t /\ News(t).seen.nr <= written'[t]
  BY <1>0, <1>t, AfterSeen
<1>1. ASSUME NEW w \in Tellers PROVE telling'[w].event = "update" => telling'[w].seen.nr <= written'[telling'[w].task]
  <2>1. CASE telling'[w] = telling[w]
    BY <1>e, <1>t, <2>1 DEF NothingAhead, Tellers
  <2>2. CASE telling'[w] \in {Silent, Refresh}
    BY <2>2, EventKinds
  <2>3. ASSUME NEW t \in Tasks, telling'[w] = News(t)
        PROVE  telling'[w].seen.nr <= written'[telling'[w].task]
    BY <1>n, <2>3
  <2>q. QED BY <1>0, <2>1, <2>2, <2>3 DEF TellStep
<1>2. ASSUME NEW k \in DOMAIN wire' PROVE wire'[k].event = "update" => wire'[k].seen.nr <= written'[wire'[k].task]
  <2>1. \A i \in DOMAIN wire : wire[i] \in Events /\ PastEvent(wire[i])
    BY <1>t DEF NothingAhead
  <2>2. CASE UNCHANGED wire
    BY <1>2, <1>e, <2>1, <2>2
  <2>3. ASSUME NEW w \in Tellers, telling[w] # Silent, wire' = Append(wire, telling[w])
        PROVE  wire'[k] \in Events /\ PastEvent(wire'[k])
    <3>1. telling[w] \in Events /\ PastEvent(telling[w])
      BY <1>t, <2>3 DEF NothingAhead, Tellers
    <3>2. wire'[k] = telling[w] \/ (k \in DOMAIN wire /\ wire'[k] = wire[k])
      BY <1>2, <1>t, <2>3, <3>1
    <3>q. QED BY <2>1, <3>1, <3>2
  <2>4. CASE wire # <<>> /\ wire' = Tail(wire)
    <3>1. wire'[k] = wire[k + 1] /\ k + 1 \in DOMAIN wire
      BY <1>2, <2>4, HeadOfWire
    <3>q. QED BY <1>e, <2>1, <3>1
  <2>q. QED BY <1>0, <1>e, <2>2, <2>3, <2>4 DEF WireStep
<1>3. ASSUME NEW f \in Fetches, fetch'[f].st = "read"
      PROVE  \A t \in Tasks : fetch'[f].list[t].nr <= written'[t]
  <2>1. CASE fetch'[f] = fetch[f]
    BY <1>3, <1>l, <1>t, <2>1, FetchKinds DEF NothingAhead, PastFetch
  <2>2. CASE fetch'[f] = [st |-> "read", list |-> [t \in Tasks |-> Now(t)]]
    <3>1. fetch'[f].list = [t \in Tasks |-> Now(t)]
      BY <2>2
    <3>q. QED BY <1>t, <3>1 DEF Now
  <2>q. QED BY <1>0, <1>3, <2>1, <2>2, FetchKinds DEF FetchStep
<1>4. ASSUME NEW r \in Requests, answer'[r].then \in {"merge", "drop"}
      PROVE  answer'[r].seen.nr <= written'[answer'[r].task]
  <2>1. CASE answer'[r] = answer[r]
    <3>1. answer[r].task \in Tasks /\ answer[r].seen \in Seen
      BY <1>4, <1>t, <2>1, AnswerKinds
    <3>q. QED BY <1>4, <1>t, <2>1, <3>1 DEF NothingAhead, PastAnswer, Seen
  <2>2. ASSUME NEW t \in Tasks, \/ answer'[r] = [then |-> "merge", task |-> t, seen |-> After(t)]
                                \/ answer'[r] = [then |-> "drop", task |-> t, seen |-> NotListed]
        PROVE  answer'[r].seen.nr <= written'[answer'[r].task]
    <3>1. answer'[r].task = t /\ answer'[r].seen.nr \in {written'[t], 0}
      BY <1>0, <2>2, AfterSeen, NotListedSeen
    <3>q. QED BY <1>t, <3>1
  <2>q. QED BY <1>0, <1>4, <2>1, <2>2, AnswerKinds DEF AnswerStep
<1>5. /\ \A t \in Tasks : shown'[t].nr <= written'[t]
      /\ \A t \in Tasks : newest'[t] <= written'[t]
  <2>0. \A t \in Tasks : shown[t].nr <= written'[t] /\ newest[t] <= written'[t]
    <3>1. PastList(shown) /\ \A t \in Tasks : newest[t] <= written[t]
      BY <1>t DEF NothingAhead
    <3>2. \A t \in Tasks : shown[t].nr <= written'[t]
      BY <1>l, <1>t, <3>1
    <3>q. QED BY <1>t, <3>1, <3>2
  <2>1. CASE UNCHANGED <<shown, newest>>
    BY <2>0, <2>1
  <2>2. ASSUME NEW list \in [Tasks -> Seen], PastList(list), Given(list)
        PROVE  /\ \A t \in Tasks : shown'[t].nr <= written'[t]
               /\ \A t \in Tasks : newest'[t] <= written'[t]
    BY <1>l, <2>0, <2>2 DEF Given
  <2>q. QED BY <1>0, <2>1, <2>2 DEF PageStep
<1>q. QED
  BY <1>1, <1>2, <1>3, <1>4, <1>5
  DEF NothingAhead, PastEvent, PastList, PastFetch, PastAnswer, Tellers

(* A request about to write has emitted and answered what came before.     *)
LEMMA WritesWhenSilentStep ==
    ASSUME DashInv, [DashNext]_dashVars
    PROVE  WritesWhenSilent'
<1> SUFFICES ASSUME NEW r \in Requests, req'[r].at = "update"
             PROVE  telling'[r] = Silent /\ answer'[r] = NoAnswer
  BY DEF WritesWhenSilent
<1>0. /\ TasksInv /\ req \in [Requests -> Request]
      /\ telling \in [Tellers -> Events \cup {Silent}] /\ answer \in [Requests -> Answer]
      /\ r \in Tellers /\ r \notin Others
      /\ req[r].at = "update" => telling[r] = Silent /\ answer[r] = NoAnswer
  BY DashInvTypes, OthersAssumption DEF Tellers, DashInv, WritesWhenSilent
<1>1. ASSUME UNCHANGED <<req, answer>>, \A w \in Tellers : telling'[w] \in {telling[w], Silent} \/ w \in Others
      PROVE  telling'[r] = Silent /\ answer'[r] = NoAnswer
  BY <1>0, <1>1
<1>2. ASSUME NEW q \in Requests, Submit(q) PROVE telling'[r] = Silent /\ answer'[r] = NoAnswer
  <2>1. req'[q] = Routing(created + 1) /\ \A p \in Requests : p # q => req'[p] = req[p]
    BY <1>0, <1>2, CreateKeepsTasksInv DEF Submit
  <2>2. r # q
    BY <2>1 DEF Routing
  <2>q. QED BY <1>0, <1>2, <2>1, <2>2 DEF Submit
<1>3. ASSUME NEW q \in Requests, NEW op \in Ops, NEW t \in Tasks, Click(q, op, t)
      PROVE  telling'[r] = Silent /\ answer'[r] = NoAnswer
  <2>1. \A p \in Requests : p # q => req'[p] = req[p]
    BY <1>0, <1>3, LoadKeepsTasksInv DEF Click
  <2>q. QED BY <1>0, <1>3, <2>1 DEF Click, Free, pageVars
<1>4. ASSUME NEW q \in Requests, UpdateTask(q) PROVE telling'[r] = Silent /\ answer'[r] = NoAnswer
  <2>1. /\ req'[q].at # "update" /\ \A p \in Requests : p # q => req'[p] = req[p]
    <3>1. /\ req'[q] \in {Routing(req[q].task), Idle}
          /\ \A p \in Requests : p # q => req'[p] = req[p]
      BY <1>0, <1>4, UpdateKeepsTasksInv DEF UpdateTask
    <3>q. QED BY <3>1 DEF Routing, Idle
  <2>2. r # q
    BY <2>1
  <2>3. telling'[r] = telling[r] /\ answer'[r] = answer[r]
    BY <1>0, <1>4, <2>2 DEF UpdateTask
  <2>q. QED BY <1>0, <2>1, <2>2, <2>3
<1>5. ASSUME NEW q \in Requests, RouteTask(q) PROVE telling'[r] = Silent /\ answer'[r] = NoAnswer
  <2>1. req'[q] = Idle /\ \A p \in Requests : p # q => req'[p] = req[p]
    BY <1>0, <1>5, RouteKeepsTasksInv DEF RouteTask
  <2>q. QED BY <1>0, <1>5, <2>1 DEF RouteTask, pageVars, Idle
<1>6. ASSUME NEW q \in Requests, NEW t \in Tasks, DeleteTask(q, t)
      PROVE  telling'[r] = Silent /\ answer'[r] = NoAnswer
  <2>1. UNCHANGED <<req, telling>> /\ req[q].at = "idle"
        /\ answer' = [answer EXCEPT ![q] = [then |-> "drop", task |-> t, seen |-> NotListed]]
    BY <1>6 DEF DeleteTask, Remove, Free
  <2>2. r # q
    BY <2>1
  <2>q. QED BY <1>0, <2>1, <2>2
<1>7. ASSUME NEW q \in Requests, Answered(q) PROVE telling'[r] = Silent /\ answer'[r] = NoAnswer
  BY <1>0, <1>7 DEF Answered
<1>8. ASSUME NEW w \in Others,
             \/ \E t \in Tasks, d \in Devices : HandOut(w, t, d)
             \/ \E t \in Tasks, rep \in Reports : HearReport(w, t, rep)
             \/ \E d \in Devices : Disconnect(w, d)
      PROVE  telling'[r] = Silent /\ answer'[r] = NoAnswer
  <2>1. UNCHANGED <<req, answer>> /\ \E m : telling' = [telling EXCEPT ![w] = m]
    BY <1>8 DEF HandOut, HearReport, Disconnect, Tell, pageVars
  <2>q. QED BY <1>0, <2>1
<1>9. ASSUME NEW w \in Tellers, EmitEvent(w) PROVE telling'[r] = Silent /\ answer'[r] = NoAnswer
  BY <1>0, <1>9 DEF EmitEvent, pageVars
<1>q. QED
  BY <1>1, <1>2, <1>3, <1>4, <1>5, <1>6, <1>7, <1>8, <1>9
  DEF DashNext, ReadList, ListArrives, OnEvent, dashVars, pageVars, Tellers

(* The inductive invariant of the project page: types, nothing on its way  *)
(* that was not written, and one thing to tell at a time per request.      *)
THEOREM DashInvariance == DashSpec => []DashInv
<1>1. DashInv /\ [DashNext]_dashVars => DashInv'
  <2> SUFFICES ASSUME DashInv, [DashNext]_dashVars PROVE DashInv'
    OBVIOUS
  <2>1. TasksSound'
    BY TableAnatomy DEF TableStep, TasksInv
  <2>q. QED BY <2>1, DashTypeStep, NothingAheadStep, WritesWhenSilentStep DEF DashInv
<1>q. QED BY <1>1, DashInvInit, PTL DEF DashSpec

(* Every variable of the page and of what reaches it stays in its type.    *)
THEOREM DashTypeCorrect == DashSpec => []DashTypeOK
  BY DashInvariance, PTL DEF DashInv

-----------------------------------------------------------------------------
(* The latest state of every existing task has reached the page or is      *)
(* carried there.                                                          *)
Carries(m, t)      == m = Refresh \/ (m.event = "update" /\ m.task = t /\ m.seen.nr = written[t])
CarriesList(x, t)  == x = InFlight \/ (x.st = "read" /\ x.list[t].nr = written[t])
Carried(t) ==
    \/ newest[t] = written[t]
    \/ \E w \in Tellers : Carries(telling[w], t)
    \/ \E k \in DOMAIN wire : Carries(wire[k], t)
    \/ \E f \in Fetches : CarriesList(fetch[f], t)
    \/ \E r \in Requests : answer[r] = Reload
AllCarried == \A t \in Tasks : Exists(t) => Carried(t)

(* The last state of a task stays with an event, a list or an answer until *)
(* the page has been given it.                                             *)
LEMMA AllCarriedStep ==
    ASSUME DashInv, DashInv', AllCarried, [DashNext]_dashVars
    PROVE  AllCarried'
<1> SUFFICES ASSUME NEW t \in Tasks, Exists(t)'
             PROVE  Carried(t)'
  BY DEF AllCarried
<1>0. /\ TasksInv /\ row \in [Tasks -> Row]
      /\ written \in [Tasks -> 0..MaxWrites]
      /\ telling \in [Tellers -> Events \cup {Silent}]
      /\ wire \in Seq(Events) /\ fetch \in [Fetches -> Fetch] /\ answer \in [Requests -> Answer]
      /\ shown \in [Tasks -> Seen] /\ newest \in [Tasks -> 0..MaxWrites]
      /\ written[t] \in 0..MaxWrites /\ newest[t] \in 0..MaxWrites
      /\ written'[t] \in 0..MaxWrites /\ newest'[t] \in 0..MaxWrites /\ newest'[t] <= written'[t]
      /\ TableStep /\ Silent.event = "none" /\ Silent # Refresh
  BY DashInvTypes, TableAnatomy, EventKinds DEF DashInv, DashTypeOK, NothingAhead
(* The page may be given more, and it carries what the page is given.      *)
<1>n. ASSUME written'[t] = written[t], newest[t] = written[t], PageStep
      PROVE  newest'[t] = written'[t]
  <2>1. CASE UNCHANGED <<shown, newest>>
    BY <1>n, <2>1
  <2>2. ASSUME NEW list \in [Tasks -> Seen], Given(list) PROVE newest'[t] >= newest[t]
    BY <1>0, <2>2 DEF Given, Seen
  <2>3. CASE newest'[t] >= newest[t]
    BY <1>0, <1>n, <2>3
  <2>q. QED BY <1>n, <2>1, <2>2, <2>3, Zenon DEF PageStep
<1>g. ASSUME NEW list, Given(list), list[t].nr = written[t], written'[t] = written[t]
      PROVE  newest'[t] = written'[t]
  BY <1>0, <1>g DEF Given
<1>p. PageStep
  BY PageAnatomy
(* A step that takes no carrier away.                                      *)
<1>k. ASSUME written'[t] = written[t], Exists(t),
             \A w \in Tellers : Carries(telling[w], t) => telling'[w] = telling[w],
             wire' = wire,
             \A f \in Fetches : CarriesList(fetch[f], t) => fetch'[f] = fetch[f],
             \A r \in Requests : answer[r] = Reload => answer'[r] = Reload
      PROVE  Carried(t)'
  <2>0. Carried(t)
    BY <1>k DEF AllCarried
  <2>1. CASE newest[t] = written[t]
    BY <1>k, <1>n, <1>p, <2>1 DEF Carried
  <2>2. ASSUME NEW w \in Tellers, Carries(telling[w], t) PROVE Carries(telling[w], t)'
    BY <1>k, <2>2 DEF Carries
  <2>3. ASSUME NEW k \in DOMAIN wire, Carries(wire[k], t) PROVE k \in DOMAIN wire' /\ Carries(wire[k], t)'
    BY <1>k, <2>3 DEF Carries
  <2>4. ASSUME NEW f \in Fetches, CarriesList(fetch[f], t) PROVE CarriesList(fetch[f], t)'
    BY <1>k, <2>4 DEF CarriesList
  <2>q. QED BY <1>k, <2>0, <2>1, <2>2, <2>3, <2>4 DEF Carried
<1>1. ASSUME NEW r \in Requests, Submit(r) PROVE Carried(t)'
  BY <1>0, <1>1 DEF Submit, Carried
<1>2. ASSUME UNCHANGED <<row, written, telling, wire, fetch, answer>> PROVE Carried(t)'
  BY <1>2, <1>k DEF Exists
<1>3. ASSUME NEW r \in Requests, UpdateTask(r) PROVE Carried(t)'
  <2> DEFINE u == req[r].task
  <2>0. /\ u \in Tasks /\ \A v \in Tasks : v # u => row'[v] = row[v]
        /\ ~Exists(u) => row'[u] = row[u]
        /\ telling[r] = Silent /\ answer[r] = NoAnswer /\ Reload # NoAnswer
        /\ written' = [v \in Tasks |-> IF v \in {u} THEN written[v] + 1 ELSE written[v]]
        /\ UNCHANGED <<wire, fetch>>
        /\ r \in Tellers
    BY <1>0, <1>3, UpdateKeepsTasksInv, AnswerKinds
    DEF UpdateTask, Update, DashInv, WritesWhenSilent, Numbered, Tellers
  <2> HIDE DEF u
  <2>1. CASE t = u
    <3>1. telling' = [telling EXCEPT ![r] = News(u)]
      <4>1. Exists(u)
        BY <2>0, <2>1 DEF Exists
      <4>q. QED BY <1>3, <4>1 DEF UpdateTask, u
    <3>2. telling'[r] = News(t)
      BY <1>0, <2>0, <2>1, <3>1
    <3>3. Carries(telling[r], t)'
      BY <1>0, <3>2, AfterSeen DEF Carries
    <3>q. QED BY <2>0, <3>3 DEF Carried
  <2>2. CASE t # u
    <3>1. /\ \A w \in Tellers : w # r => telling'[w] = telling[w]
          /\ \A q \in Requests : q # r => answer'[q] = answer[q]
      BY <1>0, <1>3 DEF UpdateTask
    <3>2. ~Carries(telling[r], t)
      BY <1>0, <2>0 DEF Carries
    <3>3. written'[t] = written[t] /\ Exists(t)
      BY <2>0, <2>2 DEF Exists
    <3>q. QED BY <1>k, <2>0, <3>1, <3>2, <3>3
  <2>q. QED BY <2>1, <2>2
<1>4. ASSUME NEW r \in Requests, RouteTask(r) PROVE Carried(t)'
  BY <1>2, <1>4 DEF RouteTask, Route, tableVars, pageVars
<1>5. ASSUME NEW r \in Requests, NEW u \in Tasks, DeleteTask(r, u) PROVE Carried(t)'
  <2>1. row'[u] = NoRow /\ \A v \in Tasks : v # u => row'[v] = row[v]
    BY <1>0, <1>5, RemoveKeepsTasksInv DEF DeleteTask
  <2>2. t # u
    BY <2>1 DEF Exists, NoRow
  <2>3. /\ answer[r] = NoAnswer /\ \A q \in Requests : q # r => answer'[q] = answer[q]
        /\ written'[t] = written[t] /\ UNCHANGED <<telling, wire, fetch>>
    BY <1>0, <1>5, <2>2 DEF DeleteTask, Free, Numbered
  <2>q. QED BY <1>k, <2>1, <2>2, <2>3, AnswerKinds DEF Exists
<1>6. ASSUME Ask PROVE \E f \in Fetches : CarriesList(fetch[f], t)'
  BY <1>0, <1>6 DEF Ask, CarriesList
<1>7. ASSUME NEW r \in Requests, Answered(r) PROVE Carried(t)'
  <2>1. CASE answer[r] = Reload
    BY <1>6, <1>7, <2>1 DEF Answered, Carried
  <2>2. CASE answer[r] # Reload
    <3>1. /\ UNCHANGED <<row, written, telling, wire, fetch>>
          /\ \A q \in Requests : q # r => answer'[q] = answer[q]
      BY <1>0, <1>7, <2>2 DEF Answered, tableVars
    <3>q. QED BY <1>k, <2>2, <3>1 DEF Exists
  <2>q. QED BY <2>1, <2>2
<1>8. ASSUME NEW w \in Others, NEW u \in Tasks, telling[w] = Silent, telling' = [telling EXCEPT ![w] = News(u)],
             UNCHANGED <<wire, pageVars>>, Numbered({u}), \A v \in Tasks : v # u => row'[v] = row[v]
      PROVE  Carried(t)'
  <2>0. w \in Tellers
    BY DEF Tellers
  <2>1. CASE t = u
    <3>1. telling'[w] = News(t)
      BY <1>0, <1>8, <2>0, <2>1
    <3>2. Carries(telling[w], t)'
      BY <1>0, <3>1, AfterSeen DEF Carries
    <3>q. QED BY <2>0, <3>2 DEF Carried
  <2>2. CASE t # u
    <3>1. /\ written'[t] = written[t] /\ Exists(t) /\ ~Carries(telling[w], t)
          /\ \A v \in Tellers : v # w => telling'[v] = telling[v]
      BY <1>0, <1>8, <2>2 DEF Numbered, Exists, Carries
    <3>q. QED BY <1>8, <1>k, <3>1 DEF pageVars
  <2>q. QED BY <2>1, <2>2
<1>9. ASSUME NEW w \in Others, NEW u \in Tasks, NEW d \in Devices, HandOut(w, u, d) PROVE Carried(t)'
  BY <1>0, <1>8, <1>9 DEF HandOut, Tell
<1>10. ASSUME NEW w \in Others, NEW u \in Tasks, NEW rep \in Reports, HearReport(w, u, rep)
       PROVE  Carried(t)'
  BY <1>0, <1>8, <1>10 DEF HearReport, Tell
<1>11. ASSUME NEW w \in Others, NEW d \in Devices, Disconnect(w, d) PROVE Carried(t)'
  <2>1. telling' = [telling EXCEPT ![w] = Refresh] /\ w \in Tellers
    BY <1>11 DEF Disconnect, Tell, Tellers
  <2>2. Carries(telling[w], t)'
    BY <1>0, <2>1 DEF Carries
  <2>q. QED BY <2>1, <2>2 DEF Carried
<1>12. ASSUME NEW w \in Tellers, EmitEvent(w) PROVE Carried(t)'
  <2>0. /\ telling[w] # Silent /\ wire' = Append(wire, telling[w])
        /\ telling' = [telling EXCEPT ![w] = Silent]
        /\ UNCHANGED <<row, written, fetch, answer, shown, newest>>
    BY <1>12 DEF EmitEvent, tableVars, pageVars
  <2>1. telling[w] \in Events
    BY <1>0, <2>0
  <2>2. /\ \A k \in DOMAIN wire : k \in DOMAIN wire' /\ wire'[k] = wire[k]
        /\ Len(wire) + 1 \in DOMAIN wire' /\ wire'[Len(wire) + 1] = telling[w]
    BY <1>0, <2>0, <2>1
  <2>3. Carried(t)
    BY <2>0 DEF AllCarried, Exists
  <2>4. ASSUME NEW m PROVE Carries(m, t)' <=> Carries(m, t)
    BY <2>0 DEF Carries
  <2>5. ASSUME NEW k \in DOMAIN wire, Carries(wire[k], t) PROVE \E i \in DOMAIN wire' : Carries(wire[i], t)'
    BY <2>0, <2>2, <2>5 DEF Carries
  <2>6. ASSUME NEW v \in Tellers, Carries(telling[v], t)
        PROVE  \/ \E i \in DOMAIN wire' : Carries(wire[i], t)'
               \/ \E x \in Tellers : Carries(telling[x], t)'
    <3>1. CASE v = w
      BY <2>0, <2>2, <2>6, <3>1 DEF Carries
    <3>2. CASE v # w
      <4>1. telling'[v] = telling[v]
        BY <1>0, <2>0, <3>2
      <4>q. QED BY <2>0, <2>6, <4>1 DEF Carries
    <3>q. QED BY <3>1, <3>2
  <2>7. ASSUME NEW f \in Fetches, CarriesList(fetch[f], t) PROVE CarriesList(fetch[f], t)'
    BY <2>0, <2>7 DEF CarriesList
  <2>q. QED BY <2>0, <2>3, <2>5, <2>6, <2>7 DEF Carried
<1>13. ASSUME NEW f \in Fetches, ReadList(f) PROVE Carried(t)'
  <2>1. /\ fetch'[f] = [st |-> "read", list |-> [u \in Tasks |-> Now(u)]]
        /\ UNCHANGED <<row, written>>
    BY <1>0, <1>13 DEF ReadList, tableVars
  <2>2. fetch'[f].st = "read" /\ fetch'[f].list[t].nr = written'[t]
    BY <2>1 DEF Now
  <2>3. CarriesList(fetch[f], t)'
    BY <2>2 DEF CarriesList
  <2>q. QED BY <2>3 DEF Carried
<1>14. ASSUME NEW f \in Fetches, ListArrives(f) PROVE Carried(t)'
  <2>1. /\ fetch[f].st = "read" /\ Given(fetch[f].list)
        /\ \A g \in Fetches : g # f => fetch'[g] = fetch[g]
        /\ UNCHANGED <<row, written, telling, wire, answer>>
    BY <1>0, <1>14 DEF ListArrives, tableVars
  <2>2. CASE CarriesList(fetch[f], t)
    <3>1. fetch[f].list[t].nr = written[t]
      BY <2>1, <2>2, FetchKinds DEF CarriesList
    <3>q. QED BY <1>g, <2>1, <3>1 DEF Carried
  <2>3. CASE ~CarriesList(fetch[f], t)
    BY <1>k, <2>1, <2>3 DEF Exists
  <2>q. QED BY <2>2, <2>3
<1>15. CASE OnEvent
  <2>0. /\ wire # <<>> /\ wire' = Tail(wire) /\ UNCHANGED <<row, written, telling, answer>>
    BY <1>15 DEF OnEvent, tableVars
  <2>1. CASE Head(wire) = Refresh
    BY <1>6, <1>15, <2>1 DEF OnEvent, OnRefresh, Carried
  <2>2. CASE Head(wire) # Refresh
    <3> DEFINE m == Head(wire)
    <3>1. /\ m \in Updates /\ Given([shown EXCEPT ![m.task] = m.seen]) /\ UNCHANGED fetch
      BY <1>15, <2>0, <2>2, HeadOfWire DEF OnEvent, Events
    <3>2. m.task \in Tasks /\ m.event = "update"
      BY <3>1, EventKinds
    <3> HIDE DEF m
    <3>3. CASE Carries(m, t)
      <4>1. m.task = t /\ m.seen.nr = written[t]
        BY <2>2, <3>3 DEF Carries, m
      <4>2. [shown EXCEPT ![m.task] = m.seen][t].nr = written[t]
        BY <1>0, <4>1
      <4>q. QED BY <1>g, <2>0, <3>1, <4>2 DEF Carried
    <3>4. CASE ~Carries(m, t)
      <4>1. Carried(t)
        BY <2>0 DEF AllCarried, Exists
      <4>2. CASE newest[t] = written[t]
        BY <1>n, <1>p, <2>0, <4>2 DEF Carried
      <4>3. ASSUME NEW k \in DOMAIN wire, Carries(wire[k], t)
            PROVE  \E i \in DOMAIN wire' : Carries(wire[i], t)'
        <5>1. k # 1
          BY <2>0, <3>4, <4>3, HeadOfWire DEF m
        <5>2. k - 1 \in DOMAIN wire' /\ wire'[k - 1] = wire[k]
          BY <2>0, <4>3, <5>1, HeadOfWire
        <5>q. QED BY <2>0, <4>3, <5>2 DEF Carries
      <4>4. ASSUME NEW w \in Tellers, Carries(telling[w], t) PROVE Carries(telling[w], t)'
        BY <2>0, <4>4 DEF Carries
      <4>5. ASSUME NEW f \in Fetches, CarriesList(fetch[f], t) PROVE CarriesList(fetch[f], t)'
        BY <2>0, <3>1, <4>5 DEF CarriesList
      <4>q. QED BY <2>0, <4>1, <4>2, <4>3, <4>4, <4>5 DEF Carried
    <3>q. QED BY <3>3, <3>4
  <2>q. QED BY <2>1, <2>2
<1>q. QED
  BY <1>1, <1>2, <1>3, <1>4, <1>5, <1>7, <1>9, <1>10, <1>11, <1>12, <1>13, <1>14, <1>15
  DEF DashNext, Click, Load, tableVars, dashVars, pageVars, Tellers

(* Whatever reaches the page in whatever order, once nothing is on its way *)
(* any more it has been given the latest state of every task.              *)
THEOREM DashEveryChangeArrives == DashSpec => []EveryChangeArrives
<1>1. DashInit => AllCarried
  BY DEF DashInit, TableInit, NoRow, AllCarried, Exists
<1>2. DashInv /\ AllCarried => EveryChangeArrives
  <2> SUFFICES ASSUME DashInv, AllCarried, Settled, NEW t \in Tasks, Exists(t)
               PROVE  newest[t] = written[t]
    BY DEF EveryChangeArrives
  <2>1. ~Carries(Silent, t) /\ ~CarriesList(NoFetch, t) /\ NoAnswer # Reload
    BY EventKinds, FetchKinds, AnswerKinds DEF Carries, CarriesList
  <2>2. Carried(t) /\ DOMAIN wire = {}
    BY DEF AllCarried, Settled
  <2>q. QED BY <2>1, <2>2 DEF Carried, Settled, Free, Tellers
<1>3. DashInv /\ DashInv' /\ AllCarried /\ [DashNext]_dashVars => AllCarried'
  BY AllCarriedStep
<1>q. QED BY <1>1, <1>2, <1>3, DashInvariance, PTL DEF DashSpec
=============================================================================
