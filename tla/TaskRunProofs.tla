---------------------------- MODULE TaskRunProofs ----------------------------
(***************************************************************************)
(* What TaskRun promises of one task for every number of calls, processes, *)
(* events and time: its types, that a run is reported as what its process  *)
(* has said, that a retry waits for the time it was told, that the latest  *)
(* session is the one that is resumed, and that the client does what Agent *)
(* says of it.                                                             *)
(***************************************************************************)
EXTENDS TaskRun, FiniteSetTheorems, TLAPS

Sessions == 0..MaxProcesses
Times    == 0..Never
Listed   == {NoFiles} \cup {[names |-> ListOutputFiles(tree), of |-> tree] : tree \in Trees}

Order  == [order : {"assign", "pause", "cancel"}, session : Sessions]
Said   == [status : Reports, session : Sessions, at : Times, files : Listed]
Column == [session : Sessions, retryAt : Times, files : Listed]
Timer  == [session : Sessions, at : Times, due : Times, set : 0..MaxTime]
Reasons == {"torn", "crash", "overlap", "early"}

Typed ==
    /\ TableTypeOK
    /\ RunnerTypeOK
    /\ column \in Column
    /\ down \in Seq(Order)
    /\ up \in Seq(Said)
    /\ timer \in [Calls -> Timer]
    /\ pending \in Calls \cup {NoCall}
    /\ now \in 0..MaxTime
    /\ crashes \in Nat
    /\ latest \in Sessions
    /\ forgotten \subseteq Reasons

(* What is known of the output unless a chunk has torn it.                 *)
Understood ==
    \A c \in Calls :
        \/ truth[c].torn
        \/ /\ proc[c].torn = Whole
           /\ proc[c].session = truth[c].session
           /\ (proc[c].limit # "no") <=> truth[c].limit

(* A call that waits for its retry is not running, and its timer has been  *)
(* set for the time it was told.                                           *)
SetFor(x) == x.set + Timeout(IF x.at > x.set THEN x.at - x.set ELSE 1)
Timers ==
    \A c \in Calls :
        timer[c] # NoTimer => ~proc[c].running /\ proc[c].abort = "no" /\ timer[c].due = SetFor(timer[c])

(* The keys of the maps stand for what they are the key of.                *)
Entered ==
    \A c \in Calls :
        /\ active = c  => proc[c].running
        /\ pending = c => timer[c] # NoTimer
        /\ ~proc[c].running => proc[c] = NoProcess /\ truth[c] = Silence

(* A task that is not there has no past, and one that is cancelled has no  *)
(* future.                                                                 *)
Canceling ==
    \/ \E i \in DOMAIN down : down[i].order = "cancel"
    \/ \E c \in Calls : proc[c].abort = "cancel"
Past ==
    /\ (row[Task].status = "NONE") <=> (created = 0)
    /\ row[Task].status = "NONE" => down = <<>> /\ up = <<>> /\ InUse = {}
    /\ Canceling => row[Task].status = "CANCELED"

(* The session the row will have when all reports have been applied.       *)
IsLast(i)  == i \in DOMAIN up /\ up[i].session # NoSession
              /\ \A j \in DOMAIN up : j > i => up[j].session = NoSession
Nobody == \A i \in DOMAIN up : up[i].session = NoSession
Arrives(s) == (Nobody /\ column.session = s) \/ (\E i \in DOMAIN up : IsLast(i) /\ up[i].session = s)

Assigned == {i \in DOMAIN down : down[i].order = "assign"}
Carried ==
    /\ latest <= spawned
    /\ column.session <= latest
    /\ \A i \in DOMAIN up : up[i].session <= latest
    /\ \A c \in Calls : ~truth[c].torn
    /\ \A c, k \in InUse : c = k
    /\ \A i, j \in Assigned : i = j
    /\ \A i \in Assigned : InUse = {} /\ up = <<>> /\ down[i].session = latest
    /\ \A c \in Calls : proc[c].running => proc[c].session = latest /\ proc[c].nr = spawned
    /\ \A c \in Calls : timer[c] # NoTimer => timer[c].session = latest
    /\ row[Task].status # "CANCELED" /\ (\A c \in Calls : ~proc[c].running) => Arrives(latest)

CarriedInv == forgotten = {} => Carried
-----------------------------------------------------------------------------
(* What the actions of a call come down to.                                *)

(* The constants in the forms the provers use.                             *)
LEMMA Bounds == /\ MaxTime \in Nat /\ MaxTimeout \in Nat /\ Backoff \in 0..MaxTimeout
                /\ MaxEvents \in Nat /\ MaxProcesses \in Nat
                /\ Never = MaxTime + MaxTimeout + 10
                /\ Resets \subseteq 0..(Never - 1)
                /\ NoCall \notin Calls /\ Devices = {Host} /\ Tasks = {1} /\ Task \in Tasks
                /\ Events \subseteq AllEvents
  BY TimeAssumption, ResetsAssumption, RunnerBounds, NoCallAssumption, HostAssumption,
     EventsAssumption DEF Never, Task

(* A delay is a number, and the time it ends at is one.                    *)
LEMMA WaitTimes ==
  ASSUME NEW t \in 0..MaxTime, NEW at \in 0..(Never - 1)
  PROVE  /\ Timeout(IF at > t THEN at - t ELSE 1) \in Nat
         /\ t + Timeout(IF at > t THEN at - t ELSE 1) \in 0..(Never - 1)
  BY Bounds DEF Timeout

(* Whatever the piece is, the process goes on, knows no more than what it  *)
(* has said, and no less if it has not been torn.                          *)
Follows(x, y, u, v) ==
    /\ y \in Process /\ v \in Truth
    /\ y.running /\ y.abort = x.abort /\ y.nr = x.nr
    /\ y.session \in {x.session, x.nr} /\ v.session \in {u.session, x.nr}
    /\ u.torn => v.torn
    /\ \/ v.torn
       \/ /\ x.torn = Whole /\ y.torn = Whole
          /\ x.session = u.session => y.session = v.session
          /\ ((x.limit # "no") <=> u.limit) => ((y.limit # "no") <=> v.limit)

(* What parsing a line leaves alone and what it sets.                      *)
LEMMA ParsedFields ==
  ASSUME NEW x \in Process, NEW e \in AllEvents
  PROVE  LET y == Parsed(x, e)
         IN  /\ y \in Process
             /\ y.running = x.running /\ y.abort = x.abort /\ y.nr = x.nr /\ y.torn = x.torn
             /\ y.session = IF "session" \in e.tells THEN x.nr ELSE x.session
             /\ (y.limit # "no") <=> (x.limit # "no" \/ e.tells \cap {"limit", "reset"} # {})
PROOF
  <1> DEFINE result == x.result \/ "result" \in e.tells
             session == IF "session" \in e.tells THEN x.nr ELSE x.session
             limit == IF "reset" \in e.tells THEN "reset"
                      ELSE IF "limit" \in e.tells /\ x.limit = "no" THEN "default" ELSE x.limit
  <1>1. result \in BOOLEAN /\ session \in 0..MaxProcesses /\ limit \in {"no", "default", "reset"}
    BY DEF Process
  <1>2. (limit # "no") <=> (x.limit # "no" \/ e.tells \cap {"limit", "reset"} # {})
    BY DEF AllEvents
  <1>3. Parsed(x, e) = [x EXCEPT !.session = session, !.result = result, !.limit = limit]
    BY DEF Parsed
  <1> HIDE DEF result, session, limit
  <1>4. Parsed(x, e) \in Process
    BY <1>1, <1>3 DEF Process
  <1> QED BY <1>1, <1>2, <1>3, <1>4 DEF Process, session

(* Searching a piece for the words of a rate limit sets nothing else.      *)
LEMMA SearchedFields ==
  ASSUME NEW x \in Process, NEW e \in AllEvents, NEW piece, NEW y \in Searched(x, e, piece)
  PROVE  /\ y \in Process
         /\ y.running = x.running /\ y.abort = x.abort /\ y.nr = x.nr /\ y.torn = x.torn
         /\ y.session = x.session
BY DEF Searched, Process, AllEvents

(* A piece of output changes what the client knows and what was said       *)
(* together.                                                               *)
LEMMA ReadFollows ==
  ASSUME NEW x \in Process, NEW u \in Truth, NEW e \in AllEvents, x.running, x.torn = Whole,
         NEW torn \in BOOLEAN, NEW y, NEW v,
         \/ torn = FALSE /\ y = Parsed(x, e)
         \/ torn = TRUE /\ \E z \in Searched(x, e, "head") : y = [z EXCEPT !.torn = e],
         v = [session |-> IF "session" \in e.tells THEN y.nr ELSE u.session,
              limit   |-> u.limit \/ e.tells \cap {"limit", "reset"} # {},
              torn    |-> u.torn \/ torn]
  PROVE  Follows(x, y, u, v)
PROOF
  <1>1. CASE torn = FALSE /\ y = Parsed(x, e)
    <2>1. /\ y \in Process
          /\ y.running = x.running /\ y.abort = x.abort /\ y.nr = x.nr /\ y.torn = x.torn
          /\ y.session = IF "session" \in e.tells THEN x.nr ELSE x.session
          /\ (y.limit # "no") <=> (x.limit # "no" \/ e.tells \cap {"limit", "reset"} # {})
      BY <1>1, ParsedFields
    <2>2. v \in Truth
      BY <2>1 DEF Process, Truth
    <2>3. /\ v.session = IF "session" \in e.tells THEN x.nr ELSE u.session
          /\ v.limit <=> (u.limit \/ e.tells \cap {"limit", "reset"} # {})
          /\ v.torn = u.torn
      BY <1>1, <2>1 DEF Truth
    <2> QED BY <2>1, <2>2, <2>3 DEF Follows
  <1>2. CASE torn = TRUE /\ \E z \in Searched(x, e, "head") : y = [z EXCEPT !.torn = e]
    <2>1. PICK z \in Searched(x, e, "head") : y = [z EXCEPT !.torn = e]
      BY <1>2
    <2>0. /\ z \in Process
          /\ z.running = x.running /\ z.abort = x.abort /\ z.nr = x.nr /\ z.session = x.session
      BY SearchedFields
    <2>2. /\ y \in Process
          /\ y.running = x.running /\ y.abort = x.abort /\ y.nr = x.nr /\ y.session = x.session
      BY <2>0, <2>1 DEF Process
    <2>3. v \in Truth
      BY <2>2 DEF Process, Truth
    <2>4. v.session = (IF "session" \in e.tells THEN x.nr ELSE u.session) /\ v.torn
      BY <1>2, <2>2 DEF Truth
    <2> QED BY <2>2, <2>3, <2>4 DEF Follows
  <1> QED BY <1>1, <1>2

Continues(c) ==
    /\ proc[c].running
    /\ spawned' = spawned /\ active' = active /\ heard' \in 0..MaxEvents
    /\ proc' = [proc EXCEPT ![c] = proc'[c]]
    /\ truth' = [truth EXCEPT ![c] = truth'[c]]
    /\ Follows(proc[c], proc'[c], truth[c], truth'[c])

(* What a chunk of output does: to one process, no more than ReadFollows   *)
(* says.                                                                   *)
LEMMA OutputAnatomy ==
  ASSUME RunnerTypeOK, NEW c \in Calls, Output(c),
         proc[c].torn # Whole => truth[c].torn
  PROVE  Continues(c)
PROOF
  <1>0. proc[c] \in Process /\ truth[c] \in Truth
    BY DEF RunnerTypeOK
  <1>1. CASE ReadRest(c)
    <2>1. PICK x \in Searched(proc[c], proc[c].torn, "rest") :
             proc' = [proc EXCEPT ![c] = [x EXCEPT !.torn = Whole]]
      BY <1>1 DEF ReadRest
    <2>2. x \in Process /\ x.running /\ x.abort = proc[c].abort /\ x.nr = proc[c].nr
          /\ x.session = proc[c].session
      BY <1>0, <1>1, <2>1, SearchedFields DEF ReadRest, Process
    <2>3. Whole \in AllEvents
      BY DEF Whole, AllEvents
    <2>4. proc'[c] \in Process /\ proc'[c] = [x EXCEPT !.torn = Whole]
      BY <2>1, <2>2, <2>3 DEF RunnerTypeOK, Process
    <2>5. truth[c].torn /\ UNCHANGED <<truth, spawned, heard, active>> /\ proc[c].running
      BY <1>1 DEF ReadRest
    <2>6. Follows(proc[c], proc'[c], truth[c], truth'[c])
      BY <1>0, <2>2, <2>4, <2>5 DEF Follows, Process
    <2>7. proc' = [proc EXCEPT ![c] = proc'[c]] /\ truth' = [truth EXCEPT ![c] = truth'[c]]
      BY <2>1, <2>4, <2>5 DEF RunnerTypeOK
    <2> QED BY <2>5, <2>6, <2>7 DEF Continues, RunnerTypeOK
  <1>2. ASSUME NEW e \in AllEvents, NEW x, NEW torn \in BOOLEAN, Reading(c), Read(c, x, e, torn),
               \/ torn = FALSE /\ x = Parsed(proc[c], e)
               \/ torn = TRUE /\ \E z \in Searched(proc[c], e, "head") : x = [z EXCEPT !.torn = e]
        PROVE  Continues(c)
    <2>1. PICK v : /\ v = [session |-> IF "session" \in e.tells THEN x.nr ELSE truth[c].session,
                           limit   |-> truth[c].limit \/ e.tells \cap {"limit", "reset"} # {},
                           torn    |-> truth[c].torn \/ torn]
      OBVIOUS
    <2>2. Follows(proc[c], x, truth[c], v)
      BY <1>0, <1>2, <2>1, ReadFollows DEF Reading
    <2>3. proc' = [proc EXCEPT ![c] = x] /\ truth' = [truth EXCEPT ![c] = v]
      BY <1>2, <2>1 DEF Read
    <2>4. proc'[c] = x /\ truth'[c] = v
      BY <2>3 DEF RunnerTypeOK
    <2>5. UNCHANGED <<spawned, active>> /\ heard' = heard + 1 /\ heard < MaxEvents
          /\ proc[c].running
      BY <1>2 DEF Read, Reading
    <2> QED BY <2>2, <2>3, <2>4, <2>5, Bounds DEF Continues, RunnerTypeOK
  <1>3. CASE ReadText(c)
    <2>1. [tells |-> {"limit"}, looks |-> "none"] \in AllEvents
      BY DEF AllEvents
    <2> QED BY <1>2, <1>3, <2>1 DEF ReadText
  <1>4. ASSUME NEW e \in Events, ReadEvent(c, e)
        PROVE  Continues(c)
    BY <1>2, <1>4, Bounds DEF ReadEvent
  <1>5. ASSUME NEW e \in Events, ReadHead(c, e)
        PROVE  Continues(c)
    BY <1>2, <1>5, Bounds DEF ReadHead
  <1> QED BY <1>1, <1>3, <1>4, <1>5 DEF Output
(* How a call ends: with nothing to say, or one report that carries the    *)
(* session and tells of a pause, of a limit, with a timer, or of the end.  *)
Closes(c) ==
    /\ proc[c].running
    /\ proc' = [proc EXCEPT ![c] = NoProcess] /\ truth' = [truth EXCEPT ![c] = Silence]
    /\ active' = NoCall
    /\ UNCHANGED <<tableVars, column, down, now, crashes, latest, forgotten, spawned, heard>>
EndsSilent(c) ==
    proc[c].abort = "cancel" /\ up' = up /\ UNCHANGED <<timer, pending>>
EndsSaying(c, m) ==
    /\ proc[c].abort # "cancel" /\ m \in Said /\ up' = Append(up, m) /\ m.session = proc[c].session
    /\ \/ /\ proc[c].abort = "pause" /\ m.status = "PAUSED"
          /\ UNCHANGED <<timer, pending>>
       \/ /\ proc[c].abort = "no" /\ proc[c].limit = "no" /\ m.status \in Final
          /\ UNCHANGED <<timer, pending>>
EndsLimited(c, at) ==
    /\ proc[c].abort = "no" /\ proc[c].limit # "no" /\ at \in 0..(Never - 1)
    /\ up' = Append(up, Tell("PAUSED_RATE_LIMIT", proc[c].session, at, NoFiles))
    /\ timer' = [timer EXCEPT ![c] = [session |-> proc[c].session, at |-> at,
                                      due |-> now + Timeout(IF at > now THEN at - now ELSE 1),
                                      set |-> now]]
    /\ pending' = c

(* A process that closes says nothing, reports an end, or waits out a      *)
(* limit.                                                                  *)
LEMMA EndAnatomy ==
  ASSUME RunnerTypeOK, now \in 0..MaxTime, NEW c \in Calls, NEW ok, NEW tree \in Trees, End(c, ok, tree)
  PROVE  /\ Closes(c)
         /\ \/ EndsSilent(c)
            \/ \E m \in Said : EndsSaying(c, m)
            \/ \E at \in 0..(Never - 1) : EndsLimited(c, at)
PROOF
  <1>0. proc[c] \in Process /\ 0 \in Times /\ Never \in Times
    BY Bounds DEF RunnerTypeOK, Times
  <1>1. Closes(c)
    BY DEF End, CloseProcess, Delete, Closes
  <1>2. PICK files : files = [names |-> ListOutputFiles(tree), of |-> tree]
    OBVIOUS
  <1>3. files \in Listed /\ NoFiles \in Listed
    BY <1>2 DEF Listed
  <1>4. CASE proc[c].abort # "no"
    <2>1. Outcome(proc[c], ok) = "aborted"
      BY <1>4 DEF Outcome
    <2>2. /\ up' = IF proc[c].abort = "cancel" THEN up
                   ELSE Append(up, Tell("PAUSED", proc[c].session, Never, NoFiles))
          /\ UNCHANGED <<timer, pending>>
      BY <2>1 DEF End
    <2>3. Tell("PAUSED", proc[c].session, Never, NoFiles) \in Said
      BY <1>0, <1>3 DEF Tell, Said, Reports, Sessions, Process
    <2>4. CASE proc[c].abort = "cancel"
      BY <1>1, <2>2, <2>4 DEF EndsSilent
    <2>5. CASE proc[c].abort = "pause"
      BY <1>1, <2>2, <2>3, <2>5 DEF EndsSaying, Tell
    <2> QED BY <1>0, <1>4, <2>4, <2>5 DEF Process
  <1>5. CASE proc[c].abort = "no" /\ proc[c].limit # "no"
    <2>1. Outcome(proc[c], ok) = "rate_limited"
      BY <1>5 DEF Outcome
    <2>2. PICK at \in RetryTimes(proc[c]) :
             /\ up' = Append(up, Tell("PAUSED_RATE_LIMIT", proc[c].session, at, NoFiles))
             /\ timer' = [timer EXCEPT ![c] = [session |-> proc[c].session, at |-> at,
                                               due |-> now + Timeout(Delay(at)), set |-> now]]
             /\ pending' = c
      BY <2>1 DEF End
    <2>3. at \in 0..(Never - 1)
      BY Bounds DEF RetryTimes
    <2> QED BY <1>1, <1>5, <2>2, <2>3 DEF EndsLimited, Delay
  <1>6. CASE proc[c].abort = "no" /\ proc[c].limit = "no"
    <2>1. Outcome(proc[c], ok) = IF ok THEN "completed" ELSE "failed"
      BY <1>6 DEF Outcome
    <2>2. PICK status \in Final :
             /\ up' = Append(up, Tell(status, proc[c].session, Never, files))
             /\ UNCHANGED <<timer, pending>>
      BY <1>2, <2>1 DEF End, Final
    <2>3. Tell(status, proc[c].session, Never, files) \in Said
      BY <1>0, <1>3 DEF Tell, Said, Reports, Final, Sessions, Process
    <2> QED BY <1>1, <1>6, <2>2, <2>3 DEF EndsSaying, Tell
  <1> QED BY <1>4, <1>5, <1>6

(* handleTask keeps the client's types.                                    *)
LEMMA StartType ==
  ASSUME RunnerTypeOK, NEW c \in Calls, NEW s \in Sessions, HandleTask(c, s), up \in Seq(Said)
  PROVE  RunnerTypeOK' /\ up' \in Seq(Said)
PROOF
  <1>1. Tell("RUNNING", NoSession, Never, NoFiles) \in Said
    BY Bounds DEF Tell, Said, Reports, Sessions, Times, Listed, NoSession
  <1>2. Whole \in AllEvents
    BY DEF Whole, AllEvents
  <1>3. spawned + 1 \in 0..MaxProcesses
    BY Bounds DEF HandleTask, Spawn, RunnerTypeOK
  <1>4. [NoProcess EXCEPT !.running = TRUE, !.nr = spawned + 1, !.session = s] \in Process
    BY <1>2, <1>3 DEF NoProcess, Process, Sessions
  <1>5. [Silence EXCEPT !.session = s] \in Truth
    BY DEF Silence, Truth, Sessions
  <1> QED BY <1>1, <1>3, <1>4, <1>5 DEF HandleTask, Spawn, RunnerTypeOK

(* The values of what is idle have their types.                            *)
LEMMA Idle ==
  /\ NoProcess \in Process /\ Silence \in Truth /\ NoTimer \in Timer
  /\ NoFiles \in Listed /\ [session |-> NoSession, retryAt |-> Never, files |-> NoFiles] \in Column
  /\ 0 \in 0..MaxEvents /\ 0 \in 0..MaxProcesses /\ 0 \in 0..MaxTime /\ NoSession \in Sessions
  /\ Never \in Times
BY Bounds DEF NoProcess, Process, Silence, Truth, NoTimer, Timer, Sessions, Times, NoSession, Listed,
              Column, Whole, AllEvents
-----------------------------------------------------------------------------
(* The types.                                                              *)

(* The statements of this module keep the type of a row.                   *)
LEMMA RowTypes ==
  ASSUME NEW x \in Row
  PROVE  /\ Inserted \in Row /\ Claimed(x, Host) \in Row /\ Requeued(x) \in Row
         /\ \A op \in {"cancel", "pause", "resume", "retry"} : Service!Written(op, x) \in Row
         /\ \A m \in Said : Reported(x, m.status) \in Row
PROOF
  <1>1. /\ Inserted \in Row /\ Claimed(x, Host) \in Row /\ Requeued(x) \in Row
        /\ Canceled(x) \in Row /\ Paused(x) \in Row
    BY Bounds DEF Inserted, Claimed, Requeued, Canceled, Paused, Row, NoRow, Statuses, Waiting,
                  Occupying, Finished
  <1>2. \A op \in {"cancel", "pause", "resume", "retry"} : Service!Written(op, x) \in Row
    BY <1>1 DEF Service!Written, Service!Canceled, Service!Paused, Service!Requeued,
                Canceled, Paused, Requeued
  <1>3. ASSUME NEW m \in Said
        PROVE  Reported(x, m.status) \in Row
    <2>1. m.status \in Statuses
      BY DEF Said, Reports, Statuses, Waiting, Occupying, Finished
    <2> QED BY <2>1 DEF Reported, ReportWrites, Row
  <1> QED BY <1>1, <1>2, <1>3

(* An order or a report is taken off its wire, or put on it.               *)
LEMMA WireTypes ==
  ASSUME NEW S, NEW s \in Seq(S)
  PROVE  /\ \A m \in S : Append(s, m) \in Seq(S)
         /\ s # <<>> => Head(s) \in S /\ Tail(s) \in Seq(S)
  OBVIOUS

(* At the start everything has its type.                                   *)
LEMMA TypedInit == RunInit => Typed
PROOF
  <1>1. NoRow \in Row
    BY DEF NoRow, Row
  <1> QED BY <1>1, Idle, MaxTasksAssumption, Bounds
          DEF RunInit, TableInit, RunnerInit, Typed, TableTypeOK, RunnerTypeOK, Reasons

(* Output keeps the types.                                                 *)
LEMMA TypedOutput ==
  ASSUME Typed, NEW c \in Calls, Output(c), proc[c].torn # Whole => truth[c].torn
  PROVE  Typed'
PROOF
  <1>1. Continues(c)
    BY OutputAnatomy DEF Typed
  <1>2. proc'[c] \in Process /\ truth'[c] \in Truth
    BY <1>1 DEF Continues, Follows
  <1>3. RunnerTypeOK'
    BY <1>1, <1>2 DEF Continues, RunnerTypeOK, Typed
  <1>4. latest' \in Sessions /\ forgotten' \subseteq Reasons
    BY <1>2 DEF Output, Typed, Truth, Sessions, Reasons
  <1>5. UNCHANGED <<tableVars, column, ends, timing, crashes>>
    BY DEF Output
  <1> QED BY <1>3, <1>4, <1>5 DEF Typed, TableTypeOK, tableVars, ends, timing

(* The close of a process keeps them.                                      *)
LEMMA TypedEnd ==
  ASSUME Typed, NEW c \in Calls, NEW ok, NEW tree \in Trees, End(c, ok, tree)
  PROVE  Typed'
PROOF
  <1>1. Closes(c) /\ (EndsSilent(c) \/ (\E m \in Said : EndsSaying(c, m))
                       \/ (\E at \in 0..(Never - 1) : EndsLimited(c, at)))
    BY EndAnatomy DEF Typed
  <1>2. RunnerTypeOK' /\ proc[c].session \in Sessions
    BY <1>1, Idle DEF Closes, RunnerTypeOK, Typed, Process, Sessions
  <1>3. UNCHANGED <<tableVars, column, down, now, crashes, latest, forgotten>>
    BY <1>1 DEF Closes
  <1>4. up' \in Seq(Said) /\ timer' \in [Calls -> Timer] /\ pending' \in Calls \cup {NoCall}
    <2>1. CASE EndsSilent(c)
      BY <2>1 DEF EndsSilent, Typed
    <2>2. ASSUME NEW m \in Said, EndsSaying(c, m)
          PROVE  up' \in Seq(Said) /\ timer' \in [Calls -> Timer] /\ pending' \in Calls \cup {NoCall}
      BY <2>2, WireTypes DEF EndsSaying, Typed
    <2>3. ASSUME NEW at \in 0..(Never - 1), EndsLimited(c, at)
          PROVE  up' \in Seq(Said) /\ timer' \in [Calls -> Timer] /\ pending' \in Calls \cup {NoCall}
      <3>1. at \in Times /\ now + Timeout(IF at > now THEN at - now ELSE 1) \in Times
        BY WaitTimes, Bounds DEF Typed, Times
      <3>2. Tell("PAUSED_RATE_LIMIT", proc[c].session, at, NoFiles) \in Said
        BY <1>2, <3>1, Idle DEF Tell, Said, Reports
      <3>3. PICK due \in Times : due = now + Timeout(IF at > now THEN at - now ELSE 1)
        BY <3>1
      <3>4. [session |-> proc[c].session, at |-> at, due |-> due, set |-> now] \in Timer
        BY <1>2, <3>1 DEF Timer, Typed
      <3> QED BY <2>3, <3>2, <3>3, <3>4, WireTypes DEF EndsLimited, Typed
    <2> QED BY <1>1, <2>1, <2>2, <2>3
  <1> QED BY <1>2, <1>3, <1>4 DEF Typed, TableTypeOK, tableVars
(* Every step keeps them.                                                  *)
LEMMA TypedStep ==
  ASSUME Typed, Understood, RunNext
  PROVE  Typed'
PROOF
  <1> USE DEF Typed
  <1>0. /\ row[Task] \in Row /\ Task \in Tasks
        /\ 0 \in Sessions /\ Never \in Times
    BY Bounds DEF TableTypeOK, Sessions, Times
  <1>1. CASE CreateTask
    <2>1. row' \in [Tasks -> Row] /\ created' \in 0..MaxTasks
      <3>1. Inserted \in Row
        BY <1>0, RowTypes
      <3> QED BY <1>0, <1>1, <3>1, MaxTasksAssumption DEF CreateTask, TableTypeOK
    <2> QED BY <1>1, <2>1 DEF CreateTask, ends, quiet, runnerVars, timing, TableTypeOK, RunnerTypeOK
  <1>2. ASSUME NEW op \in {"cancel", "pause", "resume", "retry"}, Ask(op)
        PROVE  Typed'
    <2>1. row' \in [Tasks -> Row]
      BY <1>0, <1>2, RowTypes DEF Ask, TableTypeOK
    <2>2. column' \in Column
      BY <1>0, <1>2, Idle DEF Ask, Column
    <2>3. down' \in Seq(Order)
      <3>1. Service!SendsAbort(op, row[Task]) => op \in {"cancel", "pause"}
        BY DEF Service!SendsAbort
      <3>2. op \in {"cancel", "pause"} => [order |-> op, session |-> NoSession] \in Order
        BY Idle DEF Order
      <3> QED BY <1>2, <3>1, <3>2, WireTypes DEF Ask
    <2> QED BY <1>2, <2>1, <2>2, <2>3 DEF Ask, quiet, runnerVars, timing, TableTypeOK, RunnerTypeOK
  <1>3. CASE HandOut
    <2>1. row' \in [Tasks -> Row]
      BY <1>0, <1>3, RowTypes DEF HandOut, TableTypeOK
    <2>2. [order |-> "assign", session |-> column.session] \in Order
      BY DEF Order, Column
    <2>3. down' \in Seq(Order)
      BY <1>3, <2>2, WireTypes DEF HandOut
    <2>4. forgotten' \subseteq Reasons
      BY <1>3 DEF HandOut, Reasons
    <2> QED BY <1>3, <2>1, <2>3, <2>4 DEF HandOut, quiet, runnerVars, timing, TableTypeOK, RunnerTypeOK
  <1>4. CASE ApplyReport
    <2>1. PICK m : m = Head(up)
      OBVIOUS
    <2>2. m \in Said /\ up' \in Seq(Said)
      BY <1>4, <2>1, WireTypes DEF ApplyReport
    <2>3. row' \in [Tasks -> Row]
      BY <1>0, <1>4, <2>1, <2>2, RowTypes DEF ApplyReport, TableTypeOK
    <2>4. column' = IF ~Writable(row[Task]) THEN column
                    ELSE [session |-> Coalesce(m.session, column.session), retryAt |-> m.at,
                          files |-> IF m.status \in Final THEN m.files ELSE column.files]
      BY <1>4, <2>1 DEF ApplyReport
    <2>5. column' \in Column
      BY <2>2, <2>4 DEF Column, Said, Coalesce
    <2> QED BY <1>4, <2>2, <2>3, <2>5
            DEF ApplyReport, quiet, runnerVars, timing, TableTypeOK, RunnerTypeOK
  <1>5. ASSUME NEW c \in Calls, TakeAssign(c)
        PROVE  Typed'
    <2>1. Head(down).session \in Sessions /\ down' \in Seq(Order) /\ HandleTask(c, Head(down).session)
      BY <1>5, WireTypes DEF TakeAssign, Order
    <2>2. RunnerTypeOK' /\ up' \in Seq(Said)
      BY <2>1, StartType
    <2>3. forgotten' \subseteq Reasons
      BY <2>1 DEF HandleTask, Reasons
    <2> QED BY <1>5, <2>1, <2>2, <2>3 DEF TakeAssign, TableTypeOK, tableVars, timing
  <1>6. ASSUME NEW c \in Calls, Retry(c)
        PROVE  Typed'
    <2>1. timer[c].session \in Sessions /\ HandleTask(c, timer[c].session)
      BY <1>6 DEF Retry, Timer
    <2>2. RunnerTypeOK' /\ up' \in Seq(Said)
      BY <2>1, StartType
    <2>3. forgotten' \subseteq Reasons
      BY <2>1 DEF HandleTask, Reasons
    <2>4. timer' \in [Calls -> Timer] /\ pending' \in Calls \cup {NoCall}
      BY <1>6, Idle DEF Retry
    <2> QED BY <1>6, <2>2, <2>3, <2>4 DEF Retry, TableTypeOK, tableVars
  <1>7. ASSUME NEW c \in Calls, Output(c)
        PROVE  Typed'
    BY <1>7, TypedOutput DEF Understood
  <1>8. ASSUME NEW c \in Calls, NEW ok \in BOOLEAN, NEW tree \in Trees, End(c, ok, tree)
        PROVE  Typed'
    BY <1>8, TypedEnd
  <1>9. CASE TakeAbort
    <2>1. down' \in Seq(Order) /\ Head(down).order \in {"pause", "cancel"}
      BY <1>9, WireTypes DEF TakeAbort
    <2>2. PICK reason \in {"pause", "cancel"} : AbortRun(reason)
      BY <1>9 DEF TakeAbort
    <2>3. RunnerTypeOK'
      <3>1. active # NoCall => [proc[active] EXCEPT !.abort = reason] \in Process
        BY DEF RunnerTypeOK, Process
      <3>2. proc' \in [Calls -> Process]
        BY <2>2, <3>1 DEF AbortRun, RunnerTypeOK
      <3> QED BY <2>2, <3>2 DEF AbortRun, RunnerTypeOK
    <2>4. timer' \in [Calls -> Timer] /\ pending' \in Calls \cup {NoCall}
      BY <1>9, Idle DEF TakeAbort
    <2> QED BY <1>9, <2>1, <2>3, <2>4 DEF TakeAbort, TableTypeOK, tableVars
  <1>10. CASE Tick
    <2>1. now' \in 0..MaxTime
      BY <1>10, Bounds DEF Tick
    <2> QED BY <1>10, <2>1 DEF Tick, TableTypeOK, RunnerTypeOK, tableVars, runnerVars, ends
  <1>11. CASE Crash
    <2>1. row' \in [Tasks -> Row]
      BY <1>0, <1>11, RowTypes DEF Crash, TableTypeOK
    <2>2. RunnerTypeOK' /\ timer' \in [Calls -> Timer] /\ pending' \in Calls \cup {NoCall}
      BY <1>11, Idle DEF Crash, RunnerTypeOK
    <2>3. forgotten' \subseteq Reasons
      BY <1>11 DEF Crash, Reasons
    <2> QED BY <1>11, <2>1, <2>2, <2>3 DEF Crash, TableTypeOK
  <1> QED BY <1>1, <1>2, <1>3, <1>4, <1>5, <1>6, <1>7, <1>8, <1>9, <1>10, <1>11 DEF RunNext

-----------------------------------------------------------------------------
(* What the client knows: its output, its timers and its two maps.         *)

Client == Understood /\ Timers /\ Entered

(* The actions of the server, and time, leave the client as it is.         *)
LEMMA QuietSteps ==
  ASSUME \/ CreateTask \/ (\E op \in {"cancel", "pause", "resume", "retry"} : Ask(op))
         \/ HandOut \/ ApplyReport \/ Tick
  PROVE  UNCHANGED <<proc, truth, spawned, active, timer, pending, crashes, latest>>
BY DEF CreateTask, Ask, HandOut, ApplyReport, Tick, quiet, runnerVars, timing

(* A step of the server leaves the client as it is.                        *)
LEMMA ClientQuiet ==
  ASSUME Client, UNCHANGED <<proc, truth, timer, active, pending>>
  PROVE  Client'
BY DEF Client, Understood, Timers, Entered

(* The client starts without processes.                                    *)
LEMMA ClientInit == RunInit => Client
BY Bounds DEF RunInit, RunnerInit, Client, Understood, Timers, Entered, NoProcess, Silence

(* Starting a process: it has said nothing, and its entry is the task's.   *)
LEMMA ClientStart ==
  ASSUME Typed, Client, NEW c \in Calls, NEW s \in Sessions, HandleTask(c, s),
         timer' = [timer EXCEPT ![c] = NoTimer],
         \/ pending' = NoCall
         \/ pending' = pending /\ timer[c] = NoTimer
  PROVE  Client'
PROOF
  <1> USE DEF Client
  <1>1. /\ proc' = [proc EXCEPT ![c] = [NoProcess EXCEPT !.running = TRUE, !.nr = spawned + 1,
                                                         !.session = s]]
        /\ truth' = [truth EXCEPT ![c] = [Silence EXCEPT !.session = s]]
        /\ active' = c
    BY DEF HandleTask, Spawn
  <1>2. /\ proc'[c].running /\ proc'[c].torn = Whole /\ proc'[c].session = s /\ proc'[c].limit = "no"
        /\ truth'[c].session = s /\ truth'[c].limit = FALSE
        /\ \A k \in Calls \ {c} : proc'[k] = proc[k] /\ truth'[k] = truth[k]
    BY <1>1 DEF Typed, RunnerTypeOK, NoProcess, Silence
  <1>3. timer'[c] = NoTimer /\ \A k \in Calls \ {c} : timer'[k] = timer[k]
    BY DEF Typed
  <1>4. Understood'
    BY <1>2 DEF Understood
  <1>5. Timers'
    BY <1>2, <1>3 DEF Timers
  <1>6. Entered'
    BY <1>1, <1>2, <1>3, Bounds DEF Entered
  <1> QED BY <1>4, <1>5, <1>6

(* Output: unless it was torn the client has understood it.                *)
LEMMA ClientOutput ==
  ASSUME Typed, Client, NEW c \in Calls, Output(c)
  PROVE  Client'
PROOF
  <1> USE DEF Client
  <1>1. Continues(c)
    BY OutputAnatomy DEF Typed, Understood
  <1>2. /\ proc[c].running /\ active' = active
        /\ Follows(proc[c], proc'[c], truth[c], truth'[c])
        /\ \A k \in Calls \ {c} : proc'[k] = proc[k] /\ truth'[k] = truth[k]
    BY <1>1 DEF Continues, Typed, RunnerTypeOK
  <1>3. UNCHANGED <<timer, pending>>
    BY DEF Output, timing
  <1>4. Understood'
    BY <1>2 DEF Understood, Follows
  <1>5. Timers'
    BY <1>2, <1>3 DEF Timers
  <1>6. Entered'
    BY <1>2, <1>3 DEF Entered, Follows
  <1> QED BY <1>4, <1>5, <1>6

(* The close of a process: its timer is set for no less than the time told,*)
(* and entries go with their runs.                                         *)
LEMMA ClientEnd ==
  ASSUME Typed, Client, NEW c \in Calls, NEW ok, NEW tree \in Trees, End(c, ok, tree)
  PROVE  Client'
PROOF
  <1> USE DEF Client
  <1>1. Closes(c) /\ (EndsSilent(c) \/ (\E m \in Said : EndsSaying(c, m))
                       \/ (\E at \in 0..(Never - 1) : EndsLimited(c, at)))
    BY EndAnatomy DEF Typed
  <1>2. /\ proc[c].running /\ active' = NoCall /\ proc'[c] = NoProcess /\ truth'[c] = Silence
        /\ \A k \in Calls \ {c} : proc'[k] = proc[k] /\ truth'[k] = truth[k]
    BY <1>1 DEF Closes, Typed, RunnerTypeOK
  <1>3. timer[c] = NoTimer
    BY <1>2 DEF Timers
  <1>4. Understood'
    BY <1>2 DEF Understood, NoProcess, Silence
  <1>5. \/ UNCHANGED <<timer, pending>>
        \/ /\ timer' = [timer EXCEPT ![c] = timer'[c]] /\ pending' = c /\ timer'[c] # NoTimer
           /\ timer'[c].due = SetFor(timer'[c])
    <2>1. CASE UNCHANGED <<timer, pending>>
      BY <2>1
    <2>2. ASSUME NEW at \in 0..(Never - 1), EndsLimited(c, at)
          PROVE  /\ timer' = [timer EXCEPT ![c] = timer'[c]] /\ pending' = c /\ timer'[c] # NoTimer
                 /\ timer'[c].due = SetFor(timer'[c])
      <3>1. PICK due : due = now + Timeout(IF at > now THEN at - now ELSE 1)
        OBVIOUS
      <3>2. timer' = [timer EXCEPT ![c] = [session |-> proc[c].session, at |-> at, due |-> due,
                                          set |-> now]] /\ pending' = c
        BY <2>2, <3>1 DEF EndsLimited
      <3>3. timer'[c] = [session |-> proc[c].session, at |-> at, due |-> due, set |-> now]
        BY <3>2 DEF Typed
      <3>4. timer'[c].due = SetFor(timer'[c])
        BY <3>1, <3>3 DEF SetFor
      <3>5. timer'[c] # NoTimer
        BY <3>3, Bounds DEF NoTimer
      <3> QED BY <3>2, <3>3, <3>4, <3>5
    <2> QED BY <1>1, <2>1, <2>2 DEF EndsSilent, EndsSaying
  <1>6. Timers'
    BY <1>2, <1>5 DEF Timers, NoProcess, Typed
  <1>7. Entered'
    BY <1>2, <1>3, <1>5, Bounds DEF Entered, NoProcess, Typed
  <1> QED BY <1>4, <1>6, <1>7

(* An abort: the process is told, or the timer is cleared with its entry.  *)
LEMMA ClientAbort ==
  ASSUME Typed, Client, TakeAbort
  PROVE  Client'
PROOF
  <1> USE DEF Client
  <1>1. PICK reason \in {"pause", "cancel"} : reason = Head(down).order
    BY DEF TakeAbort
  <1>2. /\ proc' = IF active = NoCall THEN proc ELSE [proc EXCEPT ![active].abort = reason]
        /\ UNCHANGED <<truth, active>> /\ pending' = NoCall
        /\ timer' = IF pending = NoCall THEN timer ELSE [timer EXCEPT ![pending] = NoTimer]
    BY <1>1 DEF TakeAbort, AbortRun
  <1>3. ASSUME NEW k \in Calls
        PROVE  /\ proc'[k].running = proc[k].running /\ proc'[k].torn = proc[k].torn
               /\ proc'[k].session = proc[k].session /\ proc'[k].limit = proc[k].limit
               /\ proc'[k].nr = proc[k].nr
               /\ ~proc[k].running => proc'[k] = proc[k]
               /\ timer'[k] \in {timer[k], NoTimer}
    <2>1. proc[k] \in Process
      BY DEF Typed, RunnerTypeOK
    <2>2. active = k => proc[k].running
      BY DEF Entered
    <2> QED BY <1>2, <2>1, <2>2, Bounds DEF Typed, RunnerTypeOK, Process
  <1>4. Understood'
    BY <1>2, <1>3 DEF Understood
  <1>5. Timers'
    BY <1>2, <1>3 DEF Timers
  <1>6. Entered'
    BY <1>2, <1>3, Bounds DEF Entered
  <1> QED BY <1>4, <1>5, <1>6

(* Every step keeps what the client has understood and entered.            *)
LEMMA ClientStep ==
  ASSUME Typed, Client, RunNext
  PROVE  Client'
PROOF
  <1>1. CASE \/ CreateTask \/ (\E op \in {"cancel", "pause", "resume", "retry"} : Ask(op))
             \/ HandOut \/ ApplyReport \/ Tick
    BY <1>1, QuietSteps, ClientQuiet
  <1>2. ASSUME NEW c \in Calls, TakeAssign(c)
        PROVE  Client'
    <2>1. Head(down).session \in Sessions /\ HandleTask(c, Head(down).session)
      BY <1>2, WireTypes DEF TakeAssign, Order, Typed
    <2>2. timer[c] = NoTimer /\ timer' = timer /\ pending' = pending
      BY <1>2 DEF TakeAssign, Free, timing
    <2>3. timer' = [timer EXCEPT ![c] = NoTimer]
      BY <2>2 DEF Typed
    <2> QED BY <2>1, <2>2, <2>3, ClientStart
  <1>3. ASSUME NEW c \in Calls, Retry(c)
        PROVE  Client'
    BY <1>3, ClientStart DEF Retry, Timer, Typed
  <1>4. ASSUME NEW c \in Calls, Output(c)
        PROVE  Client'
    BY <1>4, ClientOutput
  <1>5. ASSUME NEW c \in Calls, NEW ok \in BOOLEAN, NEW tree \in Trees, End(c, ok, tree)
        PROVE  Client'
    BY <1>5, ClientEnd
  <1>6. CASE TakeAbort
    BY <1>6, ClientAbort
  <1>7. CASE Crash
    BY <1>7, Bounds DEF Crash, Client, Understood, Timers, Entered, NoProcess, Silence
  <1> QED BY <1>1, <1>2, <1>3, <1>4, <1>5, <1>6, <1>7 DEF RunNext
-----------------------------------------------------------------------------
(* The row and the two wires.                                              *)

(* The elements of a queue with one more.                                  *)
LEMMA Appended ==
  ASSUME NEW S, NEW s \in Seq(S), NEW m \in S, NEW r, r = Append(s, m)
  PROVE  /\ Len(s) \in Nat /\ Len(s) + 1 \in DOMAIN r /\ r[Len(s) + 1] = m
         /\ \A i \in DOMAIN s : i \in DOMAIN r /\ r[i] = s[i] /\ i \in 1..Len(s)
         /\ \A i \in DOMAIN r : (i \in DOMAIN s /\ r[i] = s[i]) \/ (i = Len(s) + 1 /\ r[i] = m)
  OBVIOUS

(* The elements of a queue with one less.                                  *)
LEMMA Taken ==
  ASSUME NEW S, NEW s \in Seq(S), s # <<>>, NEW r, r = Tail(s)
  PROVE  /\ 1 \in DOMAIN s /\ Head(s) = s[1] /\ DOMAIN s \subseteq Nat /\ DOMAIN r \subseteq Nat
         /\ \A i \in DOMAIN r : i + 1 \in DOMAIN s /\ r[i] = s[i + 1]
         /\ \A i \in DOMAIN s : i = 1 \/ (i - 1 \in DOMAIN r /\ r[i - 1] = s[i])
  OBVIOUS

(* A row that is not cancelled is not being cancelled, and the other way   *)
(* round: a step that cancels nothing keeps Past, as long as the task is   *)
(* there.                                                                  *)
LEMMA PastKept ==
  ASSUME Past, row'[Task].status # "NONE", created' # 0, Canceling' => Canceling,
         row[Task].status = "CANCELED" => row'[Task].status = "CANCELED"
  PROVE  Past'
BY DEF Past

(* A task that has a process or timer has been created.                    *)
LEMMA CallsUse ==
  ASSUME Past, NEW c \in Calls, proc[c].running \/ timer[c] # NoTimer
  PROVE  row[Task].status # "NONE" /\ created # 0
BY DEF Past, InUse, Free

(* There is no task at the start, and no order, report or run.             *)
LEMMA PastInit == RunInit => Past
BY Bounds DEF RunInit, RunnerInit, TableInit, Past, NoRow, InUse, Free, NoProcess, Canceling

(* A step that sends no cancel and passes none on brings none under way.   *)
LEMMA CancelsLess ==
  ASSUME Typed,
         \/ down' = down
         \/ down # <<>> /\ down' = Tail(down)
         \/ \E m \in Order : down' = Append(down, m) /\ m.order # "cancel",
         \A c \in Calls : proc'[c].abort = "cancel" => Canceling
  PROVE  Canceling' => Canceling
PROOF
  <1> SUFFICES ASSUME Canceling', ~Canceling  PROVE FALSE
    OBVIOUS
  <1>1. PICK i \in DOMAIN down' : down'[i].order = "cancel"
    BY DEF Canceling
  <1>2. down \in Seq(Order)
    BY DEF Typed
  <1>3. CASE down' = down
    BY <1>1, <1>3 DEF Canceling
  <1>4. CASE down # <<>> /\ down' = Tail(down)
    BY <1>1, <1>2, <1>4, Taken DEF Canceling
  <1>5. ASSUME NEW m \in Order, down' = Append(down, m), m.order # "cancel"
        PROVE  FALSE
    BY <1>1, <1>2, <1>5, Appended DEF Canceling
  <1> QED BY <1>3, <1>4, <1>5

(* While a cancel is under way the row says CANCELED, and nothing is under *)
(* way before the task is created.                                         *)
LEMMA PastStep ==
  ASSUME Typed, Client, Past, RunNext
  PROVE  Past'
PROOF
  <1>0. /\ row[Task] \in Row /\ Task \in Tasks /\ DOMAIN row = Tasks
        /\ down \in Seq(Order) /\ up \in Seq(Said) /\ created \in 0..MaxTasks /\ MaxTasks \in Nat
        /\ \A c \in Calls : proc[c] \in Process
    BY Bounds, MaxTasksAssumption DEF Typed, TableTypeOK, RunnerTypeOK
  <1>1. CASE CreateTask
    <2>1. MaxTasks = 1
      BY HostAssumption, MaxTasksAssumption DEF Tasks
    <2>2. created = 0 /\ created' = 1 /\ row'[Task].status = "QUEUED"
      BY <1>0, <1>1, <2>1 DEF CreateTask, Inserted, NoRow
    <2>3. down' = down /\ proc' = proc
      BY <1>1 DEF CreateTask, ends, quiet, runnerVars
    <2>4. row[Task].status = "NONE"
      BY <2>2 DEF Past
    <2>5. ~Canceling
      BY <2>4 DEF Past
    <2> QED BY <2>2, <2>3, <2>5 DEF Past, Canceling
  <1>2. ASSUME NEW op \in {"cancel", "pause", "resume", "retry"}, Ask(op)
        PROVE  Past'
    <2>1. /\ Exists(Task) /\ Service!Allowed(op, row[Task].status) /\ created' = created
          /\ row' = [row EXCEPT ![Task] = Service!Written(op, row[Task])]
      BY <1>2 DEF Ask
    <2>2. row[Task].status \notin {"NONE", "CANCELED"} /\ created' # 0
      BY <2>1 DEF Exists, Service!Allowed, Finished, Waiting, Occupying, Service!Finished, Service!Waiting,
                  Service!Occupying, Past
    <2>3. row'[Task].status = CASE op = "cancel" -> "CANCELED" [] op = "pause" -> "PAUSED" [] OTHER -> "QUEUED"
      BY <1>0, <2>1 DEF Service!Written, Service!Canceled, Service!Paused, Service!Requeued, Row
    <2>4. proc' = proc
      BY <1>2 DEF Ask, quiet, runnerVars
    <2>5. CASE op = "cancel"
      BY <2>2, <2>3, <2>5 DEF Past
    <2>6. CASE op # "cancel"
      <3>1. \/ down' = down
            \/ \E m \in Order : down' = Append(down, m) /\ m.order # "cancel"
        <4>1. Service!SendsAbort(op, row[Task]) => op = "pause"
          BY <2>6 DEF Service!SendsAbort
        <4>2. op = "pause" => [order |-> op, session |-> NoSession] \in Order
          BY Idle DEF Order
        <4> QED BY <1>2, <2>6, <4>1, <4>2 DEF Ask
      <3>2. Canceling' => Canceling
        BY <2>4, <3>1, CancelsLess DEF Canceling
      <3>3. row'[Task].status # "NONE"
        BY <2>3
      <3> QED BY <2>2, <3>2, <3>3, PastKept
    <2> QED BY <2>5, <2>6
  <1>3. CASE HandOut
    <2>1. row[Task].status = "QUEUED" /\ row'[Task].status = "RUNNING" /\ created' = created /\ proc' = proc
      BY <1>0, <1>3 DEF HandOut, Claimed, quiet, runnerVars, Row
    <2>2. [order |-> "assign", session |-> column.session] \in Order
      BY DEF Order, Typed, Column
    <2>3. Canceling' => Canceling
      BY <1>3, <2>1, <2>2, CancelsLess DEF HandOut, Canceling
    <2> QED BY <2>1, <2>3, PastKept DEF Past
  <1>4. CASE ApplyReport
    <2>1. PICK m \in Said : m = Head(up)
      BY <1>0, <1>4, WireTypes DEF ApplyReport
    <2>2. /\ row' = [row EXCEPT ![Task] = Reported(row[Task], m.status)] /\ up # <<>>
          /\ created' = created /\ down' = down /\ proc' = proc
      BY <1>4, <2>1 DEF ApplyReport, quiet, runnerVars
    <2>3. row[Task].status # "NONE" /\ created # 0
      BY <2>2 DEF Past
    <2>4. row'[Task].status = IF row[Task].status = "CANCELED" THEN "CANCELED" ELSE m.status
      BY <1>0, <2>2, <2>3 DEF Reported, ReportWrites, Writable, Row
    <2>5. m.status # "NONE"
      BY DEF Said, Reports
    <2>6. Canceling' => Canceling
      BY <2>2 DEF Canceling
    <2> QED BY <2>2, <2>3, <2>4, <2>5, <2>6, PastKept
  <1>5. ASSUME NEW c \in Calls, NEW s, HandleTask(c, s), UNCHANGED tableVars,
               row[Task].status # "NONE", down' = down \/ (down # <<>> /\ down' = Tail(down))
        PROVE  Past'
    <2>1. proc' = [proc EXCEPT ![c] = [NoProcess EXCEPT !.running = TRUE, !.nr = spawned + 1,
                                                        !.session = s]]
      BY <1>5 DEF HandleTask, Spawn
    <2>2. proc'[c].abort = "no" /\ \A k \in Calls \ {c} : proc'[k] = proc[k]
      BY <2>1 DEF Typed, RunnerTypeOK, NoProcess
    <2>3. Canceling' => Canceling
      BY <1>5, <2>2, CancelsLess DEF Canceling
    <2> QED BY <1>5, <2>3, PastKept DEF tableVars, Past
  <1>6. ASSUME NEW c \in Calls, TakeAssign(c)
        PROVE  Past'
    BY <1>5, <1>6 DEF TakeAssign, Past
  <1>7. ASSUME NEW c \in Calls, Retry(c)
        PROVE  Past'
    BY <1>5, <1>7, CallsUse DEF Retry
  <1>8. ASSUME NEW c \in Calls, Output(c)
        PROVE  Past'
    <2>1. Continues(c)
      BY <1>8, OutputAnatomy DEF Typed, Client, Understood
    <2>2. /\ proc[c].running /\ proc'[c].abort = proc[c].abort
          /\ \A k \in Calls \ {c} : proc'[k] = proc[k]
      BY <2>1 DEF Continues, Follows, Typed, RunnerTypeOK
    <2>3. UNCHANGED <<row, created, down>>
      BY <1>8 DEF Output, tableVars, ends
    <2>4. Canceling' => Canceling
      BY <2>2, <2>3, CancelsLess DEF Canceling
    <2> QED BY <2>2, <2>3, <2>4, CallsUse, PastKept
  <1>9. ASSUME NEW c \in Calls, NEW ok \in BOOLEAN, NEW tree \in Trees, End(c, ok, tree)
        PROVE  Past'
    <2>1. Closes(c)
      BY <1>9, EndAnatomy DEF Typed
    <2>2. /\ proc[c].running /\ proc'[c].abort = "no" /\ UNCHANGED <<row, created, down>>
          /\ \A k \in Calls \ {c} : proc'[k] = proc[k]
      BY <2>1 DEF Closes, NoProcess, Typed, RunnerTypeOK, tableVars
    <2>3. Canceling' => Canceling
      BY <2>2, CancelsLess DEF Canceling
    <2> QED BY <2>2, <2>3, CallsUse, PastKept
  <1>10. CASE TakeAbort
    <2>1. down # <<>> /\ down' = Tail(down) /\ UNCHANGED <<row, created>>
      BY <1>10 DEF TakeAbort, tableVars
    <2>2. PICK reason : reason = Head(down).order
      OBVIOUS
    <2>3. proc' = IF active = NoCall THEN proc ELSE [proc EXCEPT ![active].abort = reason]
      BY <1>10, <2>2 DEF TakeAbort, AbortRun
    <2>4. reason = "cancel" => Canceling
      BY <1>0, <2>1, <2>2, Taken DEF Canceling
    <2>5. ASSUME NEW c \in Calls, proc'[c].abort = "cancel"
          PROVE  Canceling
      <3>1. proc'[c].abort = proc[c].abort \/ proc'[c].abort = reason
        BY <1>0, <2>3, Bounds DEF Typed, RunnerTypeOK, Process
      <3> QED BY <2>4, <2>5, <3>1 DEF Canceling
    <2>6. Canceling' => Canceling
      BY <2>1, <2>5, CancelsLess
    <2> QED BY <2>1, <2>6, PastKept DEF Past
  <1>11. CASE Tick
    <2>1. UNCHANGED <<row, created, down, up, proc, timer>>
      BY <1>11 DEF Tick, tableVars, runnerVars, ends
    <2> QED BY <2>1 DEF Past, Canceling, InUse, Free
  <1>12. CASE Crash
    <2>1. /\ row' = [row EXCEPT ![Task] = IF Task \in Occupied(Host) THEN Requeued(row[Task]) ELSE row[Task]]
          /\ created' = created /\ down' = <<>> /\ up' = <<>>
          /\ proc' = [c \in Calls |-> NoProcess] /\ timer' = [c \in Calls |-> NoTimer]
      BY <1>12 DEF Crash
    <2>2. (row'[Task].status = "NONE") <=> (row[Task].status = "NONE")
      BY <1>0, <2>1 DEF Occupied, Occupying, Requeued, Row
    <2>3. InUse' = {} /\ ~Canceling'
      BY <2>1 DEF InUse, Free, NoProcess, Canceling
    <2> QED BY <2>1, <2>2, <2>3 DEF Past
  <1> QED BY <1>1, <1>2, <1>3, <1>4, <1>6, <1>7, <1>8, <1>9, <1>10, <1>11, <1>12 DEF RunNext
-----------------------------------------------------------------------------
(* Everything so far holds together.                                       *)

RunInv == Typed /\ Client /\ Past

(* Every step preserves the three parts together.                          *)
LEMMA RunInvStep ==
  ASSUME RunInv, [RunNext /\ Bounded]_runVars
  PROVE  RunInv'
PROOF
  <1>1. CASE RunNext
    BY <1>1, TypedStep, ClientStep, PastStep DEF RunInv, Client
  <1>2. CASE UNCHANGED runVars
    <2>1. Typed'
      BY <1>2 DEF runVars, tableVars, runnerVars, ends, timing, RunInv, Typed, TableTypeOK, RunnerTypeOK
    <2>2. Client'
      BY <1>2, ClientQuiet DEF runVars, runnerVars, timing, RunInv
    <2>3. Past'
      BY <1>2 DEF runVars, tableVars, runnerVars, ends, timing, RunInv, Past, Canceling, InUse, Free
    <2> QED BY <2>1, <2>2, <2>3 DEF RunInv
  <1> QED BY <1>1, <1>2

(* So they hold of every behaviour.                                        *)
LEMMA RunInvariance == RunSpec => []RunInv
PROOF
  <1>1. RunInit => RunInv
    BY TypedInit, ClientInit, PastInit DEF RunInv
  <1> QED BY <1>1, RunInvStep, PTL DEF RunSpec

(* Everything the server and the client keep of a task has its type, down  *)
(* to the sessions and times a timer and the row have been told.           *)
THEOREM RunTypes == RunSpec => []RunTypeOK
PROOF
  <1>1. RunInv => RunTypeOK
    BY DEF RunInv, Typed, RunTypeOK, Column, Timer, Sessions, Times, Reasons
  <1> QED BY <1>1, RunInvariance, PTL

(* There is nothing to list in a directory a task has never run in.        *)
LEMMA NoneListed == IsListing(<<>>, EmptyTree)
PROOF
  <1>1. \A n \in Entries : EmptyTree.kind[n] # "file"
    BY DEF EmptyTree
  <1>2. Visible(EmptyTree) = {}
    BY <1>1 DEF Visible
  <1> QED BY <1>2, TreesAssumption, FS_EmptySet DEF IsListing, ToSet

(* If the list of each directory is right - which the run checks tree by   *)
(* tree, the recursion of `walk' being out of the provers' reach - then    *)
(* whatever the server keeps of the task, and whatever it is about to be   *)
(* told, is the list of one directory: no report that comes late or has no *)
(* files mixes it with another's (realtime.gateway.ts:147-156).            *)
THEOREM ListingsKept ==
  ASSUME \A tree \in Trees : IsListing(ListOutputFiles(tree), tree)
  PROVE  RunSpec => []FilesAreListed
PROOF
  <1>1. \A files \in Listed : IsListing(files.names, files.of)
    BY NoneListed DEF Listed, NoFiles
  <1>2. ASSUME Typed
        PROVE  FilesAreListed
    <2>1. column \in Column /\ \A i \in DOMAIN up : up[i] \in Said
      BY <1>2 DEF Typed
    <2>2. column.files \in Listed
      BY <2>1 DEF Column
    <2>3. \A i \in DOMAIN up : up[i].files \in Listed
      BY <2>1 DEF Said
    <2> QED BY <1>1, <2>2, <2>3 DEF FilesAreListed, Lists
  <1> QED BY <1>2, RunInvariance, PTL DEF RunInv

(* Who starts a process and who ends one.                                  *)
LEMMA RunningMoves ==
  ASSUME RunInv, RunNext, NEW c \in Calls
  PROVE  \/ proc'[c].running = proc[c].running /\ (timer[c] # NoTimer => ~proc[c].running)
         \/ TakeAssign(c) \/ Retry(c)
         \/ \E ok \in BOOLEAN, tree \in Trees : End(c, ok, tree)
         \/ crashes' # crashes /\ ~proc'[c].running
PROOF
  <1> USE DEF RunInv
  <1>0. timer[c] # NoTimer => ~proc[c].running
    BY DEF Client, Timers
  <1>1. CASE \/ CreateTask \/ (\E op \in {"cancel", "pause", "resume", "retry"} : Ask(op))
             \/ HandOut \/ ApplyReport \/ Tick
    BY <1>0, <1>1, QuietSteps
  <1>2. ASSUME NEW k \in Calls, k # c, TakeAssign(k) \/ Retry(k)
        PROVE  proc'[c].running = proc[c].running
    BY <1>2 DEF TakeAssign, Retry, HandleTask, Spawn, Typed, RunnerTypeOK
  <1>3. ASSUME NEW k \in Calls, Output(k)
        PROVE  proc'[c].running = proc[c].running
    <2>1. Continues(k)
      BY <1>3, OutputAnatomy DEF Typed, Client, Understood
    <2>2. proc[k].running /\ proc'[k].running /\ proc' = [proc EXCEPT ![k] = proc'[k]]
      BY <2>1 DEF Continues, Follows
    <2>3. CASE k = c
      BY <2>2, <2>3 DEF Typed, RunnerTypeOK, Process
    <2>4. CASE k # c
      BY <2>2, <2>4 DEF Typed, RunnerTypeOK
    <2> QED BY <2>3, <2>4
  <1>4. ASSUME NEW k \in Calls, k # c, NEW ok \in BOOLEAN, NEW tree \in Trees, End(k, ok, tree)
        PROVE  proc'[c].running = proc[c].running
    BY <1>4 DEF End, CloseProcess, Typed, RunnerTypeOK
  <1>5. CASE TakeAbort
    <2>1. PICK reason : AbortRun(reason)
      BY <1>5 DEF TakeAbort
    <2>2. proc[c] \in Process /\ proc \in [Calls -> Process]
      BY DEF Typed, RunnerTypeOK
    <2>3. proc'[c].running = proc[c].running
      BY <2>1, <2>2 DEF AbortRun, Process
    <2> QED BY <1>0, <2>3
  <1>6. CASE Crash
    BY <1>6 DEF Crash, NoProcess, Typed
  <1> QED BY <1>0, <1>1, <1>2, <1>3, <1>4, <1>5, <1>6 DEF RunNext

(* A run is reported as what its process has said, unless a chunk has torn *)
(* it or the user has asked otherwise (claude-runner.ts:148-199).          *)
THEOREM ReportedAsSaid == RunSpec => UnderstoodUnlessTorn
PROOF
  <1>1. ASSUME RunInv, RunNext, NEW c \in Calls, Ends(c)
        PROVE  IF proc[c].abort = "cancel" THEN up' = up
               ELSE LET m == up'[Len(up')]
                    IN  /\ m.status \in Told(c)
                        /\ truth[c].torn \/ m.session = truth[c].session
    <2> USE DEF RunInv
    <2>1. PICK ok \in BOOLEAN, tree \in Trees : End(c, ok, tree)
      <3>1. proc[c].running /\ ~proc'[c].running /\ crashes' = crashes
        BY <1>1 DEF Ends
      <3>2. (TakeAssign(c) \/ Retry(c)) => proc'[c].running
        BY <1>1 DEF TakeAssign, Retry, HandleTask, Spawn, Typed, RunnerTypeOK, NoProcess
      <3> QED BY <1>1, <3>1, <3>2, RunningMoves
    <2>2. EndsSilent(c) \/ (\E m \in Said : EndsSaying(c, m)) \/ (\E at \in 0..(Never - 1) : EndsLimited(c, at))
      BY <1>1, <2>1, EndAnatomy DEF Typed
    <2>3. truth[c].torn \/ (proc[c].session = truth[c].session /\ ((proc[c].limit # "no") <=> truth[c].limit))
      BY <1>1 DEF Client, Understood
    <2>4. CASE EndsSilent(c)
      BY <2>4 DEF EndsSilent
    <2>5. ASSUME NEW m, up' = Append(up, m)
          PROVE  up'[Len(up')] = m
      BY <1>1, <2>5 DEF Typed
    <2>6. ASSUME NEW m \in Said, EndsSaying(c, m)
          PROVE  /\ proc[c].abort # "cancel" /\ m.status \in Told(c) /\ up'[Len(up')] = m
                 /\ m.session = proc[c].session
      BY <2>3, <2>5, <2>6 DEF EndsSaying, Told, Outcomes
    <2>7. ASSUME NEW at, EndsLimited(c, at)
          PROVE  /\ proc[c].abort # "cancel" /\ up'[Len(up')].status \in Told(c)
                 /\ up'[Len(up')].session = proc[c].session
      BY <2>3, <2>5, <2>7 DEF EndsLimited, Told, Outcomes, Tell
    <2> QED BY <2>2, <2>3, <2>4, <2>6, <2>7
  <1>2. ASSUME RunInv, [RunNext /\ Bounded]_runVars
        PROVE  [\A c \in Calls : Ends(c) =>
                   IF proc[c].abort = "cancel" THEN up' = up
                   ELSE LET m == up'[Len(up')]
                        IN  /\ m.status \in Told(c)
                            /\ truth[c].torn \/ m.session = truth[c].session]_runVars
    BY <1>1, <1>2
  <1> QED BY <1>2, RunInvariance, PTL DEF RunSpec, UnderstoodUnlessTorn

(* A retry waits for the time it was told, if a timer can (index.ts:132).  *)
THEOREM RetryWaits == RunSpec => WaitsForReset
PROOF
  <1>1. ASSUME RunInv, RunNext, NEW c \in Calls, timer[c] # NoTimer, proc'[c].running
        PROVE  now >= timer[c].at \/ timer[c].at - timer[c].set > MaxTimeout
    <2> USE DEF RunInv
    <2>1. ~TakeAssign(c)
      BY <1>1 DEF TakeAssign, Free
    <2>2. \A ok, tree : ~End(c, ok, tree)
      BY <1>1 DEF End, CloseProcess, NoProcess, Typed, RunnerTypeOK
    <2>3. now >= timer[c].due
      BY <1>1, <2>1, <2>2, RunningMoves DEF Retry
    <2>4. PICK at \in Times, t \in 0..MaxTime : at = timer[c].at /\ t = timer[c].set
      BY <1>1 DEF Typed, Timer
    <2>5. timer[c].due = t + Timeout(IF at > t THEN at - t ELSE 1)
      BY <1>1, <2>4 DEF Client, Timers, SetFor
    <2>6. now \in Nat
      BY <1>1, Bounds DEF Typed
    <2> QED BY <2>3, <2>4, <2>5, <2>6, Bounds DEF Timeout, Times
  <1>2. ASSUME RunInv, [RunNext /\ Bounded]_runVars
        PROVE  [\A c \in Calls : timer[c] # NoTimer /\ proc'[c].running
                   => now >= timer[c].at \/ timer[c].at - timer[c].set > MaxTimeout]_runVars
    BY <1>1, <1>2
  <1> QED BY <1>2, RunInvariance, PTL DEF RunSpec, WaitsForReset
-----------------------------------------------------------------------------
(* The client does what Agent says.                                        *)

(* What Agent sees of a call before and after a step.                      *)
LEMMA SeenBy ==
  ASSUME NEW r, r = [c \in Calls |-> RunOf(c)]
  PROVE  \A c \in Calls : r[c] = IF ~proc[c].running /\ timer[c] = NoTimer THEN [st |-> "free"]
                                 ELSE [st    |-> IF proc[c].running THEN "running" ELSE "waiting",
                                       host  |-> Host, task |-> Task, abort |-> proc[c].abort]
BY DEF RunOf, Free

(* handleTask starts the run Agent starts.                                 *)
LEMMA AgentStart ==
  ASSUME RunInv, NEW c \in Calls, NEW s, HandleTask(c, s), timer' = [timer EXCEPT ![c] = NoTimer]
  PROVE  /\ ~proc[c].running /\ active' = c
         /\ [k \in Calls |-> RunOf(k)]' = [[k \in Calls |-> RunOf(k)] EXCEPT
                ![c] = [st |-> "running", host |-> Host, task |-> Task, abort |-> "no"]]
PROOF
  <1>1. /\ proc' = [proc EXCEPT ![c] = [NoProcess EXCEPT !.running = TRUE, !.nr = spawned + 1,
                                                         !.session = s]]
        /\ active' = c /\ ~proc[c].running
    BY DEF HandleTask, Spawn
  <1>2. /\ proc'[c].running /\ proc'[c].abort = "no"
        /\ \A k \in Calls \ {c} : proc'[k] = proc[k] /\ timer'[k] = timer[k]
    BY <1>1 DEF RunInv, Typed, RunnerTypeOK, NoProcess
  <1>3. RunOf(c)' = [st |-> "running", host |-> Host, task |-> Task, abort |-> "no"]
    BY <1>2 DEF RunOf, Free
  <1>4. \A k \in Calls \ {c} : RunOf(k)' = RunOf(k)
    BY <1>2 DEF RunOf, Free
  <1> QED BY <1>1, <1>3, <1>4

(* An assignment is Agent's.                                               *)
LEMMA AgentAssigned ==
  ASSUME RunInv, NEW c \in Calls, TakeAssign(c)
  PROVE  Abstract!Assigned(c, Host, Task)
PROOF
  <1>1. Free(c) /\ HandleTask(c, Head(down).session) /\ UNCHANGED <<timer, pending>>
    BY DEF TakeAssign, timing
  <1>2. timer' = [timer EXCEPT ![c] = NoTimer]
    BY <1>1 DEF Free, RunInv, Typed
  <1>3. /\ active' = c
        /\ [k \in Calls |-> RunOf(k)]' = [[k \in Calls |-> RunOf(k)] EXCEPT
                ![c] = [st |-> "running", host |-> Host, task |-> Task, abort |-> "no"]]
    BY <1>1, <1>2, AgentStart
  <1>4. [k \in Calls |-> RunOf(k)][c] = [st |-> "free"]
    BY <1>1 DEF RunOf
  <1>5. [d \in Devices |-> [u \in Tasks |-> active]]'
           = [[d \in Devices |-> [u \in Tasks |-> active]] EXCEPT ![Host][Task] = c]
    BY <1>3, Bounds DEF Task
  <1> QED BY <1>1, <1>3, <1>4, <1>5 DEF Abstract!Assigned, Abstract!Free, Abstract!Over, Abstract!Spawned
(* A timer that fires is Agent's.                                          *)
LEMMA AgentFired ==
  ASSUME RunInv, NEW c \in Calls, Retry(c)
  PROVE  Abstract!Fired(c)
PROOF
  <1>1. /\ timer[c] # NoTimer /\ HandleTask(c, timer[c].session) /\ pending' = NoCall
        /\ timer' = [timer EXCEPT ![c] = NoTimer]
    BY DEF Retry
  <1>2. /\ active' = c /\ ~proc[c].running
        /\ [k \in Calls |-> RunOf(k)]' = [[k \in Calls |-> RunOf(k)] EXCEPT
                ![c] = [st |-> "running", host |-> Host, task |-> Task, abort |-> "no"]]
    BY <1>1, AgentStart
  <1>3. PICK r : r = [k \in Calls |-> RunOf(k)]
    OBVIOUS
  <1>4. r[c].st = "waiting" /\ r[c].host = Host /\ r[c].task = Task
    BY <1>1, <1>2, <1>3 DEF RunOf, Free
  <1>5. /\ [d \in Devices |-> [u \in Tasks |-> active]]'
              = [[d \in Devices |-> [u \in Tasks |-> active]] EXCEPT ![Host][Task] = c]
        /\ [d \in Devices |-> [u \in Tasks |-> pending]]'
              = [[d \in Devices |-> [u \in Tasks |-> pending]] EXCEPT ![Host][Task] = NoCall]
    BY <1>1, <1>2, Bounds DEF Task
  <1> QED BY <1>2, <1>3, <1>4, <1>5 DEF Abstract!Fired, Abstract!Timed, Abstract!Spawned, Abstract!Unentered

(* A process that closes is Agent's, with one of its outcomes.             *)
LEMMA AgentClosed ==
  ASSUME RunInv, NEW c \in Calls, NEW ok \in BOOLEAN, NEW tree \in Trees, End(c, ok, tree)
  PROVE  \E outcome \in Outcomes : Abstract!Closed(c, outcome)
PROOF
  <1>1. Closes(c) /\ (EndsSilent(c) \/ (\E m \in Said : EndsSaying(c, m))
                       \/ (\E at \in 0..(Never - 1) : EndsLimited(c, at)))
    BY EndAnatomy DEF RunInv, Typed
  <1>2. /\ proc[c].running /\ active' = NoCall /\ ~proc'[c].running /\ proc'[c].abort = "no"
        /\ \A k \in Calls \ {c} : proc'[k] = proc[k]
    BY <1>1 DEF Closes, NoProcess, RunInv, Typed, RunnerTypeOK
  <1>3. timer[c] = NoTimer
    BY <1>2 DEF RunInv, Client, Timers
  <1>4. PICK r : r = [k \in Calls |-> RunOf(k)]
    OBVIOUS
  <1>5. /\ r[c].st = "running" /\ r[c].host = Host /\ r[c].task = Task /\ r[c].abort = proc[c].abort
        /\ r[c] = [st |-> "running", host |-> Host, task |-> Task, abort |-> proc[c].abort]
    BY <1>2, <1>4 DEF RunOf, Free
  <1>6. /\ [d \in Devices |-> [u \in Tasks |-> active]]'
              = [[d \in Devices |-> [u \in Tasks |-> active]] EXCEPT ![Host][Task] = NoCall]
        /\ [d \in Devices |-> [u \in Tasks |-> pending]]'
              = [[d \in Devices |-> [u \in Tasks |-> pending]] EXCEPT ![Host][Task] = pending']
    BY <1>2, Bounds DEF Task
  <1>7. CASE UNCHANGED <<timer, pending>> /\ (proc[c].abort # "no" \/ up'[Len(up')].status \in Final)
    <2>1. RunOf(c)' = [st |-> "free"]
      BY <1>2, <1>3, <1>7 DEF RunOf, Free
    <2>2. \A k \in Calls \ {c} : RunOf(k)' = RunOf(k)
      BY <1>2, <1>7 DEF RunOf, Free
    <2>3. [k \in Calls |-> RunOf(k)]' = [r EXCEPT ![c] = [st |-> "free"]]
      BY <1>4, <2>1, <2>2
    <2>4. Abstract!Ended(c, "FAILED") = [st |-> "free"]
      BY DEF Abstract!Ended, Abstract!Over
    <2>5. [d \in Devices |-> [u \in Tasks |-> pending]]' = [d \in Devices |-> [u \in Tasks |-> pending]]
      BY <1>7
    <2>6. Abstract!Closed(c, "FAILED")
      BY <1>4, <1>5, <1>6, <2>3, <2>4, <2>5
         DEF Abstract!Closed, Abstract!Running, Abstract!Unentered, Abstract!Over
    <2> QED BY <2>6 DEF Outcomes, Final
  <1>8. ASSUME NEW at \in 0..(Never - 1), EndsLimited(c, at)
        PROVE  Abstract!Closed(c, "PAUSED_RATE_LIMIT")
    <2>1. /\ timer' = [timer EXCEPT ![c] = timer'[c]] /\ timer'[c] # NoTimer /\ pending' = c
          /\ proc[c].abort = "no"
      <3>1. PICK due : timer' = [timer EXCEPT ![c] = [session |-> proc[c].session, at |-> at,
                                                    due |-> due, set |-> now]]
        BY <1>8 DEF EndsLimited
      <3> QED BY <1>8, <3>1, Bounds DEF EndsLimited, NoTimer, RunInv, Typed
    <2>2. RunOf(c)' = [st |-> "waiting", host |-> Host, task |-> Task, abort |-> "no"]
      BY <1>2, <2>1 DEF RunOf, Free
    <2>3. \A k \in Calls \ {c} : timer'[k] = timer[k]
      BY <2>1 DEF RunInv, Typed
    <2>4. \A k \in Calls \ {c} : RunOf(k)' = RunOf(k)
      BY <1>2, <2>3 DEF RunOf, Free
    <2>5. [k \in Calls |-> RunOf(k)]' = [r EXCEPT ![c] =
              [st |-> "waiting", host |-> Host, task |-> Task, abort |-> "no"]]
      BY <1>4, <2>2, <2>4
    <2>6. Abstract!Ended(c, "PAUSED_RATE_LIMIT")
            = [st |-> "waiting", host |-> Host, task |-> Task, abort |-> "no"]
      BY <1>4, <1>5, <2>1 DEF Abstract!Ended
    <2>7. [d \in Devices |-> [u \in Tasks |-> pending]]'
            = [[d \in Devices |-> [u \in Tasks |-> pending]] EXCEPT ![Host][Task] = c]
      BY <1>6, <2>1
    <2>8. Abstract!Ended(c, "PAUSED_RATE_LIMIT") # [st |-> "free"]
      BY <2>6
    <2> QED BY <1>4, <1>5, <1>6, <2>5, <2>6, <2>7, <2>8
            DEF Abstract!Closed, Abstract!Running, Abstract!Unentered, Abstract!Over
  <1>9. EndsSilent(c) \/ (\E m \in Said : EndsSaying(c, m)) => 
          UNCHANGED <<timer, pending>> /\ (proc[c].abort # "no" \/ up'[Len(up')].status \in Final)
    BY DEF EndsSilent, EndsSaying, RunInv, Typed
  <1> QED BY <1>1, <1>7, <1>8, <1>9 DEF Outcomes

(* An abort is Agent's.                                                    *)
LEMMA AgentAborted ==
  ASSUME RunInv, TakeAbort
  PROVE  \E reason \in {"pause", "cancel"} : Abstract!Aborted(Host, Task, reason)
PROOF
  <1>1. PICK reason \in {"pause", "cancel"} :
           /\ proc' = IF active = NoCall THEN proc ELSE [proc EXCEPT ![active].abort = reason]
           /\ active' = active /\ pending' = NoCall
           /\ timer' = IF pending = NoCall THEN timer ELSE [timer EXCEPT ![pending] = NoTimer]
    BY DEF TakeAbort, AbortRun
  <1>2. PICK r : r = [k \in Calls |-> RunOf(k)]
    OBVIOUS
  <1>3. ASSUME NEW k \in Calls
        PROVE  RunOf(k)' = IF k = active THEN [r[k] EXCEPT !.abort = reason]
                           ELSE IF k = pending THEN [st |-> "free"] ELSE r[k]
    <2>1. /\ proc[k] \in Process /\ (k = active => proc[k].running)
          /\ (k = pending => timer[k] # NoTimer) /\ (timer[k] # NoTimer => ~proc[k].running)
      BY DEF RunInv, Client, Entered, Timers, Typed, RunnerTypeOK
    <2>2. r[k] = IF ~proc[k].running /\ timer[k] = NoTimer THEN [st |-> "free"]
                 ELSE [st    |-> IF proc[k].running THEN "running" ELSE "waiting",
                       host  |-> Host, task |-> Task, abort |-> proc[k].abort]
      BY <1>2, SeenBy
    <2>3. /\ proc'[k].running = proc[k].running
          /\ proc'[k].abort = IF k = active THEN reason ELSE proc[k].abort
          /\ timer'[k] = IF k = pending THEN NoTimer ELSE timer[k]
      BY <1>1, <2>1, Bounds DEF RunInv, Typed, RunnerTypeOK, Process
    <2>4. CASE k = active
      BY <2>1, <2>2, <2>3, <2>4 DEF RunOf, Free
    <2>5. CASE k # active /\ k = pending
      BY <2>1, <2>2, <2>3, <2>5 DEF RunOf, Free
    <2>6. CASE k # active /\ k # pending
      BY <2>1, <2>2, <2>3, <2>6 DEF RunOf, Free
    <2> QED BY <2>4, <2>5, <2>6
  <1>4. [k \in Calls |-> RunOf(k)]' =
           [c \in Calls |-> IF c = active THEN [r[c] EXCEPT !.abort = reason]
                            ELSE IF c = pending THEN [st |-> "free"] ELSE r[c]]
    BY <1>3
  <1>5. /\ [d \in Devices |-> [u \in Tasks |-> active]]' = [d \in Devices |-> [u \in Tasks |-> active]]
        /\ [d \in Devices |-> [u \in Tasks |-> pending]]'
              = [[d \in Devices |-> [u \in Tasks |-> pending]] EXCEPT ![Host][Task] = NoCall]
        /\ [d \in Devices |-> [u \in Tasks |-> active]][Host][Task] = active
        /\ [d \in Devices |-> [u \in Tasks |-> pending]][Host][Task] = pending
    BY <1>1, Bounds DEF Task
  <1>6. Abstract!Aborted(Host, Task, reason)
    BY <1>2, <1>4, <1>5 DEF Abstract!Aborted, Abstract!Unentered, Abstract!Over
  <1> QED BY <1>6

(* A crash of the client is Agent's.                                       *)
LEMMA AgentRestarted ==
  ASSUME RunInv, Crash
  PROVE  Abstract!Restarted(Host)
PROOF
  <1>1. /\ proc' = [c \in Calls |-> NoProcess] /\ timer' = [c \in Calls |-> NoTimer]
        /\ active' = NoCall /\ pending' = NoCall
    BY DEF Crash
  <1>2. PICK r : r = [k \in Calls |-> RunOf(k)]
    OBVIOUS
  <1>3. \A k \in Calls : RunOf(k)' = [st |-> "free"]
    BY <1>1 DEF RunOf, Free, NoProcess
  <1>4. \A k \in Calls : r[k] = [st |-> "free"] \/ (r[k].st # "free" /\ r[k].host = Host)
    BY <1>2 DEF RunOf, Free
  <1>5. [k \in Calls |-> RunOf(k)]'
           = [c \in Calls |-> IF r[c].st # "free" /\ r[c].host = Host THEN [st |-> "free"] ELSE r[c]]
    BY <1>3, <1>4
  <1>6. /\ [d \in Devices |-> [u \in Tasks |-> active]]'
              = [[d \in Devices |-> [u \in Tasks |-> active]] EXCEPT ![Host] = [t \in Tasks |-> NoCall]]
        /\ [d \in Devices |-> [u \in Tasks |-> pending]]'
              = [[d \in Devices |-> [u \in Tasks |-> pending]] EXCEPT ![Host] = [t \in Tasks |-> NoCall]]
    BY <1>1, Bounds
  <1> QED BY <1>2, <1>5, <1>6 DEF Abstract!Restarted, Abstract!Over

(* The other steps do nothing that Agent can see.                          *)
LEMMA AgentQuiet ==
  ASSUME RunInv,
         \/ UNCHANGED <<proc, timer, active, pending>>
         \/ \E c \in Calls : Output(c)
  PROVE  UNCHANGED Abstract!agentVars
PROOF
  <1>1. /\ \A k \in Calls : proc'[k].running = proc[k].running /\ proc'[k].abort = proc[k].abort
        /\ UNCHANGED <<timer, active, pending>>
    <2>1. ASSUME NEW c \in Calls, Output(c)
          PROVE  /\ \A k \in Calls : proc'[k].running = proc[k].running /\ proc'[k].abort = proc[k].abort
                 /\ UNCHANGED <<timer, active, pending>>
      <3>1. Continues(c)
        BY <2>1, OutputAnatomy DEF RunInv, Typed, Client, Understood
      <3>2. /\ proc'[c].running /\ proc[c].running /\ proc'[c].abort = proc[c].abort /\ active' = active
            /\ \A k \in Calls \ {c} : proc'[k] = proc[k]
        BY <3>1 DEF Continues, Follows, RunInv, Typed, RunnerTypeOK
      <3>3. proc[c].running = TRUE /\ proc'[c].running = TRUE
        BY <3>1, <3>2 DEF Continues, Follows, RunInv, Typed, RunnerTypeOK, Process
      <3> QED BY <2>1, <3>2, <3>3 DEF Output, timing
    <2> QED BY <2>1
  <1>2. \A k \in Calls : RunOf(k)' = RunOf(k)
    BY <1>1 DEF RunOf, Free
  <1>3. [k \in Calls |-> RunOf(k)]' = [k \in Calls |-> RunOf(k)]
    BY <1>2
  <1> QED BY <1>1, <1>3 DEF Abstract!agentVars

(* The client does what Agent says of it: TaskRun implements Agent, with   *)
(* the entries of activeRuns and pendingRetries (claude-runner.ts:57-71,   *)
(* index.ts:11-12) and not only the calls.                                 *)
THEOREM AgentImplemented == RunSpec => ImplementsAgent
PROOF
  <1>1. RunInit => Abstract!AgentInit
    <2> SUFFICES ASSUME RunInit  PROVE Abstract!AgentInit
      OBVIOUS
    <2>1. \A k \in Calls : RunOf(k) = [st |-> "free"]
      BY DEF RunInit, RunnerInit, RunOf, Free, NoProcess
    <2>2. active = NoCall /\ pending = NoCall
      BY DEF RunInit, RunnerInit
    <2> QED BY <2>1, <2>2 DEF Abstract!AgentInit, Abstract!Over
  <1>2. ASSUME RunInv, [RunNext /\ Bounded]_runVars
        PROVE  [AgentStep]_<<Abstract!agentVars>>
    <2>1. CASE \/ CreateTask \/ (\E op \in {"cancel", "pause", "resume", "retry"} : Ask(op))
               \/ HandOut \/ ApplyReport \/ Tick
      BY <1>2, <2>1, QuietSteps, AgentQuiet
    <2>2. ASSUME NEW c \in Calls, TakeAssign(c)
          PROVE  AgentStep
      BY <1>2, <2>2, AgentAssigned DEF AgentStep
    <2>3. ASSUME NEW c \in Calls, Retry(c)
          PROVE  AgentStep
      BY <1>2, <2>3, AgentFired DEF AgentStep
    <2>4. ASSUME NEW c \in Calls, Output(c)
          PROVE  UNCHANGED <<Abstract!agentVars>>
      BY <1>2, <2>4, AgentQuiet
    <2>5. ASSUME NEW c \in Calls, NEW ok \in BOOLEAN, NEW tree \in Trees, End(c, ok, tree)
          PROVE  AgentStep
      BY <1>2, <2>5, AgentClosed DEF AgentStep
    <2>6. CASE TakeAbort
      BY <1>2, <2>6, AgentAborted DEF AgentStep
    <2>7. CASE Crash
      BY <1>2, <2>7, AgentRestarted DEF AgentStep
    <2>8. CASE UNCHANGED runVars
      BY <1>2, <2>8, AgentQuiet DEF runVars, runnerVars, timing
    <2> QED BY <1>2, <2>1, <2>2, <2>3, <2>4, <2>5, <2>6, <2>7, <2>8 DEF RunNext
  <1> QED BY <1>1, <1>2, RunInvariance, PTL DEF RunSpec, ImplementsAgent
-----------------------------------------------------------------------------
(* The session that is carried from run to run.                            *)

(* Sessions are numbered, and none is the least.                           *)
LEMMA NoSessionIsLeast ==
  ASSUME Typed
  PROVE  /\ NoSession = 0 /\ latest \in Nat /\ spawned \in Nat /\ column.session \in Nat
         /\ \A i \in DOMAIN up : up[i] \in Said /\ up[i].session \in Nat
         /\ \A c \in Calls : /\ proc[c] \in Process /\ truth[c] \in Truth /\ timer[c] \in Timer
                             /\ proc[c].session \in Nat /\ truth[c].session \in Nat
                             /\ proc[c].nr \in Nat /\ timer[c].session \in Nat
PROOF
  <1>1. Sessions \subseteq Nat /\ 0..MaxProcesses \subseteq Nat
    BY Bounds DEF Sessions
  <1>2. column \in Column /\ latest \in Sessions /\ spawned \in 0..MaxProcesses
        /\ \A i \in DOMAIN up : up[i] \in Said
    BY DEF Typed, RunnerTypeOK
  <1>3. \A c \in Calls : proc[c] \in Process /\ truth[c] \in Truth /\ timer[c] \in Timer
    BY DEF Typed, RunnerTypeOK
  <1>4. \A x \in Said : x.session \in Nat
    BY <1>1 DEF Said
  <1>5. \A x \in Process : x.session \in Nat /\ x.nr \in Nat
    BY <1>1 DEF Process
  <1>6. \A x \in Truth : x.session \in Nat
    BY <1>1 DEF Truth
  <1>7. \A x \in Timer : x.session \in Nat
    BY <1>1 DEF Timer
  <1>8. column.session \in Nat
    BY <1>1, <1>2 DEF Column
  <1> QED BY <1>1, <1>2, <1>3, <1>4, <1>5, <1>6, <1>7, <1>8 DEF NoSession

(* A report with the latest session, or none if there has been none,       *)
(* settles what arrives.                                                   *)
LEMMA LastArrives ==
  ASSUME Typed, NEW m \in Said, up' = Append(up, m), column' = column,
         column.session <= m.session, \A i \in DOMAIN up : up[i].session <= m.session
  PROVE  Arrives(m.session)'
PROOF
  <1>1. up \in Seq(Said) /\ m.session \in Nat /\ NoSession = 0 /\ column.session \in Nat
        /\ \A i \in DOMAIN up : up[i].session \in Nat
    BY NoSessionIsLeast, Bounds DEF Typed, Said, Sessions
  <1>2. PICK n : n = Len(up) + 1
    OBVIOUS
  <1>3. /\ n \in DOMAIN up' /\ up'[n] = m /\ n \in Nat /\ DOMAIN up' = 1..n
        /\ \A i \in DOMAIN up' : (i \in DOMAIN up /\ up'[i] = up[i]) \/ (i = n /\ up'[i] = m)
    BY <1>1, <1>2
  <1>4. CASE m.session = 0
    <2>1. \A i \in DOMAIN up' : up'[i].session = 0
      BY <1>1, <1>3, <1>4
    <2> QED BY <1>1, <1>4, <2>1 DEF Arrives, Nobody
  <1>5. CASE m.session # 0
    <2>1. \A j \in DOMAIN up' : ~(j > n)
      BY <1>3
    <2> QED BY <1>1, <1>3, <1>5, <2>1 DEF Arrives, IsLast
  <1> QED BY <1>4, <1>5

(* The first report is applied: what arrives in the end is the same.       *)
LEMMA StillArrives ==
  ASSUME Typed, NEW s, Arrives(s), up # <<>>, up' = Tail(up),
         column'.session = Coalesce(Head(up).session, column.session)
  PROVE  Arrives(s)'
PROOF
  <1>1. up \in Seq(Said)
    BY DEF Typed
  <1>2. /\ 1 \in DOMAIN up /\ Head(up) = up[1] /\ DOMAIN up \subseteq Nat /\ DOMAIN up' \subseteq Nat
        /\ \A i \in DOMAIN up' : i + 1 \in DOMAIN up /\ up'[i] = up[i + 1]
        /\ \A i \in DOMAIN up : i = 1 \/ (i - 1 \in DOMAIN up' /\ up'[i - 1] = up[i])
    BY <1>1, Taken
  <1>3. CASE Nobody /\ column.session = s
    BY <1>2, <1>3 DEF Arrives, Nobody, Coalesce
  <1>4. ASSUME NEW i \in DOMAIN up, IsLast(i), up[i].session = s
        PROVE  Arrives(s)'
    <2>1. up[i].session # NoSession /\ \A j \in DOMAIN up : j > i => up[j].session = NoSession
      BY <1>4 DEF IsLast
    <2>2. \A j \in DOMAIN up' : j + 1 > i => up'[j].session = NoSession
      BY <1>2, <2>1
    <2>3. CASE i = 1
      <3>1. \A j \in DOMAIN up' : up'[j].session = NoSession
        <4> SUFFICES ASSUME NEW j \in DOMAIN up'  PROVE up'[j].session = NoSession
          OBVIOUS
        <4>1. j \in 1..Len(up')
          BY <1>1
        <4>2. Len(up') \in Nat
          BY <1>1
        <4> QED BY <2>2, <2>3, <4>1, <4>2
      <3>2. column'.session = s
        BY <1>2, <1>4, <2>1, <2>3 DEF Coalesce
      <3> QED BY <3>1, <3>2 DEF Arrives, Nobody
    <2>4. CASE i # 1
      <3>1. i - 1 \in DOMAIN up' /\ up'[i - 1] = up[i] /\ i \in Nat /\ i - 1 \in Nat
        BY <1>2, <2>4
      <3>2. PICK k \in DOMAIN up' : k = i - 1 /\ up'[k] = up[i]
        BY <3>1
      <3>3. \A j \in DOMAIN up' : j > k => up'[j].session = NoSession
        BY <1>2, <2>2, <3>1, <3>2
      <3> QED BY <1>4, <2>1, <3>2, <3>3 DEF Arrives, IsLast
    <2> QED BY <2>3, <2>4
  <1> QED BY <1>3, <1>4 DEF Arrives

(* A step that neither reads, reports nor starts anything.                 *)
LEMMA CarriedSame ==
  ASSUME Carried, UNCHANGED <<latest, spawned, truth, up>>, column'.session = column.session,
         \A i, j \in Assigned' : i = j,
         \A i \in Assigned' : \E j \in Assigned : down'[i] = down[j],
         row'[Task].status # "CANCELED" => row[Task].status # "CANCELED",
         \A c \in Calls : /\ proc'[c].running = proc[c].running /\ proc'[c].session = proc[c].session
                          /\ proc'[c].nr = proc[c].nr /\ timer'[c] \in {timer[c], NoTimer}
  PROVE  Carried'
PROOF
  <1>1. InUse' \subseteq InUse
    BY DEF InUse, Free
  <1>2. (\A c, k \in InUse : c = k)' /\ (\A i \in Assigned : InUse = {} /\ up = <<>> /\ down[i].session = latest)'
    BY <1>1 DEF Carried
  <1>3. (latest <= spawned /\ column.session <= latest /\ (\A i \in DOMAIN up : up[i].session <= latest)
         /\ \A c \in Calls : ~truth[c].torn)'
    BY DEF Carried
  <1>4. (/\ \A c \in Calls : proc[c].running => proc[c].session = latest /\ proc[c].nr = spawned
         /\ \A c \in Calls : timer[c] # NoTimer => timer[c].session = latest)'
    BY DEF Carried
  <1>5. (row[Task].status # "CANCELED" /\ (\A c \in Calls : ~proc[c].running) => Arrives(latest))'
    BY DEF Carried, Arrives, Nobody, IsLast
  <1> QED BY <1>2, <1>3, <1>4, <1>5 DEF Carried

(* A request leaves the latest session where it is.                        *)
LEMMA CarriedAsk ==
  ASSUME RunInv, Carried, NEW op \in {"cancel", "pause", "resume", "retry"}, Ask(op)
  PROVE  Carried'
PROOF
  <1>1. /\ row' = [row EXCEPT ![Task] = Service!Written(op, row[Task])]
        /\ Service!Allowed(op, row[Task].status) /\ Exists(Task)
        /\ UNCHANGED <<latest, spawned, truth, proc, timer, up>>
    BY DEF Ask, quiet, runnerVars, timing
  <1>2. row[Task].status # "CANCELED"
    BY <1>1 DEF Service!Allowed, Service!Finished, Service!Waiting, Service!Occupying
  <1>3. column'.session = column.session
    BY DEF Ask, RunInv, Typed, Column
  <1>4. down \in Seq(Order)
    BY DEF RunInv, Typed
  <1>5. CASE down' = down
    BY <1>1, <1>2, <1>3, <1>5, CarriedSame DEF Assigned, Carried
  <1>6. CASE down' = Append(down, [order |-> op, session |-> NoSession]) /\ op # "assign"
                /\ [order |-> op, session |-> NoSession] \in Order
    <2>1. PICK m \in Order : m.order = op /\ down' = Append(down, m)
      BY <1>6
    <2>2. \A i \in Assigned' : i \in Assigned /\ down'[i] = down[i]
      BY <1>4, <1>6, <2>1, Appended DEF Assigned
    <2> QED BY <1>1, <1>2, <1>3, <2>2, CarriedSame DEF Carried
  <1>7. op \in {"cancel", "pause"} => [order |-> op, session |-> NoSession] \in Order
    BY Idle DEF Order
  <1>8. Service!SendsAbort(op, row[Task]) => op \in {"cancel", "pause"}
    BY DEF Service!SendsAbort
  <1> QED BY <1>5, <1>6, <1>7, <1>8 DEF Ask

(* A task handed out after its runs have said all has the latest session.  *)
LEMMA CarriedHandOut ==
  ASSUME RunInv, Carried, HandOut, AllSaid
  PROVE  Carried' /\ column.session = latest
PROOF
  <1>1. PICK m : m = [order |-> "assign", session |-> column.session]
    OBVIOUS
  <1>2. /\ UNCHANGED <<latest, spawned, truth, proc, timer, up, column>> /\ down' = Append(down, m)
        /\ row[Task].status = "QUEUED" /\ row' = [row EXCEPT ![Task] = Claimed(row[Task], Host)]
    BY <1>1 DEF HandOut, quiet, runnerVars, timing
  <1>3. InUse = {} /\ up = <<>> /\ Assigned = {}
    BY DEF AllSaid, Assigned
  <1>4. \A c \in Calls : ~proc[c].running /\ timer[c] = NoTimer
    BY <1>3 DEF InUse, Free
  <1>5. column.session = latest
    BY <1>2, <1>3, <1>4 DEF Carried, Arrives
  <1>6. down \in Seq(Order) /\ m \in Order
    BY <1>1 DEF RunInv, Typed, Order, Column
  <1>7. \A i \in Assigned' : i = Len(down) + 1 /\ down'[i] = m
    BY <1>2, <1>3, <1>6, Appended DEF Assigned
  <1>8. InUse' = {} /\ up' = <<>> /\ Nobody'
    BY <1>2, <1>3 DEF InUse, Free, Nobody
  <1>9. m.session = latest'
    BY <1>1, <1>2, <1>5
  <1>10. \A i, j \in Assigned' : i = j
    BY <1>7
  <1>11. Arrives(latest)'
    BY <1>2, <1>5, <1>8 DEF Arrives
  <1>12. (\A i \in Assigned : InUse = {} /\ up = <<>> /\ down[i].session = latest)'
    BY <1>7, <1>8, <1>9
  <1> QED BY <1>2, <1>4, <1>5, <1>8, <1>10, <1>11, <1>12 DEF Carried

(* A report that is applied brings its session into the column (COALESCE). *)
LEMMA CarriedReport ==
  ASSUME RunInv, Carried, ApplyReport
  PROVE  Carried'
PROOF
  <1>1. PICK m \in Said : m = Head(up)
    BY WireTypes DEF ApplyReport, RunInv, Typed
  <1>2. /\ UNCHANGED <<latest, spawned, truth, proc, timer, down>> /\ up # <<>> /\ up' = Tail(up)
        /\ row' = [row EXCEPT ![Task] = Reported(row[Task], m.status)]
        /\ column' = IF ~Writable(row[Task]) THEN column
                     ELSE [session |-> Coalesce(m.session, column.session), retryAt |-> m.at,
                           files |-> IF m.status \in Final THEN m.files ELSE column.files]
    BY <1>1 DEF ApplyReport, quiet, runnerVars, timing
  <1>3. up \in Seq(Said) /\ row[Task] \in Row /\ row[Task].status # "NONE"
    BY <1>2, Bounds DEF RunInv, Typed, TableTypeOK, Past
  <1>4. /\ 1 \in DOMAIN up /\ Head(up) = up[1]
        /\ \A i \in DOMAIN up' : i + 1 \in DOMAIN up /\ up'[i] = up[i + 1]
    BY <1>2, <1>3, Taken
  <1>5. column'.session \in {column.session, m.session}
    BY <1>2 DEF Coalesce
  <1>6. (latest <= spawned /\ column.session <= latest /\ \A i \in DOMAIN up : up[i].session <= latest)'
    BY <1>1, <1>2, <1>4, <1>5 DEF Carried
  <1>7. Assigned' = Assigned /\ Assigned = {} /\ InUse' = InUse
    BY <1>2 DEF Carried, Assigned, InUse, Free
  <1>8. ASSUME row'[Task].status # "CANCELED", \A c \in Calls : ~proc[c].running
        PROVE  Arrives(latest)'
    <2>1. row[Task].status # "CANCELED"
      BY <1>2, <1>3, <1>8 DEF Reported, Writable, RunInv, Typed, TableTypeOK
    <2>2. column'.session = Coalesce(Head(up).session, column.session)
      BY <1>1, <1>2, <1>3, <2>1 DEF Writable
    <2>3. Arrives(latest)
      BY <1>8, <2>1 DEF Carried
    <2>4. PICK s : s = latest
      OBVIOUS
    <2>5. Arrives(s)'
      BY <1>2, <2>2, <2>3, <2>4, StillArrives DEF RunInv
    <2>6. latest' = s
      BY <1>2, <2>4
    <2> QED BY <2>5, <2>6 DEF Arrives
  <1> QED BY <1>2, <1>6, <1>7, <1>8 DEF Carried

(* A process is started with the latest session, and is the latest.        *)
LEMMA CarriedStart ==
  ASSUME RunInv, Carried, NEW c \in Calls, HandleTask(c, latest), UNCHANGED <<column, latest>>,
         InUse \subseteq {c}, Assigned' = {}, timer' = [timer EXCEPT ![c] = NoTimer]
  PROVE  Carried'
PROOF
  <1>1. PICK m \in Said : up' = Append(up, m) /\ m.session = NoSession
    BY Idle DEF HandleTask, Tell, Said, Reports
  <1>2. /\ proc' = [proc EXCEPT ![c] = [NoProcess EXCEPT !.running = TRUE, !.nr = spawned + 1,
                                                         !.session = latest]]
        /\ truth' = [truth EXCEPT ![c] = [Silence EXCEPT !.session = latest]]
        /\ spawned' = spawned + 1
    BY DEF HandleTask, Spawn
  <1>3. /\ proc'[c].running /\ proc'[c].session = latest /\ proc'[c].nr = spawned'
        /\ ~truth'[c].torn /\ timer'[c] = NoTimer
        /\ \A k \in Calls \ {c} : proc'[k] = proc[k] /\ truth'[k] = truth[k] /\ timer'[k] = timer[k]
    BY <1>2 DEF RunInv, Typed, RunnerTypeOK, NoProcess, Silence
  <1>4. \A k \in Calls \ {c} : ~proc[k].running /\ timer[k] = NoTimer
    BY DEF InUse, Free
  <1>5. /\ NoSession = 0 /\ latest \in Nat /\ spawned \in Nat /\ up \in Seq(Said)
    BY NoSessionIsLeast DEF RunInv, Typed
  <1>6. \A i \in DOMAIN up' : (i \in DOMAIN up /\ up'[i] = up[i]) \/ up'[i] = m
    BY <1>1, <1>5, Appended
  <1>7. (latest <= spawned /\ column.session <= latest)' /\ \A i \in DOMAIN up' : up'[i].session <= latest'
    BY <1>1, <1>2, <1>5, <1>6 DEF Carried
  <1>8. \A k \in InUse' : k = c
    BY <1>3, <1>4 DEF InUse, Free
  <1> QED BY <1>3, <1>4, <1>7, <1>8 DEF Carried

(* Output names a session, and the process carries it from then on.        *)
LEMMA CarriedOutput ==
  ASSUME RunInv, Client', Carried, NEW c \in Calls, Output(c), ~truth'[c].torn
  PROVE  Carried'
PROOF
  <1>1. Continues(c)
    BY OutputAnatomy DEF RunInv, Typed, Client, Understood
  <1>2. /\ proc[c].running /\ proc'[c].running /\ spawned' = spawned
        /\ proc'[c].nr = proc[c].nr /\ truth'[c].session \in {truth[c].session, proc[c].nr}
        /\ \A k \in Calls \ {c} : proc'[k] = proc[k] /\ truth'[k] = truth[k]
    BY <1>1 DEF Continues, Follows, RunInv, Typed, RunnerTypeOK
  <1>3. /\ UNCHANGED <<row, column, up, down, timer>>
        /\ latest' = IF truth'[c].session > latest THEN truth'[c].session ELSE latest
    BY DEF Output, tableVars, ends, timing
  <1>4. proc'[c].session = truth'[c].session /\ proc[c].session = truth[c].session
    BY DEF Client, Understood, RunInv, Carried
  <1>5. /\ latest \in Nat /\ spawned \in Nat /\ latest <= spawned /\ proc[c].nr = spawned
        /\ proc[c].session = latest
    BY <1>2, NoSessionIsLeast DEF Carried, RunInv
  <1>6. latest' \in {latest, spawned} /\ latest <= latest' /\ latest' <= spawned' /\ proc'[c].session = latest'
    BY <1>2, <1>3, <1>4, <1>5
  <1>7. column.session \in Nat /\ \A i \in DOMAIN up : up[i].session \in Nat
    BY NoSessionIsLeast DEF RunInv
  <1>8. (column.session <= latest /\ \A i \in DOMAIN up : up[i].session <= latest)'
    BY <1>3, <1>5, <1>6, <1>7 DEF Carried
  <1>9. c \in InUse /\ InUse' = InUse
    BY <1>2, <1>3 DEF InUse, Free
  <1>10. \A k \in Calls \ {c} : ~proc[k].running /\ timer[k] = NoTimer
    BY <1>9 DEF Carried, InUse, Free
  <1>11. timer[c] = NoTimer
    BY <1>2 DEF RunInv, Client, Timers
  <1>12. Assigned = {} /\ Assigned' = {}
    BY <1>3, <1>9 DEF Carried, Assigned
  <1> QED BY <1>2, <1>3, <1>5, <1>6, <1>8, <1>9, <1>10, <1>11, <1>12 DEF Carried

(* A process that closes leaves its session to its report or timer.        *)
LEMMA CarriedEnd ==
  ASSUME RunInv, Carried, NEW c \in Calls, NEW ok \in BOOLEAN, NEW tree \in Trees, End(c, ok, tree)
  PROVE  Carried'
PROOF
  <1>1. Closes(c) /\ (EndsSilent(c) \/ (\E m \in Said : EndsSaying(c, m))
                       \/ (\E at \in 0..(Never - 1) : EndsLimited(c, at)))
    BY EndAnatomy DEF RunInv, Typed
  <1>2. /\ proc[c].running /\ ~proc'[c].running /\ ~truth'[c].torn
        /\ \A k \in Calls \ {c} : proc'[k] = proc[k] /\ truth'[k] = truth[k]
        /\ UNCHANGED <<row, column, down, latest, spawned>>
    BY <1>1 DEF Closes, NoProcess, Silence, RunInv, Typed, RunnerTypeOK, tableVars
  <1>3. c \in InUse /\ timer[c] = NoTimer /\ proc[c].session = latest
    BY <1>2 DEF InUse, Free, RunInv, Client, Timers, Carried
  <1>4. \A k \in Calls \ {c} : ~proc[k].running /\ timer[k] = NoTimer
    BY <1>3 DEF Carried, InUse, Free
  <1>5. Assigned = {} /\ Assigned' = {}
    BY <1>2, <1>3 DEF Carried, Assigned
  <1>6. /\ latest \in Nat /\ up \in Seq(Said)
    BY NoSessionIsLeast DEF RunInv, Typed
  <1>7. ASSUME \A k \in Calls \ {c} : timer'[k] = timer[k],
               timer'[c] = NoTimer \/ timer'[c].session = latest,
               \A i \in DOMAIN up' : up'[i].session <= latest,
               row[Task].status # "CANCELED" => Arrives(latest)'
        PROVE  Carried'
    <2>1. \A k \in InUse' : k = c
      BY <1>2, <1>4, <1>7 DEF InUse, Free
    <2>2. (\A k \in Calls : timer[k] # NoTimer => timer[k].session = latest)'
      BY <1>2, <1>4, <1>7
    <2>3. \A k \in Calls : ~proc'[k].running /\ ~truth'[k].torn
      BY <1>2, <1>4 DEF Carried
    <2> QED BY <1>2, <1>5, <1>7, <2>1, <2>2, <2>3 DEF Carried
  <1>8. ASSUME NEW m \in Said, up' = Append(up, m), m.session = latest
        PROVE  /\ \A i \in DOMAIN up' : up'[i].session <= latest
               /\ Arrives(latest)'
    <2>1. \A i \in DOMAIN up' : (i \in DOMAIN up /\ up'[i] = up[i]) \/ up'[i] = m
      BY <1>6, <1>8, Appended
    <2>2. \A i \in DOMAIN up' : up'[i].session <= latest
      BY <1>6, <1>8, <2>1 DEF Carried
    <2>3. PICK s : s = m.session
      OBVIOUS
    <2>4. Arrives(m.session)'
      BY <1>2, <1>8, LastArrives DEF Carried, RunInv
    <2>5. latest' = m.session
      BY <1>2, <1>8
    <2> QED BY <2>2, <2>4, <2>5 DEF Arrives
  <1>9. CASE EndsSilent(c)
    <2>1. row[Task].status = "CANCELED"
      BY <1>9 DEF EndsSilent, RunInv, Past, Canceling
    <2> QED BY <1>3, <1>7, <1>9, <2>1 DEF EndsSilent, Carried
  <1>10. ASSUME NEW m \in Said, EndsSaying(c, m)
         PROVE  Carried'
    BY <1>3, <1>7, <1>8, <1>10 DEF EndsSaying
  <1>11. ASSUME NEW at \in 0..(Never - 1), EndsLimited(c, at)
         PROVE  Carried'
    <2>1. PICK m : m = Tell("PAUSED_RATE_LIMIT", proc[c].session, at, NoFiles)
      OBVIOUS
    <2>2. m.session = latest /\ up' = Append(up, m)
      BY <1>3, <1>11, <2>1 DEF Tell, EndsLimited
    <2>3. m \in Said
      <3>1. proc[c].session \in Sessions /\ at \in Times
        BY Bounds DEF RunInv, Typed, RunnerTypeOK, Process, Sessions, Times
      <3> QED BY <2>1, <3>1, Idle DEF Tell, Said, Reports
    <2>4. PICK due : timer' = [timer EXCEPT ![c] = [session |-> proc[c].session, at |-> at, due |-> due,
                                                  set |-> now]]
      BY <1>11 DEF EndsLimited
    <2>5. timer'[c].session = latest /\ \A k \in Calls \ {c} : timer'[k] = timer[k]
      BY <1>3, <2>4 DEF RunInv, Typed
    <2> QED BY <1>7, <1>8, <2>2, <2>3, <2>5
  <1> QED BY <1>1, <1>9, <1>10, <1>11

(* An abort takes no session away that is not reported.                    *)
LEMMA CarriedAbort ==
  ASSUME RunInv, Carried, TakeAbort
  PROVE  Carried'
PROOF
  <1>1. PICK reason : /\ down # <<>> /\ down' = Tail(down) /\ Head(down).order # "assign"
                      /\ AbortRun(reason) /\ UNCHANGED <<row, column, up, latest>>
                      /\ timer' = IF pending = NoCall THEN timer ELSE [timer EXCEPT ![pending] = NoTimer]
    BY DEF TakeAbort, tableVars
  <1>2. ASSUME NEW c \in Calls
        PROVE  /\ proc'[c].running = proc[c].running /\ proc'[c].session = proc[c].session
               /\ proc'[c].nr = proc[c].nr /\ timer'[c] \in {timer[c], NoTimer}
    <2>1. proc[c] \in Process /\ proc \in [Calls -> Process] /\ timer \in [Calls -> Timer]
      BY DEF RunInv, Typed, RunnerTypeOK
    <2> QED BY <1>1, <2>1 DEF AbortRun, Process
  <1>3. down \in Seq(Order)
    BY DEF RunInv, Typed
  <1>4. \A i \in Assigned' : i + 1 \in Assigned /\ down'[i] = down[i + 1] /\ i \in Nat
    BY <1>1, <1>3, Taken DEF Assigned
  <1>5. \A i, j \in Assigned' : i = j
    BY <1>4 DEF Carried
  <1> QED BY <1>1, <1>2, <1>4, <1>5, CarriedSame DEF AbortRun

(* The latest session is always with somebody who will tell it.            *)
LEMMA CarriedStep ==
  ASSUME RunInv, RunInv', CarriedInv, RunNext
  PROVE  CarriedInv'
PROOF
  <1> SUFFICES ASSUME forgotten' = {}
               PROVE  Carried'
    BY DEF CarriedInv
  <1>1. forgotten = {} => Carried
    BY DEF CarriedInv
  <1>2. ASSUME Carried, UNCHANGED <<latest, spawned, truth, proc, timer, up, down, column>>,
               row'[Task].status # "CANCELED" => row[Task].status # "CANCELED"
        PROVE  Carried'
    BY <1>2, CarriedSame DEF Assigned, Carried
  <1>3. CASE CreateTask
    <2>0. MaxTasks = 1
      BY HostAssumption, MaxTasksAssumption DEF Tasks
    <2>1. created < MaxTasks /\ created \in 0..MaxTasks /\ forgotten' = forgotten
      BY <1>3 DEF CreateTask, RunInv, Typed, TableTypeOK
    <2>2. row[Task].status = "NONE"
      BY <2>0, <2>1 DEF RunInv, Past
    <2> QED BY <1>1, <1>2, <1>3, <2>1, <2>2 DEF CreateTask, ends, quiet, runnerVars, timing
  <1>4. ASSUME NEW op \in {"cancel", "pause", "resume", "retry"}, Ask(op)
        PROVE  Carried'
    BY <1>1, <1>4, CarriedAsk DEF Ask
  <1>5. CASE HandOut
    BY <1>1, <1>5, CarriedHandOut DEF HandOut
  <1>6. CASE ApplyReport
    BY <1>1, <1>6, CarriedReport DEF ApplyReport
  <1>7. ASSUME NEW c \in Calls, TakeAssign(c)
        PROVE  Carried'
    <2>1. /\ down # <<>> /\ Head(down).order = "assign" /\ Free(c) /\ down' = Tail(down)
          /\ HandleTask(c, Head(down).session) /\ UNCHANGED <<column, timer, latest>>
      BY <1>7 DEF TakeAssign, timing
    <2>2. forgotten = {} /\ Carried
      BY <1>1, <2>1 DEF HandleTask
    <2>3. down \in Seq(Order) /\ timer \in [Calls -> Timer]
      BY DEF RunInv, Typed
    <2>4. 1 \in Assigned /\ Head(down) = down[1]
      BY <2>1, <2>3, Taken DEF Assigned
    <2>5. InUse = {} /\ Head(down).session = latest
      BY <2>2, <2>4 DEF Carried
    <2>6. Assigned' = {}
      <3>1. \A i \in Assigned' : i + 1 \in Assigned /\ i \in 1..Len(down')
        BY <2>1, <2>3, Taken DEF Assigned
      <3>2. \A i \in Assigned : i = 1
        BY <2>2, <2>4 DEF Carried
      <3>3. Len(down') \in Nat
        BY <2>1, <2>3
      <3> QED BY <3>1, <3>2, <3>3
    <2>7. timer' = [timer EXCEPT ![c] = NoTimer]
      BY <2>1, <2>3 DEF Free
    <2> QED BY <2>1, <2>2, <2>5, <2>6, <2>7, CarriedStart
  <1>8. ASSUME NEW c \in Calls, Retry(c)
        PROVE  Carried'
    <2>1. /\ timer[c] # NoTimer /\ HandleTask(c, timer[c].session) /\ UNCHANGED <<column, down, latest>>
          /\ timer' = [timer EXCEPT ![c] = NoTimer]
      BY <1>8 DEF Retry
    <2>2. forgotten = {} /\ Carried /\ InUse \subseteq {c}
      BY <1>1, <2>1 DEF HandleTask
    <2>3. c \in InUse
      BY <2>1 DEF InUse, Free
    <2>4. Assigned = {} /\ Assigned' = {}
      BY <2>1, <2>2, <2>3 DEF Carried, Assigned
    <2>5. timer[c].session = latest
      BY <2>1, <2>2 DEF Carried
    <2> QED BY <2>1, <2>2, <2>4, <2>5, CarriedStart
  <1>9. ASSUME NEW c \in Calls, Output(c)
        PROVE  Carried'
    <2>1. forgotten' = IF truth'[c].torn THEN forgotten \cup {"torn"} ELSE forgotten
      BY <1>9 DEF Output
    <2>2. ~truth'[c].torn /\ forgotten = {}
      BY <2>1
    <2> QED BY <1>1, <1>9, <2>2, CarriedOutput DEF RunInv
  <1>10. ASSUME NEW c \in Calls, NEW ok \in BOOLEAN, NEW tree \in Trees, End(c, ok, tree)
         PROVE  Carried'
    BY <1>1, <1>10, CarriedEnd DEF End
  <1>11. CASE TakeAbort
    BY <1>1, <1>11, CarriedAbort DEF TakeAbort
  <1>12. CASE Tick
    BY <1>1, <1>2, <1>12 DEF Tick, tableVars, runnerVars, ends
  <1>13. CASE Crash
    BY <1>13 DEF Crash
  <1> QED BY <1>3, <1>4, <1>5, <1>6, <1>7, <1>8, <1>9, <1>10, <1>11, <1>12, <1>13 DEF RunNext

(* A task that is handed out when its runs have said all they know is      *)
(* given the latest session any of them has named (index.ts:138,           *)
(* realtime.gateway.ts:151 and :250).                                      *)
THEOREM SessionCarried == RunSpec => SessionPreserved
PROOF
  <1>1. RunInit => CarriedInv
    BY Bounds DEF RunInit, RunnerInit, CarriedInv, Carried, InUse, Free, Assigned, Arrives, Nobody,
                  NoProcess, Silence, NoSession
  <1>2. ASSUME RunInv, RunInv', CarriedInv, [RunNext /\ Bounded]_runVars
        PROVE  CarriedInv'
    <2>1. CASE UNCHANGED runVars
      BY <1>2, <2>1 DEF runVars, tableVars, runnerVars, ends, timing, CarriedInv, Carried, InUse, Free,
                        Assigned, Arrives, Nobody, IsLast
    <2> QED BY <1>2, <2>1, CarriedStep
  <1>3. ASSUME RunInv, CarriedInv, RunNext, HandsOut, AllSaid, forgotten = {}
        PROVE  column.session = latest
    <2>1. Carried /\ InUse = {} /\ up = <<>>
      BY <1>3 DEF CarriedInv, AllSaid
    <2>2. \A c \in Calls : ~proc[c].running
      BY <2>1 DEF InUse, Free
    <2>3. row[Task].status # "CANCELED"
      BY <1>3 DEF HandsOut
    <2> QED BY <2>1, <2>2, <2>3 DEF Carried, Arrives
  <1>4. ASSUME RunInv, CarriedInv, [RunNext /\ Bounded]_runVars
        PROVE  [HandsOut /\ AllSaid /\ forgotten = {} => column.session = latest]_runVars
    BY <1>3, <1>4
  <1> QED BY <1>1, <1>2, <1>4, RunInvariance, PTL DEF RunSpec, SessionPreserved
=============================================================================
