------------------------------- MODULE TaskRun -------------------------------
(***************************************************************************)
(* One task of LOCAL_CLI mode in depth: what its runs on a device make of  *)
(* the output of the CLI, what they report, and which session, retry time  *)
(* and files the server keeps of it for the runs that follow.              *)
(*                                                                         *)
(* A request is one step here, as is a pass of the dispatcher and a crash  *)
(* of the client with the disconnect the server makes of it: what          *)
(* interleaves in there is the business of LocalMode.                      *)
(***************************************************************************)
EXTENDS TaskTable, ClaudeRunner, OutputFiles

CONSTANTS
    Host,           \* the device
    Asked,          \* bound: the calls the user makes
    Resets,         \* bound: the reset times the CLI tells
    Backoff,        \* DEFAULT_RATE_LIMIT_BACKOFF_MS
    MaxTimeout,     \* the longest delay setTimeout takes: 2^31 - 1
    MaxTime,        \* bound: how long the task is watched
    MaxOrders,      \* bound: messages on their way to the device
    MaxReports,     \* bound: reports on their way from it
    MaxCrashes      \* bound: how often the client is stopped

ASSUME HostAssumption == Devices = {Host} /\ Tasks = {1}
(* Half an hour, the backoff, is less than the 24 days a timer can count.  *)
(* A reset time is not Never, which stands for NULL.                       *)
ASSUME TimeAssumption == MaxTime \in Nat /\ MaxTimeout \in Nat /\ Backoff \in 0..MaxTimeout
ASSUME ResetsAssumption == Resets \subseteq 0..(MaxTime + MaxTimeout + 9)

VARIABLES
    column,     \* claude_session_id, retry_at and output_files of the task
    down,       \* what the server has sent to the device
    up,         \* the reports the client has emitted
    timer,      \* timer[c]: the retry that call c waits for
    pending,    \* pendingRetries, of this task
    now,        \* the time
    crashes,    \* how often the client has been stopped
    latest,     \* history: the latest session a process has named
    forgotten   \* history: why the row may not have it

ends == <<down, up>>
timing == <<timer, pending, now>>
runVars == <<tableVars, column, runnerVars, ends, timing, crashes, latest, forgotten>>

Task     == 1
Never    == MaxTime + MaxTimeout + 10   \* retry_at IS NULL
NoTimer  == [session |-> NoSession, at |-> Never, due |-> Never, set |-> 0]
NoFiles  == [names |-> <<>>, of |-> EmptyTree]

Tell(status, session, at, files) ==
    [status |-> status, session |-> session, at |-> at, files |-> files]

RunInit ==
    /\ TableInit
    /\ RunnerInit
    /\ column  = [session |-> NoSession, retryAt |-> Never, files |-> NoFiles]
    /\ down    = <<>>
    /\ up      = <<>>
    /\ timer   = [c \in Calls |-> NoTimer]
    /\ pending = NoCall
    /\ now     = 0
    /\ crashes = 0
    /\ latest = NoSession
    /\ forgotten = {}

RunTypeOK ==
    /\ TableTypeOK
    /\ RunnerTypeOK
    /\ column.session \in 0..MaxProcesses /\ column.retryAt \in 0..Never
    /\ \A c \in Calls : timer[c].due \in 0..Never /\ timer[c].session \in 0..MaxProcesses
    /\ pending \in Calls \cup {NoCall}
    /\ now \in 0..MaxTime
    /\ latest \in 0..MaxProcesses
    /\ forgotten \subseteq {"torn", "crash", "overlap", "early"}

Free(c)  == ~proc[c].running /\ timer[c] = NoTimer
InUse    == {c \in Calls : ~Free(c)}
AllSaid  == InUse = {} /\ up = <<>> /\ \A i \in DOMAIN down : down[i].order # "assign"
Outcomes == Final \cup {"PAUSED_RATE_LIMIT"}

-----------------------------------------------------------------------------
(* The server.                                                             *)

quiet == <<runnerVars, timing, crashes, latest>>

Service == INSTANCE TasksService WITH Requests <- {}, req <- <<>>

CreateTask ==
    /\ created < MaxTasks
    /\ created' = created + 1
    /\ row' = [row EXCEPT ![Task] = Inserted]
    /\ UNCHANGED <<column, ends, quiet, forgotten>>

(* cancel, pause, resume and retry.  The first two take the retry time     *)
(* away and tell the device, the last one takes the files away.            *)
Ask(op) ==
    /\ op \in Asked
    /\ Exists(Task)
    /\ Service!Allowed(op, row[Task].status)
    /\ down' = IF Service!SendsAbort(op, row[Task])
               THEN Append(down, [order |-> op, session |-> NoSession]) ELSE down
    /\ row' = [row EXCEPT ![Task] = Service!Written(op, @)]
    /\ column' = [column EXCEPT !.retryAt = IF op = "resume" THEN @ ELSE Never,
                                !.files   = IF op = "retry" THEN NoFiles ELSE @]
    /\ UNCHANGED <<created, up, quiet, forgotten>>

(* A pass of the dispatcher: the assignment carries the session to resume, *)
(* and nothing asks whether the runs before have said all they know.       *)
HandOut ==
    /\ row[Task].status = "QUEUED"
    /\ row'  = [row EXCEPT ![Task] = Claimed(@, Host)]
    /\ down' = Append(down, [order |-> "assign", session |-> column.session])
    /\ forgotten' = IF AllSaid THEN forgotten ELSE forgotten \cup {"early"}
    /\ UNCHANGED <<created, column, up, quiet>>

(* COALESCE: a report without a session leaves the one the row has.        *)
(* Mutant: its arguments are swapped.                                      *)
Swapped(new, old)  == IF old = NoSession THEN new ELSE old
Coalesce(new, old) == IF new = NoSession THEN old ELSE new

ApplyReport ==
    LET m == Head(up)
    IN  /\ up # <<>>
        /\ up' = Tail(up)
        /\ row' = [row EXCEPT ![Task] = Reported(@, m.status)]
        /\ column' = IF ~Writable(row[Task]) THEN column
                     ELSE [session |-> Coalesce(m.session, column.session),
                           retryAt |-> m.at,
                           files   |-> IF m.status \in Final THEN m.files ELSE column.files]
        /\ UNCHANGED <<created, down, quiet, forgotten>>

-----------------------------------------------------------------------------
(* The client.                                                             *)

(* handleTask reports RUNNING and starts the process.                      *)
HandleTask(c, session) ==
    /\ Spawn(c, session)
    /\ up' = Append(up, Tell("RUNNING", NoSession, Never, NoFiles))
    /\ forgotten' = IF InUse \subseteq {c} THEN forgotten ELSE forgotten \cup {"overlap"}

TakeAssign(c) ==
    /\ down # <<>> /\ Head(down).order = "assign"
    /\ Free(c)
    /\ down' = Tail(down)
    /\ HandleTask(c, Head(down).session)
    /\ UNCHANGED <<tableVars, column, timing, crashes, latest>>

(* task:abort.  The timer of the task is cleared along with the process.   *)
TakeAbort ==
    /\ down # <<>> /\ Head(down).order \in {"pause", "cancel"}
    /\ down' = Tail(down)
    /\ AbortRun(Head(down).order)
    /\ timer' = IF pending = NoCall THEN timer ELSE [timer EXCEPT ![pending] = NoTimer]
    /\ pending' = NoCall
    /\ UNCHANGED <<tableVars, column, up, now, crashes, latest, forgotten>>

(* A piece of output.  One that is torn may have been the one to tell the  *)
(* session.                                                                *)
Output(c) ==
    /\ \/ ReadRest(c) \/ ReadText(c) \/ \E e \in Events : ReadEvent(c, e) \/ ReadHead(c, e)
    /\ forgotten' = IF truth'[c].torn THEN forgotten \cup {"torn"} ELSE forgotten
    /\ latest' = IF truth'[c].session > latest THEN truth'[c].session ELSE latest
    /\ UNCHANGED <<tableVars, column, ends, timing, crashes>>

(* The time to wait: at least one second, and a delay that setTimeout      *)
(* cannot hold counts as the shortest there is.  Mutant: the difference is *)
(* the wrong way round.                                                    *)
Backwards(at) == IF now > at THEN now - at ELSE 1
Delay(at)     == IF at > now THEN at - now ELSE 1
Timeout(delay) == IF delay > MaxTimeout THEN 1 ELSE delay

RetryTimes(x) == IF x.limit = "reset" THEN Resets ELSE {now + Backoff}

End(c, ok, tree) ==
    LET x == proc[c]
        outcome == Outcome(x, ok)
        files == [names |-> ListOutputFiles(tree), of |-> tree]
    IN  /\ CloseProcess(c)
        /\ CASE outcome = "aborted" ->
                  /\ up' = IF x.abort = "cancel" THEN up
                           ELSE Append(up, Tell("PAUSED", x.session, Never, NoFiles))
                  /\ UNCHANGED <<timer, pending>>
             [] outcome = "rate_limited" -> \E at \in RetryTimes(x) :
                  /\ up' = Append(up, Tell("PAUSED_RATE_LIMIT", x.session, at, NoFiles))
                  /\ timer' = [timer EXCEPT ![c] = [session |-> x.session, at |-> at,
                                                    due |-> now + Timeout(Delay(at)), set |-> now]]
                  /\ pending' = c
             [] OTHER ->
                  /\ up' = Append(up, Tell(IF outcome = "completed" THEN "COMPLETED" ELSE "FAILED",
                                           x.session, Never, files))
                  /\ UNCHANGED <<timer, pending>>
        /\ UNCHANGED <<tableVars, column, down, now, crashes, latest, forgotten>>

(* The timer goes off: the task is started over with the session the last  *)
(* run has known.                                                          *)
Retry(c) ==
    /\ timer[c] # NoTimer /\ now >= timer[c].due
    /\ HandleTask(c, timer[c].session)
    /\ timer' = [timer EXCEPT ![c] = NoTimer]
    /\ pending' = NoCall
    /\ UNCHANGED <<tableVars, column, down, now, crashes, latest>>

(* Time matters to timers alone.                                           *)
Tick ==
    /\ \E c \in Calls : timer[c] # NoTimer
    /\ now < MaxTime
    /\ now' = now + 1
    /\ UNCHANGED <<tableVars, column, runnerVars, ends, timer, pending, crashes, latest, forgotten>>

(* The client is stopped, and connects again after the server has put the  *)
(* task back.                                                              *)
Crash ==
    /\ crashes < MaxCrashes
    /\ crashes' = crashes + 1
    /\ proc'  = [c \in Calls |-> NoProcess]
    /\ truth' = [c \in Calls |-> Silence]
    /\ active' = NoCall
    /\ timer' = [c \in Calls |-> NoTimer]
    /\ pending' = NoCall
    /\ down' = <<>> /\ up' = <<>>
    /\ row' = [row EXCEPT ![Task] = IF Task \in Occupied(Host) THEN Requeued(@) ELSE @]
    /\ forgotten' = forgotten \cup {"crash"}
    /\ UNCHANGED <<created, column, spawned, heard, now, latest>>

RunNext ==
    \/ CreateTask
    \/ \E op \in {"cancel", "pause", "resume", "retry"} : Ask(op)
    \/ HandOut
    \/ ApplyReport
    \/ \E c \in Calls : TakeAssign(c) \/ Output(c) \/ Retry(c)
    \/ \E c \in Calls, ok \in BOOLEAN, tree \in Trees : End(c, ok, tree)
    \/ TakeAbort
    \/ Tick
    \/ Crash

(* The bounds of the two wires.                                            *)
Bounded == Len(down') <= MaxOrders /\ Len(up') <= MaxReports

RunSpec == RunInit /\ [][RunNext /\ Bounded]_runVars

-----------------------------------------------------------------------------
(* What the server is told when call c ends is what its process has said:  *)
(* a rate limit if the CLI has spoken of one in an error or in plain text  *)
(* and not if digits somewhere in an event look like one                   *)
(* (claude-runner.ts:73-77), the session it has named, and nothing but a   *)
(* pause if the user has asked for one.  Only output that a chunk has torn *)
(* is misunderstood.                                                       *)
Ends(c)   == proc[c].running /\ ~proc'[c].running /\ crashes' = crashes
Told(c)   == IF proc[c].abort = "pause" THEN {"PAUSED"}
             ELSE IF truth[c].torn THEN Outcomes
             ELSE IF truth[c].limit THEN {"PAUSED_RATE_LIMIT"} ELSE Final
UnderstoodUnlessTorn ==
    [][\A c \in Calls : Ends(c) =>
          IF proc[c].abort = "cancel" THEN up' = up
          ELSE LET m == up'[Len(up')]
               IN  /\ m.status \in Told(c)
                   /\ truth[c].torn \/ m.session = truth[c].session]_runVars

(* A run that waits out a rate limit is not started again before the time  *)
(* the CLI has told (index.ts:132-141), unless it is further away than a   *)
(* timer can count: then it is started again at once, and again.           *)
WaitsForReset ==
    [][\A c \in Calls : timer[c] # NoTimer /\ proc'[c].running
          => now >= timer[c].at \/ timer[c].at - timer[c].set > MaxTimeout]_runVars

(* A task that is handed out is given the latest session any of its runs   *)
(* has named (index.ts:138, realtime.gateway.ts:151 and :250), once they   *)
(* have said all they know, unless what one of them named was torn, lost   *)
(* in a crash or written over by a run it overlapped, or one was handed    *)
(* out early, with the session of a run before the last.                   *)
HandsOut == row[Task].status = "QUEUED" /\ row'[Task].status = "RUNNING" /\ down' # down
SessionPreserved ==
    [][HandsOut /\ AllSaid /\ forgotten = {} => column.session = latest]_runVars

(* The files the server keeps of a task, or is about to be told, are a     *)
(* listing of what the run has left: as many as the list holds, those a    *)
(* walk in depth finds first, sorted (list-output-files.ts:29-53).         *)
Lists == {column.files} \cup {up[i].files : i \in DOMAIN up}
FilesAreListed == \A files \in Lists : IsListing(files.names, files.of)

-----------------------------------------------------------------------------
(* For Agent, a call runs or waits, and how its process ends is anybody's  *)
(* guess.                                                                  *)
RunOf(c) ==
    IF Free(c) THEN [st |-> "free"]
    ELSE [st    |-> IF proc[c].running THEN "running" ELSE "waiting",
          host  |-> Host, task |-> Task, abort |-> proc[c].abort]

Abstract == INSTANCE Agent WITH
    Hosts <- Devices, Jobs <- Tasks, Runs <- Calls, NoChild <- NoCall,
    run    <- [c \in Calls |-> RunOf(c)],
    active <- [d \in Devices |-> [u \in Tasks |-> active]],
    retry  <- [d \in Devices |-> [u \in Tasks |-> pending]]

AgentStep ==
    \/ \E c \in Calls : \/ Abstract!Assigned(c, Host, Task)
                        \/ Abstract!Fired(c)
                        \/ \E outcome \in Outcomes : Abstract!Closed(c, outcome)
    \/ \E reason \in {"pause", "cancel"} : Abstract!Aborted(Host, Task, reason)
    \/ Abstract!Restarted(Host)

(* The client does what Agent says of it, and so what LocalMode checks of  *)
(* it, down to the entries in activeRuns and pendingRetries.               *)
ImplementsAgent == Abstract!AgentInit /\ [][AgentStep]_<<Abstract!agentVars>>
=============================================================================
