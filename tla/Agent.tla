------------------------------- MODULE Agent -------------------------------
(***************************************************************************)
(* The local client on each device: it starts a Claude process per task it *)
(* is assigned, reports how the process ends, waits out a rate limit with  *)
(* a timer and starts over.  activeRuns and pendingRetries are keyed by    *)
(* the task and overwritten without looking, so a second process for a     *)
(* task hides the first one.                                               *)
(*                                                                         *)
(* An action ends with what it tells the server, for the composing module  *)
(* to send: Starting, or Report(c, outcome).                               *)
(***************************************************************************)
EXTENDS Naturals, Sequences

CONSTANTS
    Hosts,      \* the devices the client is installed on
    Jobs,       \* the tasks it may be assigned
    Runs,       \* bound: calls of handleTask that are not over
    NoChild     \* a key that is not in activeRuns or pendingRetries

ASSUME NoChildAssumption == NoChild \notin Runs

VARIABLES
    run,        \* run[c]: one call of handleTask
    active,     \* activeRuns of each device
    retry       \* pendingRetries of each device

agentVars == <<run, active, retry>>

Run  == [st    : {"free", "running", "waiting"},
         host  : Hosts, task : Jobs,
         abort : {"no", "pause", "cancel"}]

Over == [st |-> "free"]

AgentTypeOK ==
    /\ run    \in [Runs -> Run \cup {Over}]
    /\ active \in [Hosts -> [Jobs -> Runs \cup {NoChild}]]
    /\ retry  \in [Hosts -> [Jobs -> Runs \cup {NoChild}]]

AgentInit ==
    /\ run    = [c \in Runs |-> Over]
    /\ active = [d \in Hosts |-> [t \in Jobs |-> NoChild]]
    /\ retry  = [d \in Hosts |-> [t \in Jobs |-> NoChild]]

Outcomes == {"COMPLETED", "FAILED", "PAUSED_RATE_LIMIT"}
Starting == <<"RUNNING">>

Free(c)    == run[c] = Over
Running(c) == run[c].st = "running"
Timed(c)   == run[c].st = "waiting"

(* Mutant: the entry of a task is not deleted.                             *)
StaysEntered(entries, d, t) == entries
Unentered(entries, d, t)    == [entries EXCEPT ![d][t] = NoChild]

(* A process is spawned and entered under its task.                        *)
Spawned(d, t) == [st |-> "running", host |-> d, task |-> t, abort |-> "no"]

(* task:assign.  Starting is reported before the process is there.         *)
Assigned(c, d, t) ==
    /\ Free(c)
    /\ run' = [run EXCEPT ![c] = Spawned(d, t)]
    /\ active' = [active EXCEPT ![d][t] = c]
    /\ UNCHANGED retry

(* The process cannot be started, and the task has failed at once.         *)
Unstartable == Starting \o <<"FAILED">>

(* task:abort: the process entered under the task is killed and will close *)
(* in its own time; the timer entered under it is cleared.                 *)
Aborted(d, t, reason) ==
    /\ run' = [c \in Runs |->
                  IF c = active[d][t] THEN [run[c] EXCEPT !.abort = reason]
                  ELSE IF c = retry[d][t] THEN Over ELSE run[c]]
    /\ retry' = Unentered(retry, d, t)
    /\ UNCHANGED active

(* The process has closed.  Whatever is entered under its task is deleted; *)
(* a reason to abort beats how it ended, and a rate limit sets the timer.  *)
(* Mutant: no timer is set.                                                *)
LimitedForGood(c, outcome) == Over
Ended(c, outcome) ==
    IF run[c].abort = "no" /\ outcome = "PAUSED_RATE_LIMIT"
    THEN [run[c] EXCEPT !.st = "waiting"] ELSE Over

Closed(c, outcome) ==
    LET d == run[c].host
        t == run[c].task
    IN  /\ Running(c)
        /\ run' = [run EXCEPT ![c] = Ended(c, outcome)]
        /\ active' = Unentered(active, d, t)
        /\ retry' = IF Ended(c, outcome) = Over THEN retry ELSE [retry EXCEPT ![d][t] = c]

(* What the server hears of it: nothing, if the task was cancelled.        *)
(* Mutant: it hears CANCELED, which is not a status devices may report.    *)
ReportCancel(c, outcome) ==
    CASE run[c].abort = "no"     -> <<outcome>>
      [] run[c].abort = "pause"  -> <<"PAUSED">>
      [] run[c].abort = "cancel" -> <<"CANCELED">>
Report(c, outcome) ==
    CASE run[c].abort = "no"     -> <<outcome>>
      [] run[c].abort = "pause"  -> <<"PAUSED">>
      [] run[c].abort = "cancel" -> <<>>

(* The timer fires: its entry is deleted and the task is started over.     *)
Fired(c) ==
    LET d == run[c].host
        t == run[c].task
    IN  /\ Timed(c)
        /\ run' = [run EXCEPT ![c] = Spawned(d, t)]
        /\ active' = [active EXCEPT ![d][t] = c]
        /\ retry' = Unentered(retry, d, t)

(* The client is stopped and started again: its tables and timers are      *)
(* gone.  A process that outlives it - nothing kills the children of a     *)
(* client that exits (claude-runner.ts:128) - is in no table, has nobody   *)
(* to report to, and is no run of the client any more.                     *)
Restarted(d) ==
    /\ run' = [c \in Runs |-> IF run[c].st # "free" /\ run[c].host = d THEN Over ELSE run[c]]
    /\ active' = [active EXCEPT ![d] = [t \in Jobs |-> NoChild]]
    /\ retry'  = [retry EXCEPT ![d] = [t \in Jobs |-> NoChild]]

(* An abort finds a run of its own task that is still going on, if it      *)
(* finds any: a process under activeRuns, a timer under pendingRetries     *)
(* (claude-runner.ts:57-71, index.ts:11-12).                               *)
AbortFindsItsRun ==
    \A d \in Hosts, t \in Jobs, c \in Runs :
        /\ active[d][t] = c => Running(c) /\ run[c].host = d /\ run[c].task = t
        /\ retry[d][t] = c  => Timed(c) /\ run[c].host = d /\ run[c].task = t
=============================================================================
