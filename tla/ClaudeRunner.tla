---------------------------- MODULE ClaudeRunner ----------------------------
(***************************************************************************)
(* runClaudeTask: the calls of it for one task, each with its process of   *)
(* the Claude CLI, and what they make of the output.  The CLI writes       *)
(* events, one per line; what the client gets are chunks, which end        *)
(* anywhere, and it takes each chunk for whole lines.  An event that       *)
(* arrives in two pieces is therefore never parsed: its pieces are         *)
(* searched for the words of a rate limit instead.                         *)
(*                                                                         *)
(* One piece is one step: nothing runs between the lines of a chunk that   *)
(* could tell.  An event is what the client would learn from it, and which *)
(* of its pieces looks like a rate limit: the token counter 10429, torn    *)
(* after its first two digits, does.                                       *)
(***************************************************************************)
EXTENDS Naturals

CONSTANTS
    Calls,          \* bound: calls of handleTask that are not over
    NoCall,         \* the task is not in activeRuns, or pendingRetries
    Events,         \* bound: the events the CLI writes, among AllEvents
    MaxEvents,      \* bound: how many of them
    MaxProcesses    \* bound: how many processes are ever started

AllEvents == [tells : SUBSET {"session", "result", "limit", "reset"},
              looks : {"none", "head", "rest"}]

ASSUME EventsAssumption == Events \subseteq AllEvents
ASSUME NoCallAssumption == NoCall \notin Calls
ASSUME RunnerBounds == MaxEvents \in Nat /\ MaxProcesses \in Nat

VARIABLES
    proc,       \* proc[c]: the process and the variables of call c
    truth,      \* history: truth[c], what the process has really said
    spawned,    \* how many processes there have been
    heard,      \* how many events there have been
    active      \* activeRuns, of this task

runnerVars == <<proc, truth, spawned, heard, active>>

NoSession == 0
Whole     == [tells |-> {}, looks |-> "none"]   \* no event is torn

(* A process has the session of its own number, and knows the one it       *)
(* resumes until it has told.                                              *)
Process   == [running : BOOLEAN,
              nr      : 0..MaxProcesses,
              session : 0..MaxProcesses,                \* sessionId
              result  : BOOLEAN,                        \* resultText
              limit   : {"no", "default", "reset"},     \* sawRateLimit, rateLimitResetAt
              abort   : {"no", "pause", "cancel"},      \* abortReason
              torn    : AllEvents]                      \* its head has been read
NoProcess == [running |-> FALSE, nr |-> 0, session |-> NoSession, result |-> FALSE,
              limit |-> "no", abort |-> "no", torn |-> Whole]

Truth   == [session : 0..MaxProcesses, limit : BOOLEAN, torn : BOOLEAN]
Silence == [session |-> NoSession, limit |-> FALSE, torn |-> FALSE]

RunnerInit ==
    /\ proc    = [c \in Calls |-> NoProcess]
    /\ truth   = [c \in Calls |-> Silence]
    /\ spawned = 0
    /\ heard   = 0
    /\ active  = NoCall

RunnerTypeOK ==
    /\ proc    \in [Calls -> Process]
    /\ truth   \in [Calls -> Truth]
    /\ spawned \in 0..MaxProcesses
    /\ heard   \in 0..MaxEvents
    /\ active  \in Calls \cup {NoCall}

-----------------------------------------------------------------------------
(* spawn, with --resume if there is a session to resume.  The call that is *)
(* entered hides another one.                                              *)
Spawn(c, resume) ==
    /\ ~proc[c].running /\ spawned < MaxProcesses
    /\ spawned' = spawned + 1
    /\ proc'   = [proc EXCEPT ![c] = [NoProcess EXCEPT !.running = TRUE, !.nr = spawned + 1,
                                                       !.session = resume]]
    /\ truth'  = [truth EXCEPT ![c] = [Silence EXCEPT !.session = resume]]
    /\ active' = c
    /\ UNCHANGED heard

(* A line that can be parsed.                                              *)
Parsed(x, e) ==
    [x EXCEPT !.session = IF "session" \in e.tells THEN x.nr ELSE @,
              !.result  = @ \/ "result" \in e.tells,
              !.limit   = IF "reset" \in e.tells THEN "reset"
                          ELSE IF "limit" \in e.tells /\ @ = "no" THEN "default" ELSE @]

(* A line that cannot: a reset time is found if it is in that very piece.  *)
Searched(x, e, piece) ==
    IF e.looks # piece THEN {x}
    ELSE {[x EXCEPT !.limit = IF @ = "no" \/ found = "reset" THEN found ELSE @] :
             found \in {"default"} \cup (e.tells \cap {"reset"})}

(* What is read of the process, and what it has said.                      *)
Read(c, x, e, torn) ==
    /\ proc'  = [proc EXCEPT ![c] = x]
    /\ heard' = heard + 1
    /\ truth' = [truth EXCEPT ![c] =
                    [session |-> IF "session" \in e.tells THEN x.nr ELSE @.session,
                     limit   |-> @.limit \/ e.tells \cap {"limit", "reset"} # {},
                     torn    |-> @.torn \/ torn]]
    /\ UNCHANGED <<spawned, active>>

Reading(c) == proc[c].running /\ proc[c].torn = Whole /\ heard < MaxEvents

(* An event arrives in one piece, or a chunk ends within it.               *)
ReadEvent(c, e) == Reading(c) /\ Read(c, Parsed(proc[c], e), e, FALSE)

ReadHead(c, e) ==
    /\ Reading(c)
    /\ \E x \in Searched(proc[c], e, "head") : Read(c, [x EXCEPT !.torn = e], e, TRUE)

ReadRest(c) ==
    /\ proc[c].running /\ proc[c].torn # Whole
    /\ \E x \in Searched(proc[c], proc[c].torn, "rest") :
           proc' = [proc EXCEPT ![c] = [x EXCEPT !.torn = Whole]]
    /\ UNCHANGED <<truth, spawned, heard, active>>

(* Plain text, on stderr as a rule, is searched as it comes.               *)
ReadText(c) ==
    LET limit == [tells |-> {"limit"}, looks |-> "none"]
    IN  Reading(c) /\ Read(c, Parsed(proc[c], limit), limit, FALSE)

(* abortRun: the reason is noted and the process killed, which closes in   *)
(* its own time.                                                           *)
AbortRun(reason) ==
    /\ proc' = IF active = NoCall THEN proc ELSE [proc EXCEPT ![active].abort = reason]
    /\ UNCHANGED <<truth, spawned, heard, active>>

(* How a call ends: `ok' is the exit code 0.  Mutant: the exit code is     *)
(* looked at before what the output has told.                              *)
CodeFirst(x, ok) ==
    IF x.abort # "no" THEN "aborted"
    ELSE IF ok THEN "completed"
    ELSE IF x.limit # "no" THEN "rate_limited" ELSE "failed"
Outcome(x, ok) ==
    IF x.abort # "no" THEN "aborted"
    ELSE IF x.limit # "no" THEN "rate_limited"
    ELSE IF ok THEN "completed" ELSE "failed"

(* Mutant: the entry stays.                                                *)
Keep   == UNCHANGED active
Delete == active' = NoCall

(* The process has closed.  Whatever is entered for the task is deleted.   *)
CloseProcess(c) ==
    /\ proc[c].running
    /\ proc'   = [proc EXCEPT ![c] = NoProcess]
    /\ truth'  = [truth EXCEPT ![c] = Silence]
    /\ Delete
    /\ UNCHANGED <<spawned, heard>>
=============================================================================
