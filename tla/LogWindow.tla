------------------------------ MODULE LogWindow ------------------------------
(***************************************************************************)
(* The window of a task's log: onAgentLog stores a line and then sends it  *)
(* to the user's room, and the window puts what is streamed after what the *)
(* history, which it asks for when it opens, has brought.  Lines are       *)
(* numbered in the order they are stored in.                               *)
(***************************************************************************)
EXTENDS Accounts, FiniteSets

CONSTANT MaxLines   \* bound: the lines the task writes

ASSUME MaxLinesAssumption == MaxLines \in Nat

VARIABLES
    stored,     \* how many lines are in task_logs
    telling,    \* those that have yet to be sent
    wire,       \* those on their way to the tab
    lines       \* the window

logVars == <<stored, telling, wire, lines>>

OpenedLog(p, signedIn) ==
    IF p = "logs" THEN Ask(Given(NotLoaded, <<>>), "mount", signedIn) ELSE NotLoaded

LogInit ==
    /\ stored = 0 /\ telling = {} /\ wire = <<>>
    /\ lines = OpenedLog(page, cookie)

LogTypeOK ==
    /\ stored \in 0..MaxLines
    /\ telling \subseteq 1..MaxLines
    /\ wire \in Seq(1..MaxLines)
    /\ lines \in Loaders({"mount"}, Seq(1..MaxLines))

(* A tab that starts anew has lost the socket of the old one.              *)
OpenOrLeaveLog(p, signedIn) ==
    /\ lines' = OpenedLog(p, signedIn)
    /\ wire' = IF sock' = "live" THEN wire ELSE <<>>
    /\ UNCHANGED <<stored, telling>>

(* The INSERT of onAgentLog.                                               *)
StoreLine ==
    /\ account # "none" /\ stored < MaxLines /\ Acts
    /\ stored' = stored + 1
    /\ telling' = telling \cup {stored + 1}
    /\ UNCHANGED <<account, cookie, form, me, page, sock, wire, lines>>

EmitLine(n) ==
    /\ n \in telling
    /\ telling' = telling \ {n}
    /\ wire' = IF sock = "live" THEN Append(wire, n) ELSE wire
    /\ lines' = IF sock = "live" THEN lines ELSE Changed(lines)
    /\ UNCHANGED <<accountVars, stored>>

(* onLog: the line goes after what the window shows.  If a history without *)
(* it is on its way, or a history had it already, the window is wrong.     *)
Shows(n) == \E k \in DOMAIN lines.shown : lines.shown[k] = n
Lacks(answer, n) == answer.value # Refused /\ Len(answer.value) < n

OnLine ==
    LET n == Head(wire)
    IN  /\ wire # <<>>
        /\ wire' = Tail(wire)
        /\ lines' = IF page # "logs" THEN lines ELSE
               [lines EXCEPT !.shown   = Append(@, n),
                             !.late    = @ \/ Shows(n),
                             !.answers = [k \in DOMAIN @ |-> IF Lacks(@[k], n) THEN Late(@[k]) ELSE @[k]]]
        /\ UNCHANGED <<accountVars, stored, telling>>

GetLog ==
    /\ lines.asked # {}
    /\ lines' = Read(lines, "mount", [n \in 1..stored |-> n])
    /\ UNCHANGED <<accountVars, stored, telling, wire>>

LogArrives(k) ==
    /\ lines' = Arrive(lines, k)
    /\ UNCHANGED <<accountVars, stored, telling, wire>>

(* The socket goes with what was on its way.                               *)
LogLost ==
    /\ lines' = IF wire = <<>> /\ telling = {} THEN Lose(lines) ELSE Changed(Lose(lines))
    /\ wire' = <<>>
    /\ telling' = {}
    /\ UNCHANGED stored

LogStep ==
    \/ StoreLine \/ GetLog \/ OnLine
    \/ \E n \in telling : EmitLine(n)
    \/ \E k \in DOMAIN lines.answers : LogArrives(k)

-----------------------------------------------------------------------------
(* Once nothing is on its way any more, the window has every line, once.   *)
WindowShowsLog ==
    page = "logs" /\ Settled(lines) /\ ~lines.late /\ telling = {} /\ wire = <<>> =>
        /\ Len(lines.shown) = stored
        /\ \A n \in 1..stored : Shows(n)
=============================================================================
