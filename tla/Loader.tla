------------------------------- MODULE Loader -------------------------------
(***************************************************************************)
(* What a page of the web client keeps of something the server has:        *)
(* api.get(...).then(set...).  Several GETs may be under way at once, the  *)
(* server reads for each when it gets to it, and the answers arrive in any *)
(* order: the page takes each as it comes.                                 *)
(***************************************************************************)
EXTENDS Naturals, Sequences, SequencesExt

CONSTANTS
    Unknown,    \* nothing has arrived yet
    Refused     \* the answer is an error: 401 without a session

(* `late' is history: what it marks is not what the server has, because an *)
(* answer that was read later has been taken already, because a GET has    *)
(* failed, or because someone else has changed it since it was read.       *)
Loaders(Gets, Values) ==
    [shown   : Values \cup {Unknown},
     late    : BOOLEAN,
     asked   : SUBSET Gets,
     answers : Seq([get : Gets, value : Values \cup {Refused}, late : BOOLEAN])]

NotLoaded == [shown |-> Unknown, late |-> FALSE, asked |-> {}, answers |-> <<>>]

UnderWay(l, get) == get \in l.asked \/ \E k \in DOMAIN l.answers : l.answers[k].get = get
Settled(l)       == l.asked = {} /\ l.answers = <<>>
Late(answer)     == [answer EXCEPT !.late = TRUE]

Read(l, get, value) ==
    [l EXCEPT !.asked   = @ \ {get},
              !.answers = Append(@, [get |-> get, value |-> value, late |-> FALSE])]

(* The cookie goes with the request: without one it is refused.            *)
Ask(l, get, signedIn) ==
    IF signedIn THEN [l EXCEPT !.asked = @ \cup {get}] ELSE Read(l, get, Refused)

(* Everything the page has or will get without asking again is late.       *)
Changed(l) == [l EXCEPT !.late = TRUE, !.answers = [j \in DOMAIN @ |-> Late(@[j])]]

(* The answers are kept in the order they were read: this one overtakes    *)
(* those before it.                                                        *)
Arrive(l, k) ==
    LET taken == l.answers[k]
    IN  IF taken.value = Refused
        THEN [Changed(l) EXCEPT !.answers = RemoveAt(@, k)]
        ELSE [l EXCEPT !.shown   = taken.value,
                       !.late    = taken.late,
                       !.answers = RemoveAt([j \in DOMAIN @ |-> IF j < k THEN Late(@[j]) ELSE @[j]], k)]

(* The API dies: GETs it has not answered fail.                            *)
Lose(l) == IF l.asked = {} THEN l ELSE [Changed(l) EXCEPT !.asked = {}]

(* The page sets the value itself.                                         *)
Given(l, value) == [Changed(l) EXCEPT !.shown = value, !.late = FALSE]

Current(l, now) == Settled(l) /\ ~l.late => l.shown = now
=============================================================================
