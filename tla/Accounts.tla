------------------------------ MODULE Accounts ------------------------------
(***************************************************************************)
(* One user and one tab of the web client: registration, the session       *)
(* cookie all tabs share, whom the tab takes to be signed in, the page it  *)
(* shows and the socket it keeps.  "there" is the same form in another     *)
(* tab.                                                                    *)
(***************************************************************************)
EXTENDS Loader

CONSTANT MaxActs    \* bound: what the user does, the task writes and the API dies of

ASSUME MaxActsAssumption == MaxActs \in Nat

VARIABLES
    account,    \* the rows of the user: "none", "bare" without a connection, "full"
    cookie,     \* is the browser signed in?
    form,       \* form[f]: the registration or sign-in f is in the middle of
    me,         \* AuthProvider: loading as long as it is unknown
    page,       \* the page the tab shows
    sock,       \* getSocket(): the tab's one socket
    acts        \* what the user has done so far

accountVars == <<account, cookie, form, me, page, sock, acts>>

Forms == {"here", "there"}
Pages == {"login", "projects", "settings", "logs"}

(* GET /auth/me is answered from the cookie that comes with it.            *)
Refresh(l, get, signedIn) == Read(l, get, signedIn)

(* The tab is opened, by a user who is new, signed out or signed in.       *)
AccountsInit ==
    /\ account \in {"none", "full"} /\ cookie \in {FALSE, account = "full"}
    /\ form = [f \in Forms |-> "idle"]
    /\ page \in Pages
    /\ me   = Refresh(NotLoaded, "mount", cookie)
    /\ sock = IF page = "logs" THEN "connecting" ELSE "none"
    /\ acts = 0

AccountsTypeOK ==
    /\ account \in {"none", "bare", "full"}
    /\ cookie \in BOOLEAN
    /\ form \in [Forms -> {"idle", "check", "user", "connection", "refresh"}]
    /\ me \in Loaders({"mount", "form"}, BOOLEAN)
    /\ page \in Pages
    /\ sock \in {"none", "connecting", "live", "dead"}
    /\ acts \in 0..MaxActs

Acts == acts < MaxActs /\ acts' = acts + 1

-----------------------------------------------------------------------------
(* The session begins: the answer carries the cookie, and the tab whose    *)
(* form it is asks who is signed in.                                       *)
SignedIn(f) ==
    /\ cookie' = TRUE
    /\ form' = [form EXCEPT ![f] = IF f = "here" THEN "refresh" ELSE "idle"]
    /\ me' = IF f = "here" THEN Refresh(me, "form", TRUE) ELSE IF cookie THEN me ELSE Changed(me)

Submittable(f) == form[f] = "idle" /\ (f = "here" => page = "login" /\ ~UnderWay(me, "form"))

Login(f) ==
    /\ Submittable(f) /\ Acts
    /\ account # "none"
    /\ SignedIn(f)
    /\ UNCHANGED <<account, page, sock>>

Register(f) ==
    /\ Submittable(f) /\ Acts
    /\ form' = [form EXCEPT ![f] = "check"]
    /\ UNCHANGED <<account, cookie, me, page, sock>>

CheckEmail(f) ==
    /\ form[f] = "check"
    /\ form' = [form EXCEPT ![f] = IF account = "none" THEN "user" ELSE "idle"]
    /\ UNCHANGED <<account, cookie, me, page, sock, acts>>

(* The connection is inserted after the user.  Mutant: it is forgotten.    *)
NothingElse == "idle"
AfterUser   == "connection"

(* users.email is UNIQUE: of two registrations one fails here.             *)
InsertUser(f) ==
    /\ form[f] = "user"
    /\ form' = [form EXCEPT ![f] = IF account = "none" THEN AfterUser ELSE "idle"]
    /\ account' = IF account = "none" THEN "bare" ELSE account
    /\ UNCHANGED <<cookie, me, page, sock, acts>>

(* claude_connections.user_id is UNIQUE: if the other tab has signed in    *)
(* and looked at the settings by now, there is a row, and this one fails.  *)
InsertConnection(f) ==
    /\ form[f] = "connection"
    /\ account' = "full"
    /\ IF account = "bare" THEN SignedIn(f)
                           ELSE form' = [form EXCEPT ![f] = "idle"] /\ UNCHANGED <<cookie, me>>
    /\ UNCHANGED <<page, sock, acts>>

(* The other tab signs out, or the cookie expires: nobody tells this one.  *)
SignOutElsewhere ==
    /\ cookie /\ Acts
    /\ cookie' = FALSE
    /\ me' = Changed(me)
    /\ UNCHANGED <<account, form, page, sock>>

(* setUser(null).  Mutant: it is forgotten.                                *)
StillKnown(l) == l
LoggedOut(l)  == Given(l, FALSE)

-----------------------------------------------------------------------------
(* AppShell shows a page to a user it knows, and sends anyone else to the  *)
(* form once it does not expect an answer.  The effects of the page run    *)
(* all the same.                                                           *)
KnowsUser == me.shown = TRUE

(* Opening a project's page or a log is what makes the tab its socket.     *)
GetSocket(p) == sock' = IF p = "logs" /\ sock = "none" THEN "connecting" ELSE sock

Leave(p) == page' = p /\ GetSocket(p)

(* A full load: the tab starts anew.                                       *)
Visit(p) ==
    /\ form["here"] = "idle" /\ Acts
    /\ me' = Refresh(NotLoaded, "mount", cookie)
    /\ page' = p
    /\ sock' = IF p = "logs" THEN "connecting" ELSE "none"
    /\ UNCHANGED <<account, cookie, form>>

Go(p) ==
    /\ page # "login" /\ KnowsUser /\ p # page /\ p # "login" /\ Acts
    /\ Leave(p)
    /\ UNCHANGED <<account, cookie, form, me>>

(* handleSubmit after `await refresh()'.                                   *)
Push ==
    /\ form["here"] = "refresh" /\ ~UnderWay(me, "form")
    /\ form' = [form EXCEPT !["here"] = "idle"]
    /\ Leave("projects")
    /\ UNCHANGED <<account, cookie, me, acts>>

Redirect ==
    /\ page # "login" /\ me.shown = FALSE
    /\ Leave("login")
    /\ UNCHANGED <<account, cookie, form, me, acts>>

Logout ==
    /\ page # "login" /\ KnowsUser /\ Acts
    /\ cookie' = FALSE
    /\ me' = LoggedOut(me)
    /\ Leave("login")
    /\ UNCHANGED <<account, form>>

MeArrives(k) ==
    /\ me' = Arrive(me, k)
    /\ UNCHANGED <<account, cookie, form, page, sock, acts>>

(* Any other failure than a 401 leaves the user as it is.                  *)
MeFails(k) ==
    /\ me' = [Changed(me) EXCEPT !.shown = IF @ = Unknown THEN FALSE ELSE @,
                                 !.answers = RemoveAt(@, k)]
    /\ UNCHANGED <<account, cookie, form, page, sock, acts>>

(* handleConnection: a dashboard without a session is disconnected, which  *)
(* socket.io does not try to mend.                                         *)
Handshake ==
    /\ sock = "connecting"
    /\ sock' = IF cookie THEN "live" ELSE "dead"
    /\ UNCHANGED <<account, cookie, form, me, page, acts>>

(* The API dies.  Forms it is working on fail; a socket connects again.    *)
AccountsLost ==
    /\ form' = [f \in Forms |-> IF form[f] = "refresh" THEN "refresh" ELSE "idle"]
    /\ sock' = IF sock = "live" THEN "connecting" ELSE sock
    /\ UNCHANGED <<account, cookie, page, me>>
=============================================================================
