------------------------------ MODULE WebClient ------------------------------
(***************************************************************************)
(* A tab of the web client and what it talks to: who is signed in, and the *)
(* page that is shown - the list of projects, the settings or the log of a *)
(* task - with what it has under way.  A page that is left forgets what it *)
(* had; the server goes on with what it was asked.                         *)
(***************************************************************************)
EXTENDS Settings, Projects, LogWindow

CONSTANT MaxCrashes     \* bound: how often the API dies

ASSUME MaxCrashesAssumption == MaxCrashes \in Nat

VARIABLE crashes

webVars == <<accountVars, settingsVars, projectVars, logVars, crashes>>

WebInit ==
    /\ AccountsInit /\ SettingsInit /\ ProjectsInit /\ LogInit
    /\ crashes = 0

WebTypeOK ==
    /\ AccountsTypeOK /\ SettingsTypeOK /\ ProjectsTypeOK /\ LogTypeOK
    /\ crashes \in 0..MaxCrashes

-----------------------------------------------------------------------------
(* The tab shows another page, or the same one anew.                       *)
TurnPage ==
    /\ Push \/ Redirect \/ Logout \/ \E p \in Pages : Go(p) \/ Visit(p)
    /\ OpenOrLeave(page', cookie) /\ OpenOrLeaveList(page', cookie) /\ OpenOrLeaveLog(page', cookie)
    /\ UNCHANGED crashes

(* A session that ends or begins elsewhere leaves the page as it is.       *)
StayOnPage ==
    /\ \/ \E f \in Forms : \/ Login(f) \/ Register(f) \/ CheckEmail(f)
                           \/ InsertUser(f) \/ InsertConnection(f)
       \/ SignOutElsewhere
       \/ \E k \in DOMAIN me.answers : MeArrives(k) \/ MeFails(k)
       \/ Handshake
    /\ UNCHANGED <<settingsVars, projectVars, logVars, crashes>>

Crash ==
    /\ crashes < MaxCrashes /\ Acts
    /\ crashes' = crashes + 1
    /\ AccountsLost /\ SettingsLost /\ ProjectsLost /\ LogLost

WebNext ==
    \/ TurnPage
    \/ StayOnPage
    \/ SettingsStep /\ UNCHANGED <<projectVars, logVars, crashes>>
    \/ ProjectsStep /\ UNCHANGED <<settingsVars, logVars, crashes>>
    \/ LogStep /\ UNCHANGED <<settingsVars, projectVars, crashes>>
    \/ Crash

WebSpec == WebInit /\ [][WebNext]_webVars

(* The page polls every five seconds, and a GET is answered.               *)
PollStep ==
    \/ \E get \in list.asked : GetDevices(get)
    \/ \E k \in DOMAIN list.answers : ListArrives(k)
    \/ Poll
FairWebSpec == WebSpec /\ WF_webVars(PollStep /\ UNCHANGED <<projectVars, logVars, crashes>>)

-----------------------------------------------------------------------------
(* What a page shows is what the server has, once nothing is on its way    *)
(* and unless an answer that was read earlier came later, a request failed *)
(* or another tab has changed it: whoever is signed in                     *)
(* (auth-context.tsx:24-50), the connection (page.tsx:25-56), the projects *)
(* (dashboard/page.tsx:16-37) and the log (task-ticket.tsx:89-110).        *)
ShownIsCurrent ==
    /\ Current(me, cookie)
    /\ page = "settings" => FormShowsRow
    /\ page = "projects" /\ known.shown # Unknown => Current(known, project)
    /\ WindowShowsLog

(* A user who has signed in has a connection row, or gets one on looking   *)
(* at the settings: it is missing only while the registration is under way *)
(* or if the API died in the middle of it (auth.service.ts:22-29).         *)
ConfiguredUnlessCrashed ==
    account = "bare" => crashes > 0 \/ \E f \in Forms : form[f] = "connection"

(* A page of settings that is left open shows the devices there are in the *)
(* end, whatever order the answers come in (page.tsx:33-40).               *)
DevicesShownInTheEnd ==
    <>[](page = "settings" /\ cookie) => <>[](list.shown = devices)
=============================================================================
