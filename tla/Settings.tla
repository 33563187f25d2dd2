------------------------------ MODULE Settings ------------------------------
(***************************************************************************)
(* The settings page: the form for the user's connection, the devices and  *)
(* the pairing of new ones, with the handlers behind them and the agent's  *)
(* `pair' command.                                                         *)
(***************************************************************************)
EXTENDS Accounts, Connection, FiniteSets

CONSTANTS
    Machines,   \* bound: the machines an agent is installed on
    MaxCodes    \* bound: the pairing codes ever asked for

ASSUME MaxCodesAssumption == MaxCodes \in Nat

VARIABLES
    conn,       \* the connection, as the page has it
    fields,     \* the form: mode, concurrency and whether a key is typed in
    edited,     \* history: the fields the user has set since they were filled
    put,        \* the PUT under way
    devices,    \* the user's devices: the code and the machine each came from
    list,       \* the devices, as the page has them
    code,       \* the pairing code the page shows, 0 if none
    codes,      \* pendingCodes
    given,      \* how many codes have been given out
    pairing     \* pairing[m]: the code machine m is confirming, and how far it is

settingsVars == <<connection, conn, fields, edited, put, devices, list, code, codes, given, pairing>>
deviceVars   == <<devices, list, code, codes, given, pairing>>
formVars     == <<connection, conn, fields, edited, put>>

Fields == [type : {"API_KEY", "LOCAL_CLI"}, limit : 1..MaxLimit, key : BOOLEAN]
Blank  == [type |-> "API_KEY", limit |-> DefaultLimit, key |-> FALSE]
NoPut  == [st |-> "none"]
Put    == [st : {"sent"}, to : Fields, edited : SUBSET {"type", "limit"},
           from : Connections \cup {Unknown}, late : BOOLEAN, mounted : BOOLEAN]
Codes  == 1..MaxCodes
Device == [code : Codes, machine : Machines]

(* The effect of the page: both GETs.                                      *)
Opened(p, signedIn) == IF p = "settings" THEN Ask(NotLoaded, "mount", signedIn) ELSE NotLoaded

SettingsInit ==
    /\ ConnectionInit
    /\ conn = Opened(page, cookie) /\ fields = Blank /\ edited = {} /\ put = NoPut
    /\ devices = {} /\ list = Opened(page, cookie)
    /\ code = 0 /\ codes = {} /\ given = 0
    /\ pairing = [m \in Machines |-> 0]

SettingsTypeOK ==
    /\ ConnectionTypeOK
    /\ conn \in Loaders({"mount", "saved"}, Connections)
    /\ fields \in Fields
    /\ edited \subseteq {"type", "limit"}
    /\ put \in Put \cup {NoPut}
    /\ devices \subseteq Device
    /\ list \in Loaders({"mount", "poll", "removed"}, SUBSET Device)
    /\ code \in Codes \cup {0}
    /\ codes \subseteq Codes
    /\ given \in 0..MaxCodes
    /\ pairing \in [Machines -> Codes \cup {0}]
-----------------------------------------------------------------------------
(* The page is opened or left, whichever it is that is shown now.  What is *)
(* under way for one that is left changes nothing on it.                   *)
OpenOrLeave(p, signedIn) ==
    /\ conn' = Opened(p, signedIn) /\ list' = Opened(p, signedIn)
    /\ fields' = Blank /\ edited' = {} /\ code' = 0
    /\ put' = IF put = NoPut THEN NoPut ELSE [put EXCEPT !.mounted = FALSE]
    /\ UNCHANGED <<connection, devices, codes, given, pairing>>

InSettings == page = "settings" /\ KnowsUser

(* ClaudeConnectionService.get: a user without a row gets one.  (While     *)
(* there is none, `connection' has what it is inserted with.)              *)
GetConnection(get) ==
    /\ get \in conn.asked
    /\ conn' = Read(conn, get, connection)
    /\ account' = "full"
    /\ UNCHANGED <<cookie, form, me, page, sock, acts, connection, fields, edited, put, deviceVars>>

(* loadConnection fills the form, whatever has been typed by now.          *)
(* Mutants: the slider is forgotten, or one further up.                    *)
FilledPartly(f, row)  == [f EXCEPT !.type = row.type]
FilledWrongly(f, row) == [f EXCEPT !.type = row.type, !.limit = row.limit + 1]
Filled(f, row)        == [f EXCEPT !.type = row.type, !.limit = row.limit]

ConnectionArrives(k) ==
    LET row == conn.answers[k].value
    IN  /\ conn' = Arrive(conn, k)
        /\ fields' = IF row = Refused THEN fields ELSE Filled(fields, row)
        /\ edited' = IF row = Refused THEN edited ELSE {}
        /\ UNCHANGED <<accountVars, connection, put, deviceVars>>

Edit(f, value) ==
    /\ InSettings /\ fields[f] # value /\ Acts
    /\ fields' = [fields EXCEPT ![f] = value]
    /\ edited' = edited \cup ({f} \ {"key"})
    /\ UNCHANGED <<account, cookie, form, me, page, sock, connection, conn, put, deviceVars>>

(* handleSave; the button is disabled until the form is filled again.      *)
Save ==
    /\ InSettings /\ put = NoPut /\ ~UnderWay(conn, "saved") /\ cookie /\ Acts
    /\ put' = [st |-> "sent", to |-> fields, edited |-> edited,
               from |-> conn.shown, late |-> conn.late, mounted |-> TRUE]
    /\ UNCHANGED <<account, cookie, form, me, page, sock, connection, conn, fields, edited, deviceVars>>

(* update, and the answer to it, if it gets there: the key goes from the   *)
(* form and the connection is loaded again.                                *)
PutApplied(heard) ==
    /\ put # NoPut
    /\ SaveConnection(put.to.type, put.to.limit, put.to.key)
    /\ account' = "full"
    /\ put' = NoPut
    /\ heard => put.mounted
    /\ conn' = IF heard THEN Ask(conn, "saved", cookie) ELSE Changed(conn)
    /\ fields' = IF heard THEN [fields EXCEPT !.key = FALSE] ELSE fields
    /\ UNCHANGED <<cookie, form, me, page, sock, acts, edited, deviceVars>>

(* Another tab.                                                            *)
SaveElsewhere(type, limit) ==
    /\ cookie /\ Acts
    /\ SaveConnection(type, limit, FALSE) /\ connection' # connection
    /\ account' = "full"
    /\ conn' = Changed(conn)
    /\ put' = IF put = NoPut THEN NoPut ELSE [put EXCEPT !.late = TRUE]
    /\ UNCHANGED <<cookie, form, me, page, sock, fields, edited, deviceVars>>

-----------------------------------------------------------------------------
(* The devices are shown in the mode the form is in, with a button to pair *)
(* another one that goes as soon as there is a code, and one on each.      *)
OffersPairing == InSettings /\ fields.type = "LOCAL_CLI" /\ code = 0
OffersRemoval == {d \in Device : /\ InSettings /\ fields.type = "LOCAL_CLI"
                                 /\ list.shown # Unknown /\ d \in list.shown}

StartPairing ==
    /\ OffersPairing /\ given < MaxCodes /\ cookie /\ Acts
    /\ given' = given + 1
    /\ codes' = codes \cup {given + 1}
    /\ code' = given + 1
    /\ UNCHANGED <<account, cookie, form, me, page, sock, formVars, devices, list, pairing>>

(* Five minutes are over.                                                  *)
Expire(c) ==
    /\ codes' = codes \ {c} /\ codes' # codes
    /\ UNCHANGED <<accountVars, formVars, devices, list, code, given, pairing>>

(* confirmPairing takes the code before it awaits the INSERT.  Mutant: it  *)
(* leaves that until later.                                                *)
StillThere(c) == codes
Taken(c)      == codes \ {c}

(* `pair --code' on a machine, with a code it can have been given.         *)
Confirm(m, c) ==
    /\ pairing[m] = 0 /\ c \in codes
    /\ codes' = Taken(c)
    /\ pairing' = [pairing EXCEPT ![m] = c]
    /\ UNCHANGED <<accountVars, formVars, devices, list, code, given>>

InsertDevice(m) ==
    /\ pairing[m] # 0
    /\ devices' = devices \cup {[code |-> pairing[m], machine |-> m]}
    /\ pairing' = [pairing EXCEPT ![m] = 0]
    /\ list' = Changed(list)
    /\ UNCHANGED <<accountVars, formVars, code, codes, given>>

GetDevices(get) ==
    /\ get \in list.asked
    /\ list' = Read(list, get, devices)
    /\ UNCHANGED <<accountVars, formVars, devices, code, codes, given, pairing>>

ListArrives(k) ==
    /\ list' = Arrive(list, k)
    /\ UNCHANGED <<accountVars, formVars, devices, code, codes, given, pairing>>

(* setInterval(loadDevices, 5000).  Mutant: loaded once and for all.       *)
LoadedOnce == UNCHANGED list
LoadAgain  == list' = Ask(list, "poll", cookie)

Poll ==
    /\ page = "settings" /\ ~UnderWay(list, "poll")
    /\ LoadAgain
    /\ UNCHANGED <<accountVars, formVars, devices, code, codes, given, pairing>>

(* removeDevice, as soon as the DELETE is answered.                        *)
RemoveDevice(d) ==
    /\ d \in OffersRemoval /\ cookie /\ Acts
    /\ ~UnderWay(list, "removed")
    /\ devices' = devices \ {d}
    /\ list' = Ask(list, "removed", cookie)
    /\ UNCHANGED <<account, cookie, form, me, page, sock, formVars, code, codes, given, pairing>>

(* The API dies: the codes were in its memory.                             *)
SettingsLost ==
    /\ conn' = Lose(conn) /\ list' = Lose(list)
    /\ put' = NoPut
    /\ codes' = {}
    /\ pairing' = [m \in Machines |-> 0]
    /\ UNCHANGED <<connection, fields, edited, devices, code, given>>

SettingsStep ==
    \/ \E get \in conn.asked : GetConnection(get)
    \/ \E k \in DOMAIN conn.answers : ConnectionArrives(k)
    \/ \E type \in Modes : Edit("type", type)
    \/ \E limit \in Limits : Edit("limit", limit)
    \/ \E key \in BOOLEAN : Edit("key", key)
    \/ Save
    \/ \E heard \in BOOLEAN : PutApplied(heard)
    \/ \E type \in Modes, limit \in Limits : SaveElsewhere(type, limit)
    \/ StartPairing
    \/ \E c \in Codes : Expire(c) \/ \E m \in Machines : Confirm(m, c)
    \/ \E m \in Machines : InsertDevice(m)
    \/ \E get \in list.asked : GetDevices(get)
    \/ \E k \in DOMAIN list.answers : ListArrives(k)
    \/ Poll
    \/ \E d \in devices : RemoveDevice(d)

-----------------------------------------------------------------------------
(* The form shows what is in force, save for what the user has set.        *)
FormShowsRow ==
    Settled(conn) /\ ~conn.late /\ put = NoPut /\ conn.shown # Unknown =>
        /\ conn.shown = connection
        /\ \A f \in {"type", "limit"} \ edited : fields[f] = connection[f]

(* Saving the form changes what the user has set and nothing else          *)
(* (page.tsx:40-56): unless it is saved before it has been filled, or      *)
(* filled with what someone else has changed or an answer overtook.        *)
SaveChangesOnlyEdits ==
    [][\A f \in {"type", "limit"} :
          put # NoPut /\ put' = NoPut /\ connection'[f] # connection[f]
              => f \in put.edited \/ put.from = Unknown \/ put.late]_<<settingsVars, accountVars>>

(* A code pairs one device, also when two machines confirm it at once      *)
(* (devices.service.ts:26-41).                                             *)
OneDevicePerCode == \A d, e \in devices : d.code = e.code => d = e
=============================================================================
