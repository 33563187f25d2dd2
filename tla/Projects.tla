------------------------------ MODULE Projects ------------------------------
(***************************************************************************)
(* The user's projects and the page that lists and creates them.  Of a     *)
(* project only the working directory counts, which the agent runs its     *)
(* tasks in: the slug of the name, with a number if that is taken, or      *)
(* whatever the request asks for.  "there" is a request from elsewhere.    *)
(***************************************************************************)
EXTENDS Accounts, FiniteSets, FiniteSetsExt

CONSTANTS
    Slugs,      \* bound: the slugs of the names the user thinks of
    Slots,      \* bound: the projects there are at once
    Wanted      \* bound: the numbers a directory asked for ends in

VARIABLES
    project,    \* project[p]: its directory, or NoProject
    creating,   \* creating[c]: the POST c is in the middle of
    known       \* the projects, as the page has them

projectVars == <<project, creating, known>>

Senders     == {"here", "there"}
Directories == Slugs \X (1..Cardinality(Slots) + 1)
NoProject   == <<>>
NoPost      == [st |-> "none"]

ASSUME SlotsAssumption  == IsFiniteSet(Slots)
ASSUME WantedAssumption == Wanted \subseteq 1..Cardinality(Slots) + 1

ProjectRows == [Slots -> Directories \cup {NoProject}]

Post == [st : {"choose"}, slug : Slugs] \cup [st : {"insert"}, dir : Directories]

OpenedList(p, signedIn) == IF p = "projects" THEN Ask(NotLoaded, "mount", signedIn) ELSE NotLoaded

ProjectsInit ==
    /\ project  = [p \in Slots |-> NoProject]
    /\ creating = [c \in Senders |-> NoPost]
    /\ known    = OpenedList(page, cookie)

ProjectsTypeOK ==
    /\ project \in ProjectRows
    /\ creating \in [Senders -> Post \cup {NoPost}]
    /\ known \in Loaders({"mount", "created"}, ProjectRows)

Existing == {p \in Slots : project[p] # NoProject}
Used     == {project[p] : p \in Existing}

-----------------------------------------------------------------------------
(* The page is opened or left.  A POST it has sent is on its own then.     *)
OpenOrLeaveList(p, signedIn) ==
    /\ known' = OpenedList(p, signedIn)
    /\ creating' = IF creating["here"] = NoPost THEN creating
                   ELSE [creating EXCEPT !["there"] = creating["here"], !["here"] = NoPost]
    /\ UNCHANGED project

InList == page = "projects" /\ KnowsUser

(* handleCreate; the button is disabled until the list is loaded again.    *)
CreateHere(slug) ==
    /\ InList /\ cookie /\ Acts
    /\ creating["here"] = NoPost /\ ~UnderWay(known, "created")
    /\ creating' = [creating EXCEPT !["here"] = [st |-> "choose", slug |-> slug]]
    /\ UNCHANGED <<account, cookie, form, me, page, sock, project, known>>

(* Elsewhere a directory may be asked for.                                 *)
CreateThere(post) ==
    /\ cookie /\ Acts
    /\ creating["there"] = NoPost
    /\ creating' = [creating EXCEPT !["there"] = post]
    /\ UNCHANGED <<account, cookie, form, me, page, sock, project, known>>

(* The loop over -2, -3, ...                                               *)
FirstFree(slug) == <<slug, Min({n \in 1..Cardinality(Slots) + 1 : <<slug, n>> \notin Used})>>

ChooseDirectory(c) ==
    /\ creating[c].st = "choose"
    /\ creating' = [creating EXCEPT ![c] = [st |-> "insert", dir |-> FirstFree(creating[c].slug)]]
    /\ UNCHANGED <<accountVars, project, known>>

(* The rows may be others by now than those the directory was chosen from. *)
InsertProject(c) ==
    /\ creating[c].st = "insert"
    /\ \E p \in Slots \ Existing : project' = [project EXCEPT ![p] = creating[c].dir]
    /\ creating' = [creating EXCEPT ![c] = NoPost]
    /\ known' = IF c = "here" THEN Ask(known, "created", cookie) ELSE Changed(known)
    /\ UNCHANGED accountVars

(* PATCH with a working directory, and DELETE.                             *)
MoveProject(p, dir) ==
    /\ p \in Existing /\ cookie /\ Acts
    /\ project' = [project EXCEPT ![p] = dir]
    /\ known' = Changed(known)
    /\ UNCHANGED <<account, cookie, form, me, page, sock, creating>>

RemoveProject(p) ==
    /\ p \in Existing /\ cookie /\ Acts
    /\ project' = [project EXCEPT ![p] = NoProject]
    /\ known' = Changed(known)
    /\ UNCHANGED <<account, cookie, form, me, page, sock, creating>>

GetProjects(get) ==
    /\ get \in known.asked
    /\ known' = Read(known, get, project)
    /\ UNCHANGED <<accountVars, project, creating>>

ProjectsArrive(k) ==
    /\ known' = Arrive(known, k)
    /\ UNCHANGED <<accountVars, project, creating>>

ProjectsLost ==
    /\ creating' = [c \in Senders |-> NoPost]
    /\ known' = Lose(known)
    /\ UNCHANGED project

ProjectsStep ==
    \/ \E slug \in Slugs :
           CreateHere(slug) \/ CreateThere([st |-> "choose", slug |-> slug])
    \/ \E dir \in Slugs \X Wanted : CreateThere([st |-> "insert", dir |-> dir])
    \/ \E c \in Senders : ChooseDirectory(c) \/ InsertProject(c)
    \/ \E p \in Slots : RemoveProject(p) \/ \E dir \in Slugs \X Wanted : MoveProject(p, dir)
    \/ \E get \in known.asked : GetProjects(get)
    \/ \E k \in DOMAIN known.answers : ProjectsArrive(k)

=============================================================================
