# Formal verification of claude-queue-platform

TLA+ models of the platform's task queue, their TLC runs, and TLAPS proofs about both modes, the
agent and the web client. File names below are relative to the repository; the mapping from every
definition to its lines of code is in `PROJECT.json`.

## 1. The system

A user writes tasks into a queue. Depending on the user's connection they are executed by the
API process with an Anthropic key (API_KEY mode, BullMQ on Redis) or by a client on the user's
own machines (LOCAL_CLI mode, Socket.IO). Both modes share one Postgres table.

| Component | Keeps | Does | Talks to |
|---|---|---|---|
| tasks table (`migrations/*.sql`) | a row per task: status, assigned device | single statements; the CHECK constraint on status, ON DELETE SET NULL | everybody |
| TasksService (`apps/api/src/tasks`) | nothing | create, cancel, pause, resume, retry, remove: read, check, write in a second statement, then abort, dispatch or enqueue | gateway, queue manager |
| RealtimeGateway (`realtime.gateway.ts`) | sockets with identity and rooms; `taskUpdateChains`, `dispatchChains` | (dis)connects, `agent:status` reports, the dispatcher | devices, agents, web |
| DevicesService | devices with ONLINE/OFFLINE; pairing codes in memory | pairing, findByToken, setStatus, remove | gateway |
| ClaudeConnectionService | a row per user: mode, key, concurrency limit | update, then a dispatch pass or a new worker concurrency | gateway, queue manager |
| QueueManagerService | a queue (Redis) and a worker (memory) per user | enqueue, process, rate-limit retry | table, Anthropic API |
| local agent (`apps/agent/src`) | `activeRuns`, `pendingRetries` | starts, aborts and watches Claude processes; waits out rate limits | gateway |
| ProjectsService | a row per project with its directory | create (chooses a directory), update, remove, list | table |
| auth (`apps/api/src/auth`) | users; the session is a cookie | register, login, logout, me | table |
| web client (`apps/web/src`) | per page: the tasks, projects, devices, settings or log lines it shows; one socket per tab | requests; merges answers, fetches and events | REST, gateway |
| crypto, mappers, database pool, health, migrations runner, deployment | - | pure functions, I/O, configuration | - |

What is hard about it:

* every `await` of a handler lets other handlers in, and the REST handlers write what they
  decided on an older read;
* a task's status is written by requests, reports, claims, disconnects and jobs, and only some
  of those statements are guarded;
* a task is claimed in the table before the device hears of it, so aborts can overtake it;
* a socket may close before, during or long before anybody notices; reports are buffered,
  reordered with respect to the table, or lost;
* the agent's tables are keyed by task and overwritten without looking;
* workers live in memory, jobs do not, and a switch of the mode moves neither jobs nor tasks;
* the CLI's output comes in chunks that end anywhere, and each is read by itself;
* the pages take every answer as it comes, whatever was asked first;
* nobody polls: every step that makes work or room must ask for a dispatch pass.

What makes it correct: no task is handed out twice or lost, a device is never given more than
its limit, a cancelled task stays cancelled, an abort reaches the process it is meant for, no
device is idle while a task waits, and the queue is worked off in the end - across crashes and
lost connections. Beyond the queue: a session is resumed and not lost, the worker follows the
settings, a pairing code pairs one device, a page that has settled shows what the
server has. The hazards behind those sentences are listed at their lines in
`PROJECT.json`, each with the properties that catch it or the reason none does yet.

## 2. The modules

    TaskTable      the rows and the statements that write them
    Connection     the user's mode, limit and key
    TasksService   the REST handlers               (TaskTable)
    Gateway        sockets, reports, dispatcher    (TaskTable, Connection)
    LocalServer    the server in LOCAL_CLI mode    (TasksService, Gateway)
    Agent          the client's processes and timers
    LocalMode      server + sockets + agents       (LocalServer, Agent)
    QueueManager   BullMQ queue and worker         (TaskTable, Connection)
    ApiMode        the server in API_KEY mode      (TasksService, QueueManager)
    Platform       both modes, switched at any time (ApiMode, Gateway, INSTANCE LocalServer)
    Allocator      abstract: what both modes promise of the tasks they hand out
    ClaudeRunner   the processes of a task and what their output is taken for
    OutputFiles    the listing of the files a task leaves behind
    TaskRun        one task's output, reports, session, retry time and files
                                                   (TaskTable, ClaudeRunner, OutputFiles)
    Dashboard      the web client's project page   (TasksService)
    Loader         what a page keeps of something it GETs
    Accounts       registration, session, page and socket of a tab (Loader)
    Settings       the settings page, connection, devices, pairing (Accounts, Connection)
    Projects       the project list and ProjectsService (Accounts)
    LogWindow      the log of a task               (Accounts)
    WebClient      the tab with its pages          (Settings, Projects, LogWindow)
    MC*            the sets the runs use
    TasksServiceProofs, GatewayProofs   what the handlers and the dispatcher may do
    LocalModeProofs                     the server in local mode, then the whole of it
    ApiModeProofs, PlatformProofs, DashboardProofs, TaskRunProofs,
    WebClientProofs                     the theorems about the modules they are named after

**TaskTable.** `row[t]` keeps status and device; the statements are functions from the old row
to the new one (`Inserted`, `Canceled`, `Paused`, `Requeued`, `Claimed`, `Reported`). A
statement is atomic, nothing else is. `revived` is history: it marks a row that a late report,
not a claim, has made RUNNING or PAUSED_RATE_LIMIT. Prompts and results are left out: nothing
branches on them. Session, retry time and files are columns of TaskRun.

**TasksService.** `req[r]` is a call in flight: `Load` reads and checks, `Update` writes without
checking again, `Route` reads the mode. `create` inserts in one step and routes in a second.
What a handler asks of others (`SendsAbort`, `DispatchesAfter`, "route") is carried out by the
composing module.

**Gateway.** One action per statement. A session goes through find (token), mark (ONLINE) and,
when its socket closes, mark (OFFLINE) and requeue; a socket that closes before it has an
identity gets no disconnect handling, as in the code. `chain[t]` is the promise chain of a
task: its head is applied, and a final report stays at the head until the pass it asked for
is through. `pass[p]` is a run of `dispatchForUser` with its local variables; `after` is the
promise it waits for, `dispatchChain` the last one asked for. A claim takes the oldest QUEUED
row that is not locked (SKIP LOCKED: any row somebody is writing may be skipped); one for a
device removed meanwhile fails the pass. `overlooked` is history: a step freed a slot or
queued a task and asked for no pass, and no pass has started since.

**LocalServer** composes the two with an open environment: an identified device may report
anything about any task, for the server checks neither. This is the abstract specification of
the local mode.

**Agent / LocalMode.** `run[c]` is one call of `handleTask`, running or waiting for a rate limit;
`active` and `retry` are the agent's two maps. LocalMode adds two message queues per device, so
that only processes that ran report. `link` is the agent's end of a socket and `session` the
server's: when a connection breaks the agent knows first (`Lose`, `Crash`), the server finds out
in `Notice`. Messages under way are lost, reports made afterwards wait in the client, and those that
reach the server before the token has been looked up are ignored (`Upload`). The user may remove a
device at any moment (`DeleteDevice`): its rows lose their device and keep their status, its process
goes on and reports, and when its agent connects again it is sent away (`Refuse`), as often as it
tries. `Owner` says whose the rows of such a device are: nobody's. A CLI process ends with the agent
that started it (`Restarted`); one that outlives it, which `spawn` permits, is in no model, for nobody
listens to it any more.

**QueueManager / ApiMode.** `job[j]` is a BullMQ job and where `process` is with it; `worker` is the
worker's concurrency, 0 without a worker. `Crash` ends the worker and every request; its jobs
stall and are taken again, once a worker exists. A PUT of the settings
writes the row (`Save`) and, after an await, the worker's concurrency (`Sync`); `syncing[s]` is the
limit it has in hand. Nothing keeps two of them apart, so they reach the worker in any order. BullMQ is
external: waiting, delayed and
stalled jobs are modelled by what the code relies on. A limited job that adds its delayed
successor becomes that successor.

**Dashboard.** Writing a row and emitting the event about it are two steps (an `await` lies
between them), so two writers' events may cross. The page hears events in order, but answers
and list fetches come when they come. Writes are numbered to say which state is newer. The
rest of the server is one writer that claims, reports and disconnects; jobs of the API mode,
which read the row again before they emit, are not among the writers.

**Platform.** ApiMode and Gateway over one table; the LocalServer actions on the rows are taken by
name (`Server!`). `Switch` is a PUT of the settings: it writes the row and then, in API_KEY mode,
the worker's concurrency (`syncing[s]`, one per PUT under way), else it asks for a pass. Where a
request goes is decided when it reads the mode, so an enqueue begun before a switch ends after it.
`Die` is the death of the API: sessions, promise chains, passes, worker and requests are gone;
devices stay ONLINE, rows RUNNING, jobs in Redis. The history variables name the reasons a later
state may have: `straddling` (the task was there at a switch, or claimed by a pass begun before it),
`resumed` (while it had a job), `stuck` (its job ended without writing), `contended` (at the last
save another save or an enqueue had a limit in hand that it had read before, and may hand it to the
worker last). A device reports on what it was handed.

**Allocator.** Clients wait, are granted to a holder with room, and come back. LocalServer
implements it with the devices as holders (a task is held while its row occupies a slot and was
not revived by a late report), ApiMode with the user's worker as the one holder of the tasks
whose jobs it executes. The room is what the code allows at that moment: on a device as many tasks as
the limit that the pass at work has read (`ReadBefore`), in the queue as many as the worker's
concurrency. `DispatchAllocates` and `QueueAllocates` are these refinements.

**ClaudeRunner.** `proc[c]` has the variables of one `runClaudeTask` call. An event is what the
client would learn from it; it is read whole (`ReadEvent`), or a chunk ends within it and neither
piece is JSON (`ReadHead`, `ReadRest`), so each piece is searched for the words of a rate limit.
`looks` says which piece has such words by accident. `truth` is history: what the process has
really said. `activeRuns` has one entry per task, so a second call hides the first and the first
to close deletes the entry of either.

**OutputFiles.** A directory tree numbers its entries in readdir order. `ListOutputFiles` is the
code's walk - depth first, capped while collecting, then sorted - as a recursive function;
`IsListing` is the reference definition it is checked against: files worth considering, each once,
sorted, as many as the list holds, and those left out are the ones a walk in depth finds last
(`Precedes`). That is not what the comment above the code says (`list-output-files.ts:23-26`, "the most
recently changed files ... always come first"): the walk stops at MAX_FILES before anything is
sorted. `LatestMayBeMissing`, an assumption of MCTaskRun that TLC evaluates in the run, exhibits a
directory whose latest files are left out.

**TaskRun.** One task on one device: the columns a run leaves (`column`), two queues of messages,
timers with the time they were set for. A request is one step, so is a pass, for their
interleavings are LocalMode's. `forgotten` is history: the reasons why a session may be older than
the latest. One of them is `early`: a task paused and resumed at once is handed out while its process
has yet to report, with the session of the process before. `Delay` and `Timeout` are
the arithmetic of the retry; a delay above 2^31 - 1 is 1 for `setTimeout`. TaskRun implements Agent
(`ImplementsAgent`): what LocalMode assumes of a run's outcome is what the output makes of it.

**Loader, Accounts, Settings, Projects, LogWindow, WebClient.** A `Loaders` record is one
`api.get(...).then(set...)` of a page: GETs asked, answers in the order the server read them, what
is shown. Answers arrive in any order. `late` is history: the value shown, or an answer, is not
what the server has, because an answer read later came first, a request failed, or someone else
changed it. Accounts has the tab's session, page and socket and registration with its two INSERTs;
Settings the form, PUT, devices and pairing codes with both the browser's and the agent's side;
Projects the choice of a directory; LogWindow a log line from `onAgentLog` to the window. A page that
is left forgets what it had. `there` is another tab or another client; signing out is one step.

## 3. The runs

| Run | Bounds | Checks |
|---|---|---|
| `local_pair` | 2 tasks, 1 removable device with 2 slots, 2 processes, 2 passes, cancel and retry one at a time | `LocalTypeOK`, `NoLostTask`, `ProcessOwnsItsRow`, `OneRunPerTask`, `AbortFindsItsRun`, `CancelIsFinal`, `FinalReportIsLast` |
| `local_recovery` | 2 tasks, 1 device with 1 slot, 2 passes, 2 sessions, 3 processes, one crash or lost connection, fair | `NoLostTask`, `RequeuedWhenGone`, `QueuedBelongsToNobody`, `WorkConserving`, `ClaimsRespectLimit`, `QueueIsWorkedOff` |
| `api_queue` | 2 tasks, 2 jobs, limits 1 and 2, 1 save and 1 request at a time, 1 crash, fair | `NothingStranded`, `QueueAllocates`, `JobsAreWorkedOff` |
| `platform` | 1 removable task, 2 removable devices, 1 session at a time, 2 jobs, 2 passes, 2 saves at a time, limits 1 and 2, 1 crash; 3 user calls (the deletion not counted), saves, connections, removals of devices or crashes in all | `PlatformTypeOK`, `OneExecutor`, `SecondJobExplained`, `StrandedExplained`, `WorkerFollowsLimit`, `CancelExplained`, `CompletedExplained`, `HandedOverOnlyWhenReleased` |
| `task_run` | 1 task, 2 processes, 2 events, 3 trees with 2 files listed, 3 reset times, 1 crash | `RunTypeOK`, `FilesAreListed`, `UnderstoodUnlessTorn`, `WaitsForReset`, `SessionPreserved`, `ImplementsAgent` |
| `dashboard_page` | 1 task, 4 writes, 2 fetches, 2 events | `DashTypeOK`, `EveryChangeArrives` |
| `web_pages` | 1 tab and another, 3 acts of the user, the task or a crash, 2 machines, 1 code, 2 projects, 2 lines, fair | `WebTypeOK`, `ShownIsCurrent`, `ConfiguredUnlessCrashed`, `OneDevicePerCode`, `SaveChangesOnlyEdits`, `DevicesShownInTheEnd` |

Why these bounds suffice for what they ask. Two tasks for one slot (`local_recovery`) are the least for
which order, skipping and limits matter, two tasks in two slots (`local_pair`) the least for which
processes can take each other's rows; two passes are the least for which serialisation does; two
sessions the least for a reconnect that overtakes its disconnect; two processes per device the
least for which one could hide the other. In `api_queue` a worker of concurrency 1 and two jobs show
a worker that takes one too many. `Requests` has one member in the passing runs because
two requests about one task break `CancelIsFinal` (below); what holds for several is proved
instead (section 5). A save that changes nothing is left out (`Reconfigure`). Every bound is a CONSTANT
with its meaning beside it. The runs set
CHECK_DEADLOCK FALSE because the system may rest: no task left to create, nothing in flight.

In `platform` three turns are the least for a switch, a call and a switch back or a crash, or for two
saves around an enqueue; claims, reports and jobs are not counted. One task is enough there, for its
executors are compared with each other and not with those of other tasks. In `task_run` a reset time
of 0 is past, 2 lies ahead, within what a timer counts (MaxTimeout), and 9 beyond that; two processes
are the least for one to resume the other's session or to overlap it; the
trees have a file before a directory, more files than the list holds, a skipped directory and
a file that vanishes. In `web_pages` three acts let two GETs of one thing be under way with a change
between them.

The `...Explained` properties, `OneExecutor`, `WorkerFollowsLimit`, `UnderstoodUnlessTorn`,
`SessionPreserved` and `SaveChangesOnlyEdits` list the circumstances in which the code does not keep the
promise; that there are no others is what the runs show and section 5 proves. `CancelExplained` names
two for a cancelled task: the one unguarded UPDATE of the queue (`queue-manager.service.ts:132`), and,
where requests come several at a time, the write of one that had checked the status before
(`tasks.service.ts:111`, `:127`, `:152`). In `platform` requests come one at a time, so there the first
is the only one. `CompletedExplained` adds, for a completed task, the report of a device that was handed
it (`realtime.gateway.ts:157-170` spares cancelled rows only), and a task with an executor too many.

What the passing runs leave out: `local_pair` pause and resume, `api_queue` resume, for with them
`NoLostTask` (run `pause_loses_retry`) does not hold, and a task may have a second job while the first is
delayed, which `platform` allows (`SecondJobExplained`).
`local_recovery` is `Orderly`: a fault strikes when no pass, report or connect is under way, and
the server deals with the disconnect before it dispatches or the device returns. Without that
assumption the run `stale_device` shows what happens. No device is removed there: the process of a
removed device reports to no row of the device's, and once its agent is gone nobody requeues the task.

Symmetry is used for passes, sessions, devices, jobs and saves in safety runs only, where
nothing tells them apart; the runs with liveness properties use none.

### What the code does not keep

Five runs expect a violation; each finding in `PROJECT.json` quotes the line it contradicts.

| Run | Property | What happens |
|---|---|---|
| `pause_loses_retry` | `NoLostTask` | the rate-limit report overwrites PAUSED after the abort has cleared the timer: nobody resumes the task |
| `stale_device` | `RequeuedWhenGone` | a socket that closes during the token lookup leaves its device ONLINE and gets it a task for ever |
| `limit_undoes_cancel` | `CancelIsFinal` | a call for a task cancelled meanwhile meets a rate limit: the task is enqueued again, "final" or not (`003_task_control.sql:1-2`) |
| `api_restart` | `ApiQueueIsWorkedOff` | after a restart no worker exists until something is enqueued |
| `limit_lags` | `LimitTakesEffect` | a save while a task is being enqueued: the worker is set to the limit read before, and keeps it ("taking effect immediately", `README.md:28`) |

Further disagreements the models contain and no run is devoted to; `PROJECT.json` lists them as hazards
at their lines:

* an abort between the claim and the assignment finds nothing, and the cancelled task is executed
  (`tasks.service.ts:82`);
* two requests at once: a pause that checked before a cancel writes after it (`tasks.service.ts:111`);
* a disconnect requeues and asks for no pass, so a device that is there may stay idle beside the
  queue until something else asks (`realtime.gateway.ts:101-103`);
* the tasks of a removed device keep their status and are nobody's once its agent stops
  (`devices.service.ts:57`);
* a retry-after that is a date ends the job before it has written or enqueued anything
  (`queue-manager.service.ts:127`);
* the latest files of a large directory may not be listed (`list-output-files.ts:23-26`);
* two projects of one name created at once get the same directory (`projects.service.ts:38-56`).

## 4. Fairness

`Fairness` (LocalMode) gives weak fairness to what the runtime does by itself: a handler goes on
after its await, a promise chain moves, a socket delivers and reconnects (`reconnection: true`),
a timer fires, a process ends. Creating tasks, requests by the user and faults get none. Strong
fairness says that a task's process on a device does not end on a rate limit for ever; the
limit has a reset time. `ApiFairness` is the same for the API: requests, the worker and BullMQ
go on, a job is not passed over for ever, and calls do not meet a limit for ever.

`JobsAreWorkedOff` asks for a worker, because after a crash there is none until something is
enqueued. That is the finding `api_restart`, not an assumption about the code.

`FairWebSpec` has weak fairness of the poll alone: `setInterval` asks every five seconds while the page
is open, and a GET is answered. `DevicesShownInTheEnd` supposes that the page is left open and
the user signed in.

## 5. What is proved

Eight modules are checked by TLAPS for all values of the constants: any number of tasks, devices,
sessions, requests, passes, jobs, processes, events and faults.

### The theorems

*The server in local mode* (`LocalModeProofs`, first part), whatever devices report and however many
requests:

* `TypeCorrectness`, `QueuedUnassigned`: the type invariant; a queued task belongs to no device.
* `LimitRespected`: no claim takes a device past the limit its pass has read.
* `NeverHandedToTwo`: a task passes between devices only by way of none.
* `RevertsAreStaleWrites`: only a request that checked a status before the cancel brings a
  cancelled task back. `CancelFinal`: so, with at most one request in flight, none does.
* `NobodyIdles`: when nothing is in flight, no online device has a free slot while a task is queued,
  unless room was made and no pass asked for since (`overlooked`).
* `ServerAllocates`: the server implements Allocator (`DispatchAllocates`, which no run checks: what it
  says of one device beside `ClaimsRespectLimit` takes three tasks on two devices to break).

*Local mode with agents and sockets* (`LocalModeProofs`):

* `ImplementsServer`: LocalMode implements LocalServer, hence all of the above holds of it.
* `LocalTypes`, `AbortSound`, with any faults: the types; an abort finds a process or timer of the
  very task that is still going on.
* `NothingLost`, `ProcessesOwnTheirRows`, `NeverRunTwice`, `FinalIsLast`, while things are `Calm`, and
  across any number of orderly crashes: a task in a slot has somebody who will move it on, or the server
  has yet to notice that its device has left; a process works on a task its device holds; no task has two
  processes anywhere; nothing is reported after the end.
* `ClaimsRequeued`, in a `Tidy` world (no device removed, faults orderly), after crashes and lost
  connections alike, as many as there are: once the server is through with its disconnects, a device
  it cannot reach holds no task by a claim. `OnlyDeviceRequeued`: nor by a late report, if the user
  has one device (`RequeuedWhenGone`).

*API_KEY mode* (`ApiModeProofs`):

* `ApiTypeCorrect`, across crashes.
* `ApiNothingStranded`, if every answer can be written down (`AnswersWritten`): until the API dies a
  task to be executed is in a request's hands or has a job and a worker.
* `ApiQueueAllocates`, with one request at a time that resumes nothing (`OneByOne`): queue and worker
  implement Allocator, also across crashes.

*Both modes over one table* (`PlatformProofs`):

* `PlatformTypeCorrect`; `PlatformHandedOver`: a task passes between devices only by way of none,
  also with the queue beside them; `PlatformWorkerFollowsLimit`: at rest the worker runs as many
  jobs as the settings say, unless the last save was overlapped by another or by an enqueue that had
  read the limit before; `PlatformOneExecutor`: queue and device never both execute a task that was
  at no switch; `PlatformStrandedExplained`.
* `PlatformCancelExplained`: a cancelled task comes back by a rate-limited call only, and, where there
  are several requests at a time, by one that had checked it before.
* `PlatformSecondJobExplained`, `PlatformCompletedExplained`, with one request at a time.

*The project page* (`DashboardProofs`): `DashTypeCorrect`; `DashEveryChangeArrives`: once nothing is on
its way, the page has been given the last state of every task, in whatever order things came.

*One task in depth* (`TaskRunProofs`): `RunTypes`; `ReportedAsSaid`: a run whose output was not torn is
reported as what its process has said; `RetryWaits`; `AgentImplemented`: TaskRun implements Agent;
`SessionCarried`: a task handed out after its runs have said all is given the latest session;
`ListingsKept`: what the server keeps is the listing of one directory, given that each directory's
listing is right.

*The tab and its pages* (`WebClientProofs`), for any number of acts, codes, machines, projects, log
lines and crashes: `WebTypeCorrect`; `WebShownIsCurrent`: user, form, project list and log show what
the server has, unless marked late or still on the way; `WebConfigured`; `WebOneDevicePerCode`;
`WebSaveChangesOnlyEdits`.

### The hypotheses

Assumptions are the named ASSUMEs: sentinels lie outside their sets, limits inside the range the DTO
allows, passes and jobs are finite sets, the writers of Dashboard are not its requests, agents run on
the devices, the agent's backoff is within what a timer counts, the places for projects are finitely
many, bounds are natural numbers. TLC
evaluates them in the runs. Theorems about less than every behaviour say so as ASSUME, and each of
these hypotheses is there because the statement is false without it:

* `OneRequest` (at most one request in flight): two that check the same status write one after the
  other. A resume that has checked before a cancel revives the task after it, two retries enqueue it
  twice.
* `Tidy`: no device is removed (`Removable = {}`), and if there are faults they are `Orderly`, so a
  fault strikes when no pass, report or connect is under way. Run `stale_device` shows a disorderly one.
  A removal breaks the row from its process: a late report of the process may make a row RUNNING that is
  no device's, and what the requeue would have put back is nobody's to requeue. `local_pair` shows for
  one device without faults that nothing else comes of it.
* `Calm` is `OneRequest`, `Tidy`, no pause and no lost connection; agents may crash. With a pause
  `NoLostTask` is false (run `pause_loses_retry`). After a lost connection the server requeues a task
  whose process goes on: it is executed on a second device, and a report of the first one may revive its
  row after the second has ended it. If both then leave, the row occupies a slot and nobody knows of it.
* One device in `OnlyDeviceRequeued`: with two, the same late report may revive the row in the name of a
  device that is gone by then.
* `AnswersWritten`: a reset time that is no date makes the job's UPDATE throw, and a key that cannot be
  decrypted ends the job before it writes; both leave the row as it is.
* No resume in `OneByOne`: a task resumed while its job is delayed gets a second one.
* The listing of a directory is a recursion, and what it computes for every tree cannot be proved
  here; `task_run` checks it for the trees given.

### The arguments

**LocalServer.** `TypeOK` and `ClaimsRespectLimit` are not inductive. `Inv` adds `TableSound` (numbers
above `created` have no row; a request under way is about a task), `ReportsAwait` (a pass a report
waits for has that report's chain non-empty), `OneChain` (the waiting passes form one chain ending
in `dispatchChain`, with one pass at its head, so at most one pass is past its first statement) and
`ClaimHasRoom` (a pass about to claim has a free slot: between count and claim no other pass can
claim, and every other writer only frees slots or is marked `revived`). Two anatomy lemmas take a
step apart once - `RowAnatomy` says what it can do to a row, `PassAnatomy` what it can do to the
promise chain - and the invariants are proved from these instead of action by action. `CancelFinal`
needs `CheckHolds` as well: what the one request in flight has checked still holds when it writes.

`WorkConserving` speaks of states with nothing in flight and says nothing of how they are reached.
`LookedAfter` speaks of all states: unless a pass is about to start or a request about to ask for
one, the pass under way knows the current limit and every online device, and every device with room
for a queued task is still on its round, or the task is locked by somebody who will ask for a pass.
An action that makes room or work asks for a pass or is `overlooked`; the pass that runs drops a
device only when it has found it full or has found nothing to claim.

**LocalMode.** Every step of it must be a step of LocalServer or leave its variables alone. The one
case with content is `Upload`: what arrives must be a report about a task, so `LocalInv` types the
message queues, which needs the runs to be about tasks, which needs the dispatcher to assign tasks
only. `CalmInv` follows a task from its claim to its last report. A pass, an order or a run carries it
and never two of them (`OneExecutor`), all for the device in the row (`OnItsDevice`); a task that is
queued or done has nothing under way (`RestsInPeace`), so a claim starts from nothing; the end is the
last thing said (`EndIsLast`); an abort under way is a cancel's (`AbortIsCancel`); a task in a slot has a
carrier, or its end or a cancel is near, or its device has left and the requeue is to come (`Kept`,
`Left`). These hold only together, and only while orders, reports, runs and passes are those of devices
that are heard (`Wired`, `Voiced`). They are stated per task: a step is about one task, and leaves the
conditions of all others as they are (`UnmovedKeeps`), as long as nobody leaves (`Steady`).

`OrderlyInv` follows a device through its connections: it is `Attached` by one session, or `Leaving` one
the server is not through with, or `Away`: OFFLINE, without session, pass or claimed task. A fault
strikes when the passes rest, and a pass that rests knows no device (`BlankPasses`), so no pass knows a
device that has left (`Unseen`), nothing is claimed for it, and the requeue that ends `Leaving` leaves it
nothing. With one device the messages are followed too: a device that is not attached has none under
way, so no late report gives it a task (`SilentStep`).

`CalmInv` contains `OrderlyInv`, and that is what carries it across a crash. The crash takes
everything of the device away at once and leaves its tasks `Left` (`CrashKeeps`); while the device
is `Leaving` nothing new can come about for it (`LeavingHasNothing`), so the tasks that the requeue
puts back rest in peace (`RequeueKeeps`) and the next claim starts from nothing again.

**ApiMode, Platform.** `ApiInv` types what requests have in hand and says that jobs run on a worker.
`JobAnatomy` is what a step of a job may do. `NothingStranded` is inductive with it: each step that
lets go of a task hands it to the next. That a task has one job (`JobsSingle`) is not: it needs that
nothing comes to be about a task that has one (`Coming`), hence that such a task is not finished
(`JobUnique`, `JobOpen`). On the platform these are stated task by task, for they hold of the tasks
that were at no switch (`JobsApart`). `CheckStands` is what `CancelExplained` needs with one
request: whatever it has checked, the task is not cancelled when it writes (`CanceledBy`: nobody
else cancels). `ModesApart` is why two modes do not meet: a task that was at no switch has no job in
LOCAL_CLI mode and was handed to no device in API_KEY mode, and a pass past its first statement has
read LOCAL_CLI, unless it began before the switch. `LimitOnItsWay` says which limit a save or an
enqueue carries to the worker, unless saves or enqueues are `contended`. `RowMoves` is the anatomy
of a row written by both modes.

**Dashboard.** A page that has settled was told everything because the last state of a task is
carried (`AllCarried`): by an event not yet emitted, one on the wire, a list read after the write, a
list not yet read, or an answer after which the page reads one. Each step hands it on. `NothingAhead`
(what travels has been written) and `WritesWhenSilent` (a request emits before it writes again) make
the numbers of the writes comparable.

**TaskRun.** The client's knowledge agrees with `truth` unless output was torn (`Understood`), a timer is
due no earlier than it was set for (`Timers`), the maps name what they stand for (`Entered`). The
session is carried (`Carried`): as long as nothing was forgotten, the running process
and the timer have the latest session, and while no process runs the last report that names one has
it, or else the row.
`AgentImplemented` maps a call with a process to a run and a call with a timer to a waiting one; every
step is one of Agent's or invisible, which needs `Entered` for the two maps and `Past` for aborts.

**WebClient.** `WebInv` is a conjunction, page by page. `Fresh` is its core, stated once of a
`Loaders` record and used for user, connection and project list: unless it is late, what is shown,
and each answer on its way, is what the server has, or the GET that repairs it has been asked or is
about to be. A step that changes the server's value from elsewhere marks as late all that was read
before. `DevicesSound` says that a code is pending, confirmed by one machine or in one device, and
never two of these; `FormSound` that a form and a PUT that are not late differ from the row in what
the user has edited only; `ProjectsSound` that the list shown, save for what is late, is right or
about to be read again; `LogSound` that a line the window does not show is on the wire, unless the
window is late or has not been answered.

### Only model-checked

* Liveness (`QueueIsWorkedOff`, `JobsAreWorkedOff`, `DevicesShownInTheEnd`) and ENABLED: out of TLAPS'
  reach.
* What `ListOutputFiles` computes: induction over data.
* Local mode beyond `Calm`: `NoLostTask` when the one device loses its connection once
  (`local_recovery`), and `NoLostTask`, `ProcessOwnsItsRow`, `OneRunPerTask` and `FinalReportIsLast` when
  the device is removed (`local_pair`). With two devices and a second fault `NoLostTask` is false, see
  `Calm` above.

## 6. Not modelled

* Several API processes: the promise chains, codes and workers are in memory, so one process is
  assumed, as the deployment has it.
* Failing database statements, except the foreign key of a claim for a removed device, the UNIQUE
  constraints of a registration and the UPDATE with an invalid date.
* The jobs of the API mode as writers of the project page; a project page whose socket reconnects
  (it fetches nothing again; LogWindow shows what that means for a log).
* CLI processes that outlive the client that started them. An agent whose device has been removed is
  sent away each time it connects; how often it tries is left open.
* An agent whose process cannot be started in TaskRun (it is in Agent); the agent's configuration
  file and command line; `listModels`; editing a project in the page; layout and wording.
* Logout as two steps: the request and `setUser(null)` after its answer are one.
* Contents: prompts, results, names, keys, passwords and tokens. crypto, mappers, database pool,
  health, the migrations runner and the deployment have no state of their own.

## 7. Plan

Done: every component with state, alone and composed; every invariant and action property the passing
runs check is proved, under the hypotheses section 5 gives.

What is left: liveness, and what section 5 lists as only model-checked.
