----------------------------- MODULE TaskTable -----------------------------
(***************************************************************************)
(* The table "tasks" of one user: the rows every component reads and       *)
(* writes, and the SQL statements that write them.  A statement is atomic; *)
(* what happens between two statements of one handler is the business of   *)
(* the modules that extend this one.                                       *)
(*                                                                         *)
(* Tasks are numbered in the order of created_at.  A row keeps the columns *)
(* that decide what happens to a task; prompt, model, result, error,       *)
(* output_files, claude_session_id and the timestamps are left out.        *)
(***************************************************************************)
EXTENDS Naturals

CONSTANTS
    MaxTasks,   \* bound: how many tasks are ever created
    Devices,    \* the user's paired devices
    NoDevice    \* assigned_device_id IS NULL

ASSUME MaxTasksAssumption == MaxTasks \in Nat
ASSUME NoDeviceAssumption == NoDevice \notin Devices

VARIABLES
    row,        \* row[t]: the row of task t, or NoRow
    created     \* how many tasks have been inserted so far

tableVars == <<row, created>>

Tasks  == 1..MaxTasks
NoTask == 0

Waiting   == {"QUEUED"}
Occupying == {"RUNNING", "PAUSED_RATE_LIMIT"}
Finished  == {"COMPLETED", "FAILED", "CANCELED"}
Statuses  == Waiting \cup Occupying \cup Finished \cup {"PAUSED"}

(***************************************************************************)
(* `revived' is history, not a column: it marks a row that a device's      *)
(* report, and not a claim, has put back among the occupying ones.         *)
(***************************************************************************)
Row == [status  : Statuses \cup {"NONE"},
        device  : Devices \cup {NoDevice},
        revived : BOOLEAN]

NoRow == [status |-> "NONE", device |-> NoDevice, revived |-> FALSE]

Exists(t) == row[t].status # "NONE"

(* The status a device reports about a task in agent:status.               *)
Reports == {"RUNNING", "PAUSED_RATE_LIMIT", "PAUSED", "COMPLETED", "FAILED"}
Final   == {"COMPLETED", "FAILED"}

-----------------------------------------------------------------------------
(* The statements, as functions from the old row to the new one.           *)

Inserted    == [NoRow EXCEPT !.status = "QUEUED"]
Canceled(x) == [x EXCEPT !.status = "CANCELED", !.revived = FALSE]

(* Mutant: a status the CHECK constraint does not list.                    *)
PausedUnlisted(x) == [x EXCEPT !.status = "ON_HOLD", !.revived = FALSE]
Paused(x)         == [x EXCEPT !.status = "PAUSED", !.revived = FALSE]

(* resume, retry and the requeueing after a disconnect all take the task   *)
(* away from its device.  Mutant: they leave it there.                     *)
QueuedInPlace(x) == [x EXCEPT !.status = "QUEUED", !.revived = FALSE]
Requeued(x)      == [x EXCEPT !.status = "QUEUED", !.device = NoDevice, !.revived = FALSE]

Claimed(x, d) == [x EXCEPT !.status = "RUNNING", !.device = d, !.revived = FALSE]

(* A report writes every row that has not been cancelled.  Mutant: and one *)
(* that has.                                                               *)
ReportWrites(x, rep) ==
    [x EXCEPT !.status  = rep,
              !.revived = rep \in Occupying /\ (x.status \in Occupying => x.revived)]
WritableAlways(x) == x.status # "NONE"
Writable(x)       == x.status \notin {"NONE", "CANCELED"}
Reported(x, rep) == IF Writable(x) THEN ReportWrites(x, rep) ELSE x

(* ON DELETE SET NULL on tasks.assigned_device_id.                         *)
DeviceForgotten(x) == [x EXCEPT !.device = NoDevice]

-----------------------------------------------------------------------------
TableInit ==
    /\ row = [t \in Tasks |-> NoRow]
    /\ created = 0

TableTypeOK ==
    /\ row \in [Tasks -> Row]
    /\ created \in 0..MaxTasks

(* The tasks in a slot of a device.  Mutant: all it has ever been given.   *)
AssignedTo(d) == {t \in Tasks : row[t].device = d}
Occupied(d)   == {t \in Tasks : row[t].device = d /\ row[t].status \in Occupying}
Held(d)       == {t \in Occupied(d) : ~row[t].revived}
Queued        == {t \in Tasks : row[t].status = "QUEUED"}

(* A queued task belongs to no device: a device that is told to abort it,  *)
(* or that disconnects, has nothing to do with it any more.                *)
QueuedBelongsToNobody == \A t \in Queued : row[t].device = NoDevice
=============================================================================
