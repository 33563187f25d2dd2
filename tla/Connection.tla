----------------------------- MODULE Connection -----------------------------
(***************************************************************************)
(* The user's row of claude_connections: which of the two execution modes  *)
(* is in force and how many tasks may run at once.  The row is written by  *)
(* the settings page alone.                                                *)
(***************************************************************************)
EXTENDS Naturals

CONSTANTS
    MaxLimit,   \* the largest concurrency_limit the DTO lets through
    Modes,      \* bound: the modes the user switches to
    Limits      \* bound: the limits the user chooses

ASSUME MaxLimitAssumption == MaxLimit \in Nat /\ MaxLimit >= 2
ASSUME ModesAssumption    == Modes \subseteq {"API_KEY", "LOCAL_CLI"}
ASSUME LimitsAssumption   == Limits \subseteq 1..MaxLimit

VARIABLE connection

Connections == [type : {"API_KEY", "LOCAL_CLI"}, limit : 1..MaxLimit, key : BOOLEAN]

ConnectionTypeOK == connection \in Connections

(* Registration inserts the defaults.                                      *)
DefaultLimit == 2
ConnectionInit == connection = [type |-> "API_KEY", limit |-> DefaultLimit, key |-> FALSE]

(* PUT /connection: a stored key survives a form without one.              *)
SaveConnection(type, limit, newKey) ==
    /\ type \in Modes
    /\ limit \in Limits
    /\ connection' = [type |-> type, limit |-> limit,
                   key  |-> connection.key \/ (type = "API_KEY" /\ newKey)]
=============================================================================
