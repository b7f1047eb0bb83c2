--------------------------- MODULE OneRunExecution ---------------------------
(***************************************************************************)
(* What the runner promises of an execution, whatever object keeps the     *)
(* record of it: an authorization is good for one run, at most one run is  *)
(* live at a time, a stop request is never withdrawn, the outcome is       *)
(* decided once, and the outcome "completed" needs parser-owned evidence   *)
(* that the planned runtime loaded the model.                              *)
(*                                                                         *)
(* ExecutionLifecycle (the store) and ExecutionService (the coordinator,   *)
(* its worker threads and its cancellation tokens) both implement it.      *)
(***************************************************************************)
CONSTANTS
    Executions,   \* identities an execution can be given
    Outcomes,     \* the domain statuses a result can have
    Undecided     \* not an outcome: nothing has been decided yet

VARIABLES
    status,       \* where each execution stands
    outcome,      \* what was decided of it
    evidenced     \* the executions with a matching runtime-load observation

vars == <<status, outcome, evidenced>>

Statuses == {"unissued", "authorized", "withdrawn", "live", "stopping", "closed"}

(* A withdrawn execution was stopped before it began: it still occupies    *)
(* the runner until it is closed, although it never was live.              *)
Occupying == {"withdrawn", "live", "stopping"}

Init ==
    /\ status = [x \in Executions |-> "unissued"]
    /\ outcome = [x \in Executions |-> Undecided]
    /\ evidenced = {}

Authorize(x) ==
    /\ status[x] = "unissued"
    /\ status' = [status EXCEPT ![x] = "authorized"]
    /\ UNCHANGED <<outcome, evidenced>>

Begin(x) ==
    /\ status[x] \in {"unissued", "authorized"}
    /\ \A y \in Executions : status[y] \notin Occupying
    /\ status' = [status EXCEPT ![x] = "live"]
    /\ UNCHANGED <<outcome, evidenced>>

RequestStop(x) ==
    /\ \/ /\ status[x] = "authorized"
          /\ status' = [status EXCEPT ![x] = "withdrawn"]
       \/ /\ status[x] = "live"
          /\ status' = [status EXCEPT ![x] = "stopping"]
    /\ UNCHANGED <<outcome, evidenced>>

Observe(x) ==
    /\ status[x] \in Occupying
    /\ evidenced' = evidenced \cup {x}
    /\ UNCHANGED <<status, outcome>>

Close(x, o) ==
    /\ status[x] \in Occupying
    /\ evidenced' \in {evidenced, evidenced \cup {x}}
    /\ o = "completed" => x \in evidenced'
    /\ status' = [status EXCEPT ![x] = "closed"]
    /\ outcome' = [outcome EXCEPT ![x] = o]

Next ==
    \E x \in Executions :
        \/ Authorize(x)
        \/ Begin(x)
        \/ RequestStop(x)
        \/ Observe(x)
        \/ \E o \in Outcomes : Close(x, o)

Spec == Init /\ [][Next]_vars
=============================================================================
