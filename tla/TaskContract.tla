---------------------------- MODULE TaskContract ----------------------------
(***************************************************************************)
(* What the controller promises about one task, whatever crashes, storage  *)
(* failures and races happen: the life of a task as its saved document     *)
(* (tasks/<id>/task.json) shows it, from one restart to the next.          *)
(*                                                                         *)
(* Scheduler implements it: see Contract in SchedulerProperties.           *)
(***************************************************************************)
EXTENDS Naturals

CONSTANTS Tasks, RetryLimit

VARIABLES
    status,   \* where the task stands
    fails     \* transfer failures of the current cycle

vars == <<status, fails>>

\* Nothing leaves these two.
Final == {"succeeded", "blocked"}

Statuses == Final \cup
    {"waiting", "executing", "pausing", "cancelling", "held", "cancelled",
     "failed", "review"}

TypeOK ==
    /\ status \in [Tasks -> Statuses]
    /\ fails \in [Tasks -> 0 .. RetryLimit]

Init ==
    /\ status = [t \in Tasks |-> "waiting"]
    /\ fails = [t \in Tasks |-> 0]

\* Task t goes from a status in `from` to `to`; its failures stay.
Move(t, from, to) ==
    /\ status[t] \in from
    /\ status' = [status EXCEPT ![t] = to]
    /\ UNCHANGED fails

Start(t) == Move(t, {"waiting"}, "executing")

\* A pause asked of a running task ends the execution as held, and as nothing
\* else but a success it came too late for.  So does a cancel.
AskPause(t)  == Move(t, {"executing", "cancelling"}, "pausing")
AskCancel(t) == Move(t, {"executing", "pausing"}, "cancelling")
Hold(t)      == Move(t, {"waiting", "pausing"}, "held")
Cancel(t)    == Move(t, {"waiting", "cancelling", "held", "failed", "review"}, "cancelled")

Succeed(t) == Move(t, {"executing", "pausing", "cancelling"}, "succeeded")

\* An execution the controller itself cut short costs the task nothing.
Interrupt(t) == Move(t, {"executing"}, "waiting")

Review(t) == Move(t, {"executing"}, "review")

\* Every other end counts, and the last one allowed fails the task.
Fail(t) ==
    /\ status[t] = "executing"
    /\ fails' = [fails EXCEPT ![t] = @ + 1]
    /\ \/ fails[t] + 1 < RetryLimit /\ status' = [status EXCEPT ![t] = "waiting"]
       \/ status' = [status EXCEPT ![t] = "failed"]

Resume(t) == Move(t, {"held"}, "waiting")

\* A retry opens a new cycle.
Retry(t) ==
    /\ status[t] \in {"failed", "cancelled", "review"}
    /\ status' = [status EXCEPT ![t] = "waiting"]
    /\ fails' = [fails EXCEPT ![t] = 0]

\* Only a task that may run, or may still be running, is ever blocked.  Its
\* record may be replaced by a stand-in that has counted nothing.
Block(t) ==
    /\ status[t] \in {"waiting", "executing", "pausing", "cancelling", "blocked"}
    /\ status' = [status EXCEPT ![t] = "blocked"]
    /\ fails' \in {fails, [fails EXCEPT ![t] = 0]}

Next == \E t \in Tasks :
    \/ Start(t) \/ AskPause(t) \/ AskCancel(t) \/ Hold(t) \/ Cancel(t)
    \/ Succeed(t) \/ Interrupt(t) \/ Review(t) \/ Fail(t)
    \/ Resume(t) \/ Retry(t) \/ Block(t)

Spec == Init /\ [][Next]_vars
==============================================================================
