---------------------------- MODULE AttemptContract ----------------------------
(***************************************************************************)
(* What the attempts of one task promise, whoever looks at them: the       *)
(* controller, which opens and closes attempts in the task document; the   *)
(* runner, which starts and ends processes under the execution lock; the   *)
(* ledger, which reads what a process leaves.  Attempts follow one         *)
(* another, each is run at most once, and an attempt is closed only when   *)
(* nothing of it runs any more.  Scheduler, Runner and Ledger each         *)
(* implement it: it is what they assume of one another.                    *)
(***************************************************************************)
EXTENDS Naturals

VARIABLES
    attempt,  \* the number of the last attempt
    stage,    \* where it stands
    live      \* the attempts whose processes run

vars == <<attempt, stage, live>>

Stages ==
    {"rest",     \* the last attempt is closed
     "ready",    \* it is open and may still be run
     "spent",    \* it is open and was run, or will not be
     "done",     \* the task needs no other attempt
     "blocked"}  \* the task is given up, with whatever may still run

TypeOK ==
    /\ attempt \in Nat /\ stage \in Stages
    /\ live \in {{}} \cup {{a} : a \in Nat}

Init == attempt = 0 /\ stage = "rest" /\ live = {}

\* A new attempt, which is not run if its documents cannot be saved.
Grant ==
    /\ stage = "rest" /\ stage' \in {"ready", "spent"}
    /\ attempt' \in Nat /\ attempt' > attempt
    /\ UNCHANGED live

Begin ==
    /\ stage = "ready" /\ stage' = "spent"
    /\ live = {} /\ live' = {attempt}
    /\ UNCHANGED attempt

\* It will not be run: told to stop, refused by the system, or forgotten in a
\* crash.
Waive ==
    /\ stage = "ready" /\ stage' = "spent"
    /\ UNCHANGED <<attempt, live>>

\* What runs ends by itself, or is killed.
End == live' = {} /\ UNCHANGED <<attempt, stage>>

Settle ==
    /\ stage \in {"ready", "spent"} /\ stage' \in {"rest", "done"}
    /\ live' = {}
    /\ UNCHANGED attempt

\* The record of a blocked task may be a stand-in that knows of no attempt.
Block ==
    /\ stage # "done" /\ stage' = "blocked"
    /\ attempt' \in Nat
    /\ UNCHANGED live

Next == Grant \/ Begin \/ Waive \/ End \/ Settle \/ Block

Spec == Init /\ [][Next]_vars
==============================================================================
