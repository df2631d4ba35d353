----------------------------- MODULE BatchContract -----------------------------
(***************************************************************************)
(* What the import of batches promises, without the files, the mutex and   *)
(* the goroutines that bring it about: a batch is a transaction over task  *)
(* names.  Its tasks appear in one step, all of them and all valid, and    *)
(* stay as they are; of a batch that is rejected, or that never ends,      *)
(* nothing appears.  BatchImport is shown to implement it.                 *)
(***************************************************************************)
CONSTANTS
    Batches,    \* the batches the contract is about
    Guarded,    \* those that nobody starts again once they are damaged
    Tasks,      \* task names
    Good        \* valid manifests

VARIABLES
    status,     \* of each batch
    holds       \* what each name stands for: nothing, or one committed task

vars == <<status, holds>>

Statuses == {"absent", "pending", "rejected", "committed", "damaged"}

\* A committed task: its batch, its definition and the copy of its manifest.
Committed == [batch : Batches, content : Good, snapshot : Good]

TypeOK ==
    /\ status \in [Batches -> Statuses]
    /\ holds \in [Tasks -> {{}} \cup {{h} : h \in Committed}]

Init ==
    /\ status = [b \in Batches |-> "absent"]
    /\ holds = [t \in Tasks |-> {}]

\* A batch that is not committed is started, or started again.
Start(b) ==
    /\ status[b] \in {"absent", "rejected"} \/ (status[b] = "damaged" /\ b \notin Guarded)
    /\ status' = [status EXCEPT ![b] = "pending"]
    /\ UNCHANGED holds

\* Some batches are given up: one by its worker, several by a restart.
Reject(B) ==
    /\ \A b \in B : status[b] = "pending"
    /\ status' = [b \in Batches |-> IF b \in B THEN "rejected" ELSE status[b]]
    /\ UNCHANGED holds

\* All tasks of a batch appear at once, under names that are free.
Commit(b) ==
    /\ status[b] = "pending"
    /\ status' = [status EXCEPT ![b] = "committed"]
    /\ \E S \in (SUBSET Tasks) \ {{}} : \E c \in [S -> Good] :
        /\ \A t \in S : holds[t] = {}
        /\ holds' = [t \in Tasks |->
                        IF t \in S THEN {[batch |-> b, content |-> c[t], snapshot |-> c[t]]}
                        ELSE holds[t]]

\* Somebody damages the document of a batch: its tasks are gone.
Damage(b) ==
    /\ status[b] # "absent"
    /\ status' = [status EXCEPT ![b] = "damaged"]
    /\ holds' = [t \in Tasks |-> {h \in holds[t] : h.batch # b}]

Next ==
    \/ \E b \in Batches : Start(b) \/ Commit(b) \/ Damage(b)
    \/ \E B \in SUBSET Batches : Reject(B)

Spec == Init /\ [][Next]_vars
==============================================================================
