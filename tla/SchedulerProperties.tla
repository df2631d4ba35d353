------------------------- MODULE SchedulerProperties -------------------------
(***************************************************************************)
(* What must hold of the controller: invariants, action properties, the    *)
(* promise of TaskContract, and progress under the fairness of FairSpec.   *)
(***************************************************************************)
EXTENDS Scheduler

Active(r) == r.state \in ActiveStates

(***************************************************************************)
(* Safety.                                                                 *)
(***************************************************************************)

\* While the controller serves, a live rclone process is the one its task's
\* slot is about to learn of or is waiting for, or the task is blocked.  So no
\* crash, however placed, lets a task be started again beside a process that
\* an earlier controller left behind (README.md:201).
ProcessIsOwned ==
    Up => \A t \in Tasks : HoldsLock(t) =>
        \/ running[t].pc \in {"launched", "polling"}
           /\ running[t].attempt = process[t].attempt
        \/ mem[t].state = "blocked"

\* The runtime descriptor names the attempt of the live process from before
\* it is started until it is gone: recovery always finds the socket to ask
\* (the comment at recovery.go:135).
DescriptorNamesProcess ==
    \A t \in Tasks : HoldsLock(t) => descriptor[t] = process[t].attempt

\* A controller without a fault has in memory what it would load after a
\* crash: saveTaskLocked publishes first, and any doubt about a write is a
\* fault.
MemoryMatchesDisk ==
    phase # "down" /\ ~fault =>
        \A t \in Tasks : damage[t] # "doc" => mem[t] = disk[t]

\* A healthy controller has a slot for exactly the tasks it shows as active,
\* and every attempt still open is executed under a slot, unless the task is
\* blocked: no path frees a slot without closing the attempt.
SlotsMatchTasks ==
    Up /\ ~fault => \A t \in Tasks :
        /\ running[t].pc # "none" <=> Active(mem[t])
        /\ mem[t].open => running[t].pc # "none" \/ mem[t].state = "blocked"

\* Whatever the controller was doing when it died, validateTask accepts what
\* it left: an active task names its last attempt as the current one, and
\* that attempt is open, so recovery closes it.
ReloadAccepts ==
    \A t \in Tasks : Active(disk[t]) =>
        /\ disk[t].attempts > 0
        /\ disk[t].current = disk[t].attempts
        /\ disk[t].open

\* A task that can run again in its cycle has a failure left to spend.
RetryBudget ==
    \A t \in Tasks : disk[t].state \notin {"failed", "cancelled", "needs_review", "blocked"}
        => disk[t].fails < RetryLimit

\* A pause or cancel answered with success stands until a resume or a retry is
\* asked for: no attempt is prepared and no process started, not even by
\* a controller that crashed and recovered in between.
IntentRespected ==
    [][\A t \in Tasks : intent[t] \in {"pause", "cancel"} =>
        /\ disk'[t].attempts <= disk[t].attempts
        /\ running'[t].pc \in {"launched", "polling"} =>
             running[t].pc \in {"cleared", "launched", "polling"}]_vars

\* A shutdown is never recorded as a transfer failure (the comment at
\* service.go:458): while stopping, an execution ends as a success, as what
\* the operator asked for, or back in the queue with no failure counted.
StopIsNoFailure ==
    [][phase = "stopping" /\ phase' = "stopping" => \A t \in Tasks :
        /\ mem'[t].fails = mem[t].fails
        /\ mem'[t].state # mem[t].state =>
             mem'[t].state \in {"succeeded", "paused", "cancelled", "queued"}]_vars

\* After a storage failure the controller saves nothing until it has been
\* restarted (README.md:228), although executions that were under way still
\* launch, attach and end: what recovery will find is what the failed write
\* left.
FaultFreezesDisk ==
    [][fault /\ fault' => UNCHANGED <<disk, diskSettings, descriptor>>]_vars

\* The tasks with a live process that are not blocked never outnumber the
\* largest limit there has been, also right after a crash: a slot is freed only
\* when its process is gone.
WithinLimit ==
    Up => \E max \in Limits :
        Cardinality({t \in Tasks : HoldsLock(t) /\ mem[t].state # "blocked"}) <= max

\* With maxRunning=1 at most one task runs on the whole host (README.md:56).
OneRunsAtATime ==
    Up /\ Limits = {1} => Cardinality({t \in Tasks : HoldsLock(t)}) <= 1

------------------------------------------------------------------------------
(***************************************************************************)
(* The inductive invariant behind the safety properties, task by task.     *)
(***************************************************************************)

\* What every task document says of itself, in memory and on disk.
Sound(r) ==
    /\ r.open => Active(r) \/ r.state = "blocked"
    /\ Active(r) => r.attempts > 0 /\ r.current = r.attempts /\ r.open
    /\ r.state \notin {"failed", "cancelled", "needs_review", "blocked"}
         => r.fails < RetryLimit
    /\ r.state \in {"paused", "pausing"} => r.desired = "pause"
    /\ r.state \in {"cancelled", "cancelling"} => r.desired = "cancel"

\* A live process is known by its descriptor, and to a slot, to the recovery
\* still to visit it, or by the task being blocked.
ProcessTracked(t) ==
    HoldsLock(t) =>
        /\ process[t].attempt > 0 /\ descriptor[t] = process[t].attempt
        /\ Up => \/ running[t].pc \in {"launched", "polling"}
                    /\ running[t].attempt = process[t].attempt
                 \/ mem[t].state = "blocked"
        /\ phase = "recovering" =>
             boot[t] \in {"todo", "stuck"} \/ mem[t].state = "blocked"

\* A slot belongs to the open attempt of an active task, and its stop reason
\* is the intent of the task.
SlotTracked(t) ==
    /\ running[t].pc # "none" =>
        /\ Up /\ Active(mem[t])
        /\ running[t].attempt = mem[t].attempts
        /\ descriptor[t] = running[t].attempt
        /\ running[t].stop \in {"pause", "cancel"} => mem[t].desired = running[t].stop
    /\ Up /\ ~fault /\ Active(mem[t]) => running[t].pc # "none"
    /\ phase = "recovering" /\ boot[t] = "done" => ~Active(mem[t])

\* Memory is the disk until a storage failure; a damaged document is blocked.
MemoryTracked(t) ==
    /\ phase # "down" /\ ~fault /\ damage[t] # "doc" => mem[t] = disk[t]
    /\ phase # "down" /\ damage[t] = "doc" => mem[t].state = "blocked"
    /\ fault => Up

\* The last request answered with success is in the documents.
IntentKept(t) ==
    intent[t] \in {"pause", "cancel"} =>
        /\ mem[t].desired = intent[t] \/ mem[t].state = "blocked"
        /\ disk[t].desired = intent[t] \/ disk[t].state = "blocked"

TaskInv(t) ==
    /\ Sound(mem[t]) /\ Sound(disk[t])
    /\ ProcessTracked(t) /\ SlotTracked(t) /\ MemoryTracked(t) /\ IntentKept(t)

\* The controller, the disk and the processes agree on every task, at every
\* step of every crash and recovery: all the invariants above follow.
Inv == TypeOK /\ \A t \in Tasks : TaskInv(t)

------------------------------------------------------------------------------
(***************************************************************************)
(* The saved documents, read as TaskContract's state.                      *)
(***************************************************************************)
Status(s) ==
    CASE s \in {"queued", "retry_wait"} -> "waiting"
      [] s \in {"starting", "running"}  -> "executing"
      [] s = "paused"                   -> "held"
      [] s = "needs_review"             -> "review"
      [] OTHER                          -> s

ContractState == INSTANCE TaskContract WITH
    status <- [t \in Tasks |-> Status(disk[t].state)],
    fails <- [t \in Tasks |-> disk[t].fails]

\* Scheduler implements TaskContract: a paused execution ends paused, an
\* interrupted one costs nothing, success is final, across crashes.
Contract == ContractState!Spec

------------------------------------------------------------------------------
(***************************************************************************)
(* Documents, slots and processes, read as AttemptContract's state.        *)
(***************************************************************************)
Stage(t) ==
    CASE disk[t].state = "succeeded" -> "done"
      [] disk[t].state = "blocked" -> "blocked"
      [] OTHER -> IF running[t].pc \in {"prepared", "cleared"} THEN "ready"
                  ELSE IF disk[t].open THEN "spent" ELSE "rest"

Transfer(t) == INSTANCE AttemptContract WITH
    attempt <- disk[t].attempts, stage <- Stage(t),
    live <- {a \in {process[t].attempt} : HoldsLock(t)}

\* The attempts of every task take their turns on the host as their documents
\* say: each is run at most once, after the one before is gone, and a document
\* closes an attempt, over any crash, only when its process is gone.
AttemptsInTurn ==
    /\ \A t \in Tasks : Transfer(t)!Init
    /\ [][\A t \in Tasks : [Transfer(t)!Next]_(Transfer(t)!vars)]_vars

------------------------------------------------------------------------------
(***************************************************************************)
(* Progress.                                                               *)
(***************************************************************************)

\* Process.Stop: SIGTERM, then SIGKILL after StopTimeout.  Only a controller
\* that knows the process does that, so nothing is assumed of the others.
StoppedProcessExits(t) ==
    Up /\ running[t].pc = "polling" /\ process[t].term /\ ProcessExit(t)

\* The goroutines run, the timers fire, signalled processes die.  Nothing is
\* assumed of the operator, of the disk, or of a process left alone.
Fairness ==
    /\ WF_vars(\E t \in Tasks : Loop(t))
    /\ \A t \in Tasks :
        /\ WF_vars(Execute(t))
        /\ WF_vars(StoppedProcessExits(t))
        /\ WF_vars(Timer(t))
        /\ WF_vars(LockFree(t) \/ GiveUp(t))
        /\ WF_vars(RecoverTask(t))
    /\ WF_vars(Exit) /\ WF_vars(Serve)

FairSpec == Spec /\ Fairness

\* A pause or a cancel of a running task ends its execution.
StopCompletes ==
    \A t \in Tasks :
        Writable /\ mem[t].state \in {"pausing", "cancelling"}
            ~> ~Writable \/ mem[t].state \notin {"pausing", "cancelling"}

\* A storage failure ends every execution, also the one whose process was
\* being launched when it struck.
FaultDrains == fault ~> Occupied(running) = {}

\* A shutdown ends, whatever the executions were doing.
ShutdownEnds == phase = "stopping" ~> phase = "down"

\* Recovery ends, whatever the processes left behind do.
RecoveryEnds == phase = "recovering" ~> phase # "recovering"

\* If rclone processes end by themselves, a waiting task gets its turn as long
\* as the controller keeps serving and dispatch is not paused.
Transfers == \A t \in Tasks : WF_vars(ProcessExit(t))
Waiting(t) == mem[t].state \in {"queued", "retry_wait"}
EveryTaskRuns ==
    Transfers => \A t \in Tasks :
        Writable /\ Waiting(t) ~> ~Writable \/ settings.paused \/ ~Waiting(t)
==============================================================================
