------------------------------ MODULE Scheduler ------------------------------
(***************************************************************************)
(* The controller of internal/service: task control, dispatch, execution,  *)
(* the end of an execution, storage failure, graceful shutdown, crash and  *)
(* recovery, over the tasks of one committed batch.                        *)
(*                                                                         *)
(* Service.mu makes every handler atomic, so a handler is one action.  The *)
(* execute goroutine releases the mutex between its steps and is split     *)
(* there.  The operating system (rclone processes and the execution lock   *)
(* each inherits), the disk and the clock are separate actors: they change *)
(* between any two actions and outlive the controller.                     *)
(*                                                                         *)
(* A handler that makes several durable writes may fail at each of them.   *)
(* A crash between two writes of a handler leaves what a failure of the    *)
(* second write followed by Crash leaves, so it needs no action.           *)
(*                                                                         *)
(* A definition marked "Mistake" is no part of the model: it is a bug the  *)
(* definition after it could have had, kept to show which property notices. *)
(***************************************************************************)
EXTENDS Integers, FiniteSets, TaskTypes

CONSTANTS
    NumTasks,     \* the tasks are 1..NumTasks, in the order of their names
    Limits,       \* values of Settings.MaxRunning an operator chooses from
    Priorities,   \* task priorities an operator chooses from
    RetryLimit,   \* executions of one cycle that may end in a transfer failure
    MaxRequeues,  \* bound: accepted resume and retry requests
    MaxOutages,   \* bound: crashes, shutdowns and storage failures
    MaxDamage     \* bound: documents damaged from outside while stopped

ASSUME SchedulerAssumption ==
    /\ NumTasks \in Nat \ {0}
    /\ Limits \subseteq 1 .. 256 /\ Limits # {}
    /\ Priorities \subseteq Int /\ 0 \in Priorities
    /\ RetryLimit \in Nat \ {0}
    /\ MaxRequeues \in Nat /\ MaxOutages \in Nat /\ MaxDamage \in Nat

Tasks == 1 .. NumTasks

VARIABLES
    phase,        \* the controller: down, recovering, serving or stopping
    fault,        \* Service.fault is set
    settings,     \* Service.settings
    mem,          \* Service.tasks
    running,      \* Service.running with the position of each execute goroutine
    boot,         \* progress of recoverExecutions
    disk,         \* tasks/<id>/task.json
    diskSettings, \* scheduler.json
    descriptor,   \* runtime/<id>.json: the attempt it names, 0 when absent
    damage,       \* documents damaged from outside
    process,      \* the rclone process of each task
    expired,      \* whether the last NextRunAt computed has passed
    intent,       \* history: the last request answered with success
    requeues, outages

memory  == <<phase, fault, settings, mem, running, boot>>
durable == <<disk, diskSettings, descriptor, damage>>
vars == <<memory, durable, process, expired, intent, requeues, outages>>

------------------------------------------------------------------------------
\* The task document, reduced to what control depends on.
TaskRecords ==
    [state : TaskStates, desired : Intents \cup {""},
     prio : Int, queued : Nat,           \* Priority, QueuedAt
     next : BOOLEAN,                     \* NextRunAt # nil
     fails : Nat,                        \* FailuresInCycle
     attempts : Nat, current : Nat,      \* len(Attempts), CurrentAttempt
     open : BOOLEAN]                     \* the last attempt has no EndedAt

\* A task as commitBatchLocked publishes it.
NewTask ==
    [state |-> "queued", desired |-> "run", prio |-> 0, queued |-> 0,
     next |-> FALSE, fails |-> 0, attempts |-> 0, current |-> 0, open |-> FALSE]

\* The stand-in load() builds for a document it cannot use.
Stub == [NewTask EXCEPT !.state = "blocked", !.desired = ""]

\* An entry of Service.running.  pc is where its execute goroutine stands.
Executions ==
    [pc : {"none",        \* no entry
           "prepared",    \* before the first look at stopReason
           "cleared",     \* about to call engine.Start
           "launched",    \* engine.Start returned, ex.process not yet set
           "polling",     \* ex.process set, waiting for the exit
           "aborted"},    \* no process, about to call finish
     attempt : Nat,
     stop : {"none", "pause", "cancel", "interrupted", "evidence_error"},
     bad : BOOLEAN]       \* Checkpoint.IntegrityError is set

NoExecution == [pc |-> "none", attempt |-> 0, stop |-> "none", bad |-> FALSE]

Processes ==
    [st : {"none", "running", "exited"}, attempt : Nat,
     term : BOOLEAN,      \* told to stop
     code : ExitCodes \cup {"none"}]

NoProcess == [st |-> "none", attempt |-> 0, term |-> FALSE, code |-> "none"]

\* The child inherits the lock file's descriptor: the lock is held while it
\* lives and is released by its exit, whoever its parent is.
HoldsLock(t) == process[t].st = "running"

Occupied(e) == {t \in Tasks : e[t].pc # "none"}

TypeOK ==
    /\ phase \in {"down", "recovering", "serving", "stopping"}
    /\ fault \in BOOLEAN
    /\ settings \in [max : Limits, paused : BOOLEAN]
    /\ diskSettings \in [max : Limits, paused : BOOLEAN]
    /\ mem \in [Tasks -> TaskRecords]
    /\ disk \in [Tasks -> TaskRecords]
    /\ running \in [Tasks -> Executions]
    /\ boot \in [Tasks -> {"todo", "clear", "stuck", "done"}]
    /\ descriptor \in [Tasks -> Nat]
    /\ damage \in [Tasks -> {"none", "doc", "ledger"}]
    /\ process \in [Tasks -> Processes]
    /\ expired \in [Tasks -> BOOLEAN]
    /\ intent \in [Tasks -> Intents \cup {"unsure"}]
    /\ requeues \in Nat /\ outages \in Nat

Init ==
    /\ phase = "serving"
    /\ fault = FALSE
    /\ settings \in [max : Limits, paused : {FALSE}]
    /\ diskSettings = settings
    /\ mem = [t \in Tasks |-> NewTask]
    /\ disk = mem
    /\ running = [t \in Tasks |-> NoExecution]
    /\ boot = [t \in Tasks |-> "done"]
    /\ descriptor = [t \in Tasks |-> 0]
    /\ damage = [t \in Tasks |-> "none"]
    /\ process = [t \in Tasks |-> NoProcess]
    /\ expired = [t \in Tasks |-> TRUE]
    /\ intent = [t \in Tasks |-> "run"]
    /\ requeues = 0 /\ outages = 0

------------------------------------------------------------------------------
(***************************************************************************)
(* Durable writes and storage failure.                                     *)
(***************************************************************************)

\* The stop reason storageFailureLocked and BeginShutdown give every entry.
Interrupted(e) ==
    [t \in Tasks |-> IF e[t].pc = "none" THEN e[t]
                     ELSE [e[t] EXCEPT !.stop = "interrupted"]]

\* Process.Stop on one process, and on every process whose entry knows it.
Signal(p) == IF p.st = "running" THEN [p EXCEPT !.term = TRUE] ELSE p

\* Mistake: processes are left running.
NotStopped(e, p) == p

Stopped(e, p) ==
    [t \in Tasks |-> IF e[t].pc = "polling" THEN Signal(p[t]) ELSE p[t]]

\* saveTaskLocked: memory follows the disk only when the write succeeded.
SaveTask(t, r, o) ==
    /\ disk' = IF o = "lost" THEN disk ELSE [disk EXCEPT ![t] = r]
    /\ mem' = IF o = "ok" THEN [mem EXCEPT ![t] = r] ELSE mem

\* Mistake: a write that was published is taken for a success.
FailedIfLost(o) == o = "lost"

\* Any error of a write is a storage failure, also one after the rename.
Failed(o) == o # "ok"

\* The rest of a handler whose write had outcome o and that otherwise leaves
\* the executions at e and the processes at p.
AfterWrite(o, e, p) ==
    /\ o # "ok" => outages < MaxOutages
    /\ outages' = IF o = "ok" THEN outages ELSE outages + 1
    /\ fault' = (fault \/ Failed(o))
    /\ running' = IF Failed(o) THEN Interrupted(e) ELSE e
    /\ process' = IF Failed(o) THEN Stopped(e, p) ELSE p

\* A storage failure met by a writer outside this module: an upload, a
\* snapshot, an object checkpoint, a batch summary.
PersistenceFailure ==
    /\ phase \in {"serving", "stopping"} /\ ~fault
    /\ AfterWrite("lost", running, process)
    /\ UNCHANGED <<phase, settings, mem, boot, durable, expired, intent, requeues>>

------------------------------------------------------------------------------
(***************************************************************************)
(* Operator requests.  writableLocked refuses them once the controller is  *)
(* stopping or has met a storage failure.                                  *)
(***************************************************************************)
\* Mistake: requests are served in spite of a storage failure.
ServingOnly == phase = "serving"

Writable == phase = "serving" /\ ~fault

\* UpdateSettings, for the settings this module reads.
UpdateSettings ==
    /\ Writable
    /\ \E s \in [max : Limits, paused : BOOLEAN], o \in Outcomes :
        /\ s # settings
        /\ diskSettings' = IF o = "lost" THEN diskSettings ELSE s
        /\ settings' = IF o = "ok" THEN s ELSE settings
        /\ AfterWrite(o, running, process)
    /\ UNCHANGED <<phase, mem, boot, disk, descriptor, damage, expired, intent,
                   requeues>>

\* What an answered request leaves in the history: after a 503 the client
\* does not know whether its intent was saved.
Answered(t, want, o) ==
    intent' = [intent EXCEPT ![t] = IF o = "ok" THEN want ELSE "unsure"]

\* Mistake: the intent is kept in memory only, as the stop reason.
HaltedUnsaved(t, want, st) == [mem[t] EXCEPT !.next = FALSE, !.state = st]

\* The document Action saves for "pause" and "cancel".
Halted(t, want, st) ==
    [mem[t] EXCEPT !.desired = want, !.next = FALSE, !.state = st]

\* Action "pause" and "cancel": save the intent, then stop the execution.
Halt(t, want, from, st) ==
    /\ Writable /\ mem[t].state \in from
    /\ \E o \in Outcomes :
        LET e == IF running[t].pc = "none" \/ o # "ok" THEN running
                 ELSE [running EXCEPT ![t].stop = want]
            p == IF running[t].pc = "polling" /\ o = "ok"
                 THEN [process EXCEPT ![t] = Signal(@)] ELSE process
        IN  /\ SaveTask(t, Halted(t, want, st), o)
            /\ AfterWrite(o, e, p)
            /\ Answered(t, want, o)
    /\ UNCHANGED <<phase, settings, boot, diskSettings, descriptor, damage, expired,
                   requeues>>

\* A request for what the task already does is answered with success.
Repeated(t, want, in) ==
    /\ Writable /\ mem[t].state \in in
    /\ Answered(t, want, "ok")
    /\ UNCHANGED <<memory, durable, process, expired, requeues, outages>>

PauseTask(t) ==
    \/ Repeated(t, "pause", {"paused", "pausing"})
    \/ Halt(t, "pause", ActiveStates \ {"pausing"}, "pausing")
    \/ Halt(t, "pause", {"queued", "retry_wait"}, "paused")

CancelTask(t) ==
    \/ Repeated(t, "cancel", {"cancelled", "cancelling"})
    \/ Halt(t, "cancel", ActiveStates \ {"cancelling"}, "cancelling")
    \/ Halt(t, "cancel", {"queued", "retry_wait", "paused", "failed",
                          "needs_review"}, "cancelled")

\* The document r, queued as of time n.
Queued(r, n) == [r EXCEPT !.state = "queued", !.desired = "run", !.queued = n]

\* Action "resume" and "retry": back to the queue, behind the tasks waiting.
Requeue(t, from, r) ==
    /\ Writable /\ mem[t].state \in from
    /\ requeues < MaxRequeues
    /\ \E o \in Outcomes :
        /\ SaveTask(t, Queued(r, requeues + 1), o)
        /\ AfterWrite(o, running, process)
        /\ Answered(t, "run", o)
    /\ requeues' = requeues + 1
    /\ UNCHANGED <<phase, settings, boot, diskSettings, descriptor, damage, expired>>

ResumeTask(t) == Requeue(t, {"paused"}, mem[t])

\* Mistake: a retry does not open a new cycle.
RetryInCycle(t) ==
    Requeue(t, {"failed", "cancelled", "needs_review"},
            [mem[t] EXCEPT !.next = FALSE])

RetryTask(t) ==
    Requeue(t, {"failed", "cancelled", "needs_review"},
            [mem[t] EXCEPT !.fails = 0, !.next = FALSE])

Priority(t) ==
    /\ Writable /\ mem[t].state # "blocked"
    /\ \E n \in Priorities \ {mem[t].prio}, o \in Outcomes :
        /\ SaveTask(t, [mem[t] EXCEPT !.prio = n], o)
        /\ AfterWrite(o, running, process)
    /\ UNCHANGED <<phase, settings, boot, diskSettings, descriptor, damage, expired,
                   intent, requeues>>

------------------------------------------------------------------------------
(***************************************************************************)
(* Dispatch: one turn of the loop goroutine.                               *)
(***************************************************************************)
Eligible(t) ==
    /\ mem[t].state \in {"queued", "retry_wait"}
    /\ mem[t].desired = "run"
    /\ mem[t].next => expired[t]

\* before(): priority, then time of queueing, then name.
Before(a, b) ==
    \/ mem[a].prio > mem[b].prio
    \/ mem[a].prio = mem[b].prio /\ mem[a].queued < mem[b].queued
    \/ mem[a].prio = mem[b].prio /\ mem[a].queued = mem[b].queued /\ a < b

\* Mistakes: one slot too many, one too few.
SlotTooMany == Cardinality(Occupied(running)) <= settings.max
SlotTooFew == Cardinality(Occupied(running)) + 1 < settings.max

SlotFree == Cardinality(Occupied(running)) < settings.max

Selected(t) ==
    /\ Writable /\ ~settings.paused /\ SlotFree
    /\ Eligible(t)
    /\ \A u \in Tasks \ {t} : Eligible(u) => Before(t, u)

NextAttempt(t) == mem[t].attempts + 1

\* Mistake: CurrentAttempt still names the attempt before.
PreparedStale(t) ==
    [mem[t] EXCEPT !.state = "starting", !.next = FALSE, !.open = TRUE,
                   !.attempts = NextAttempt(t), !.current = mem[t].attempts]

\* The document prepareLocked saves for the new attempt.
Prepared(t) ==
    [mem[t] EXCEPT !.state = "starting", !.next = FALSE, !.open = TRUE,
                   !.attempts = NextAttempt(t), !.current = NextAttempt(t)]

\* Mistake: a descriptor that exists is not written again.
DescribedOnce(t) ==
    IF descriptor[t] = 0 THEN [descriptor EXCEPT ![t] = NextAttempt(t)] ELSE descriptor

\* The descriptors with that of the new attempt of t.
Described(t) == [descriptor EXCEPT ![t] = NextAttempt(t)]

\* prepareLocked succeeds: checkpoint, document, descriptor, then the slot.
Dispatch(t) ==
    /\ Selected(t) /\ damage[t] # "ledger"
    /\ SaveTask(t, Prepared(t), "ok")
    /\ descriptor' = Described(t)
    /\ running' = [running EXCEPT ![t] =
            [NoExecution EXCEPT !.pc = "prepared", !.attempt = NextAttempt(t)]]
    /\ UNCHANGED <<phase, fault, settings, boot, diskSettings, damage, process,
                   expired, intent, requeues, outages>>

\* prepareLocked fails at the object checkpoint, the document or the
\* descriptor: no slot is taken and the controller is faulty.
DispatchFails(t) ==
    /\ Selected(t) /\ damage[t] # "ledger"
    /\ \E at \in {"checkpoint", "document", "descriptor"}, o \in Outcomes \ {"ok"} :
        /\ CASE at = "checkpoint" -> UNCHANGED <<mem, disk>>
             [] at = "document" -> SaveTask(t, Prepared(t), o)
             [] at = "descriptor" -> SaveTask(t, Prepared(t), "ok")
        /\ descriptor' = IF at = "descriptor" /\ o = "applied" THEN Described(t)
                         ELSE descriptor
        /\ AfterWrite(o, running, process)
    /\ UNCHANGED <<phase, settings, boot, diskSettings, damage, expired, intent,
                   requeues>>

\* prepareLocked cannot load the checkpoint or the manifest.
DispatchBlocks(t) ==
    /\ Selected(t) /\ damage[t] = "ledger"
    /\ \E o \in Outcomes :
        /\ SaveTask(t, [mem[t] EXCEPT !.state = "blocked"], o)
        /\ AfterWrite(o, running, process)
    /\ UNCHANGED <<phase, settings, boot, diskSettings, descriptor, damage, expired,
                   intent, requeues>>

------------------------------------------------------------------------------
(***************************************************************************)
(* The execute goroutine of task t.                                        *)
(***************************************************************************)
Up == phase \in {"serving", "stopping"}
Abandoned(t) == fault \/ phase = "stopping" \/ running[t].stop # "none"

\* The look at stopReason before the launch.
CheckAbort(t) ==
    /\ Up /\ running[t].pc = "prepared"
    /\ running' = [running EXCEPT ![t].pc =
                        IF Abandoned(t) THEN "aborted" ELSE "cleared"]
    /\ UNCHANGED <<phase, fault, settings, mem, boot, durable, process, expired,
                   intent, requeues, outages>>

\* engine.Start takes the execution lock and passes it to the child.
Launch(t) ==
    /\ Up /\ running[t].pc = "cleared" /\ ~HoldsLock(t)
    /\ running' = [running EXCEPT ![t].pc = "launched"]
    /\ process' = [process EXCEPT ![t] =
            [NoProcess EXCEPT !.st = "running", !.attempt = running[t].attempt]]
    /\ UNCHANGED <<phase, fault, settings, mem, boot, durable, expired, intent,
                   requeues, outages>>

\* engine.Start fails: the lock is held or the system refuses the process.
LaunchFails(t) ==
    /\ Up /\ running[t].pc = "cleared"
    /\ running' = [running EXCEPT ![t].pc = "aborted"]
    /\ UNCHANGED <<phase, fault, settings, mem, boot, durable, process, expired,
                   intent, requeues, outages>>

\* Mistake: a request that came during the launch is not looked at again.
StopForgotten(t) == fault \/ phase = "stopping"

\* shouldStop of execute.
ShouldStop(t) == Abandoned(t)

\* Record the process in the slot and in the document, then stop it when a
\* request, a shutdown or a fault arrived during the launch.
Attach(t) ==
    /\ Up /\ running[t].pc = "launched"
    /\ LET e == [running EXCEPT ![t].pc = "polling"]
           p == IF ShouldStop(t) THEN [process EXCEPT ![t] = Signal(@)] ELSE process
           r == [mem[t] EXCEPT !.state = IF Abandoned(t) THEN @ ELSE "running"]
       IN  IF fault
           THEN /\ running' = e /\ process' = p
                /\ UNCHANGED <<mem, disk, fault, outages>>
           ELSE \E o \in Outcomes : SaveTask(t, r, o) /\ AfterWrite(o, e, p)
    /\ UNCHANGED <<phase, settings, boot, diskSettings, descriptor, damage, expired,
                   intent, requeues>>

\* A poll finds evidence it cannot read (Consume, not a path error).
EvidenceError(t) ==
    /\ Up /\ ~fault /\ running[t].pc = "polling"
    /\ running[t].stop # "evidence_error"
    /\ running' = [running EXCEPT ![t].stop = "evidence_error", ![t].bad = TRUE]
    /\ process' = [process EXCEPT ![t] = Signal(@)]
    /\ UNCHANGED <<phase, fault, settings, mem, boot, durable, expired, intent,
                   requeues, outages>>

\* Mistake: one failure too many is retried.
MayRetryOnce(code, fails) == code = "five" /\ fails <= RetryLimit

\* Only exit code 5 is retried, within the limit of the cycle.
MayRetry(code, fails) == code = "five" /\ fails < RetryLimit

\* Mistake: the shutdown is seen only through the stop reason, which a poll may
\* have overwritten.
Blamed(t) == running[t].stop = "interrupted"

\* The controller itself cut the execution short.
CutShort(t) == phase = "stopping" \/ running[t].stop = "interrupted"

\* finish: the document of the ended attempt.  full: every object has a
\* confirmed result; bad: the evidence is not intact.
Ended(t, code, full, bad) ==
    LET done == [mem[t] EXCEPT !.current = 0, !.open = FALSE]
        failed == [done EXCEPT !.fails = @ + 1]
        wants(x) == running[t].stop = x \/ mem[t].desired = x
    IN  CASE code = "zero" /\ full /\ ~bad -> [done EXCEPT !.state = "succeeded"]
          [] OTHER ->
        CASE wants("pause") -> [done EXCEPT !.state = "paused"]
          [] OTHER ->
        CASE wants("cancel") -> [done EXCEPT !.state = "cancelled"]
          [] OTHER ->
        CASE CutShort(t) -> [done EXCEPT !.state = "queued"]
          [] OTHER ->
        CASE running[t].stop = "evidence_error" \/ bad \/ code = "zero" ->
                [done EXCEPT !.state = "needs_review"]
          [] OTHER ->
        CASE MayRetry(code, failed.fails) ->
                [failed EXCEPT !.state = "retry_wait", !.next = TRUE]
          [] OTHER -> [failed EXCEPT !.state = "failed"]

\* finish: the process is gone (or never was); free the slot and save.  A
\* controller that is already faulty writes nothing more.
Finish(t) ==
    /\ Up
    /\ \/ running[t].pc = "aborted"
       \/ running[t].pc = "polling" /\ process[t].st = "exited"
    /\ LET e == [running EXCEPT ![t] = NoExecution]
           p == [process EXCEPT ![t] = NoProcess]
           launched == running[t].pc = "polling"
           code == IF launched THEN process[t].code ELSE "other"
       IN  IF fault
           THEN /\ running' = e /\ process' = p
                /\ UNCHANGED <<mem, disk, fault, outages, expired>>
           ELSE \E full, bad \in BOOLEAN, o \in Outcomes :
                /\ full => code = "zero"
                /\ running[t].bad => bad
                /\ bad => launched
                /\ SaveTask(t, Ended(t, code, full, bad), o)
                /\ AfterWrite(o, e, p)
                /\ expired' = [expired EXCEPT ![t] =
                                 ~Ended(t, code, full, bad).next]
    /\ UNCHANGED <<phase, settings, boot, diskSettings, descriptor, damage, intent,
                   requeues>>

------------------------------------------------------------------------------
(***************************************************************************)
(* Shutdown, crash and recovery.                                           *)
(***************************************************************************)

\* A faulty controller is always restarted by its operator.
MayStop == fault \/ outages < MaxOutages
CountOutage == outages' = IF fault THEN outages ELSE outages + 1

BeginShutdown ==
    /\ phase = "serving" /\ MayStop /\ CountOutage
    /\ phase' = "stopping"
    /\ running' = Interrupted(running)
    /\ process' = Stopped(running, process)
    /\ UNCHANGED <<fault, settings, mem, boot, durable, expired, intent, requeues>>

\* Close repeats the stop for what was attached since BeginShutdown...
Close ==
    /\ phase = "stopping"
    /\ running' = Interrupted(running)
    /\ process' = Stopped(running, process)
    /\ UNCHANGED <<phase, fault, settings, mem, boot, durable, expired, intent,
                   requeues, outages>>

\* What a controller leaves behind when it is gone.  Its memory is lost; the
\* variables are set to what the next load would find, which no action reads.
Gone(d) ==
    /\ phase' = "down" /\ fault' = FALSE
    /\ settings' = diskSettings
    /\ mem' = d
    /\ running' = [t \in Tasks |-> NoExecution]
    /\ boot' = [t \in Tasks |-> "done"]
    /\ process' = [t \in Tasks |-> IF HoldsLock(t) THEN process[t] ELSE NoProcess]

\* ... and returns when every execute goroutine has.
Exit ==
    /\ phase = "stopping" /\ Occupied(running) = {}
    /\ Gone(disk)
    /\ UNCHANGED <<durable, expired, intent, requeues, outages>>

\* The controller dies; the processes it started live on.
Crash ==
    /\ phase # "down" /\ MayStop /\ CountOutage
    /\ Gone(disk)
    /\ UNCHANGED <<durable, expired, intent, requeues>>

\* load(): a document that does not parse or validate becomes a blocked stub.
Boot ==
    /\ phase = "down"
    /\ phase' = "recovering"
    /\ settings' = diskSettings
    /\ mem' = [t \in Tasks |-> IF damage[t] = "doc" THEN Stub ELSE disk[t]]
    /\ boot' = [t \in Tasks |-> IF descriptor[t] = 0 THEN "clear" ELSE "todo"]
    /\ UNCHANGED <<fault, running, durable, process, expired, intent, requeues,
                   outages>>

\* Rclone.Recover on one descriptor: the lock is free, ...
LockFree(t) ==
    /\ phase = "recovering" /\ boot[t] = "todo" /\ ~HoldsLock(t)
    /\ boot' = [boot EXCEPT ![t] = "clear"]
    /\ UNCHANGED <<phase, fault, settings, mem, running, durable, process, expired,
                   intent, requeues, outages>>

\* ... or the socket of the named attempt is asked to quit, ...
Quit(t) ==
    /\ phase = "recovering" /\ boot[t] = "todo" /\ HoldsLock(t)
    /\ descriptor[t] = process[t].attempt /\ ~process[t].term
    /\ process' = [process EXCEPT ![t].term = TRUE]
    /\ UNCHANGED <<memory, durable, expired, intent, requeues, outages>>

\* Mistake: recovery waits for the old process for ever.
NeverGiveUp(t) == FALSE /\ UNCHANGED vars

\* ... or the old process cannot be confirmed gone in time.
GiveUp(t) ==
    /\ phase = "recovering" /\ boot[t] = "todo" /\ HoldsLock(t)
    /\ boot' = [boot EXCEPT ![t] = "stuck"]
    /\ UNCHANGED <<phase, fault, settings, mem, running, durable, process, expired,
                   intent, requeues, outages>>

\* What recovery makes of an attempt it finds open, and of every other record.
Reopened(t) ==
    LET rest == CASE mem[t].desired = "pause" -> "paused"
                  [] mem[t].desired = "cancel" -> "cancelled"
                  [] OTHER -> "queued"
    IN  IF mem[t].state = "blocked" \/ ~mem[t].open THEN mem[t]
        ELSE IF damage[t] = "ledger" THEN [mem[t] EXCEPT !.state = "blocked"]
        ELSE [mem[t] EXCEPT !.state = rest, !.next = FALSE, !.current = 0,
                            !.open = FALSE]

\* Mistake: the end of the old process is taken for granted.
RecoveredBlindly(t) == Reopened(t)

\* recoverExecutions: what becomes of one loaded task once every descriptor
\* has been visited.
Recovered(t) ==
    IF boot[t] = "stuck" THEN [mem[t] EXCEPT !.state = "blocked"] ELSE Reopened(t)

RecoverTask(t) ==
    /\ phase = "recovering" /\ boot[t] \in {"clear", "stuck"}
    /\ \A u \in Tasks : boot[u] # "todo"
    /\ LET r == Recovered(t) IN
        \/ /\ r = mem[t] /\ boot[t] = "clear"          \* nothing to save
           /\ boot' = [boot EXCEPT ![t] = "done"]
           /\ UNCHANGED <<phase, fault, settings, mem, running, process, disk,
                          outages>>
        \/ /\ r # mem[t] \/ boot[t] = "stuck"
           /\ SaveTask(t, r, "ok")
           /\ boot' = [boot EXCEPT ![t] = "done"]
           /\ UNCHANGED <<phase, fault, settings, running, process, outages>>
        \/ /\ r # mem[t] \/ boot[t] = "stuck"         \* Start fails, serve exits
           /\ outages < MaxOutages /\ outages' = outages + 1
           /\ disk' \in {disk, [disk EXCEPT ![t] = r]}
           /\ Gone(disk')
    /\ UNCHANGED <<diskSettings, descriptor, damage, expired, intent, requeues>>

Serve ==
    /\ phase = "recovering" /\ \A t \in Tasks : boot[t] = "done"
    /\ phase' = "serving"
    /\ UNCHANGED <<fault, settings, mem, running, boot, durable, process, expired,
                   intent, requeues, outages>>

------------------------------------------------------------------------------
(***************************************************************************)
(* The environment.                                                        *)
(***************************************************************************)

\* The rclone process of t ends.  Only a controller waiting for it learns how.
ProcessExit(t) ==
    /\ HoldsLock(t)
    /\ \E c \in ExitCodes :
        process' = [process EXCEPT ![t] =
            IF running[t].pc \in {"launched", "polling"}
            THEN [@ EXCEPT !.st = "exited", !.code = c] ELSE NoProcess]
    /\ UNCHANGED <<memory, durable, expired, intent, requeues, outages>>

\* NextRunAt passes.
Timer(t) ==
    /\ ~expired[t]
    /\ expired' = [expired EXCEPT ![t] = TRUE]
    /\ UNCHANGED <<memory, durable, process, intent, requeues, outages>>

\* A task document or an object checkpoint is damaged while the service is
\* stopped.
Damage(t) ==
    /\ phase = "down" /\ damage[t] = "none"
    /\ Cardinality({u \in Tasks : damage[u] # "none"}) < MaxDamage
    /\ \E d \in {"doc", "ledger"} : damage' = [damage EXCEPT ![t] = d]
    /\ UNCHANGED <<memory, disk, diskSettings, descriptor, process, expired, intent,
                   requeues, outages>>

Request(t) == PauseTask(t) \/ CancelTask(t) \/ ResumeTask(t) \/ RetryTask(t) \/ Priority(t)
Loop(t) == Dispatch(t) \/ DispatchFails(t) \/ DispatchBlocks(t)
Execute(t) == CheckAbort(t) \/ Launch(t) \/ LaunchFails(t) \/ Attach(t) \/ Finish(t)
Recover(t) == LockFree(t) \/ Quit(t) \/ GiveUp(t) \/ RecoverTask(t)
Environment(t) == ProcessExit(t) \/ Timer(t) \/ Damage(t)

Next ==
    \/ \E t \in Tasks :
        Request(t) \/ Loop(t) \/ Execute(t) \/ EvidenceError(t) \/ Recover(t)
            \/ Environment(t)
    \/ UpdateSettings \/ PersistenceFailure
    \/ BeginShutdown \/ Close \/ Exit \/ Crash \/ Boot \/ Serve

Spec == Init /\ [][Next]_vars
==============================================================================
