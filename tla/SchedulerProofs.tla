--------------------------- MODULE SchedulerProofs ---------------------------
(***************************************************************************)
(* The safety of Scheduler for any number of tasks and any bounds.         *)
(***************************************************************************)
EXTENDS SchedulerProperties, TLAPS

(***************************************************************************)
(* What the shared helpers return.                                         *)
(***************************************************************************)

\* Interrupted keeps the type of Service.running.
LEMMA InterruptedType ==
    ASSUME NEW e \in [Tasks -> Executions]
    PROVE  Interrupted(e) \in [Tasks -> Executions]
  BY DEF Interrupted, Executions

\* Signal and Stopped keep the types of processes.
LEMMA SignalType ==
    ASSUME NEW p \in Processes
    PROVE  Signal(p) \in Processes
  BY DEF Signal, Processes

LEMMA StoppedType ==
    ASSUME NEW e \in [Tasks -> Executions], NEW p \in [Tasks -> Processes]
    PROVE  Stopped(e, p) \in [Tasks -> Processes]
  BY SignalType DEF Stopped

\* AfterWrite keeps the types of what it changes.
LEMMA AfterWriteType ==
    ASSUME TypeOK, NEW o \in Outcomes,
           NEW e \in [Tasks -> Executions], NEW p \in [Tasks -> Processes],
           AfterWrite(o, e, p)
    PROVE  /\ fault' \in BOOLEAN /\ outages' \in Nat
           /\ running' \in [Tasks -> Executions]
           /\ process' \in [Tasks -> Processes]
  BY InterruptedType, StoppedType DEF AfterWrite, TypeOK, Outcomes, Failed

\* SaveTask keeps the types of memory and disk.
LEMMA SaveTaskType ==
    ASSUME TypeOK, NEW t \in Tasks, NEW r \in TaskRecords, NEW o \in Outcomes,
           SaveTask(t, r, o)
    PROVE  /\ mem' \in [Tasks -> TaskRecords]
           /\ disk' \in [Tasks -> TaskRecords]
  BY DEF SaveTask, TypeOK

\* The counters of a task document are numbers, and so are their successors.
LEMMA CounterTypes ==
    ASSUME NEW r \in TaskRecords
    PROVE  /\ r.attempts \in Nat /\ r.attempts + 1 \in Nat
           /\ r.fails \in Nat /\ r.fails + 1 \in Nat
           /\ r.current \in Nat
<1>1. r.attempts \in Nat /\ r.fails \in Nat /\ r.current \in Nat
  BY DEF TaskRecords
<1>2. QED
  BY <1>1

\* The document of an attempt that ended is a task document.
LEMMA EndedType ==
    ASSUME NEW t \in Tasks, mem[t] \in TaskRecords,
           NEW code, NEW full \in BOOLEAN, NEW bad \in BOOLEAN
    PROVE  Ended(t, code, full, bad) \in TaskRecords
<1> DEFINE done == [mem[t] EXCEPT !.current = 0, !.open = FALSE]
           failed == [done EXCEPT !.fails = @ + 1]
<1>1. {"succeeded", "paused", "cancelled", "queued", "needs_review", "retry_wait",
       "failed"} \subseteq TaskStates
  BY DEF TaskStates
<1>2. done \in TaskRecords
  BY DEF TaskRecords
<1>3. failed \in TaskRecords
  <2> HIDE DEF done
  <2>1. done.fails + 1 \in Nat
    BY <1>2, CounterTypes
  <2>2. QED
    BY <1>2, <2>1 DEF TaskRecords
<1>4. \A s \in TaskStates :
        /\ [done EXCEPT !.state = s] \in TaskRecords
        /\ [failed EXCEPT !.state = s] \in TaskRecords
        /\ [failed EXCEPT !.state = s, !.next = TRUE] \in TaskRecords
  BY <1>2, <1>3 DEF TaskRecords
<1> HIDE DEF done, failed
<1>5. QED
  BY <1>1, <1>4 DEF Ended, done, failed

\* A new task is a task document.
LEMMA NewTaskType == NewTask \in TaskRecords
  BY DEF NewTask, TaskRecords, TaskStates, Intents

\* So is the stand-in for a damaged one.
LEMMA StubType == Stub \in TaskRecords
  BY NewTaskType DEF Stub, TaskRecords, TaskStates

\* Every other document a handler builds is a task document too.
LEMMA RecordTypes ==
    ASSUME NEW t \in Tasks, mem[t] \in TaskRecords
    PROVE  /\ NewTask \in TaskRecords
           /\ Stub \in TaskRecords
           /\ Prepared(t) \in TaskRecords
           /\ NextAttempt(t) \in Nat
           /\ Recovered(t) \in TaskRecords
           /\ [mem[t] EXCEPT !.state = "blocked"] \in TaskRecords
           /\ \A want \in Intents, st \in TaskStates : Halted(t, want, st) \in TaskRecords
<1>1. {"starting", "blocked", "queued", "paused", "cancelled"} \subseteq TaskStates
  BY DEF TaskStates, ActiveStates
<1>2. NewTask \in TaskRecords
  BY NewTaskType
<1>3. Stub \in TaskRecords
  BY StubType
<1>4. NextAttempt(t) \in Nat
  BY CounterTypes DEF NextAttempt
<1>5. Prepared(t) \in TaskRecords
  BY <1>1, <1>4 DEF Prepared, TaskRecords
<1>6. Recovered(t) \in TaskRecords
  BY <1>1 DEF Recovered, Reopened, TaskRecords
<1>7. [mem[t] EXCEPT !.state = "blocked"] \in TaskRecords
  BY <1>1 DEF TaskRecords
<1>8. \A want \in Intents, st \in TaskStates : Halted(t, want, st) \in TaskRecords
  BY DEF Halted, TaskRecords
<1>9. QED
  BY <1>2, <1>3, <1>4, <1>5, <1>6, <1>7, <1>8

\* Queued changes the state, the intent and the time of a document.
LEMMA QueuedFields ==
    ASSUME NEW q \in TaskRecords, NEW n \in Nat
    PROVE  /\ Queued(q, n) \in TaskRecords
           /\ Queued(q, n).state = "queued" /\ Queued(q, n).desired = "run"
           /\ Queued(q, n).attempts = q.attempts /\ Queued(q, n).open = q.open
           /\ Queued(q, n).fails = q.fails
<1>1. "queued" \in TaskStates /\ "run" \in Intents
  BY DEF TaskStates, Intents
<1>2. QED
  BY <1>1 DEF Queued, TaskRecords

------------------------------------------------------------------------------
(***************************************************************************)
(* Type correctness.                                                       *)
(***************************************************************************)

\* The stand-in process and execution have the types of the real ones.
LEMMA EmptyTypes ==
    NoExecution \in Executions /\ NoProcess \in Processes
  BY DEF NoExecution, NoProcess, Executions, Processes

LEMMA TypeInit == Init => TypeOK
<1> SUFFICES ASSUME Init PROVE TypeOK
  OBVIOUS
<1>1. NewTask \in TaskRecords
  BY NewTaskType
<1>2. settings \in [max : Limits, paused : BOOLEAN]
  BY DEF Init
<1>3. QED
  BY <1>1, <1>2, EmptyTypes DEF Init, TypeOK, Intents

\* One lemma for each group of actions: a step keeps every type.
LEMMA TypeRequest ==
    ASSUME TypeOK, NEW t \in Tasks, Request(t)
    PROVE  TypeOK'
<1> mem[t] \in TaskRecords /\ {"pause", "cancel", "run"} \subseteq Intents
  BY DEF TypeOK, Intents
<1>1. ASSUME NEW want \in {"pause", "cancel"}, NEW from, NEW st \in TaskStates,
             Halt(t, want, from, st)
      PROVE  TypeOK'
  <2>1. PICK o \in Outcomes :
          LET e == IF running[t].pc = "none" \/ o # "ok" THEN running
                   ELSE [running EXCEPT ![t].stop = want]
              p == IF running[t].pc = "polling" /\ o = "ok"
                   THEN [process EXCEPT ![t] = Signal(@)] ELSE process
          IN  /\ SaveTask(t, Halted(t, want, st), o)
              /\ AfterWrite(o, e, p)
              /\ Answered(t, want, o)
    BY <1>1 DEF Halt
  <2> DEFINE e == IF running[t].pc = "none" \/ o # "ok" THEN running
                  ELSE [running EXCEPT ![t].stop = want]
             p == IF running[t].pc = "polling" /\ o = "ok"
                  THEN [process EXCEPT ![t] = Signal(@)] ELSE process
  <2>2. e \in [Tasks -> Executions] /\ p \in [Tasks -> Processes]
    BY SignalType DEF TypeOK, Executions
  <2>3. Halted(t, want, st) \in TaskRecords
    BY RecordTypes
  <2>4. intent' \in [Tasks -> Intents \cup {"unsure"}]
    BY <2>1 DEF Answered, TypeOK
  <2> HIDE DEF e, p
  <2>5. /\ fault' \in BOOLEAN /\ outages' \in Nat
        /\ running' \in [Tasks -> Executions]
        /\ process' \in [Tasks -> Processes]
    BY <2>1, <2>2, AfterWriteType DEF e, p
  <2>6. mem' \in [Tasks -> TaskRecords] /\ disk' \in [Tasks -> TaskRecords]
    BY <2>1, <2>3, SaveTaskType
  <2>7. QED
    BY <1>1, <2>4, <2>5, <2>6 DEF Halt, TypeOK
<1>2. ASSUME NEW want \in {"pause", "cancel"}, NEW in, Repeated(t, want, in)
      PROVE  TypeOK'
  BY <1>2 DEF Repeated, Answered, memory, durable, TypeOK
<1>3. ASSUME NEW from, NEW r \in TaskRecords, Requeue(t, from, r)
      PROVE  TypeOK'
  <2> DEFINE q == Queued(r, requeues + 1)
  <2>1. requeues + 1 \in Nat
    BY DEF TypeOK
  <2>2. q \in TaskRecords
    BY <2>1, QueuedFields
  <2>3. PICK o \in Outcomes :
          SaveTask(t, q, o) /\ AfterWrite(o, running, process) /\ Answered(t, "run", o)
    BY <1>3 DEF Requeue
  <2> HIDE DEF q
  <2>4. running \in [Tasks -> Executions] /\ process \in [Tasks -> Processes]
    BY DEF TypeOK
  <2>5. /\ fault' \in BOOLEAN /\ outages' \in Nat
        /\ running' \in [Tasks -> Executions]
        /\ process' \in [Tasks -> Processes]
    BY <2>3, <2>4, AfterWriteType
  <2>6. mem' \in [Tasks -> TaskRecords] /\ disk' \in [Tasks -> TaskRecords]
    BY <2>2, <2>3, SaveTaskType
  <2>7. QED
    BY <1>3, <2>1, <2>3, <2>5, <2>6 DEF Requeue, Answered, TypeOK
<1>4. CASE Priority(t)
  <2>1. PICK n \in Priorities, o \in Outcomes :
          SaveTask(t, [mem[t] EXCEPT !.prio = n], o) /\ AfterWrite(o, running, process)
    BY <1>4 DEF Priority
  <2>2. [mem[t] EXCEPT !.prio = n] \in TaskRecords
    BY SchedulerAssumption DEF TaskRecords
  <2>3. running \in [Tasks -> Executions] /\ process \in [Tasks -> Processes]
    BY DEF TypeOK
  <2>4. /\ fault' \in BOOLEAN /\ outages' \in Nat
        /\ running' \in [Tasks -> Executions]
        /\ process' \in [Tasks -> Processes]
    BY <2>1, <2>3, AfterWriteType
  <2>5. mem' \in [Tasks -> TaskRecords] /\ disk' \in [Tasks -> TaskRecords]
    BY <2>1, <2>2, SaveTaskType
  <2>6. QED
    BY <1>4, <2>4, <2>5 DEF Priority, TypeOK
<1>5. [mem[t] EXCEPT !.fails = 0, !.next = FALSE] \in TaskRecords
  BY DEF TaskRecords
<1>6. {"pausing", "paused", "cancelling", "cancelled"} \subseteq TaskStates
  BY DEF TaskStates, ActiveStates
<1>7. QED
  BY <1>1, <1>2, <1>3, <1>4, <1>5, <1>6
     DEF Request, PauseTask, CancelTask, ResumeTask, RetryTask

LEMMA TypeLoop ==
    ASSUME TypeOK, NEW t \in Tasks, Loop(t)
    PROVE  TypeOK'
<1> USE DEF TypeOK
<1>1. /\ mem[t] \in TaskRecords /\ Prepared(t) \in TaskRecords
      /\ [mem[t] EXCEPT !.state = "blocked"] \in TaskRecords
      /\ NextAttempt(t) \in Nat
  BY RecordTypes
<1>2. Described(t) \in [Tasks -> Nat]
  BY <1>1 DEF Described
<1>3. CASE Dispatch(t)
  <2>1. [NoExecution EXCEPT !.pc = "prepared", !.attempt = NextAttempt(t)] \in Executions
    BY <1>1 DEF NoExecution, Executions
  <2>2. mem' \in [Tasks -> TaskRecords] /\ disk' \in [Tasks -> TaskRecords]
    BY <1>1, <1>3, SaveTaskType DEF Dispatch, Outcomes
  <2>3. QED
    BY <1>2, <1>3, <2>1, <2>2 DEF Dispatch
<1>4. CASE DispatchFails(t)
  <2>1. PICK at \in {"checkpoint", "document", "descriptor"}, o \in Outcomes \ {"ok"} :
          /\ CASE at = "checkpoint" -> UNCHANGED <<mem, disk>>
               [] at = "document" -> SaveTask(t, Prepared(t), o)
               [] at = "descriptor" -> SaveTask(t, Prepared(t), "ok")
          /\ descriptor' = IF at = "descriptor" /\ o = "applied" THEN Described(t)
                           ELSE descriptor
          /\ AfterWrite(o, running, process)
    BY <1>4 DEF DispatchFails
  <2>2. mem' \in [Tasks -> TaskRecords] /\ disk' \in [Tasks -> TaskRecords]
    <3>1. UNCHANGED <<mem, disk>> \/ \E w \in Outcomes : SaveTask(t, Prepared(t), w)
      BY <2>1 DEF Outcomes
    <3>2. QED
      BY <1>1, <3>1, SaveTaskType
  <2>3. /\ fault' \in BOOLEAN /\ outages' \in Nat
        /\ running' \in [Tasks -> Executions]
        /\ process' \in [Tasks -> Processes]
    BY <2>1, AfterWriteType
  <2>4. QED
    BY <1>2, <1>4, <2>1, <2>2, <2>3 DEF DispatchFails
<1>5. CASE DispatchBlocks(t)
  <2>1. PICK o \in Outcomes :
          /\ SaveTask(t, [mem[t] EXCEPT !.state = "blocked"], o)
          /\ AfterWrite(o, running, process)
    BY <1>5 DEF DispatchBlocks
  <2>2. mem' \in [Tasks -> TaskRecords] /\ disk' \in [Tasks -> TaskRecords]
    BY <1>1, <2>1, SaveTaskType
  <2>3. /\ fault' \in BOOLEAN /\ outages' \in Nat
        /\ running' \in [Tasks -> Executions]
        /\ process' \in [Tasks -> Processes]
    BY <2>1, AfterWriteType
  <2>4. QED
    BY <1>5, <2>2, <2>3 DEF DispatchBlocks
<1>6. QED
  BY <1>3, <1>4, <1>5 DEF Loop

\* An execution may move to any of its steps.
LEMMA MoveType ==
    ASSUME TypeOK, NEW t \in Tasks, NEW s \in {"none", "prepared", "cleared", "launched", "polling", "aborted"}
    PROVE  [running EXCEPT ![t].pc = s] \in [Tasks -> Executions]
<1>1. running \in [Tasks -> Executions] /\ running[t] \in Executions
  BY DEF TypeOK
<1>2. [running[t] EXCEPT !.pc = s] \in Executions
  BY <1>1 DEF Executions
<1>3. QED
  BY <1>1, <1>2

LEMMA TypeExecute ==
    ASSUME TypeOK, NEW t \in Tasks, Execute(t) \/ EvidenceError(t)
    PROVE  TypeOK'
<1> USE DEF TypeOK
<1>1. CASE CheckAbort(t)
  BY <1>1, MoveType DEF CheckAbort, durable
<1>2. CASE Launch(t)
  <2>1. running[t].attempt \in Nat
    BY DEF Executions
  <2>2. [NoProcess EXCEPT !.st = "running", !.attempt = running[t].attempt] \in Processes
    BY <2>1 DEF NoProcess, Processes
  <2>3. [running EXCEPT ![t].pc = "launched"] \in [Tasks -> Executions]
    BY MoveType
  <2>4. QED
    BY <1>2, <2>2, <2>3 DEF Launch, durable
<1>3. CASE LaunchFails(t)
  BY <1>3, MoveType DEF LaunchFails, durable
<1>4. CASE Attach(t)
  <2> DEFINE e == [running EXCEPT ![t].pc = "polling"]
             p == IF ShouldStop(t) THEN [process EXCEPT ![t] = Signal(@)] ELSE process
             r == [mem[t] EXCEPT !.state = IF Abandoned(t) THEN @ ELSE "running"]
  <2>1. e \in [Tasks -> Executions] /\ p \in [Tasks -> Processes]
    <3>1. e \in [Tasks -> Executions]
      BY MoveType
    <3>2. Signal(process[t]) \in Processes
      BY SignalType
    <3>3. QED
      BY <3>1, <3>2
  <2>2. r \in TaskRecords
    <3>1. mem[t] \in TaskRecords /\ "running" \in TaskStates
      BY DEF TaskStates, ActiveStates
    <3>2. QED
      BY <3>1 DEF TaskRecords
  <2>3. \/ running' = e /\ process' = p /\ UNCHANGED <<mem, disk, fault, outages>>
        \/ \E o \in Outcomes : SaveTask(t, r, o) /\ AfterWrite(o, e, p)
    BY <1>4 DEF Attach
  <2> HIDE DEF e, p, r
  <2>4. /\ fault' \in BOOLEAN /\ outages' \in Nat
        /\ running' \in [Tasks -> Executions]
        /\ process' \in [Tasks -> Processes]
        /\ mem' \in [Tasks -> TaskRecords] /\ disk' \in [Tasks -> TaskRecords]
    BY <2>1, <2>2, <2>3, AfterWriteType, SaveTaskType
  <2>5. QED
    BY <1>4, <2>4 DEF Attach
<1>5. CASE Finish(t)
  <2> DEFINE e == [running EXCEPT ![t] = NoExecution]
             p == [process EXCEPT ![t] = NoProcess]
             code == IF running[t].pc = "polling" THEN process[t].code ELSE "other"
  <2>1. e \in [Tasks -> Executions] /\ p \in [Tasks -> Processes]
    BY EmptyTypes
  <2>2. \/ /\ running' = e /\ process' = p
           /\ UNCHANGED <<mem, disk, fault, outages, expired>>
        \/ \E full, bad \in BOOLEAN, o \in Outcomes :
             /\ SaveTask(t, Ended(t, code, full, bad), o)
             /\ AfterWrite(o, e, p)
             /\ expired' = [expired EXCEPT ![t] = ~Ended(t, code, full, bad).next]
    BY ZenonT(60), <1>5 DEF Finish
  <2> HIDE DEF e, p, code
  <2>3. CASE UNCHANGED <<mem, disk, fault, outages, expired>> /\ running' = e /\ process' = p
    BY <1>5, <2>1, <2>3 DEF Finish
  <2>4. ASSUME NEW full \in BOOLEAN, NEW bad \in BOOLEAN, NEW o \in Outcomes,
               SaveTask(t, Ended(t, code, full, bad), o), AfterWrite(o, e, p),
               expired' = [expired EXCEPT ![t] = ~Ended(t, code, full, bad).next]
        PROVE  TypeOK'
    <3>1. Ended(t, code, full, bad) \in TaskRecords
      BY EndedType
    <3>2. Ended(t, code, full, bad).next \in BOOLEAN
      BY <3>1 DEF TaskRecords
    <3>3. /\ fault' \in BOOLEAN /\ outages' \in Nat
          /\ running' \in [Tasks -> Executions]
          /\ process' \in [Tasks -> Processes]
          /\ mem' \in [Tasks -> TaskRecords] /\ disk' \in [Tasks -> TaskRecords]
      BY <2>1, <2>4, <3>1, AfterWriteType, SaveTaskType
    <3>4. expired' \in [Tasks -> BOOLEAN]
      BY <2>4, <3>2
    <3>5. QED
      BY <1>5, <3>3, <3>4 DEF Finish
  <2>5. QED
    BY <2>2, <2>3, <2>4
<1>6. CASE EvidenceError(t)
  <2>1. [running EXCEPT ![t].stop = "evidence_error", ![t].bad = TRUE]
          \in [Tasks -> Executions]
    <3>1. running[t] \in Executions
      BY DEF TypeOK
    <3>2. [running[t] EXCEPT !.stop = "evidence_error", !.bad = TRUE] \in Executions
      BY <3>1 DEF Executions
    <3>3. QED
      BY <3>2 DEF TypeOK
  <2>2. [process EXCEPT ![t] = Signal(@)] \in [Tasks -> Processes]
    BY SignalType
  <2>3. QED
    BY <1>6, <2>1, <2>2 DEF EvidenceError, durable
<1>7. QED
  BY <1>1, <1>2, <1>3, <1>4, <1>5, <1>6 DEF Execute

\* What a controller leaves behind is typed.
LEMMA GoneType ==
    ASSUME TypeOK, NEW d \in [Tasks -> TaskRecords], Gone(d)
    PROVE  /\ phase' = "down" /\ fault' = FALSE /\ settings' = diskSettings /\ mem' = d
           /\ running' \in [Tasks -> Executions]
           /\ boot' \in [Tasks -> {"todo", "clear", "stuck", "done"}]
           /\ process' \in [Tasks -> Processes]
  BY EmptyTypes DEF Gone, TypeOK

LEMMA TypeRecover ==
    ASSUME TypeOK, NEW t \in Tasks, Recover(t)
    PROVE  TypeOK'
<1>1. CASE LockFree(t)
  BY <1>1 DEF LockFree, TypeOK, durable
<1>2. CASE Quit(t)
  <2>1. [process EXCEPT ![t].term = TRUE] \in [Tasks -> Processes]
    BY ZenonT(60) DEF TypeOK, Processes
  <2>2. QED
    BY <1>2, <2>1 DEF Quit, TypeOK, memory, durable
<1>3. CASE GiveUp(t)
  BY <1>3 DEF GiveUp, TypeOK, durable
<1>4. CASE RecoverTask(t)
  <2>1. Recovered(t) \in TaskRecords
    BY RecordTypes DEF TypeOK
  <2>2. CASE UNCHANGED <<phase, fault, settings, mem, running, process, disk, outages>>
             /\ boot' = [boot EXCEPT ![t] = "done"]
    BY <1>4, <2>2 DEF RecoverTask, TypeOK
  <2>3. CASE SaveTask(t, Recovered(t), "ok")
             /\ boot' = [boot EXCEPT ![t] = "done"]
             /\ UNCHANGED <<phase, fault, settings, running, process, outages>>
    <3>1. mem' \in [Tasks -> TaskRecords] /\ disk' \in [Tasks -> TaskRecords]
      BY <2>1, <2>3, SaveTaskType DEF Outcomes
    <3>2. QED
      BY <1>4, <2>3, <3>1 DEF RecoverTask, TypeOK
  <2>4. CASE /\ outages' = outages + 1
             /\ disk' \in {disk, [disk EXCEPT ![t] = Recovered(t)]}
             /\ Gone(disk')
    <3>1. disk' \in [Tasks -> TaskRecords]
      BY <2>1, <2>4 DEF TypeOK
    <3>2. outages' \in Nat
      BY <2>4 DEF TypeOK
    <3>3. QED
      BY <1>4, <2>4, <3>1, <3>2, GoneType DEF RecoverTask, TypeOK
  <2>5. QED
    BY <1>4, <2>2, <2>3, <2>4 DEF RecoverTask
<1>5. QED
  BY <1>1, <1>2, <1>3, <1>4 DEF Recover

LEMMA TypeEnvironment ==
    ASSUME TypeOK, NEW t \in Tasks, Environment(t)
    PROVE  TypeOK'
<1>1. CASE ProcessExit(t)
  <2>1. PICK c \in ExitCodes :
          process' = [process EXCEPT ![t] =
            IF running[t].pc \in {"launched", "polling"}
            THEN [@ EXCEPT !.st = "exited", !.code = c] ELSE NoProcess]
    BY <1>1 DEF ProcessExit
  <2>2. [process[t] EXCEPT !.st = "exited", !.code = c] \in Processes
    <3>1. process[t] \in Processes
      BY DEF TypeOK
    <3>2. QED
      BY <3>1 DEF Processes
  <2>3. process' \in [Tasks -> Processes]
    BY <2>1, <2>2, EmptyTypes DEF TypeOK
  <2>4. QED
    BY <1>1, <2>3 DEF ProcessExit, TypeOK, memory, durable
<1>2. CASE Timer(t)
  BY <1>2 DEF Timer, TypeOK, memory, durable
<1>3. CASE Damage(t)
  BY <1>3 DEF Damage, TypeOK, memory
<1>4. QED
  BY <1>1, <1>2, <1>3 DEF Environment

\* The actions that concern no single task.
Controller ==
    \/ UpdateSettings \/ PersistenceFailure
    \/ BeginShutdown \/ Close \/ Exit \/ Crash \/ Boot \/ Serve

LEMMA TypeController ==
    ASSUME TypeOK, Controller
    PROVE  TypeOK'
<1>1. CASE UpdateSettings
  <2>1. PICK s \in [max : Limits, paused : BOOLEAN], o \in Outcomes :
          /\ diskSettings' = IF o = "lost" THEN diskSettings ELSE s
          /\ settings' = IF o = "ok" THEN s ELSE settings
          /\ AfterWrite(o, running, process)
    BY <1>1 DEF UpdateSettings
  <2>2. /\ fault' \in BOOLEAN /\ outages' \in Nat
        /\ running' \in [Tasks -> Executions]
        /\ process' \in [Tasks -> Processes]
    BY <2>1, AfterWriteType DEF TypeOK
  <2>3. QED
    BY <1>1, <2>1, <2>2 DEF UpdateSettings, TypeOK
<1>2. CASE PersistenceFailure
  <2>1. /\ fault' \in BOOLEAN /\ outages' \in Nat
        /\ running' \in [Tasks -> Executions]
        /\ process' \in [Tasks -> Processes]
    BY <1>2, AfterWriteType DEF PersistenceFailure, Outcomes, TypeOK
  <2>2. QED
    BY <1>2, <2>1 DEF PersistenceFailure, TypeOK, durable
<1>3. CASE BeginShutdown \/ Close
  <2>1. outages' \in Nat
    BY <1>3 DEF BeginShutdown, CountOutage, Close, TypeOK
  <2>2. running' \in [Tasks -> Executions] /\ process' \in [Tasks -> Processes]
    BY <1>3, InterruptedType, StoppedType DEF BeginShutdown, Close, TypeOK
  <2>3. QED
    BY <1>3, <2>1, <2>2 DEF BeginShutdown, Close, TypeOK, durable
<1>4. CASE Exit \/ Crash
  <2>1. outages' \in Nat
    BY <1>4 DEF Exit, Crash, CountOutage, TypeOK
  <2>2. Gone(disk) /\ disk \in [Tasks -> TaskRecords]
    BY <1>4 DEF Exit, Crash, TypeOK
  <2>3. QED
    BY <1>4, <2>1, <2>2, GoneType DEF Exit, Crash, TypeOK, durable
<1>5. CASE Boot
  <2>1. mem' \in [Tasks -> TaskRecords]
    BY <1>5, StubType DEF Boot, TypeOK
  <2>2. QED
    BY <1>5, <2>1 DEF Boot, TypeOK, durable
<1>6. CASE Serve
  BY <1>6 DEF Serve, TypeOK, durable
<1>7. QED
  BY <1>1, <1>2, <1>3, <1>4, <1>5, <1>6 DEF Controller

\* Every action belongs to one of the groups.
LEMMA NextGroups ==
    Next <=> \/ Controller
             \/ \E t \in Tasks :
                  \/ Request(t) \/ Loop(t) \/ Execute(t) \/ EvidenceError(t)
                  \/ Recover(t) \/ Environment(t)
  BY DEF Next, Controller

LEMMA TypeStep == TypeOK /\ [Next]_vars => TypeOK'
<1>1. ASSUME TypeOK, UNCHANGED vars
      PROVE  TypeOK'
  BY <1>1 DEF vars, memory, durable, TypeOK
<1>2. ASSUME TypeOK, Next
      PROVE  TypeOK'
  BY <1>2, NextGroups, TypeController, TypeRequest, TypeLoop, TypeExecute, TypeRecover,
     TypeEnvironment
<1>3. QED
  BY <1>1, <1>2

\* Every state the controller, the disk and the processes can be in has the
\* declared types, for any number of tasks, limits and failures.
THEOREM TypeCorrect == Spec => []TypeOK
<1>1. QED
  BY TypeInit, TypeStep, PTL DEF Spec
==============================================================================
