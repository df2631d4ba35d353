--------------------------- MODULE SchedulerSafety ---------------------------
(***************************************************************************)
(* Inv of SchedulerProperties is inductive, and what follows from it; then *)
(* Meant, a second invariant, with which Scheduler implements TaskContract;*)
(* then Counted, a third, with which it implements AttemptContract.        *)
(***************************************************************************)
EXTENDS SchedulerProofs, FiniteSetTheorems

(***************************************************************************)
(* What a step that writes does to one task.                               *)
(***************************************************************************)

\* Telling a process to stop does not end it.
LEMMA SignalEffect ==
    ASSUME NEW p \in Processes
    PROVE  Signal(p) \in Processes /\ Signal(p).st = p.st /\ Signal(p).attempt = p.attempt
  BY DEF Signal, Processes

\* Interrupting every execution gives stop reasons and signals, nothing else.
LEMMA InterruptedEffect ==
    ASSUME NEW u \in Tasks,
           NEW e \in [Tasks -> Executions], NEW p \in [Tasks -> Processes]
    PROVE  /\ Interrupted(e)[u].pc = e[u].pc /\ Interrupted(e)[u].attempt = e[u].attempt
           /\ Interrupted(e)[u].stop \in {e[u].stop, "interrupted"}
           /\ Stopped(e, p)[u].st = p[u].st /\ Stopped(e, p)[u].attempt = p[u].attempt
<1>1. Interrupted(e)[u] = IF e[u].pc = "none" THEN e[u]
                          ELSE [e[u] EXCEPT !.stop = "interrupted"]
  BY DEF Interrupted
<1>2. /\ Interrupted(e)[u].pc = e[u].pc /\ Interrupted(e)[u].attempt = e[u].attempt
      /\ Interrupted(e)[u].stop \in {e[u].stop, "interrupted"}
  BY <1>1 DEF Executions
<1>3. Stopped(e, p)[u] = IF e[u].pc = "polling" THEN Signal(p[u]) ELSE p[u]
  BY DEF Stopped
<1>4. Stopped(e, p)[u].st = p[u].st /\ Stopped(e, p)[u].attempt = p[u].attempt
  BY <1>3 DEF Signal, Processes
<1>5. QED
  BY <1>2, <1>4

\* AfterWrite may add a fault, turn a stop reason into "interrupted" and tell
\* a process to stop, and nothing else.
LEMMA AfterWriteEffect ==
    ASSUME NEW o \in Outcomes, NEW u \in Tasks,
           NEW e \in [Tasks -> Executions], NEW p \in [Tasks -> Processes],
           AfterWrite(o, e, p)
    PROVE  /\ fault' = (fault \/ o # "ok")
           /\ running'[u].pc = e[u].pc /\ running'[u].attempt = e[u].attempt
           /\ running'[u].stop = e[u].stop \/ running'[u].stop = "interrupted"
           /\ process'[u].st = p[u].st /\ process'[u].attempt = p[u].attempt
  BY InterruptedEffect DEF AfterWrite, Failed

\* SaveTask changes one task: memory on success, the disk unless the write was
\* lost.
LEMMA SaveTaskEffect ==
    ASSUME TypeOK, NEW t \in Tasks, NEW u \in Tasks, NEW r, NEW o \in Outcomes,
           SaveTask(t, r, o)
    PROVE  /\ mem'[u] = IF u = t /\ o = "ok" THEN r ELSE mem[u]
           /\ disk'[u] = IF u = t /\ o # "lost" THEN r ELSE disk[u]
  BY DEF SaveTask, TypeOK, Outcomes

\* What a step may do to a task that is none of its business.
Calm(u) ==
    /\ phase' = phase \/ (Up /\ Up')
    /\ fault => fault'
    /\ fault' => Up'
    /\ mem'[u] = mem[u] /\ disk'[u] = disk[u] /\ boot'[u] = boot[u]
    /\ descriptor'[u] = descriptor[u] /\ damage'[u] = damage[u] /\ intent'[u] = intent[u]
    /\ running'[u].pc = running[u].pc /\ running'[u].attempt = running[u].attempt
    /\ running'[u].stop \in {"pause", "cancel"} => running'[u].stop = running[u].stop
    /\ HoldsLock(u)' => HoldsLock(u) /\ process'[u].attempt = process[u].attempt

LEMMA CalmKeeps ==
    ASSUME NEW u \in Tasks, TypeOK, TaskInv(u), Calm(u)
    PROVE  TaskInv(u)'
<1> USE DEF Calm, TaskInv, Up
<1>1. Sound(mem[u])' /\ Sound(disk[u])'
  BY DEF Sound, Active
<1>2. ProcessTracked(u)'
  BY DEF ProcessTracked, TypeOK
<1>3. SlotTracked(u)'
  BY DEF SlotTracked, Active, TypeOK
<1>4. MemoryTracked(u)'
  BY DEF MemoryTracked, TypeOK
<1>5. IntentKept(u)'
  BY DEF IntentKept
<1>6. QED
  BY <1>1, <1>2, <1>3, <1>4, <1>5

\* The tasks a write handler of another task leaves alone.
LEMMA OthersCalm ==
    ASSUME TypeOK, NEW t \in Tasks, NEW u \in Tasks \ {t}, NEW r, NEW o \in Outcomes,
           NEW e \in [Tasks -> Executions], NEW p \in [Tasks -> Processes],
           Up, phase' = phase, boot' = boot, damage' = damage,
           descriptor'[u] = descriptor[u], intent'[u] = intent[u],
           e[u] = running[u], p[u] = process[u],
           UNCHANGED <<mem, disk>> \/ SaveTask(t, r, o), AfterWrite(o, e, p)
    PROVE  Calm(u)
<1>1. mem'[u] = mem[u] /\ disk'[u] = disk[u]
  BY SaveTaskEffect
<1>2. /\ fault' = (fault \/ o # "ok")
      /\ running'[u].pc = running[u].pc /\ running'[u].attempt = running[u].attempt
      /\ running'[u].stop = running[u].stop \/ running'[u].stop = "interrupted"
      /\ process'[u].st = process[u].st /\ process'[u].attempt = process[u].attempt
  BY AfterWriteEffect
<1>3. QED
  BY <1>1, <1>2 DEF Calm, HoldsLock, Up

\* A healthy controller saves r over the document of t, which is not blocked,
\* and neither frees nor takes a slot.
LEMMA DocumentWritten ==
    ASSUME TypeOK, NEW t \in Tasks, TaskInv(t), NEW o \in Outcomes,
           NEW r \in TaskRecords, Sound(r), SaveTask(t, r, o),
           NEW e \in [Tasks -> Executions], NEW p \in [Tasks -> Processes],
           AfterWrite(o, e, p), Up, ~fault,
           phase' = phase, boot' = boot, damage' = damage, descriptor' = descriptor,
           e[t].pc = running[t].pc
             \/ {e[t].pc, running[t].pc} \subseteq {"launched", "polling"},
           e[t].attempt = running[t].attempt,
           p[t].st = process[t].st, p[t].attempt = process[t].attempt,
           mem[t].state # "blocked", r.attempts = mem[t].attempts,
           Active(r) <=> Active(mem[t]),
           e[t].pc # "none" /\ e[t].stop \in {"pause", "cancel"} =>
             \/ o = "ok" /\ r.desired = e[t].stop
             \/ e[t].stop = running[t].stop /\ r.desired = mem[t].desired
             \/ o # "ok" /\ e[t].stop = running[t].stop,
           intent'[t] \in {"pause", "cancel"} =>
             \/ o = "ok" /\ r.desired = intent'[t]
             \/ intent'[t] = intent[t] /\ r.desired = mem[t].desired
    PROVE  TaskInv(t)'
<1>1. /\ mem'[t] = IF o = "ok" THEN r ELSE mem[t]
      /\ disk'[t] = IF o = "lost" THEN mem[t] ELSE r
      /\ disk[t] = mem[t] /\ damage[t] # "doc"
  BY SaveTaskEffect DEF TaskInv, MemoryTracked, Up
<1>2. /\ fault' = (o # "ok")
      /\ running'[t].pc = e[t].pc /\ running'[t].attempt = e[t].attempt
      /\ running'[t].stop = e[t].stop \/ running'[t].stop = "interrupted"
      /\ process'[t].st = p[t].st /\ process'[t].attempt = p[t].attempt
  BY AfterWriteEffect
<1>3. Up' /\ phase \notin {"down", "recovering"}
  BY DEF Up
<1>4. Sound(mem[t])' /\ Sound(disk[t])'
  BY <1>1 DEF TaskInv, Sound, Active
<1>5. ProcessTracked(t)'
  BY <1>1, <1>2, <1>3 DEF TaskInv, ProcessTracked, HoldsLock, TypeOK
<1>6. SlotTracked(t)'
  BY <1>1, <1>2, <1>3 DEF TaskInv, SlotTracked, Active, TypeOK
<1>7. MemoryTracked(t)'
  BY <1>1, <1>2, <1>3 DEF MemoryTracked, Outcomes
<1>8. IntentKept(t)'
  BY <1>1 DEF TaskInv, IntentKept
<1>9. QED
  BY <1>4, <1>5, <1>6, <1>7, <1>8 DEF TaskInv

------------------------------------------------------------------------------
(***************************************************************************)
(* The requests.                                                           *)
(***************************************************************************)
LEMMA HaltKeeps ==
    ASSUME Inv, NEW t \in Tasks, NEW want \in {"pause", "cancel"},
           NEW from, NEW st, Halt(t, want, from, st),
           \/ from \subseteq ActiveStates
              /\ st = IF want = "pause" THEN "pausing" ELSE "cancelling"
           \/ from \cap (ActiveStates \cup {"blocked"}) = {}
              /\ st = IF want = "pause" THEN "paused" ELSE "cancelled",
           want = "pause" => from \cap {"failed", "needs_review", "cancelled"} = {}
    PROVE  \A u \in Tasks : TaskInv(u)'
<1> DEFINE E(o) == IF running[t].pc = "none" \/ o # "ok" THEN running
                   ELSE [running EXCEPT ![t].stop = want]
           P(o) == IF running[t].pc = "polling" /\ o = "ok"
                   THEN [process EXCEPT ![t] = Signal(@)] ELSE process
           r == Halted(t, want, st)
<1>1. PICK o \in Outcomes :
        SaveTask(t, r, o) /\ AfterWrite(o, E(o), P(o)) /\ Answered(t, want, o)
  BY DEF Halt
<1> DEFINE e == E(o) p == P(o)
<1>2. /\ Writable /\ mem[t].state \in from
      /\ phase' = phase /\ boot' = boot /\ damage' = damage /\ descriptor' = descriptor
  BY DEF Halt
<1>3. TypeOK /\ TaskInv(t) /\ Up /\ ~fault
  BY <1>2 DEF Inv, Writable, Up
<1>4. mem[t] \in TaskRecords
  BY <1>3 DEF TypeOK
<1>5. /\ r \in TaskRecords /\ r.state = st /\ r.desired = want
      /\ r.attempts = mem[t].attempts /\ r.current = mem[t].current
      /\ r.open = mem[t].open /\ r.fails = mem[t].fails
  <2>1. want \in Intents /\ st \in TaskStates
    BY DEF Intents, TaskStates, ActiveStates
  <2>2. r \in TaskRecords
    BY <1>4, <2>1, RecordTypes
  <2>3. QED
    BY <1>4, <2>2 DEF Halted, TaskRecords
<1>6. /\ e \in [Tasks -> Executions] /\ p \in [Tasks -> Processes]
      /\ e[t].pc = running[t].pc /\ e[t].attempt = running[t].attempt
      /\ p[t].st = process[t].st /\ p[t].attempt = process[t].attempt
      /\ e[t].stop = running[t].stop \/ (o = "ok" /\ e[t].stop = want)
      /\ \A u \in Tasks \ {t} : e[u] = running[u] /\ p[u] = process[u]
  <2>1. running \in [Tasks -> Executions] /\ process \in [Tasks -> Processes]
    BY <1>3 DEF TypeOK
  <2>2. /\ e \in [Tasks -> Executions]
        /\ e[t].pc = running[t].pc /\ e[t].attempt = running[t].attempt
        /\ e[t].stop = running[t].stop \/ (o = "ok" /\ e[t].stop = want)
    BY <2>1 DEF Executions
  <2>3. /\ Signal(process[t]) \in Processes
        /\ Signal(process[t]).st = process[t].st
        /\ Signal(process[t]).attempt = process[t].attempt
    BY <2>1, SignalEffect
  <2>4. /\ p \in [Tasks -> Processes]
        /\ p[t].st = process[t].st /\ p[t].attempt = process[t].attempt
    BY <2>1, <2>3
  <2>5. QED
    BY <2>1, <2>2, <2>4
<1>7. /\ mem[t].state # "blocked"
      /\ Active(r) <=> Active(mem[t])
  BY <1>2, <1>5 DEF Active, ActiveStates
<1>8. Sound(r)
  BY <1>2, <1>3, <1>5, <1>7 DEF TaskInv, Sound, Active, ActiveStates
<1>9. /\ intent'[t] = IF o = "ok" THEN want ELSE "unsure"
      /\ \A u \in Tasks \ {t} : intent'[u] = intent[u]
  BY <1>1, <1>3 DEF Answered, TypeOK
<1>10. e[t].pc # "none" /\ e[t].stop \in {"pause", "cancel"} =>
             \/ o = "ok" /\ r.desired = e[t].stop
             \/ e[t].stop = running[t].stop /\ r.desired = mem[t].desired
             \/ o # "ok" /\ e[t].stop = running[t].stop
  <2>1. CASE running[t].pc = "none" /\ o = "ok"
    BY <1>3, <1>6, <2>1
  <2>2. CASE running[t].pc # "none" /\ o = "ok"
    BY <1>3, <1>5, <2>2 DEF TypeOK, Executions
  <2>3. CASE o # "ok"
    BY <2>3
  <2>4. QED
    BY <2>1, <2>2, <2>3
<1> HIDE DEF e, p, r
<1>11. TaskInv(t)'
  BY ZenonT(60), <1>1, <1>2, <1>3, <1>5, <1>6, <1>7, <1>8, <1>9, <1>10, DocumentWritten DEF e, p
<1>12. ASSUME NEW u \in Tasks \ {t} PROVE TaskInv(u)'
  <2>1. Calm(u)
    BY <1>1, <1>2, <1>3, <1>6, <1>9, OthersCalm DEF e, p
  <2>2. QED
    BY <1>3, <2>1, CalmKeeps DEF Inv
<1>13. QED
  BY <1>11, <1>12

LEMMA RepeatedKeeps ==
    ASSUME Inv, NEW t \in Tasks, NEW want, NEW in, Repeated(t, want, in),
           \/ want = "pause" /\ in = {"paused", "pausing"}
           \/ want = "cancel" /\ in = {"cancelled", "cancelling"}
    PROVE  \A u \in Tasks : TaskInv(u)'
<1>1. /\ TypeOK /\ Up /\ ~fault /\ mem[t].state \in in
      /\ UNCHANGED <<memory, durable, process>>
      /\ intent' = [intent EXCEPT ![t] = want]
  BY DEF Inv, Repeated, Writable, Up, Answered
<1>2. ASSUME NEW u \in Tasks \ {t} PROVE TaskInv(u)'
  <2>1. Calm(u)
    BY <1>1 DEF Calm, memory, durable, HoldsLock, Up, TypeOK
  <2>2. QED
    BY <1>1, <2>1, CalmKeeps DEF Inv
<1>3. TaskInv(t)'
  <2>1. TaskInv(t) /\ mem[t].desired = want /\ disk[t] = mem[t]
    BY <1>1 DEF Inv, TaskInv, MemoryTracked, Sound, Up
  <2>2. IntentKept(t)'
    BY <1>1, <2>1 DEF IntentKept, TypeOK, memory, durable
  <2>3. /\ Sound(mem[t])' /\ Sound(disk[t])'
        /\ ProcessTracked(t)' /\ SlotTracked(t)' /\ MemoryTracked(t)'
    BY <1>1, <2>1 DEF TaskInv, memory, durable, Sound, Active, ProcessTracked, SlotTracked,
       MemoryTracked, HoldsLock, Up
  <2>4. QED
    BY <2>2, <2>3 DEF TaskInv
<1>4. QED
  BY <1>2, <1>3

\* A request that changes the document of a task that has no slot, or only
\* what no invariant reads.
LEMMA SaveKeeps ==
    ASSUME Inv, NEW t \in Tasks, NEW r \in TaskRecords, NEW o \in Outcomes,
           SaveTask(t, r, o), AfterWrite(o, running, process), Up, ~fault,
           phase' = phase, boot' = boot, damage' = damage, descriptor' = descriptor,
           Sound(r), mem[t].state # "blocked", r.attempts = mem[t].attempts,
           Active(r) <=> Active(mem[t]),
           Active(r) => r.desired = mem[t].desired,
           \A u \in Tasks \ {t} : intent'[u] = intent[u],
           intent'[t] \in {"pause", "cancel"} =>
             intent'[t] = intent[t] /\ r.desired = mem[t].desired
    PROVE  \A u \in Tasks : TaskInv(u)'
<1>1. /\ TypeOK /\ TaskInv(t)
      /\ running \in [Tasks -> Executions] /\ process \in [Tasks -> Processes]
  BY DEF Inv, TypeOK
<1>2. running[t].pc # "none" => Active(mem[t])
  BY <1>1 DEF TaskInv, SlotTracked
<1>3. TaskInv(t)'
  BY <1>1, <1>2, DocumentWritten
<1>4. ASSUME NEW u \in Tasks \ {t} PROVE TaskInv(u)'
  <2>1. Calm(u)
    BY <1>1, OthersCalm
  <2>2. QED
    BY <1>1, <2>1, CalmKeeps DEF Inv
<1>5. QED
  BY <1>3, <1>4

\* The document "retry" starts from.
LEMMA ResetFields ==
    ASSUME NEW t \in Tasks, mem[t] \in TaskRecords
    PROVE  /\ [mem[t] EXCEPT !.fails = 0, !.next = FALSE] \in TaskRecords
           /\ [mem[t] EXCEPT !.fails = 0, !.next = FALSE].fails = 0
           /\ [mem[t] EXCEPT !.fails = 0, !.next = FALSE].attempts = mem[t].attempts
           /\ [mem[t] EXCEPT !.fails = 0, !.next = FALSE].open = mem[t].open
  BY DEF TaskRecords

LEMMA RequestKeeps ==
    ASSUME Inv, NEW t \in Tasks, Request(t)
    PROVE  \A u \in Tasks : TaskInv(u)'
<1>1. TypeOK /\ TaskInv(t) /\ mem[t] \in TaskRecords
  <2>1. TypeOK /\ TaskInv(t)
    BY DEF Inv
  <2>2. QED
    BY <2>1 DEF TypeOK
<1>2. CASE PauseTask(t)
  <2>1. CASE Halt(t, "pause", ActiveStates \ {"pausing"}, "pausing")
    <3>1. ActiveStates \cap {"failed", "needs_review", "cancelled"} = {}
      BY DEF ActiveStates
    <3>2. QED
      BY <2>1, <3>1, HaltKeeps
  <2>2. CASE Halt(t, "pause", {"queued", "retry_wait"}, "paused")
    <3>1. {"queued", "retry_wait"} \cap (ActiveStates \cup {"blocked"}) = {}
      BY DEF ActiveStates
    <3>2. QED
      BY <2>2, <3>1, HaltKeeps
  <2>3. CASE Repeated(t, "pause", {"paused", "pausing"})
    BY <2>3, RepeatedKeeps
  <2>4. QED
    BY <1>2, <2>1, <2>2, <2>3 DEF PauseTask
<1>3. CASE CancelTask(t)
  <2>1. CASE Halt(t, "cancel", ActiveStates \ {"cancelling"}, "cancelling")
    BY <2>1, HaltKeeps
  <2>2. CASE Halt(t, "cancel", {"queued", "retry_wait", "paused", "failed",
                          "needs_review"}, "cancelled")
    <3>1. {"queued", "retry_wait", "paused", "failed", "needs_review"}
            \cap (ActiveStates \cup {"blocked"}) = {}
      BY DEF ActiveStates
    <3>2. QED
      BY <2>2, <3>1, HaltKeeps
  <2>3. CASE Repeated(t, "cancel", {"cancelled", "cancelling"})
    BY <2>3, RepeatedKeeps
  <2>4. QED
    BY <1>3, <2>1, <2>2, <2>3 DEF CancelTask
<1>4. ASSUME NEW from, NEW q \in TaskRecords, Requeue(t, from, q),
             from \subseteq {"paused", "failed", "cancelled", "needs_review"},
             q.attempts = mem[t].attempts, q.open = mem[t].open, q.fails < RetryLimit
      PROVE  \A u \in Tasks : TaskInv(u)'
  <2> DEFINE r == Queued(q, requeues + 1)
  <2>1. requeues + 1 \in Nat
    BY <1>1 DEF TypeOK
  <2>2. /\ r \in TaskRecords /\ r.state = "queued" /\ r.attempts = mem[t].attempts
        /\ r.open = mem[t].open /\ r.fails < RetryLimit
    BY <1>4, <2>1, QueuedFields
  <2>3. PICK o \in Outcomes :
          SaveTask(t, r, o) /\ AfterWrite(o, running, process) /\ Answered(t, "run", o)
    BY <1>4 DEF Requeue
  <2>4. /\ Up /\ ~fault /\ mem[t].state \in from
        /\ phase' = phase /\ boot' = boot /\ damage' = damage /\ descriptor' = descriptor
    BY <1>4 DEF Requeue, Writable, Up
  <2>5. ~Active(mem[t]) /\ mem[t].state # "blocked" /\ ~mem[t].open
    BY <1>1, <1>4, <2>4 DEF TaskInv, Sound, Active, ActiveStates
  <2> HIDE DEF r
  <2>6. Sound(r) /\ ~Active(r)
    BY <2>2, <2>5 DEF Sound, Active, ActiveStates
  <2>7. /\ \A u \in Tasks \ {t} : intent'[u] = intent[u]
        /\ intent'[t] \notin {"pause", "cancel"}
    BY <1>1, <2>3 DEF Answered, TypeOK
  <2>8. QED
    BY <2>2, <2>3, <2>4, <2>5, <2>6, <2>7, SaveKeeps
<1>5. CASE ResumeTask(t)
  <2>1. mem[t].state = "paused"
    BY <1>5 DEF ResumeTask, Requeue
  <2>2. mem[t].fails < RetryLimit
    BY <1>1, <2>1 DEF TaskInv, Sound
  <2>3. QED
    BY <1>1, <1>4, <1>5, <2>2 DEF ResumeTask
<1>6. CASE RetryTask(t)
  <2> DEFINE q == [mem[t] EXCEPT !.fails = 0, !.next = FALSE]
  <2>1. /\ q \in TaskRecords /\ q.attempts = mem[t].attempts /\ q.open = mem[t].open
        /\ q.fails = 0
    BY <1>1, ResetFields
  <2>2. 0 < RetryLimit
    BY SchedulerAssumption
  <2>3. Requeue(t, {"failed", "cancelled", "needs_review"}, q)
    BY <1>6 DEF RetryTask
  <2> HIDE DEF q
  <2>4. QED
    BY <1>4, <2>1, <2>2, <2>3
<1>7. CASE Priority(t)
  <2>1. PICK n \in Priorities, o \in Outcomes :
          SaveTask(t, [mem[t] EXCEPT !.prio = n], o) /\ AfterWrite(o, running, process)
    BY <1>7 DEF Priority
  <2> DEFINE r == [mem[t] EXCEPT !.prio = n]
  <2>2. n \in Int
    BY SchedulerAssumption
  <2>3. /\ r \in TaskRecords /\ r.state = mem[t].state /\ r.desired = mem[t].desired
        /\ r.attempts = mem[t].attempts /\ r.current = mem[t].current
        /\ r.open = mem[t].open /\ r.fails = mem[t].fails
    BY <1>1, <2>2 DEF TaskRecords
  <2>4. /\ Up /\ ~fault /\ mem[t].state # "blocked" /\ intent' = intent
        /\ phase' = phase /\ boot' = boot /\ damage' = damage /\ descriptor' = descriptor
    BY <1>7 DEF Priority, Writable, Up
  <2> HIDE DEF r
  <2>5. Sound(r) /\ (Active(r) <=> Active(mem[t]))
    BY <1>1, <2>3 DEF TaskInv, Sound, Active
  <2>6. QED
    BY <2>1, <2>3, <2>4, <2>5, SaveKeeps DEF r
<1>8. QED
  BY <1>2, <1>3, <1>5, <1>6, <1>7 DEF Request

------------------------------------------------------------------------------
(***************************************************************************)
(* Dispatch.                                                               *)
(***************************************************************************)

\* What dispatch saves, and what it may assume of the task it selected: no
\* slot, no process, an intent to run.
LEMMA PreparedFields ==
    ASSUME NEW t \in Tasks, mem[t] \in TaskRecords
    PROVE  /\ Prepared(t) \in TaskRecords
           /\ Prepared(t).state = "starting" /\ Prepared(t).desired = mem[t].desired
           /\ Prepared(t).open = TRUE /\ Prepared(t).fails = mem[t].fails
           /\ Prepared(t).attempts = NextAttempt(t)
           /\ Prepared(t).current = NextAttempt(t)
           /\ NextAttempt(t) \in Nat /\ NextAttempt(t) > 0
<1>1. NextAttempt(t) \in Nat /\ NextAttempt(t) > 0
  BY CounterTypes DEF NextAttempt
<1>2. Prepared(t) \in TaskRecords
  BY RecordTypes
<1>3. QED
  BY <1>1, <1>2 DEF Prepared, TaskRecords

LEMMA BlockedFields ==
    ASSUME NEW t \in Tasks, mem[t] \in TaskRecords
    PROVE  LET r == [mem[t] EXCEPT !.state = "blocked"]
           IN  /\ r \in TaskRecords /\ r.state = "blocked" /\ r.desired = mem[t].desired
               /\ r.open = mem[t].open /\ r.attempts = mem[t].attempts
<1>1. [mem[t] EXCEPT !.state = "blocked"] \in TaskRecords
  BY RecordTypes
<1>2. QED
  BY <1>1 DEF TaskRecords

LEMMA SelectedFacts ==
    ASSUME Inv, NEW t \in Tasks, Selected(t)
    PROVE  /\ TypeOK /\ TaskInv(t) /\ mem[t] \in TaskRecords
           /\ phase = "serving" /\ Up /\ ~fault
           /\ mem[t].state \in {"queued", "retry_wait"}
           /\ mem[t].desired = "run" /\ ~mem[t].open /\ ~Active(mem[t])
           /\ mem[t].fails < RetryLimit
           /\ disk[t] = mem[t] /\ damage[t] # "doc"
           /\ running[t].pc = "none" /\ ~HoldsLock(t)
           /\ intent[t] \notin {"pause", "cancel"}
<1>1. TypeOK /\ TaskInv(t)
  BY DEF Inv
<1>2. mem[t] \in TaskRecords
  BY <1>1 DEF TypeOK
<1>3. /\ phase = "serving" /\ Up /\ ~fault
      /\ mem[t].state \in {"queued", "retry_wait"} /\ mem[t].desired = "run"
  BY DEF Selected, Writable, Up, Eligible
<1>4. ~Active(mem[t])
  BY <1>3 DEF Active, ActiveStates
<1>5. ~mem[t].open /\ mem[t].fails < RetryLimit
  BY <1>1, <1>3, <1>4 DEF TaskInv, Sound
<1>6. disk[t] = mem[t] /\ damage[t] # "doc"
  BY <1>1, <1>3 DEF TaskInv, MemoryTracked
<1>7. running[t].pc = "none"
  BY <1>1, <1>4 DEF TaskInv, SlotTracked
<1>8. ~HoldsLock(t)
  BY <1>1, <1>3, <1>7 DEF TaskInv, ProcessTracked
<1>9. intent[t] \notin {"pause", "cancel"}
  BY <1>1, <1>3 DEF TaskInv, IntentKept
<1>10. QED
  BY <1>1, <1>2, <1>3, <1>4, <1>5, <1>6, <1>7, <1>8, <1>9

LEMMA DispatchKeeps ==
    ASSUME Inv, NEW t \in Tasks, Dispatch(t)
    PROVE  \A u \in Tasks : TaskInv(u)'
<1>1. Selected(t)
  BY DEF Dispatch
<1>2. /\ TypeOK /\ TaskInv(t) /\ mem[t] \in TaskRecords
      /\ phase = "serving" /\ Up /\ ~fault /\ damage[t] # "doc"
      /\ mem[t].desired = "run" /\ mem[t].fails < RetryLimit
      /\ ~HoldsLock(t) /\ intent[t] \notin {"pause", "cancel"}
  BY <1>1, SelectedFacts
<1>3. /\ UNCHANGED <<phase, fault, boot, damage, process, intent>>
      /\ SaveTask(t, Prepared(t), "ok")
      /\ descriptor' = Described(t)
      /\ running' = [running EXCEPT ![t] =
            [NoExecution EXCEPT !.pc = "prepared", !.attempt = NextAttempt(t)]]
  BY DEF Dispatch
<1>4. \A u \in Tasks :
        /\ mem'[u] = IF u = t THEN Prepared(t) ELSE mem[u]
        /\ disk'[u] = IF u = t THEN Prepared(t) ELSE disk[u]
  BY <1>2, <1>3, SaveTaskEffect DEF Outcomes
<1>5. \A u \in Tasks \ {t} : running'[u] = running[u] /\ descriptor'[u] = descriptor[u]
  BY <1>2, <1>3 DEF TypeOK, Described
<1>6. /\ running'[t].pc = "prepared" /\ running'[t].attempt = NextAttempt(t)
      /\ running'[t].stop = "none" /\ descriptor'[t] = NextAttempt(t)
  BY <1>2, <1>3 DEF TypeOK, Described, NoExecution
<1>7. /\ Prepared(t).state = "starting" /\ Prepared(t).desired = mem[t].desired
      /\ Prepared(t).open = TRUE /\ Prepared(t).fails = mem[t].fails
      /\ Prepared(t).attempts = NextAttempt(t)
      /\ Prepared(t).current = NextAttempt(t)
      /\ NextAttempt(t) > 0
  BY <1>2, PreparedFields
<1>8. TaskInv(t)'
  <2>1. Sound(mem[t])' /\ Sound(disk[t])' /\ Active(mem[t])'
    BY <1>2, <1>4, <1>7 DEF Sound, Active, ActiveStates
  <2>2. ProcessTracked(t)'
    BY <1>2, <1>3 DEF ProcessTracked, HoldsLock
  <2>3. SlotTracked(t)'
    BY <1>2, <1>3, <1>4, <1>6, <1>7, <2>1 DEF SlotTracked, Up
  <2>4. MemoryTracked(t)' /\ IntentKept(t)'
    BY <1>2, <1>3, <1>4 DEF MemoryTracked, IntentKept
  <2>5. QED
    BY <2>1, <2>2, <2>3, <2>4 DEF TaskInv
<1>9. ASSUME NEW u \in Tasks \ {t} PROVE TaskInv(u)'
  <2>1. Calm(u)
    BY <1>2, <1>3, <1>4, <1>5 DEF Calm, HoldsLock, Up
  <2>2. QED
    BY <1>2, <2>1, CalmKeeps DEF Inv
<1>10. QED
  BY <1>8, <1>9

LEMMA DispatchFailsKeeps ==
    ASSUME Inv, NEW t \in Tasks, DispatchFails(t)
    PROVE  \A u \in Tasks : TaskInv(u)'
<1>1. Selected(t)
  BY DEF DispatchFails
<1>2. /\ TypeOK /\ TaskInv(t) /\ mem[t] \in TaskRecords
      /\ phase = "serving" /\ Up /\ ~fault /\ damage[t] # "doc" /\ disk[t] = mem[t]
      /\ mem[t].desired = "run" /\ mem[t].fails < RetryLimit
      /\ running[t].pc = "none" /\ ~HoldsLock(t) /\ intent[t] \notin {"pause", "cancel"}
      /\ running \in [Tasks -> Executions] /\ process \in [Tasks -> Processes]
  BY <1>1, SelectedFacts DEF TypeOK
<1>3. PICK at \in {"checkpoint", "document", "descriptor"}, o \in Outcomes \ {"ok"} :
          /\ CASE at = "checkpoint" -> UNCHANGED <<mem, disk>>
               [] at = "document" -> SaveTask(t, Prepared(t), o)
               [] at = "descriptor" -> SaveTask(t, Prepared(t), "ok")
          /\ descriptor' = IF at = "descriptor" /\ o = "applied" THEN Described(t)
                           ELSE descriptor
          /\ AfterWrite(o, running, process)
  BY DEF DispatchFails
<1>4. UNCHANGED <<phase, boot, damage, intent>>
  BY DEF DispatchFails
<1>5. \A u \in Tasks \ {t} : descriptor'[u] = descriptor[u]
  BY <1>2, <1>3 DEF TypeOK, Described
<1>6. \/ UNCHANGED <<mem, disk>>
      \/ \E w \in Outcomes : SaveTask(t, Prepared(t), w)
  BY <1>3 DEF Outcomes
<1>7. \A u \in Tasks :
        /\ fault' = TRUE
        /\ running'[u].pc = running[u].pc /\ running'[u].attempt = running[u].attempt
        /\ running'[u].stop = running[u].stop \/ running'[u].stop = "interrupted"
        /\ process'[u].st = process[u].st /\ process'[u].attempt = process[u].attempt
  BY ZenonT(60), <1>2, <1>3, AfterWriteEffect
<1>8. TaskInv(t)'
  <2>1. mem'[t] \in {mem[t], Prepared(t)} /\ disk'[t] \in {mem[t], Prepared(t)}
    BY <1>2, <1>6, SaveTaskEffect
  <2>2. Sound(Prepared(t))
    BY <1>2, PreparedFields DEF Sound, Active, ActiveStates
  <2>3. Sound(mem[t])' /\ Sound(disk[t])'
    <3>1. Sound(mem[t]) /\ Sound(disk[t])
      BY <1>2 DEF TaskInv
    <3>2. QED
      BY <1>2, <2>1, <2>2, <3>1 DEF Sound, Active
  <2>4. ProcessTracked(t)'
    BY <1>2, <1>7 DEF ProcessTracked, HoldsLock
  <2>5. SlotTracked(t)'
    BY <1>2, <1>4, <1>7 DEF SlotTracked, Up
  <2>6. MemoryTracked(t)' /\ IntentKept(t)'
    BY <1>2, <1>4, <1>7 DEF MemoryTracked, IntentKept, Up
  <2>7. QED
    BY <2>3, <2>4, <2>5, <2>6 DEF TaskInv
<1>9. ASSUME NEW u \in Tasks \ {t} PROVE TaskInv(u)'
  <2>1. mem'[u] = mem[u] /\ disk'[u] = disk[u]
    BY <1>2, <1>6, SaveTaskEffect
  <2>2. Calm(u)
    BY <1>2, <1>4, <1>5, <1>7, <2>1 DEF Calm, HoldsLock, Up
  <2>3. QED
    BY <1>2, <2>2, CalmKeeps DEF Inv
<1>10. QED
  BY <1>8, <1>9

LEMMA DispatchBlocksKeeps ==
    ASSUME Inv, NEW t \in Tasks, DispatchBlocks(t)
    PROVE  \A u \in Tasks : TaskInv(u)'
<1>1. Selected(t)
  BY DEF DispatchBlocks
<1>2. /\ TypeOK /\ TaskInv(t) /\ mem[t] \in TaskRecords
      /\ phase = "serving" /\ Up /\ ~fault /\ mem[t].state # "blocked"
      /\ ~mem[t].open /\ ~Active(mem[t]) /\ intent[t] \notin {"pause", "cancel"}
  BY <1>1, SelectedFacts
<1> DEFINE r == [mem[t] EXCEPT !.state = "blocked"]
<1>3. PICK o \in Outcomes : SaveTask(t, r, o) /\ AfterWrite(o, running, process)
  BY DEF DispatchBlocks
<1>4. /\ r \in TaskRecords /\ r.state = "blocked" /\ r.desired = mem[t].desired
      /\ r.open = mem[t].open /\ r.attempts = mem[t].attempts
  BY <1>2, BlockedFields
<1>5. UNCHANGED <<phase, boot, damage, descriptor, intent>>
  BY DEF DispatchBlocks
<1> HIDE DEF r
<1>6. Sound(r) /\ ~Active(r)
  BY <1>2, <1>4 DEF Sound, Active, ActiveStates
<1>7. QED
  BY <1>2, <1>3, <1>4, <1>5, <1>6, SaveKeeps

------------------------------------------------------------------------------
(***************************************************************************)
(* The execute goroutine.                                                  *)
(***************************************************************************)

\* However an execution of a sound task ends, the document is sound, closed
\* and not active.
LEMMA EndedFields ==
    ASSUME NEW t \in Tasks, mem[t] \in TaskRecords, Sound(mem[t]), Active(mem[t]),
           running[t].stop \in {"pause", "cancel"} => mem[t].desired = running[t].stop,
           NEW code, NEW full \in BOOLEAN, NEW bad \in BOOLEAN
    PROVE  LET r == Ended(t, code, full, bad)
           IN  /\ r \in TaskRecords /\ ~r.open /\ ~Active(r) /\ r.state # "blocked"
               /\ r.desired = mem[t].desired /\ r.attempts = mem[t].attempts
               /\ Sound(r)
<1> DEFINE done == [mem[t] EXCEPT !.current = 0, !.open = FALSE]
           failed == [done EXCEPT !.fails = @ + 1]
           r == Ended(t, code, full, bad)
<1>1. /\ done \in TaskRecords /\ ~done.open /\ done.desired = mem[t].desired
      /\ done.attempts = mem[t].attempts /\ done.fails = mem[t].fails
  BY DEF TaskRecords
<1>2. mem[t].fails < RetryLimit
  BY DEF Sound, Active, ActiveStates
<1>3. /\ failed \in TaskRecords /\ ~failed.open /\ failed.desired = mem[t].desired
      /\ failed.attempts = mem[t].attempts
  <2> HIDE DEF done
  <2>1. done.fails + 1 \in Nat
    BY <1>1, CounterTypes
  <2>2. QED
    BY <1>1, <2>1 DEF TaskRecords
<1> HIDE DEF done, failed
<1>4. \/ r = [done EXCEPT !.state = "succeeded"]
      \/ r = [done EXCEPT !.state = "paused"] /\ mem[t].desired = "pause"
      \/ r = [done EXCEPT !.state = "cancelled"] /\ mem[t].desired = "cancel"
      \/ r = [done EXCEPT !.state = "queued"]
      \/ r = [done EXCEPT !.state = "needs_review"]
      \/ r = [failed EXCEPT !.state = "retry_wait", !.next = TRUE]
         /\ failed.fails < RetryLimit
      \/ r = [failed EXCEPT !.state = "failed"]
  BY DEF Ended, MayRetry, done, failed
<1>5. r \in TaskRecords
  BY EndedType
<1> HIDE DEF r
<1>6. \/ /\ r.state \in {"succeeded", "queued", "needs_review"} /\ r.fails = mem[t].fails
      \/ /\ r.state = "paused" /\ r.fails = mem[t].fails /\ mem[t].desired = "pause"
      \/ /\ r.state = "cancelled" /\ r.fails = mem[t].fails /\ mem[t].desired = "cancel"
      \/ r.state = "retry_wait" /\ r.fails = failed.fails /\ failed.fails < RetryLimit
      \/ r.state = "failed"
  BY <1>1, <1>3, <1>4 DEF TaskRecords
<1>7. ~r.open /\ r.desired = mem[t].desired /\ r.attempts = mem[t].attempts
  BY <1>1, <1>3, <1>4 DEF TaskRecords
<1>8. ~Active(r) /\ r.state # "blocked"
  BY <1>6 DEF Active, ActiveStates
<1>9. Sound(r)
  BY <1>2, <1>6, <1>7, <1>8 DEF Sound
<1>10. QED
  BY <1>5, <1>7, <1>8, <1>9 DEF r

\* What the slot of an execution says of its task.
LEMMA SlotFacts ==
    ASSUME Inv, NEW t \in Tasks, running[t].pc # "none"
    PROVE  /\ TypeOK /\ TaskInv(t) /\ Sound(mem[t]) /\ mem[t] \in TaskRecords
           /\ Up /\ Active(mem[t]) /\ mem[t].state # "blocked" /\ damage[t] # "doc"
           /\ running[t].attempt = mem[t].attempts
           /\ descriptor[t] = mem[t].attempts /\ mem[t].attempts > 0
           /\ running[t].stop \in {"pause", "cancel"} => mem[t].desired = running[t].stop
           /\ HoldsLock(t) => running[t].pc \in {"launched", "polling"}
           /\ ~fault => disk[t] = mem[t]
<1>1. TypeOK /\ TaskInv(t) /\ Sound(mem[t])
  BY DEF Inv, TaskInv
<1>2. mem[t] \in TaskRecords
  BY <1>1 DEF TypeOK
<1>3. /\ Up /\ Active(mem[t]) /\ running[t].attempt = mem[t].attempts
      /\ descriptor[t] = mem[t].attempts
      /\ running[t].stop \in {"pause", "cancel"} => mem[t].desired = running[t].stop
  BY <1>1 DEF TaskInv, SlotTracked
<1>4. mem[t].state # "blocked" /\ mem[t].attempts > 0
  BY <1>1, <1>3 DEF Active, ActiveStates, Sound
<1>5. HoldsLock(t) => running[t].pc \in {"launched", "polling"}
  BY <1>1, <1>3, <1>4 DEF TaskInv, ProcessTracked
<1>6. damage[t] # "doc" /\ (~fault => disk[t] = mem[t])
  BY <1>1, <1>3, <1>4 DEF TaskInv, MemoryTracked, Up
<1>7. QED
  BY <1>1, <1>2, <1>3, <1>4, <1>5, <1>6

\* CheckAbort, Launch, LaunchFails and EvidenceError save nothing.
LEMMA UnsavedKeeps ==
    ASSUME Inv, NEW t \in Tasks,
           CheckAbort(t) \/ Launch(t) \/ LaunchFails(t) \/ EvidenceError(t)
    PROVE  \A u \in Tasks : TaskInv(u)'
<1>1. running[t].pc # "none"
  BY DEF CheckAbort, Launch, LaunchFails, EvidenceError
<1>2. /\ TypeOK /\ TaskInv(t) /\ Sound(mem[t]) /\ mem[t] \in TaskRecords
      /\ Up /\ Active(mem[t])
      /\ running[t].attempt = mem[t].attempts
      /\ descriptor[t] = mem[t].attempts /\ mem[t].attempts > 0
      /\ running[t].stop \in {"pause", "cancel"} => mem[t].desired = running[t].stop
      /\ HoldsLock(t) => running[t].pc \in {"launched", "polling"}
  BY <1>1, SlotFacts
<1>3. running \in [Tasks -> Executions] /\ process \in [Tasks -> Processes]
  BY <1>2 DEF TypeOK
<1>4. /\ UNCHANGED <<phase, fault, boot, descriptor, damage, intent, mem, disk>>
      /\ \A u \in Tasks \ {t} : running'[u] = running[u] /\ process'[u] = process[u]
  BY <1>3 DEF CheckAbort, Launch, LaunchFails, EvidenceError, durable
<1>5. ASSUME NEW u \in Tasks \ {t} PROVE TaskInv(u)'
  <2>1. Calm(u)
    BY <1>2, <1>4 DEF Calm, HoldsLock, Up
  <2>2. QED
    BY <1>2, <2>1, CalmKeeps DEF Inv
<1>6. Sound(mem[t])' /\ Sound(disk[t])' /\ MemoryTracked(t)' /\ IntentKept(t)'
  BY <1>2, <1>4 DEF TaskInv, Sound, Active, MemoryTracked, IntentKept, Up
<1>7. /\ running'[t].attempt = running[t].attempt /\ running'[t].pc # "none"
      /\ running'[t].stop \in {running[t].stop, "evidence_error"}
  BY <1>3 DEF CheckAbort, Launch, LaunchFails, EvidenceError, Executions
<1>8. SlotTracked(t)'
  BY <1>2, <1>4, <1>7 DEF SlotTracked, Active, Up
<1>9. ProcessTracked(t)'
  <2>1. CASE CheckAbort(t) \/ LaunchFails(t)
    <3>1. process' = process /\ running[t].pc \in {"prepared", "cleared"}
      BY <2>1 DEF CheckAbort, LaunchFails
    <3>2. ~HoldsLock(t)'
      BY <1>2, <3>1 DEF HoldsLock
    <3>3. QED
      BY <3>2 DEF ProcessTracked
  <2>2. CASE Launch(t)
    <3>1. /\ process'[t].attempt = running[t].attempt /\ running'[t].pc = "launched"
      BY <1>3, <2>2 DEF Launch, NoProcess, Executions
    <3>2. QED
      BY <1>2, <1>4, <1>7, <3>1 DEF ProcessTracked, Up
  <2>3. CASE EvidenceError(t)
    <3>1. process' = [process EXCEPT ![t] = Signal(@)]
      BY <2>3 DEF EvidenceError
    <3>2. process'[t].st = process[t].st /\ process'[t].attempt = process[t].attempt
      BY <1>3, <3>1, SignalEffect
    <3>3. running'[t].pc = running[t].pc
      BY <1>3, <2>3 DEF EvidenceError, Executions
    <3>4. QED
      BY <1>2, <1>4, <1>7, <3>2, <3>3 DEF TaskInv, ProcessTracked, HoldsLock, Up
  <2>4. QED
    BY <2>1, <2>2, <2>3
<1>10. QED
  BY <1>5, <1>6, <1>8, <1>9 DEF TaskInv

LEMMA AttachKeeps ==
    ASSUME Inv, NEW t \in Tasks, Attach(t)
    PROVE  \A u \in Tasks : TaskInv(u)'
<1> DEFINE e == [running EXCEPT ![t].pc = "polling"]
           p == IF ShouldStop(t) THEN [process EXCEPT ![t] = Signal(@)] ELSE process
           r == [mem[t] EXCEPT !.state = IF Abandoned(t) THEN @ ELSE "running"]
<1>1. running[t].pc = "launched"
  BY DEF Attach
<1>2. /\ TypeOK /\ TaskInv(t) /\ Sound(mem[t]) /\ mem[t] \in TaskRecords
      /\ Up /\ Active(mem[t]) /\ mem[t].state # "blocked"
      /\ running[t].attempt = mem[t].attempts
      /\ descriptor[t] = mem[t].attempts /\ mem[t].attempts > 0
      /\ running[t].stop \in {"pause", "cancel"} => mem[t].desired = running[t].stop
  BY <1>1, SlotFacts
<1>3. running \in [Tasks -> Executions] /\ process \in [Tasks -> Processes]
  BY <1>2 DEF TypeOK
<1>4. UNCHANGED <<phase, boot, descriptor, damage, intent>>
  BY DEF Attach
<1>5. /\ e \in [Tasks -> Executions] /\ e[t].pc = "polling"
      /\ e[t].attempt = running[t].attempt /\ e[t].stop = running[t].stop
  BY <1>3 DEF Executions
<1>6. /\ p \in [Tasks -> Processes]
      /\ p[t].st = process[t].st /\ p[t].attempt = process[t].attempt
  <2>1. /\ Signal(process[t]) \in Processes
        /\ Signal(process[t]).st = process[t].st
        /\ Signal(process[t]).attempt = process[t].attempt
    BY <1>3, SignalEffect
  <2>2. QED
    BY <1>3, <2>1
<1>7. /\ r \in TaskRecords /\ Active(r) /\ r.desired = mem[t].desired
      /\ r.attempts = mem[t].attempts /\ Sound(r)
  <2>1. "running" \in TaskStates /\ "running" \in ActiveStates
    BY DEF TaskStates, ActiveStates
  <2>2. /\ r \in TaskRecords /\ r.state \in {mem[t].state, "running"}
        /\ r.desired = mem[t].desired /\ r.attempts = mem[t].attempts
        /\ r.current = mem[t].current /\ r.open = mem[t].open /\ r.fails = mem[t].fails
    BY <1>2, <2>1 DEF TaskRecords
  <2>3. Active(r)
    BY <1>2, <2>1, <2>2 DEF Active
  <2>4. mem[t].fails < RetryLimit
    BY <1>2 DEF Sound, Active, ActiveStates
  <2>5. Sound(r)
    BY <1>2, <2>2, <2>3, <2>4 DEF Sound, Active, ActiveStates
  <2>6. QED
    BY <2>2, <2>3, <2>5
<1>8. \A u \in Tasks \ {t} : e[u] = running[u] /\ p[u] = process[u]
  BY <1>3
<1>9. \/ fault /\ running' = e /\ process' = p /\ UNCHANGED <<mem, disk, fault>>
      \/ ~fault /\ \E o \in Outcomes : SaveTask(t, r, o) /\ AfterWrite(o, e, p)
  BY DEF Attach
<1> HIDE DEF e, p, r
<1>10. CASE fault /\ running' = e /\ process' = p /\ UNCHANGED <<mem, disk, fault>>
  <2>1. ASSUME NEW u \in Tasks \ {t} PROVE TaskInv(u)'
    <3>1. Calm(u)
      BY <1>2, <1>4, <1>8, <1>10 DEF Calm, HoldsLock, Up
    <3>2. QED
      BY <1>2, <3>1, CalmKeeps DEF Inv
  <2>2. Sound(mem[t])' /\ Sound(disk[t])' /\ MemoryTracked(t)' /\ IntentKept(t)'
    BY <1>2, <1>4, <1>10 DEF TaskInv, Sound, Active, MemoryTracked, IntentKept, Up
  <2>3. ProcessTracked(t)' /\ SlotTracked(t)'
    BY <1>2, <1>4, <1>5, <1>6, <1>10 DEF TaskInv, ProcessTracked, SlotTracked, HoldsLock, Active, Up
  <2>4. QED
    BY <2>1, <2>2, <2>3 DEF TaskInv
<1>11. ASSUME ~fault, NEW o \in Outcomes, SaveTask(t, r, o), AfterWrite(o, e, p)
       PROVE  \A u \in Tasks : TaskInv(u)'
  <2>1. TaskInv(t)'
    BY <1>1, <1>2, <1>4, <1>5, <1>6, <1>7, <1>11, DocumentWritten
  <2>2. ASSUME NEW u \in Tasks \ {t} PROVE TaskInv(u)'
    <3>1. Calm(u)
      BY <1>2, <1>4, <1>5, <1>6, <1>8, <1>11, OthersCalm
    <3>2. QED
      BY <1>2, <3>1, CalmKeeps DEF Inv
  <2>3. QED
    BY <2>1, <2>2
<1>12. QED
  BY <1>9, <1>10, <1>11

LEMMA FinishKeeps ==
    ASSUME Inv, NEW t \in Tasks, Finish(t)
    PROVE  \A u \in Tasks : TaskInv(u)'
<1> DEFINE e == [running EXCEPT ![t] = NoExecution]
           p == [process EXCEPT ![t] = NoProcess]
           code == IF running[t].pc = "polling" THEN process[t].code ELSE "other"
<1>1. running[t].pc # "none"
  BY DEF Finish
<1>2. /\ TypeOK /\ TaskInv(t) /\ Sound(mem[t]) /\ mem[t] \in TaskRecords
      /\ Up /\ Active(mem[t]) /\ mem[t].state # "blocked" /\ damage[t] # "doc"
      /\ running[t].stop \in {"pause", "cancel"} => mem[t].desired = running[t].stop
      /\ ~fault => disk[t] = mem[t]
  BY <1>1, SlotFacts
<1>3. /\ e \in [Tasks -> Executions] /\ p \in [Tasks -> Processes]
      /\ e[t].pc = "none" /\ p[t].st = "none"
      /\ \A u \in Tasks \ {t} : e[u] = running[u] /\ p[u] = process[u]
  BY <1>2, EmptyTypes DEF TypeOK, NoExecution, NoProcess
<1>4. UNCHANGED <<phase, boot, descriptor, damage, intent>>
  BY DEF Finish
<1>5. \/ fault /\ running' = e /\ process' = p /\ UNCHANGED <<mem, disk, fault>>
      \/ ~fault /\ \E full, bad \in BOOLEAN, o \in Outcomes :
           SaveTask(t, Ended(t, code, full, bad), o) /\ AfterWrite(o, e, p)
  BY DEF Finish
<1> HIDE DEF e, p, code
<1>6. CASE fault /\ running' = e /\ process' = p /\ UNCHANGED <<mem, disk, fault>>
  <2>1. ASSUME NEW u \in Tasks \ {t} PROVE TaskInv(u)'
    <3>1. Calm(u)
      BY <1>2, <1>3, <1>4, <1>6 DEF Calm, HoldsLock, Up
    <3>2. QED
      BY <1>2, <3>1, CalmKeeps DEF Inv
  <2>2. Sound(mem[t])' /\ Sound(disk[t])' /\ MemoryTracked(t)' /\ IntentKept(t)'
    BY <1>2, <1>4, <1>6 DEF TaskInv, Sound, Active, MemoryTracked, IntentKept, Up
  <2>3. ProcessTracked(t)' /\ SlotTracked(t)'
    BY <1>2, <1>3, <1>4, <1>6 DEF ProcessTracked, SlotTracked, HoldsLock, Up
  <2>4. QED
    BY <2>1, <2>2, <2>3 DEF TaskInv
<1>7. ASSUME ~fault, NEW full \in BOOLEAN, NEW bad \in BOOLEAN, NEW o \in Outcomes,
             SaveTask(t, Ended(t, code, full, bad), o), AfterWrite(o, e, p)
      PROVE  \A u \in Tasks : TaskInv(u)'
  <2> DEFINE r == Ended(t, code, full, bad)
  <2>1. /\ r \in TaskRecords /\ ~r.open /\ ~Active(r) /\ r.state # "blocked"
        /\ r.desired = mem[t].desired /\ Sound(r)
    BY <1>2, EndedFields
  <2> HIDE DEF r
  <2>2. /\ mem'[t] = IF o = "ok" THEN r ELSE mem[t]
        /\ disk'[t] = IF o = "lost" THEN mem[t] ELSE r
    BY <1>2, <1>7, SaveTaskEffect DEF r
  <2>3. fault' = (o # "ok") /\ running'[t].pc = "none" /\ process'[t].st = "none"
    BY <1>2, <1>3, <1>7, AfterWriteEffect
  <2>4. Sound(mem[t])' /\ Sound(disk[t])'
    BY <1>2, <2>1, <2>2 DEF Sound, Active
  <2>5. ProcessTracked(t)' /\ SlotTracked(t)'
    BY <1>2, <1>4, <2>1, <2>2, <2>3 DEF ProcessTracked, SlotTracked, HoldsLock, Active, Up
  <2>6. MemoryTracked(t)'
    BY <1>2, <1>4, <2>2, <2>3 DEF MemoryTracked, Outcomes, Up
  <2>7. IntentKept(t)'
    BY <1>2, <1>4, <1>7, <2>1, <2>2 DEF TaskInv, IntentKept
  <2>8. ASSUME NEW u \in Tasks \ {t} PROVE TaskInv(u)'
    <3>1. Calm(u)
      BY <1>2, <1>3, <1>4, <1>7, OthersCalm
    <3>2. QED
      BY <1>2, <3>1, CalmKeeps DEF Inv
  <2>9. QED
    BY <2>4, <2>5, <2>6, <2>7, <2>8 DEF TaskInv
<1>8. QED
  BY <1>5, <1>6, <1>7

------------------------------------------------------------------------------
(***************************************************************************)
(* The end of a controller, and recovery.                                  *)
(***************************************************************************)

\* Whatever the documents on disk are then, the invariant only needs them
\* to be sound and to keep the last intent.
LEMMA GoneKeeps ==
    ASSUME TypeOK, NEW d \in [Tasks -> TaskRecords], Gone(d), disk' = d,
           UNCHANGED <<descriptor, damage, intent>>,
           NEW u \in Tasks, TaskInv(u), Sound(d[u]),
           intent[u] \in {"pause", "cancel"} =>
             d[u].desired = intent[u] \/ d[u].state = "blocked"
    PROVE  TaskInv(u)'
<1>1. /\ phase' = "down" /\ fault' = FALSE /\ mem'[u] = d[u] /\ disk'[u] = d[u]
      /\ running'[u].pc = "none"
      /\ process'[u] = IF HoldsLock(u) THEN process[u] ELSE NoProcess
  BY DEF Gone, NoExecution
<1>2. Sound(mem[u])' /\ Sound(disk[u])'
  BY <1>1 DEF Sound, Active
<1>3. ProcessTracked(u)'
  BY <1>1 DEF TaskInv, ProcessTracked, HoldsLock, NoProcess, Up
<1>4. SlotTracked(u)' /\ MemoryTracked(u)' /\ IntentKept(u)'
  BY <1>1 DEF SlotTracked, MemoryTracked, IntentKept, Up
<1>5. QED
  BY <1>2, <1>3, <1>4 DEF TaskInv

\* What recovery makes of a loaded task: nothing active, and blocked if it was
\* or if its old process may live.
LEMMA RecoveredFields ==
    ASSUME NEW t \in Tasks, mem[t] \in TaskRecords, Sound(mem[t])
    PROVE  /\ Recovered(t) \in TaskRecords
           /\ Sound(Recovered(t)) /\ ~Active(Recovered(t))
           /\ Recovered(t).desired = mem[t].desired
           /\ boot[t] = "stuck" \/ mem[t].state = "blocked" =>
                Recovered(t).state = "blocked"
<1> DEFINE r == Recovered(t)
           b == [mem[t] EXCEPT !.state = "blocked"]
<1>1. /\ b \in TaskRecords /\ b.state = "blocked" /\ b.desired = mem[t].desired
      /\ b.open = mem[t].open /\ b.attempts = mem[t].attempts
  BY BlockedFields
<1>2. Sound(b) /\ ~Active(b)
  BY <1>1 DEF Sound, Active, ActiveStates
<1> HIDE DEF b
<1>3. CASE boot[t] = "stuck" \/ (mem[t].state # "blocked" /\ mem[t].open /\ damage[t] = "ledger")
  <2>1. r = b
    BY <1>3 DEF Recovered, Reopened, b
  <2>2. QED
    BY <1>1, <1>2, <2>1
<1>4. CASE boot[t] # "stuck" /\ (mem[t].state = "blocked" \/ ~mem[t].open)
  <2>1. r = mem[t]
    BY <1>4 DEF Recovered, Reopened
  <2>2. ~Active(mem[t])
    BY <1>4 DEF Sound, Active, ActiveStates
  <2>3. QED
    BY <1>4, <2>1, <2>2
<1>5. CASE boot[t] # "stuck" /\ mem[t].state # "blocked" /\ mem[t].open /\ damage[t] # "ledger"
  <2> DEFINE rest == CASE mem[t].desired = "pause" -> "paused"
                       [] mem[t].desired = "cancel" -> "cancelled"
                       [] OTHER -> "queued"
  <2>1. r = [mem[t] EXCEPT !.state = rest, !.next = FALSE, !.current = 0, !.open = FALSE]
    BY <1>5 DEF Recovered, Reopened
  <2>2. /\ rest \in {"paused", "cancelled", "queued"}
        /\ rest = "paused" => mem[t].desired = "pause"
        /\ rest = "cancelled" => mem[t].desired = "cancel"
    OBVIOUS
  <2> HIDE DEF rest
  <2>3. r \in TaskRecords
    BY RecordTypes
  <2>4. /\ r \in TaskRecords /\ r.state = rest /\ r.desired = mem[t].desired
        /\ r.open = FALSE /\ r.fails = mem[t].fails
    BY <2>1, <2>3 DEF TaskRecords
  <2>5. Active(mem[t]) /\ mem[t].fails < RetryLimit
    BY <1>5 DEF Sound, Active, ActiveStates
  <2>6. ~Active(r) /\ r.state # "blocked"
    BY <2>2, <2>4 DEF Active, ActiveStates
  <2>7. Sound(r)
    BY <2>2, <2>4, <2>5, <2>6 DEF Sound
  <2>8. QED
    BY <1>5, <2>4, <2>6, <2>7
<1>6. QED
  BY <1>3, <1>4, <1>5

LEMMA RecoverTaskKeeps ==
    ASSUME Inv, NEW t \in Tasks, RecoverTask(t)
    PROVE  \A u \in Tasks : TaskInv(u)'
<1> DEFINE r == Recovered(t)
<1>1. /\ TypeOK /\ TaskInv(t) /\ phase = "recovering" /\ ~Up /\ ~fault
      /\ boot[t] \in {"clear", "stuck"}
      /\ UNCHANGED <<descriptor, damage, intent>>
  BY DEF Inv, RecoverTask, TaskInv, MemoryTracked, Up
<1>2. /\ mem[t] \in TaskRecords /\ boot \in [Tasks -> {"todo", "clear", "stuck", "done"}]
      /\ disk \in [Tasks -> TaskRecords]
  BY <1>1 DEF TypeOK
<1>3. /\ r \in TaskRecords /\ Sound(r) /\ ~Active(r) /\ r.desired = mem[t].desired
      /\ boot[t] = "stuck" \/ mem[t].state = "blocked" => r.state = "blocked"
  BY <1>1, <1>2, RecoveredFields DEF TaskInv
<1>4. \/ /\ r = mem[t] /\ boot[t] = "clear"
         /\ boot' = [boot EXCEPT ![t] = "done"]
         /\ UNCHANGED <<phase, fault, settings, mem, running, process, disk,
                        outages>>
      \/ /\ SaveTask(t, r, "ok")
         /\ boot' = [boot EXCEPT ![t] = "done"]
         /\ UNCHANGED <<phase, fault, settings, running, process, outages>>
      \/ disk' \in {disk, [disk EXCEPT ![t] = r]} /\ Gone(disk')
  BY DEF RecoverTask
<1> HIDE DEF r
<1>5. running[t].pc = "none"
  BY <1>1 DEF TaskInv, SlotTracked
<1>6. CASE /\ boot' = [boot EXCEPT ![t] = "done"]
           /\ UNCHANGED <<phase, fault, running, process>>
           /\ \/ r = mem[t] /\ UNCHANGED <<mem, disk>>
              \/ SaveTask(t, r, "ok")
  <2>1. \A u \in Tasks \ {t} : mem'[u] = mem[u] /\ disk'[u] = disk[u] /\ boot'[u] = boot[u]
    BY <1>1, <1>2, <1>6, SaveTaskEffect DEF Outcomes
  <2>2. ASSUME NEW u \in Tasks \ {t} PROVE TaskInv(u)'
    <3>1. Calm(u)
      BY <1>1, <1>6, <2>1 DEF Calm, HoldsLock
    <3>2. QED
      BY <1>1, <3>1, CalmKeeps DEF Inv
  <2>3. mem'[t] = r /\ disk'[t] \in {disk[t], r} /\ boot'[t] = "done"
    BY <1>1, <1>2, <1>6, SaveTaskEffect DEF Outcomes
  <2>4. damage[t] # "doc" => disk'[t] = r
    BY <1>1, <1>6, <2>3, SaveTaskEffect DEF TaskInv, MemoryTracked, Outcomes
  <2>5. Sound(mem[t])' /\ Sound(disk[t])'
    BY <1>1, <1>3, <2>3 DEF TaskInv, Sound, Active
  <2>6. ProcessTracked(t)'
    BY <1>1, <1>3, <1>6, <2>3 DEF TaskInv, ProcessTracked, HoldsLock, Up
  <2>7. SlotTracked(t)'
    BY <1>1, <1>3, <1>5, <1>6, <2>3 DEF SlotTracked, Active, Up
  <2>8. MemoryTracked(t)'
    BY <1>1, <1>3, <1>6, <2>3, <2>4 DEF TaskInv, MemoryTracked
  <2>9. IntentKept(t)'
    BY <1>1, <1>3, <2>3 DEF TaskInv, IntentKept
  <2>10. QED
    BY <2>2, <2>5, <2>6, <2>7, <2>8, <2>9 DEF TaskInv
<1>7. CASE disk' \in {disk, [disk EXCEPT ![t] = r]} /\ Gone(disk')
  <2>1. disk' \in [Tasks -> TaskRecords]
    BY <1>2, <1>3, <1>7
  <2>2. ASSUME NEW u \in Tasks PROVE TaskInv(u)'
    <3>1. TaskInv(u)
      BY DEF Inv
    <3>2. disk'[u] = disk[u] \/ (u = t /\ disk'[u] = r)
      BY <1>2, <1>7
    <3>3. Sound(disk'[u])
      BY <1>3, <3>1, <3>2 DEF TaskInv
    <3>4. intent[u] \in {"pause", "cancel"} =>
            disk'[u].desired = intent[u] \/ disk'[u].state = "blocked"
      BY <1>3, <3>1, <3>2 DEF TaskInv, IntentKept
    <3>5. QED
      BY <1>1, <1>7, <2>1, <3>1, <3>3, <3>4, GoneKeeps
  <2>3. QED
    BY <2>2
<1>8. QED
  BY <1>4, <1>6, <1>7

LEMMA RecoverKeeps ==
    ASSUME Inv, NEW t \in Tasks, Recover(t)
    PROVE  \A u \in Tasks : TaskInv(u)'
<1>1. TypeOK /\ TaskInv(t)
  BY DEF Inv
<1>2. CASE LockFree(t) \/ GiveUp(t)
  <2>1. /\ phase = "recovering" /\ ~Up /\ ~fault
        /\ UNCHANGED <<phase, fault, mem, running, disk, descriptor, damage, process, intent>>
    BY <1>1, <1>2 DEF LockFree, GiveUp, durable, TaskInv, MemoryTracked, Up
  <2>2. /\ \A u \in Tasks \ {t} : boot'[u] = boot[u]
        /\ (~HoldsLock(t) /\ boot'[t] = "clear") \/ boot'[t] = "stuck"
    BY <1>1, <1>2 DEF LockFree, GiveUp, TypeOK
  <2>3. ASSUME NEW u \in Tasks \ {t} PROVE TaskInv(u)'
    <3>1. Calm(u)
      BY <2>1, <2>2 DEF Calm, HoldsLock
    <3>2. QED
      BY <1>1, <3>1, CalmKeeps DEF Inv
  <2>4. Sound(mem[t])' /\ Sound(disk[t])' /\ MemoryTracked(t)' /\ IntentKept(t)'
    BY <1>1, <2>1 DEF TaskInv, Sound, Active, MemoryTracked, IntentKept, Up
  <2>5. ProcessTracked(t)' /\ SlotTracked(t)'
    BY <1>1, <2>1, <2>2 DEF TaskInv, ProcessTracked, SlotTracked, HoldsLock, Active, Up
  <2>6. QED
    BY <2>3, <2>4, <2>5 DEF TaskInv
<1>3. CASE Quit(t)
  <2>1. /\ phase = "recovering" /\ ~Up /\ ~fault
        /\ UNCHANGED <<phase, fault, mem, running, boot, disk, descriptor, damage, intent>>
    BY <1>1, <1>3 DEF Quit, memory, durable, TaskInv, MemoryTracked, Up
  <2>2. \A u \in Tasks :
          process'[u].st = process[u].st /\ process'[u].attempt = process[u].attempt
    BY <1>1, <1>3 DEF Quit, TypeOK, Processes
  <2>3. ASSUME NEW u \in Tasks PROVE TaskInv(u)'
    <3>1. Calm(u)
      BY <2>1, <2>2 DEF Calm, HoldsLock
    <3>2. QED
      BY <1>1, <3>1, CalmKeeps DEF Inv
  <2>4. QED
    BY <2>3
<1>4. CASE RecoverTask(t)
  BY <1>4, RecoverTaskKeeps
<1>5. QED
  BY <1>2, <1>3, <1>4 DEF Recover

------------------------------------------------------------------------------
(***************************************************************************)
(* The environment, and the controller as a whole.                         *)
(***************************************************************************)
LEMMA EnvironmentKeeps ==
    ASSUME Inv, NEW t \in Tasks, Environment(t)
    PROVE  \A u \in Tasks : TaskInv(u)'
<1>1. TypeOK /\ TaskInv(t) /\ (fault => Up)
  BY DEF Inv, TaskInv, MemoryTracked
<1>2. UNCHANGED <<phase, fault, mem, running, boot, disk, descriptor, intent>>
  BY DEF Environment, ProcessExit, Timer, Damage, memory, durable
<1>3. CASE ProcessExit(t) \/ Timer(t)
  <2>1. damage' = damage
    BY <1>3 DEF ProcessExit, Timer, durable
  <2>2. \A u \in Tasks : process'[u] = process[u]
                         \/ (u = t /\ process'[u].st \in {"none", "exited"})
    <3>1. CASE ProcessExit(t)
      <4>1. PICK c \in ExitCodes : process' = [process EXCEPT ![t] =
              IF running[t].pc \in {"launched", "polling"}
              THEN [@ EXCEPT !.st = "exited", !.code = c] ELSE NoProcess]
        BY <3>1 DEF ProcessExit
      <4>2. process \in [Tasks -> Processes]
        BY <1>1 DEF TypeOK
      <4>3. process'[t].st \in {"none", "exited"}
        BY <4>1, <4>2 DEF NoProcess, Processes
      <4>4. QED
        BY <4>1, <4>2, <4>3
    <3>2. CASE Timer(t)
      BY <3>2 DEF Timer
    <3>3. QED
      BY <1>3, <3>1, <3>2
  <2>3. ASSUME NEW u \in Tasks PROVE TaskInv(u)'
    <3>1. Calm(u)
      BY <1>1, <1>2, <2>1, <2>2 DEF Calm, HoldsLock, Up
    <3>2. QED
      BY <1>1, <3>1, CalmKeeps DEF Inv
  <2>4. QED
    BY <2>3
<1>4. CASE Damage(t)
  <2>1. /\ phase = "down" /\ process' = process
        /\ \A u \in Tasks \ {t} : damage'[u] = damage[u]
    BY <1>1, <1>4 DEF Damage, TypeOK
  <2>2. ASSUME NEW u \in Tasks \ {t} PROVE TaskInv(u)'
    <3>1. Calm(u)
      BY <1>1, <1>2, <2>1 DEF Calm, HoldsLock, Up
    <3>2. QED
      BY <1>1, <3>1, CalmKeeps DEF Inv
  <2>3. Sound(mem[t])' /\ Sound(disk[t])' /\ ProcessTracked(t)' /\ SlotTracked(t)'
    BY <1>1, <1>2, <2>1 DEF TaskInv, Sound, Active, ProcessTracked, SlotTracked, HoldsLock, Up
  <2>4. MemoryTracked(t)' /\ IntentKept(t)'
    BY <1>1, <1>2, <2>1 DEF TaskInv, MemoryTracked, IntentKept, Up
  <2>5. QED
    BY <2>2, <2>3, <2>4 DEF TaskInv
<1>5. QED
  BY <1>3, <1>4 DEF Environment

\* A request or failure of the controller itself, or a shutdown, touches no task.
LEMMA RunningKeeps ==
    ASSUME Inv, UpdateSettings \/ PersistenceFailure \/ BeginShutdown \/ Close
    PROVE  \A u \in Tasks : TaskInv(u)'
<1>1. /\ TypeOK /\ running \in [Tasks -> Executions] /\ process \in [Tasks -> Processes]
  BY DEF Inv, TypeOK
<1>2. /\ Up /\ Up'
      /\ UNCHANGED <<mem, boot, disk, descriptor, damage, intent>>
  BY DEF UpdateSettings, PersistenceFailure, BeginShutdown, Close, Writable, Up, durable
<1>3. /\ fault => fault'
      /\ \A u \in Tasks :
           /\ running'[u].pc = running[u].pc /\ running'[u].attempt = running[u].attempt
           /\ running'[u].stop = running[u].stop \/ running'[u].stop = "interrupted"
           /\ process'[u].st = process[u].st /\ process'[u].attempt = process[u].attempt
  <2>1. CASE UpdateSettings
    <3>1. PICK o \in Outcomes : AfterWrite(o, running, process)
      BY <2>1 DEF UpdateSettings
    <3>2. fault => fault'
      BY <3>1 DEF AfterWrite
    <3>3. QED
      BY <1>1, <3>1, <3>2, AfterWriteEffect
  <2>2. CASE PersistenceFailure
    <3>1. AfterWrite("lost", running, process) /\ "lost" \in Outcomes
      BY <2>2 DEF PersistenceFailure, Outcomes
    <3>2. fault => fault'
      BY <3>1 DEF AfterWrite
    <3>3. QED
      BY <1>1, <3>1, <3>2, AfterWriteEffect
  <2>3. CASE BeginShutdown \/ Close
    <3>1. /\ fault' = fault
          /\ running' = Interrupted(running) /\ process' = Stopped(running, process)
      BY <2>3 DEF BeginShutdown, Close
    <3>2. QED
      BY <1>1, <3>1, InterruptedEffect
  <2>4. QED
    BY <2>1, <2>2, <2>3
<1>4. ASSUME NEW u \in Tasks PROVE TaskInv(u)'
  <2>1. Calm(u)
    BY <1>2, <1>3 DEF Calm, HoldsLock
  <2>2. QED
    BY <1>1, <2>1, CalmKeeps DEF Inv
<1>5. QED
  BY <1>4

LEMMA ControllerKeeps ==
    ASSUME Inv, Controller
    PROVE  \A u \in Tasks : TaskInv(u)'
<1>1. TypeOK /\ \A u \in Tasks : TaskInv(u)
  BY DEF Inv
<1>2. CASE UpdateSettings \/ PersistenceFailure \/ BeginShutdown \/ Close
  BY <1>2, RunningKeeps
<1>3. CASE Exit \/ Crash
  <2>1. Gone(disk) /\ UNCHANGED <<disk, descriptor, damage, intent>>
    BY <1>3 DEF Exit, Crash, durable
  <2>2. disk \in [Tasks -> TaskRecords]
    BY <1>1 DEF TypeOK
  <2>3. ASSUME NEW u \in Tasks PROVE TaskInv(u)'
    <3>1. /\ TaskInv(u) /\ Sound(disk[u])
          /\ intent[u] \in {"pause", "cancel"} =>
               disk[u].desired = intent[u] \/ disk[u].state = "blocked"
      BY <1>1 DEF TaskInv, IntentKept
    <3>2. QED
      BY <1>1, <2>1, <2>2, <3>1, GoneKeeps
  <2>4. QED
    BY <2>3
<1>4. CASE Boot
  <2>1. /\ phase = "down" /\ phase' = "recovering" /\ ~Up /\ ~Up' /\ ~fault /\ ~fault'
        /\ UNCHANGED <<running, disk, descriptor, damage, process, intent>>
        /\ mem' = [t \in Tasks |-> IF damage[t] = "doc" THEN Stub ELSE disk[t]]
        /\ boot' = [t \in Tasks |-> IF descriptor[t] = 0 THEN "clear" ELSE "todo"]
    <3>1. phase = "down" /\ ~Up
      BY <1>4 DEF Boot, Up
    <3>2. ~fault
      BY <1>1, <3>1, SchedulerAssumption DEF TaskInv, MemoryTracked, Tasks
    <3>3. QED
      BY <1>4, <3>1, <3>2 DEF Boot, Up, durable
  <2>2. /\ Stub.state = "blocked" /\ Stub.open = FALSE /\ Sound(Stub) /\ ~Active(Stub)
    BY DEF Stub, NewTask, Sound, Active, ActiveStates
  <2>3. ASSUME NEW u \in Tasks PROVE TaskInv(u)'
    <3>1. TaskInv(u)
      BY <1>1
    <3>2. /\ mem'[u] = IF damage[u] = "doc" THEN Stub ELSE disk[u]
          /\ boot'[u] = IF descriptor[u] = 0 THEN "clear" ELSE "todo"
      BY <2>1
    <3>3. Sound(mem[u])' /\ Sound(disk[u])'
      BY <2>1, <2>2, <3>1, <3>2 DEF TaskInv, Sound, Active
    <3>4. ProcessTracked(u)'
      BY <2>1, <3>1, <3>2 DEF TaskInv, ProcessTracked, HoldsLock
    <3>5. SlotTracked(u)'
      BY <2>1, <3>1, <3>2 DEF TaskInv, SlotTracked
    <3>6. MemoryTracked(u)' /\ IntentKept(u)'
      BY <2>1, <2>2, <3>1, <3>2 DEF TaskInv, MemoryTracked, IntentKept
    <3>7. QED
      BY <3>3, <3>4, <3>5, <3>6 DEF TaskInv
  <2>4. QED
    BY <2>3
<1>5. CASE Serve
  <2>1. /\ phase = "recovering" /\ phase' = "serving" /\ ~Up /\ Up'
        /\ \A t \in Tasks : boot[t] = "done"
        /\ UNCHANGED <<fault, mem, running, boot, disk, descriptor, damage, process, intent>>
    BY <1>5 DEF Serve, durable, Up
  <2>2. ASSUME NEW u \in Tasks PROVE TaskInv(u)'
    <3>1. TaskInv(u) /\ boot[u] = "done"
      BY <1>1, <2>1
    <3>2. Sound(mem[u])' /\ Sound(disk[u])' /\ MemoryTracked(u)' /\ IntentKept(u)'
      BY <2>1, <3>1 DEF TaskInv, Sound, Active, MemoryTracked, IntentKept
    <3>3. ProcessTracked(u)'
      BY <2>1, <3>1 DEF TaskInv, ProcessTracked, HoldsLock
    <3>4. SlotTracked(u)'
      BY <2>1, <3>1 DEF TaskInv, SlotTracked, Active
    <3>5. QED
      BY <3>2, <3>3, <3>4 DEF TaskInv
  <2>3. QED
    BY <2>2
<1>6. QED
  BY <1>2, <1>3, <1>4, <1>5 DEF Controller

------------------------------------------------------------------------------
(***************************************************************************)
(* The inductive invariant, and what follows from it.                      *)
(***************************************************************************)
LEMMA InvInit == Init => Inv
<1>1. SUFFICES ASSUME Init PROVE Inv
  OBVIOUS
<1>2. TypeOK
  BY <1>1, TypeInit
<1>3. ASSUME NEW t \in Tasks PROVE TaskInv(t)
  <2>1. /\ phase = "serving" /\ fault = FALSE /\ mem[t] = NewTask /\ disk[t] = NewTask
        /\ running[t].pc = "none" /\ process[t].st = "none" /\ damage[t] = "none"
        /\ intent[t] = "run"
    BY <1>1 DEF Init, NoExecution, NoProcess
  <2>2. Sound(NewTask) /\ ~Active(NewTask)
    BY SchedulerAssumption DEF NewTask, Sound, Active, ActiveStates
  <2>3. QED
    BY <2>1, <2>2 DEF TaskInv, ProcessTracked, SlotTracked, MemoryTracked, IntentKept,
       HoldsLock, Up
<1>4. QED
  BY <1>2, <1>3 DEF Inv

LEMMA InvStep == Inv /\ [Next]_vars => Inv'
<1>1. SUFFICES ASSUME Inv, [Next]_vars PROVE Inv'
  OBVIOUS
<1>2. TypeOK'
  BY <1>1, TypeStep DEF Inv
<1>3. ASSUME NEW t \in Tasks, Loop(t) PROVE \A u \in Tasks : TaskInv(u)'
  BY <1>1, <1>3, DispatchKeeps, DispatchFailsKeeps, DispatchBlocksKeeps DEF Loop
<1>4. ASSUME NEW t \in Tasks, Execute(t) \/ EvidenceError(t)
      PROVE  \A u \in Tasks : TaskInv(u)'
  BY <1>1, <1>4, UnsavedKeeps, AttachKeeps, FinishKeeps DEF Execute
<1>5. ASSUME Next PROVE \A u \in Tasks : TaskInv(u)'
  BY <1>1, <1>3, <1>4, <1>5, NextGroups, RequestKeeps, RecoverKeeps, EnvironmentKeeps,
     ControllerKeeps
<1>6. ASSUME UNCHANGED vars PROVE \A u \in Tasks : TaskInv(u)'
  BY <1>1, <1>6 DEF vars, memory, durable, Inv, TaskInv, Sound, Active, ProcessTracked,
     SlotTracked, MemoryTracked, IntentKept, HoldsLock, Up
<1>7. QED
  BY <1>1, <1>2, <1>5, <1>6 DEF Inv

\* For any number of tasks, whatever crashes, storage failures and damage: the
\* controller, the disk and the processes agree on every task.
THEOREM InvCorrect == Spec => []Inv
<1>1. Init => Inv
  BY InvInit
<1>2. Inv /\ [Next]_vars => Inv'
  BY InvStep
<1>3. QED
  BY <1>1, <1>2, PTL DEF Spec

\* No task is ever started again beside a process an earlier controller left.
THEOREM ProcessOwned == Spec => []ProcessIsOwned
<1>1. Inv => ProcessIsOwned
  BY DEF Inv, TaskInv, ProcessTracked, ProcessIsOwned
<1>2. QED
  BY <1>1, InvCorrect, PTL

\* Recovery always finds the descriptor that names the live process.
THEOREM DescriptorFound == Spec => []DescriptorNamesProcess
<1>1. Inv => DescriptorNamesProcess
  BY DEF Inv, TaskInv, ProcessTracked, DescriptorNamesProcess
<1>2. QED
  BY <1>1, InvCorrect, PTL

\* Without a storage failure, a crash loses nothing a client has been shown.
THEOREM MemoryOnDisk == Spec => []MemoryMatchesDisk
<1>1. Inv => MemoryMatchesDisk
  BY DEF Inv, TaskInv, MemoryTracked, MemoryMatchesDisk
<1>2. QED
  BY <1>1, InvCorrect, PTL

\* A healthy controller executes exactly the tasks it shows as active.
THEOREM SlotsMatched == Spec => []SlotsMatchTasks
<1>1. Inv => SlotsMatchTasks
  BY DEF Inv, TaskInv, SlotTracked, Sound, SlotsMatchTasks
<1>2. QED
  BY <1>1, InvCorrect, PTL

\* Every document a crash can leave passes the validation of the next load.
THEOREM ReloadAccepted == Spec => []ReloadAccepts
<1>1. Inv => ReloadAccepts
  BY DEF Inv, TaskInv, Sound, ReloadAccepts
<1>2. QED
  BY <1>1, InvCorrect, PTL

\* No task that may run again has used up its retries.
THEOREM BudgetKept == Spec => []RetryBudget
<1>1. Inv => RetryBudget
  BY DEF Inv, TaskInv, Sound, RetryBudget
<1>2. QED
  BY <1>1, InvCorrect, PTL

------------------------------------------------------------------------------
(***************************************************************************)
(* Slots.                                                                  *)
(***************************************************************************)

\* The slots taken never outnumber the largest limit there may be.
SlotBound == \E max \in Limits : Cardinality(Occupied(running)) <= max

\* Slots can be counted.
LEMMA SlotsFinite ==
    ASSUME NEW e
    PROVE  /\ IsFiniteSet(Tasks) /\ Occupied(e) \subseteq Tasks
           /\ IsFiniteSet(Occupied(e)) /\ Cardinality(Occupied(e)) \in Nat
<1>1. IsFiniteSet(Tasks)
  BY SchedulerAssumption, FS_Interval DEF Tasks
<1>2. Occupied(e) \subseteq Tasks
  BY DEF Occupied
<1>3. QED
  BY <1>1, <1>2, FS_Subset, FS_CardinalityType

\* A write takes no slot that its handler does not take.
LEMMA WriteTakesNone ==
    ASSUME NEW o \in Outcomes,
           NEW e \in [Tasks -> Executions], NEW p \in [Tasks -> Processes],
           AfterWrite(o, e, p), \A u \in Tasks : e[u].pc # "none" => running[u].pc # "none"
    PROVE  \A u \in Tasks : running'[u].pc # "none" => running[u].pc # "none"
  BY AfterWriteEffect

\* Only a dispatch takes a slot.
LEMMA OnlyDispatchTakes ==
    ASSUME TypeOK, Next, \A t \in Tasks : ~Dispatch(t)
    PROVE  \A u \in Tasks : running'[u].pc # "none" => running[u].pc # "none"
<1> DEFINE Takes == \E u \in Tasks : running'[u].pc # "none" /\ running[u].pc = "none"
<1> SUFFICES ASSUME Takes PROVE FALSE
  OBVIOUS
<1>1. running \in [Tasks -> Executions] /\ process \in [Tasks -> Processes]
  BY DEF TypeOK
<1>2. ASSUME NEW o \in Outcomes, AfterWrite(o, running, process) PROVE FALSE
  BY <1>1, <1>2, WriteTakesNone
<1>3. ASSUME NEW t \in Tasks, NEW want \in {"pause", "cancel"}, NEW from, NEW st,
             Halt(t, want, from, st)
      PROVE  FALSE
  <2>1. PICK o \in Outcomes :
          AfterWrite(o, IF running[t].pc = "none" \/ o # "ok" THEN running
                        ELSE [running EXCEPT ![t].stop = want],
                     IF running[t].pc = "polling" /\ o = "ok"
                        THEN [process EXCEPT ![t] = Signal(@)] ELSE process)
    BY <1>3 DEF Halt
  <2> DEFINE e == IF running[t].pc = "none" \/ o # "ok" THEN running
                  ELSE [running EXCEPT ![t].stop = want]
             p == IF running[t].pc = "polling" /\ o = "ok"
                  THEN [process EXCEPT ![t] = Signal(@)] ELSE process
  <2>2. e \in [Tasks -> Executions] /\ \A u \in Tasks : e[u].pc = running[u].pc
    BY <1>1 DEF Executions
  <2>3. p \in [Tasks -> Processes]
    BY <1>1, SignalType
  <2>4. AfterWrite(o, e, p)
    BY <2>1
  <2> HIDE DEF e, p
  <2>5. QED
    BY <2>2, <2>3, <2>4, WriteTakesNone
<1>4. ASSUME NEW t \in Tasks, Request(t) PROVE FALSE
  <2>1. CASE PauseTask(t) \/ CancelTask(t)
    <3>1. (\E want \in {"pause", "cancel"} : \E from, st : Halt(t, want, from, st))
          \/ UNCHANGED running
      BY <2>1 DEF PauseTask, CancelTask, Repeated, memory
    <3>2. QED
      BY <1>3, <3>1
  <2>2. CASE ResumeTask(t) \/ RetryTask(t) \/ Priority(t)
    BY <1>2, <2>2 DEF ResumeTask, RetryTask, Requeue, Priority
  <2>3. QED
    BY <1>4, <2>1, <2>2 DEF Request
<1>5. ASSUME NEW t \in Tasks, Loop(t) PROVE FALSE
  BY <1>2, <1>5 DEF Loop, DispatchFails, DispatchBlocks
<1>6. ASSUME NEW t \in Tasks, NEW e \in [Tasks -> Executions],
             NEW p \in [Tasks -> Processes], NEW o \in Outcomes,
             running' = e \/ AfterWrite(o, e, p),
             \A u \in Tasks : e[u].pc # "none" => running[u].pc # "none"
      PROVE  FALSE
  BY <1>6, WriteTakesNone
<1>7. ASSUME NEW t \in Tasks, NEW pc \in {"aborted", "cleared", "launched", "polling"},
             running[t].pc # "none"
      PROVE  /\ [running EXCEPT ![t].pc = pc] \in [Tasks -> Executions]
             /\ \A u \in Tasks : [running EXCEPT ![t].pc = pc][u].pc # "none"
                                   => running[u].pc # "none"
  BY <1>1, <1>7 DEF Executions
<1>8. ASSUME NEW t \in Tasks, Attach(t) PROVE FALSE
  <2> DEFINE e == [running EXCEPT ![t].pc = "polling"]
             p == IF ShouldStop(t) THEN [process EXCEPT ![t] = Signal(@)] ELSE process
  <2>1. e \in [Tasks -> Executions]
        /\ \A u \in Tasks : e[u].pc # "none" => running[u].pc # "none"
    BY <1>7, <1>8 DEF Attach
  <2>2. p \in [Tasks -> Processes]
    BY <1>1, SignalType
  <2>3. "ok" \in Outcomes
    BY DEF Outcomes
  <2>4. running' = e \/ \E o \in Outcomes : AfterWrite(o, e, p)
    BY <1>8 DEF Attach
  <2> HIDE DEF e, p
  <2>5. QED
    BY <1>6, <2>1, <2>2, <2>3, <2>4
<1>9. ASSUME NEW t \in Tasks, Finish(t) PROVE FALSE
  <2> DEFINE e == [running EXCEPT ![t] = NoExecution]
             p == [process EXCEPT ![t] = NoProcess]
  <2>1. NoExecution \in Executions /\ NoExecution.pc = "none" /\ NoProcess \in Processes
    BY DEF NoExecution, Executions, NoProcess, Processes
  <2>2. e \in [Tasks -> Executions] /\ p \in [Tasks -> Processes]
        /\ \A u \in Tasks : e[u].pc # "none" => running[u].pc # "none"
    BY <1>1, <2>1
  <2>3. "ok" \in Outcomes
    BY DEF Outcomes
  <2>4. running' = e \/ \E o \in Outcomes : AfterWrite(o, e, p)
    BY <1>9 DEF Finish
  <2> HIDE DEF e, p
  <2>5. QED
    BY <1>6, <2>2, <2>3, <2>4
<1>10. ASSUME NEW t \in Tasks, Execute(t) \/ EvidenceError(t) PROVE FALSE
  <2>1. CASE CheckAbort(t) \/ Launch(t) \/ LaunchFails(t)
    BY <1>1, <2>1 DEF CheckAbort, Launch, LaunchFails, Executions
  <2>2. CASE EvidenceError(t)
    BY <1>1, <2>2 DEF EvidenceError, Executions
  <2>3. QED
    BY <1>8, <1>9, <1>10, <2>1, <2>2 DEF Execute
<1>11. ASSUME Gone(disk) \/ Gone(disk') PROVE FALSE
  BY <1>11 DEF Gone, NoExecution
<1>12. ASSUME NEW t \in Tasks, Recover(t) PROVE FALSE
  BY <1>11, <1>12 DEF Recover, LockFree, Quit, GiveUp, RecoverTask, memory
<1>13. ASSUME NEW t \in Tasks, Environment(t) PROVE FALSE
  BY <1>13 DEF Environment, ProcessExit, Timer, Damage, memory
<1>14. CASE UpdateSettings \/ PersistenceFailure
  BY <1>2, <1>14 DEF UpdateSettings, PersistenceFailure, Outcomes
<1>15. CASE BeginShutdown \/ Close
  BY <1>1, <1>15, InterruptedEffect DEF BeginShutdown, Close
<1>16. CASE Exit \/ Crash \/ Boot \/ Serve
  BY <1>11, <1>16 DEF Exit, Crash, Boot, Serve
<1>17. QED
  BY <1>4, <1>5, <1>10, <1>12, <1>13, <1>14, <1>15, <1>16 DEF Next

\* A dispatch takes one slot, and only if one is free.
LEMMA SlotBoundStep == TypeOK /\ SlotBound /\ [Next]_vars => SlotBound'
<1> SUFFICES ASSUME TypeOK, SlotBound, [Next]_vars PROVE SlotBound'
  OBVIOUS
<1>1. CASE \A u \in Tasks : running'[u].pc # "none" => running[u].pc # "none"
  <2>1. Occupied(running') \subseteq Occupied(running)
    BY <1>1 DEF Occupied
  <2>2. Cardinality(Occupied(running')) <= Cardinality(Occupied(running))
    BY <2>1, SlotsFinite, FS_Subset
  <2>3. PICK max \in Limits : Cardinality(Occupied(running)) <= max
    BY DEF SlotBound
  <2>4. max \in Nat
    BY SchedulerAssumption
  <2>5. Cardinality(Occupied(running')) <= max
    BY <2>2, <2>3, <2>4, SlotsFinite
  <2>6. QED
    BY <2>5 DEF SlotBound, Occupied
<1>2. ASSUME NEW t \in Tasks, Dispatch(t) PROVE SlotBound'
  <2>1. Cardinality(Occupied(running)) < settings.max /\ settings.max \in Limits
    BY <1>2 DEF Dispatch, Selected, SlotFree, TypeOK
  <2>2. Occupied(running') \subseteq Occupied(running) \cup {t}
    BY <1>2 DEF Dispatch, Occupied, TypeOK
  <2>3. IsFiniteSet(Occupied(running) \cup {t})
        /\ Cardinality(Occupied(running) \cup {t}) \in Nat
        /\ Cardinality(Occupied(running) \cup {t}) <= Cardinality(Occupied(running)) + 1
    <3>1. IsFiniteSet(Occupied(running)) /\ Cardinality(Occupied(running)) \in Nat
      BY SlotsFinite
    <3>2. /\ IsFiniteSet(Occupied(running) \cup {t})
          /\ \/ Cardinality(Occupied(running) \cup {t}) = Cardinality(Occupied(running))
             \/ Cardinality(Occupied(running) \cup {t}) = Cardinality(Occupied(running)) + 1
      BY <3>1, FS_AddElement
    <3>3. QED
      BY <3>1, <3>2
  <2>4. Cardinality(Occupied(running')) <= Cardinality(Occupied(running) \cup {t})
    <3> DEFINE S == Occupied(running) \cup {t}
               T == Occupied(running')
    <3>1. IsFiniteSet(S) /\ T \in SUBSET S
      BY <2>2, <2>3
    <3> HIDE DEF S, T
    <3>2. Cardinality(T) <= Cardinality(S)
      BY <3>1, FS_Subset
    <3>3. QED
      BY <3>2 DEF S, T
  <2>5. settings.max \in Nat
    <3>1. Limits \subseteq Nat
      BY SchedulerAssumption
    <3>2. QED
      BY <2>1, <3>1
  <2>6. Cardinality(Occupied(running')) <= settings.max
    BY <2>1, <2>3, <2>4, <2>5, SlotsFinite
  <2>7. QED
    BY <2>1, <2>6 DEF SlotBound, Occupied
<1>3. CASE UNCHANGED vars
  BY <1>3 DEF vars, memory, SlotBound, Occupied
<1>4. QED
  BY <1>1, <1>2, <1>3, OnlyDispatchTakes

\* The processes of tasks that are not blocked never outnumber the largest limit
\* an operator may choose: dispatch counts slots, and ProcessIsOwned gives each
\* such process one.
THEOREM LimitKept == Spec => []WithinLimit
<1>1. Init => SlotBound
  <2>1. ASSUME Init PROVE SlotBound
    <3>1. Occupied(running) = {}
      BY <2>1 DEF Init, Occupied, NoExecution
    <3>2. Cardinality(Occupied(running)) = 0
      BY <3>1, FS_EmptySet, SlotsFinite
    <3>3. PICK max \in Limits : max \in Nat
      <4>1. Limits \subseteq Nat /\ Limits # {}
        BY SchedulerAssumption
      <4>2. QED
        BY <4>1
    <3>4. QED
      BY <3>2, <3>3 DEF SlotBound
  <2>2. QED
    BY <2>1
<1>2. Inv /\ SlotBound /\ [Next]_vars => SlotBound'
  BY SlotBoundStep DEF Inv
<1>3. Inv /\ SlotBound => WithinLimit
  <2>1. ASSUME Inv, SlotBound, Up
        PROVE  \E max \in Limits :
                 Cardinality({t \in Tasks : HoldsLock(t) /\ mem[t].state # "blocked"}) <= max
    <3> DEFINE Live == {t \in Tasks : HoldsLock(t) /\ mem[t].state # "blocked"}
    <3>1. ProcessIsOwned
      BY <2>1 DEF Inv, TaskInv, ProcessTracked, ProcessIsOwned
    <3>2. Live \subseteq Occupied(running)
      BY <2>1, <3>1 DEF ProcessIsOwned, Occupied
    <3>3. IsFiniteSet(Live) /\ Cardinality(Live) \in Nat
          /\ Cardinality(Live) <= Cardinality(Occupied(running))
      BY <3>2, SlotsFinite, FS_Subset, FS_CardinalityType
    <3>4. PICK max \in Limits : Cardinality(Occupied(running)) <= max
      BY <2>1 DEF SlotBound
    <3>5. max \in Nat
      BY SchedulerAssumption
    <3> HIDE DEF Live
    <3>6. Cardinality(Live) <= max
      BY <3>3, <3>4, <3>5, SlotsFinite
    <3>7. QED
      BY <3>6 DEF Live
  <2>2. QED
    BY <2>1 DEF WithinLimit
<1>4. QED
  BY <1>1, <1>2, <1>3, InvCorrect, PTL DEF Spec

------------------------------------------------------------------------------
(***************************************************************************)
(* What a controller that has failed or is ending may still do.            *)
(***************************************************************************)

\* A faulty controller serves no request and dispatches nothing.
LEMMA OnlyWritable ==
    ASSUME NEW t \in Tasks, Request(t) \/ Loop(t) \/ EvidenceError(t) \/ UpdateSettings
    PROVE  ~fault /\ (Request(t) \/ Loop(t) \/ UpdateSettings => phase = "serving")
  BY DEF Request, PauseTask, CancelTask, Halt, Repeated, ResumeTask, RetryTask, Requeue,
     Priority, Loop, Dispatch, DispatchFails, DispatchBlocks, Selected, EvidenceError,
     UpdateSettings, Writable

\* A faulty controller saves nothing until it has been restarted (README.md:228).
THEOREM FaultStopsWrites == Spec => FaultFreezesDisk
<1>1. Inv /\ [Next]_vars =>
        [fault /\ fault' => UNCHANGED <<disk, diskSettings, descriptor>>]_vars
  <2> SUFFICES ASSUME Inv, Next, fault, fault'
      PROVE  UNCHANGED <<disk, diskSettings, descriptor>>
    OBVIOUS
  <2>1. NumTasks \in Nat \ {0} /\ 1 \in Tasks
    BY SchedulerAssumption DEF Tasks
  <2>2. Up
    BY <2>1 DEF Inv, TaskInv, MemoryTracked
  <2>3. CASE Controller
    BY <2>1, <2>2, <2>3, OnlyWritable
       DEF Controller, PersistenceFailure, BeginShutdown, Close, Exit, Crash, Boot, Serve,
           durable, Up
  <2>4. ASSUME NEW t \in Tasks, Execute(t) PROVE UNCHANGED durable
    BY <2>4 DEF Execute, CheckAbort, Launch, LaunchFails, Attach, Finish, durable
  <2>5. ASSUME NEW t \in Tasks, Recover(t) PROVE UNCHANGED durable
    BY <2>2, <2>5 DEF Recover, LockFree, Quit, GiveUp, RecoverTask, Up, durable
  <2>6. ASSUME NEW t \in Tasks, Environment(t) PROVE UNCHANGED <<disk, diskSettings, descriptor>>
    BY <2>6 DEF Environment, ProcessExit, Timer, Damage, durable
  <2>7. QED
    BY <2>3, <2>4, <2>5, <2>6, NextGroups, OnlyWritable DEF durable
<1>2. QED
  BY <1>1, InvCorrect, PTL DEF Spec, FaultFreezesDisk

\* In a shutdown an execution ends as a success, as its operator wants it, or in
\* the queue, and no failure is counted.
LEMMA EndedInShutdown ==
    ASSUME NEW t \in Tasks, mem[t] \in TaskRecords, phase = "stopping",
           NEW code, NEW full \in BOOLEAN, NEW bad \in BOOLEAN
    PROVE  /\ Ended(t, code, full, bad).fails = mem[t].fails
           /\ Ended(t, code, full, bad).state \in {"succeeded", "paused", "cancelled", "queued"}
<1> DEFINE done == [mem[t] EXCEPT !.current = 0, !.open = FALSE]
           r == Ended(t, code, full, bad)
<1>1. done \in TaskRecords /\ done.fails = mem[t].fails
  BY DEF TaskRecords
<1> HIDE DEF done
<1>2. \E s \in {"succeeded", "paused", "cancelled", "queued"} : r = [done EXCEPT !.state = s]
  BY DEF Ended, CutShort, done
<1>3. QED
  BY <1>1, <1>2 DEF TaskRecords

\* A shutdown is never recorded as a transfer failure (service.go:458).
THEOREM ShutdownIsNoFailure == Spec => StopIsNoFailure
<1> DEFINE Blameless(t) ==
        /\ mem'[t].fails = mem[t].fails
        /\ mem'[t].state # mem[t].state =>
             mem'[t].state \in {"succeeded", "paused", "cancelled", "queued"}
<1>1. Inv /\ [Next]_vars =>
        [phase = "stopping" /\ phase' = "stopping" => \A t \in Tasks : Blameless(t)]_vars
  <2> SUFFICES ASSUME Inv, Next, phase = "stopping", phase' = "stopping", NEW u \in Tasks
      PROVE  Blameless(u)
    OBVIOUS
  <2>1. TypeOK /\ \A t \in Tasks : mem[t] \in TaskRecords
    BY DEF Inv, TypeOK
  <2>2. mem' = mem => Blameless(u)
    OBVIOUS
  <2>3. CASE Controller
    BY <2>2, <2>3 DEF Controller, UpdateSettings, Writable, PersistenceFailure, BeginShutdown,
       Close, Exit, Crash, Gone, Boot, Serve
  <2>4. ASSUME NEW t \in Tasks, NEW r \in TaskRecords, NEW o \in Outcomes, SaveTask(t, r, o),
               /\ r.fails = mem[t].fails
               /\ r.state # mem[t].state =>
                    r.state \in {"succeeded", "paused", "cancelled", "queued"}
        PROVE  Blameless(u)
    <3>1. mem'[u] = mem[u] \/ (u = t /\ mem'[u] = r)
      BY <2>1, <2>4, SaveTaskEffect
    <3>2. QED
      BY <2>4, <3>1
  <2>5. ASSUME NEW t \in Tasks, Attach(t) PROVE Blameless(u)
    <3> DEFINE r == [mem[t] EXCEPT !.state = IF Abandoned(t) THEN @ ELSE "running"]
    <3>1. r \in TaskRecords /\ r.fails = mem[t].fails /\ r.state = mem[t].state
      BY <2>1 DEF Abandoned, TaskRecords
    <3>2. mem' = mem \/ \E o \in Outcomes : SaveTask(t, r, o)
      BY <2>5 DEF Attach
    <3> HIDE DEF r
    <3>3. QED
      BY <2>2, <2>4, <3>1, <3>2
  <2>6. ASSUME NEW t \in Tasks, Finish(t) PROVE Blameless(u)
    <3> DEFINE code == IF running[t].pc = "polling" THEN process[t].code ELSE "other"
    <3>1. mem' = mem \/ \E full, bad \in BOOLEAN, o \in Outcomes :
                          SaveTask(t, Ended(t, code, full, bad), o)
      BY <2>6 DEF Finish
    <3> HIDE DEF code
    <3>2. QED
      BY <2>1, <2>2, <2>4, <3>1, EndedInShutdown, EndedType
  <2>7. ASSUME NEW t \in Tasks, Execute(t) \/ EvidenceError(t) PROVE Blameless(u)
    BY <2>2, <2>5, <2>6, <2>7 DEF Execute, CheckAbort, Launch, LaunchFails, EvidenceError
  <2>8. ASSUME NEW t \in Tasks, Recover(t) \/ Environment(t) PROVE Blameless(u)
    BY <2>2, <2>8 DEF Recover, LockFree, Quit, GiveUp, RecoverTask, Environment, ProcessExit,
       Timer, Damage, memory
  <2>9. QED
    BY <2>3, <2>7, <2>8, NextGroups, OnlyWritable
<1>2. QED
  BY <1>1, InvCorrect, PTL DEF Spec, StopIsNoFailure

------------------------------------------------------------------------------
(***************************************************************************)
(* The life of a task as its saved document shows it.  Inv alone does not  *)
(* give it: a pause must be known to end paused, so what an active task is *)
(* meant for, its stop reason and what recovery will find must agree too.  *)
(***************************************************************************)
Waits == {"queued", "retry_wait"}
Runs == {"starting", "running"}
Ending(r) == r.state \in {"pausing", "cancelling"}

\* What a saved document q may turn into: the steps of TaskContract, or none.
Turn(q, r) ==
    \/ /\ r.fails = q.fails
       /\ \/ r.state = q.state
          \/ r.state = "starting"     /\ q.state \in Waits
          \/ r.state = "running"      /\ q.state \in Runs
          \/ r.state = "pausing"      /\ q.state \in Runs \cup {"cancelling"}
          \/ r.state = "cancelling"   /\ q.state \in Runs \cup {"pausing"}
          \/ r.state = "paused"       /\ q.state \in Waits \cup {"pausing"}
          \/ r.state = "cancelled"
             /\ q.state \in Waits \cup {"cancelling", "paused", "failed", "needs_review"}
          \/ r.state = "succeeded"    /\ q.state \in ActiveStates
          \/ r.state = "queued"       /\ q.state \in Runs \cup {"paused"}
          \/ r.state = "needs_review" /\ q.state \in Runs
    \/ /\ q.state \in Runs /\ r.fails = q.fails + 1
       /\ r.state = "failed" \/ (r.state = "retry_wait" /\ r.fails < RetryLimit)
    \/ /\ q.state \in {"failed", "cancelled", "needs_review"}
       /\ r.state = "queued" /\ r.fails = 0
    \/ /\ q.state \in Waits \cup ActiveStates \cup {"blocked"}
       /\ r.state = "blocked" /\ r.fails \in {q.fails, 0}

\* An active task whose operator wants it to stop is shown as stopping.
Purposeful(r) == Active(r) =>
    /\ r.desired = "pause" => r.state = "pausing"
    /\ r.desired = "cancel" => r.state = "cancelling"

\* A slot, a process or a recovery that has given up on it.
Engaged(t) ==
    \/ running[t].pc # "none" \/ HoldsLock(t)
    \/ phase = "recovering" /\ boot[t] = "stuck"

TaskMeant(t) ==
    /\ Purposeful(mem[t]) /\ Purposeful(disk[t])
    /\ running[t].pc # "none" /\ Ending(mem[t]) => running[t].stop # "none"
    /\ Engaged(t) => Active(disk[t]) \/ disk[t].state = "blocked"
    /\ phase # "down" /\ damage[t] = "doc" => mem[t].fails = 0 /\ mem[t].attempts = 0

Meant == Inv /\ \A t \in Tasks : TaskMeant(t)

\* A process is only ever started for an execution that was cleared to.
Started(u) ==
    running'[u].pc \in {"launched", "polling"} =>
        running[u].pc \in {"cleared", "launched", "polling"}

\* One document makes one turn, and an attempt is prepared only for a task whose
\* operator has not been promised that it stays where it is.
OneTurn(t) ==
    /\ \A u \in Tasks : Started(u)
    /\ \A u \in Tasks \ {t} : disk'[u] = disk[u]
    /\ Turn(disk[t], disk'[t])
    /\ intent[t] \in {"pause", "cancel"} => disk'[t].attempts <= disk[t].attempts

\* What a step may do to a task it does not write about.
Still(u) ==
    /\ mem'[u] = mem[u] /\ disk'[u] = disk[u] /\ Started(u)
    /\ phase' # "down" => phase # "down" /\ damage'[u] = damage[u]
    /\ running'[u].pc # "none" =>
         running[u].pc # "none" /\ (running[u].stop # "none" => running'[u].stop # "none")
    /\ HoldsLock(u)' => HoldsLock(u) \/ running[u].pc # "none"
    /\ phase' = "recovering" /\ boot'[u] = "stuck" =>
         HoldsLock(u) \/ (phase = "recovering" /\ boot[u] = "stuck")

LEMMA StillKeeps ==
    ASSUME NEW u \in Tasks, TaskMeant(u), Still(u)
    PROVE  TaskMeant(u)'
<1>1. Purposeful(mem[u])' /\ Purposeful(disk[u])'
  BY DEF Still, TaskMeant, Purposeful, Active
<1>2. (running[u].pc # "none" /\ Ending(mem[u]) => running[u].stop # "none")'
  BY DEF Still, TaskMeant, Ending
<1>3. (Engaged(u) => Active(disk[u]) \/ disk[u].state = "blocked")'
  BY DEF Still, TaskMeant, Engaged, Active
<1>4. (phase # "down" /\ damage[u] = "doc" => mem[u].fails = 0 /\ mem[u].attempts = 0)'
  BY DEF Still, TaskMeant
<1>5. QED
  BY <1>1, <1>2, <1>3, <1>4 DEF TaskMeant

\* Nothing is written: no document turns.
LEMMA StillTurns ==
    ASSUME Meant, NEW t \in Tasks, \A u \in Tasks : Still(u)
    PROVE  (\A u \in Tasks : TaskMeant(u)') /\ OneTurn(t)
<1>1. \A u \in Tasks : TaskMeant(u)'
  BY StillKeeps DEF Meant
<1>2. disk'[t] = disk[t] /\ disk[t].attempts \in Nat
  BY DEF Still, Meant, Inv, TypeOK, TaskRecords
<1>3. QED
  BY <1>1, <1>2 DEF OneTurn, Turn, Still

\* While a healthy controller serves, a slot or a process means an active task.
LEMMA EngagedIsActive ==
    ASSUME Inv, NEW t \in Tasks, Up, ~fault, mem[t].state # "blocked"
    PROVE  /\ running[t].pc # "none" \/ HoldsLock(t) => Active(mem[t])
           /\ disk[t] = mem[t] /\ damage[t] # "doc"
           /\ mem[t] \in TaskRecords /\ Sound(mem[t]) /\ mem[t].attempts \in Nat
<1>1. TypeOK /\ TaskInv(t)
  BY DEF Inv
<1>2. running[t].pc # "none" \/ HoldsLock(t) => Active(mem[t])
  BY <1>1 DEF TaskInv, ProcessTracked, SlotTracked
<1>3. disk[t] = mem[t] /\ damage[t] # "doc"
  BY <1>1 DEF TaskInv, MemoryTracked, Up
<1>4. mem[t] \in TaskRecords /\ Sound(mem[t])
  BY <1>1 DEF TypeOK, TaskInv
<1>5. QED
  BY <1>2, <1>3, <1>4 DEF TaskRecords

\* A storage failure interrupts every execution.
LEMMA FailureInterrupts ==
    ASSUME NEW o \in Outcomes, NEW u \in Tasks, o # "ok",
           NEW e \in [Tasks -> Executions], NEW p \in [Tasks -> Processes],
           AfterWrite(o, e, p)
    PROVE  running'[u].pc # "none" => running'[u].stop = "interrupted"
<1>1. running'[u] = IF e[u].pc = "none" THEN e[u]
                    ELSE [e[u] EXCEPT !.stop = "interrupted"]
  BY DEF AfterWrite, Failed, Interrupted
<1>2. QED
  BY <1>1 DEF Executions

\* A handler that saves r over the document of t, and leaves the executions at
\* e and the processes at p.
LEMMA SaveTurns ==
    ASSUME Meant, NEW t \in Tasks, NEW o \in Outcomes,
           NEW r \in TaskRecords, SaveTask(t, r, o),
           NEW e \in [Tasks -> Executions], NEW p \in [Tasks -> Processes],
           AfterWrite(o, e, p), Up, ~fault, mem[t].state # "blocked",
           UNCHANGED <<phase, boot, damage>>,
           \A u \in Tasks \ {t} : e[u] = running[u] /\ p[u] = process[u],
           Turn(mem[t], r), Purposeful(r),
           intent[t] \in {"pause", "cancel"} => r.attempts = mem[t].attempts,
           e[t].pc # "none" \/ p[t].st = "running" => Active(r) \/ r.state = "blocked",
           e[t].pc # "none" => running[t].pc # "none" \/ o = "ok",
           e[t].pc \in {"launched", "polling"} =>
             running[t].pc \in {"cleared", "launched", "polling"},
           p[t].st = "running" => HoldsLock(t),
           e[t].pc # "none" /\ e[t].stop = "none" /\ o = "ok" => ~Ending(r)
    PROVE  (\A u \in Tasks : TaskMeant(u)') /\ OneTurn(t)
<1>1. /\ Inv /\ TypeOK /\ TaskMeant(t)
      /\ disk[t] = mem[t] /\ damage[t] # "doc" /\ mem[t].attempts \in Nat
  BY EngagedIsActive DEF Meant, Inv
<1>2. \A u \in Tasks :
        /\ mem'[u] = IF u = t /\ o = "ok" THEN r ELSE mem[u]
        /\ disk'[u] = IF u = t /\ o # "lost" THEN r ELSE disk[u]
  BY <1>1, SaveTaskEffect
<1>3. \A u \in Tasks :
        /\ running'[u].pc = e[u].pc
        /\ running'[u].stop = e[u].stop \/ running'[u].stop = "interrupted"
        /\ o # "ok" /\ running'[u].pc # "none" => running'[u].stop = "interrupted"
        /\ process'[u].st = p[u].st
  BY AfterWriteEffect, FailureInterrupts
<1>4. ASSUME NEW u \in Tasks \ {t} PROVE TaskMeant(u)'
  <2>1. Still(u)
    BY <1>2, <1>3 DEF Still, Started, HoldsLock, Up
  <2>2. QED
    BY <2>1, StillKeeps DEF Meant
<1>5. TaskMeant(t)'
  <2>1. Purposeful(mem[t])' /\ Purposeful(disk[t])'
    BY <1>1, <1>2 DEF TaskMeant, Purposeful, Active
  <2>2. (running[t].pc # "none" /\ Ending(mem[t]) => running[t].stop # "none")'
    BY <1>2, <1>3 DEF Ending
  <2>3. (Engaged(t) => Active(disk[t]) \/ disk[t].state = "blocked")'
    <3>1. ASSUME Engaged(t)'
          PROVE  /\ Active(r) \/ r.state = "blocked"
                 /\ o = "lost" => Active(disk[t]) \/ disk[t].state = "blocked"
      BY <1>1, <1>3, <3>1 DEF TaskMeant, Engaged, HoldsLock, Up
    <3>2. QED
      BY <1>2, <3>1 DEF Active
  <2>4. (phase # "down" /\ damage[t] = "doc" => mem[t].fails = 0 /\ mem[t].attempts = 0)'
    BY <1>1
  <2>5. QED
    BY <2>1, <2>2, <2>3, <2>4 DEF TaskMeant
<1>6. OneTurn(t)
  <2>1. disk'[t] = r \/ disk'[t] = disk[t]
    BY <1>2
  <2>2. Turn(disk[t], disk'[t])
    BY <1>1, <2>1 DEF Turn
  <2>3. \A u \in Tasks : Started(u)
    BY <1>3 DEF Started
  <2>4. QED
    BY <1>1, <1>2, <2>1, <2>2, <2>3 DEF OneTurn
<1>7. QED
  BY <1>4, <1>5, <1>6

\* The same for a handler that touches neither slot nor process.
LEMMA DocumentTurns ==
    ASSUME Meant, NEW t \in Tasks, NEW o \in Outcomes,
           NEW r \in TaskRecords, SaveTask(t, r, o),
           AfterWrite(o, running, process), Up, ~fault, mem[t].state # "blocked",
           UNCHANGED <<phase, boot, damage>>,
           Turn(mem[t], r), Purposeful(r), r.attempts = mem[t].attempts,
           Active(mem[t]) => Active(r) \/ r.state = "blocked",
           Ending(r) => Ending(mem[t])
    PROVE  (\A u \in Tasks : TaskMeant(u)') /\ OneTurn(t)
<1>1. /\ Inv /\ running \in [Tasks -> Executions] /\ process \in [Tasks -> Processes]
      /\ running[t].pc # "none" /\ Ending(mem[t]) => running[t].stop # "none"
  BY DEF Meant, Inv, TypeOK, TaskMeant
<1>2. running[t].pc # "none" \/ process[t].st = "running" => Active(r) \/ r.state = "blocked"
  BY <1>1, EngagedIsActive DEF HoldsLock
<1>3. QED
  BY <1>1, <1>2, SaveTurns DEF HoldsLock


\* The requests.
LEMMA HaltTurns ==
    ASSUME Meant, NEW t \in Tasks, NEW want \in {"pause", "cancel"},
           NEW from, NEW st, Halt(t, want, from, st),
           \/ want = "pause" /\ st = "pausing" /\ from = ActiveStates \ {"pausing"}
           \/ want = "pause" /\ st = "paused" /\ from = Waits
           \/ want = "cancel" /\ st = "cancelling" /\ from = ActiveStates \ {"cancelling"}
           \/ want = "cancel" /\ st = "cancelled"
              /\ from = Waits \cup {"paused", "failed", "needs_review"}
    PROVE  (\A u \in Tasks : TaskMeant(u)') /\ OneTurn(t)
<1> DEFINE E(o) == IF running[t].pc = "none" \/ o # "ok" THEN running
                   ELSE [running EXCEPT ![t].stop = want]
           P(o) == IF running[t].pc = "polling" /\ o = "ok"
                   THEN [process EXCEPT ![t] = Signal(@)] ELSE process
           r == Halted(t, want, st)
<1>1. PICK o \in Outcomes : SaveTask(t, r, o) /\ AfterWrite(o, E(o), P(o))
  BY DEF Halt
<1> DEFINE e == E(o) p == P(o)
<1>2. /\ Up /\ ~fault /\ mem[t].state \in from /\ UNCHANGED <<phase, boot, damage>>
      /\ mem[t].state # "blocked"
      /\ Active(mem[t]) <=> st \in {"pausing", "cancelling"}
  BY DEF Halt, Writable, Up, Active, ActiveStates, Waits
<1>3. /\ mem[t] \in TaskRecords
      /\ running[t].pc # "none" \/ HoldsLock(t) => Active(mem[t])
      /\ running \in [Tasks -> Executions] /\ process \in [Tasks -> Processes]
  <2>1. Inv /\ TypeOK
    BY DEF Meant, Inv
  <2>2. QED
    BY <1>2, <2>1, EngagedIsActive DEF TypeOK
<1>4. /\ r \in TaskRecords /\ r.state = st /\ r.desired = want
      /\ r.attempts = mem[t].attempts /\ r.fails = mem[t].fails
  <2>1. want \in Intents /\ st \in TaskStates
    BY DEF Intents, TaskStates, ActiveStates
  <2>2. r \in TaskRecords
    BY <1>3, <2>1, RecordTypes
  <2>3. QED
    BY <1>3, <2>2 DEF Halted, TaskRecords
<1>5. /\ e \in [Tasks -> Executions] /\ e[t].pc = running[t].pc
      /\ o = "ok" /\ e[t].pc # "none" => e[t].stop = want
  BY <1>3 DEF Executions
<1>6. /\ p \in [Tasks -> Processes] /\ p[t].st = process[t].st
  <2>1. Signal(process[t]) \in Processes /\ Signal(process[t]).st = process[t].st
    BY <1>3, SignalEffect
  <2>2. QED
    BY <1>3, <2>1
<1>7. \A u \in Tasks \ {t} : e[u] = running[u] /\ p[u] = process[u]
  BY <1>3
<1> HIDE DEF e, p, r
<1>8. Turn(mem[t], r)
  BY <1>2, <1>4 DEF Turn, ActiveStates, Waits, Runs
<1>9. Purposeful(r) /\ (Active(mem[t]) => Active(r))
  BY <1>2, <1>4 DEF Purposeful, Active, ActiveStates
<1>10. e[t].pc # "none" \/ p[t].st = "running" => Active(r) \/ r.state = "blocked"
  BY <1>3, <1>5, <1>6, <1>9 DEF HoldsLock
<1>11. e[t].pc # "none" /\ e[t].stop = "none" /\ o = "ok" => ~Ending(r)
  BY <1>5
<1>12. SaveTask(t, r, o) /\ AfterWrite(o, e, p)
  BY <1>1 DEF e, p, r
<1>13. /\ e[t].pc # "none" => running[t].pc # "none"
       /\ p[t].st = "running" => HoldsLock(t)
  BY <1>5, <1>6 DEF HoldsLock
<1>14. QED
  BY <1>2, <1>4, <1>5, <1>6, <1>7, <1>8, <1>9, <1>10, <1>11, <1>12, <1>13, SaveTurns

LEMMA RequeueTurns ==
    ASSUME Meant, NEW t \in Tasks, NEW from, NEW q \in TaskRecords, Requeue(t, from, q),
           \/ from = {"paused"} /\ q.fails = mem[t].fails
           \/ from = {"failed", "cancelled", "needs_review"} /\ q.fails = 0,
           q.attempts = mem[t].attempts
    PROVE  (\A u \in Tasks : TaskMeant(u)') /\ OneTurn(t)
<1> DEFINE r == Queued(q, requeues + 1)
<1>1. requeues + 1 \in Nat
  BY DEF Meant, Inv, TypeOK
<1>2. /\ r \in TaskRecords /\ r.state = "queued" /\ r.attempts = mem[t].attempts
      /\ r.fails = q.fails
  BY <1>1, QueuedFields
<1>3. PICK o \in Outcomes : SaveTask(t, r, o) /\ AfterWrite(o, running, process)
  BY DEF Requeue
<1>4. /\ Up /\ ~fault /\ mem[t].state \in from /\ UNCHANGED <<phase, boot, damage>>
  BY DEF Requeue, Writable, Up
<1> HIDE DEF r
<1>5. ~Active(mem[t]) /\ mem[t].state # "blocked"
  BY <1>4 DEF Active, ActiveStates
<1>6. Turn(mem[t], r) /\ Purposeful(r) /\ ~Ending(r)
  BY <1>2, <1>4 DEF Turn, Purposeful, Active, ActiveStates, Ending
<1>7. QED
  BY <1>2, <1>3, <1>4, <1>5, <1>6, DocumentTurns

LEMMA RequestTurns ==
    ASSUME Meant, NEW t \in Tasks, Request(t)
    PROVE  (\A u \in Tasks : TaskMeant(u)') /\ OneTurn(t)
<1>1. Inv /\ TypeOK /\ TaskMeant(t) /\ mem[t] \in TaskRecords
  BY DEF Meant, Inv, TypeOK
<1>2. ASSUME NEW want, NEW in, Repeated(t, want, in)
      PROVE  (\A u \in Tasks : TaskMeant(u)') /\ OneTurn(t)
  <2>1. \A u \in Tasks : Still(u)
    BY <1>2 DEF Repeated, memory, durable, Still, Started, HoldsLock, Writable
  <2>2. QED
    BY <2>1, StillTurns
<1>3. CASE PauseTask(t) \/ CancelTask(t)
  BY <1>2, <1>3, HaltTurns DEF PauseTask, CancelTask, Waits
<1>4. CASE ResumeTask(t)
  BY <1>1, <1>4, RequeueTurns DEF ResumeTask
<1>5. CASE RetryTask(t)
  <2> DEFINE q == [mem[t] EXCEPT !.fails = 0, !.next = FALSE]
  <2>1. q \in TaskRecords /\ q.attempts = mem[t].attempts /\ q.fails = 0
    BY <1>1, ResetFields
  <2>2. Requeue(t, {"failed", "cancelled", "needs_review"}, q)
    BY <1>5 DEF RetryTask
  <2> HIDE DEF q
  <2>3. QED
    BY <2>1, <2>2, RequeueTurns
<1>6. CASE Priority(t)
  <2>1. PICK n \in Priorities, o \in Outcomes :
          SaveTask(t, [mem[t] EXCEPT !.prio = n], o) /\ AfterWrite(o, running, process)
    BY <1>6 DEF Priority
  <2> DEFINE r == [mem[t] EXCEPT !.prio = n]
  <2>2. n \in Int
    BY SchedulerAssumption
  <2>3. /\ r \in TaskRecords /\ r.state = mem[t].state /\ r.desired = mem[t].desired
        /\ r.attempts = mem[t].attempts /\ r.fails = mem[t].fails
    BY <1>1, <2>2 DEF TaskRecords
  <2>4. /\ Up /\ ~fault /\ mem[t].state # "blocked" /\ UNCHANGED <<phase, boot, damage>>
    BY <1>6 DEF Priority, Writable, Up
  <2>5. SaveTask(t, r, o)
    BY <2>1
  <2> HIDE DEF r
  <2>6. Turn(mem[t], r) /\ Purposeful(r)
    BY <1>1, <2>3 DEF Turn, TaskMeant, Purposeful, Active
  <2>7. QED
    BY <2>1, <2>3, <2>4, <2>5, <2>6, DocumentTurns DEF Active, Ending
<1>7. QED
  BY <1>3, <1>4, <1>5, <1>6 DEF Request

\* Dispatch.
LEMMA LoopTurns ==
    ASSUME Meant, NEW t \in Tasks, Loop(t)
    PROVE  (\A u \in Tasks : TaskMeant(u)') /\ OneTurn(t)
<1>1. Selected(t)
  BY DEF Loop, Dispatch, DispatchFails, DispatchBlocks
<1>2. /\ Inv /\ TypeOK /\ mem[t] \in TaskRecords /\ phase = "serving" /\ Up /\ ~fault
      /\ mem[t].state \in Waits /\ mem[t].state # "blocked" /\ mem[t].desired = "run"
      /\ ~Active(mem[t]) /\ running[t].pc = "none" /\ ~HoldsLock(t)
      /\ intent[t] \notin {"pause", "cancel"}
      /\ running \in [Tasks -> Executions] /\ process \in [Tasks -> Processes]
  BY <1>1, SelectedFacts DEF Meant, TypeOK, Waits
<1>3. UNCHANGED <<phase, boot, damage>>
  BY DEF Loop, Dispatch, DispatchFails, DispatchBlocks
<1>4. /\ Prepared(t) \in TaskRecords /\ Prepared(t).state = "starting"
      /\ Turn(mem[t], Prepared(t)) /\ Purposeful(Prepared(t)) /\ Active(Prepared(t))
      /\ ~Ending(Prepared(t))
  BY <1>2, PreparedFields DEF Turn, Purposeful, Active, ActiveStates, Ending
<1>5. CASE Dispatch(t)
  <2> DEFINE e == [running EXCEPT ![t] =
                     [NoExecution EXCEPT !.pc = "prepared", !.attempt = NextAttempt(t)]]
  <2>1. SaveTask(t, Prepared(t), "ok") /\ "ok" \in Outcomes
    BY <1>5 DEF Dispatch, Outcomes
  <2>2. AfterWrite("ok", e, process)
    BY <1>2, <1>5 DEF Dispatch, AfterWrite, Failed, TypeOK
  <2>3. /\ e \in [Tasks -> Executions] /\ \A u \in Tasks \ {t} : e[u] = running[u]
        /\ e[t].pc = "prepared"
    <3>1. /\ [NoExecution EXCEPT !.pc = "prepared", !.attempt = NextAttempt(t)] \in Executions
          /\ [NoExecution EXCEPT !.pc = "prepared", !.attempt = NextAttempt(t)].pc = "prepared"
      BY <1>2, PreparedFields DEF NoExecution, Executions
    <3>2. QED
      BY <1>2, <3>1
  <2> HIDE DEF e
  <2>4. QED
    BY <1>2, <1>3, <1>4, <2>1, <2>2, <2>3, SaveTurns DEF HoldsLock
<1>6. CASE DispatchFails(t)
  <2>1. PICK at \in {"checkpoint", "document", "descriptor"}, o \in Outcomes \ {"ok"} :
          /\ CASE at = "checkpoint" -> UNCHANGED <<mem, disk>>
               [] at = "document" -> SaveTask(t, Prepared(t), o)
               [] at = "descriptor" -> SaveTask(t, Prepared(t), "ok")
          /\ AfterWrite(o, running, process)
    BY <1>6 DEF DispatchFails
  <2>2. \A u \in Tasks :
          /\ running'[u].pc = running[u].pc
          /\ running'[u].stop = running[u].stop \/ running'[u].stop = "interrupted"
          /\ process'[u].st = process[u].st
    BY <1>2, <2>1, AfterWriteEffect
  <2>3. \/ UNCHANGED <<mem, disk>>
        \/ \E w \in Outcomes : SaveTask(t, Prepared(t), w)
    BY <2>1 DEF Outcomes
  <2>4. /\ \A u \in Tasks \ {t} : mem'[u] = mem[u] /\ disk'[u] = disk[u]
        /\ mem'[t] \in {mem[t], Prepared(t)} /\ disk'[t] \in {disk[t], Prepared(t)}
    BY <1>2, <2>3, SaveTaskEffect
  <2>5. ASSUME NEW u \in Tasks \ {t} PROVE TaskMeant(u)'
    <3>1. Still(u)
      BY <1>2, <1>3, <2>2, <2>4 DEF Still, Started, HoldsLock
    <3>2. QED
      BY <3>1, StillKeeps DEF Meant
  <2>6. TaskMeant(t) /\ disk[t] = mem[t] /\ damage[t] # "doc"
    BY <1>2, EngagedIsActive DEF Meant
  <2>7. TaskMeant(t)'
    <3>1. Purposeful(mem[t])' /\ Purposeful(disk[t])'
      BY <1>4, <2>4, <2>6 DEF TaskMeant, Purposeful, Active
    <3>2. running'[t].pc = "none" /\ ~HoldsLock(t)' /\ phase' = "serving" /\ damage'[t] # "doc"
      BY <1>2, <1>3, <2>2, <2>6 DEF HoldsLock
    <3>3. QED
      BY <3>1, <3>2 DEF TaskMeant, Engaged
  <2>8. OneTurn(t)
    BY <1>2, <1>4, <2>2, <2>4, <2>6 DEF OneTurn, Turn, Started
  <2>9. QED
    BY <2>5, <2>7, <2>8
<1>7. CASE DispatchBlocks(t)
  <2> DEFINE r == [mem[t] EXCEPT !.state = "blocked"]
  <2>1. PICK o \in Outcomes : SaveTask(t, r, o) /\ AfterWrite(o, running, process)
    BY <1>7 DEF DispatchBlocks
  <2>2. /\ r \in TaskRecords /\ r.state = "blocked" /\ r.attempts = mem[t].attempts
        /\ r.fails = mem[t].fails
    BY <1>2, BlockedFields DEF TaskRecords
  <2> HIDE DEF r
  <2>3. Turn(mem[t], r) /\ Purposeful(r) /\ ~Ending(r)
    BY <1>2, <2>2 DEF Turn, Purposeful, Active, ActiveStates, Ending
  <2>4. QED
    BY <1>2, <1>3, <2>1, <2>2, <2>3, DocumentTurns
<1>8. QED
  BY <1>5, <1>6, <1>7 DEF Loop


\* However an execution ends, the document makes a turn: one whose operator
\* asked for a stop was shown as stopping, any other was not.
LEMMA EndedTurn ==
    ASSUME NEW t \in Tasks, mem[t] \in TaskRecords, Sound(mem[t]), Active(mem[t]),
           Purposeful(mem[t]),
           running[t].stop \in {"pause", "cancel"} => mem[t].desired = running[t].stop,
           NEW code, NEW full \in BOOLEAN, NEW bad \in BOOLEAN
    PROVE  Turn(mem[t], Ended(t, code, full, bad))
<1> DEFINE done == [mem[t] EXCEPT !.current = 0, !.open = FALSE]
           failed == [done EXCEPT !.fails = @ + 1]
           r == Ended(t, code, full, bad)
<1>1. done \in TaskRecords /\ done.fails = mem[t].fails
  BY DEF TaskRecords
<1>2. failed \in TaskRecords /\ failed.fails = mem[t].fails + 1
  <2> HIDE DEF done
  <2>1. done.fails + 1 \in Nat
    BY <1>1, CounterTypes
  <2>2. QED
    BY <1>1, <2>1 DEF TaskRecords
<1> HIDE DEF done, failed
<1>3. \/ r = [done EXCEPT !.state = "succeeded"]
      \/ r = [done EXCEPT !.state = "paused"] /\ mem[t].desired = "pause"
      \/ r = [done EXCEPT !.state = "cancelled"] /\ mem[t].desired = "cancel"
      \/ /\ mem[t].desired \notin {"pause", "cancel"}
         /\ \/ r = [done EXCEPT !.state = "queued"]
            \/ r = [done EXCEPT !.state = "needs_review"]
            \/ r = [failed EXCEPT !.state = "retry_wait", !.next = TRUE]
               /\ failed.fails < RetryLimit
            \/ r = [failed EXCEPT !.state = "failed"]
  BY DEF Ended, MayRetry, done, failed
<1> HIDE DEF r
<1>4. \/ r.state = "succeeded" /\ r.fails = mem[t].fails
      \/ r.state = "paused" /\ r.fails = mem[t].fails /\ mem[t].desired = "pause"
      \/ r.state = "cancelled" /\ r.fails = mem[t].fails /\ mem[t].desired = "cancel"
      \/ /\ mem[t].desired \notin {"pause", "cancel"}
         /\ \/ r.state \in {"queued", "needs_review"} /\ r.fails = mem[t].fails
            \/ /\ r.fails = mem[t].fails + 1
               /\ r.state = "failed" \/ (r.state = "retry_wait" /\ r.fails < RetryLimit)
  BY <1>1, <1>2, <1>3 DEF TaskRecords
<1>5. /\ mem[t].state \in ActiveStates
      /\ mem[t].desired = "pause" => mem[t].state = "pausing"
      /\ mem[t].desired = "cancel" => mem[t].state = "cancelling"
      /\ mem[t].desired \notin {"pause", "cancel"} => mem[t].state \in Runs
  BY DEF Active, ActiveStates, Purposeful, Sound, Runs
<1>6. Turn(mem[t], r)
  BY <1>4, <1>5 DEF Turn
<1>7. QED
  BY <1>6 DEF r

\* The execute goroutine.
LEMMA AttachTurns ==
    ASSUME Meant, NEW t \in Tasks, Attach(t)
    PROVE  (\A u \in Tasks : TaskMeant(u)') /\ OneTurn(t)
<1> DEFINE e == [running EXCEPT ![t].pc = "polling"]
           p == IF ShouldStop(t) THEN [process EXCEPT ![t] = Signal(@)] ELSE process
           r == [mem[t] EXCEPT !.state = IF Abandoned(t) THEN @ ELSE "running"]
<1>1. running[t].pc = "launched" /\ UNCHANGED <<phase, boot, damage>>
  BY DEF Attach
<1>2. Inv /\ TaskMeant(t)
  BY DEF Meant
<1>3. /\ TypeOK /\ mem[t] \in TaskRecords /\ Sound(mem[t]) /\ Active(mem[t]) /\ Up
      /\ mem[t].state # "blocked"
  BY <1>1, <1>2, SlotFacts
<1>4. running \in [Tasks -> Executions] /\ process \in [Tasks -> Processes]
  BY <1>3 DEF TypeOK
<1>5. e \in [Tasks -> Executions] /\ e[t].pc = "polling" /\ e[t].stop = running[t].stop
  BY <1>4 DEF Executions
<1>6. p \in [Tasks -> Processes] /\ p[t].st = process[t].st
  <2>1. Signal(process[t]) \in Processes /\ Signal(process[t]).st = process[t].st
    BY <1>4, SignalEffect
  <2>2. QED
    BY <1>4, <2>1
<1>7. \A u \in Tasks \ {t} : e[u] = running[u] /\ p[u] = process[u]
  BY <1>4
<1>8. \/ fault /\ running' = e /\ process' = p /\ UNCHANGED <<mem, disk, fault>>
      \/ ~fault /\ \E o \in Outcomes : SaveTask(t, r, o) /\ AfterWrite(o, e, p)
  BY DEF Attach
<1>9. CASE fault /\ running' = e /\ process' = p /\ UNCHANGED <<mem, disk, fault>>
  <2> HIDE DEF e, p
  <2>1. \A u \in Tasks : Still(u)
    BY <1>1, <1>3, <1>5, <1>6, <1>7, <1>9 DEF Still, Started, HoldsLock, Up
  <2>2. QED
    BY <2>1, StillTurns
<1>10. ASSUME ~fault, NEW o \in Outcomes, SaveTask(t, r, o), AfterWrite(o, e, p)
       PROVE  (\A u \in Tasks : TaskMeant(u)') /\ OneTurn(t)
  <2>1. /\ r \in TaskRecords /\ r.desired = mem[t].desired /\ r.attempts = mem[t].attempts
        /\ r.fails = mem[t].fails
        /\ r.state = IF Abandoned(t) THEN mem[t].state ELSE "running"
    BY <1>3 DEF TaskRecords, TaskStates, ActiveStates
  <2>2. /\ running[t].stop = "none" => ~Ending(mem[t])
        /\ Abandoned(t) \/ (running[t].stop = "none" /\ r.state = "running")
    BY <1>1, <1>2, <2>1 DEF TaskMeant, Abandoned
  <2> HIDE DEF e, p, r
  <2>3. Active(r) /\ (running[t].stop = "none" => ~Ending(r))
    BY <1>3, <2>1, <2>2 DEF Active, ActiveStates, Ending
  <2>4. Turn(mem[t], r) /\ Purposeful(r)
    BY <1>2, <1>3, <2>1, <2>2 DEF Turn, Purposeful, TaskMeant, Active, ActiveStates, Ending, Runs
  <2>5. p[t].st = "running" => HoldsLock(t)
    BY <1>6 DEF HoldsLock
  <2>6. QED
    BY <1>1, <1>3, <1>5, <1>6, <1>7, <1>10, <2>1, <2>3, <2>4, <2>5, SaveTurns
<1>11. QED
  BY <1>8, <1>9, <1>10

LEMMA FinishTurns ==
    ASSUME Meant, NEW t \in Tasks, Finish(t)
    PROVE  (\A u \in Tasks : TaskMeant(u)') /\ OneTurn(t)
<1> DEFINE e == [running EXCEPT ![t] = NoExecution]
           p == [process EXCEPT ![t] = NoProcess]
           code == IF running[t].pc = "polling" THEN process[t].code ELSE "other"
<1>1. running[t].pc # "none" /\ UNCHANGED <<phase, boot, damage>>
  BY DEF Finish
<1>2. Inv /\ TaskMeant(t)
  BY DEF Meant
<1>3. /\ TypeOK /\ mem[t] \in TaskRecords /\ Sound(mem[t]) /\ Active(mem[t]) /\ Up
      /\ mem[t].state # "blocked"
      /\ running[t].stop \in {"pause", "cancel"} => mem[t].desired = running[t].stop
  BY <1>1, <1>2, SlotFacts
<1>4. /\ e \in [Tasks -> Executions] /\ p \in [Tasks -> Processes]
      /\ e[t].pc = "none" /\ p[t].st = "none"
      /\ \A u \in Tasks \ {t} : e[u] = running[u] /\ p[u] = process[u]
  BY <1>3, EmptyTypes DEF TypeOK, NoExecution, NoProcess
<1>5. \/ fault /\ running' = e /\ process' = p /\ UNCHANGED <<mem, disk, fault>>
      \/ ~fault /\ \E full, bad \in BOOLEAN, o \in Outcomes :
           SaveTask(t, Ended(t, code, full, bad), o) /\ AfterWrite(o, e, p)
  BY DEF Finish
<1> HIDE DEF e, p, code
<1>6. CASE fault /\ running' = e /\ process' = p /\ UNCHANGED <<mem, disk, fault>>
  <2>1. \A u \in Tasks : Still(u)
    BY <1>1, <1>3, <1>4, <1>6 DEF Still, Started, HoldsLock, Up
  <2>2. QED
    BY <2>1, StillTurns
<1>7. ASSUME ~fault, NEW full \in BOOLEAN, NEW bad \in BOOLEAN, NEW o \in Outcomes,
             SaveTask(t, Ended(t, code, full, bad), o), AfterWrite(o, e, p)
      PROVE  (\A u \in Tasks : TaskMeant(u)') /\ OneTurn(t)
  <2> DEFINE r == Ended(t, code, full, bad)
  <2>1. r \in TaskRecords /\ ~Active(r) /\ r.attempts = mem[t].attempts
    BY <1>3, EndedFields
  <2>2. Turn(mem[t], r)
    BY <1>2, <1>3, EndedTurn DEF TaskMeant
  <2>3. SaveTask(t, r, o)
    BY <1>7
  <2> HIDE DEF r
  <2>4. Purposeful(r)
    BY <2>1 DEF Purposeful
  <2>5. QED
    BY <1>1, <1>3, <1>4, <1>7, <2>1, <2>2, <2>3, <2>4, SaveTurns
<1>8. QED
  BY <1>5, <1>6, <1>7

LEMMA ExecuteTurns ==
    ASSUME Meant, NEW t \in Tasks, Execute(t) \/ EvidenceError(t)
    PROVE  (\A u \in Tasks : TaskMeant(u)') /\ OneTurn(t)
<1>1. CASE CheckAbort(t) \/ Launch(t) \/ LaunchFails(t) \/ EvidenceError(t)
  <2>1. running \in [Tasks -> Executions] /\ process \in [Tasks -> Processes]
    BY DEF Meant, Inv, TypeOK
  <2>2. /\ UNCHANGED <<phase, boot, damage, mem, disk>> /\ Up
        /\ running[t].pc # "none"
        /\ \A u \in Tasks \ {t} : running'[u] = running[u] /\ process'[u] = process[u]
    BY <1>1, <2>1 DEF CheckAbort, Launch, LaunchFails, EvidenceError, durable
  <2>3. running'[t].stop \in {running[t].stop, "evidence_error"} /\ Started(t)
    BY <1>1, <2>1 DEF CheckAbort, Launch, LaunchFails, EvidenceError, Executions, Started
  <2>4. \A u \in Tasks : Still(u)
    BY <2>2, <2>3 DEF Still, Started, HoldsLock, Up
  <2>5. QED
    BY <2>4, StillTurns
<1>2. QED
  BY <1>1, AttachTurns, FinishTurns DEF Execute


\* Recovery.  What it gives up on was active, so blocking it is a turn; what it
\* closes ends as its operator wanted it, or in the queue.
LEMMA RecoveredTurn ==
    ASSUME NEW t \in Tasks, mem[t] \in TaskRecords, Sound(mem[t]), Purposeful(mem[t]),
           boot[t] = "stuck" => Active(mem[t]) \/ mem[t].state = "blocked"
    PROVE  /\ Turn(mem[t], Recovered(t))
           /\ Recovered(t).attempts = mem[t].attempts /\ Recovered(t).fails = mem[t].fails
<1> DEFINE r == Recovered(t)
           b == [mem[t] EXCEPT !.state = "blocked"]
           rest == CASE mem[t].desired = "pause" -> "paused"
                     [] mem[t].desired = "cancel" -> "cancelled"
                     [] OTHER -> "queued"
           c == [mem[t] EXCEPT !.state = rest, !.next = FALSE, !.current = 0, !.open = FALSE]
<1>1. /\ b.state = "blocked" /\ b.attempts = mem[t].attempts /\ b.fails = mem[t].fails
  BY BlockedFields DEF TaskRecords
<1>2. /\ c.state = rest /\ c.attempts = mem[t].attempts /\ c.fails = mem[t].fails
  BY DEF TaskRecords
<1>3. \/ rest = "paused" /\ mem[t].desired = "pause"
      \/ rest = "cancelled" /\ mem[t].desired = "cancel"
      \/ rest = "queued" /\ mem[t].desired \notin {"pause", "cancel"}
  OBVIOUS
<1>4. \/ r = mem[t]
      \/ r = b /\ (boot[t] = "stuck" \/ (mem[t].open /\ mem[t].state # "blocked"))
      \/ r = c /\ mem[t].open /\ mem[t].state # "blocked"
  BY DEF Recovered, Reopened
<1> HIDE DEF r, b, c, rest
<1>5. CASE r = mem[t]
  BY <1>5 DEF r, Turn
<1>6. mem[t].open /\ mem[t].state # "blocked" =>
        /\ mem[t].state \in ActiveStates
        /\ mem[t].desired = "pause" => mem[t].state = "pausing"
        /\ mem[t].desired = "cancel" => mem[t].state = "cancelling"
        /\ mem[t].desired \notin {"pause", "cancel"} => mem[t].state \in Runs
  BY DEF Sound, Active, ActiveStates, Purposeful, Runs
<1>7. CASE r = b /\ (boot[t] = "stuck" \/ (mem[t].open /\ mem[t].state # "blocked"))
  <2>1. mem[t].state \in ActiveStates \cup {"blocked"}
    BY <1>6, <1>7 DEF Active
  <2>2. Turn(mem[t], b)
    BY <1>1, <2>1 DEF Turn
  <2>3. QED
    BY <1>1, <1>7, <2>2 DEF r
<1>8. CASE r = c /\ mem[t].open /\ mem[t].state # "blocked"
  <2>1. Turn(mem[t], c)
    BY <1>2, <1>3, <1>6, <1>8 DEF Turn
  <2>2. QED
    BY <1>2, <1>8, <2>1 DEF r
<1>9. QED
  BY <1>4, <1>5, <1>7, <1>8

\* A controller that is gone leaves documents and processes.
LEMMA GoneMeant ==
    ASSUME NEW d \in [Tasks -> TaskRecords], Gone(d), disk' = d, NEW u \in Tasks,
           Purposeful(d[u]), HoldsLock(u) => Active(d[u]) \/ d[u].state = "blocked"
    PROVE  TaskMeant(u)' /\ Started(u)
<1>1. /\ phase' = "down" /\ mem'[u] = d[u] /\ disk'[u] = d[u] /\ running'[u].pc = "none"
      /\ process'[u] = IF HoldsLock(u) THEN process[u] ELSE NoProcess
  BY DEF Gone, NoExecution
<1>2. HoldsLock(u)' => HoldsLock(u)
  BY <1>1 DEF HoldsLock, NoProcess
<1>3. Started(u)
  BY <1>1 DEF Started
<1>4. QED
  BY <1>1, <1>2, <1>3 DEF TaskMeant, Engaged, Purposeful, Active

LEMMA RecoverTaskTurns ==
    ASSUME Meant, NEW t \in Tasks, RecoverTask(t)
    PROVE  (\A u \in Tasks : TaskMeant(u)') /\ OneTurn(t)
<1> DEFINE r == Recovered(t)
<1>1. /\ Inv /\ TypeOK /\ TaskInv(t) /\ TaskMeant(t) /\ phase = "recovering"
      /\ boot[t] \in {"clear", "stuck"} /\ damage' = damage
  BY DEF Meant, Inv, RecoverTask
<1>2. /\ mem[t] \in TaskRecords /\ disk \in [Tasks -> TaskRecords]
      /\ boot \in [Tasks -> {"todo", "clear", "stuck", "done"}]
      /\ disk[t].attempts \in Nat
  BY <1>1 DEF TypeOK, TaskRecords
<1>3. /\ Sound(mem[t]) /\ Purposeful(mem[t]) /\ running[t].pc = "none"
      /\ damage[t] # "doc" => disk[t] = mem[t]
      /\ damage[t] = "doc" =>
           mem[t].state = "blocked" /\ mem[t].fails = 0 /\ mem[t].attempts = 0
      /\ boot[t] = "stuck" => Active(disk[t]) \/ disk[t].state = "blocked"
      /\ HoldsLock(t) => boot[t] = "stuck" \/ mem[t].state = "blocked"
      /\ HoldsLock(t) => Active(disk[t]) \/ disk[t].state = "blocked"
  BY <1>1 DEF TaskInv, MemoryTracked, SlotTracked, ProcessTracked, TaskMeant, Engaged, Up
<1>4. /\ r \in TaskRecords /\ ~Active(r)
      /\ boot[t] = "stuck" \/ mem[t].state = "blocked" => r.state = "blocked"
  BY <1>2, <1>3, RecoveredFields
<1>5. /\ Turn(mem[t], r) /\ r.attempts = mem[t].attempts /\ r.fails = mem[t].fails
  BY <1>2, <1>3, RecoveredTurn
<1>6. r # mem[t] \/ boot[t] = "stuck" =>
        Turn(disk[t], r) /\ r.attempts <= disk[t].attempts
  <2>1. CASE damage[t] # "doc"
    BY <1>2, <1>3, <1>5, <2>1
  <2>2. CASE damage[t] = "doc"
    <3>1. boot[t] # "stuck" => r = mem[t]
      BY <1>3, <2>2 DEF Recovered, Reopened
    <3>2. QED
      BY <1>2, <1>3, <1>4, <1>5, <2>2, <3>1 DEF Turn, Active
  <2>3. QED
    BY <2>1, <2>2
<1>7. \/ /\ r = mem[t] /\ boot' = [boot EXCEPT ![t] = "done"]
         /\ UNCHANGED <<phase, mem, running, process, disk>>
      \/ /\ r # mem[t] \/ boot[t] = "stuck"
         /\ SaveTask(t, r, "ok") /\ boot' = [boot EXCEPT ![t] = "done"]
         /\ UNCHANGED <<phase, running, process>>
      \/ /\ r # mem[t] \/ boot[t] = "stuck"
         /\ disk' \in {disk, [disk EXCEPT ![t] = r]} /\ Gone(disk')
  BY DEF RecoverTask
<1> HIDE DEF r
<1>8. CASE r = mem[t] /\ boot' = [boot EXCEPT ![t] = "done"]
           /\ UNCHANGED <<phase, mem, running, process, disk>>
  <2>1. \A u \in Tasks : Still(u)
    BY <1>1, <1>2, <1>8 DEF Still, Started, HoldsLock
  <2>2. QED
    BY <2>1, StillTurns
<1>9. CASE (r # mem[t] \/ boot[t] = "stuck") /\ SaveTask(t, r, "ok")
           /\ boot' = [boot EXCEPT ![t] = "done"] /\ UNCHANGED <<phase, running, process>>
  <2>1. /\ \A u \in Tasks \ {t} : mem'[u] = mem[u] /\ disk'[u] = disk[u] /\ boot'[u] = boot[u]
        /\ mem'[t] = r /\ disk'[t] = r /\ boot'[t] = "done"
    BY <1>1, <1>2, <1>9, SaveTaskEffect DEF Outcomes
  <2>2. ASSUME NEW u \in Tasks \ {t} PROVE TaskMeant(u)'
    <3>1. Still(u)
      BY <1>1, <1>9, <2>1 DEF Still, Started, HoldsLock
    <3>2. QED
      BY <3>1, StillKeeps DEF Meant
  <2>3. TaskMeant(t)'
    BY <1>1, <1>3, <1>4, <1>5, <1>9, <2>1 DEF TaskMeant, Purposeful, Active, Engaged, HoldsLock
  <2>4. OneTurn(t)
    BY <1>6, <1>9, <2>1 DEF OneTurn, Started
  <2>5. QED
    BY <2>2, <2>3, <2>4
<1>10. CASE (r # mem[t] \/ boot[t] = "stuck")
            /\ disk' \in {disk, [disk EXCEPT ![t] = r]} /\ Gone(disk')
  <2>1. /\ disk' \in [Tasks -> TaskRecords] /\ disk'[t] \in {disk[t], r}
        /\ \A u \in Tasks \ {t} : disk'[u] = disk[u]
    BY <1>2, <1>4, <1>10
  <2>2. ASSUME NEW u \in Tasks PROVE TaskMeant(u)' /\ Started(u)
    <3>1. HoldsLock(u) => Active(disk[u]) \/ disk[u].state = "blocked"
      BY DEF Meant, TaskMeant, Engaged
    <3>2. Purposeful(disk[u])
      BY DEF Meant, TaskMeant
    <3>3. Purposeful(disk'[u]) /\ (HoldsLock(u) => Active(disk'[u]) \/ disk'[u].state = "blocked")
      BY <1>3, <1>4, <2>1, <3>1, <3>2 DEF Purposeful
    <3>4. QED
      BY <1>10, <2>1, <3>3, GoneMeant
  <2>3. OneTurn(t)
    BY <1>2, <1>6, <1>10, <2>1, <2>2 DEF OneTurn, Turn
  <2>4. QED
    BY <2>2, <2>3
<1>11. QED
  BY <1>7, <1>8, <1>9, <1>10

LEMMA RecoverTurns ==
    ASSUME Meant, NEW t \in Tasks, Recover(t)
    PROVE  (\A u \in Tasks : TaskMeant(u)') /\ OneTurn(t)
<1>1. TypeOK
  BY DEF Meant, Inv
<1>2. CASE LockFree(t) \/ Quit(t) \/ GiveUp(t)
  <2>1. /\ phase = "recovering" /\ UNCHANGED <<phase, mem, disk, running, damage>>
        /\ \A u \in Tasks \ {t} : boot'[u] = boot[u]
        /\ boot'[t] = boot[t] \/ boot'[t] # "stuck" \/ HoldsLock(t)
    BY <1>1, <1>2 DEF LockFree, Quit, GiveUp, TypeOK, memory, durable
  <2>2. \A u \in Tasks : process'[u].st = process[u].st
    <3>1. process' = process \/ process' = [process EXCEPT ![t].term = TRUE]
      BY <1>2 DEF LockFree, Quit, GiveUp
    <3>2. process \in [Tasks -> Processes]
      BY <1>1 DEF TypeOK
    <3>3. QED
      BY <3>1, <3>2 DEF Processes
  <2>3. \A u \in Tasks : Still(u)
    BY <2>1, <2>2 DEF Still, Started, HoldsLock
  <2>4. QED
    BY <2>3, StillTurns
<1>3. QED
  BY <1>2, RecoverTaskTurns DEF Recover

LEMMA EnvironmentTurns ==
    ASSUME Meant, NEW t \in Tasks, Environment(t)
    PROVE  (\A u \in Tasks : TaskMeant(u)') /\ OneTurn(t)
<1>1. process \in [Tasks -> Processes]
  BY DEF Meant, Inv, TypeOK
<1>2. UNCHANGED <<phase, mem, running, boot, disk>> /\ (phase = "down" \/ damage' = damage)
  BY DEF Environment, ProcessExit, Timer, Damage, memory, durable
<1>3. \A u \in Tasks : HoldsLock(u)' => HoldsLock(u)
  BY <1>1 DEF Environment, ProcessExit, Timer, Damage, HoldsLock
<1>4. \A u \in Tasks : Still(u)
  BY <1>2, <1>3 DEF Still, Started
<1>5. QED
  BY <1>4, StillTurns

LEMMA ControllerTurns ==
    ASSUME Meant, NEW t \in Tasks, Controller
    PROVE  (\A u \in Tasks : TaskMeant(u)') /\ OneTurn(t)
<1>1. /\ Inv /\ TypeOK /\ running \in [Tasks -> Executions] /\ process \in [Tasks -> Processes]
      /\ disk \in [Tasks -> TaskRecords]
  BY DEF Meant, Inv, TypeOK
<1>2. CASE UpdateSettings \/ PersistenceFailure \/ BeginShutdown \/ Close
  <2>1. /\ Up /\ Up' /\ UNCHANGED <<mem, boot, disk, damage>>
    BY <1>2 DEF UpdateSettings, PersistenceFailure, BeginShutdown, Close, Writable, Up, durable
  <2>2. \/ \E o \in Outcomes : AfterWrite(o, running, process)
        \/ running' = Interrupted(running) /\ process' = Stopped(running, process)
    BY <1>2 DEF UpdateSettings, PersistenceFailure, BeginShutdown, Close, Outcomes
  <2>3. \A u \in Tasks :
          /\ running'[u].pc = running[u].pc
          /\ running'[u].stop = running[u].stop \/ running'[u].stop = "interrupted"
          /\ process'[u].st = process[u].st
    BY <1>1, <2>2, AfterWriteEffect, InterruptedEffect
  <2>4. \A u \in Tasks : Still(u)
    BY <2>1, <2>3 DEF Still, Started, HoldsLock, Up
  <2>5. QED
    BY <2>4, StillTurns
<1>3. CASE Serve
  <2>1. \A u \in Tasks : Still(u)
    BY <1>3 DEF Serve, durable, Still, Started, HoldsLock
  <2>2. QED
    BY <2>1, StillTurns
<1>4. CASE Exit \/ Crash
  <2>1. Gone(disk) /\ disk' = disk
    BY <1>4 DEF Exit, Crash, durable
  <2>2. ASSUME NEW u \in Tasks PROVE TaskMeant(u)' /\ Started(u)
    <3>1. Purposeful(disk[u]) /\ (HoldsLock(u) => Active(disk[u]) \/ disk[u].state = "blocked")
      BY DEF Meant, TaskMeant, Engaged
    <3>2. QED
      BY <1>1, <2>1, <3>1, GoneMeant
  <2>3. disk[t].attempts \in Nat
    BY <1>1 DEF TaskRecords
  <2>4. QED
    BY <2>1, <2>2, <2>3 DEF OneTurn, Turn
<1>5. CASE Boot
  <2>1. /\ phase = "down" /\ phase' = "recovering" /\ UNCHANGED <<running, disk, damage, process>>
        /\ mem' = [u \in Tasks |-> IF damage[u] = "doc" THEN Stub ELSE disk[u]]
        /\ boot' = [u \in Tasks |-> IF descriptor[u] = 0 THEN "clear" ELSE "todo"]
    BY <1>5 DEF Boot, durable
  <2>2. Stub.fails = 0 /\ Stub.attempts = 0 /\ ~Active(Stub)
    BY DEF Stub, NewTask, Active, ActiveStates
  <2>3. ASSUME NEW u \in Tasks PROVE TaskMeant(u)'
    <3>1. TaskMeant(u) /\ running[u].pc = "none"
      BY <1>1, <2>1 DEF Meant, Inv, TaskInv, SlotTracked, Up
    <3>2. /\ mem'[u] = IF damage[u] = "doc" THEN Stub ELSE disk[u]
          /\ boot'[u] # "stuck"
      BY <2>1
    <3>3. Purposeful(mem[u])' /\ Purposeful(disk[u])'
      BY <2>1, <2>2, <3>1, <3>2 DEF TaskMeant, Purposeful, Active
    <3>4. QED
      BY <2>1, <2>2, <3>1, <3>2, <3>3 DEF TaskMeant, Engaged, HoldsLock, Active
  <2>4. disk[t].attempts \in Nat
    BY <1>1 DEF TaskRecords
  <2>5. QED
    BY <2>1, <2>3, <2>4 DEF OneTurn, Turn, Started
<1>6. QED
  BY <1>2, <1>3, <1>4, <1>5 DEF Controller


LEMMA MeantInit == Init => Meant
<1>1. SUFFICES ASSUME Init PROVE Meant
  OBVIOUS
<1>2. Inv
  BY <1>1, InvInit
<1>3. ASSUME NEW t \in Tasks PROVE TaskMeant(t)
  <2>1. /\ phase = "serving" /\ mem[t] = NewTask /\ disk[t] = NewTask
        /\ running[t].pc = "none" /\ process[t].st = "none" /\ damage[t] = "none"
    BY <1>1 DEF Init, NoExecution, NoProcess
  <2>2. ~Active(NewTask)
    BY DEF NewTask, Active, ActiveStates
  <2>3. QED
    BY <2>1, <2>2 DEF TaskMeant, Purposeful, Engaged, HoldsLock
<1>4. QED
  BY <1>2, <1>3 DEF Meant

\* Every step keeps the stronger invariant and turns at most one document.
LEMMA MeantStep == Meant /\ [Next]_vars => Meant' /\ \E t \in Tasks : OneTurn(t)
<1>1. SUFFICES ASSUME Meant, [Next]_vars PROVE Meant' /\ \E t \in Tasks : OneTurn(t)
  OBVIOUS
<1>2. Inv'
  BY <1>1, InvStep DEF Meant
<1>3. 1 \in Tasks
  BY SchedulerAssumption DEF Tasks
<1>4. CASE Controller
  BY <1>1, <1>2, <1>3, <1>4, ControllerTurns DEF Meant
<1>5. ASSUME NEW t \in Tasks,
             \/ Request(t) \/ Loop(t) \/ Execute(t) \/ EvidenceError(t)
             \/ Recover(t) \/ Environment(t)
      PROVE  Meant' /\ \E u \in Tasks : OneTurn(u)
  <2>1. (\A u \in Tasks : TaskMeant(u)') /\ OneTurn(t)
    BY <1>1, <1>5, RequestTurns, LoopTurns, ExecuteTurns, RecoverTurns, EnvironmentTurns
  <2>2. QED
    BY <1>2, <2>1 DEF Meant
<1>6. CASE UNCHANGED vars
  <2>1. \A u \in Tasks : Still(u)
    BY <1>6 DEF vars, memory, durable, Still, Started, HoldsLock
  <2>2. QED
    BY <1>1, <1>2, <1>3, <2>1, StillTurns DEF Meant
<1>7. QED
  BY <1>1, <1>4, <1>5, <1>6, NextGroups

THEOREM MeantCorrect == Spec => []Meant
<1>1. QED
  BY MeantInit, MeantStep, PTL DEF Spec

\* A pause or cancel answered with success stands, whatever crashes, shutdowns
\* and storage failures follow: no attempt is prepared and no process started.
THEOREM IntentStands == Spec => IntentRespected
<1>1. Meant /\ [Next]_vars =>
        [\A t \in Tasks : intent[t] \in {"pause", "cancel"} =>
          /\ disk'[t].attempts <= disk[t].attempts
          /\ running'[t].pc \in {"launched", "polling"} =>
               running[t].pc \in {"cleared", "launched", "polling"}]_vars
  <2> SUFFICES ASSUME Meant, [Next]_vars, NEW t \in Tasks, intent[t] \in {"pause", "cancel"}
      PROVE  /\ disk'[t].attempts <= disk[t].attempts
             /\ running'[t].pc \in {"launched", "polling"} =>
                  running[t].pc \in {"cleared", "launched", "polling"}
    OBVIOUS
  <2>1. PICK u \in Tasks : OneTurn(u)
    BY MeantStep
  <2>2. disk[t].attempts \in Nat
    BY DEF Meant, Inv, TypeOK, TaskRecords
  <2>3. QED
    BY <2>1, <2>2 DEF OneTurn, Started
<1>2. QED
  BY <1>1, MeantCorrect, PTL DEF Spec, IntentRespected

\* A turn of one document is a step of TaskContract, or none.
LEMMA TurnIsContractStep ==
    ASSUME TypeOK, TypeOK', NEW t \in Tasks, OneTurn(t)
    PROVE  [ContractState!Next]_ContractState!vars
<1> DEFINE status == [u \in Tasks |-> Status(disk[u].state)]
           fails == [u \in Tasks |-> disk[u].fails]
           s == Status(disk[t].state)
           z == Status(disk'[t].state)
<1>1. /\ status' = [status EXCEPT ![t] = z]
      /\ fails' = [fails EXCEPT ![t] = disk'[t].fails]
      /\ status[t] = s /\ fails[t] = disk[t].fails
  BY DEF OneTurn
<1>2. disk'[t].fails = disk[t].fails => fails' = fails
  BY <1>1
<1>3. z = s => status' = status
  BY <1>1
<1> HIDE DEF s, z
<1>4. disk[t].state \in TaskStates /\ disk'[t].state \in TaskStates
  BY DEF TypeOK, TaskRecords
<1>5. /\ disk[t].state \in Waits <=> s = "waiting"
      /\ disk[t].state \in Runs <=> s = "executing"
      /\ disk[t].state = "paused" <=> s = "held"
      /\ disk[t].state = "needs_review" <=> s = "review"
      /\ \A x \in {"pausing", "cancelling", "cancelled", "succeeded", "failed", "blocked"} :
           disk[t].state = x <=> s = x
  BY <1>4 DEF Status, TaskStates, ActiveStates, Waits, Runs, s
<1>6. /\ disk'[t].state \in Waits <=> z = "waiting"
      /\ disk'[t].state \in Runs <=> z = "executing"
      /\ disk'[t].state = "paused" <=> z = "held"
      /\ disk'[t].state = "needs_review" <=> z = "review"
      /\ \A x \in {"pausing", "cancelling", "cancelled", "succeeded", "failed", "blocked"} :
           disk'[t].state = x <=> z = x
  BY <1>4 DEF Status, TaskStates, ActiveStates, Waits, Runs, z
<1> DEFINE Moved(from, to) == s \in from /\ z = to /\ disk'[t].fails = disk[t].fails
<1>7. ASSUME NEW from, NEW to, Moved(from, to) PROVE ContractState!Move(t, from, to)
  BY <1>1, <1>2, <1>7 DEF ContractState!Move
<1>8. \/ z = s /\ disk'[t].fails = disk[t].fails
      \/ Moved({"waiting"}, "executing")
      \/ Moved({"executing", "cancelling"}, "pausing")
      \/ Moved({"executing", "pausing"}, "cancelling")
      \/ Moved({"waiting", "pausing"}, "held")
      \/ Moved({"waiting", "cancelling", "held", "failed", "review"}, "cancelled")
      \/ Moved({"executing", "pausing", "cancelling"}, "succeeded")
      \/ Moved({"executing"}, "waiting")
      \/ Moved({"held"}, "waiting")
      \/ Moved({"executing"}, "review")
      \/ /\ s = "executing" /\ disk'[t].fails = disk[t].fails + 1
         /\ z = "failed" \/ (z = "waiting" /\ disk[t].fails + 1 < RetryLimit)
      \/ s \in {"failed", "cancelled", "review"} /\ z = "waiting" /\ disk'[t].fails = 0
      \/ /\ s \in {"waiting", "executing", "pausing", "cancelling", "blocked"}
         /\ z = "blocked" /\ disk'[t].fails \in {disk[t].fails, 0}
  <2>1. Turn(disk[t], disk'[t])
    BY DEF OneTurn
  <2>2. disk[t].state \in ActiveStates => s \in {"executing", "pausing", "cancelling"}
    BY <1>5 DEF ActiveStates, Runs
  <2>3. ASSUME disk'[t].fails = disk[t].fails, disk'[t].state = disk[t].state
        PROVE  z = s
    BY <2>3 DEF s, z
  <2>4. ASSUME disk'[t].fails = disk[t].fails,
               NEW from, NEW to, s \in from, z = to
        PROVE  Moved(from, to)
    BY <2>4
  <2> HIDE DEF Moved
  <2>5. CASE disk'[t].fails = disk[t].fails /\ disk'[t].state = disk[t].state
    BY <2>3, <2>5
  <2>6. CASE /\ disk'[t].fails = disk[t].fails
             /\ disk'[t].state = "starting" /\ disk[t].state \in Waits
    <3>1. s \in {"waiting"} /\ z = "executing"
      BY <1>5, <1>6, <2>2, <2>6 DEF Waits, Runs
    <3>2. QED
      BY <2>4, <2>6, <3>1
  <2>7. CASE /\ disk'[t].fails = disk[t].fails
             /\ disk'[t].state = "running" /\ disk[t].state \in Runs
    <3>1. z = s
      BY <1>5, <1>6, <2>7 DEF Runs
    <3>2. QED
      BY <2>7, <3>1
  <2>8. CASE /\ disk'[t].fails = disk[t].fails
             /\ disk'[t].state = "pausing" /\ disk[t].state \in Runs \cup {"cancelling"}
    <3>1. s \in {"executing", "cancelling"} /\ z = "pausing"
      BY <1>5, <1>6, <2>2, <2>8 DEF Waits, Runs
    <3>2. QED
      BY <2>4, <2>8, <3>1
  <2>9. CASE /\ disk'[t].fails = disk[t].fails
             /\ disk'[t].state = "cancelling" /\ disk[t].state \in Runs \cup {"pausing"}
    <3>1. s \in {"executing", "pausing"} /\ z = "cancelling"
      BY <1>5, <1>6, <2>2, <2>9 DEF Waits, Runs
    <3>2. QED
      BY <2>4, <2>9, <3>1
  <2>10. CASE /\ disk'[t].fails = disk[t].fails
             /\ disk'[t].state = "paused" /\ disk[t].state \in Waits \cup {"pausing"}
    <3>1. s \in {"waiting", "pausing"} /\ z = "held"
      BY <1>5, <1>6, <2>2, <2>10 DEF Waits, Runs
    <3>2. QED
      BY <2>4, <2>10, <3>1
  <2>11. CASE /\ disk'[t].fails = disk[t].fails
             /\ disk'[t].state = "cancelled" /\ disk[t].state \in Waits \cup {"cancelling", "paused", "failed", "needs_review"}
    <3>1. s \in {"waiting", "cancelling", "held", "failed", "review"} /\ z = "cancelled"
      BY <1>5, <1>6, <2>2, <2>11 DEF Waits, Runs
    <3>2. QED
      BY <2>4, <2>11, <3>1
  <2>12. CASE /\ disk'[t].fails = disk[t].fails
             /\ disk'[t].state = "succeeded" /\ disk[t].state \in ActiveStates
    <3>1. s \in {"executing", "pausing", "cancelling"} /\ z = "succeeded"
      BY <1>5, <1>6, <2>2, <2>12 DEF Waits, Runs
    <3>2. QED
      BY <2>4, <2>12, <3>1
  <2>13. CASE /\ disk'[t].fails = disk[t].fails
             /\ disk'[t].state = "queued" /\ disk[t].state \in Runs \cup {"paused"}
    <3>1. s \in {"executing", "held"} /\ z = "waiting"
      BY <1>5, <1>6, <2>13 DEF Waits, Runs
    <3>2. Moved({"executing"}, "waiting") \/ Moved({"held"}, "waiting")
      BY <2>4, <2>13, <3>1
    <3>3. QED
      BY <3>2
  <2>14. CASE /\ disk'[t].fails = disk[t].fails
             /\ disk'[t].state = "needs_review" /\ disk[t].state \in Runs
    <3>1. s \in {"executing"} /\ z = "review"
      BY <1>5, <1>6, <2>2, <2>14 DEF Waits, Runs
    <3>2. QED
      BY <2>4, <2>14, <3>1
  <2>15. CASE /\ disk[t].state \in Runs /\ disk'[t].fails = disk[t].fails + 1
             /\ \/ disk'[t].state = "failed"
                \/ disk'[t].state = "retry_wait" /\ disk'[t].fails < RetryLimit
    BY <1>5, <1>6, <2>15 DEF Waits
  <2>16. CASE /\ disk[t].state \in {"failed", "cancelled", "needs_review"}
             /\ disk'[t].state = "queued" /\ disk'[t].fails = 0
    BY <1>5, <1>6, <2>16 DEF Waits
  <2>17. CASE /\ disk[t].state \in Waits \cup ActiveStates \cup {"blocked"}
             /\ disk'[t].state = "blocked" /\ disk'[t].fails \in {disk[t].fails, 0}
    BY <1>5, <1>6, <2>2, <2>17
  <2>18. QED
    BY <2>1, <2>5, <2>6, <2>7, <2>8, <2>9, <2>10, <2>11,
       <2>12, <2>13, <2>14, <2>15, <2>16, <2>17 DEF Turn
<1> HIDE DEF Moved, status, fails
<1>9. CASE z = s /\ disk'[t].fails = disk[t].fails
  BY <1>2, <1>3, <1>9 DEF ContractState!vars, status, fails
<1>10. ASSUME \/ Moved({"waiting"}, "executing")
              \/ Moved({"executing", "cancelling"}, "pausing")
              \/ Moved({"executing", "pausing"}, "cancelling")
              \/ Moved({"waiting", "pausing"}, "held")
              \/ Moved({"waiting", "cancelling", "held", "failed", "review"}, "cancelled")
              \/ Moved({"executing", "pausing", "cancelling"}, "succeeded")
              \/ Moved({"executing"}, "waiting")
              \/ Moved({"held"}, "waiting")
              \/ Moved({"executing"}, "review")
       PROVE  ContractState!Next
  BY <1>7, <1>10 DEF ContractState!Next, ContractState!Start, ContractState!AskPause,
     ContractState!AskCancel, ContractState!Hold, ContractState!Cancel, ContractState!Succeed,
     ContractState!Interrupt, ContractState!Resume, ContractState!Review
<1>11. CASE /\ s = "executing" /\ disk'[t].fails = disk[t].fails + 1
            /\ z = "failed" \/ (z = "waiting" /\ disk[t].fails + 1 < RetryLimit)
  <2>1. ContractState!Fail(t)
    BY <1>1, <1>11 DEF ContractState!Fail, status, fails
  <2>2. QED
    BY <2>1 DEF ContractState!Next
<1>12. CASE s \in {"failed", "cancelled", "review"} /\ z = "waiting" /\ disk'[t].fails = 0
  <2>1. ContractState!Retry(t)
    BY <1>1, <1>12 DEF ContractState!Retry, status, fails
  <2>2. QED
    BY <2>1 DEF ContractState!Next
<1>13. CASE /\ s \in {"waiting", "executing", "pausing", "cancelling", "blocked"}
            /\ z = "blocked" /\ disk'[t].fails \in {disk[t].fails, 0}
  <2>1. ContractState!Block(t)
    BY <1>1, <1>2, <1>13 DEF ContractState!Block, status, fails
  <2>2. QED
    BY <2>1 DEF ContractState!Next
<1>14. QED
  BY <1>8, <1>9, <1>10, <1>11, <1>12, <1>13

LEMMA ContractInit == Init => ContractState!Init
  BY DEF Init, ContractState!Init, NewTask, Status

\* Scheduler implements TaskContract, for any number of tasks and limits and
\* whatever crashes, storage failures and damage there are.
THEOREM ContractImplemented == Spec => Contract
<1>1. Meant /\ Meant' /\ [Next]_vars => [ContractState!Next]_ContractState!vars
  BY MeantStep, TurnIsContractStep DEF Meant, Inv
<1>2. QED
  BY <1>1, ContractInit, MeantCorrect, PTL DEF Spec, Contract, ContractState!Spec

------------------------------------------------------------------------------
(***************************************************************************)
(* The attempts of a task.  Meant does not tell which attempt the document *)
(* on disk has reached while a controller executes one under a fault, so   *)
(* the slots must be tied to the disk too.                                 *)
(***************************************************************************)
Granted == {"prepared", "cleared"}

\* A slot executes the last attempt its task's document on disk knows of.
Numbered(t) == running[t].pc # "none" =>
    Active(disk[t]) /\ running[t].attempt = disk[t].attempts

Counted == Meant /\ \A t \in Tasks : Numbered(t)

InTurn(t) == [Transfer(t)!Next]_(Transfer(t)!vars)

\* Whether a document settles its task.
Settled(r) == r.state \in {"succeeded", "blocked"}

\* What a step does that neither opens nor closes an attempt of u, nor starts
\* or ends its process.
Kept(u) ==
    /\ disk'[u].attempts = disk[u].attempts /\ disk'[u].open = disk[u].open
    /\ disk'[u].state = disk[u].state \/ ~(Settled(disk[u]) \/ Settled(disk[u])')
    /\ running'[u].pc # "none" =>
         /\ running[u].pc # "none" /\ running'[u].attempt = running[u].attempt
         /\ Active(disk[u]) => Active(disk[u])'
    /\ running'[u].pc \in Granted <=> running[u].pc \in Granted
    /\ HoldsLock(u)' <=> HoldsLock(u)
    /\ HoldsLock(u) => process'[u].attempt = process[u].attempt

\* It does not show.
LEMMA KeptInTurn ==
    ASSUME NEW u \in Tasks, Numbered(u), Kept(u)
    PROVE  Numbered(u)' /\ InTurn(u)
<1>1. Numbered(u)'
  BY DEF Kept, Numbered, Active
<1>2. Stage(u)' = Stage(u)
  BY DEF Kept, Stage, Settled, Granted
<1>3. {a \in {process[u].attempt} : HoldsLock(u)}'
        = {a \in {process[u].attempt} : HoldsLock(u)}
  BY DEF Kept, HoldsLock
<1>4. UNCHANGED Transfer(u)!vars
  BY <1>2, <1>3 DEF Kept, Transfer!vars
<1>5. QED
  BY <1>1, <1>4 DEF InTurn

\* Nor does it show that a granted attempt is given up: its slot was the only
\* place where it could have been run from.
LEMMA GivenUpInTurn ==
    ASSUME Counted, NEW u \in Tasks, disk'[u] = disk[u],
           \/ running'[u].pc = "none"
           \/ /\ running'[u].pc = "aborted" /\ running[u].pc # "none"
              /\ running'[u].attempt = running[u].attempt,
           HoldsLock(u)' <=> HoldsLock(u),
           HoldsLock(u) => process'[u].attempt = process[u].attempt
    PROVE  Numbered(u)' /\ InTurn(u)
<1>1. Inv /\ Numbered(u)
  BY DEF Counted, Meant
<1>2. CASE running[u].pc \notin Granted
  BY <1>1, <1>2, KeptInTurn DEF Kept, Granted, Active
<1>3. CASE running[u].pc \in Granted
  <2>1. Active(disk[u]) /\ disk[u].open
    BY <1>1, <1>3 DEF Numbered, Granted, Inv, TaskInv, Sound
  <2>2. Stage(u) = "ready" /\ Stage(u)' = "spent"
    BY <1>3, <2>1 DEF Stage, Granted, Active, ActiveStates
  <2>3. {a \in {process[u].attempt} : HoldsLock(u)}'
          = {a \in {process[u].attempt} : HoldsLock(u)}
    BY DEF HoldsLock
  <2>4. Transfer(u)!Waive
    BY <2>2, <2>3 DEF Transfer!Waive
  <2>5. Numbered(u)'
    BY <1>1, <2>1 DEF Numbered, Active
  <2>6. QED
    BY <2>4, <2>5 DEF InTurn, Transfer!Next
<1>4. QED
  BY <1>2, <1>3

\* A handler that saves r over the document of t: only t may notice.
LEMMA OthersInTurn ==
    ASSUME Counted, NEW t \in Tasks, NEW u \in Tasks \ {t}, NEW r, NEW o \in Outcomes,
           NEW w \in Outcomes,
           NEW e \in [Tasks -> Executions], NEW p \in [Tasks -> Processes],
           e[u] = running[u], p[u] = process[u],
           UNCHANGED <<mem, disk>> \/ SaveTask(t, r, w), AfterWrite(o, e, p)
    PROVE  Numbered(u)' /\ InTurn(u)
<1>1. TypeOK /\ Numbered(u)
  BY DEF Counted, Meant, Inv
<1>2. disk'[u] = disk[u]
  BY <1>1, SaveTaskEffect
<1>3. /\ running'[u].pc = running[u].pc /\ running'[u].attempt = running[u].attempt
      /\ process'[u].st = process[u].st /\ process'[u].attempt = process[u].attempt
  BY AfterWriteEffect
<1>4. Kept(u)
  BY <1>2, <1>3 DEF Kept, HoldsLock, Settled, Active
<1>5. QED
  BY <1>1, <1>4, KeptInTurn

\* A healthy controller saves r, which opens and closes nothing, over the
\* document of t.
LEMMA SaveKept ==
    ASSUME Counted, NEW t \in Tasks, NEW o \in Outcomes,
           NEW r \in TaskRecords, SaveTask(t, r, o),
           NEW e \in [Tasks -> Executions], NEW p \in [Tasks -> Processes],
           AfterWrite(o, e, p), Up, ~fault, mem[t].state # "blocked",
           \A u \in Tasks \ {t} : e[u] = running[u] /\ p[u] = process[u],
           r.attempts = mem[t].attempts, r.open = mem[t].open,
           r.state = mem[t].state \/ ~(Settled(mem[t]) \/ Settled(r)),
           Active(mem[t]) => Active(r),
           e[t].pc = running[t].pc
             \/ {e[t].pc, running[t].pc} \subseteq {"launched", "polling"},
           e[t].attempt = running[t].attempt,
           p[t].st = process[t].st, p[t].attempt = process[t].attempt
    PROVE  \A u \in Tasks : Numbered(u)' /\ InTurn(u)
<1>1. /\ TypeOK /\ Inv /\ Numbered(t)
  BY DEF Counted, Meant, Inv
<1>2. disk[t] = mem[t]
  BY <1>1, EngagedIsActive
<1>3. disk'[t] = r \/ disk'[t] = disk[t]
  BY <1>1, SaveTaskEffect
<1>4. /\ running'[t].pc = e[t].pc /\ running'[t].attempt = e[t].attempt
      /\ process'[t].st = p[t].st /\ process'[t].attempt = p[t].attempt
  BY AfterWriteEffect
<1>5. Kept(t)
  BY <1>2, <1>3, <1>4 DEF Kept, HoldsLock, Settled, Active, Granted
<1>6. QED
  BY <1>1, <1>5, KeptInTurn, OthersInTurn

LEMMA RequestInTurn ==
    ASSUME Counted, NEW t \in Tasks, Request(t)
    PROVE  \A u \in Tasks : Numbered(u)' /\ InTurn(u)
<1>1. /\ Inv /\ TypeOK /\ mem[t] \in TaskRecords
      /\ running \in [Tasks -> Executions] /\ process \in [Tasks -> Processes]
  BY DEF Counted, Meant, Inv, TypeOK
<1>2. ASSUME NEW want, NEW in, Repeated(t, want, in)
      PROVE  \A u \in Tasks : Numbered(u)' /\ InTurn(u)
  <2>1. \A u \in Tasks : Kept(u)
    BY <1>2 DEF Repeated, memory, durable, Kept, HoldsLock, Settled, Active
  <2>2. QED
    BY <2>1, KeptInTurn DEF Counted
<1>3. ASSUME NEW want \in {"pause", "cancel"}, NEW from, NEW st \in TaskStates,
             Halt(t, want, from, st), "succeeded" \notin from, "blocked" \notin from,
             st \notin {"succeeded", "blocked"},
             from \cap ActiveStates = {} \/ st \in ActiveStates
      PROVE  \A u \in Tasks : Numbered(u)' /\ InTurn(u)
  <2> DEFINE E(o) == IF running[t].pc = "none" \/ o # "ok" THEN running
                     ELSE [running EXCEPT ![t].stop = want]
             P(o) == IF running[t].pc = "polling" /\ o = "ok"
                     THEN [process EXCEPT ![t] = Signal(@)] ELSE process
             r == Halted(t, want, st)
  <2>1. PICK o \in Outcomes : SaveTask(t, r, o) /\ AfterWrite(o, E(o), P(o))
    BY <1>3 DEF Halt
  <2> DEFINE e == E(o) p == P(o)
  <2>2. Up /\ ~fault /\ mem[t].state \in from
    BY <1>3 DEF Halt, Writable, Up
  <2>3. /\ r \in TaskRecords /\ r.state = st
        /\ r.attempts = mem[t].attempts /\ r.open = mem[t].open
    <3>1. r \in TaskRecords
      BY <1>1, RecordTypes DEF Intents
    <3>2. QED
      BY <1>1, <3>1 DEF Halted, TaskRecords
  <2>4. /\ e \in [Tasks -> Executions] /\ e[t].pc = running[t].pc
        /\ e[t].attempt = running[t].attempt
    BY <1>1 DEF Executions
  <2>5. /\ p \in [Tasks -> Processes] /\ p[t].st = process[t].st
        /\ p[t].attempt = process[t].attempt
    <3>1. /\ Signal(process[t]) \in Processes /\ Signal(process[t]).st = process[t].st
          /\ Signal(process[t]).attempt = process[t].attempt
      BY <1>1, SignalEffect
    <3>2. QED
      BY <1>1, <3>1
  <2>6. \A u \in Tasks \ {t} : e[u] = running[u] /\ p[u] = process[u]
    BY <1>1
  <2>7. SaveTask(t, r, o) /\ AfterWrite(o, e, p)
    BY <2>1
  <2> HIDE DEF e, p, r
  <2>8. /\ mem[t].state # "blocked" /\ ~Settled(mem[t]) /\ ~Settled(r)
        /\ Active(mem[t]) => Active(r)
    BY <1>3, <2>2, <2>3 DEF Settled, Active
  <2>9. QED
    BY <2>2, <2>3, <2>4, <2>5, <2>6, <2>7, <2>8, SaveKept
<1>4. CASE PauseTask(t) \/ CancelTask(t)
  BY <1>2, <1>3, <1>4 DEF PauseTask, CancelTask, ActiveStates, TaskStates
<1>5. ASSUME NEW from, NEW q \in TaskRecords, Requeue(t, from, q),
             q.attempts = mem[t].attempts, q.open = mem[t].open,
             from \subseteq {"paused", "failed", "cancelled", "needs_review"}
      PROVE  \A u \in Tasks : Numbered(u)' /\ InTurn(u)
  <2> DEFINE r == Queued(q, requeues + 1)
  <2>1. requeues + 1 \in Nat
    BY <1>1 DEF TypeOK
  <2>2. /\ r \in TaskRecords /\ r.state = "queued" /\ r.attempts = mem[t].attempts
        /\ r.open = mem[t].open
    BY <1>5, <2>1, QueuedFields
  <2>3. PICK o \in Outcomes : SaveTask(t, r, o) /\ AfterWrite(o, running, process)
    BY <1>5 DEF Requeue
  <2>4. Up /\ ~fault /\ mem[t].state \in from
    BY <1>5 DEF Requeue, Writable, Up
  <2> HIDE DEF r
  <2>5. ~Active(mem[t]) /\ mem[t].state # "blocked" /\ ~Settled(mem[t]) /\ ~Settled(r)
    BY <1>5, <2>2, <2>4 DEF Active, ActiveStates, Settled
  <2>6. QED
    BY <1>1, <2>2, <2>3, <2>4, <2>5, SaveKept
<1>6. CASE ResumeTask(t)
  BY <1>1, <1>5, <1>6 DEF ResumeTask
<1>7. CASE RetryTask(t)
  <2> DEFINE q == [mem[t] EXCEPT !.fails = 0, !.next = FALSE]
  <2>1. q \in TaskRecords /\ q.attempts = mem[t].attempts /\ q.open = mem[t].open
    BY <1>1, ResetFields
  <2>2. Requeue(t, {"failed", "cancelled", "needs_review"}, q)
    BY <1>7 DEF RetryTask
  <2> HIDE DEF q
  <2>3. QED
    BY <1>5, <2>1, <2>2
<1>8. CASE Priority(t)
  <2>1. PICK n \in Priorities, o \in Outcomes :
          SaveTask(t, [mem[t] EXCEPT !.prio = n], o) /\ AfterWrite(o, running, process)
    BY <1>8 DEF Priority
  <2> DEFINE r == [mem[t] EXCEPT !.prio = n]
  <2>2. n \in Int
    BY SchedulerAssumption
  <2>3. /\ r \in TaskRecords /\ r.state = mem[t].state
        /\ r.attempts = mem[t].attempts /\ r.open = mem[t].open
    BY <1>1, <2>2 DEF TaskRecords
  <2>4. Up /\ ~fault /\ mem[t].state # "blocked"
    BY <1>8 DEF Priority, Writable, Up
  <2>5. SaveTask(t, r, o)
    BY <2>1
  <2> HIDE DEF r
  <2>6. QED
    BY <1>1, <2>1, <2>3, <2>4, <2>5, SaveKept DEF Active
<1>9. QED
  BY <1>4, <1>6, <1>7, <1>8 DEF Request

LEMMA LoopInTurn ==
    ASSUME Counted, NEW t \in Tasks, Loop(t)
    PROVE  \A u \in Tasks : Numbered(u)' /\ InTurn(u)
<1>1. Selected(t)
  BY DEF Loop, Dispatch, DispatchFails, DispatchBlocks
<1>2. /\ Inv /\ TypeOK /\ mem[t] \in TaskRecords /\ disk[t] = mem[t]
      /\ mem[t].state \in {"queued", "retry_wait"} /\ ~mem[t].open
      /\ running[t].pc = "none" /\ ~HoldsLock(t)
      /\ running \in [Tasks -> Executions] /\ process \in [Tasks -> Processes]
  BY <1>1, SelectedFacts DEF Counted, Meant, TypeOK
<1>3. /\ Prepared(t).state = "starting" /\ Prepared(t).open = TRUE /\ Active(Prepared(t))
      /\ Prepared(t).attempts = NextAttempt(t)
      /\ NextAttempt(t) \in Nat /\ NextAttempt(t) > disk[t].attempts
  <2>1. mem[t].attempts \in Nat
    BY <1>2 DEF TaskRecords
  <2>2. /\ Prepared(t).state = "starting" /\ Prepared(t).open = TRUE
        /\ Prepared(t).attempts = NextAttempt(t) /\ NextAttempt(t) \in Nat
    BY <1>2, PreparedFields
  <2>3. NextAttempt(t) > disk[t].attempts
    BY <1>2, <2>1 DEF NextAttempt
  <2>4. QED
    BY <2>2, <2>3 DEF Active, ActiveStates
<1>4. Stage(t) = "rest"
  BY <1>2 DEF Stage
<1>5. ASSUME disk'[t] = Prepared(t),
             running'[t].pc = "none" \/ running'[t].pc = "prepared",
             running'[t].pc = "prepared" => running'[t].attempt = NextAttempt(t),
             process'[t].st = process[t].st
      PROVE  Numbered(t)' /\ InTurn(t)
  <2>1. Stage(t)' \in {"ready", "spent"}
    BY <1>3, <1>5 DEF Stage
  <2>2. {a \in {process[t].attempt} : HoldsLock(t)}'
          = {a \in {process[t].attempt} : HoldsLock(t)}
    BY <1>2, <1>5 DEF HoldsLock
  <2>3. Transfer(t)!Grant
    BY <1>3, <1>4, <1>5, <2>1, <2>2 DEF Transfer!Grant
  <2>4. Numbered(t)'
    BY <1>3, <1>5 DEF Numbered, Active
  <2>5. QED
    BY <2>3, <2>4 DEF InTurn, Transfer!Next
<1>6. CASE Dispatch(t)
  <2> DEFINE x == [NoExecution EXCEPT !.pc = "prepared", !.attempt = NextAttempt(t)]
             e == [running EXCEPT ![t] = x]
  <2>1. SaveTask(t, Prepared(t), "ok") /\ "ok" \in Outcomes /\ running' = e /\ process' = process
    BY <1>6 DEF Dispatch, Outcomes
  <2>2. AfterWrite("ok", e, process)
    BY <1>2, <1>6 DEF Dispatch, AfterWrite, Failed, TypeOK
  <2>3. x \in Executions /\ x.pc = "prepared" /\ x.attempt = NextAttempt(t)
    BY <1>3 DEF NoExecution, Executions
  <2>4. e \in [Tasks -> Executions] /\ e[t] = x /\ \A u \in Tasks \ {t} : e[u] = running[u]
    BY <1>2, <2>3
  <2> HIDE DEF e, x
  <2>5. Numbered(t)' /\ InTurn(t)
    BY <1>2, <1>5, <2>1, <2>3, <2>4, SaveTaskEffect
  <2>6. QED
    BY <1>2, <2>1, <2>2, <2>4, <2>5, OthersInTurn
<1>7. CASE DispatchFails(t)
  <2>1. PICK at \in {"checkpoint", "document", "descriptor"}, o \in Outcomes \ {"ok"} :
          /\ CASE at = "checkpoint" -> UNCHANGED <<mem, disk>>
               [] at = "document" -> SaveTask(t, Prepared(t), o)
               [] at = "descriptor" -> SaveTask(t, Prepared(t), "ok")
          /\ AfterWrite(o, running, process)
    BY <1>7 DEF DispatchFails
  <2>2. /\ running'[t].pc = "none"
        /\ process'[t].st = process[t].st /\ process'[t].attempt = process[t].attempt
    BY <1>2, <2>1, AfterWriteEffect
  <2>3. UNCHANGED <<mem, disk>> \/ \E w \in Outcomes : SaveTask(t, Prepared(t), w)
    BY <2>1 DEF Outcomes
  <2>4. disk'[t] \in {disk[t], Prepared(t)}
    BY <1>2, <2>3, SaveTaskEffect
  <2>5. CASE disk'[t] = disk[t]
    <3>1. Kept(t)
      BY <1>2, <2>2, <2>5 DEF Kept, HoldsLock, Granted
    <3>2. QED
      BY <2>1, <2>3, <1>2, <3>1, KeptInTurn, OthersInTurn DEF Counted
  <2>6. CASE disk'[t] = Prepared(t)
    <3>1. Numbered(t)' /\ InTurn(t)
      BY <1>5, <2>2, <2>6
    <3>2. QED
      BY <1>2, <2>1, <2>3, <3>1, OthersInTurn
  <2>7. QED
    BY <2>4, <2>5, <2>6
<1>8. CASE DispatchBlocks(t)
  <2> DEFINE r == [mem[t] EXCEPT !.state = "blocked"]
  <2>1. PICK o \in Outcomes : SaveTask(t, r, o) /\ AfterWrite(o, running, process)
    BY <1>8 DEF DispatchBlocks
  <2>2. r.state = "blocked" /\ r.attempts = mem[t].attempts /\ r.attempts \in Nat
    BY <1>2, BlockedFields DEF TaskRecords
  <2> HIDE DEF r
  <2>3. disk'[t] = disk[t] \/ disk'[t] = r
    BY <1>2, <2>1, SaveTaskEffect
  <2>4. /\ running'[t].pc = "none"
        /\ process'[t].st = process[t].st /\ process'[t].attempt = process[t].attempt
    BY <1>2, <2>1, AfterWriteEffect
  <2>5. CASE disk'[t] = disk[t]
    <3>1. Kept(t)
      BY <1>2, <2>4, <2>5 DEF Kept, HoldsLock, Granted
    <3>2. QED
      BY <1>2, <2>1, <3>1, KeptInTurn, OthersInTurn DEF Counted
  <2>6. CASE disk'[t] = r
    <3>1. Stage(t)' = "blocked" /\ disk'[t].attempts \in Nat
      BY <2>2, <2>6 DEF Stage
    <3>2. {a \in {process[t].attempt} : HoldsLock(t)}'
            = {a \in {process[t].attempt} : HoldsLock(t)}
      BY <2>4 DEF HoldsLock
    <3>3. Transfer(t)!Block
      BY <1>4, <3>1, <3>2 DEF Transfer!Block
    <3>4. Numbered(t)' /\ InTurn(t)
      BY <2>4, <3>3 DEF Numbered, InTurn, Transfer!Next
    <3>5. QED
      BY <1>2, <2>1, <3>4, OthersInTurn
  <2>7. QED
    BY <2>3, <2>5, <2>6
<1>9. QED
  BY <1>6, <1>7, <1>8 DEF Loop

\* The execute goroutine: what it starts is the attempt its task was granted,
\* beside no other process, and what it closes has ended.
LEMMA ExecuteInTurn ==
    ASSUME Counted, NEW t \in Tasks, Execute(t) \/ EvidenceError(t)
    PROVE  \A u \in Tasks : Numbered(u)' /\ InTurn(u)
<1>1. running[t].pc # "none"
  BY DEF Execute, CheckAbort, Launch, LaunchFails, Attach, Finish, EvidenceError
<1>2. /\ Inv /\ TypeOK /\ Numbered(t)
      /\ running \in [Tasks -> Executions] /\ process \in [Tasks -> Processes]
  BY DEF Counted, Meant, Inv, TypeOK
<1>3. /\ mem[t] \in TaskRecords /\ Sound(mem[t]) /\ Active(mem[t]) /\ Up
      /\ mem[t].state # "blocked" /\ ~Settled(mem[t])
      /\ running[t].stop \in {"pause", "cancel"} => mem[t].desired = running[t].stop
      /\ HoldsLock(t) => running[t].pc \in {"launched", "polling"}
      /\ ~fault => disk[t] = mem[t]
  BY <1>1, <1>2, SlotFacts DEF Active, ActiveStates, Settled
<1>4. /\ Active(disk[t]) /\ disk[t].open /\ ~Settled(disk[t])
      /\ running[t].attempt = disk[t].attempts
  BY <1>1, <1>2 DEF Numbered, Inv, TaskInv, Sound, Active, ActiveStates, Settled
<1>5. ASSUME disk' = disk, \A u \in Tasks \ {t} :
               running'[u] = running[u] /\ process'[u] = process[u]
      PROVE  \A u \in Tasks \ {t} : Numbered(u)' /\ InTurn(u)
  <2>1. \A u \in Tasks \ {t} : Kept(u)
    BY <1>5 DEF Kept, HoldsLock, Active
  <2>2. QED
    BY <2>1, KeptInTurn DEF Counted
<1>6. CASE CheckAbort(t) \/ LaunchFails(t) \/ EvidenceError(t)
  <2>1. /\ disk' = disk
        /\ \A u \in Tasks \ {t} : running'[u] = running[u] /\ process'[u] = process[u]
        /\ process'[t].st = process[t].st /\ process'[t].attempt = process[t].attempt
    BY <1>2, <1>6, SignalEffect DEF CheckAbort, LaunchFails, EvidenceError, durable
  <2>2. running'[t].attempt = running[t].attempt /\ running'[t].pc # "none"
    BY <1>2, <1>6 DEF CheckAbort, LaunchFails, EvidenceError, Executions
  <2>3. running'[t].pc = "aborted" \/ (running'[t].pc \in Granted <=> running[t].pc \in Granted)
    BY <1>2, <1>6 DEF CheckAbort, LaunchFails, EvidenceError, Executions, Granted
  <2>4. Numbered(t)' /\ InTurn(t)
    <3>1. CASE running'[t].pc = "aborted"
      BY <1>1, <2>1, <2>2, <3>1, GivenUpInTurn DEF HoldsLock
    <3>2. CASE running'[t].pc \in Granted <=> running[t].pc \in Granted
      <4>1. Kept(t)
        BY <1>1, <2>1, <2>2, <3>2 DEF Kept, HoldsLock, Active
      <4>2. QED
        BY <1>2, <4>1, KeptInTurn
    <3>3. QED
      BY <2>3, <3>1, <3>2
  <2>5. QED
    BY <1>5, <2>1, <2>4
<1>7. CASE Launch(t)
  <2>1. /\ disk' = disk /\ running[t].pc = "cleared" /\ ~HoldsLock(t)
        /\ running' = [running EXCEPT ![t].pc = "launched"]
        /\ process' = [process EXCEPT ![t] =
             [NoProcess EXCEPT !.st = "running", !.attempt = running[t].attempt]]
    BY <1>7 DEF Launch, durable
  <2>2. /\ running'[t].pc = "launched" /\ running'[t].attempt = running[t].attempt
        /\ process'[t].st = "running" /\ process'[t].attempt = running[t].attempt
        /\ \A u \in Tasks \ {t} : running'[u] = running[u] /\ process'[u] = process[u]
    BY <1>2, <2>1 DEF Executions, NoProcess
  <2>3. Stage(t) = "ready" /\ Stage(t)' = "spent"
    BY <1>4, <2>1, <2>2 DEF Stage, Settled
  <2>4. /\ {a \in {process[t].attempt} : HoldsLock(t)} = {}
        /\ {a \in {process[t].attempt} : HoldsLock(t)}' = {disk[t].attempts}
    BY <1>4, <2>1, <2>2 DEF HoldsLock
  <2>5. Transfer(t)!Begin
    BY <2>1, <2>3, <2>4 DEF Transfer!Begin
  <2>6. Numbered(t)'
    BY <1>4, <2>1, <2>2 DEF Numbered, Active
  <2>7. QED
    BY <1>5, <2>1, <2>2, <2>5, <2>6 DEF InTurn, Transfer!Next
<1>8. CASE Attach(t)
  <2> DEFINE e == [running EXCEPT ![t].pc = "polling"]
             p == IF ShouldStop(t) THEN [process EXCEPT ![t] = Signal(@)] ELSE process
             r == [mem[t] EXCEPT !.state = IF Abandoned(t) THEN @ ELSE "running"]
  <2>1. running[t].pc = "launched"
    BY <1>8 DEF Attach
  <2>2. /\ e \in [Tasks -> Executions] /\ e[t].pc = "polling"
        /\ e[t].attempt = running[t].attempt
    BY <1>2 DEF Executions
  <2>3. /\ p \in [Tasks -> Processes] /\ p[t].st = process[t].st
        /\ p[t].attempt = process[t].attempt
    <3>1. /\ Signal(process[t]) \in Processes /\ Signal(process[t]).st = process[t].st
          /\ Signal(process[t]).attempt = process[t].attempt
      BY <1>2, SignalEffect
    <3>2. QED
      BY <1>2, <3>1
  <2>4. \A u \in Tasks \ {t} : e[u] = running[u] /\ p[u] = process[u]
    BY <1>2
  <2>5. \/ fault /\ running' = e /\ process' = p /\ disk' = disk
        \/ ~fault /\ \E o \in Outcomes : SaveTask(t, r, o) /\ AfterWrite(o, e, p)
    BY <1>8 DEF Attach
  <2>6. /\ r \in TaskRecords /\ r.attempts = mem[t].attempts /\ r.open = mem[t].open
        /\ r.state \in {mem[t].state, "running"}
    BY <1>3 DEF TaskRecords, TaskStates, ActiveStates
  <2> HIDE DEF e, p, r
  <2>7. Active(r) /\ ~Settled(r)
    BY <1>3, <2>6 DEF Active, ActiveStates, Settled
  <2>8. CASE fault /\ running' = e /\ process' = p /\ disk' = disk
    <3>1. Kept(t)
      BY <2>1, <2>2, <2>3, <2>8 DEF Kept, HoldsLock, Active, Granted
    <3>2. QED
      BY <1>2, <1>5, <2>4, <2>8, <3>1, KeptInTurn
  <2>9. ASSUME ~fault, NEW o \in Outcomes, SaveTask(t, r, o), AfterWrite(o, e, p)
        PROVE  \A u \in Tasks : Numbered(u)' /\ InTurn(u)
    BY <1>3, <2>1, <2>2, <2>3, <2>4, <2>6, <2>7, <2>9, SaveKept
  <2>10. QED
    BY <2>5, <2>8, <2>9
<1>9. CASE Finish(t)
  <2> DEFINE e == [running EXCEPT ![t] = NoExecution]
             p == [process EXCEPT ![t] = NoProcess]
             code == IF running[t].pc = "polling" THEN process[t].code ELSE "other"
  <2>1. running[t].pc \notin Granted /\ ~HoldsLock(t)
    BY <1>3, <1>9 DEF Finish, Granted, HoldsLock
  <2>2. /\ e \in [Tasks -> Executions] /\ p \in [Tasks -> Processes]
        /\ e[t].pc = "none" /\ p[t].st = "none"
        /\ \A u \in Tasks \ {t} : e[u] = running[u] /\ p[u] = process[u]
    BY <1>2, EmptyTypes DEF NoExecution, NoProcess
  <2>3. \/ fault /\ running' = e /\ process' = p /\ disk' = disk
        \/ ~fault /\ \E full, bad \in BOOLEAN, o \in Outcomes :
             SaveTask(t, Ended(t, code, full, bad), o) /\ AfterWrite(o, e, p)
    BY <1>9 DEF Finish
  <2> HIDE DEF e, p, code
  <2>4. ASSUME running'[t].pc = "none", process'[t].st = "none", disk'[t] = disk[t]
        PROVE  Numbered(t)' /\ InTurn(t)
    <3>1. Kept(t)
      BY <2>1, <2>4 DEF Kept, HoldsLock, Granted
    <3>2. QED
      BY <1>2, <3>1, KeptInTurn
  <2>5. CASE fault /\ running' = e /\ process' = p /\ disk' = disk
    BY <1>5, <2>2, <2>4, <2>5
  <2>6. ASSUME ~fault, NEW full \in BOOLEAN, NEW bad \in BOOLEAN, NEW o \in Outcomes,
               SaveTask(t, Ended(t, code, full, bad), o), AfterWrite(o, e, p)
        PROVE  \A u \in Tasks : Numbered(u)' /\ InTurn(u)
    <3> DEFINE r == Ended(t, code, full, bad)
    <3>1. ~r.open /\ r.state # "blocked" /\ r.attempts = mem[t].attempts
      BY <1>3, EndedFields
    <3>2. disk'[t] = disk[t] \/ disk'[t] = r
      BY <1>2, <2>6, SaveTaskEffect
    <3> HIDE DEF r
    <3>3. running'[t].pc = "none" /\ process'[t].st = "none"
      BY <2>2, <2>6, AfterWriteEffect
    <3>4. CASE disk'[t] = r
      <4>1. Stage(t) = "spent" /\ Stage(t)' \in {"rest", "done"}
        BY <1>4, <2>1, <3>1, <3>3, <3>4 DEF Stage, Settled, Granted
      <4>2. {a \in {process[t].attempt} : HoldsLock(t)}' = {}
        BY <3>3 DEF HoldsLock
      <4>3. Transfer(t)!Settle
        BY <1>3, <2>6, <3>1, <3>4, <4>1, <4>2 DEF Transfer!Settle
      <4>4. InTurn(t)
        BY <4>3 DEF InTurn, Transfer!Next
      <4>5. Numbered(t)'
        BY <3>3 DEF Numbered
      <4>6. QED
        BY <2>2, <2>6, <4>4, <4>5, OthersInTurn
    <3>5. QED
      BY <2>2, <2>4, <2>6, <3>2, <3>3, <3>4, OthersInTurn
  <2>7. QED
    BY <2>3, <2>5, <2>6
<1>10. QED
  BY <1>6, <1>7, <1>8, <1>9 DEF Execute

\* Recovery: a document is closed only when the lock shows that nothing of its
\* attempt runs; otherwise the task is blocked.
LEMMA RecoverTaskInTurn ==
    ASSUME Counted, NEW t \in Tasks, RecoverTask(t)
    PROVE  \A u \in Tasks : Numbered(u)' /\ InTurn(u)
<1> DEFINE r == Recovered(t)
<1>1. /\ Inv /\ TypeOK /\ TaskInv(t) /\ TaskMeant(t) /\ Numbered(t) /\ phase = "recovering"
      /\ boot[t] \in {"clear", "stuck"}
  BY DEF Counted, Meant, Inv, RecoverTask
<1>2. /\ mem[t] \in TaskRecords /\ disk \in [Tasks -> TaskRecords]
      /\ running \in [Tasks -> Executions] /\ process \in [Tasks -> Processes]
      /\ Sound(mem[t]) /\ ~Up
  BY <1>1 DEF TypeOK, TaskInv, Up
<1>3. \A u \in Tasks : running[u].pc = "none"
  BY <1>1, <1>2 DEF Inv, TaskInv, SlotTracked
<1>4. /\ mem[t].state # "blocked" => disk[t] = mem[t] /\ (HoldsLock(t) => boot[t] = "stuck")
      /\ boot[t] = "stuck" => Active(disk[t]) \/ disk[t].state = "blocked"
  BY <1>1 DEF TaskInv, MemoryTracked, ProcessTracked, TaskMeant, Engaged, Up
<1>5. /\ \/ r = mem[t] /\ boot[t] = "clear"
         \/ /\ r.state = "blocked" /\ r.attempts \in Nat /\ disk[t].state # "succeeded"
         \/ /\ ~r.open /\ ~Settled(r) /\ r.attempts = disk[t].attempts
            /\ ~HoldsLock(t) /\ Stage(t) = "spent"
  <2> DEFINE b == [mem[t] EXCEPT !.state = "blocked"]
             rest == CASE mem[t].desired = "pause" -> "paused"
                       [] mem[t].desired = "cancel" -> "cancelled"
                       [] OTHER -> "queued"
             c == [mem[t] EXCEPT !.state = rest, !.next = FALSE, !.current = 0, !.open = FALSE]
  <2>1. \/ r = mem[t] /\ boot[t] = "clear"
        \/ r = b /\ (boot[t] = "stuck" \/ (mem[t].open /\ mem[t].state # "blocked"))
        \/ r = c /\ mem[t].open /\ mem[t].state # "blocked" /\ boot[t] = "clear"
    BY <1>1 DEF Recovered, Reopened
  <2>2. b.state = "blocked" /\ b.attempts \in Nat
    BY <1>2, BlockedFields DEF TaskRecords
  <2>3. /\ c.state \in {"paused", "cancelled", "queued"} /\ c.open = FALSE
        /\ c.attempts = mem[t].attempts
    <3>1. rest \in {"paused", "cancelled", "queued"}
      OBVIOUS
    <3> HIDE DEF rest
    <3>2. QED
      BY <1>2, <3>1 DEF TaskRecords
  <2>4. mem[t].open /\ mem[t].state # "blocked" =>
          Active(disk[t]) /\ disk[t].open /\ disk[t].attempts = mem[t].attempts
    BY <1>2, <1>4 DEF Sound, Active
  <2> HIDE DEF r, b, c
  <2>5. CASE r = b /\ (boot[t] = "stuck" \/ (mem[t].open /\ mem[t].state # "blocked"))
    BY <1>4, <2>2, <2>4, <2>5 DEF Active, ActiveStates
  <2>6. CASE r = c /\ mem[t].open /\ mem[t].state # "blocked" /\ boot[t] = "clear"
    <3>1. Stage(t) = "spent"
      BY <1>3, <2>4, <2>6 DEF Stage, Active, ActiveStates
    <3>2. QED
      BY <1>4, <2>3, <2>4, <2>6, <3>1 DEF Settled
  <2>7. QED
    BY <2>1, <2>5, <2>6
<1>6. /\ \A u \in Tasks : running'[u].pc = "none" /\ (HoldsLock(u)' <=> HoldsLock(u))
      /\ \A u \in Tasks : HoldsLock(u) => process'[u].attempt = process[u].attempt
      /\ \A u \in Tasks \ {t} : disk'[u] = disk[u]
      /\ disk'[t] = disk[t] \/ (disk'[t] = r /\ (r # mem[t] \/ boot[t] = "stuck"))
  <2>1. CASE UNCHANGED <<running, process>>
    BY <1>1, <1>2, <1>3, <2>1 DEF RecoverTask, SaveTask, HoldsLock
  <2>2. CASE Gone(disk') /\ disk' \in {disk, [disk EXCEPT ![t] = r]}
    <3>1. \A u \in Tasks : /\ running'[u].pc = "none"
                           /\ process'[u] = IF HoldsLock(u) THEN process[u] ELSE NoProcess
      BY <2>2 DEF Gone, NoExecution
    <3>2. NoProcess.st = "none"
      BY DEF NoProcess
    <3>3. disk'[t] = disk[t] \/ r # mem[t] \/ boot[t] = "stuck"
      BY <1>1, <2>2 DEF RecoverTask, SaveTask
    <3>4. QED
      BY <1>2, <2>2, <3>1, <3>2, <3>3 DEF HoldsLock
  <2>3. QED
    BY <2>1, <2>2 DEF RecoverTask
<1> HIDE DEF r
<1>7. ASSUME NEW u \in Tasks, disk'[u] = disk[u] PROVE Numbered(u)' /\ InTurn(u)
  <2>1. Kept(u)
    BY <1>3, <1>6, <1>7 DEF Kept, Granted
  <2>2. QED
    BY <2>1, KeptInTurn DEF Counted
<1>8. CASE disk'[t] = r /\ (r # mem[t] \/ boot[t] = "stuck")
  <2>1. Numbered(t)'
    BY <1>6 DEF Numbered
  <2>2. CASE r.state = "blocked" /\ r.attempts \in Nat /\ disk[t].state # "succeeded"
    <3>1. Stage(t) # "done" /\ Stage(t)' = "blocked"
      BY <1>8, <2>2 DEF Stage
    <3>2. {a \in {process[t].attempt} : HoldsLock(t)}'
            = {a \in {process[t].attempt} : HoldsLock(t)}
      BY <1>6 DEF HoldsLock
    <3>3. Transfer(t)!Block
      BY <1>8, <2>2, <3>1, <3>2 DEF Transfer!Block
    <3>4. QED
      BY <1>6, <1>7, <2>1, <3>3 DEF InTurn, Transfer!Next
  <2>3. CASE /\ ~r.open /\ ~Settled(r) /\ r.attempts = disk[t].attempts
             /\ ~HoldsLock(t) /\ Stage(t) = "spent"
    <3>1. Stage(t)' = "rest"
      BY <1>6, <1>8, <2>3 DEF Stage, Settled
    <3>2. {a \in {process[t].attempt} : HoldsLock(t)}' = {}
      BY <1>6, <2>3
    <3>3. Transfer(t)!Settle
      BY <1>8, <2>3, <3>1, <3>2 DEF Transfer!Settle
    <3>4. QED
      BY <1>6, <1>7, <2>1, <3>3 DEF InTurn, Transfer!Next
  <2>4. QED
    BY <1>5, <1>8, <2>2, <2>3
<1>9. QED
  BY <1>6, <1>7, <1>8

\* The rest of recovery, the end of a process, and what happens to no process.
LEMMA AroundInTurn ==
    ASSUME Counted, NEW t \in Tasks,
           LockFree(t) \/ Quit(t) \/ GiveUp(t) \/ Environment(t)
    PROVE  \A u \in Tasks : Numbered(u)' /\ InTurn(u)
<1>1. running \in [Tasks -> Executions] /\ process \in [Tasks -> Processes]
  BY DEF Counted, Meant, Inv, TypeOK
<1>2. UNCHANGED <<running, disk>>
  BY DEF LockFree, Quit, GiveUp, Environment, ProcessExit, Timer, Damage, memory, durable
<1>3. ASSUME NEW u \in Tasks, process'[u].st = process[u].st,
             process'[u].attempt = process[u].attempt
      PROVE  Numbered(u)' /\ InTurn(u)
  <2>1. Kept(u)
    BY <1>2, <1>3 DEF Kept, HoldsLock, Active
  <2>2. QED
    BY <2>1, KeptInTurn DEF Counted
<1>4. CASE LockFree(t) \/ Quit(t) \/ GiveUp(t) \/ Timer(t) \/ Damage(t)
  <2>1. process' = process \/ process' = [process EXCEPT ![t].term = TRUE]
    BY <1>4 DEF LockFree, Quit, GiveUp, Timer, Damage
  <2>2. \A u \in Tasks : process'[u].st = process[u].st /\ process'[u].attempt = process[u].attempt
    BY <1>1, <2>1 DEF Processes
  <2>3. QED
    BY <1>3, <2>2
<1>5. CASE ProcessExit(t)
  <2>1. /\ \A u \in Tasks \ {t} : process'[u] = process[u]
        /\ process'[t].st # "running"
    BY <1>1, <1>5 DEF ProcessExit, Processes, NoProcess
  <2>2. {a \in {process[t].attempt} : HoldsLock(t)}' = {}
    BY <2>1 DEF HoldsLock
  <2>3. Stage(t)' = Stage(t)
    BY <1>2 DEF Stage
  <2>4. Transfer(t)!End
    BY <1>2, <2>2, <2>3 DEF Transfer!End
  <2>5. Numbered(t)'
    BY <1>2 DEF Counted, Numbered, Active
  <2>6. QED
    BY <1>3, <2>1, <2>4, <2>5 DEF InTurn, Transfer!Next
<1>6. QED
  BY <1>4, <1>5 DEF Environment

\* A controller that goes leaves the documents and the processes as they are:
\* what was granted and has not begun never will.
LEMMA ControllerInTurn ==
    ASSUME Counted, Controller
    PROVE  \A u \in Tasks : Numbered(u)' /\ InTurn(u)
<1>1. running \in [Tasks -> Executions] /\ process \in [Tasks -> Processes]
  BY DEF Counted, Meant, Inv, TypeOK
<1>2. disk' = disk
  BY DEF Controller, UpdateSettings, PersistenceFailure, BeginShutdown, Close, Exit, Crash,
     Boot, Serve, durable
<1>3. CASE UpdateSettings \/ PersistenceFailure \/ BeginShutdown \/ Close \/ Boot \/ Serve
  <2>1. \/ \E o \in Outcomes : AfterWrite(o, running, process)
        \/ running' = Interrupted(running) /\ process' = Stopped(running, process)
        \/ UNCHANGED <<running, process>>
    BY <1>3 DEF UpdateSettings, PersistenceFailure, BeginShutdown, Close, Boot, Serve, Outcomes
  <2>2. ASSUME NEW u \in Tasks
        PROVE  /\ running'[u].pc = running[u].pc /\ running'[u].attempt = running[u].attempt
               /\ process'[u].st = process[u].st /\ process'[u].attempt = process[u].attempt
    BY <1>1, <2>1, AfterWriteEffect, InterruptedEffect
  <2>3. \A u \in Tasks : Kept(u)
    BY <1>2, <2>2 DEF Kept, HoldsLock, Active
  <2>4. QED
    BY <2>3, KeptInTurn DEF Counted
<1>4. CASE Exit \/ Crash
  <2>1. \A u \in Tasks :
          /\ running'[u].pc = "none"
          /\ process'[u] = IF HoldsLock(u) THEN process[u] ELSE NoProcess
    BY <1>4 DEF Exit, Crash, Gone, NoExecution
  <2>2. ASSUME NEW u \in Tasks
        PROVE  /\ HoldsLock(u)' <=> HoldsLock(u)
               /\ HoldsLock(u) => process'[u].attempt = process[u].attempt
    BY <2>1 DEF HoldsLock, NoProcess
  <2>3. ASSUME NEW u \in Tasks PROVE Numbered(u)' /\ InTurn(u)
    <3>1. disk'[u] = disk[u] /\ running'[u].pc = "none"
      BY <1>2, <2>1
    <3>2. QED
      BY <2>2, <3>1, GivenUpInTurn
  <2>4. QED
    BY <2>3
<1>5. QED
  BY <1>3, <1>4 DEF Controller

LEMMA AttemptsStart == Init => Counted /\ \A t \in Tasks : Transfer(t)!Init
<1>1. SUFFICES ASSUME Init, NEW t \in Tasks PROVE Numbered(t) /\ Transfer(t)!Init
  BY MeantInit DEF Counted
<1>2. /\ running[t].pc = "none" /\ ~HoldsLock(t)
      /\ disk[t].attempts = 0 /\ disk[t].state = "queued" /\ disk[t].open = FALSE
  BY <1>1 DEF Init, NoExecution, NoProcess, HoldsLock, NewTask
<1>3. {a \in {process[t].attempt} : HoldsLock(t)} = {}
  BY <1>2
<1>4. QED
  BY <1>2, <1>3 DEF Numbered, Transfer!Init, Stage

LEMMA AttemptsStep ==
    Counted /\ [Next]_vars => Counted' /\ \A u \in Tasks : InTurn(u)
<1>1. SUFFICES ASSUME Counted, [Next]_vars PROVE \A u \in Tasks : Numbered(u)' /\ InTurn(u)
  BY MeantStep DEF Counted
<1>2. ASSUME NEW t \in Tasks,
             \/ Request(t) \/ Loop(t) \/ Execute(t) \/ EvidenceError(t)
             \/ Recover(t) \/ Environment(t)
      PROVE  \A u \in Tasks : Numbered(u)' /\ InTurn(u)
  BY <1>1, <1>2, RequestInTurn, LoopInTurn, ExecuteInTurn, RecoverTaskInTurn, AroundInTurn
     DEF Recover
<1>3. CASE UNCHANGED vars
  <2>1. \A u \in Tasks : Kept(u)
    BY <1>3 DEF vars, memory, durable, Kept, HoldsLock, Active
  <2>2. QED
    BY <1>1, <2>1, KeptInTurn DEF Counted
<1>4. QED
  BY <1>1, <1>2, <1>3, ControllerInTurn, NextGroups

\* Of every task, over any crash, storage failure and damage: each attempt is run
\* at most once, after the one before has been closed, and a document closes an
\* attempt only when its process is gone.
THEOREM AttemptsOnce == Spec => AttemptsInTurn
<1>1. Counted /\ [Next]_vars =>
        [\A t \in Tasks : [Transfer(t)!Next]_(Transfer(t)!vars)]_vars
  BY AttemptsStep DEF InTurn
<1>2. QED
  BY <1>1, AttemptsStart, AttemptsStep, PTL DEF Spec, AttemptsInTurn
=============================================================================
