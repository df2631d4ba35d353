----------------------------- MODULE BatchImport -----------------------------
(***************************************************************************)
(* How manifests become tasks: internal/service/import.go with the part of *)
(* load() that concerns batches.  An import snapshots every manifest of a  *)
(* directory; a single submission snapshots one upload.  Both publish all  *)
(* task documents without the mutex and then the batch document, whose     *)
(* state "ready" is the only commit mark.  Import workers share a gate;    *)
(* after a restart a worker completes every batch whose snapshots are      *)
(* complete.  BatchContract says what this is for.                         *)
(*                                                                         *)
(* One action is one critical section of Service.mu, or one step made      *)
(* without it.  A handler that makes several durable writes may fail at    *)
(* each; a crash between two of them leaves what a failure of the second   *)
(* followed by Crash leaves.                                               *)
(*                                                                         *)
(* A definition marked "Mistake" is no part of the model: it is a bug the  *)
(* definition after it could have had.                                     *)
(***************************************************************************)
EXTENDS Naturals, FiniteSets, TaskTypes

CONSTANTS
    ImportBatches,  \* batches imported from a directory
    Singles,        \* batches of one task each, made by SubmitSingle
    Clients,        \* concurrent callers of SubmitSingle
    Tasks,          \* task names, numbers in their order
    TasksOf,        \* the tasks each batch may list
    Good, Bad,      \* manifest contents that pass and that fail validation
    MaxImports,     \* bound: accepted imports
    MaxSubmits,     \* bound: submissions
    MaxOutages,     \* bound: storage failures, crashes and shutdowns
    MaxDamage       \* bound: files damaged from outside while stopped

Batches == ImportBatches \cup Singles
Contents == Good \cup Bad

ASSUME ImportAssumption ==
    /\ Tasks \subseteq Nat /\ IsFiniteSet(Tasks)
    /\ TasksOf \in [Batches -> (SUBSET Tasks) \ {{}}]
    /\ \A s \in Singles : Cardinality(TasksOf[s]) = 1
    /\ ImportBatches \cap Singles = {} /\ Batches \cap Clients = {}
    /\ Good \cap Bad = {} /\ "none" \notin Contents
    /\ {MaxImports, MaxSubmits, MaxOutages, MaxDamage} \subseteq Nat

VARIABLES
    phase,              \* the controller: down, serving or stopping
    fault,              \* Service.fault is set
    batches, batchDisk, \* Service.batches and batches/<id>/batch.json
    tasks, taskDisk,    \* Service.tasks and tasks/<id>/task.json
    stage,              \* staging/<batch>/<generation>/<task>.txt
    manifest,           \* tasks/<id>/manifest.txt
    reserved,           \* Service.reserved
    running,            \* Service.running, by task
    job,                \* import workers, named by their batch, and clients
    damaged,            \* batches with a file damaged from outside
    imports, submits, outages

volatile == <<phase, fault, batches, tasks, reserved, running, job>>
onDisk == <<batchDisk, taskDisk, stage, manifest>>
vars == <<volatile, onDisk, damaged, imports, submits, outages>>

------------------------------------------------------------------------------
Nothing == [t \in Tasks |-> "none"]
Lists == [Tasks -> Contents \cup {"none"}]

\* A batch document; list is Manifests, each with its SHA-256.
BatchDocs ==
    [state : {"absent", "validating", "ready", "rejected",
              "blocked",   \* in memory: the stand-in for a damaged document
              "damaged"},  \* on disk: does not parse or validate
     gen : Nat, complete : BOOLEAN, list : Lists]

NoBatch == [state |-> "absent", gen |-> 0, complete |-> FALSE, list |-> Nothing]

Listed(d) == {t \in Tasks : d.list[t] # "none"}

\* A task document: queued as committed, begun once it has an attempt.
TaskDocs ==
    [st : {"queued", "begun", "blocked"}, batch : Batches, gen : Nat,
     content : Contents]
NoTask == [st |-> "absent"]

\* The task commitBatchLocked makes of one listed manifest.
TaskFor(b, d, t) == [st |-> "queued", batch |-> b, gen |-> d.gen, content |-> d.list[t]]

\* A goroutine: where it stands, its copy of the batch document, the files it
\* has still to treat, and whether it has met an issue or an error.
Jobs ==
    [pc : {"none", "gate", "discover", "scan", "verify", "decide",
           "uploaded", "publish", "seal"},
     batch : Batches \cup {"none"}, doc : BatchDocs, todo : SUBSET Tasks,
     bad : BOOLEAN]
NoJob == [pc |-> "none", batch |-> "none", doc |-> NoBatch, todo |-> {}, bad |-> FALSE]
Actors == Batches \cup Clients

TypeOK ==
    /\ phase \in {"down", "serving", "stopping"} /\ fault \in BOOLEAN
    /\ batches \in [Batches -> BatchDocs] /\ batchDisk \in [Batches -> BatchDocs]
    /\ tasks \in [Tasks -> TaskDocs \cup {NoTask}]
    /\ taskDisk \in [Tasks -> TaskDocs \cup {NoTask}]
    /\ stage \in [Batches -> Lists] /\ manifest \in Lists
    /\ reserved \subseteq Tasks /\ running \subseteq Tasks
    /\ job \in [Actors -> Jobs]
    /\ damaged \subseteq Batches
    /\ imports \in Nat /\ submits \in Nat /\ outages \in Nat

Init ==
    /\ phase = "serving" /\ fault = FALSE
    /\ batches = [b \in Batches |-> NoBatch] /\ batchDisk = batches
    /\ tasks = [t \in Tasks |-> NoTask] /\ taskDisk = tasks
    /\ stage = [b \in Batches |-> Nothing] /\ manifest = Nothing
    /\ reserved = {} /\ running = {}
    /\ job = [a \in Actors |-> NoJob]
    /\ damaged = {}
    /\ imports = 0 /\ submits = 0 /\ outages = 0

------------------------------------------------------------------------------
Writable == phase = "serving" /\ ~fault
First(S) == CHOOSE t \in S : \A u \in S : t <= u
Dismiss(a) == [job EXCEPT ![a] = NoJob]

\* What a write with outcome o does to the controller.
Wrote(o) ==
    /\ o # "ok" => outages < MaxOutages
    /\ outages' = IF o = "ok" THEN outages ELSE outages + 1
    /\ fault' = (fault \/ o # "ok")

\* saveBatchLocked.
SaveBatch(b, d, o) ==
    /\ batchDisk' = IF o = "lost" THEN batchDisk ELSE [batchDisk EXCEPT ![b] = d]
    /\ batches' = IF o = "ok" THEN [batches EXCEPT ![b] = d] ELSE batches

------------------------------------------------------------------------------
(***************************************************************************)
(* The commit, shared by workers and clients.                              *)
(***************************************************************************)

\* Mistake: a task another job is publishing is published as well.
ClashUnreserved(b, d) ==
    \E t \in Listed(d) : tasks[t] # NoTask /\ tasks[t].batch # b

\* A listed task belongs to another batch, or is being published.
Clash(b, d) ==
    \E t \in Listed(d) : t \in reserved \/ (tasks[t] # NoTask /\ tasks[t].batch # b)

\* commitBatchLocked up to the unlock: reserve the tasks, or give up and leave
\* the batch as it is.
BeginCommit(a, b, d) ==
    IF Clash(b, d)
    THEN job' = Dismiss(a) /\ UNCHANGED reserved
    ELSE /\ reserved' = reserved \cup Listed(d)
         /\ job' = [job EXCEPT ![a] =
                [pc |-> "publish", batch |-> b, doc |-> d, todo |-> Listed(d),
                 bad |-> FALSE]]

\* Mistake: a snapshot the task already has is not replaced.
SnapshotStale(b, t) == IF manifest[t] # "none" THEN manifest[t] ELSE stage[b][t]

\* The snapshot a committer reads: the staged one, or the task's own when the
\* staging area has been cleaned.
Snapshot(b, t) == IF stage[b][t] # "none" THEN stage[b][t] ELSE manifest[t]

\* Without the mutex: copy the snapshot, then write the document of one task.
Publish(a) ==
    LET b == job[a].batch
        t == First(job[a].todo)
        copied == [manifest EXCEPT ![t] = Snapshot(b, t)]
        written == [taskDisk EXCEPT ![t] = TaskFor(b, job[a].doc, t)]
        rest == job[a].todo \ {t}
        failed == [job EXCEPT ![a].pc = "seal", ![a].bad = TRUE]
    IN  /\ job[a].pc = "publish"
        /\ \/ /\ phase = "serving"
              /\ manifest' = copied /\ taskDisk' = written
              /\ job' = [job EXCEPT ![a].todo = rest,
                                    ![a].pc = IF rest = {} THEN "seal" ELSE @]
              /\ UNCHANGED outages
           \/ /\ phase = "serving"
              /\ outages < MaxOutages /\ outages' = outages + 1
              /\ job' = failed
              /\ \/ manifest' \in {manifest, copied} /\ UNCHANGED taskDisk
                 \/ manifest' = copied /\ taskDisk' \in {taskDisk, written}
           \/ /\ phase = "stopping"      \* the context is cancelled
              /\ job' = failed
              /\ UNCHANGED <<manifest, taskDisk, outages>>
    /\ UNCHANGED <<phase, fault, batches, tasks, reserved, running, batchDisk, stage,
                   damaged, imports, submits>>

\* With the mutex again: the batch document is the commit mark.
Seal(a) ==
    LET b == job[a].batch
        ready == [job[a].doc EXCEPT !.state = "ready"]
    IN  /\ job[a].pc = "seal" /\ phase # "down"
        /\ job' = Dismiss(a)
        /\ reserved' = reserved \ Listed(job[a].doc)
        /\ IF phase = "stopping" \/ job[a].bad \/ fault
           THEN /\ fault' = (fault \/ (job[a].bad /\ phase = "serving"))
                /\ UNCHANGED <<batches, batchDisk, tasks, outages>>
           ELSE \E o \in Outcomes :
                /\ SaveBatch(b, ready, o) /\ Wrote(o)
                /\ tasks' = IF o = "ok"
                            THEN [t \in Tasks |-> IF t \in Listed(ready)
                                                  THEN TaskFor(b, ready, t) ELSE tasks[t]]
                            ELSE tasks
    /\ UNCHANGED <<phase, running, taskDisk, stage, manifest, damaged, imports, submits>>

------------------------------------------------------------------------------
(***************************************************************************)
(* Import of a directory.                                                  *)
(***************************************************************************)

\* Mistake: a batch that is ready, or whose document is damaged, is imported
\* again.
ReplaceableAnyway(b) == batches[b].state # "validating"

\* Import of a batch that is committed or under way returns it unchanged, or is
\* refused; so is that of a batch whose document is damaged.
Replaceable(b) == batches[b].state \in {"absent", "rejected"}

\* Mistake: the new document already claims that its snapshots are complete.
StartedComplete(b) ==
    [NoBatch EXCEPT !.state = "validating", !.gen = batches[b].gen + 1, !.complete = TRUE]

\* The document of a new generation, before any snapshot.
Started(b) == [NoBatch EXCEPT !.state = "validating", !.gen = batches[b].gen + 1]

Import(b) ==
    LET d == Started(b)
    IN  /\ Writable /\ Replaceable(b)
        /\ imports < MaxImports /\ imports' = imports + 1
        /\ \E o \in Outcomes :
             /\ SaveBatch(b, d, o) /\ Wrote(o)
             /\ job' = IF o # "ok" THEN job
                       ELSE [job EXCEPT ![b] = [NoJob EXCEPT !.pc = "gate", !.batch = b,
                                                             !.doc = d]]
        /\ stage' = [stage EXCEPT ![b] = Nothing]    \* that of a new generation
        /\ UNCHANGED <<phase, tasks, taskDisk, reserved, running, manifest, damaged,
                       submits>>

\* Mistake: a worker leaves the gate closed behind it.
GateKept == \A b \in Batches : job[b].pc \in {"none", "gate"} /\ batches[b].state # "ready"

\* importGate admits one worker at a time.
GateFree == \A b \in Batches : job[b].pc \in {"none", "gate"}

Enter(b) ==
    /\ phase # "down" /\ job[b].pc = "gate"
    /\ \/ /\ GateFree
          /\ job' = [job EXCEPT ![b].pc = IF job[b].doc.complete THEN "verify" ELSE "discover",
                                ![b].todo = Listed(job[b].doc)]
       \/ phase = "stopping" /\ job' = Dismiss(b)
    /\ UNCHANGED <<phase, fault, batches, tasks, reserved, running, onDisk, damaged,
                   imports, submits, outages>>

\* importProgress: the batch document is saved again without its list, which
\* changes nothing this module reads, unless the save fails.
Progress(o) == Wrote(o) /\ UNCHANGED <<batches, batchDisk>>

\* Discover lists the directory.
DiscoverFiles(b) ==
    /\ phase # "down" /\ job[b].pc = "discover"
    /\ \/ /\ job' = [job EXCEPT ![b].pc = "decide", ![b].bad = TRUE]
          /\ UNCHANGED <<fault, batches, batchDisk, outages>>
       \/ /\ Writable
          /\ \E files \in (SUBSET TasksOf[b]) \ {{}}, o \in Outcomes :
               /\ Progress(o)
               /\ job' = IF o # "ok" THEN Dismiss(b)
                         ELSE [job EXCEPT ![b].pc = "scan", ![b].todo = files]
       \/ ~Writable /\ job' = Dismiss(b) /\ UNCHANGED <<fault, batches, batchDisk, outages>>
    /\ UNCHANGED <<phase, tasks, reserved, running, taskDisk, stage, manifest, damaged,
                   imports, submits>>

\* Snapshot one manifest, whatever the directory holds by now, and save the
\* progress.
ScanFile(b) ==
    LET t == First(job[b].todo)
        rest == job[b].todo \ {t}
        next == [job EXCEPT ![b].todo = rest,
                            ![b].pc = IF rest = {} THEN "decide" ELSE @]
    IN  /\ phase # "down" /\ job[b].pc = "scan"
        /\ \/ /\ Writable                      \* the file cannot be read
              /\ \E o \in Outcomes :
                   /\ Progress(o)
                   /\ job' = IF o # "ok" THEN Dismiss(b) ELSE [next EXCEPT ![b].bad = TRUE]
              /\ UNCHANGED stage
           \/ /\ Writable
              /\ \E c \in Contents, o \in Outcomes :
                   /\ Progress(o)
                   /\ stage' = [stage EXCEPT ![b][t] = c]
                   /\ job' = IF o # "ok" THEN Dismiss(b)
                             ELSE [next EXCEPT ![b].doc.list[t] = c,
                                               ![b].bad = @ \/ c \in Bad]
           \/ /\ Writable                      \* the snapshot cannot be saved
              /\ Progress("lost")
              /\ job' = Dismiss(b) /\ UNCHANGED stage
           \/ /\ ~Writable /\ job' = Dismiss(b)
              /\ UNCHANGED <<fault, batches, batchDisk, outages, stage>>
        /\ UNCHANGED <<phase, tasks, reserved, running, taskDisk, manifest, damaged,
                       imports, submits>>

\* A recovered worker checks one snapshot against the list.
VerifyFile(b) ==
    LET t == First(job[b].todo)
        rest == job[b].todo \ {t}
    IN  /\ phase # "down" /\ job[b].pc = "verify"
        /\ job' = [job EXCEPT ![b].todo = rest,
                              ![b].pc = IF rest = {} THEN "decide" ELSE @,
                              ![b].bad = @ \/ Snapshot(b, t) # job[b].doc.list[t]]
        /\ UNCHANGED <<phase, fault, batches, tasks, reserved, running, onDisk, damaged,
                       imports, submits, outages>>

\* Mistake: bad manifests are left out and the others are committed.
RejectsIfNone(b) == Listed(job[b].doc) = {}

\* One issue in one manifest rejects the batch.
Rejects(b) == job[b].bad

\* The end of importWorker: report, then reject or begin the commit.
Decide(b) ==
    LET rejected == [job[b].doc EXCEPT !.state = "rejected"]
        complete == [job[b].doc EXCEPT !.complete = TRUE]
    IN  /\ phase # "down" /\ job[b].pc = "decide"
        /\ \/ /\ ~Writable /\ job' = Dismiss(b)
              /\ UNCHANGED <<fault, batches, batchDisk, reserved, outages>>
           \/ /\ Writable /\ Wrote("lost")     \* validation.json
              /\ job' = Dismiss(b) /\ UNCHANGED <<batches, batchDisk, reserved>>
           \/ /\ Writable /\ Rejects(b)
              /\ \E o \in Outcomes : SaveBatch(b, rejected, o) /\ Wrote(o)
              /\ job' = Dismiss(b) /\ UNCHANGED reserved
           \/ /\ Writable /\ ~Rejects(b)
              /\ \E o \in Outcomes :
                   /\ SaveBatch(b, complete, o) /\ Wrote(o)
                   /\ IF o = "ok" THEN BeginCommit(b, b, complete)
                      ELSE job' = Dismiss(b) /\ UNCHANGED reserved
        /\ UNCHANGED <<phase, tasks, running, taskDisk, stage, manifest, damaged,
                       imports, submits>>

------------------------------------------------------------------------------
(***************************************************************************)
(* Submission of a single manifest.                                        *)
(***************************************************************************)
\* The upload is stored in a directory of its own.
Upload(c) ==
    /\ job[c].pc = "none" /\ Writable /\ submits < MaxSubmits
    /\ submits' = submits + 1
    /\ \E s \in Singles, x \in Contents, o \in Outcomes :
         /\ Wrote(o)
         /\ job' = IF o # "ok" THEN job
                   ELSE [job EXCEPT ![c] =
                     [NoJob EXCEPT !.pc = "uploaded", !.batch = s,
                        !.doc = [state |-> "validating", gen |-> 1, complete |-> TRUE,
                                 list |-> [t \in Tasks |-> IF t \in TasksOf[s] THEN x
                                                           ELSE "none"]]]]
    /\ UNCHANGED <<phase, batches, tasks, reserved, running, onDisk, damaged, imports>>

\* Mistake: the task id is not looked up before the batch is written.
HeldNever(t) == FALSE

\* The task exists: answer with it, or with a conflict.
Held(t) == tasks[t] # NoTask

\* The critical section of SubmitSingle up to the unlock in the commit.
Register(c) ==
    LET s == job[c].batch
        d == job[c].doc
        t == First(TasksOf[s])
        staged == [stage EXCEPT ![s][t] = d.list[t]]
        refused == job' = Dismiss(c) /\ UNCHANGED <<batches, batchDisk, reserved, fault, outages>>
    IN  /\ phase # "down" /\ job[c].pc = "uploaded"
        /\ \/ (~Writable \/ t \in reserved) /\ refused /\ UNCHANGED stage
           \/ /\ Writable /\ t \notin reserved
              /\ d.list[t] \in Bad \/ Held(t)
              /\ stage' = staged /\ refused
           \/ /\ Writable /\ t \notin reserved      \* the snapshot cannot be saved
              /\ \E o \in Outcomes \ {"ok"} :
                   /\ stage' = IF o = "lost" THEN stage ELSE staged
                   /\ Wrote(o)
              /\ job' = Dismiss(c) /\ UNCHANGED <<batches, batchDisk, reserved>>
           \/ /\ Writable /\ t \notin reserved
              /\ d.list[t] \in Good /\ ~Held(t)
              /\ stage' = staged
              /\ \/ \E o \in Outcomes :
                      /\ SaveBatch(s, d, o) /\ Wrote(o)
                      /\ IF o = "ok" THEN BeginCommit(c, s, d)
                         ELSE job' = Dismiss(c) /\ UNCHANGED reserved
                 \/ /\ SaveBatch(s, d, "ok") /\ Wrote("lost")   \* validation.json
                    /\ job' = Dismiss(c) /\ UNCHANGED reserved
        /\ UNCHANGED <<phase, tasks, running, taskDisk, manifest, damaged, imports, submits>>

------------------------------------------------------------------------------
(***************************************************************************)
(* The scheduler, as far as it meets imports.                              *)
(***************************************************************************)
\* loop: only tasks of a committed batch, of its generation, are dispatched.
Dispatch(t) ==
    /\ Writable /\ t \notin running
    /\ tasks[t] # NoTask /\ tasks[t].st # "blocked"
    /\ batches[tasks[t].batch].state = "ready"
    /\ batches[tasks[t].batch].gen = tasks[t].gen
    /\ LET begun == [tasks[t] EXCEPT !.st = IF manifest[t] = tasks[t].content
                                            THEN "begun" ELSE "blocked"]
       IN  /\ tasks' = [tasks EXCEPT ![t] = begun]
           /\ taskDisk' = [taskDisk EXCEPT ![t] = begun]
           /\ running' = IF begun.st = "begun" THEN running \cup {t} ELSE running
    /\ UNCHANGED <<phase, fault, batches, reserved, job, batchDisk, stage, manifest,
                   damaged, imports, submits, outages>>

\* finish: the execution ends and its slot is freed.
End(t) ==
    /\ t \in running /\ running' = running \ {t}
    /\ UNCHANGED <<phase, fault, batches, tasks, reserved, job, onDisk, damaged, imports,
                   submits, outages>>

------------------------------------------------------------------------------
(***************************************************************************)
(* Shutdown, crash and restart.                                            *)
(***************************************************************************)
BeginShutdown ==
    /\ phase = "serving" /\ (fault \/ outages < MaxOutages)
    /\ phase' = "stopping" /\ outages' = IF fault THEN outages ELSE outages + 1
    /\ UNCHANGED <<fault, batches, tasks, reserved, running, job, onDisk, damaged, imports,
                   submits>>

\* The memory of a controller that is gone.
Gone ==
    /\ phase' = "down" /\ fault' = FALSE
    /\ batches' = [b \in Batches |-> NoBatch] /\ tasks' = [t \in Tasks |-> NoTask]
    /\ reserved' = {} /\ running' = {} /\ job' = [a \in Actors |-> NoJob]

\* Close waits for every worker, client and execution.
Exit ==
    /\ phase = "stopping" /\ running = {} /\ \A a \in Actors : job[a] = NoJob
    /\ Gone
    /\ UNCHANGED <<onDisk, damaged, imports, submits, outages>>

Crash ==
    /\ phase # "down" /\ (fault \/ outages < MaxOutages)
    /\ outages' = IF fault THEN outages ELSE outages + 1
    /\ Gone
    /\ UNCHANGED <<onDisk, damaged, imports, submits>>

\* load(): a damaged document is kept out of the way; an import without all
\* its snapshots is rejected.
Loaded(b) ==
    CASE batchDisk[b].state = "damaged" -> [NoBatch EXCEPT !.state = "blocked"]
      [] batchDisk[b].state = "validating" /\ ~batchDisk[b].complete ->
            [batchDisk[b] EXCEPT !.state = "rejected"]
      [] OTHER -> batchDisk[b]

\* The batches committed with task t.
ReadyWith(t) == {b \in Batches : batchDisk[b].state = "ready" /\ batchDisk[b].list[t] # "none"}

\* load() and Start: a task is loaded for its committed batch, or stands in as
\* blocked when its document does not match; every batch that is still
\* validating gets a worker.
Boot ==
    /\ phase = "down" /\ phase' = "serving"
    /\ batches' = [b \in Batches |-> Loaded(b)]
    /\ batchDisk' = [b \in Batches |-> IF batchDisk[b].state = "damaged" THEN batchDisk[b]
                                       ELSE Loaded(b)]
    /\ tasks' = [t \in Tasks |->
            IF ReadyWith(t) = {} THEN NoTask
            ELSE LET b == CHOOSE b \in ReadyWith(t) : TRUE
                     new == TaskFor(b, batchDisk[b], t)
                 IN  IF /\ taskDisk[t] # NoTask
                        /\ [taskDisk[t] EXCEPT !.st = "queued"] = new
                     THEN taskDisk[t] ELSE [new EXCEPT !.st = "blocked"]]
    /\ job' = [a \in Actors |->
            IF a \in Batches
            THEN IF Loaded(a).state = "validating"
                 THEN [NoJob EXCEPT !.pc = "gate", !.batch = a, !.doc = Loaded(a)]
                 ELSE NoJob
            ELSE NoJob]
    /\ UNCHANGED <<fault, reserved, running, taskDisk, stage, manifest, damaged, imports,
                   submits, outages>>

\* While the service is stopped a batch document or a snapshot is damaged, or
\* a snapshot of a committed batch is cleaned away (README.md:230).
Damage(b) ==
    /\ phase = "down" /\ b \notin damaged /\ Cardinality(damaged) < MaxDamage
    /\ batchDisk[b].state # "absent"
    /\ damaged' = damaged \cup {b}
    /\ \/ /\ batchDisk' = [batchDisk EXCEPT ![b] = [NoBatch EXCEPT !.state = "damaged"]]
          /\ UNCHANGED stage
       \/ /\ \E t \in TasksOf[b] : stage' = [stage EXCEPT ![b][t] = "none"]
          /\ UNCHANGED batchDisk
    /\ UNCHANGED <<volatile, taskDisk, manifest, imports, submits, outages>>

Commit(a) == Publish(a) \/ Seal(a)
Work(b) == Enter(b) \/ DiscoverFiles(b) \/ ScanFile(b) \/ VerifyFile(b) \/ Decide(b)

Next ==
    \/ \E b \in ImportBatches : Import(b)
    \/ \E b \in Batches : Work(b) \/ Damage(b)
    \/ \E c \in Clients : Upload(c) \/ Register(c)
    \/ \E a \in Actors : Commit(a)
    \/ \E t \in Tasks : Dispatch(t) \/ End(t)
    \/ BeginShutdown \/ Exit \/ Crash \/ Boot

Spec == Init /\ [][Next]_vars

------------------------------------------------------------------------------
(***************************************************************************)
(* Safety.                                                                 *)
(***************************************************************************)

\* The commit mark covers everything: whatever failed or crashed on the way, a
\* batch that is ready on disk has all its tasks there, with the generation and
\* the very bytes it lists.
Complete(b) ==
    batchDisk[b].state = "ready" =>
        \A t \in Listed(batchDisk[b]) :
            /\ taskDisk[t] # NoTask
            /\ taskDisk[t].batch = b /\ taskDisk[t].gen = batchDisk[b].gen
            /\ taskDisk[t].content = batchDisk[b].list[t]
            /\ manifest[t] = batchDisk[b].list[t]

CommitComplete == \A b \in Batches : Complete(b)

\* A task can be seen, and run, only when its batch is committed on disk and
\* every manifest of the batch is valid: one bad manifest, and no task of the
\* batch runs (README.md:91).
Visible(t) ==
    LET b == batchDisk[tasks[t].batch]
    IN  /\ b.state = "ready" /\ t \in Listed(b)
        /\ tasks[t].gen = b.gen /\ tasks[t].content = b.list[t]
        /\ \A u \in Listed(b) : b.list[u] \in Good

VisibleIsCommitted == \A t \in Tasks : tasks[t] # NoTask => Visible(t)

\* No task is committed by two batches: an import and a submission that meet
\* on the same task id never both win.
OneBatchPerTask ==
    \A a, b \in Batches : a # b /\ {batchDisk[a].state, batchDisk[b].state} = {"ready"} =>
        Listed(batchDisk[a]) \cap Listed(batchDisk[b]) = {}

\* An import that claims complete snapshots has them: a crash from there on
\* loses nothing, unless somebody removes the files.
Recoverable ==
    \A b \in ImportBatches \ damaged :
        batchDisk[b].state = "validating" /\ batchDisk[b].complete =>
            /\ Listed(batchDisk[b]) # {}
            /\ \A t \in Listed(batchDisk[b]) : Snapshot(b, t) = batchDisk[b].list[t]

\* How far the batches in X are, and what each name stands for on disk, by the
\* commit marks of these batches.
Standing(d) ==
    CASE d.state = "validating" -> "pending"
      [] d.state = "ready" -> "committed"
      [] d.state \in {"absent", "rejected"} -> d.state
      [] OTHER -> "damaged"
Status(X) == [b \in X |-> Standing(batchDisk[b])]
Holds(X) ==
    [t \in Tasks |->
        {[batch |-> b,
          content |-> IF /\ taskDisk[t] # NoTask /\ taskDisk[t].batch = b
                         /\ taskDisk[t].gen = batchDisk[b].gen
                      THEN taskDisk[t].content ELSE "none",
          snapshot |-> manifest[t]] : b \in ReadyWith(t) \cap X}]

\* An import is atomic: seen from the disk, where a crash may come at any time,
\* its tasks appear together, complete, valid and under free names, when the
\* batch document says "ready", and stay as they are; those of an import that
\* is rejected, fails or is lost in a crash never do.
Imports == INSTANCE BatchContract WITH
    Batches <- ImportBatches, Guarded <- ImportBatches,
    status <- Status(ImportBatches), holds <- Holds(ImportBatches)
AtomicImport == Imports!Spec

\* A committed batch is never overwritten (README.md:97).
CommittedIsFinal ==
    [][phase # "down" => \A b \in Batches :
        batchDisk[b].state = "ready" => batchDisk'[b] = batchDisk[b]]_vars

\* A task that has been executed is never replaced by a new one of its name,
\* which would forget its attempts under a running execution, unless the
\* document of its batch is damaged: its tasks are then not loaded at all
\* (recovery.go:46-50), and their names are free.
HistoryKept ==
    [][\A t \in Tasks :
        taskDisk[t].st = "begun" /\ taskDisk[t].batch \notin damaged
            => taskDisk'[t].st # "queued"]_vars

------------------------------------------------------------------------------
(***************************************************************************)
(* Progress.                                                               *)
(***************************************************************************)

\* Workers, clients and executions that can go on do.
Fairness ==
    /\ \A b \in Batches : WF_vars(Work(b))
    /\ \A a \in Actors : WF_vars(Commit(a))

FairSpec == Spec /\ Fairness

\* Every import of a healthy controller is decided, also one recovered after
\* a crash and one that waits for another.
ImportEnds ==
    \A b \in Batches :
        Writable /\ batches[b].state = "validating"
            ~> ~Writable \/ batches[b].state # "validating" \/ Clash(b, batches[b])
==============================================================================
