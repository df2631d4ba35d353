--------------------------- MODULE BatchImportProofs ---------------------------
(***************************************************************************)
(* BatchImport is correct for any batches, tasks, clients and manifests,   *)
(* and any number of failures, crashes and restarts.  A single batch can   *)
(* be harmed by a client that submits its manifest again while a worker    *)
(* that was recovered after a crash still has it; the code does not see to *)
(* that (the run "resubmit").  So every fact is about the batches outside  *)
(* a set M of singles, and assumes of the others that it does not happen   *)
(* to them (Apart).  With M empty it is about all batches; with all        *)
(* singles in M it is about imports and assumes nothing.                   *)
(*                                                                         *)
(* The argument: a job that publishes has its batch to itself, and has     *)
(* reserved the names of its tasks, which no committed batch lists         *)
(* (Committer, Disjoint).  It got there because a name that is reserved or *)
(* taken stops a commit (Checked), because memory knows every committed    *)
(* task (Known), and because after a failed write, when memory and disk    *)
(* may differ (Coherent), no commit begins.  This much holds for M too,    *)
(* which is why no name is ever committed twice.                           *)
(***************************************************************************)
EXTENDS BatchImport, FiniteSetTheorems, WellFoundedInduction, TLAPS

\* No upload is registered while a recovered worker has its batch under way,
\* unless the batch is one of M.
Apart(M) ==
    [][\A c \in Clients :
        Register(c) => job[c].batch \in M \/ job[job[c].batch].pc = "none"]_vars

Early == {"gate", "discover", "scan", "verify", "decide"}
Working(a) == job[a].pc \in Early
Committing(a) == job[a].pc \in {"publish", "seal"}
Bound(a) == Working(a) \/ Committing(a)

------------------------------------------------------------------------------
\* A document that may be committed.
Whole(b, d) ==
    /\ Listed(d) # {} /\ \A t \in Listed(d) : d.list[t] \in Good
    /\ b \in Singles => Listed(d) = TasksOf[b]

\* A document on disk that is complete is whole.
Document(b) ==
    /\ batchDisk[b].state = "ready" => Whole(b, batchDisk[b])
    /\ batchDisk[b].state = "validating" =>
        /\ batchDisk[b].complete = TRUE => Whole(b, batchDisk[b])
        /\ batchDisk[b].complete = FALSE => b \in ImportBatches

\* A task that has begun belongs to a committed batch.
BegunTask(M, t) ==
    taskDisk[t].st = "begun" /\ taskDisk[t].batch \notin damaged \cup M =>
        LET b == batchDisk[taskDisk[t].batch]
        IN  b.state = "ready" /\ t \in Listed(b)

\* A complete import has every snapshot staged.
StagedBatch(b) ==
    b \notin damaged /\ batchDisk[b].state = "validating" /\ batchDisk[b].complete = TRUE =>
        \A t \in Listed(batchDisk[b]) : stage[b][t] = batchDisk[b].list[t]

Disk(M) ==
    /\ \A b \in Batches : Document(b)
    /\ \A t \in Tasks : BegunTask(M, t)
    /\ \A b \in ImportBatches : StagedBatch(b)
    /\ \A b \in Batches \ M : Complete(b)
    /\ OneBatchPerTask

------------------------------------------------------------------------------
\* A controller that is gone has no memory.
Forgotten == phase = "down" =>
    /\ fault = FALSE /\ reserved = {}
    /\ \A t \in Tasks : tasks[t] = NoTask
    /\ \A a \in Actors : job[a] = NoJob

\* The memory of a healthy controller agrees with the disk, and it knows the
\* tasks of all committed batches.
Coherent(b) ==
    \/ batches[b] = batchDisk[b]
    \/ batches[b].state = "blocked" /\ batchDisk[b].state = "damaged"

Known(b) == batches[b].state = "ready" =>
    \A t \in Listed(batches[b]) : tasks[t] # NoTask /\ tasks[t].batch = b

\* A task that can be seen is one of its batch.
Seen(M, t) == tasks[t] # NoTask =>
    IF tasks[t].batch \in M THEN t \in TasksOf[tasks[t].batch] ELSE Visible(t)

Memory(M) ==
    /\ Forgotten
    /\ phase # "down" /\ fault = FALSE => \A b \in Batches : Coherent(b) /\ Known(b)
    /\ \A t \in Tasks : Seen(M, t)

------------------------------------------------------------------------------
\* Workers never upload, clients never scan.
Role(a) ==
    /\ a \in Batches => job[a].pc # "uploaded" /\ (job[a].pc # "none" => job[a].batch = a)
    /\ a \in Clients =>
        /\ job[a].pc \in {"none", "uploaded", "publish", "seal"}
        /\ job[a].pc # "none" => job[a].batch \in Singles
        /\ job[a].pc = "uploaded" =>
            /\ job[a].doc.state = "validating" /\ job[a].doc.complete = TRUE
            /\ Listed(job[a].doc) = TasksOf[job[a].batch]

\* What a worker carries is what the disk holds, until it knows more.
Worker(M, b) ==
    LET d == job[b].doc
    IN  /\ d.state = "validating"
        /\ d.complete = TRUE => Whole(b, d) /\ job[b].pc \in {"gate", "verify", "decide"}
        /\ d.complete = FALSE => b \in ImportBatches /\ job[b].pc # "verify"
        /\ b \notin M =>
            /\ batchDisk[b].state = "validating"
            /\ d.complete = TRUE => d = batchDisk[b]
            /\ d.complete = FALSE => batchDisk[b].complete = FALSE
        /\ job[b].pc \in {"scan", "verify"} => job[b].todo # {}
        /\ job[b].pc \in {"gate", "discover", "decide"} => job[b].todo = {}

\* What was scanned is staged, and one issue is remembered.
Scanner(b) == job[b].doc.complete = FALSE =>
    /\ job[b].pc \in {"gate", "discover"} => Listed(job[b].doc) = {}
    /\ \A t \in Listed(job[b].doc) :
        /\ stage[b][t] = job[b].doc.list[t]
        /\ job[b].bad = FALSE => job[b].doc.list[t] \in Good
    /\ job[b].pc = "decide" /\ job[b].bad = FALSE => Listed(job[b].doc) # {}

\* What was verified is still so, unless somebody else has taken the name.
Taken(t) == t \in reserved \/ tasks[t] # NoTask \/ fault = TRUE \/ phase # "serving"

Checked(M, b) ==
    /\ job[b].pc \in {"verify", "decide"} /\ job[b].bad = FALSE /\ job[b].doc.complete = TRUE
    /\ b \notin M
    => \A t \in Listed(job[b].doc) \ job[b].todo :
        Snapshot(b, t) = job[b].doc.list[t] \/ Taken(t)

\* A name that nobody has committed.
Unlisted(t) == \A x \in Batches : batchDisk[x].state = "ready" => t \notin Listed(batchDisk[x])

\* What a committer has published is what he read and checked.
Owner(a) ==
    LET d == job[a].doc
        b == job[a].batch
    IN  /\ d = batchDisk[b]
        /\ a \in Clients => job[b].pc = "none"
        /\ \A t \in Listed(d) : Snapshot(b, t) = d.list[t]
        /\ job[a].bad = FALSE =>
            \A t \in Listed(d) \ job[a].todo :
                taskDisk[t] = TaskFor(b, d, t) /\ manifest[t] = d.list[t]

\* Who publishes has the names of the batch to himself, and the batch too.
Committer(M, a) ==
    LET d == job[a].doc
        b == job[a].batch
    IN  /\ d.state = "validating" /\ d.complete = TRUE /\ Whole(b, d)
        /\ batchDisk[b].state # "ready"
        /\ Listed(d) \subseteq reserved
        /\ \A t \in Listed(d) : Unlisted(t)
        /\ job[a].todo \subseteq Listed(d)
        /\ job[a].pc = "publish" => job[a].todo # {} /\ job[a].bad = FALSE
        /\ job[a].pc = "seal" /\ job[a].bad = FALSE => job[a].todo = {}
        /\ b \notin M => Owner(a)

Actor(M, a) ==
    /\ Role(a)
    /\ Working(a) => Worker(M, a) /\ Scanner(a) /\ Checked(M, a)
    /\ Committing(a) => Committer(M, a)

Disjoint == \A a, c \in Actors : a # c /\ Committing(a) /\ Committing(c) =>
    Listed(job[a].doc) \cap Listed(job[c].doc) = {}

Inv(M) == TypeOK /\ Disk(M) /\ Memory(M) /\ (\A a \in Actors : Actor(M, a)) /\ Disjoint

------------------------------------------------------------------------------
\* There is a first task among some.
LEMMA FirstExists ==
  ASSUME NEW S \in SUBSET Tasks, S # {}
  PROVE  First(S) \in S
<1> DEFINE R == OpToRel(<, Nat)
<1>1. S \subseteq Nat
  BY ImportAssumption
<1>2. IsWellFoundedOn(R, Nat)
  BY NatLessThanWellFounded
<1>3. \A x, y \in Nat : <<y, x>> \in R <=> y < x
  BY DEF OpToRel
<1> HIDE DEF R
<1>4. PICK x \in S : \A y \in S : ~ (<<y, x>> \in R)
  BY <1>1, <1>2, WFMin
<1>5. \A y \in S : ~ (y < x)
  BY <1>1, <1>3, <1>4, Zenon
<1>6. \A y \in S : x <= y
  BY <1>1, <1>5
<1>7. QED BY <1>6 DEF First

\* A single batch has one task.
LEMMA OneTask ==
  ASSUME NEW s \in Singles
  PROVE  First(TasksOf[s]) \in Tasks /\ TasksOf[s] = {First(TasksOf[s])}
<1>1. s \in Batches /\ TasksOf[s] \in SUBSET Tasks /\ Cardinality(TasksOf[s]) = 1
      /\ TasksOf[s] # {}
  BY ImportAssumption DEF Batches
<1>2. IsFiniteSet(TasksOf[s])
  BY <1>1, ImportAssumption, FS_Subset
<1>3. PICK t : TasksOf[s] = {t}
  BY <1>1, <1>2, FS_Singleton
<1>4. First(TasksOf[s]) \in TasksOf[s]
  BY <1>1, FirstExists
<1>5. QED BY <1>1, <1>3, <1>4

\* No job is a job, and carries no document.
LEMMA NoJobIsOne ==
  /\ NoJob \in Jobs /\ NoJob.pc = "none" /\ NoJob.bad = FALSE /\ NoJob.todo = {}
  /\ NoBatch \in BatchDocs /\ Listed(NoBatch) = {} /\ NoBatch.state = "absent"
  /\ NoBatch.complete = FALSE /\ Nothing \in Lists
  BY DEF NoJob, NoBatch, Jobs, BatchDocs, Lists, Nothing, Listed

\* The actors have jobs, and the batches documents.
LEMMA Typed ==
  ASSUME TypeOK
  PROVE  /\ \A a \in Actors : job[a] \in Jobs
         /\ \A b \in Batches : batches[b] \in BatchDocs /\ batchDisk[b] \in BatchDocs
         /\ \A b \in Batches : stage[b] \in Lists
         /\ \A t \in Tasks : tasks[t] \in TaskDocs \cup {NoTask}
                             /\ taskDisk[t] \in TaskDocs \cup {NoTask}
                             /\ manifest[t] \in Contents \cup {"none"}
  BY DEF TypeOK, Lists

\* What a job carries.
LEMMA JobTyped ==
  ASSUME TypeOK, NEW a \in Actors
  PROVE  /\ job[a] \in Jobs /\ job[a].batch \in Batches \cup {"none"}
         /\ job[a].doc \in BatchDocs /\ Listed(job[a].doc) \in SUBSET Tasks
         /\ job[a].todo \in SUBSET Tasks /\ job[a].bad \in BOOLEAN
         /\ job[a].doc.complete \in BOOLEAN
         /\ \A t \in Tasks : job[a].doc.list[t] \in Contents \cup {"none"}
         /\ \A t \in Listed(job[a].doc) : job[a].doc.list[t] \in Contents
<1>1. job[a] \in Jobs
  BY Typed
<1>2. job[a].doc \in BatchDocs
  BY <1>1 DEF Jobs
<1>3. job[a].doc.list \in Lists /\ job[a].doc.complete \in BOOLEAN
  BY <1>2 DEF BatchDocs
<1>4. QED BY <1>1, <1>2, <1>3 DEF Jobs, Lists, Listed

\* The controller starts with nothing.
LEMMA InitInv ==
  ASSUME NEW M \in SUBSET Singles, Init
  PROVE  Inv(M)
<1>1. TypeOK
  BY NoJobIsOne DEF Init, TypeOK
<1>2. Disk(M)
  <2>1. /\ \A b \in Batches : batchDisk[b].state = "absent"
        /\ \A t \in Tasks : taskDisk[t].st = "absent"
    BY NoJobIsOne DEF Init, NoTask
  <2>2. \A b \in Batches : Document(b)
    BY <2>1 DEF Document
  <2>3. \A t \in Tasks : BegunTask(M, t)
    BY <2>1 DEF BegunTask
  <2>4. \A b \in ImportBatches : StagedBatch(b)
    BY <2>1 DEF StagedBatch, Batches
  <2>5. (\A b \in Batches \ M : Complete(b)) /\ OneBatchPerTask
    BY <2>1 DEF Complete, OneBatchPerTask
  <2>6. QED BY <2>2, <2>3, <2>4, <2>5 DEF Disk
<1>3. Memory(M)
  BY NoJobIsOne DEF Init, Memory, Forgotten, Coherent, Known, Seen
<1>4. \A a \in Actors : job[a].pc = "none"
  BY NoJobIsOne DEF Init
<1>5. (\A a \in Actors : Actor(M, a)) /\ Disjoint
  BY <1>4, ImportAssumption DEF Actor, Role, Working, Early, Committing, Disjoint, Actors
<1>6. QED BY <1>1, <1>2, <1>3, <1>5 DEF Inv

------------------------------------------------------------------------------
\* A job that is bound to a batch has a batch that is not committed, unless
\* somebody else may have it too.
LEMMA BoundBatch ==
  ASSUME NEW M \in SUBSET Singles, Inv(M), NEW a \in Actors, Bound(a)
  PROVE  /\ job[a].batch \in Batches /\ (a \in Batches => job[a].batch = a)
         /\ phase # "down"
         /\ job[a].batch \notin M => batchDisk[job[a].batch].state = "validating"
         /\ Committing(a) => Whole(job[a].batch, job[a].doc)
<1>1. job[a].pc # "none" /\ Actor(M, a)
  BY DEF Inv, Bound, Working, Early, Committing
<1>2. job[a].batch \in Batches /\ (a \in Batches => job[a].batch = a)
  BY <1>1 DEF Actor, Role, Actors, Batches
<1>3. phase # "down"
  BY <1>1, NoJobIsOne DEF Inv, Memory, Forgotten
<1>4. CASE Working(a)
  <2>1. a \in Batches
    BY <1>1, <1>4 DEF Actor, Role, Actors, Working, Early
  <2>2. a \notin M => batchDisk[a].state = "validating"
    BY <1>1, <1>4 DEF Actor, Worker
  <2>3. ~Committing(a)
    BY <1>4 DEF Working, Committing, Early
  <2>4. QED BY <1>2, <1>3, <2>1, <2>2, <2>3
<1>5. CASE Committing(a)
  BY <1>1, <1>2, <1>3, <1>5 DEF Actor, Committer, Owner
<1>6. QED BY <1>4, <1>5 DEF Bound

\* No two jobs are bound to the same batch, unless it is one of M; and no two
\* commit the same batch.
LEMMA BoundApart ==
  ASSUME NEW M \in SUBSET Singles, Inv(M),
         NEW a \in Actors, NEW c \in Actors, a # c, Bound(a), Bound(c),
         job[a].batch = job[c].batch
  PROVE  job[a].batch \in M /\ ~(Committing(a) /\ Committing(c))
<1>1. /\ \A x \in Actors : Actor(M, x)
      /\ (a \in Batches => job[a].batch = a) /\ (c \in Batches => job[c].batch = c)
  BY BoundBatch DEF Inv
<1>2. job[a].pc # "none" /\ job[c].pc # "none"
  BY DEF Bound, Working, Committing, Early
<1>3. ~(a \in Batches /\ c \in Batches)
  BY <1>1
<1>4. ASSUME NEW x \in Actors, NEW y \in Actors, x \in Clients, Bound(x), y \in Batches,
             job[y].pc # "none", job[x].batch = y
      PROVE  y \in M
  <2>1. Committing(x)
    BY <1>1, <1>4, ImportAssumption DEF Actor, Role, Bound, Working, Early
  <2>2. QED BY <1>1, <1>4, <2>1 DEF Actor, Committer, Owner
<1>5. ASSUME Committing(a), Committing(c) PROVE FALSE
  <2>1. Whole(job[a].batch, job[a].doc) /\ Whole(job[a].batch, job[c].doc)
    BY <1>1, <1>5 DEF Actor, Committer
  <2>2. Listed(job[a].doc) \cap Listed(job[c].doc) = {}
    BY <1>5 DEF Inv, Disjoint
  <2>3. job[a].batch \notin Singles
    BY <2>1, <2>2 DEF Whole
  <2>4. job[a].batch \notin M
    BY <2>3
  <2>5. job[a].doc = job[c].doc
    BY <1>1, <1>5, <2>4 DEF Actor, Committer, Owner
  <2>6. QED BY <2>1, <2>2, <2>5 DEF Whole
<1>6. CASE a \in Clients /\ c \in Clients
  <2>1. Committing(a) /\ Committing(c)
    BY <1>1, <1>6 DEF Actor, Role, Bound, Working, Early
  <2>2. QED BY <1>5, <2>1
<1>7. QED BY <1>1, <1>2, <1>3, <1>4, <1>5, <1>6 DEF Actors

\* A job stays as it is, and nothing it has seen changes under it.
LEMMA ActorFrame ==
  ASSUME NEW M \in SUBSET Singles, Inv(M), NEW a \in Actors, job'[a] = job[a],
         Bound(a) /\ job[a].batch \notin M =>
            /\ batchDisk'[job[a].batch] = batchDisk[job[a].batch]
            /\ stage'[job[a].batch] = stage[job[a].batch],
         Working(a) /\ job[a].doc.complete = FALSE => stage'[a] = stage[a],
         \A t \in Tasks : Taken(t) => Taken(t)',
         \A t \in Tasks : manifest'[t] = manifest[t] \/ Taken(t)',
         Committing(a) =>
            /\ Listed(job[a].doc) \subseteq reserved'
            /\ \A t \in Listed(job[a].doc) :
                manifest'[t] = manifest[t] /\ taskDisk'[t] = taskDisk[t] /\ Unlisted(t)'
            /\ job[a].batch \in M => batchDisk'[job[a].batch].state # "ready"
            /\ a \in Clients /\ job[a].batch \notin M => job'[job[a].batch].pc = "none"
  PROVE  Actor(M, a)'
<1>1. Actor(M, a) /\ Role(a)'
  BY DEF Inv, Actor, Role
<1>2. ASSUME Working(a) PROVE Worker(M, a)' /\ Scanner(a)' /\ Checked(M, a)'
  <2>1. /\ a \in Batches /\ job[a].batch = a
        /\ a \notin M => batchDisk'[a] = batchDisk[a] /\ stage'[a] = stage[a]
    BY <1>1, <1>2 DEF Actor, Role, Actors, Working, Early, Bound
  <2>2. Worker(M, a) /\ Scanner(a) /\ Checked(M, a)
    BY <1>1, <1>2 DEF Actor
  <2>3. Worker(M, a)'
    BY <2>1, <2>2 DEF Worker, Whole, Listed
  <2>4. Scanner(a)'
    BY <1>2, <2>1, <2>2 DEF Scanner, Listed
  <2>5. ASSUME job[a].pc \in {"verify", "decide"}, job[a].bad = FALSE,
               job[a].doc.complete = TRUE, a \notin M,
               NEW t \in Listed(job[a].doc) \ job[a].todo
        PROVE  Snapshot(a, t)' = job[a].doc.list[t] \/ Taken(t)'
    <3>1. t \in Tasks
      BY <2>5 DEF Listed
    <3>2. Snapshot(a, t) = job[a].doc.list[t] \/ Taken(t)
      BY <2>2, <2>5 DEF Checked
    <3>3. QED BY <2>1, <2>5, <3>1, <3>2 DEF Snapshot
  <2>6. Checked(M, a)'
    BY <2>5 DEF Checked, Listed
  <2>7. QED BY <2>3, <2>4, <2>6
<1>3. ASSUME Committing(a) PROVE Committer(M, a)'
  <2> DEFINE d == job[a].doc
             b == job[a].batch
  <2>1. Committer(M, a) /\ Bound(a) /\ b \in Batches
    BY <1>1, <1>3, BoundBatch DEF Actor, Bound
  <2>2. /\ job'[a].doc = d /\ job'[a].batch = b /\ job'[a].pc = job[a].pc
        /\ job'[a].todo = job[a].todo /\ job'[a].bad = job[a].bad
    OBVIOUS
  <2>3. batchDisk'[b].state # "ready"
    BY <1>3, <2>1 DEF Committer
  <2>4. ASSUME b \notin M PROVE Owner(a)'
    <3>1. Owner(a) /\ batchDisk'[b] = batchDisk[b] /\ stage'[b] = stage[b]
      BY <2>1, <2>4 DEF Committer
    <3>2. /\ d = batchDisk'[b] /\ (a \in Clients => job'[b].pc = "none")
      BY <1>3, <2>4, <3>1 DEF Owner
    <3>3. \A t \in Listed(d) : Snapshot(b, t)' = d.list[t]
      BY <1>3, <3>1 DEF Owner, Snapshot
    <3>4. job[a].bad = FALSE => \A t \in Listed(d) \ job[a].todo :
              taskDisk'[t] = TaskFor(b, d, t) /\ manifest'[t] = d.list[t]
      BY <1>3, <3>1 DEF Owner
    <3>5. Listed(job[a].doc)' = Listed(d)
      BY <2>2 DEF Listed
    <3>6. (\A t \in Listed(job[a].doc) : Snapshot(job[a].batch, t) = job[a].doc.list[t])'
      BY <2>2, <3>3, <3>5 DEF Snapshot
    <3>7. (job[a].bad = FALSE => \A t \in Listed(job[a].doc) \ job[a].todo :
            taskDisk[t] = TaskFor(job[a].batch, job[a].doc, t)
            /\ manifest[t] = job[a].doc.list[t])'
      BY <2>2, <3>4, <3>5 DEF TaskFor
    <3>8. (job[a].doc = batchDisk[job[a].batch])'
          /\ (a \in Clients => job[job[a].batch].pc = "none")'
      BY <2>2, <3>2
    <3>9. QED BY <3>6, <3>7, <3>8 DEF Owner
  <2>5. \A t \in Listed(d) : Unlisted(t)'
    BY <1>3
  <2>6. Whole(b, d) /\ (Whole(b, d) <=> Whole(job[a].batch, job[a].doc)')
    BY <2>1, <2>2 DEF Committer, Whole, Listed
  <2>7. Listed(job[a].doc)' = Listed(d)
    BY <2>2 DEF Listed
  <2>8. /\ d.state = "validating" /\ d.complete = TRUE /\ Listed(d) \subseteq reserved'
        /\ job[a].todo \subseteq Listed(d)
        /\ job[a].pc = "publish" => job[a].todo # {} /\ job[a].bad = FALSE
        /\ job[a].pc = "seal" /\ job[a].bad = FALSE => job[a].todo = {}
    BY <1>3, <2>1 DEF Committer
  <2>9. (\A t \in Listed(job[a].doc) : Unlisted(t))'
    BY <2>5, <2>7
  <2>10. QED BY <2>2, <2>3, <2>4, <2>6, <2>7, <2>8, <2>9 DEF Committer
<1>4. QED BY <1>1, <1>2, <1>3 DEF Actor, Working, Committing

------------------------------------------------------------------------------
\* Disk and memory as far as they do not concern jobs.
shared == <<batches, batchDisk, tasks, taskDisk, manifest, reserved, damaged>>

\* What a healthy controller knows stays known.
LEMMA MemoryFrame ==
  ASSUME NEW M \in SUBSET Singles, Inv(M),
         UNCHANGED <<batches, batchDisk, tasks>>, phase' # "down",
         fault' = FALSE => fault = FALSE, phase # "down"
  PROVE  Memory(M)'
<1>1. Forgotten'
  BY DEF Forgotten
<1>2. fault' = FALSE => \A b \in Batches : Coherent(b)' /\ Known(b)'
  BY DEF Inv, Memory, Coherent, Known, Listed
<1>3. \A t \in Tasks : Seen(M, t)'
  BY DEF Inv, Memory, Seen, Visible, Listed
<1>4. QED BY <1>1, <1>2, <1>3 DEF Memory

\* What only depends on the disk.
LEMMA DiskFrame ==
  ASSUME NEW M \in SUBSET Singles, Inv(M),
         UNCHANGED <<batchDisk, taskDisk, manifest, damaged>>,
         \A b \in ImportBatches : StagedBatch(b)'
  PROVE  Disk(M)'
<1>1. \A b \in Batches : Document(b)'
  BY DEF Inv, Disk, Document, Whole, Listed
<1>2. \A t \in Tasks : BegunTask(M, t)'
  BY DEF Inv, Disk, BegunTask, Listed
<1>3. \A b \in Batches \ M : Complete(b)'
  BY DEF Inv, Disk, Complete, Listed
<1>4. OneBatchPerTask'
  BY DEF Inv, Disk, OneBatchPerTask, Listed
<1>5. QED BY <1>1, <1>2, <1>3, <1>4 DEF Disk

\* A step of one job that is not publishing, or of no job, which changes the
\* batch and task documents neither on disk nor in memory.
LEMMA QuietKeeps ==
  ASSUME NEW M \in SUBSET Singles, Inv(M), TypeOK', UNCHANGED shared,
         phase # "down", phase' # "down",
         fault' = FALSE => fault = FALSE, phase' = "serving" => phase = "serving",
         NEW a \in Actors, ~Committing(a), ~Committing(a)',
         \A x \in Actors \ {a} : job'[x] = job[x],
         a \in Batches => job[a].pc # "none" \/ job'[a] = job[a],
         \A x \in Actors \ {a} : Bound(x) /\ job[x].batch \notin M =>
            stage'[job[x].batch] = stage[job[x].batch],
         \A x \in Actors \ {a} : Working(x) /\ job[x].doc.complete = FALSE =>
            stage'[x] = stage[x],
         \A b \in ImportBatches : StagedBatch(b)',
         Actor(M, a)'
  PROVE  Inv(M)'
<1>1. Disk(M)'
  BY DiskFrame DEF shared
<1>2. Memory(M)'
  BY MemoryFrame DEF shared
<1>3. \A t \in Tasks : Taken(t) => Taken(t)'
  BY DEF Taken, shared, Inv, TypeOK
<1>4. ASSUME NEW x \in Actors \ {a} PROVE Actor(M, x)'
  <2>1. job'[x] = job[x] /\ Actor(M, x)
    BY DEF Inv
  <2>2. ASSUME Committing(x)
        PROVE  /\ Listed(job[x].doc) \subseteq reserved'
               /\ \A t \in Listed(job[x].doc) :
                    manifest'[t] = manifest[t] /\ taskDisk'[t] = taskDisk[t] /\ Unlisted(t)'
               /\ job[x].batch \in M => batchDisk'[job[x].batch].state # "ready"
               /\ x \in Clients /\ job[x].batch \notin M => job'[job[x].batch].pc = "none"
    <3>1. Committer(M, x)
      BY <2>1, <2>2 DEF Actor
    <3>2. \A t \in Listed(job[x].doc) : Unlisted(t)'
      BY <3>1 DEF Committer, Unlisted, shared, Listed
    <3>3. ASSUME x \in Clients, job[x].batch \notin M PROVE job'[job[x].batch].pc = "none"
      <4>1. job[job[x].batch].pc = "none" /\ job[x].batch \in Batches
        BY <2>2, <3>1, <3>3, BoundBatch DEF Committer, Owner, Bound
      <4>2. QED BY <4>1 DEF Actors
    <3>4. QED BY <3>1, <3>2, <3>3 DEF Committer, shared
  <2>3. Bound(x) => batchDisk'[job[x].batch] = batchDisk[job[x].batch]
    BY DEF shared
  <2>4. \A t \in Tasks : manifest'[t] = manifest[t] \/ Taken(t)'
    BY DEF shared
  <2>5. QED BY <1>3, <2>1, <2>2, <2>3, <2>4, ActorFrame
<1>5. \A x \in Actors : Actor(M, x)'
  BY <1>4
<1>6. Disjoint'
  BY DEF Inv, Disjoint, Committing, Listed
<1>7. QED BY <1>1, <1>2, <1>5, <1>6 DEF Inv

\* A step of no job.
LEMMA IdleKeeps ==
  ASSUME NEW M \in SUBSET Singles, Inv(M), TypeOK', UNCHANGED <<shared, stage, job>>,
         phase # "down", phase' # "down",
         fault' = FALSE => fault = FALSE, phase' = "serving" => phase = "serving"
  PROVE  Inv(M)'
<1>1. Disk(M)'
  <2>1. \A b \in ImportBatches : StagedBatch(b)'
    BY DEF Inv, Disk, StagedBatch, shared, Listed
  <2>2. QED BY <2>1, DiskFrame DEF shared
<1>2. Memory(M)'
  BY MemoryFrame DEF shared
<1>3. \A t \in Tasks : Taken(t) => Taken(t)'
  BY DEF Taken, shared, Inv, TypeOK
<1>4. ASSUME NEW x \in Actors PROVE Actor(M, x)'
  <2>1. Committing(x) => Committer(M, x) /\ (job[x].batch \notin M => Owner(x))
    BY DEF Inv, Actor, Committer
  <2>2. \A t \in Tasks : Unlisted(t) => Unlisted(t)'
    BY DEF Unlisted, shared, Listed
  <2>3. \A t \in Listed(job[x].doc) : t \in Tasks
    BY DEF Listed
  <2>4. QED BY <1>3, <2>1, <2>2, <2>3, ActorFrame DEF shared, Committer, Owner
<1>5. Disjoint'
  BY DEF Inv, Disjoint, Committing, Listed
<1>6. QED BY <1>1, <1>2, <1>4, <1>5 DEF Inv

\* A batch document of a worker or a client is saved, and perhaps its commit
\* begins.
LEMMA SaveKeeps ==
  ASSUME NEW M \in SUBSET Singles, Inv(M), TypeOK', NEW a \in Actors, NEW b \in Batches,
         phase = "serving", fault = FALSE, b \notin M => batchDisk[b].state # "ready",
         UNCHANGED <<phase, tasks, taskDisk, manifest, damaged>>,
         \A x \in Batches \ {b} :
            batchDisk'[x] = batchDisk[x] /\ batches'[x] = batches[x] /\ stage'[x] = stage[x],
         batchDisk'[b].state = "ready" => batchDisk'[b] = batchDisk[b] /\ fault' # FALSE,
         fault' = FALSE => batches'[b] = batchDisk'[b],
         Document(b)', b \in ImportBatches => StagedBatch(b)',
         reserved \subseteq reserved', ~Committing(a), a \in Batches => a = b,
         \A x \in Actors \ {a} :
            job'[x] = job[x] /\ (Bound(x) /\ job[x].batch = b => b \in M),
         Committing(a)' => Listed(job'[a].doc) \cap reserved = {},
         Actor(M, a)'
  PROVE  Inv(M)'
<1>1. \A x \in Batches : batchDisk'[x].state = "ready" => batchDisk'[x] = batchDisk[x]
  OBVIOUS
<1>2. \A x \in Batches \ M : batchDisk[x].state = "ready" => batchDisk'[x] = batchDisk[x]
  OBVIOUS
<1>3. Disk(M)'
  <2>1. \A x \in Batches : Document(x)'
    BY DEF Inv, Disk, Document, Whole, Listed
  <2>2. ASSUME NEW t \in Tasks PROVE BegunTask(M, t)'
    BY <1>2, Typed DEF Inv, Disk, BegunTask, Listed, TaskDocs, NoTask
  <2>3. \A x \in ImportBatches : StagedBatch(x)'
    BY DEF Inv, Disk, StagedBatch, Batches, Listed
  <2>4. \A x \in Batches \ M : Complete(x)'
    BY <1>1, <1>2 DEF Inv, Disk, Complete, Listed
  <2>5. OneBatchPerTask'
    <3>1. ASSUME NEW x \in Batches, NEW y \in Batches, x # y,
                 {batchDisk'[x].state, batchDisk'[y].state} = {"ready"}
          PROVE  Listed(batchDisk'[x]) \cap Listed(batchDisk'[y]) = {}
      <4>1. batchDisk'[x].state = "ready" /\ batchDisk'[y].state = "ready"
        BY <3>1
      <4>2. batchDisk'[x] = batchDisk[x] /\ batchDisk'[y] = batchDisk[y]
        BY <4>1, <1>1
      <4>3. {batchDisk[x].state, batchDisk[y].state} = {"ready"}
        BY <4>1, <4>2
      <4>4. Listed(batchDisk[x]) \cap Listed(batchDisk[y]) = {}
        BY <3>1, <4>3 DEF Inv, Disk, OneBatchPerTask
      <4>5. QED BY <4>2, <4>4
    <3>2. QED BY <3>1 DEF OneBatchPerTask, Listed
  <2>6. QED BY <2>1, <2>2, <2>3, <2>4, <2>5 DEF Disk
<1>4. Memory(M)'
  <2>1. fault' = FALSE => \A x \in Batches : Coherent(x)'
    BY DEF Inv, Memory, Coherent
  <2>2. ASSUME fault' = FALSE, NEW x \in Batches PROVE Known(x)'
    <3>1. Known(x)
      BY DEF Inv, Memory
    <3>2. CASE x = b
      <4>1. batches'[b].state # "ready"
        BY <2>2
      <4>2. QED BY <3>2, <4>1 DEF Known
    <3>3. CASE x # b
      BY <3>1, <3>3 DEF Known, Listed
    <3>4. QED BY <3>2, <3>3
  <2>3. ASSUME NEW t \in Tasks PROVE Seen(M, t)'
    BY <1>2, Typed DEF Inv, Memory, Seen, Visible, Listed, TaskDocs
  <2>4. QED BY <2>1, <2>2, <2>3 DEF Memory, Forgotten
<1>5. \A t \in Tasks : Taken(t) => Taken(t)'
  BY DEF Taken, Inv, TypeOK
<1>6. ASSUME NEW x \in Actors \ {a} PROVE Actor(M, x)'
  <2>1. job'[x] = job[x] /\ Actor(M, x)
    BY DEF Inv
  <2>2. Bound(x) /\ job[x].batch \notin M =>
            batchDisk'[job[x].batch] = batchDisk[job[x].batch]
            /\ stage'[job[x].batch] = stage[job[x].batch]
    BY BoundBatch
  <2>3. Working(x) /\ job[x].doc.complete = FALSE => stage'[x] = stage[x]
    <3>1. ASSUME Working(x), job[x].doc.complete = FALSE PROVE stage'[x] = stage[x]
      <4>1. Bound(x) /\ x \in ImportBatches
        BY <2>1, <3>1 DEF Actor, Worker, Bound
      <4>2. x \in Batches /\ x \notin M
        BY <4>1, ImportAssumption DEF Batches
      <4>3. QED BY <2>2, <4>1, <4>2, BoundBatch
    <3>2. QED BY <3>1
  <2>4. ASSUME Committing(x)
        PROVE  /\ Listed(job[x].doc) \subseteq reserved'
               /\ \A t \in Listed(job[x].doc) :
                    manifest'[t] = manifest[t] /\ taskDisk'[t] = taskDisk[t] /\ Unlisted(t)'
               /\ job[x].batch \in M => batchDisk'[job[x].batch].state # "ready"
               /\ x \in Clients /\ job[x].batch \notin M => job'[job[x].batch].pc = "none"
    <3>1. Committer(M, x) /\ Bound(x) /\ job[x].batch \in Batches
      BY <2>1, <2>4, BoundBatch DEF Actor, Bound
    <3>2. \A t \in Listed(job[x].doc) : Unlisted(t)'
      BY <1>1, <3>1 DEF Committer, Unlisted, Listed
    <3>3. batchDisk'[job[x].batch].state # "ready"
      BY <1>1, <3>1 DEF Committer
    <3>4. ASSUME x \in Clients, job[x].batch \notin M PROVE job'[job[x].batch].pc = "none"
      <4>1. job[job[x].batch].pc = "none" /\ job[x].batch \in Batches /\ job[x].batch # b
        BY <3>1, <3>4 DEF Committer, Owner
      <4>2. job[x].batch \in Actors /\ job[x].batch # a
        BY <4>1 DEF Actors
      <4>3. QED BY <4>1, <4>2
    <3>5. QED BY <3>1, <3>2, <3>3, <3>4 DEF Committer
  <2>5. QED BY <1>5, <2>1, <2>2, <2>3, <2>4, ActorFrame
<1>7. \A x \in Actors : Actor(M, x)'
  BY <1>6
<1>8. ASSUME NEW x \in Actors \ {a}, Committing(x)
      PROVE  Listed(job[x].doc) \subseteq reserved
  BY <1>8 DEF Inv, Actor, Committer
<1>9. Disjoint'
  BY <1>8 DEF Inv, Disjoint, Committing, Listed
<1>10. QED BY <1>3, <1>4, <1>7, <1>9 DEF Inv

------------------------------------------------------------------------------
\* What is known of a worker that is under way.
LEMMA WorkerFacts ==
  ASSUME NEW M \in SUBSET Singles, Inv(M), NEW b \in Batches, Working(b)
  PROVE  /\ Worker(M, b) /\ Scanner(b) /\ Checked(M, b)
         /\ b \in Actors /\ job[b].batch = b /\ Bound(b) /\ ~Committing(b)
         /\ phase # "down" /\ job[b].pc # "none" /\ TypeOK
  BY NoJobIsOne DEF Inv, Actor, Role, Actors, Working, Early, Bound, Committing, Memory, Forgotten

\* A step of a worker before its commit.
LEMMA WorkerStep ==
  ASSUME NEW M \in SUBSET Singles, Inv(M),
         NEW b \in Batches, Working(b), UNCHANGED shared,
         UNCHANGED <<phase, running, imports, submits>>,
         fault' \in BOOLEAN, outages' \in Nat, fault' = FALSE => fault = FALSE,
         NEW j \in Jobs, job' = [job EXCEPT ![b] = j], j.pc \in {"none"} \cup Early,
         j.pc # "none" => j.batch = b,
         \/ stage' = stage
         \/ /\ job[b].doc.complete = FALSE
            /\ \E t \in Tasks, c \in Contents : stage' = [stage EXCEPT ![b][t] = c],
         j.pc \in Early => Worker(M, b)' /\ Scanner(b)' /\ Checked(M, b)'
  PROVE  Inv(M)'
<1>1. /\ Worker(M, b) /\ b \in Actors /\ job[b].batch = b /\ Bound(b) /\ ~Committing(b)
      /\ phase # "down" /\ job[b].pc # "none" /\ TypeOK
  BY WorkerFacts
<1>2. job'[b] = j /\ (\A x \in Actors \ {b} : job'[x] = job[x]) /\ job' \in [Actors -> Jobs]
  BY <1>1 DEF TypeOK
<1>3. stage' \in [Batches -> Lists] /\ \A x \in Batches \ {b} : stage'[x] = stage[x]
  <2>1. ASSUME NEW t \in Tasks, NEW c \in Contents, stage' = [stage EXCEPT ![b][t] = c]
        PROVE  stage' \in [Batches -> Lists] /\ \A x \in Batches \ {b} : stage'[x] = stage[x]
    <3>1. stage[b] \in Lists
      BY <1>1, Typed
    <3>2. [stage[b] EXCEPT ![t] = c] \in Lists
      BY <3>1 DEF Lists
    <3>3. stage' = [stage EXCEPT ![b] = [stage[b] EXCEPT ![t] = c]]
      BY <2>1
    <3>4. QED BY <3>2, <3>3, <1>1 DEF TypeOK
  <2>2. QED BY <2>1, <1>1 DEF TypeOK
<1>4. TypeOK'
  BY <1>1, <1>2, <1>3 DEF TypeOK, shared
<1>5. ~Committing(b)' /\ phase' = phase
  BY <1>2 DEF Committing, Early
<1>6. /\ \A x \in Actors \ {b} : Bound(x) /\ job[x].batch \notin M =>
            stage'[job[x].batch] = stage[job[x].batch]
      /\ \A x \in Actors \ {b} : Working(x) /\ job[x].doc.complete = FALSE =>
            stage'[x] = stage[x]
  <2>1. ASSUME NEW x \in Actors \ {b}, Bound(x), job[x].batch \notin M
        PROVE  stage'[job[x].batch] = stage[job[x].batch]
    <3>1. job[x].batch # job[b].batch
      BY <1>1, <2>1, BoundApart
    <3>2. job[x].batch \in Batches
      BY <2>1, BoundBatch
    <3>3. QED BY <1>1, <1>3, <3>1, <3>2
  <2>2. ASSUME NEW x \in Actors \ {b}, Working(x), job[x].doc.complete = FALSE
        PROVE  stage'[x] = stage[x]
    <3>1. x \in Batches
      BY <2>2 DEF Inv, Actor, Worker, Batches
    <3>2. QED BY <1>3, <3>1
  <2>3. QED BY <2>1, <2>2
<1>7. \A x \in ImportBatches : StagedBatch(x)'
  <2>1. ASSUME NEW x \in ImportBatches PROVE StagedBatch(x)'
    <3>1. StagedBatch(x) /\ x \in Batches
      BY DEF Inv, Disk, Batches
    <3>2. CASE stage'[x] = stage[x]
      BY <3>1, <3>2 DEF StagedBatch, shared, Listed
    <3>3. CASE stage'[x] # stage[x]
      <4>1. x = b /\ job[b].doc.complete = FALSE
        BY <3>1, <3>3, <1>3
      <4>2. batchDisk[x].complete = FALSE
        BY <4>1, <1>1, ImportAssumption DEF Worker
      <4>3. QED BY <4>2 DEF StagedBatch, shared
    <3>4. QED BY <3>2, <3>3
  <2>2. QED BY <2>1
<1>8. Actor(M, b)'
  <2>1. b \notin Clients
    BY ImportAssumption
  <2>2. Role(b)'
    BY <1>2, <2>1 DEF Role, Early
  <2>3. QED BY <1>2, <1>5, <2>2 DEF Actor, Working
<1>9. QED
  BY <1>1, <1>2, <1>4, <1>5, <1>6, <1>7, <1>8, QuietKeeps

\* A worker gives up.
LEMMA WorkerGivesUp ==
  ASSUME NEW M \in SUBSET Singles, Inv(M),
         NEW b \in Batches, Working(b), UNCHANGED <<shared, stage>>,
         UNCHANGED <<phase, running, imports, submits>>,
         fault' \in BOOLEAN, outages' \in Nat, fault' = FALSE => fault = FALSE,
         job' = Dismiss(b)
  PROVE  Inv(M)'
<1>1. job' = [job EXCEPT ![b] = NoJob] /\ NoJob.pc \notin Early
  BY NoJobIsOne DEF Dismiss, Early
<1>2. QED BY <1>1, NoJobIsOne, WorkerStep

\* What Progress leaves.
LEMMA ProgressTyped ==
  ASSUME TypeOK, NEW o \in Outcomes, Progress(o)
  PROVE  /\ UNCHANGED <<batches, batchDisk>> /\ fault' \in BOOLEAN /\ outages' \in Nat
         /\ fault' = FALSE => fault = FALSE
  BY DEF Progress, Wrote, TypeOK

\* A worker entering the gate keeps the invariant.
LEMMA EnterKeepsInv ==
  ASSUME NEW M \in SUBSET Singles, Inv(M), NEW b \in Batches, Enter(b)
  PROVE  Inv(M)'
<1>0. Working(b) /\ job[b].pc = "gate"
  BY DEF Enter, Working, Early
<1>1. /\ Worker(M, b) /\ Scanner(b) /\ job[b].batch = b /\ TypeOK /\ b \in Actors
  BY <1>0, WorkerFacts
<1>2. UNCHANGED <<shared, stage, phase, fault, running, imports, submits, outages>>
      /\ fault \in BOOLEAN /\ outages \in Nat
  BY <1>1 DEF Enter, onDisk, shared, TypeOK
<1>3. CASE job' = Dismiss(b)
  BY <1>0, <1>2, <1>3, WorkerGivesUp
<1>4. CASE job' # Dismiss(b)
  <2> DEFINE j == [job[b] EXCEPT !.pc = IF job[b].doc.complete THEN "verify" ELSE "discover",
                                 !.todo = Listed(job[b].doc)]
  <2>1. job' = [job EXCEPT ![b] = j]
    BY <1>4 DEF Enter
  <2>2. job[b].doc.complete \in BOOLEAN /\ job[b] \in Jobs /\ Listed(job[b].doc) \in SUBSET Tasks
    BY <1>1, JobTyped
  <2>3. j \in Jobs /\ j.batch = b /\ j.doc = job[b].doc /\ j.todo = Listed(job[b].doc)
        /\ j.bad = job[b].bad
        /\ j.pc = IF job[b].doc.complete THEN "verify" ELSE "discover"
    BY <1>1, <2>2 DEF Jobs
  <2> HIDE DEF j
  <2>4. job'[b] = j
    BY <1>1, <2>1 DEF TypeOK
  <2>5. job[b].doc.complete = TRUE => Listed(job[b].doc) # {}
    BY <1>1 DEF Worker, Inv, Disk, Document, Whole
  <2>11. job[b].doc.complete = FALSE => Listed(job[b].doc) = {}
    BY <1>0, <1>1 DEF Scanner
  <2>6. Worker(M, b)'
    BY <1>1, <1>2, <2>2, <2>3, <2>4, <2>5, <2>11 DEF Worker, shared
  <2>7. Scanner(b)'
    BY <1>0, <1>1, <1>2, <2>2, <2>3, <2>4 DEF Scanner, Listed
  <2>8. Checked(M, b)'
    BY <2>3, <2>4 DEF Checked, Listed
  <2>9. j.pc \in Early
    BY <2>2, <2>3 DEF Early
  <2>10. QED BY <1>0, <1>2, <2>1, <2>3, <2>6, <2>7, <2>8, <2>9, WorkerStep
<1>5. QED BY <1>3, <1>4

\* The listing of the directory keeps the invariant.
LEMMA DiscoverKeepsInv ==
  ASSUME NEW M \in SUBSET Singles, Inv(M), NEW b \in Batches, DiscoverFiles(b)
  PROVE  Inv(M)'
<1>0. Working(b) /\ job[b].pc = "discover"
  BY DEF DiscoverFiles, Working, Early
<1>1. /\ Worker(M, b) /\ Scanner(b) /\ job[b].batch = b /\ TypeOK /\ b \in Actors
      /\ job[b] \in Jobs
  BY <1>0, WorkerFacts, JobTyped
<1>2. /\ UNCHANGED <<shared, stage, phase, running, imports, submits>>
      /\ fault' \in BOOLEAN /\ outages' \in Nat /\ (fault' = FALSE => fault = FALSE)
  BY <1>1, ProgressTyped DEF DiscoverFiles, shared, TypeOK
<1>3. /\ job[b].doc.complete = FALSE /\ Listed(job[b].doc) = {}
  BY <1>0, <1>1, JobTyped DEF Worker, Scanner
<1>4. CASE job' = Dismiss(b)
  BY <1>0, <1>2, <1>4, WorkerGivesUp
<1>5. CASE job' # Dismiss(b)
  <2>1. PICK j : /\ job' = [job EXCEPT ![b] = j] /\ j \in Jobs
                 /\ j.batch = b /\ j.doc = job[b].doc
                 /\ \/ j.pc = "decide" /\ j.bad = TRUE /\ j.todo = job[b].todo
                    \/ j.pc = "scan" /\ j.todo # {}
    <3>1. CASE job' = [job EXCEPT ![b].pc = "decide", ![b].bad = TRUE]
      <4>1. WITNESS [job[b] EXCEPT !.pc = "decide", !.bad = TRUE]
      <4>2. QED BY <3>1, <1>1 DEF Jobs
    <3>2. ASSUME NEW files \in (SUBSET TasksOf[b]) \ {{}},
                 job' = [job EXCEPT ![b].pc = "scan", ![b].todo = files]
          PROVE  \E j : /\ job' = [job EXCEPT ![b] = j] /\ j \in Jobs
                 /\ j.batch = b /\ j.doc = job[b].doc
                 /\ \/ j.pc = "decide" /\ j.bad = TRUE /\ j.todo = job[b].todo
                    \/ j.pc = "scan" /\ j.todo # {}
      <4>1. files \in SUBSET Tasks
        BY ImportAssumption
      <4>2. WITNESS [job[b] EXCEPT !.pc = "scan", !.todo = files]
      <4>3. QED BY <3>2, <4>1, <1>1 DEF Jobs
    <3>3. QED BY <3>1, <3>2, <1>5 DEF DiscoverFiles
  <2>2. job'[b] = j
    BY <1>1, <2>1 DEF TypeOK
  <2>3. job[b].todo = {}
    BY <1>0, <1>1 DEF Worker
  <2>4. Worker(M, b)' /\ Scanner(b)' /\ Checked(M, b)'
    BY <1>1, <1>2, <1>3, <2>1, <2>2, <2>3 DEF Worker, Scanner, Checked, shared, Listed
  <2>5. j.pc \in Early
    BY <2>1 DEF Early
  <2>6. QED BY <1>0, <1>2, <2>1, <2>4, <2>5, WorkerStep
<1>6. QED BY <1>4, <1>5

\* The next file of a worker.
LEMMA NextFile ==
  ASSUME TypeOK, NEW a \in Actors, job[a].todo # {}
  PROVE  /\ First(job[a].todo) \in job[a].todo /\ First(job[a].todo) \in Tasks
         /\ job[a].todo \ {First(job[a].todo)} \in SUBSET Tasks
<1>1. job[a].todo \in SUBSET Tasks
  BY JobTyped
<1>2. QED BY <1>1, FirstExists

\* A snapshot of one manifest keeps the invariant.
LEMMA ScanKeepsInv ==
  ASSUME NEW M \in SUBSET Singles, Inv(M), NEW b \in Batches, ScanFile(b)
  PROVE  Inv(M)'
<1> DEFINE t == First(job[b].todo)
           rest == job[b].todo \ {t}
           pc == IF rest = {} THEN "decide" ELSE "scan"
           Read(c) == [job[b] EXCEPT !.todo = rest, !.pc = pc,
                                     !.doc = [job[b].doc EXCEPT !.list[t] = c],
                                     !.bad = job[b].bad \/ c \in Bad]
<1>0. Working(b) /\ job[b].pc = "scan"
  BY DEF ScanFile, Working, Early
<1>1. /\ Worker(M, b) /\ Scanner(b) /\ job[b].batch = b /\ TypeOK /\ b \in Actors
      /\ job[b] \in Jobs /\ job[b].doc \in BatchDocs /\ job[b].bad \in BOOLEAN
  BY <1>0, WorkerFacts, JobTyped
<1>2. /\ t \in Tasks /\ rest \in SUBSET Tasks /\ job[b].doc.complete = FALSE
  <2>1. job[b].todo # {} /\ job[b].doc.complete = FALSE
    BY <1>0, <1>1, JobTyped DEF Worker
  <2>2. QED BY <1>1, <2>1, NextFile
<1>3. /\ UNCHANGED <<shared, phase, running, imports, submits>>
      /\ fault' \in BOOLEAN /\ outages' \in Nat /\ (fault' = FALSE => fault = FALSE)
  BY <1>1, ProgressTyped DEF ScanFile, shared, TypeOK, Outcomes
<1>4. CASE job' = Dismiss(b)
  <2>1. \/ stage' = stage
        \/ \E c \in Contents : stage' = [stage EXCEPT ![b][t] = c]
    BY <1>1 DEF ScanFile
  <2>2. job' = [job EXCEPT ![b] = NoJob] /\ NoJob.pc \notin Early
    BY <1>4, NoJobIsOne DEF Dismiss, Early
  <2>3. QED BY <1>0, <1>2, <1>3, <2>1, <2>2, NoJobIsOne, WorkerStep
<1>5. ASSUME stage' = stage,
             job' = [job EXCEPT ![b].todo = rest, ![b].pc = pc, ![b].bad = TRUE]
      PROVE  Inv(M)'
  <2> DEFINE j == [job[b] EXCEPT !.todo = rest, !.pc = pc, !.bad = TRUE]
  <2>1. job' = [job EXCEPT ![b] = j]
    BY <1>5
  <2>2. j \in Jobs /\ j.batch = b /\ j.doc = job[b].doc /\ j.pc = pc /\ j.bad = TRUE /\ j.todo = rest
    BY <1>1, <1>2 DEF Jobs
  <2> HIDE DEF j, rest
  <2>3. job'[b] = j
    BY <1>1, <2>1 DEF TypeOK
  <2>4a. Worker(M, b)' /\ Checked(M, b)'
    BY <1>0, <1>1, <1>2, <1>3, <2>2, <2>3 DEF Worker, Checked, shared
  <2>4b. Scanner(b)'
    <3>1. stage' = stage /\ job'[b].doc = job[b].doc /\ job'[b].bad = TRUE
          /\ job'[b].pc \notin {"gate", "discover"}
      BY <1>5, <2>2, <2>3
    <3>2. QED BY <1>1, <1>2, <3>1 DEF Scanner, Listed
  <2>4. Worker(M, b)' /\ Scanner(b)' /\ Checked(M, b)'
    BY <2>4a, <2>4b
  <2>5. j \in Jobs /\ j.pc \in {"none"} \cup Early /\ j.batch = b
    BY <2>2 DEF Early
  <2> HIDE DEF pc
  <2>6. QED BY <1>0, <1>3, <1>5, <2>1, <2>4, <2>5, WorkerStep
<1>6. ASSUME NEW c \in Contents, stage' = [stage EXCEPT ![b][t] = c],
             job' = [job EXCEPT ![b] = Read(c)]
      PROVE  Inv(M)'
  <2> DEFINE d == [job[b].doc EXCEPT !.list[t] = c]
             j == Read(c)
  <2>1. job' = [job EXCEPT ![b] = j]
    BY <1>6
  <2>2. job[b].doc.list \in Lists
    BY <1>1 DEF BatchDocs
  <2>3. d \in BatchDocs /\ d.state = job[b].doc.state /\ d.complete = FALSE
        /\ d.list = [job[b].doc.list EXCEPT ![t] = c]
    BY <1>1, <1>2, <2>2 DEF BatchDocs, Lists
  <2>4. Listed(d) = Listed(job[b].doc) \cup {t} /\ d.list[t] = c
        /\ \A u \in Listed(job[b].doc) \ {t} : d.list[u] = job[b].doc.list[u]
    BY <1>2, <2>2, <2>3, ImportAssumption DEF Listed, Lists
  <2>15. j = [job[b] EXCEPT !.todo = rest, !.pc = pc, !.doc = d, !.bad = job[b].bad \/ c \in Bad]
    OBVIOUS
  <2> HIDE DEF d, j
  <2>5. j \in Jobs /\ j.batch = b /\ j.doc = d /\ j.pc = pc /\ j.todo = rest
        /\ (j.bad = FALSE => job[b].bad = FALSE /\ c \notin Bad)
    BY <1>1, <1>2, <2>3, <2>15 DEF Jobs
  <2> HIDE DEF rest
  <2>6. job'[b] = j
    BY <1>1, <2>1 DEF TypeOK
  <2>7. Worker(M, b)'
    BY <1>0, <1>1, <1>2, <1>3, <2>3, <2>5, <2>6 DEF Worker, shared
  <2>8. stage'[b][t] = c /\ \A u \in Tasks \ {t} : stage'[b][u] = stage[b][u]
    BY <1>1, <1>2, <1>6, Typed DEF TypeOK, Lists
  <2>9. \A u \in Listed(d) :
          stage'[b][u] = d.list[u] /\ (j.bad = FALSE => d.list[u] \in Good)
    <3>1. c \notin Bad => c \in Good
      BY <1>6 DEF Contents
    <3>2. \A u \in Listed(job[b].doc) : u \in Tasks
      BY DEF Listed
    <3>3. QED BY <1>1, <1>2, <2>4, <2>5, <2>8, <3>1, <3>2 DEF Scanner
  <2>10. Scanner(b)'
    BY <2>4, <2>5, <2>6, <2>9 DEF Scanner, Listed
  <2>11. Checked(M, b)'
    BY <2>3, <2>5, <2>6 DEF Checked
  <2>12. j.pc \in Early
    BY <2>5 DEF Early
  <2>13. \E u \in Tasks, x \in Contents : stage' = [stage EXCEPT ![b][u] = x]
    BY <1>2, <1>6
  <2>14. QED
    BY <1>0, <1>2, <1>3, <2>1, <2>5, <2>7, <2>10, <2>11, <2>12, <2>13, WorkerStep
<1>7. \/ job' = Dismiss(b)
      \/ stage' = stage /\ job' = [job EXCEPT ![b].todo = rest, ![b].pc = pc, ![b].bad = TRUE]
      \/ \E c \in Contents :
            stage' = [stage EXCEPT ![b][t] = c] /\ job' = [job EXCEPT ![b] = Read(c)]
  <2> DEFINE next == [job EXCEPT ![b].todo = rest, ![b].pc = IF rest = {} THEN "decide" ELSE @]
             read(c) == [next[b] EXCEPT !.doc.list[t] = c, !.bad = next[b].bad \/ c \in Bad]
  <2>1. next = [job EXCEPT ![b].todo = rest, ![b].pc = pc]
    BY <1>0, <1>1
  <2>2. [next EXCEPT ![b].bad = TRUE]
          = [job EXCEPT ![b].todo = rest, ![b].pc = pc, ![b].bad = TRUE]
    BY <2>1, <1>1 DEF TypeOK
  <2>3. next[b] = [job[b] EXCEPT !.todo = rest, !.pc = pc]
    BY <2>1, <1>1 DEF TypeOK
  <2>4. next[b].doc = job[b].doc /\ next[b].bad = job[b].bad
    BY <2>3, <1>1 DEF Jobs
  <2>5. \A c \in Contents : read(c) = Read(c)
    BY <2>3, <2>4, <1>1 DEF Jobs
  <2>6. \A r : [next EXCEPT ![b] = r] = [job EXCEPT ![b] = r]
    <3> HIDE DEF rest, pc, t
    <3>1. QED BY <2>1, <1>1 DEF TypeOK
  <2>7. next[b] \in Jobs /\ next \in [Actors -> Jobs]
    BY <2>1, <2>3, <1>1, <1>2 DEF Jobs, TypeOK
  <2>8. ASSUME NEW c \in Contents
        PROVE  [next EXCEPT ![b].doc.list[t] = c, ![b].bad = @ \/ c \in Bad]
                 = [next EXCEPT ![b] = read(c)]
    <3> HIDE DEF next, rest, pc, t
    <3>1. QED BY <2>7, <1>1 DEF Jobs
  <2>9. \/ job' = Dismiss(b)
        \/ stage' = stage /\ job' = [next EXCEPT ![b].bad = TRUE]
        \/ \E c \in Contents :
              /\ stage' = [stage EXCEPT ![b][t] = c]
              /\ job' = [next EXCEPT ![b].doc.list[t] = c, ![b].bad = @ \/ c \in Bad]
    BY DEF ScanFile
  <2> HIDE DEF next, rest, pc, t, read, Read
  <2>10. ASSUME NEW c \in Contents,
                job' = [next EXCEPT ![b].doc.list[t] = c, ![b].bad = @ \/ c \in Bad]
         PROVE  job' = [job EXCEPT ![b] = Read(c)]
    <3>1. job' = [next EXCEPT ![b] = read(c)]
      BY <2>8, <2>10
    <3>2. job' = [job EXCEPT ![b] = read(c)]
      BY <2>6, <3>1
    <3>3. QED BY <2>5, <3>2
  <2>11. (\E c \in Contents :
              /\ stage' = [stage EXCEPT ![b][t] = c]
              /\ job' = [next EXCEPT ![b].doc.list[t] = c, ![b].bad = @ \/ c \in Bad])
         => \E c \in Contents :
              stage' = [stage EXCEPT ![b][t] = c] /\ job' = [job EXCEPT ![b] = Read(c)]
    BY <2>10, Zenon
  <2>12. QED BY <2>2, <2>9, <2>11, Zenon
<1>8. QED BY <1>4, <1>5, <1>6, <1>7

\* The check of one snapshot keeps the invariant.
LEMMA VerifyKeepsInv ==
  ASSUME NEW M \in SUBSET Singles, Inv(M), NEW b \in Batches, VerifyFile(b)
  PROVE  Inv(M)'
<1> DEFINE t == First(job[b].todo)
           rest == job[b].todo \ {t}
           pc == IF rest = {} THEN "decide" ELSE "verify"
           bad == job[b].bad \/ Snapshot(b, t) # job[b].doc.list[t]
           j == [job[b] EXCEPT !.todo = rest, !.pc = pc, !.bad = bad]
<1>0. Working(b) /\ job[b].pc = "verify"
  BY DEF VerifyFile, Working, Early
<1>1. /\ Worker(M, b) /\ Scanner(b) /\ Checked(M, b) /\ job[b].batch = b /\ TypeOK /\ b \in Actors
      /\ job[b] \in Jobs /\ job[b].bad \in BOOLEAN /\ job[b].doc.complete = TRUE
  <2>1. /\ Worker(M, b) /\ Scanner(b) /\ Checked(M, b) /\ job[b].batch = b /\ TypeOK /\ b \in Actors
    BY <1>0, WorkerFacts
  <2>2. job[b] \in Jobs /\ job[b].bad \in BOOLEAN /\ job[b].doc.complete \in BOOLEAN
    BY <2>1, JobTyped
  <2>3. QED BY <1>0, <2>1, <2>2 DEF Worker
<1>2. t \in Tasks /\ rest \in SUBSET Tasks
  BY <1>0, <1>1, NextFile DEF Worker
<1>3. /\ UNCHANGED <<shared, stage, phase, fault, running, imports, submits, outages>>
      /\ fault' \in BOOLEAN /\ outages' \in Nat
  BY <1>1 DEF VerifyFile, onDisk, shared, TypeOK
<1>4. job' = [job EXCEPT ![b] = j]
  <2>1. job' = [job EXCEPT ![b].todo = rest, ![b].pc = pc, ![b].bad = bad]
    BY <1>0, <1>1 DEF VerifyFile, TypeOK
  <2>2. QED BY <2>1
<1>5. j \in Jobs /\ j.batch = b /\ j.doc = job[b].doc /\ j.pc = pc /\ j.bad = bad /\ j.todo = rest
  BY <1>1, <1>2 DEF Jobs
<1> HIDE DEF j
<1>6. job'[b] = j
  BY <1>1, <1>4 DEF TypeOK
<1>7. Worker(M, b)' /\ Scanner(b)'
  BY <1>0, <1>1, <1>3, <1>5, <1>6 DEF Worker, Scanner, shared
<1>8. ASSUME bad = FALSE, b \notin M, NEW u \in Listed(job[b].doc) \ rest
      PROVE  Snapshot(b, u) = job[b].doc.list[u] \/ Taken(u)
  BY <1>0, <1>1, <1>8 DEF Checked
<1>9. \A u : Snapshot(b, u)' = Snapshot(b, u) /\ Taken(u)' = Taken(u)
  BY <1>3 DEF Snapshot, Taken, shared
<1> HIDE DEF bad, rest
<1>10. Checked(M, b)'
  <2>1. job'[b].bad = bad /\ job'[b].todo = rest /\ job'[b].doc = job[b].doc
    BY <1>5, <1>6
  <2>2. Listed(job'[b].doc) = Listed(job[b].doc)
    BY <2>1
  <2>3. ASSUME bad = FALSE, b \notin M
        PROVE  \A u \in Listed(job[b].doc) \ rest :
                 Snapshot(b, u)' = job[b].doc.list[u] \/ Taken(u)'
    BY <1>8, <1>9, <2>3
  <2>4. job'[b].bad = FALSE /\ b \notin M =>
          \A u \in Listed(job'[b].doc) \ job'[b].todo :
            Snapshot(b, u)' = job'[b].doc.list[u] \/ Taken(u)'
    BY <2>1, <2>2, <2>3
  <2>5. QED
    BY <2>4 DEF Checked, Listed
<1>11. j.pc \in Early
  BY <1>5 DEF Early
<1>12. QED BY <1>0, <1>3, <1>4, <1>5, <1>7, <1>10, <1>11, WorkerStep

------------------------------------------------------------------------------
\* What saving a batch document leaves, and what the write may have done.
LEMMA SaveTyped ==
  ASSUME TypeOK, NEW b \in Batches, NEW d \in BatchDocs, NEW o \in Outcomes, NEW p \in Outcomes,
         SaveBatch(b, d, o), Wrote(p), fault = FALSE
  PROVE  /\ batches' \in [Batches -> BatchDocs] /\ batchDisk' \in [Batches -> BatchDocs]
         /\ fault' \in BOOLEAN /\ outages' \in Nat
         /\ \A x \in Batches \ {b} : batchDisk'[x] = batchDisk[x] /\ batches'[x] = batches[x]
         /\ batchDisk'[b] = d \/ batchDisk'[b] = batchDisk[b]
         /\ o = "ok" => batchDisk'[b] = d /\ batches'[b] = d
         /\ fault' = FALSE <=> p = "ok"
<1>1. batches \in [Batches -> BatchDocs] /\ batchDisk \in [Batches -> BatchDocs]
      /\ outages \in Nat
  BY DEF TypeOK
<1>2. /\ batchDisk' = batchDisk \/ batchDisk' = [batchDisk EXCEPT ![b] = d]
      /\ batches' = batches \/ batches' = [batches EXCEPT ![b] = d]
      /\ o = "ok" => batchDisk' = [batchDisk EXCEPT ![b] = d] /\ batches' = [batches EXCEPT ![b] = d]
  BY DEF SaveBatch
<1>3. fault' \in BOOLEAN /\ outages' \in Nat /\ (fault' = FALSE <=> p = "ok")
  <2>1. fault' = (fault \/ p # "ok") /\ outages' = (IF p = "ok" THEN outages ELSE outages + 1)
    BY DEF Wrote
  <2>2. outages' \in Nat
    BY <1>1, <2>1
  <2>3. CASE p = "ok"
    BY <2>1, <2>2, <2>3
  <2>4. CASE p # "ok"
    BY <2>1, <2>2, <2>4
  <2>5. QED BY <2>3, <2>4
<1>4. QED BY <1>1, <1>2, <1>3

\* An actor without a job has nothing to keep.
LEMMA NoneActs ==
  ASSUME NEW M, NEW a \in Actors, job'[a].pc = "none"
  PROVE  Actor(M, a)' /\ ~Committing(a)'
  BY DEF Actor, Role, Working, Committing, Early

\* A batch document is saved, and the job that saves it has ended or failed.
LEMMA SaveAndEnd ==
  ASSUME NEW M \in SUBSET Singles, Inv(M),
         NEW a \in Actors, NEW b \in Batches, NEW d \in BatchDocs,
         NEW o \in Outcomes, NEW p \in Outcomes, SaveBatch(b, d, o), Wrote(p), p = "ok" => o = "ok",
         phase = "serving", fault = FALSE, b \notin M => batchDisk[b].state # "ready",
         UNCHANGED <<phase, tasks, taskDisk, manifest, damaged, running, reserved>>,
         imports' \in Nat, submits' \in Nat,
         stage' \in [Batches -> Lists], \A x \in Batches \ {b} : stage'[x] = stage[x],
         d.state # "ready",
         d.state = "validating" =>
            /\ d.complete = TRUE => Whole(b, d)
            /\ d.complete = FALSE => b \in ImportBatches,
         b \in ImportBatches => StagedBatch(b)',
         ~Committing(a), a \in Batches => a = b,
         \A x \in Actors \ {a} :
            job'[x] = job[x] /\ (Bound(x) /\ job[x].batch = b => b \in M),
         job' \in [Actors -> Jobs], job'[a].pc = "none"
  PROVE  Inv(M)'
<1>1. TypeOK
  BY DEF Inv
<1>0. SaveBatch(b, d, o) /\ Wrote(p) /\ fault = FALSE
  OBVIOUS
<1>2. /\ batches' \in [Batches -> BatchDocs] /\ batchDisk' \in [Batches -> BatchDocs]
      /\ fault' \in BOOLEAN /\ outages' \in Nat
      /\ \A x \in Batches \ {b} : batchDisk'[x] = batchDisk[x] /\ batches'[x] = batches[x]
      /\ batchDisk'[b] = d \/ batchDisk'[b] = batchDisk[b]
      /\ o = "ok" => batchDisk'[b] = d /\ batches'[b] = d
      /\ fault' = FALSE <=> p = "ok"
  BY ONLY <1>0, <1>1, SaveTyped, b \in Batches, d \in BatchDocs, o \in Outcomes, p \in Outcomes
<1>3. TypeOK'
  BY <1>1, <1>2 DEF TypeOK
<1>4. Document(b)'
  <2>1. CASE batchDisk'[b] = d
    BY <2>1 DEF Document, Whole, Listed
  <2>2. CASE batchDisk'[b] = batchDisk[b]
    BY <2>2 DEF Inv, Disk, Document, Whole, Listed
  <2>3. QED BY <1>2, <2>1, <2>2
<1>5. Actor(M, a)' /\ ~Committing(a)'
  BY NoneActs
<1>6. /\ batchDisk'[b].state = "ready" => batchDisk'[b] = batchDisk[b] /\ fault' # FALSE
      /\ fault' = FALSE => batches'[b] = batchDisk'[b]
  BY <1>2
<1>7. QED BY <1>2, <1>3, <1>4, <1>5, <1>6, SaveKeeps

\* A batch document is saved and its commit begins.
LEMMA CommitBegins ==
  ASSUME NEW M \in SUBSET Singles, Inv(M),
         NEW a \in Actors, NEW b \in Batches, NEW d \in BatchDocs,
         SaveBatch(b, d, "ok"), Wrote("ok"), BeginCommit(a, b, d),
         phase = "serving", fault = FALSE, b \notin M => batchDisk[b].state # "ready",
         UNCHANGED <<phase, tasks, taskDisk, manifest, damaged, running, imports, submits>>,
         stage' \in [Batches -> Lists], \A x \in Batches \ {b} : stage'[x] = stage[x],
         d.state = "validating", d.complete = TRUE, Whole(b, d),
         b \in ImportBatches => StagedBatch(b)',
         ~Committing(a), a \in Batches => a = b,
         a \in Clients => b \in Singles /\ (b \notin M => job[b].pc = "none"),
         \A x \in Actors \ {a} : Bound(x) /\ job[x].batch = b => b \in M,
         b \notin M => \A t \in Listed(d) : Snapshot(b, t)' = d.list[t] \/ Taken(t)
  PROVE  Inv(M)'
<1> DEFINE j == [pc |-> "publish", batch |-> b, doc |-> d, todo |-> Listed(d), bad |-> FALSE]
<1>1. TypeOK /\ "ok" \in Outcomes /\ Listed(d) \in SUBSET Tasks
  BY DEF Inv, Outcomes, Listed
<1>2. /\ batches' \in [Batches -> BatchDocs] /\ batchDisk' \in [Batches -> BatchDocs]
      /\ fault' \in BOOLEAN /\ outages' \in Nat
      /\ \A x \in Batches \ {b} : batchDisk'[x] = batchDisk[x] /\ batches'[x] = batches[x]
      /\ batchDisk'[b] = d /\ batches'[b] = d /\ fault' = FALSE
  BY <1>1, SaveTyped
<1>3. CASE Clash(b, d)
  <2>1. job' = [job EXCEPT ![a] = NoJob] /\ reserved' = reserved
    BY <1>3 DEF BeginCommit, Dismiss
  <2>2. /\ job' \in [Actors -> Jobs] /\ job'[a].pc = "none"
        /\ \A x \in Actors \ {a} : job'[x] = job[x]
    BY <1>1, <2>1, NoJobIsOne DEF TypeOK
  <2>3. imports' \in Nat /\ submits' \in Nat
    BY <1>1 DEF TypeOK
  <2>4. QED BY <1>1, <2>1, <2>2, <2>3, SaveAndEnd
<1>4. CASE ~Clash(b, d)
  <2>1. job' = [job EXCEPT ![a] = j] /\ reserved' = reserved \cup Listed(d)
    BY <1>4 DEF BeginCommit
  <2>2. j \in Jobs
    BY <1>1 DEF Jobs
  <2>3. /\ job' \in [Actors -> Jobs] /\ job'[a] = j
        /\ \A x \in Actors \ {a} : job'[x] = job[x]
    <3> HIDE DEF j
    <3>1. QED BY <1>1, <2>1, <2>2 DEF TypeOK
  <2>4. TypeOK'
    BY <1>1, <1>2, <2>1, <2>3 DEF TypeOK
  <2>5. ASSUME NEW t \in Listed(d)
        PROVE  t \notin reserved /\ (tasks[t] = NoTask \/ tasks[t].batch = b)
    BY <1>4 DEF Clash
  <2>6. ASSUME NEW t \in Listed(d) PROVE Unlisted(t)'
    <3>1. ASSUME NEW x \in Batches, batchDisk'[x].state = "ready", t \in Listed(batchDisk'[x])
          PROVE  FALSE
      <4>1. x # b /\ batchDisk'[x] = batchDisk[x]
        BY <1>2, <3>1
      <4>2. batches[x] = batchDisk[x] /\ Known(x)
        BY <3>1, <4>1 DEF Inv, Memory, Coherent
      <4>3. tasks[t] # NoTask /\ tasks[t].batch = x
        BY <3>1, <4>1, <4>2 DEF Known
      <4>4. QED BY <2>5, <4>1, <4>3
    <3>2. QED BY <3>1 DEF Unlisted, Listed
  <2>7. ASSUME b \notin M, NEW t \in Listed(d) PROVE Snapshot(b, t)' = d.list[t]
    <3>1. t \in Tasks
      BY <1>1
    <3>2. tasks[t] = NoTask
      <4>1. tasks[t] # NoTask => batchDisk[tasks[t].batch].state = "ready"
        BY <2>5, <2>7, <3>1 DEF Inv, Memory, Seen, Visible
      <4>2. QED BY <2>5, <2>7, <4>1
    <3>3. QED BY <2>5, <2>7, <3>2 DEF Taken
  <2>8. Committer(M, a)'
    <3>1. Listed(d) # {} /\ Whole(b, d)
      BY DEF Whole
    <3>2. a \in Clients /\ b \notin M => job'[b].pc = "none"
      <4>1. a \in Clients => b # a /\ b \in Actors
        BY ImportAssumption DEF Actors
      <4>2. QED BY <2>3, <4>1
    <3>3. Listed(d) \subseteq reserved'
      BY <2>1
    <3>4. /\ job'[a].doc = d /\ job'[a].batch = b /\ job'[a].pc = "publish"
          /\ job'[a].todo = Listed(d) /\ job'[a].bad = FALSE
      BY <2>3
    <3>5. Listed(job[a].doc)' = Listed(d) /\ (Whole(b, d) <=> Whole(job[a].batch, job[a].doc)')
      BY <3>4 DEF Listed, Whole
    <3>6. (\A t \in Listed(job[a].doc) : Unlisted(t))'
      BY <2>6, <3>5
    <3>7. ASSUME b \notin M PROVE Owner(a)'
      <4>1. \A t \in Listed(d) : Snapshot(b, t)' = d.list[t]
        BY <2>7, <3>7
      <4>2. (\A t \in Listed(job[a].doc) : Snapshot(job[a].batch, t) = job[a].doc.list[t])'
        BY <3>4, <3>5, <4>1 DEF Snapshot
      <4>3. (Listed(job[a].doc) \ job[a].todo)' = {}
        BY <3>4, <3>5
      <4>4. (job[a].doc = batchDisk[job[a].batch])'
            /\ (a \in Clients => job[job[a].batch].pc = "none")'
        BY <1>2, <3>2, <3>4, <3>7
      <4>5. QED BY <4>2, <4>3, <4>4 DEF Owner
    <3> HIDE DEF j
    <3>8. QED BY <1>2, <3>1, <3>3, <3>4, <3>5, <3>6, <3>7 DEF Committer
  <2>9. Actor(M, a)'
    BY <2>3, <2>8, ImportAssumption DEF Actor, Role, Working, Early, Actors
  <2>10. Listed(job'[a].doc) \cap reserved = {}
    BY <2>3, <2>5
  <2>11. Document(b)'
    BY <1>2 DEF Document, Whole, Listed
  <2>12. reserved \subseteq reserved' /\ batchDisk'[b].state # "ready"
         /\ (fault' = FALSE => batches'[b] = batchDisk'[b])
    BY <1>2, <2>1
  <2> HIDE DEF j
  <2>13. QED
    BY <1>2, <2>3, <2>4, <2>9, <2>10, <2>11, <2>12, SaveKeeps
<1>5. QED BY <1>3, <1>4

\* Import keeps the invariant.
LEMMA ImportKeepsInv ==
  ASSUME NEW M \in SUBSET Singles, Inv(M), NEW b \in ImportBatches, Import(b)
  PROVE  Inv(M)'
<1> DEFINE d == Started(b)
           j == [NoJob EXCEPT !.pc = "gate", !.batch = b, !.doc = d]
<1>1. TypeOK /\ b \in Batches /\ b \in Actors
  BY DEF Inv, Batches, Actors
<1>2. phase = "serving" /\ fault = FALSE
  BY <1>1 DEF Import, Writable, TypeOK
<1>3. PICK o \in Outcomes :
        /\ SaveBatch(b, d, o) /\ Wrote(o)
        /\ job' = IF o # "ok" THEN job ELSE [job EXCEPT ![b] = j]
  BY DEF Import
<1>4. batchDisk[b].state \notin {"ready", "validating"}
  BY <1>1, <1>2 DEF Import, Replaceable, Inv, Memory, Coherent
<1>5. b \notin M /\ \A x \in Actors : Bound(x) => job[x].batch # b
  <2>1. b \notin M
    BY ImportAssumption
  <2>2. QED BY <1>4, <2>1, BoundBatch
<1>6. job[b].pc = "none"
  <2>1. ~Bound(b)
    BY <1>1, <1>5, BoundBatch
  <2>2. Role(b) /\ job[b] \in Jobs
    BY <1>1, Typed DEF Inv, Actor
  <2>3. QED BY <1>1, <2>1, <2>2 DEF Bound, Working, Early, Committing, Role, Jobs
<1>7. /\ d \in BatchDocs /\ d.state = "validating" /\ d.complete = FALSE /\ Listed(d) = {}
  <2>1. batches[b].gen + 1 \in Nat
    BY <1>1, Typed DEF BatchDocs
  <2>2. QED BY <2>1 DEF Started, NoBatch, BatchDocs, Lists, Nothing, Listed
<1>8. /\ UNCHANGED <<phase, tasks, taskDisk, manifest, damaged, running, reserved, submits>>
      /\ stage' = [stage EXCEPT ![b] = Nothing] /\ imports' \in Nat
  BY <1>1 DEF Import, TypeOK
<1>9. stage' \in [Batches -> Lists] /\ \A x \in Batches \ {b} : stage'[x] = stage[x]
  BY <1>1, <1>8, NoJobIsOne DEF TypeOK
<1> HIDE DEF d
<1>10. /\ batches' \in [Batches -> BatchDocs] /\ batchDisk' \in [Batches -> BatchDocs]
       /\ fault' \in BOOLEAN /\ outages' \in Nat
       /\ \A x \in Batches \ {b} : batchDisk'[x] = batchDisk[x] /\ batches'[x] = batches[x]
       /\ batchDisk'[b] = d \/ batchDisk'[b] = batchDisk[b]
       /\ o = "ok" => batchDisk'[b] = d /\ batches'[b] = d
       /\ fault' = FALSE <=> o = "ok"
  BY <1>1, <1>2, <1>3, <1>7, SaveTyped
<1>11. StagedBatch(b)'
  BY <1>4, <1>7, <1>10 DEF StagedBatch
<1>12. CASE o # "ok"
  <2>1. job' = job /\ job' \in [Actors -> Jobs] /\ submits' \in Nat
    BY <1>1, <1>3, <1>8, <1>12 DEF TypeOK
  <2>2. ~Committing(b)
    BY <1>6 DEF Committing
  <2>3. QED
    BY <1>1, <1>2, <1>3, <1>4, <1>5, <1>6, <1>7, <1>8, <1>9, <1>11, <1>12, <2>1, <2>2, SaveAndEnd
<1>13. CASE o = "ok"
  <2>1. job' = [job EXCEPT ![b] = j]
    BY <1>3, <1>13
  <2>2. j \in Jobs /\ j.pc = "gate" /\ j.batch = b /\ j.doc = d /\ j.todo = {} /\ j.bad = FALSE
    BY <1>1, <1>7 DEF NoJob, Jobs
  <2> HIDE DEF j
  <2>3. /\ job' \in [Actors -> Jobs] /\ job'[b] = j
        /\ \A x \in Actors \ {b} : job'[x] = job[x]
    BY <1>1, <2>1, <2>2 DEF TypeOK
  <2>4. Actor(M, b)'
    <3>1. Role(b)' /\ ~Committing(b)'
      BY <1>1, <2>2, <2>3, ImportAssumption DEF Role, Committing
    <3>2. Worker(M, b)'
      BY <1>7, <1>10, <1>13, <2>2, <2>3 DEF Worker
    <3>3. Scanner(b)' /\ Checked(M, b)'
      BY <1>7, <2>2, <2>3 DEF Scanner, Checked, Listed
    <3>4. QED BY <3>1, <3>2, <3>3 DEF Actor
  <2>5. TypeOK'
    BY <1>1, <1>8, <1>9, <1>10, <2>3 DEF TypeOK
  <2>6. Document(b)'
    BY <1>7, <1>10, <1>13 DEF Document
  <2>7. ~Committing(b) /\ ~Committing(b)' /\ batchDisk[b].state # "ready"
        /\ batchDisk'[b].state # "ready" /\ batches'[b] = batchDisk'[b]
    BY <1>4, <1>6, <1>7, <1>10, <1>13, <2>2, <2>3 DEF Committing
  <2>8. QED
    BY <1>1, <1>2, <1>4, <1>5, <1>8, <1>9, <1>10, <1>11, <2>3, <2>4, <2>5, <2>6, <2>7, SaveKeeps
<1>14. QED BY <1>12, <1>13

\* The decision keeps the invariant.
LEMMA DecideKeepsInv ==
  ASSUME NEW M \in SUBSET Singles, Inv(M), NEW b \in Batches, Decide(b)
  PROVE  Inv(M)'
<1> DEFINE rejected == [job[b].doc EXCEPT !.state = "rejected"]
           complete == [job[b].doc EXCEPT !.complete = TRUE]
<1>0. Working(b) /\ job[b].pc = "decide"
  BY DEF Decide, Working, Early
<1>1. /\ Worker(M, b) /\ Scanner(b) /\ Checked(M, b) /\ job[b].batch = b /\ TypeOK
      /\ b \in Actors /\ ~Committing(b) /\ Bound(b)
  BY <1>0, WorkerFacts
<1>2. /\ job[b] \in Jobs /\ job[b].doc \in BatchDocs /\ job[b].bad \in BOOLEAN
      /\ job[b].doc.complete \in BOOLEAN
  BY <1>1, JobTyped
<1>3. UNCHANGED <<phase, tasks, running, taskDisk, stage, manifest, damaged, imports, submits>>
  BY DEF Decide
<1>4. /\ stage' \in [Batches -> Lists] /\ imports' \in Nat /\ submits' \in Nat
      /\ \A x \in Batches \ {b} : stage'[x] = stage[x]
  BY <1>1, <1>3 DEF TypeOK
<1>5. \A x \in Actors \ {b} : Bound(x) /\ job[x].batch = b => b \in M
  BY <1>1, BoundApart
<1>6. b \notin M => batchDisk[b].state = "validating"
  BY <1>1 DEF Worker
<1>7. CASE Writable /\ Rejects(b)
           /\ (\E o \in Outcomes : SaveBatch(b, rejected, o) /\ Wrote(o))
           /\ job' = Dismiss(b) /\ UNCHANGED reserved
  <2>1. PICK o \in Outcomes : SaveBatch(b, rejected, o) /\ Wrote(o)
    BY <1>7
  <2>2. rejected \in BatchDocs /\ rejected.state = "rejected"
    BY <1>2 DEF BatchDocs
  <2>3. job' \in [Actors -> Jobs] /\ job'[b].pc = "none" /\ \A x \in Actors \ {b} : job'[x] = job[x]
    BY <1>1, <1>7, NoJobIsOne DEF Dismiss, TypeOK
  <2>4. phase = "serving" /\ fault = FALSE
    BY <1>1, <1>7 DEF Writable, TypeOK
  <2> HIDE DEF rejected
  <2>5. b \in ImportBatches => StagedBatch(b)'
    <3>1. batchDisk'[b] = rejected \/ batchDisk'[b] = batchDisk[b]
      BY <1>1, <2>1, <2>2, <2>4, SaveTyped
    <3>2. CASE batchDisk'[b] = rejected
      BY <2>2, <3>2 DEF StagedBatch
    <3>3. CASE batchDisk'[b] = batchDisk[b]
      BY <1>3, <3>3 DEF Inv, Disk, StagedBatch, Listed
    <3>4. QED BY <3>1, <3>2, <3>3
  <2>6. QED
    BY <1>1, <1>3, <1>4, <1>5, <1>6, <1>7, <2>1, <2>2, <2>3, <2>4, <2>5, SaveAndEnd
<1>8. ASSUME Writable, ~Rejects(b), NEW o \in Outcomes, SaveBatch(b, complete, o), Wrote(o),
             IF o = "ok" THEN BeginCommit(b, b, complete)
                         ELSE job' = Dismiss(b) /\ UNCHANGED reserved
      PROVE  Inv(M)'
  <2>1. phase = "serving" /\ fault = FALSE /\ job[b].bad = FALSE
    BY <1>1, <1>2, <1>8 DEF Writable, TypeOK, Rejects
  <2>2. /\ complete \in BatchDocs /\ complete.state = "validating" /\ complete.complete = TRUE
        /\ complete.list = job[b].doc.list /\ Listed(complete) = Listed(job[b].doc)
        /\ job[b].doc.complete = TRUE => complete = job[b].doc
    BY <1>1, <1>2 DEF BatchDocs, Worker, Listed
  <2> HIDE DEF complete
  <2>3. job[b].todo = {}
    BY <1>0, <1>1 DEF Worker
  <2>4. Whole(b, complete)
    <3>1. CASE job[b].doc.complete = TRUE
      BY <1>1, <2>2, <3>1 DEF Worker
    <3>2. CASE job[b].doc.complete = FALSE
      <4>1. b \notin Singles
        BY <1>1, <3>2, ImportAssumption DEF Worker
      <4>2. QED BY <1>0, <1>1, <2>1, <2>2, <3>2, <4>1 DEF Scanner, Whole
    <3>3. QED BY <1>2, <3>1, <3>2
  <2>5. b \in ImportBatches /\ b \notin damaged =>
            \A t \in Listed(complete) : stage[b][t] = complete.list[t]
    <3>1. CASE job[b].doc.complete = TRUE
      BY <1>1, <2>2, <3>1, ImportAssumption DEF Worker, Inv, Disk, StagedBatch
    <3>2. CASE job[b].doc.complete = FALSE
      BY <1>1, <2>2, <3>2 DEF Scanner
    <3>3. QED BY <1>2, <3>1, <3>2
  <2>6. b \notin M =>
          \A t \in Listed(complete) : Snapshot(b, t)' = complete.list[t] \/ Taken(t)
    <3>1. \A t : Snapshot(b, t)' = Snapshot(b, t)
      BY <1>3 DEF Snapshot
    <3>2. CASE job[b].doc.complete = TRUE
      BY <1>0, <1>1, <2>1, <2>2, <2>3, <3>1, <3>2 DEF Checked
    <3>3. CASE job[b].doc.complete = FALSE
      BY <1>1, <2>2, <3>1, <3>3 DEF Scanner, Snapshot, Listed
    <3>4. QED BY <1>2, <3>2, <3>3
  <2>7. b \in ImportBatches => StagedBatch(b)'
    <3>1. batchDisk'[b] = complete \/ batchDisk'[b] = batchDisk[b]
      BY <1>1, <1>8, <2>1, <2>2, SaveTyped
    <3>2. CASE batchDisk'[b] = complete
      BY <1>3, <2>5, <3>2 DEF StagedBatch, Listed
    <3>3. CASE batchDisk'[b] = batchDisk[b]
      BY <1>3, <3>3 DEF Inv, Disk, StagedBatch, Listed
    <3>4. QED BY <3>1, <3>2, <3>3
  <2>8. b \notin Clients
    BY ImportAssumption
  <2>9. CASE o = "ok"
    BY <1>1, <1>3, <1>4, <1>5, <1>6, <1>8, <2>1, <2>2, <2>4, <2>6, <2>7, <2>8, <2>9, CommitBegins
  <2>10. CASE o # "ok"
    <3>1. job' \in [Actors -> Jobs] /\ job'[b].pc = "none" /\ \A x \in Actors \ {b} : job'[x] = job[x]
      BY <1>1, <1>8, <2>10, NoJobIsOne DEF Dismiss, TypeOK
    <3>2. QED
      BY <1>1, <1>3, <1>4, <1>5, <1>6, <1>8, <2>1, <2>2, <2>4, <2>7, <2>10, <3>1, SaveAndEnd
  <2>11. QED BY <2>9, <2>10
<1>9. CASE Writable /\ Wrote("lost") /\ job' = Dismiss(b) /\ UNCHANGED <<batches, batchDisk, reserved>>
  <2>1. fault' \in BOOLEAN /\ outages' \in Nat /\ (fault' = FALSE => fault = FALSE)
    BY <1>1, <1>9 DEF Wrote, TypeOK
  <2>2. QED BY <1>0, <1>3, <1>9, <2>1, WorkerGivesUp DEF shared
<1>10. CASE ~Writable /\ job' = Dismiss(b) /\ UNCHANGED <<fault, batches, batchDisk, reserved, outages>>
  <2>1. fault' \in BOOLEAN /\ outages' \in Nat
    BY <1>1, <1>10 DEF TypeOK
  <2>2. QED BY <1>0, <1>3, <1>10, <2>1, WorkerGivesUp DEF shared
<1> HIDE DEF rejected, complete
<1>11. QED
  <2>1. \/ ~Writable /\ job' = Dismiss(b) /\ UNCHANGED <<fault, batches, batchDisk, reserved, outages>>
        \/ Writable /\ Wrote("lost") /\ job' = Dismiss(b) /\ UNCHANGED <<batches, batchDisk, reserved>>
        \/ /\ Writable /\ Rejects(b)
           /\ \E o \in Outcomes : SaveBatch(b, rejected, o) /\ Wrote(o)
           /\ job' = Dismiss(b) /\ UNCHANGED reserved
        \/ /\ Writable /\ ~Rejects(b)
           /\ \E o \in Outcomes :
                /\ SaveBatch(b, complete, o) /\ Wrote(o)
                /\ IF o = "ok" THEN BeginCommit(b, b, complete)
                   ELSE job' = Dismiss(b) /\ UNCHANGED reserved
    BY DEF Decide, rejected, complete
  <2>2. QED BY <1>7, <1>8, <1>9, <1>10, <2>1

------------------------------------------------------------------------------
\* An upload keeps the invariant.
LEMMA UploadKeepsInv ==
  ASSUME NEW M \in SUBSET Singles, Inv(M), NEW c \in Clients, Upload(c)
  PROVE  Inv(M)'
<1>1. TypeOK /\ c \in Actors /\ c \notin Batches /\ phase = "serving" /\ fault = FALSE
  BY ImportAssumption DEF Inv, Actors, Upload, Writable, TypeOK
<1>2. /\ UNCHANGED <<shared, stage, phase, running, imports>>
      /\ submits' \in Nat /\ fault' \in BOOLEAN /\ outages' \in Nat
  BY <1>1 DEF Upload, Wrote, shared, onDisk, TypeOK
<1>3. job' = job \/ \E j \in Jobs : job' = [job EXCEPT ![c] = j] /\ j.pc = "uploaded"
        /\ j.batch \in Singles /\ j.doc.state = "validating" /\ j.doc.complete = TRUE
        /\ Listed(j.doc) = TasksOf[j.batch]
  <2>1. PICK s \in Singles, x \in Contents, o \in Outcomes :
          job' = IF o # "ok" THEN job
                 ELSE [job EXCEPT ![c] =
                   [NoJob EXCEPT !.pc = "uploaded", !.batch = s,
                      !.doc = [state |-> "validating", gen |-> 1, complete |-> TRUE,
                               list |-> [t \in Tasks |-> IF t \in TasksOf[s] THEN x
                                                         ELSE "none"]]]]
    BY ZenonT(60) DEF Upload
  <2> DEFINE l == [t \in Tasks |-> IF t \in TasksOf[s] THEN x ELSE "none"]
             d == [state |-> "validating", gen |-> 1, complete |-> TRUE, list |-> l]
             j == [NoJob EXCEPT !.pc = "uploaded", !.batch = s, !.doc = d]
  <2>2. l \in Lists /\ \A t \in Tasks : l[t] # "none" <=> t \in TasksOf[s]
    BY ImportAssumption DEF Lists
  <2>3. TasksOf[s] \in SUBSET Tasks /\ s \in Batches
    BY ImportAssumption DEF Batches
  <2> HIDE DEF l
  <2>4. /\ d \in BatchDocs /\ d.state = "validating" /\ d.complete = TRUE
        /\ Listed(d) = TasksOf[s]
    BY <2>2, <2>3 DEF BatchDocs, Listed
  <2> HIDE DEF d
  <2>5. j \in Jobs /\ j.pc = "uploaded" /\ j.batch = s /\ j.doc = d
    BY <2>3, <2>4 DEF NoJob, Jobs
  <2>6. job' = job \/ job' = [job EXCEPT ![c] = j]
    BY <2>1 DEF d, l
  <2>7. QED BY <2>4, <2>5, <2>6
<1>4. /\ job' \in [Actors -> Jobs] /\ \A x \in Actors \ {c} : job'[x] = job[x]
      /\ ~Committing(c) /\ ~Committing(c)' /\ Actor(M, c)'
  <2>1. job[c].pc = "none"
    BY DEF Upload
  <2>2. CASE job' = job
    BY <1>1, <2>1, <2>2, NoneActs DEF TypeOK, Committing
  <2>3. ASSUME NEW j \in Jobs, job' = [job EXCEPT ![c] = j], j.pc = "uploaded",
               j.batch \in Singles, j.doc.state = "validating", j.doc.complete = TRUE,
               Listed(j.doc) = TasksOf[j.batch]
        PROVE  /\ job' \in [Actors -> Jobs] /\ \A x \in Actors \ {c} : job'[x] = job[x]
               /\ ~Committing(c) /\ ~Committing(c)' /\ Actor(M, c)'
    <3>1. job' \in [Actors -> Jobs] /\ job'[c] = j /\ \A x \in Actors \ {c} : job'[x] = job[x]
      BY <1>1, <2>3 DEF TypeOK
    <3>2. ~Committing(c) /\ ~Committing(c)' /\ ~Working(c)'
      BY <2>1, <2>3, <3>1 DEF Committing, Working, Early
    <3>3. Role(c)'
      BY <1>1, <2>3, <3>1 DEF Role, Listed
    <3>4. QED BY <3>1, <3>2, <3>3 DEF Actor
  <2>4. QED BY <1>3, <2>2, <2>3
<1>5. TypeOK'
  BY <1>1, <1>2, <1>4 DEF TypeOK, shared
<1>6. \A b \in ImportBatches : StagedBatch(b)'
  BY <1>2 DEF Inv, Disk, StagedBatch, shared, Listed
<1>7. QED BY <1>1, <1>2, <1>4, <1>5, <1>6, QuietKeeps

\* A client that finds its task free finds its batch uncommitted.
LEMMA FreeIsUncommitted ==
  ASSUME NEW M \in SUBSET Singles, Inv(M),
         NEW c \in Clients, job[c].pc = "uploaded", Writable,
         ~Held(First(TasksOf[job[c].batch]))
  PROVE  batchDisk[job[c].batch].state # "ready"
<1>0. PICK s, t : s = job[c].batch /\ t = First(TasksOf[s])
  OBVIOUS
<1>1. s \in Singles /\ s \in Batches
  BY <1>0 DEF Inv, Actor, Actors, Role, Batches
<1>2. TasksOf[s] = {t} /\ phase = "serving" /\ fault = FALSE
  BY <1>0, <1>1, OneTask DEF Inv, TypeOK, Writable
<1>3. ASSUME batchDisk[s].state = "ready" PROVE FALSE
  <2>1. batches[s] = batchDisk[s] /\ Known(s)
    BY <1>1, <1>2, <1>3 DEF Inv, Memory, Coherent
  <2>2. t \in Listed(batchDisk[s])
    BY <1>1, <1>2, <1>3 DEF Inv, Disk, Document, Whole
  <2>3. QED BY <1>0, <1>3, <2>1, <2>2 DEF Known, Held
<1>4. QED BY <1>0, <1>3

\* The registration of an upload keeps the invariant, when no worker has its
\* batch, or when that batch is one of M.
LEMMA RegisterKeepsInv ==
  ASSUME NEW M \in SUBSET Singles, Inv(M),
         NEW c \in Clients, Register(c), job[c].batch \in M \/ job[job[c].batch].pc = "none"
  PROVE  Inv(M)'
<1>0. PICK s, d, t : s = job[c].batch /\ d = job[c].doc /\ t = First(TasksOf[s])
  OBVIOUS
<1> DEFINE staged == [stage EXCEPT ![s][t] = d.list[t]]
<1>1. TypeOK /\ c \in Actors /\ c \notin Batches /\ phase # "down" /\ job[c].pc = "uploaded"
  BY ImportAssumption DEF Inv, Actors, Register
<1>2. /\ s \in Singles /\ s \in Batches /\ s \notin ImportBatches
      /\ d.state = "validating" /\ d.complete = TRUE /\ Listed(d) = TasksOf[s]
      /\ ~Committing(c) /\ ~Working(c)
  BY <1>0, <1>1, ImportAssumption DEF Inv, Actor, Role, Batches, Committing, Working, Early
<1>3. t \in Tasks /\ TasksOf[s] = {t}
  BY <1>0, <1>2, OneTask
<1>4. d \in BatchDocs /\ d.list[t] \in Contents
  <2>1. job[c].doc \in BatchDocs /\ \A u \in Listed(job[c].doc) : job[c].doc.list[u] \in Contents
    BY <1>1, JobTyped
  <2>2. QED BY <1>0, <1>2, <1>3, <2>1
<1>5. /\ UNCHANGED <<phase, tasks, running, taskDisk, manifest, damaged, imports, submits>>
      /\ imports' \in Nat /\ submits' \in Nat
  BY <1>1 DEF Register, TypeOK
<1>6. /\ staged \in [Batches -> Lists] /\ \A x \in Batches \ {s} : staged[x] = stage[x]
      /\ staged[s][t] = d.list[t]
  <2>1. stage \in [Batches -> Lists] /\ stage[s] \in Lists
    BY <1>1, <1>2 DEF TypeOK
  <2>2. [stage[s] EXCEPT ![t] = d.list[t]] \in Lists
    BY <1>3, <1>4, <2>1 DEF Lists
  <2>3. staged = [stage EXCEPT ![s] = [stage[s] EXCEPT ![t] = d.list[t]]]
    OBVIOUS
  <2>4. [stage[s] EXCEPT ![t] = d.list[t]][t] = d.list[t]
    BY <1>3, <2>1 DEF Lists
  <2> HIDE DEF staged
  <2>5. QED BY <1>2, <2>1, <2>2, <2>3, <2>4
<1> HIDE DEF staged
<1>7. t \notin reserved =>
        \A x \in Actors \ {c} : Bound(x) /\ job[x].batch = s => s \in M
  <2>1. ASSUME t \notin reserved, NEW x \in Actors \ {c}, Bound(x), job[x].batch = s,
               s \notin M
        PROVE  FALSE
    <3>1. CASE x \in Batches
      <4>1. x = s /\ job[x].pc # "none"
        BY <2>1, <3>1, BoundBatch DEF Bound, Working, Committing, Early
      <4>2. QED BY <1>0, <2>1, <4>1
    <3>2. CASE x \in Clients
      <4>1. Committing(x) /\ Actor(M, x)
        BY <2>1, <3>2 DEF Inv, Actor, Role, Bound, Working, Early
      <4>2. Listed(job[x].doc) \subseteq reserved /\ Listed(job[x].doc) = TasksOf[s]
        BY <1>2, <2>1, <4>1, BoundBatch DEF Actor, Committer, Whole
      <4>3. QED BY <1>3, <2>1, <4>2
    <3>3. QED BY <3>1, <3>2 DEF Actors
  <2>2. QED BY <2>1
<1>8. ASSUME job' = Dismiss(c)
      PROVE  /\ job' \in [Actors -> Jobs] /\ job'[c].pc = "none"
             /\ \A x \in Actors \ {c} : job'[x] = job[x]
  BY <1>1, <1>8, NoJobIsOne DEF Dismiss, TypeOK
<1>9. ASSUME job' = Dismiss(c), UNCHANGED <<batches, batchDisk, reserved>>,
             fault' \in BOOLEAN, outages' \in Nat, fault' = FALSE => fault = FALSE,
             stage' = stage \/ (stage' = staged /\ t \notin reserved)
      PROVE  Inv(M)'
  <2>1. /\ job' \in [Actors -> Jobs] /\ job'[c].pc = "none"
        /\ \A x \in Actors \ {c} : job'[x] = job[x]
    BY <1>8, <1>9
  <2>2. stage' \in [Batches -> Lists] /\ \A x \in Batches \ {s} : stage'[x] = stage[x]
    BY <1>1, <1>6, <1>9 DEF TypeOK
  <2>3. TypeOK'
    BY <1>1, <1>5, <1>9, <2>1, <2>2 DEF TypeOK
  <2>4. \A b \in ImportBatches : StagedBatch(b)'
    BY <1>2, <1>5, <1>9, <2>2 DEF Inv, Disk, StagedBatch, Batches, Listed
  <2>5. \A x \in Actors \ {c} : Bound(x) /\ job[x].batch \notin M =>
            stage'[job[x].batch] = stage[job[x].batch]
    BY <1>7, <1>9, <2>2, BoundBatch
  <2>6. ASSUME NEW x \in Actors \ {c}, Working(x), job[x].doc.complete = FALSE
        PROVE  stage'[x] = stage[x]
    <3>1. x \in ImportBatches
      BY <2>6 DEF Inv, Actor, Worker
    <3>2. QED BY <1>2, <2>2, <3>1 DEF Batches
  <2>7. Actor(M, c)' /\ ~Committing(c)'
    BY <1>1, <2>1, NoneActs
  <2>8. UNCHANGED shared
    BY <1>5, <1>9 DEF shared
  <2>9. QED BY <1>1, <1>2, <1>5, <1>9, <2>1, <2>3, <2>4, <2>5, <2>7, <2>8, <2>6, QuietKeeps
<1>10. ASSUME Writable, t \notin reserved, d.list[t] \in Good, ~Held(t), stage' = staged,
              NEW o \in Outcomes, NEW p \in Outcomes, SaveBatch(s, d, o), Wrote(p),
              \/ o = p /\ IF o = "ok" THEN BeginCommit(c, s, d)
                          ELSE job' = Dismiss(c) /\ UNCHANGED reserved
              \/ o = "ok" /\ p = "lost" /\ job' = Dismiss(c) /\ UNCHANGED reserved
       PROVE  Inv(M)'
  <2>1. phase = "serving" /\ fault = FALSE
    BY <1>1, <1>10 DEF Writable, TypeOK
  <2>2. batchDisk[s].state # "ready"
    BY <1>0, <1>1, <1>10, FreeIsUncommitted
  <2>3. Whole(s, d)
    BY <1>2, <1>3, <1>10 DEF Whole
  <2>4. stage' \in [Batches -> Lists] /\ \A x \in Batches \ {s} : stage'[x] = stage[x]
    BY <1>6, <1>10
  <2>5. \A u \in Listed(d) : Snapshot(s, u)' = d.list[u] \/ Taken(u)
    <3>1. stage'[s][t] = d.list[t] /\ d.list[t] # "none"
      BY <1>4, <1>6, <1>10, ImportAssumption
    <3>2. Snapshot(s, t)' = d.list[t]
      BY <3>1 DEF Snapshot
    <3>3. QED BY <1>2, <1>3, <3>2
  <2>6. \A x \in Actors \ {c} : Bound(x) /\ job[x].batch = s => s \in M
    BY <1>7, <1>10
  <2>7. CASE job' = Dismiss(c) /\ UNCHANGED reserved /\ (p = "ok" => o = "ok")
    <3>1. /\ job' \in [Actors -> Jobs] /\ job'[c].pc = "none"
          /\ \A x \in Actors \ {c} : job'[x] = job[x]
      BY <1>8, <2>7
    <3>2. QED
      BY <1>1, <1>2, <1>4, <1>5, <1>10, <2>1, <2>2, <2>3, <2>4, <2>6, <2>7, <3>1, SaveAndEnd
  <2>8. CASE o = "ok" /\ p = "ok" /\ BeginCommit(c, s, d)
    <3>1. s \notin M => job[s].pc = "none"
      BY <1>0
    <3>2. SaveBatch(s, d, "ok") /\ Wrote("ok")
      BY <1>10, <2>8
    <3>3. BeginCommit(c, s, d) /\ d.complete = TRUE /\ d.state = "validating"
      BY <1>2, <2>8
    <3>4. QED
      BY <1>1, <1>2, <1>4, <1>5, <2>1, <2>2, <2>3, <2>4, <2>5, <2>6, <3>1, <3>2, <3>3,
         CommitBegins
  <2>9. QED BY <1>10, <2>7, <2>8
<1>11. \/ (~Writable \/ t \in reserved) /\ job' = Dismiss(c)
          /\ UNCHANGED <<batches, batchDisk, reserved, fault, outages>> /\ UNCHANGED stage
       \/ /\ Writable /\ t \notin reserved
          /\ d.list[t] \in Bad \/ Held(t)
          /\ stage' = staged /\ job' = Dismiss(c)
          /\ UNCHANGED <<batches, batchDisk, reserved, fault, outages>>
       \/ /\ Writable /\ t \notin reserved
          /\ \E o \in Outcomes \ {"ok"} :
               /\ stage' = IF o = "lost" THEN stage ELSE staged
               /\ Wrote(o)
          /\ job' = Dismiss(c) /\ UNCHANGED <<batches, batchDisk, reserved>>
       \/ /\ Writable /\ t \notin reserved
          /\ d.list[t] \in Good /\ ~Held(t)
          /\ stage' = staged
          /\ \/ \E o \in Outcomes :
                  /\ SaveBatch(s, d, o) /\ Wrote(o)
                  /\ IF o = "ok" THEN BeginCommit(c, s, d)
                     ELSE job' = Dismiss(c) /\ UNCHANGED reserved
             \/ /\ SaveBatch(s, d, "ok") /\ Wrote("lost")
                /\ job' = Dismiss(c) /\ UNCHANGED reserved
  BY <1>0 DEF Register, staged
<1>12. "ok" \in Outcomes /\ "lost" \in Outcomes /\ fault \in BOOLEAN /\ outages \in Nat
  BY <1>1 DEF Outcomes, TypeOK
<1>13. ASSUME Writable, t \notin reserved, NEW o \in Outcomes \ {"ok"},
              stage' = IF o = "lost" THEN stage ELSE staged, Wrote(o),
              job' = Dismiss(c), UNCHANGED <<batches, batchDisk, reserved>>
       PROVE  Inv(M)'
  <2>1. fault' \in BOOLEAN /\ outages' \in Nat /\ (fault' = FALSE => fault = FALSE)
    BY <1>12, <1>13 DEF Wrote
  <2>2. QED BY <1>9, <1>13, <2>1
<1>14. CASE job' = Dismiss(c) /\ UNCHANGED <<batches, batchDisk, reserved, fault, outages>>
            /\ (stage' = stage \/ (stage' = staged /\ t \notin reserved))
  BY <1>9, <1>12, <1>14
<1>15. QED BY <1>10, <1>11, <1>12, <1>13, <1>14

------------------------------------------------------------------------------
\* Publishing one task keeps the invariant.
LEMMA PublishKeepsInv ==
  ASSUME NEW M \in SUBSET Singles, Inv(M), NEW a \in Actors, Publish(a)
  PROVE  Inv(M)'
<1>0. PICK b, d, t, rest : /\ b = job[a].batch /\ d = job[a].doc /\ t = First(job[a].todo)
                           /\ rest = job[a].todo \ {t}
  OBVIOUS
<1>1. /\ TypeOK /\ job[a].pc = "publish" /\ Committing(a) /\ Bound(a) /\ ~Working(a)
      /\ Actor(M, a) /\ Committer(M, a) /\ phase # "down" /\ job[a] \in Jobs
  <2>1. TypeOK /\ job[a].pc = "publish" /\ Actor(M, a)
    BY DEF Inv, Publish
  <2>2. Committing(a) /\ Bound(a) /\ ~Working(a)
    BY <2>1 DEF Committing, Bound, Working, Early
  <2>3. QED BY <2>1, <2>2, BoundBatch, JobTyped DEF Actor
<1>2. /\ b \in Batches /\ job[a].todo # {} /\ job[a].bad = FALSE
      /\ job[a].todo \subseteq Listed(d) /\ Listed(d) \subseteq reserved
      /\ d \in BatchDocs /\ \A u \in Listed(d) : d.list[u] \in Contents
  BY <1>0, <1>1, BoundBatch, JobTyped DEF Committer
<1>3. t \in Listed(d) /\ t \in Tasks /\ rest \in SUBSET Tasks /\ rest \subseteq Listed(d)
      /\ t \in job[a].todo
  BY <1>0, <1>1, <1>2, NextFile
<1>4. \A u \in Listed(d) : Unlisted(u) /\ (b \notin M => Snapshot(b, u) = d.list[u])
  BY <1>0, <1>1 DEF Committer, Owner
<1>17. PICK c : c = Snapshot(b, t) /\ c \in Contents \cup {"none"}
  <2>1. stage[b][t] \in Contents \cup {"none"} /\ manifest[t] \in Contents \cup {"none"}
    BY <1>1, <1>2, <1>3, Typed DEF Lists
  <2>2. QED BY <2>1 DEF Snapshot
<1>18. b \notin M => c = d.list[t]
  BY <1>3, <1>4, <1>17
<1>5. UNCHANGED <<phase, fault, batches, tasks, reserved, running, batchDisk, stage,
                  damaged, imports, submits>>
  BY DEF Publish
<1> DEFINE copied == [manifest EXCEPT ![t] = c]
           written == [taskDisk EXCEPT ![t] = TaskFor(b, d, t)]
           done == [job[a] EXCEPT !.todo = rest, !.pc = IF rest = {} THEN "seal" ELSE "publish"]
           failed == [job[a] EXCEPT !.pc = "seal", !.bad = TRUE]
<1>6. /\ outages' \in Nat
      /\ \/ manifest' = copied /\ taskDisk' = written /\ job' = [job EXCEPT ![a] = done]
         \/ /\ manifest' \in {manifest, copied} /\ taskDisk' \in {taskDisk, written}
            /\ job' = [job EXCEPT ![a] = failed]
  <2> DEFINE full == [job EXCEPT ![a].todo = rest, ![a].pc = IF rest = {} THEN "seal" ELSE @]
             fail == [job EXCEPT ![a].pc = "seal", ![a].bad = TRUE]
  <2>1. full = [job EXCEPT ![a] = done]
    BY <1>1
  <2>2. fail = [job EXCEPT ![a] = failed]
    OBVIOUS
  <2>3. copied = [manifest EXCEPT ![t] = Snapshot(b, t)]
    BY <1>17
  <2> HIDE DEF copied, written, done, failed
  <2>4. /\ outages' = outages \/ outages' = outages + 1
        /\ \/ manifest' = copied /\ taskDisk' = written /\ job' = full
           \/ /\ manifest' \in {manifest, copied} /\ taskDisk' \in {taskDisk, written}
              /\ job' = fail
    BY <1>0, <2>3 DEF Publish, written
  <2> HIDE DEF full, fail
  <2>5. QED BY <2>1, <2>2, <2>4, <1>1 DEF TypeOK
<1>7. /\ \A u \in Tasks \ {t} : manifest'[u] = manifest[u] /\ taskDisk'[u] = taskDisk[u]
      /\ manifest'[t] = manifest[t] \/ manifest'[t] = c
      /\ taskDisk'[t] = taskDisk[t] \/ taskDisk'[t] = TaskFor(b, d, t)
      /\ manifest' \in Lists /\ taskDisk' \in [Tasks -> TaskDocs \cup {NoTask}]
  <2>1. TaskFor(b, d, t) \in TaskDocs
    BY <1>2, <1>3 DEF TaskFor, TaskDocs, BatchDocs
  <2>2. manifest \in Lists /\ taskDisk \in [Tasks -> TaskDocs \cup {NoTask}]
    BY <1>1 DEF TypeOK
  <2>3. manifest' = manifest \/ manifest' = copied
    BY <1>6
  <2>4. taskDisk' = taskDisk \/ taskDisk' = written
    BY <1>6
  <2>5. /\ \A u \in Tasks \ {t} : manifest'[u] = manifest[u]
        /\ manifest'[t] = manifest[t] \/ manifest'[t] = c
        /\ manifest' \in Lists
    BY <1>3, <1>17, <2>2, <2>3 DEF Lists
  <2>6. /\ \A u \in Tasks \ {t} : taskDisk'[u] = taskDisk[u]
        /\ taskDisk'[t] = taskDisk[t] \/ taskDisk'[t] = TaskFor(b, d, t)
        /\ taskDisk' \in [Tasks -> TaskDocs \cup {NoTask}]
    <3> HIDE DEF TaskDocs, NoTask, TaskFor
    <3>1. QED BY <1>3, <2>1, <2>2, <2>4
  <2>7. QED BY <2>5, <2>6
<1>8. PICK j \in Jobs :
        /\ job' = [job EXCEPT ![a] = j] /\ j.batch = b /\ j.doc = d
        /\ \/ /\ j.todo = rest /\ j.bad = FALSE
              /\ j.pc = IF rest = {} THEN "seal" ELSE "publish"
              /\ manifest'[t] = c /\ taskDisk'[t] = TaskFor(b, d, t)
           \/ j.todo = job[a].todo /\ j.bad = TRUE /\ j.pc = "seal"
  <2>1. /\ done \in Jobs /\ done.batch = b /\ done.doc = d /\ done.todo = rest /\ done.bad = FALSE
        /\ done.pc = IF rest = {} THEN "seal" ELSE "publish"
    BY <1>0, <1>1, <1>2, <1>3 DEF Jobs
  <2>2. /\ failed \in Jobs /\ failed.batch = b /\ failed.doc = d /\ failed.todo = job[a].todo
        /\ failed.bad = TRUE /\ failed.pc = "seal"
    BY <1>0, <1>1 DEF Jobs
  <2>3. manifest' = copied => manifest'[t] = c
    BY <1>1, <1>3 DEF TypeOK, Lists
  <2>4. taskDisk' = written => taskDisk'[t] = TaskFor(b, d, t)
    BY <1>1, <1>3 DEF TypeOK
  <2> HIDE DEF copied, written, done, failed
  <2>5. QED BY <1>6, <2>1, <2>2, <2>3, <2>4
<1> HIDE DEF copied, written, done, failed
<1>9. /\ job' \in [Actors -> Jobs] /\ job'[a] = j /\ \A x \in Actors \ {a} : job'[x] = job[x]
  BY <1>1, <1>8 DEF TypeOK
<1>10. TypeOK'
  BY <1>1, <1>5, <1>6, <1>7, <1>9 DEF TypeOK
<1>11. Disk(M)'
  <2>1. \A x \in Batches : Document(x)'
    BY <1>5 DEF Inv, Disk, Document, Whole, Listed
  <2>2. ASSUME NEW u \in Tasks PROVE BegunTask(M, u)'
    <3>1. CASE taskDisk'[u] = taskDisk[u]
      BY <1>5, <3>1 DEF Inv, Disk, BegunTask, Listed
    <3>2. CASE taskDisk'[u] = TaskFor(b, d, t)
      BY <3>2 DEF BegunTask, TaskFor
    <3>3. QED BY <1>7, <3>1, <3>2
  <2>3. \A x \in ImportBatches : StagedBatch(x)'
    BY <1>5 DEF Inv, Disk, StagedBatch, Listed
  <2>4. \A x \in Batches \ M : Complete(x)'
    <3>1. ASSUME NEW x \in Batches, batchDisk[x].state = "ready", NEW u \in Listed(batchDisk[x])
          PROVE  u \in Tasks /\ manifest'[u] = manifest[u] /\ taskDisk'[u] = taskDisk[u]
      <4>1. u # t /\ u \in Tasks
        BY <1>3, <1>4, <3>1 DEF Unlisted, Listed
      <4>2. QED BY <1>7, <4>1
    <3>2. QED BY <1>5, <3>1 DEF Inv, Disk, Complete, Listed
  <2>5. OneBatchPerTask'
    BY <1>5 DEF Inv, Disk, OneBatchPerTask, Listed
  <2>6. QED BY <2>1, <2>2, <2>3, <2>4, <2>5 DEF Disk
<1>12. Memory(M)'
  BY <1>1, <1>5, MemoryFrame
<1>13. ASSUME NEW x \in Actors \ {a} PROVE Actor(M, x)'
  <2>1. job'[x] = job[x] /\ Actor(M, x)
    BY <1>9 DEF Inv
  <2>2. \A u \in Tasks : Taken(u) => Taken(u)'
    BY <1>5 DEF Taken
  <2>3. \A u \in Tasks : manifest'[u] = manifest[u] \/ Taken(u)'
    BY <1>2, <1>3, <1>5, <1>7 DEF Taken
  <2>4. ASSUME Committing(x)
        PROVE  /\ Listed(job[x].doc) \subseteq reserved'
               /\ \A u \in Listed(job[x].doc) :
                    manifest'[u] = manifest[u] /\ taskDisk'[u] = taskDisk[u] /\ Unlisted(u)'
               /\ job[x].batch \in M => batchDisk'[job[x].batch].state # "ready"
               /\ x \in Clients /\ job[x].batch \notin M => job'[job[x].batch].pc = "none"
    <3>1. Committer(M, x) /\ Bound(x)
      BY <2>1, <2>4 DEF Actor, Bound
    <3>2. \A u \in Listed(job[x].doc) : u \in Tasks \ {t}
      BY <1>0, <1>1, <1>3, <2>4 DEF Inv, Disjoint, Listed
    <3>3. \A u \in Listed(job[x].doc) : Unlisted(u)'
      BY <1>5, <3>1 DEF Committer, Unlisted, Listed
    <3>4. ASSUME x \in Clients, job[x].batch \notin M PROVE job'[job[x].batch].pc = "none"
      <4>1. job[job[x].batch].pc = "none" /\ job[x].batch \in Batches
        BY <3>1, <3>4, BoundBatch DEF Committer, Owner
      <4>2. job[x].batch \in Actors \ {a}
        BY <1>1, <4>1 DEF Actors
      <4>3. QED BY <1>9, <4>1, <4>2
    <3>5. QED BY <1>5, <1>7, <3>1, <3>2, <3>3, <3>4 DEF Committer
  <2>5. QED BY <1>5, <2>1, <2>2, <2>3, <2>4, ActorFrame
<1>14. Actor(M, a)'
  <2>1. Role(a)'
    BY <1>0, <1>1, <1>8, <1>9 DEF Actor, Role
  <2>2. Committing(a)' /\ ~Working(a)'
    BY <1>8, <1>9 DEF Committing, Working, Early
  <2>3. \A u \in Listed(d) : Unlisted(u)'
    BY <1>4, <1>5 DEF Unlisted, Listed
  <2>4. /\ d.state = "validating" /\ d.complete = TRUE /\ Whole(b, d)
        /\ Listed(d) \subseteq reserved' /\ batchDisk'[b].state # "ready"
    BY <1>0, <1>1, <1>2, <1>5 DEF Committer
  <2>5. /\ j.todo \subseteq Listed(d) /\ (j.pc = "publish" => j.todo # {} /\ j.bad = FALSE)
        /\ (j.pc = "seal" /\ j.bad = FALSE => j.todo = {})
    BY <1>2, <1>3, <1>8
  <2>6. /\ job'[a].doc = d /\ job'[a].batch = b /\ job'[a].todo = j.todo /\ job'[a].pc = j.pc
        /\ job'[a].bad = j.bad
    BY <1>8, <1>9
  <2>7. Listed(job[a].doc)' = Listed(d) /\ (Whole(b, d) <=> Whole(job[a].batch, job[a].doc)')
    BY <2>6 DEF Listed, Whole
  <2>8. ASSUME b \notin M PROVE Owner(a)'
    <3>1. Owner(a)
      BY <1>0, <1>1, <2>8 DEF Committer
    <3>2. \A u \in Listed(d) : Snapshot(b, u)' = d.list[u]
      BY <1>3, <1>4, <1>5, <1>7, <1>18, <2>8 DEF Snapshot, Listed
    <3>3. a \in Clients => job'[b].pc = "none"
      <4>1. a \in Clients => job[b].pc = "none" /\ b # a /\ b \in Actors
        BY <1>0, <1>1, <1>2, <3>1 DEF Owner, Actors
      <4>2. QED BY <1>9, <4>1
    <3>4. ASSUME j.bad = FALSE, NEW u \in Listed(d) \ j.todo
          PROVE  taskDisk'[u] = TaskFor(b, d, u) /\ manifest'[u] = d.list[u]
      <4>1. CASE u = t
        BY <1>8, <1>18, <2>8, <3>4, <4>1
      <4>2. CASE u # t
        <5>1. u \in Listed(d) \ job[a].todo /\ u \in Tasks
          BY <1>0, <1>8, <3>4, <4>2 DEF Listed
        <5>2. taskDisk[u] = TaskFor(b, d, u) /\ manifest[u] = d.list[u]
          BY <1>0, <1>2, <3>1, <5>1 DEF Owner
        <5>3. QED BY <1>7, <4>2, <5>1, <5>2
      <4>3. QED BY <4>1, <4>2
    <3>5. (\A u \in Listed(job[a].doc) : Snapshot(job[a].batch, u) = job[a].doc.list[u])'
      BY <2>6, <2>7, <3>2 DEF Snapshot
    <3>6. (job[a].bad = FALSE => \A u \in Listed(job[a].doc) \ job[a].todo :
            taskDisk[u] = TaskFor(job[a].batch, job[a].doc, u)
            /\ manifest[u] = job[a].doc.list[u])'
      BY <2>6, <2>7, <3>4 DEF TaskFor
    <3>7. (job[a].doc = batchDisk[job[a].batch])'
          /\ (a \in Clients => job[job[a].batch].pc = "none")'
      BY <1>0, <1>5, <2>6, <3>1, <3>3 DEF Owner
    <3>8. QED BY <3>5, <3>6, <3>7 DEF Owner
  <2>9. (\A u \in Listed(job[a].doc) : Unlisted(u))'
    BY <2>3, <2>7
  <2>10. Committer(M, a)'
    BY <2>4, <2>5, <2>6, <2>7, <2>8, <2>9 DEF Committer
  <2>11. QED BY <2>1, <2>2, <2>10 DEF Actor
<1>15. Disjoint'
  <2>1. \A x \in Actors : (Committing(x)' => Committing(x)) /\ job'[x].doc = job[x].doc
    BY <1>0, <1>1, <1>8, <1>9 DEF Committing
  <2>2. QED BY <2>1 DEF Inv, Disjoint, Listed
<1>16. QED BY <1>10, <1>11, <1>12, <1>13, <1>14, <1>15 DEF Inv

\* Sealing a batch keeps the invariant.
LEMMA SealKeepsInv ==
  ASSUME NEW M \in SUBSET Singles, Inv(M), NEW a \in Actors, Seal(a)
  PROVE  Inv(M)'
<1>0. PICK b, d, ready : /\ b = job[a].batch /\ d = job[a].doc
                         /\ ready = [d EXCEPT !.state = "ready"]
  OBVIOUS
<1>1. /\ TypeOK /\ job[a].pc = "seal" /\ Committing(a) /\ Bound(a)
      /\ Actor(M, a) /\ Committer(M, a) /\ phase # "down" /\ job[a] \in Jobs
  <2>1. TypeOK /\ job[a].pc = "seal" /\ Actor(M, a)
    BY DEF Inv, Seal
  <2>2. Committing(a) /\ Bound(a)
    BY <2>1 DEF Committing, Bound
  <2>3. QED BY <2>1, <2>2, BoundBatch, JobTyped DEF Actor
<1>2. /\ b \in Batches /\ d \in BatchDocs /\ Whole(b, d) /\ batchDisk[b].state # "ready"
      /\ Listed(d) \subseteq reserved
      /\ \A u \in Listed(d) : Unlisted(u) /\ u \in Tasks
      /\ \A u \in Listed(d) : d.list[u] \in Contents
  BY <1>0, <1>1, BoundBatch, JobTyped DEF Committer
<1>3. /\ ready \in BatchDocs /\ ready.state = "ready" /\ ready.gen = d.gen
      /\ ready.list = d.list /\ Listed(ready) = Listed(d)
  BY <1>0, <1>2 DEF BatchDocs, Listed
<1>4. job[a].bad = FALSE /\ b \notin M =>
        \A u \in Listed(d) : taskDisk[u] = TaskFor(b, d, u) /\ manifest[u] = d.list[u]
  BY <1>0, <1>1 DEF Committer, Owner
<1>5. /\ UNCHANGED <<phase, running, taskDisk, stage, manifest, damaged, imports, submits>>
      /\ job' = Dismiss(a) /\ reserved' = reserved \ Listed(d)
      /\ \/ /\ phase = "stopping" \/ job[a].bad \/ fault
            /\ fault' = (fault \/ (job[a].bad /\ phase = "serving"))
            /\ UNCHANGED <<batches, batchDisk, tasks, outages>>
         \/ /\ phase # "stopping" /\ ~job[a].bad /\ ~fault
            /\ \E o \in Outcomes :
                 /\ SaveBatch(b, ready, o) /\ Wrote(o)
                 /\ tasks' = IF o = "ok"
                             THEN [u \in Tasks |-> IF u \in Listed(ready)
                                                   THEN TaskFor(b, ready, u) ELSE tasks[u]]
                             ELSE tasks
  BY <1>0 DEF Seal
<1>6. /\ job' \in [Actors -> Jobs] /\ job'[a].pc = "none"
      /\ \A x \in Actors \ {a} : job'[x] = job[x]
  BY <1>1, <1>5, NoJobIsOne DEF Dismiss, TypeOK
<1>7. \A u \in Listed(d) : TaskFor(b, ready, u) = TaskFor(b, d, u)
                           /\ TaskFor(b, ready, u) \in TaskDocs
  BY <1>2, <1>3 DEF TaskFor, TaskDocs, BatchDocs
<1>16. \A u : TaskFor(b, ready, u) # NoTask /\ TaskFor(b, ready, u).batch = b
  BY DEF TaskFor, NoTask
<1>8. /\ batches' \in [Batches -> BatchDocs] /\ batchDisk' \in [Batches -> BatchDocs]
      /\ tasks' \in [Tasks -> TaskDocs \cup {NoTask}]
      /\ fault' \in BOOLEAN /\ outages' \in Nat /\ (fault' = FALSE => fault = FALSE)
      /\ \A x \in Batches \ {b} : batchDisk'[x] = batchDisk[x] /\ batches'[x] = batches[x]
      /\ \/ batchDisk'[b] = batchDisk[b]
         \/ batchDisk'[b] = ready /\ job[a].bad = FALSE
      /\ \/ tasks' = tasks
         \/ /\ batchDisk'[b] = ready
            /\ \A u \in Tasks : tasks'[u] = IF u \in Listed(d) THEN TaskFor(b, ready, u)
                                            ELSE tasks[u]
      /\ fault' = TRUE \/ phase = "stopping"
         \/ /\ batches'[b] = ready /\ batchDisk'[b] = ready
            /\ \A u \in Listed(d) : tasks'[u] = TaskFor(b, ready, u)
      /\ fault' = FALSE => \/ UNCHANGED <<batches, batchDisk, tasks>>
                           \/ /\ batches'[b] = ready /\ batchDisk'[b] = ready
                              /\ \A u \in Listed(d) : tasks'[u] = TaskFor(b, ready, u)
  <2>1. job[a].bad \in BOOLEAN /\ fault \in BOOLEAN /\ outages \in Nat
        /\ phase \in {"serving", "stopping"}
    BY <1>1, JobTyped DEF TypeOK
  <2>2. CASE phase = "stopping" \/ job[a].bad \/ fault
    <3>1. fault' = (fault \/ (job[a].bad /\ phase = "serving"))
          /\ UNCHANGED <<batches, batchDisk, tasks, outages>>
      BY <1>5, <2>2
    <3>2. fault' \in BOOLEAN /\ (fault' = FALSE => fault = FALSE)
          /\ (fault' = TRUE \/ phase = "stopping")
      BY <2>1, <2>2, <3>1
    <3>3. QED BY <1>1, <1>2, <2>1, <3>1, <3>2 DEF TypeOK
  <2>3. CASE phase # "stopping" /\ ~job[a].bad /\ ~fault
    <3>1. PICK o \in Outcomes :
                 /\ SaveBatch(b, ready, o) /\ Wrote(o)
                 /\ tasks' = IF o = "ok"
                             THEN [u \in Tasks |-> IF u \in Listed(ready)
                                                   THEN TaskFor(b, ready, u) ELSE tasks[u]]
                             ELSE tasks
      BY <1>5, <2>3
    <3>2. fault = FALSE /\ job[a].bad = FALSE
      BY <2>1, <2>3
    <3>3. /\ batches' \in [Batches -> BatchDocs] /\ batchDisk' \in [Batches -> BatchDocs]
          /\ fault' \in BOOLEAN /\ outages' \in Nat
          /\ \A x \in Batches \ {b} : batchDisk'[x] = batchDisk[x] /\ batches'[x] = batches[x]
          /\ batchDisk'[b] = ready \/ batchDisk'[b] = batchDisk[b]
          /\ o = "ok" => batchDisk'[b] = ready /\ batches'[b] = ready
          /\ fault' = FALSE <=> o = "ok"
      <4>1. b \in Batches /\ ready \in BatchDocs /\ SaveBatch(b, ready, o) /\ Wrote(o)
        BY <1>2, <1>3, <3>1
      <4>2. QED BY <1>1, <3>2, <4>1, SaveTyped
    <3>4. tasks \in [Tasks -> TaskDocs \cup {NoTask}]
      BY <1>1 DEF TypeOK
    <3>5. CASE o = "ok"
      <4>1. tasks' = [u \in Tasks |-> IF u \in Listed(d) THEN TaskFor(b, ready, u) ELSE tasks[u]]
        BY <1>3, <3>1, <3>5
      <4> HIDE DEF TaskDocs, NoTask, TaskFor
      <4>2. tasks' \in [Tasks -> TaskDocs \cup {NoTask}]
        BY <1>7, <3>4, <4>1
      <4>3. QED BY <1>2, <3>2, <3>3, <3>5, <4>1, <4>2
    <3>6. CASE o # "ok"
      <4>1. tasks' = tasks /\ fault' = TRUE
        BY <3>1, <3>3, <3>6
      <4>2. QED BY <1>2, <3>2, <3>3, <3>4, <4>1
    <3>7. QED BY <3>5, <3>6
  <2>4. QED BY <2>2, <2>3
<1>9. TypeOK'
  <2>1. reserved' \subseteq Tasks
    BY <1>1, <1>5 DEF TypeOK
  <2>2. QED BY <1>1, <1>5, <1>6, <1>8, <2>1 DEF TypeOK
<1>10. Disk(M)'
  <2>1. ASSUME NEW x \in Batches PROVE Document(x)'
    <3>1. CASE batchDisk'[x] = batchDisk[x]
      BY <3>1 DEF Inv, Disk, Document, Whole, Listed
    <3>2. CASE x = b /\ batchDisk'[b] = ready
      BY <1>2, <1>3, <3>2 DEF Document, Whole
    <3>3. QED BY <1>2, <1>8, <3>1, <3>2
  <2>2. ASSUME NEW u \in Tasks PROVE BegunTask(M, u)'
    <3>1. ASSUME taskDisk[u].st = "begun", taskDisk[u].batch \notin damaged \cup M
          PROVE  /\ batchDisk'[taskDisk[u].batch].state = "ready"
                 /\ u \in Listed(batchDisk'[taskDisk[u].batch])
      <4>1. taskDisk[u].batch \in Batches
        BY <1>1, <3>1, Typed DEF TaskDocs, NoTask
      <4>2. /\ batchDisk[taskDisk[u].batch].state = "ready"
            /\ u \in Listed(batchDisk[taskDisk[u].batch])
        BY <3>1 DEF Inv, Disk, BegunTask
      <4>3. taskDisk[u].batch # b
        BY <1>2, <4>2
      <4>4. QED BY <1>8, <4>1, <4>2, <4>3
    <3>2. QED BY <1>5, <3>1 DEF BegunTask, Listed
  <2>3. ASSUME NEW x \in ImportBatches PROVE StagedBatch(x)'
    <3>1. x \in Batches /\ StagedBatch(x)
      BY DEF Batches, Inv, Disk
    <3>2. CASE batchDisk'[x] = batchDisk[x]
      BY <1>5, <3>1, <3>2 DEF StagedBatch, Listed
    <3>3. CASE batchDisk'[x] = ready
      BY <1>3, <3>3 DEF StagedBatch
    <3>4. QED BY <1>2, <1>8, <3>1, <3>2, <3>3
  <2>4. \A x \in Batches \ M : Complete(x)'
    <3>1. ASSUME NEW x \in Batches \ M, batchDisk'[x].state = "ready", NEW u \in Listed(batchDisk'[x])
          PROVE  /\ taskDisk[u] # NoTask /\ taskDisk[u].batch = x
                 /\ taskDisk[u].gen = batchDisk'[x].gen
                 /\ taskDisk[u].content = batchDisk'[x].list[u]
                 /\ manifest[u] = batchDisk'[x].list[u]
      <4>1. CASE batchDisk'[x] = batchDisk[x]
        BY <3>1, <4>1 DEF Inv, Disk, Complete
      <4>2. CASE x = b /\ batchDisk'[b] = ready /\ job[a].bad = FALSE
        <5>1. u \in Listed(d)
          BY <1>3, <3>1, <4>2
        <5>2. taskDisk[u] = TaskFor(b, d, u) /\ manifest[u] = d.list[u]
          BY <1>4, <4>2, <5>1
        <5>3. TaskFor(b, d, u) # NoTask /\ TaskFor(b, d, u).batch = b
              /\ TaskFor(b, d, u).gen = d.gen /\ TaskFor(b, d, u).content = d.list[u]
          BY DEF TaskFor, NoTask
        <5>4. QED BY <1>3, <4>2, <5>2, <5>3
      <4>3. QED BY <1>2, <1>8, <4>1, <4>2
    <3>2. QED BY <1>5, <3>1 DEF Complete, Listed
  <2>5. OneBatchPerTask'
    <3>1. ASSUME NEW x \in Batches, NEW y \in Batches, x # y,
                 batchDisk'[x].state = "ready", batchDisk'[y].state = "ready"
          PROVE  Listed(batchDisk'[x]) \cap Listed(batchDisk'[y]) = {}
      <4>1. ASSUME NEW z \in Batches, z # b, batchDisk'[z].state = "ready", batchDisk'[b] = ready
            PROVE  Listed(batchDisk'[z]) \cap Listed(batchDisk'[b]) = {}
        BY <1>2, <1>3, <1>8, <4>1 DEF Unlisted
      <4>2. CASE x # b /\ y # b
        <5>1. batchDisk'[x] = batchDisk[x] /\ batchDisk'[y] = batchDisk[y]
          BY <1>8, <4>2
        <5>2. {batchDisk[x].state, batchDisk[y].state} = {"ready"}
          BY <3>1, <5>1
        <5>3. QED BY <3>1, <5>1, <5>2 DEF Inv, Disk, OneBatchPerTask
      <4>3. CASE x = b
        BY <1>2, <1>8, <3>1, <4>1, <4>3
      <4>4. CASE y = b
        BY <1>2, <1>8, <3>1, <4>1, <4>4
      <4>5. QED BY <4>2, <4>3, <4>4
    <3>2. ASSUME NEW x \in Batches, NEW y \in Batches, x # y,
                 {batchDisk'[x].state, batchDisk'[y].state} = {"ready"}
          PROVE  Listed(batchDisk'[x]) \cap Listed(batchDisk'[y]) = {}
      <4>1. batchDisk'[x].state = "ready" /\ batchDisk'[y].state = "ready"
        BY <3>2
      <4>2. QED BY <3>1, <3>2, <4>1
    <3>3. QED BY <3>2 DEF OneBatchPerTask, Listed
  <2>6. QED BY <2>1, <2>2, <2>3, <2>4, <2>5 DEF Disk
<1>11. Memory(M)'
  <2>1. Forgotten'
    BY <1>1, <1>5 DEF Forgotten
  <2>2. ASSUME fault' = FALSE, NEW x \in Batches PROVE Coherent(x)' /\ Known(x)'
    <3>1. Coherent(x) /\ Known(x)
      BY <1>1, <1>8, <2>2 DEF Inv, Memory
    <3>2. CASE UNCHANGED <<batches, batchDisk, tasks>>
      BY <3>1, <3>2 DEF Coherent, Known, Listed
    <3>3. CASE /\ batches'[b] = ready /\ batchDisk'[b] = ready
               /\ \A u \in Listed(d) : tasks'[u] = TaskFor(b, ready, u)
      <4>1. ASSUME NEW u \in Listed(d)
            PROVE  tasks'[u] # NoTask /\ tasks'[u].batch = b
        BY <1>16, <3>3, <4>1
      <4>2. CASE x = b
        BY <1>3, <3>3, <4>1, <4>2 DEF Coherent, Known, Listed
      <4>3. CASE x # b
        <5>1. batches'[x] = batches[x] /\ batchDisk'[x] = batchDisk[x]
          BY <1>8, <4>3
        <5>2. ASSUME batches[x].state = "ready", NEW u \in Listed(batches[x])
              PROVE  tasks'[u] = tasks[u]
          <6>1. batchDisk[x] = batches[x] /\ u \in Tasks
            BY <3>1, <5>2 DEF Coherent, Listed
          <6>2. u \notin Listed(d)
            BY <1>2, <5>2, <6>1 DEF Unlisted
          <6>3. QED BY <1>8, <6>1, <6>2
        <5>3. QED BY <3>1, <5>1, <5>2 DEF Coherent, Known, Listed
      <4>4. QED BY <4>2, <4>3
    <3>4. QED BY <1>8, <2>2, <3>2, <3>3
  <2>3. ASSUME NEW u \in Tasks PROVE Seen(M, u)'
    <3>1. CASE tasks'[u] = tasks[u]
      <4>1. ASSUME tasks[u] # NoTask, tasks[u].batch \notin M PROVE Visible(u)'
        <5>1. tasks[u].batch \in Batches
          BY <1>1, <4>1, Typed DEF TaskDocs
        <5>2. Visible(u) /\ batchDisk[tasks[u].batch].state = "ready"
          BY <4>1 DEF Inv, Memory, Seen, Visible
        <5>3. batchDisk'[tasks[u].batch] = batchDisk[tasks[u].batch]
          BY <1>2, <1>8, <5>1, <5>2
        <5>4. QED BY <3>1, <5>2, <5>3 DEF Visible, Listed
      <4>2. Seen(M, u)
        BY DEF Inv, Memory
      <4>3. QED BY <3>1, <4>1, <4>2 DEF Seen
    <3>2. CASE u \in Listed(d) /\ tasks'[u] = TaskFor(b, ready, u) /\ batchDisk'[b] = ready
      <4>1. tasks'[u].batch = b /\ tasks'[u].gen = ready.gen /\ tasks'[u].content = ready.list[u]
        BY <3>2 DEF TaskFor
      <4>2. b \in M => u \in TasksOf[b]
        BY <1>2, <3>2 DEF Whole
      <4>3. Visible(u)'
        BY <1>2, <1>3, <3>2, <4>1 DEF Whole, Visible, Listed
      <4>4. QED BY <4>1, <4>2, <4>3 DEF Seen
    <3>3. QED BY <1>8, <3>1, <3>2
  <2>4. QED BY <1>1, <1>5, <2>1, <2>2, <2>3 DEF Memory
<1>12. ASSUME NEW x \in Actors \ {a} PROVE Actor(M, x)'
  <2>1. job'[x] = job[x] /\ Actor(M, x)
    BY <1>6 DEF Inv
  <2>2. Bound(x) /\ job[x].batch \notin M =>
            batchDisk'[job[x].batch] = batchDisk[job[x].batch]
            /\ stage'[job[x].batch] = stage[job[x].batch]
    BY <1>0, <1>1, <1>5, <1>8, BoundApart, BoundBatch
  <2>3. ASSUME NEW u \in Tasks, Taken(u) PROVE Taken(u)'
    <3>1. CASE fault' = TRUE \/ phase = "stopping"
      BY <1>5, <3>1 DEF Taken
    <3>2. CASE /\ batches'[b] = ready /\ batchDisk'[b] = ready
               /\ \A v \in Listed(d) : tasks'[v] = TaskFor(b, ready, v)
      <4>1. CASE u \in Listed(d)
        <5>1. tasks'[u] # NoTask
          BY <1>16, <3>2, <4>1
        <5>2. QED BY <5>1 DEF Taken, NoTask
      <4>2. CASE u \notin Listed(d)
        <5>1. tasks'[u] = tasks[u] /\ (u \in reserved => u \in reserved')
          BY <1>5, <1>8, <4>2
        <5>2. fault = TRUE => fault' = TRUE
          BY <1>1, <1>8 DEF TypeOK
        <5>3. QED BY <1>5, <2>3, <5>1, <5>2 DEF Taken
      <4>3. QED BY <4>1, <4>2
    <3>3. QED BY <1>8, <3>1, <3>2
  <2>4. ASSUME Committing(x)
        PROVE  /\ Listed(job[x].doc) \subseteq reserved'
               /\ \A u \in Listed(job[x].doc) :
                    manifest'[u] = manifest[u] /\ taskDisk'[u] = taskDisk[u] /\ Unlisted(u)'
               /\ job[x].batch \in M => batchDisk'[job[x].batch].state # "ready"
               /\ x \in Clients /\ job[x].batch \notin M => job'[job[x].batch].pc = "none"
    <3>1. Committer(M, x) /\ Bound(x)
      BY <2>1, <2>4 DEF Actor, Bound
    <3>2. Listed(job[x].doc) \cap Listed(d) = {}
      BY <1>0, <1>1, <2>4 DEF Inv, Disjoint
    <3>3. ASSUME NEW u \in Listed(job[x].doc) PROVE Unlisted(u)'
      <4>1. Unlisted(u) /\ u \notin Listed(ready)
        BY <1>3, <3>1, <3>2, <3>3 DEF Committer
      <4>2. \A y \in Batches : batchDisk'[y].state = "ready" => u \notin Listed(batchDisk'[y])
        BY <1>2, <1>8, <4>1 DEF Unlisted
      <4>3. QED BY <4>2 DEF Unlisted, Listed
    <3>4. batchDisk'[job[x].batch].state # "ready"
      <4>1. job[x].batch \in Batches /\ job[x].batch # b
        BY <1>0, <1>1, <2>4, <3>1, BoundApart, BoundBatch
      <4>2. QED BY <1>8, <3>1, <4>1 DEF Committer
    <3>5. ASSUME x \in Clients, job[x].batch \notin M PROVE job'[job[x].batch].pc = "none"
      <4>1. job[job[x].batch].pc = "none" /\ job[x].batch \in Batches
        BY <3>1, <3>5, BoundBatch DEF Committer, Owner
      <4>2. job[x].batch \in Actors \ {a}
        BY <1>1, <4>1 DEF Actors
      <4>3. QED BY <1>6, <4>1, <4>2
    <3>6. QED BY <1>5, <3>1, <3>2, <3>3, <3>5, <3>4 DEF Committer
  <2>5. QED BY <1>5, <2>1, <2>2, <2>3, <2>4, ActorFrame
<1>13. Actor(M, a)' /\ ~Committing(a)'
  BY <1>6, NoneActs
<1>14. Disjoint'
  <2>1. \A x \in Actors : Committing(x)' => x # a /\ Committing(x) /\ job'[x].doc = job[x].doc
    BY <1>6, <1>13 DEF Committing
  <2>2. QED BY <2>1 DEF Inv, Disjoint, Listed
<1>15. QED BY <1>9, <1>10, <1>11, <1>12, <1>13, <1>14 DEF Inv

------------------------------------------------------------------------------
\* A dispatch keeps the invariant.
LEMMA DispatchKeepsInv ==
  ASSUME NEW M \in SUBSET Singles, Inv(M), NEW t \in Tasks, Dispatch(t)
  PROVE  Inv(M)'
<1>0. PICK begun : begun = [tasks[t] EXCEPT !.st = IF manifest[t] = tasks[t].content
                                                   THEN "begun" ELSE "blocked"]
  OBVIOUS
<1>1. TypeOK /\ phase = "serving" /\ tasks[t] \in TaskDocs
  BY Typed DEF Inv, Dispatch, Writable
<1>2. /\ tasks' = [tasks EXCEPT ![t] = begun] /\ taskDisk' = [taskDisk EXCEPT ![t] = begun]
      /\ running' = IF begun.st = "begun" THEN running \cup {t} ELSE running
      /\ UNCHANGED <<phase, fault, batches, reserved, job, batchDisk, stage, manifest,
                     damaged, imports, submits, outages>>
  BY <1>0 DEF Dispatch
<1>3. /\ begun \in TaskDocs /\ begun.batch = tasks[t].batch /\ begun.gen = tasks[t].gen
      /\ begun.content = tasks[t].content /\ begun # NoTask /\ begun.batch \in Batches
  <2>1. /\ begun \in TaskDocs /\ begun.batch = tasks[t].batch /\ begun.gen = tasks[t].gen
        /\ begun.content = tasks[t].content /\ begun.batch \in Batches
    BY <1>0, <1>1 DEF TaskDocs
  <2>2. begun # NoTask
    BY <2>1 DEF TaskDocs, NoTask
  <2>3. QED BY <2>1, <2>2
<1>4. /\ tasks'[t] = begun /\ taskDisk'[t] = begun
      /\ \A u \in Tasks \ {t} : tasks'[u] = tasks[u] /\ taskDisk'[u] = taskDisk[u]
      /\ tasks' \in [Tasks -> TaskDocs \cup {NoTask}]
      /\ taskDisk' \in [Tasks -> TaskDocs \cup {NoTask}]
  <2>1. tasks \in [Tasks -> TaskDocs \cup {NoTask}] /\ taskDisk \in [Tasks -> TaskDocs \cup {NoTask}]
    BY <1>1 DEF TypeOK
  <2> HIDE DEF TaskDocs, NoTask
  <2>2. QED BY <1>2, <1>3, <2>1
<1>5. /\ batchDisk[begun.batch].state = "ready" /\ t \in Listed(batchDisk[begun.batch])
      /\ begun.batch \notin M =>
          /\ begun.gen = batchDisk[begun.batch].gen
          /\ begun.content = batchDisk[begun.batch].list[t]
          /\ \A u \in Listed(batchDisk[begun.batch]) : batchDisk[begun.batch].list[u] \in Good
  <2>1. tasks[t] # NoTask
    BY DEF Dispatch
  <2>2. CASE begun.batch \notin M
    BY <1>3, <2>1, <2>2 DEF Inv, Memory, Seen, Visible
  <2>3. CASE begun.batch \in M
    <3>1. t \in TasksOf[begun.batch]
      BY <1>3, <2>1, <2>3 DEF Inv, Memory, Seen
    <3>2. batches[begun.batch].state = "ready" /\ fault = FALSE
      BY <1>1, <1>3 DEF Dispatch, Writable, TypeOK
    <3>3. batchDisk[begun.batch].state = "ready"
      BY <1>1, <1>3, <3>2 DEF Inv, Memory, Coherent
    <3>4. QED BY <1>3, <2>3, <3>1, <3>3 DEF Inv, Disk, Document, Whole
  <2>4. QED BY <2>2, <2>3
<1>6. TypeOK'
  BY <1>1, <1>2, <1>4 DEF TypeOK
<1>7. Disk(M)'
  <2>1. \A x \in Batches : Document(x)'
    BY <1>2 DEF Inv, Disk, Document, Whole, Listed
  <2>2. ASSUME NEW u \in Tasks PROVE BegunTask(M, u)'
    <3>1. CASE u = t
      BY <1>2, <1>4, <1>5, <3>1 DEF BegunTask, Listed
    <3>2. CASE u # t
      BY <1>2, <1>4, <3>2 DEF Inv, Disk, BegunTask, Listed
    <3>3. QED BY <3>1, <3>2
  <2>3. \A x \in ImportBatches : StagedBatch(x)'
    BY <1>2 DEF Inv, Disk, StagedBatch, Listed
  <2>4. ASSUME NEW x \in Batches \ M, batchDisk[x].state = "ready", NEW u \in Listed(batchDisk[x])
        PROVE  /\ taskDisk'[u] # NoTask /\ taskDisk'[u].batch = x
               /\ taskDisk'[u].gen = batchDisk[x].gen
               /\ taskDisk'[u].content = batchDisk[x].list[u]
               /\ manifest[u] = batchDisk[x].list[u]
    <3>1. /\ taskDisk[u] # NoTask /\ taskDisk[u].batch = x /\ taskDisk[u].gen = batchDisk[x].gen
          /\ taskDisk[u].content = batchDisk[x].list[u] /\ manifest[u] = batchDisk[x].list[u]
      BY <2>4 DEF Inv, Disk, Complete
    <3>2. CASE u = t
      <4>1. x = begun.batch
        <5>1. ASSUME x # begun.batch PROVE FALSE
          <6>1. {batchDisk[x].state, batchDisk[begun.batch].state} = {"ready"}
            BY <1>5, <2>4
          <6>2. Listed(batchDisk[x]) \cap Listed(batchDisk[begun.batch]) = {}
            BY <1>3, <5>1, <6>1 DEF Inv, Disk, OneBatchPerTask
          <6>3. QED BY <1>5, <2>4, <3>2, <6>2
        <5>2. QED BY <5>1
      <4>2. QED BY <1>3, <1>4, <1>5, <3>1, <3>2, <4>1
    <3>3. CASE u # t
      <4>1. u \in Tasks
        BY <2>4 DEF Listed
      <4>2. QED BY <1>4, <3>1, <3>3, <4>1
    <3>4. QED BY <3>2, <3>3
  <2>5. \A x \in Batches \ M : Complete(x)'
    BY <1>2, <2>4 DEF Complete, Listed
  <2>6. OneBatchPerTask'
    BY <1>2 DEF Inv, Disk, OneBatchPerTask, Listed
  <2>7. QED BY <2>1, <2>2, <2>3, <2>5, <2>6 DEF Disk
<1>8. Memory(M)'
  <2>1. Forgotten'
    BY <1>1, <1>2 DEF Forgotten
  <2>2. ASSUME fault' = FALSE, NEW x \in Batches PROVE Coherent(x)' /\ Known(x)'
    <3>1. Coherent(x) /\ Known(x)
      BY <1>1, <1>2, <2>2 DEF Inv, Memory
    <3>2. \A u \in Listed(batches[x]) : u \in Tasks
      BY DEF Listed
    <3>3. QED BY <1>2, <1>3, <1>4, <3>1, <3>2 DEF Coherent, Known, Listed, NoTask
  <2>3. ASSUME NEW u \in Tasks PROVE Seen(M, u)'
    <3>1. CASE u = t
      <4>1. begun.batch \in M => t \in TasksOf[begun.batch]
        BY <1>3 DEF Dispatch, Inv, Memory, Seen
      <4>2. begun.batch \notin M => Visible(t)'
        BY <1>2, <1>4, <1>5 DEF Visible, Listed
      <4>3. QED BY <1>4, <3>1, <4>1, <4>2 DEF Seen
    <3>2. CASE u # t
      BY <1>2, <1>4, <3>2 DEF Inv, Memory, Seen, Visible, Listed
    <3>3. QED BY <3>1, <3>2
  <2>4. QED BY <1>1, <1>2, <2>1, <2>2, <2>3 DEF Memory
<1>9. ASSUME NEW x \in Actors PROVE Actor(M, x)'
  <2>1. \A u \in Tasks : Taken(u) => Taken(u)'
    BY <1>2, <1>3, <1>4 DEF Taken, NoTask
  <2>2. ASSUME Committing(x)
        PROVE  /\ Listed(job[x].doc) \subseteq reserved'
               /\ \A u \in Listed(job[x].doc) :
                    manifest'[u] = manifest[u] /\ taskDisk'[u] = taskDisk[u] /\ Unlisted(u)'
               /\ job[x].batch \in M => batchDisk'[job[x].batch].state # "ready"
               /\ x \in Clients /\ job[x].batch \notin M => job'[job[x].batch].pc = "none"
    <3>1. Committer(M, x)
      BY <2>2 DEF Inv, Actor
    <3>2. \A u \in Listed(job[x].doc) : u \in Tasks \ {t} /\ Unlisted(u)
      <4>1. ASSUME NEW u \in Listed(job[x].doc) PROVE u \in Tasks /\ Unlisted(u)
        BY <3>1, <4>1 DEF Committer, Listed
      <4>2. ~Unlisted(t)
        BY <1>3, <1>5 DEF Unlisted
      <4>3. QED BY <4>1, <4>2
    <3>3. \A u : Unlisted(u) => Unlisted(u)'
      BY <1>2 DEF Unlisted, Listed
    <3>4. QED BY <1>2, <1>4, <3>1, <3>2, <3>3 DEF Committer, Owner
  <2>3. QED BY <1>2, <2>1, <2>2, ActorFrame
<1>10. Disjoint'
  BY <1>2 DEF Inv, Disjoint, Committing, Listed
<1>11. QED BY <1>6, <1>7, <1>8, <1>9, <1>10 DEF Inv

\* The end of an execution, and the begin of a shutdown, keep the invariant.
LEMMA EndKeepsInv ==
  ASSUME NEW M \in SUBSET Singles, Inv(M), (\E t \in Tasks : End(t)) \/ BeginShutdown
  PROVE  Inv(M)'
<1>1. TypeOK
  BY DEF Inv
<1>2. ASSUME NEW t \in Tasks, End(t) PROVE Inv(M)'
  <2>1. UNCHANGED <<shared, stage, job, phase, fault, imports, submits, outages>>
        /\ running' \subseteq Tasks /\ running # {}
    BY <1>1, <1>2 DEF End, shared, onDisk, TypeOK
  <2>2. TypeOK'
    BY <1>1, <2>1 DEF TypeOK, shared
  <2>3. CASE phase # "down"
    BY <2>1, <2>2, <2>3, IdleKeeps
  <2>4. CASE phase = "down"
    <3>1. Disk(M)'
      <4>1. \A b \in ImportBatches : StagedBatch(b)'
        BY <2>1 DEF Inv, Disk, StagedBatch, shared, Listed
      <4>2. QED BY <2>1, <4>1, DiskFrame DEF shared
    <3>2. Memory(M)'
      <4>1. Forgotten'
        BY <2>1 DEF Inv, Memory, Forgotten, shared
      <4>2. \A x \in Tasks : Seen(M, x)'
        BY <2>1 DEF Inv, Memory, Seen, Visible, shared, Listed
      <4>3. QED BY <2>1, <2>4, <4>1, <4>2 DEF Memory
    <3>3. \A a \in Actors : job[a].pc = "none"
      BY <2>4, NoJobIsOne DEF Inv, Memory, Forgotten
    <3>4. \A a \in Actors : Actor(M, a)' /\ ~Committing(a)'
      BY <2>1, <3>3, NoneActs
    <3>5. QED BY <2>2, <3>1, <3>2, <3>4 DEF Inv, Disjoint
  <2>5. QED BY <2>3, <2>4
<1>3. CASE BeginShutdown
  <2>1. UNCHANGED <<shared, stage, job, fault, running, imports, submits>>
        /\ phase = "serving" /\ phase' = "stopping" /\ outages' \in Nat
    BY <1>1, <1>3 DEF BeginShutdown, shared, onDisk, TypeOK
  <2>2. TypeOK'
    BY <1>1, <2>1 DEF TypeOK, shared
  <2>3. QED BY <2>1, <2>2, IdleKeeps
<1>4. QED BY <1>2, <1>3

\* A controller that exits or dies leaves the disk.
LEMMA GoneKeepsInv ==
  ASSUME NEW M \in SUBSET Singles, Inv(M), Exit \/ Crash
  PROVE  Inv(M)'
<1>1. TypeOK
  BY DEF Inv
<1>2. Gone /\ UNCHANGED <<batchDisk, taskDisk, stage, manifest, damaged, imports, submits>>
      /\ outages' \in Nat
  BY <1>1 DEF Exit, Crash, onDisk, TypeOK
<1>3. /\ phase' = "down" /\ fault' = FALSE /\ reserved' = {}
      /\ \A t \in Tasks : tasks'[t] = NoTask
      /\ \A a \in Actors : job'[a] = NoJob
  BY <1>2 DEF Gone
<1>4. TypeOK'
  <2>1. /\ batches' \in [Batches -> BatchDocs] /\ tasks' \in [Tasks -> TaskDocs \cup {NoTask}]
        /\ job' \in [Actors -> Jobs] /\ running' \subseteq Tasks
    BY <1>2, NoJobIsOne DEF Gone
  <2>2. QED BY <1>1, <1>2, <1>3, <2>1 DEF TypeOK
<1>5. Disk(M)'
  <2>1. \A b \in ImportBatches : StagedBatch(b)'
    BY <1>2 DEF Inv, Disk, StagedBatch, Listed
  <2>2. QED BY <1>2, <2>1, DiskFrame
<1>6. Memory(M)'
  BY <1>3 DEF Memory, Forgotten, Seen
<1>7. \A a \in Actors : Actor(M, a)' /\ ~Committing(a)'
  BY <1>3, NoJobIsOne, NoneActs
<1>8. QED BY <1>4, <1>5, <1>6, <1>7 DEF Inv, Disjoint

\* Damage to a file of a stopped controller.
LEMMA DamageKeepsInv ==
  ASSUME NEW M \in SUBSET Singles, Inv(M), NEW b \in Batches, Damage(b)
  PROVE  Inv(M)'
<1>1. TypeOK /\ phase = "down"
  BY DEF Inv, Damage
<1>2. UNCHANGED <<phase, fault, batches, tasks, reserved, running, job, taskDisk, manifest,
                  imports, submits, outages>> /\ damaged' = damaged \cup {b}
  BY DEF Damage, volatile
<1>3. /\ batchDisk' \in [Batches -> BatchDocs] /\ stage' \in [Batches -> Lists]
      /\ \A x \in Batches \ {b} : batchDisk'[x] = batchDisk[x] /\ stage'[x] = stage[x]
      /\ batchDisk'[b] = batchDisk[b] \/ batchDisk'[b].state = "damaged"
  <2>1. batchDisk \in [Batches -> BatchDocs] /\ stage \in [Batches -> Lists]
    BY <1>1 DEF TypeOK
  <2>2. CASE batchDisk' = [batchDisk EXCEPT ![b] = [NoBatch EXCEPT !.state = "damaged"]]
             /\ stage' = stage
    <3>1. [NoBatch EXCEPT !.state = "damaged"] \in BatchDocs
          /\ [NoBatch EXCEPT !.state = "damaged"].state = "damaged"
      BY NoJobIsOne DEF NoBatch, BatchDocs
    <3>2. QED BY <2>1, <2>2, <3>1
  <2>3. ASSUME NEW t \in TasksOf[b], stage' = [stage EXCEPT ![b][t] = "none"],
               batchDisk' = batchDisk
        PROVE  /\ stage' \in [Batches -> Lists]
               /\ \A x \in Batches \ {b} : stage'[x] = stage[x]
    <3>1. [stage[b] EXCEPT ![t] = "none"] \in Lists
      BY <2>1 DEF Lists
    <3>2. stage' = [stage EXCEPT ![b] = [stage[b] EXCEPT ![t] = "none"]]
      BY <2>3
    <3>3. QED BY <2>1, <3>1, <3>2
  <2>4. QED BY <2>1, <2>2, <2>3 DEF Damage
<1>4. TypeOK'
  BY <1>1, <1>2, <1>3 DEF TypeOK
<1>5. \A x \in Batches : batchDisk'[x] = batchDisk[x] \/ (x = b /\ batchDisk'[x].state = "damaged")
  BY <1>3
<1>6. Disk(M)'
  <2>1. \A x \in Batches : Document(x)'
    BY <1>5 DEF Inv, Disk, Document, Whole, Listed
  <2>2. ASSUME NEW u \in Tasks PROVE BegunTask(M, u)'
    <3>1. ASSUME taskDisk[u].st = "begun", taskDisk[u].batch \notin damaged' \cup M
          PROVE  batchDisk'[taskDisk[u].batch] = batchDisk[taskDisk[u].batch]
                 /\ taskDisk[u].batch \notin damaged
      <4>1. taskDisk[u].batch \in Batches
        BY <1>1, <3>1, Typed DEF TaskDocs, NoTask
      <4>2. QED BY <1>2, <1>3, <3>1, <4>1
    <3>2. QED BY <1>2, <3>1 DEF Inv, Disk, BegunTask, Listed
  <2>3. \A x \in ImportBatches : StagedBatch(x)'
    BY <1>2, <1>3 DEF Inv, Disk, StagedBatch, Batches, Listed
  <2>4. \A x \in Batches \ M : Complete(x)'
    BY <1>2, <1>5 DEF Inv, Disk, Complete, Listed
  <2>5. ASSUME NEW x \in Batches, NEW y \in Batches, x # y,
               {batchDisk'[x].state, batchDisk'[y].state} = {"ready"}
        PROVE  Listed(batchDisk'[x]) \cap Listed(batchDisk'[y]) = {}
    <3>1. batchDisk'[x].state = "ready" /\ batchDisk'[y].state = "ready"
      BY <2>5
    <3>2. batchDisk'[x] = batchDisk[x] /\ batchDisk'[y] = batchDisk[y]
      BY <1>5, <3>1
    <3>3. {batchDisk[x].state, batchDisk[y].state} = {"ready"}
      BY <3>1, <3>2
    <3>4. QED BY <2>5, <3>2, <3>3 DEF Inv, Disk, OneBatchPerTask
  <2>6. OneBatchPerTask'
    BY <2>5 DEF OneBatchPerTask, Listed
  <2>7. QED BY <2>1, <2>2, <2>3, <2>4, <2>6 DEF Disk
<1>7. Memory(M)'
  BY <1>1, <1>2 DEF Inv, Memory, Forgotten, Seen
<1>8. \A a \in Actors : job[a].pc = "none"
  BY <1>1, NoJobIsOne DEF Inv, Memory, Forgotten
<1>9. \A a \in Actors : Actor(M, a)' /\ ~Committing(a)'
  BY <1>2, <1>8, NoneActs
<1>10. QED BY <1>4, <1>6, <1>7, <1>9 DEF Inv, Disjoint

\* A restart keeps the invariant.
LEMMA BootKeepsInv ==
  ASSUME NEW M \in SUBSET Singles, Inv(M), Boot
  PROVE  Inv(M)'
<1>1. /\ TypeOK /\ phase = "down" /\ fault = FALSE /\ reserved = {}
      /\ \A b \in Batches : batchDisk[b] \in BatchDocs
  BY Typed DEF Inv, Memory, Forgotten, Boot
<1>2. /\ phase' = "serving"
      /\ batches' = [b \in Batches |-> Loaded(b)]
      /\ batchDisk' = [b \in Batches |-> IF batchDisk[b].state = "damaged" THEN batchDisk[b]
                                         ELSE Loaded(b)]
      /\ UNCHANGED <<fault, reserved, running, taskDisk, stage, manifest, damaged, imports,
                     submits, outages>>
  BY DEF Boot
\* What is loaded.
<1>3. ASSUME NEW b \in Batches
      PROVE  /\ Loaded(b) \in BatchDocs
             /\ \/ batchDisk[b].state = "damaged" /\ Loaded(b).state = "blocked"
                \/ /\ batchDisk[b].state = "validating" /\ batchDisk[b].complete = FALSE
                   /\ Loaded(b).state = "rejected"
                \/ /\ Loaded(b) = batchDisk[b] /\ batchDisk[b].state # "damaged"
                   /\ batchDisk[b].state = "validating" => batchDisk[b].complete = TRUE
  <2>1. batchDisk[b] \in BatchDocs /\ batchDisk[b].complete \in BOOLEAN
    BY <1>1 DEF BatchDocs
  <2>2. CASE batchDisk[b].state = "damaged"
    <3>1. Loaded(b) = [NoBatch EXCEPT !.state = "blocked"]
      BY <2>2 DEF Loaded
    <3>2. [NoBatch EXCEPT !.state = "blocked"] \in BatchDocs
          /\ [NoBatch EXCEPT !.state = "blocked"].state = "blocked"
      BY NoJobIsOne DEF NoBatch, BatchDocs
    <3>3. QED BY <2>2, <3>1, <3>2
  <2>3. CASE batchDisk[b].state = "validating" /\ ~batchDisk[b].complete
    <3>1. Loaded(b) = [batchDisk[b] EXCEPT !.state = "rejected"]
      BY <2>3 DEF Loaded
    <3>2. [batchDisk[b] EXCEPT !.state = "rejected"] \in BatchDocs
          /\ [batchDisk[b] EXCEPT !.state = "rejected"].state = "rejected"
      BY <2>1 DEF BatchDocs
    <3>3. QED BY <2>1, <2>3, <3>1, <3>2
  <2>4. CASE batchDisk[b].state # "damaged" /\ ~(batchDisk[b].state = "validating" /\ ~batchDisk[b].complete)
    <3>1. Loaded(b) = batchDisk[b]
      BY <2>4 DEF Loaded
    <3>2. QED BY <2>1, <2>4, <3>1
  <2>5. QED BY <2>2, <2>3, <2>4
<1>4. ASSUME NEW b \in Batches
      PROVE  /\ batches'[b] = Loaded(b) /\ batchDisk'[b] \in BatchDocs
             /\ batchDisk'[b] = IF batchDisk[b].state = "damaged" THEN batchDisk[b] ELSE Loaded(b)
             /\ batchDisk'[b].state = "ready" <=> batchDisk[b].state = "ready"
             /\ batchDisk'[b].state \in {"ready", "validating"} => batchDisk'[b] = batchDisk[b]
  <2>1. batches'[b] = Loaded(b)
        /\ batchDisk'[b] = IF batchDisk[b].state = "damaged" THEN batchDisk[b] ELSE Loaded(b)
    BY <1>2
  <2>2. QED BY <1>1, <1>3, <2>1
\* The task a batch is loaded with.
<1>5. ASSUME NEW t \in Tasks
      PROVE  \/ tasks'[t] = NoTask /\ ReadyWith(t) = {}
             \/ \E b \in ReadyWith(t) :
                  /\ tasks'[t] \in TaskDocs /\ tasks'[t].batch = b
                  /\ tasks'[t].gen = batchDisk[b].gen
                  /\ tasks'[t].content = batchDisk[b].list[t]
  <2> DEFINE b == CHOOSE b \in ReadyWith(t) : TRUE
             new == TaskFor(b, batchDisk[b], t)
  <2>1. tasks'[t] = IF ReadyWith(t) = {} THEN NoTask
                    ELSE IF taskDisk[t] # NoTask /\ [taskDisk[t] EXCEPT !.st = "queued"] = new
                         THEN taskDisk[t] ELSE [new EXCEPT !.st = "blocked"]
    BY DEF Boot
  <2>2. CASE ReadyWith(t) = {}
    BY <2>1, <2>2
  <2>3. CASE ReadyWith(t) # {}
    <3>1. b \in ReadyWith(t)
      BY <2>3
    <3> HIDE DEF b
    <3>2. b \in Batches /\ batchDisk[b].list[t] # "none"
      BY <3>1 DEF ReadyWith
    <3>3. batchDisk[b].list[t] \in Contents /\ batchDisk[b].gen \in Nat
      BY <1>1, <3>2 DEF BatchDocs, Lists
    <3>4. new = [st |-> "queued", batch |-> b, gen |-> batchDisk[b].gen,
                 content |-> batchDisk[b].list[t]]
      BY DEF TaskFor
    <3> HIDE DEF new
    <3>5. CASE taskDisk[t] # NoTask /\ [taskDisk[t] EXCEPT !.st = "queued"] = new
      <4>1. tasks'[t] = taskDisk[t] /\ taskDisk[t] \in TaskDocs
        BY <1>1, <2>1, <2>3, <3>5, Typed
      <4>2. /\ taskDisk[t].batch = [taskDisk[t] EXCEPT !.st = "queued"].batch
            /\ taskDisk[t].gen = [taskDisk[t] EXCEPT !.st = "queued"].gen
            /\ taskDisk[t].content = [taskDisk[t] EXCEPT !.st = "queued"].content
        BY <4>1 DEF TaskDocs
      <4>3. /\ taskDisk[t].batch = b /\ taskDisk[t].gen = batchDisk[b].gen
            /\ taskDisk[t].content = batchDisk[b].list[t]
        BY <3>4, <3>5, <4>2
      <4>4. QED BY <3>1, <4>1, <4>3
    <3>6. CASE ~(taskDisk[t] # NoTask /\ [taskDisk[t] EXCEPT !.st = "queued"] = new)
      <4>1. tasks'[t] = [new EXCEPT !.st = "blocked"]
        BY <2>1, <2>3, <3>6
      <4>2. [new EXCEPT !.st = "blocked"] = [st |-> "blocked", batch |-> b, gen |-> batchDisk[b].gen,
                                             content |-> batchDisk[b].list[t]]
        BY <3>4
      <4>3. QED BY <3>1, <3>2, <3>3, <4>1, <4>2 DEF TaskDocs
    <3>7. QED BY <3>5, <3>6
  <2>4. QED BY <2>2, <2>3
\* A worker for every batch that is still validating.
<1>6. ASSUME NEW a \in Actors
      PROVE  /\ job'[a] \in Jobs
             /\ \/ job'[a].pc = "none"
                \/ /\ a \in Batches /\ batchDisk'[a].state = "validating"
                   /\ batchDisk'[a].complete = TRUE
                   /\ job'[a].pc = "gate" /\ job'[a].batch = a /\ job'[a].doc = batchDisk'[a]
                   /\ job'[a].todo = {} /\ job'[a].bad = FALSE
  <2>1. job'[a] = IF a \in Batches
                  THEN IF Loaded(a).state = "validating"
                       THEN [NoJob EXCEPT !.pc = "gate", !.batch = a, !.doc = Loaded(a)]
                       ELSE NoJob
                  ELSE NoJob
    BY DEF Boot
  <2>2. CASE a \in Batches /\ Loaded(a).state = "validating"
    <3>1. /\ Loaded(a) \in BatchDocs /\ Loaded(a) = batchDisk'[a]
          /\ batchDisk'[a].complete = TRUE
      BY <1>3, <1>4, <2>2
    <3>2. job'[a] = [NoJob EXCEPT !.pc = "gate", !.batch = a, !.doc = Loaded(a)]
      BY <2>1, <2>2
    <3>3. QED BY <2>2, <3>1, <3>2 DEF NoJob, Jobs
  <2>3. CASE ~(a \in Batches /\ Loaded(a).state = "validating")
    <3>1. job'[a] = NoJob
      BY <2>1, <2>3
    <3>2. QED BY <3>1, NoJobIsOne
  <2>4. QED BY <2>2, <2>3
<1>7. TypeOK'
  <2>1. job' \in [Actors -> Jobs] /\ tasks' \in [Tasks -> TaskDocs \cup {NoTask}]
    <3>1. job' = [a \in Actors |-> job'[a]] /\ tasks' = [t \in Tasks |-> tasks'[t]]
      BY DEF Boot
    <3>2. \A t \in Tasks : tasks'[t] \in TaskDocs \cup {NoTask}
      BY <1>5
    <3> HIDE DEF Jobs, TaskDocs, NoTask
    <3>3. QED BY <1>6, <3>1, <3>2
  <2>2. batches' \in [Batches -> BatchDocs] /\ batchDisk' \in [Batches -> BatchDocs]
    BY <1>1, <1>2, <1>3
  <2>3. QED BY <1>1, <1>2, <2>1, <2>2 DEF TypeOK
<1>8. Disk(M)'
  <2>1. \A x \in Batches : Document(x)'
    BY <1>4 DEF Inv, Disk, Document, Whole, Listed
  <2>2. ASSUME NEW u \in Tasks PROVE BegunTask(M, u)'
    <3>1. ASSUME taskDisk[u].st = "begun", taskDisk[u].batch \notin damaged \cup M
          PROVE  batchDisk'[taskDisk[u].batch] = batchDisk[taskDisk[u].batch]
      <4>1. taskDisk[u].batch \in Batches
        BY <1>1, <3>1, Typed DEF TaskDocs, NoTask
      <4>2. batchDisk[taskDisk[u].batch].state = "ready"
        BY <3>1 DEF Inv, Disk, BegunTask
      <4>3. QED BY <1>4, <4>1, <4>2
    <3>2. QED BY <1>2, <3>1 DEF Inv, Disk, BegunTask, Listed
  <2>3. ASSUME NEW x \in ImportBatches PROVE StagedBatch(x)'
    <3>1. StagedBatch(x) /\ x \in Batches
      BY DEF Inv, Disk, Batches
    <3>2. CASE batchDisk'[x] = batchDisk[x]
      BY <1>2, <3>1, <3>2 DEF StagedBatch, Listed
    <3>3. CASE batchDisk'[x].state # "validating"
      BY <3>3 DEF StagedBatch
    <3>4. QED BY <1>4, <3>1, <3>2, <3>3
  <2>4. \A x \in Batches \ M : Complete(x)'
    BY <1>2, <1>4 DEF Inv, Disk, Complete, Listed
  <2>5. ASSUME NEW x \in Batches, NEW y \in Batches, x # y,
               {batchDisk'[x].state, batchDisk'[y].state} = {"ready"}
        PROVE  Listed(batchDisk'[x]) \cap Listed(batchDisk'[y]) = {}
    <3>1. batchDisk'[x].state = "ready" /\ batchDisk'[y].state = "ready"
      BY <2>5
    <3>2. batchDisk'[x] = batchDisk[x] /\ batchDisk'[y] = batchDisk[y]
      BY <1>4, <3>1
    <3>3. {batchDisk[x].state, batchDisk[y].state} = {"ready"}
      BY <3>1, <3>2
    <3>4. QED BY <2>5, <3>2, <3>3 DEF Inv, Disk, OneBatchPerTask
  <2>6. OneBatchPerTask'
    BY <2>5 DEF OneBatchPerTask, Listed
  <2>7. QED BY <2>1, <2>2, <2>3, <2>4, <2>6 DEF Disk
<1>9. Memory(M)'
  <2>1. Forgotten'
    BY <1>2 DEF Forgotten
  <2>2. ASSUME NEW x \in Batches PROVE Coherent(x)' /\ Known(x)'
    <3>1. Coherent(x)'
      BY <1>3, <1>4 DEF Coherent
    <3>2. ASSUME batches'[x].state = "ready", NEW t \in Listed(batches'[x])
          PROVE  tasks'[t] # NoTask /\ tasks'[t].batch = x
      <4>1. batchDisk[x] = batches'[x] /\ batchDisk[x].state = "ready" /\ t \in Tasks
        BY <1>3, <1>4, <3>2 DEF Listed
      <4>2. x \in ReadyWith(t)
        BY <3>2, <4>1 DEF ReadyWith, Listed
      <4>3. PICK b \in ReadyWith(t) : tasks'[t] \in TaskDocs /\ tasks'[t].batch = b
        BY <1>5, <4>1, <4>2
      <4>4. b = x
        <5>1. ASSUME b # x PROVE FALSE
          <6>1. b \in Batches /\ batchDisk[b].state = "ready" /\ t \in Listed(batchDisk[b])
            BY <4>1, <4>3 DEF ReadyWith, Listed
          <6>2. {batchDisk[b].state, batchDisk[x].state} = {"ready"}
            BY <4>1, <6>1
          <6>3. Listed(batchDisk[b]) \cap Listed(batchDisk[x]) = {}
            BY <5>1, <6>1, <6>2 DEF Inv, Disk, OneBatchPerTask
          <6>4. QED BY <3>2, <4>1, <6>1, <6>3
        <5>2. QED BY <5>1
      <4>5. QED BY <4>3, <4>4 DEF TaskDocs, NoTask
    <3>3. QED BY <3>1, <3>2 DEF Known, Listed
  <2>3. ASSUME NEW t \in Tasks PROVE Seen(M, t)'
    <3>1. CASE tasks'[t] = NoTask
      BY <3>1 DEF Seen
    <3>2. ASSUME NEW b \in ReadyWith(t), tasks'[t].batch = b, tasks'[t].gen = batchDisk[b].gen,
                 tasks'[t].content = batchDisk[b].list[t]
          PROVE  Seen(M, t)'
      <4>1. b \in Batches /\ batchDisk[b].state = "ready" /\ t \in Listed(batchDisk[b])
        BY <3>2 DEF ReadyWith, Listed
      <4>2. batchDisk'[b] = batchDisk[b]
        BY <1>4, <4>1
      <4>3. Whole(b, batchDisk[b])
        BY <4>1 DEF Inv, Disk, Document
      <4>4. b \in M => t \in TasksOf[b]
        BY <4>1, <4>3 DEF Whole
      <4>5. Visible(t)'
        BY <3>2, <4>1, <4>2, <4>3 DEF Visible, Whole, Listed
      <4>6. QED BY <3>2, <4>4, <4>5 DEF Seen
    <3>3. QED BY <1>5, <3>1, <3>2
  <2>4. QED BY <2>1, <2>2, <2>3 DEF Memory
<1>10. ASSUME NEW a \in Actors PROVE Actor(M, a)' /\ ~Committing(a)'
  <2>1. CASE job'[a].pc = "none"
    BY <2>1, NoneActs
  <2>2. CASE /\ a \in Batches /\ batchDisk'[a].state = "validating"
             /\ batchDisk'[a].complete = TRUE
             /\ job'[a].pc = "gate" /\ job'[a].batch = a /\ job'[a].doc = batchDisk'[a]
             /\ job'[a].todo = {} /\ job'[a].bad = FALSE
    <3>1. /\ a \notin Clients /\ ~Committing(a)'
          /\ Whole(a, batchDisk[a])' /\ (Whole(a, batchDisk[a])' <=> Whole(a, job[a].doc)')
      BY <1>8, <2>2, ImportAssumption DEF Committing, Disk, Document, Whole, Listed
    <3>2. Role(a)' /\ Worker(M, a)' /\ Scanner(a)' /\ Checked(M, a)'
      BY <2>2, <3>1 DEF Role, Worker, Scanner, Checked
    <3>3. QED BY <3>1, <3>2 DEF Actor
  <2>3. QED BY <1>6, <2>1, <2>2
<1>11. QED BY <1>7, <1>8, <1>9, <1>10 DEF Inv, Disjoint

------------------------------------------------------------------------------
\* The condition on one step that Apart is about.
StepApart(M) ==
    \A c \in Clients : Register(c) => job[c].batch \in M \/ job[job[c].batch].pc = "none"

\* A step that changes nothing keeps the invariant.
LEMMA StutterKeepsInv ==
  ASSUME NEW M \in SUBSET Singles, Inv(M), UNCHANGED vars
  PROVE  Inv(M)'
<1>1. /\ UNCHANGED <<batches, batchDisk, tasks, taskDisk, stage, manifest, job, damaged>>
      /\ UNCHANGED <<phase, fault, reserved, running, imports, submits, outages>>
  BY DEF vars, volatile, onDisk
<1>2. TypeOK'
  BY <1>1 DEF Inv, TypeOK
<1>3. Disk(M)'
  <2>1. \A b \in ImportBatches : StagedBatch(b)'
    BY <1>1 DEF Inv, Disk, StagedBatch, Listed
  <2>2. QED BY <1>1, <2>1, DiskFrame
<1>4. Memory(M)'
  BY <1>1 DEF Inv, Memory, Forgotten, Coherent, Known, Seen, Visible, Listed
<1>5. ASSUME NEW a \in Actors PROVE Actor(M, a)'
  <2>1. Committing(a) => Committer(M, a)
    BY DEF Inv, Actor
  <2>2. \A t \in Tasks : (Taken(t) => Taken(t)') /\ (Unlisted(t) => Unlisted(t)')
    BY <1>1 DEF Taken, Unlisted, Listed
  <2>3. \A t \in Listed(job[a].doc) : t \in Tasks
    BY DEF Listed
  <2>4. QED BY <1>1, <2>1, <2>2, <2>3, ActorFrame DEF Committer, Owner
<1>6. Disjoint'
  BY <1>1 DEF Inv, Disjoint, Committing, Listed
<1>7. QED BY <1>2, <1>3, <1>4, <1>5, <1>6 DEF Inv

\* Every step keeps the invariant, a registration under that condition.
LEMMA NextKeepsInv ==
  ASSUME NEW M \in SUBSET Singles, Inv(M), Next, StepApart(M)
  PROVE  Inv(M)'
<1>1. CASE \E b \in ImportBatches : Import(b)
  BY <1>1, ImportKeepsInv
<1>2. CASE \E b \in Batches : Work(b)
  BY <1>2, EnterKeepsInv, DiscoverKeepsInv, ScanKeepsInv, VerifyKeepsInv, DecideKeepsInv
     DEF Work
<1>3. CASE \E b \in Batches : Damage(b)
  BY <1>3, DamageKeepsInv
<1>4. CASE \E c \in Clients : Upload(c)
  BY <1>4, UploadKeepsInv
<1>5. CASE \E c \in Clients : Register(c)
  BY <1>5, RegisterKeepsInv DEF StepApart
<1>6. CASE \E a \in Actors : Commit(a)
  BY <1>6, PublishKeepsInv, SealKeepsInv DEF Commit
<1>7. CASE \E t \in Tasks : Dispatch(t)
  BY <1>7, DispatchKeepsInv
<1>8. CASE (\E t \in Tasks : End(t)) \/ BeginShutdown
  BY <1>8, EndKeepsInv
<1>9. CASE Exit \/ Crash
  BY <1>9, GoneKeepsInv
<1>10. CASE Boot
  BY <1>10, BootKeepsInv
<1>11. QED
  BY <1>1, <1>2, <1>3, <1>4, <1>5, <1>6, <1>7, <1>8, <1>9, <1>10 DEF Next

\* The batches outside M are safe from whatever happens to those in M, as long
\* as no upload of one outside is registered while a worker has its batch: jobs
\* that commit have their batch and the names of its tasks to themselves, and a
\* healthy controller knows what the disk holds.
THEOREM ImportCorrect ==
  ASSUME NEW M \in SUBSET Singles
  PROVE  Spec /\ Apart(M) => []Inv(M)
<1>1. Inv(M) /\ [Next]_vars /\ [StepApart(M)]_vars => Inv(M)'
  BY NextKeepsInv, StutterKeepsInv
<1>2. Init => Inv(M)
  BY InitInv
<1>3. QED BY <1>1, <1>2, PTL DEF Spec, Apart, StepApart

\* With none in M no batch is hurt.
THEOREM ApartCorrect == Spec /\ Apart({}) => []Inv({})
<1>1. Inv({}) /\ [Next]_vars /\ [StepApart({})]_vars => Inv({})'
  BY NextKeepsInv, StutterKeepsInv
<1>2. Init => Inv({})
  BY InitInv
<1>3. QED BY <1>1, <1>2, PTL DEF Spec, Apart, StepApart

\* With every single batch in M nothing is left to assume: whatever is
\* submitted again while a worker has it, the invariant of imports holds.
THEOREM ImportsCorrect == Spec => []Inv(Singles)
<1>1. Inv(Singles) => StepApart(Singles)
  BY DEF Inv, Actor, Role, Actors, StepApart, Register
<1>2. Inv(Singles) /\ [Next]_vars => Inv(Singles)'
  BY <1>1, NextKeepsInv, StutterKeepsInv
<1>3. Init => Inv(Singles)
  BY InitInv
<1>4. QED BY <1>2, <1>3, PTL DEF Spec

\* The batch document is the commit mark of commitBatchLocked: whatever failed
\* or crashed on the way, a batch that is ready on disk has all its tasks and
\* snapshots there.
THEOREM MarkCoversAll == Spec /\ Apart({}) => []CommitComplete
<1>1. Inv({}) => CommitComplete
  BY DEF Inv, Disk, CommitComplete
<1>2. QED BY <1>1, ApartCorrect, PTL

\* A task that the service can see belongs to a batch that is committed on disk
\* and has only valid manifests.
THEOREM OnlyCommittedSeen == Spec /\ Apart({}) => []VisibleIsCommitted
<1>1. Inv({}) => VisibleIsCommitted
  BY DEF Inv, Memory, Seen, VisibleIsCommitted
<1>2. QED BY <1>1, ApartCorrect, PTL

\* For the tasks of imports both hold whatever is submitted meanwhile: the mark
\* covers all of them, and none is seen without it.
THEOREM ImportsWhole ==
  Spec => [](/\ \A b \in ImportBatches : Complete(b)
             /\ \A t \in Tasks :
                  tasks[t] # NoTask /\ tasks[t].batch \in ImportBatches => Visible(t))
<1>1. Inv(Singles) => /\ \A b \in ImportBatches : Complete(b)
                      /\ \A t \in Tasks :
                            tasks[t] # NoTask /\ tasks[t].batch \in ImportBatches => Visible(t)
  BY ImportAssumption DEF Inv, Disk, Memory, Seen, Batches
<1>2. QED BY <1>1, ImportsCorrect, PTL

\* Service.reserved and the look at Service.tasks keep two batches from
\* committing the same task, whatever is submitted again and whatever fails.
THEOREM OneWinner == Spec => []OneBatchPerTask
<1>1. Inv(Singles) => OneBatchPerTask
  BY DEF Inv, Disk
<1>2. QED BY <1>1, ImportsCorrect, PTL

\* An import whose document claims complete snapshots has them, unless somebody
\* removes the files.
THEOREM CrashLosesNoSnapshot == Spec => []Recoverable
<1>1. ASSUME Inv(Singles) PROVE Recoverable
  <2>1. ASSUME NEW b \in ImportBatches \ damaged, batchDisk[b].state = "validating",
               batchDisk[b].complete
        PROVE  /\ Listed(batchDisk[b]) # {}
               /\ \A t \in Listed(batchDisk[b]) : Snapshot(b, t) = batchDisk[b].list[t]
    <3>1. b \in Batches /\ batchDisk[b] \in BatchDocs
      BY <1>1, Typed DEF Inv, Batches
    <3>2. batchDisk[b].complete = TRUE
      BY <2>1, <3>1 DEF BatchDocs
    <3>3. Whole(b, batchDisk[b]) /\ StagedBatch(b)
      BY <1>1, <2>1, <3>1, <3>2 DEF Inv, Disk, Document
    <3>4. QED BY <2>1, <3>2, <3>3 DEF Whole, StagedBatch, Snapshot, Listed
  <2>2. QED BY <2>1 DEF Recoverable
<1>2. QED BY <1>1, ImportsCorrect, PTL

------------------------------------------------------------------------------
\* No step of a controller that runs touches the document of a committed batch
\* outside M.
LEMMA StepKeepsCommitted ==
  ASSUME NEW M \in SUBSET Singles, Inv(M), Next, phase # "down",
         NEW b \in Batches \ M, batchDisk[b].state = "ready"
  PROVE  batchDisk'[b] = batchDisk[b]
<1>1. TypeOK /\ batchDisk \in [Batches -> BatchDocs]
  BY DEF Inv, TypeOK
<1>2. ASSUME NEW x \in Batches, NEW d, NEW o, SaveBatch(x, d, o),
             x \notin M => batchDisk[x].state # "ready"
      PROVE  batchDisk'[b] = batchDisk[b]
  BY <1>1, <1>2 DEF SaveBatch
<1>3. ASSUME NEW x \in ImportBatches, Import(x) PROVE batchDisk'[b] = batchDisk[b]
  <2>1. x \in Batches /\ fault = FALSE /\ phase = "serving"
    BY <1>1, <1>3 DEF Batches, Import, Writable, TypeOK
  <2>2. batchDisk[x].state # "ready"
    BY <1>3, <2>1 DEF Import, Replaceable, Inv, Memory, Coherent
  <2>3. PICK o \in Outcomes : SaveBatch(x, Started(x), o)
    BY <1>3 DEF Import
  <2>4. QED BY <1>2, <2>1, <2>2, <2>3
<1>4. ASSUME NEW x \in Batches, Work(x) PROVE batchDisk'[b] = batchDisk[b]
  <2>1. CASE Decide(x)
    <3>1. Worker(M, x)
      BY <1>4, <2>1, WorkerFacts DEF Decide, Working, Early
    <3>2. x \notin M => batchDisk[x].state # "ready"
      BY <3>1 DEF Worker
    <3>3. \/ UNCHANGED batchDisk
          \/ \E o \in Outcomes : SaveBatch(x, [job[x].doc EXCEPT !.state = "rejected"], o)
          \/ \E o \in Outcomes : SaveBatch(x, [job[x].doc EXCEPT !.complete = TRUE], o)
      BY <2>1 DEF Decide
    <3>4. QED BY <1>2, <1>4, <3>2, <3>3
  <2>2. CASE Enter(x) \/ DiscoverFiles(x) \/ ScanFile(x) \/ VerifyFile(x)
    BY <2>2 DEF Enter, DiscoverFiles, ScanFile, VerifyFile, Progress, onDisk
  <2>3. QED BY <1>4, <2>1, <2>2 DEF Work
<1>5. ASSUME NEW c \in Clients, Register(c) PROVE batchDisk'[b] = batchDisk[b]
  <2>1. \/ UNCHANGED batchDisk
        \/ /\ Writable /\ ~Held(First(TasksOf[job[c].batch])) /\ job[c].pc = "uploaded"
           /\ \E o : SaveBatch(job[c].batch, job[c].doc, o)
    BY <1>5 DEF Register
  <2>2. job[c].batch \in Batches
    BY <1>5 DEF Register, Inv, Actor, Actors, Role, Batches
  <2>3. QED BY <1>2, <1>5, <2>1, <2>2, FreeIsUncommitted
<1>6. ASSUME NEW a \in Actors, Commit(a) PROVE batchDisk'[b] = batchDisk[b]
  <2>1. CASE Publish(a)
    BY <2>1 DEF Publish
  <2>2. CASE Seal(a)
    <3>1. Bound(a)
      BY <2>2 DEF Seal, Bound, Committing
    <3>2. job[a].batch \in Batches
          /\ (job[a].batch \notin M => batchDisk[job[a].batch].state # "ready")
      BY <1>6, <3>1, BoundBatch
    <3>3. \/ UNCHANGED batchDisk
          \/ \E o \in Outcomes : SaveBatch(job[a].batch, [job[a].doc EXCEPT !.state = "ready"], o)
      BY <2>2 DEF Seal
    <3>4. QED BY <1>2, <3>2, <3>3
  <2>3. QED BY <1>6, <2>1, <2>2 DEF Commit
<1>7. CASE \/ \E c \in Clients : Upload(c)
           \/ \E t \in Tasks : Dispatch(t) \/ End(t)
           \/ BeginShutdown \/ Exit \/ Crash
  BY <1>7 DEF Upload, Dispatch, End, BeginShutdown, Exit, Crash, onDisk
<1>8. QED BY <1>3, <1>4, <1>5, <1>6, <1>7 DEF Next, Damage, Boot

\* A committed batch is never overwritten.
THEOREM CommittedStays == Spec /\ Apart({}) => CommittedIsFinal
<1>1. ASSUME Inv({}), [Next]_vars
      PROVE  [phase # "down" => \A b \in Batches :
                batchDisk[b].state = "ready" => batchDisk'[b] = batchDisk[b]]_vars
  BY <1>1, StepKeepsCommitted
<1>2. QED BY <1>1, ApartCorrect, PTL DEF Spec, CommittedIsFinal

\* A committed import is not, whatever is submitted meanwhile.
THEOREM CommittedImportsStay ==
  Spec => [][phase # "down" => \A b \in ImportBatches :
              batchDisk[b].state = "ready" => batchDisk'[b] = batchDisk[b]]_vars
<1>1. ASSUME Inv(Singles), [Next]_vars
      PROVE  [phase # "down" => \A b \in ImportBatches :
                batchDisk[b].state = "ready" => batchDisk'[b] = batchDisk[b]]_vars
  BY <1>1, StepKeepsCommitted, ImportAssumption DEF Batches
<1>2. QED BY <1>1, ImportsCorrect, PTL DEF Spec

\* A step queues a task that has begun only when its batch is damaged, or one
\* of M.
LEMMA StepKeepsHistory ==
  ASSUME NEW M \in SUBSET Singles, Inv(M),
         Next, NEW t \in Tasks, taskDisk[t].st = "begun", taskDisk[t].batch \notin damaged \cup M
  PROVE  taskDisk'[t].st # "queued"
<1>1. TypeOK /\ taskDisk[t].batch \in Batches /\ taskDisk \in [Tasks -> TaskDocs \cup {NoTask}]
  BY Typed DEF Inv, TypeOK, TaskDocs, NoTask
<1>2. CASE UNCHANGED taskDisk
  BY <1>2
<1>3. ASSUME NEW a \in Actors, Publish(a) PROVE taskDisk'[t].st # "queued"
  <2>1. PICK u : u = First(job[a].todo)
    OBVIOUS
  <2>2. \/ UNCHANGED taskDisk
        \/ taskDisk' = [taskDisk EXCEPT ![u] = TaskFor(job[a].batch, job[a].doc, u)]
    BY <1>3, <2>1 DEF Publish
  <2>3. u # t
    <3>1. Committing(a) /\ job[a].pc = "publish"
      BY <1>3 DEF Publish, Committing
    <3>2. Committer(M, a)
      BY <3>1 DEF Inv, Actor
    <3>3. u \in Listed(job[a].doc)
      BY <1>1, <2>1, <3>1, <3>2, NextFile DEF Committer
    <3>4. Unlisted(u)
      BY <3>2, <3>3 DEF Committer
    <3>5. t \in Listed(batchDisk[taskDisk[t].batch])
          /\ batchDisk[taskDisk[t].batch].state = "ready"
      BY DEF Inv, Disk, BegunTask
    <3>6. QED BY <1>1, <3>4, <3>5 DEF Unlisted
  <2>4. QED BY <1>1, <2>2, <2>3
<1>4. ASSUME NEW u \in Tasks, Dispatch(u) PROVE taskDisk'[t].st # "queued"
  <2>1. PICK begun : /\ taskDisk' = [taskDisk EXCEPT ![u] = begun]
                     /\ begun = [tasks[u] EXCEPT !.st = IF manifest[u] = tasks[u].content
                                                        THEN "begun" ELSE "blocked"]
    BY <1>4 DEF Dispatch
  <2>2. tasks[u] \in TaskDocs
    BY <1>1, <1>4, Typed DEF Dispatch
  <2>3. begun.st # "queued"
    BY <2>1, <2>2 DEF TaskDocs
  <2>4. QED BY <1>1, <2>1, <2>3
<1>5. QED
  <2>1. CASE \E b \in ImportBatches : Import(b)
    BY <1>2, <2>1 DEF Import
  <2>2. CASE \E b \in Batches : Work(b) \/ Damage(b)
    BY ZenonT(60), <1>2, <2>2 DEF Work, Enter, DiscoverFiles, ScanFile, VerifyFile, Decide, Damage, onDisk
  <2>3. CASE \E c \in Clients : Upload(c) \/ Register(c)
    BY <1>2, <2>3 DEF Upload, Register, onDisk
  <2>4. CASE \E a \in Actors : Commit(a)
    BY <1>2, <1>3, <2>4 DEF Commit, Seal
  <2>5. CASE \E u \in Tasks : Dispatch(u) \/ End(u)
    BY <1>2, <1>4, <2>5 DEF End, onDisk
  <2>6. CASE BeginShutdown \/ Exit \/ Crash \/ Boot
    BY <1>2, <2>6 DEF BeginShutdown, Exit, Crash, Boot, onDisk
  <2>7. QED BY <2>1, <2>2, <2>3, <2>4, <2>5, <2>6 DEF Next

\* A task that has been executed keeps its attempts: nobody publishes a new one
\* of its name.
THEOREM AttemptsKept == Spec /\ Apart({}) => HistoryKept
<1>1. ASSUME Inv({}), [Next]_vars
      PROVE  [\A t \in Tasks :
                taskDisk[t].st = "begun" /\ taskDisk[t].batch \notin damaged
                    => taskDisk'[t].st # "queued"]_vars
  BY <1>1, StepKeepsHistory
<1>2. QED BY <1>1, ApartCorrect, PTL DEF Spec, HistoryKept

\* The executed task of an import keeps them whatever is submitted meanwhile.
THEOREM ImportAttemptsKept ==
  Spec => [][\A t \in Tasks :
              taskDisk[t].st = "begun" /\ taskDisk[t].batch \in ImportBatches \ damaged
                  => taskDisk'[t].st # "queued"]_vars
<1>1. ASSUME Inv(Singles), [Next]_vars
      PROVE  [\A t \in Tasks :
                taskDisk[t].st = "begun" /\ taskDisk[t].batch \in ImportBatches \ damaged
                    => taskDisk'[t].st # "queued"]_vars
  BY <1>1, StepKeepsHistory, ImportAssumption
<1>2. QED BY <1>1, ImportsCorrect, PTL DEF Spec

------------------------------------------------------------------------------
(***************************************************************************)
(* The batches outside M implement BatchContract.                          *)
(***************************************************************************)
Covered(X) == INSTANCE BatchContract WITH
    Batches <- X, Guarded <- ImportBatches, status <- Status(X), holds <- Holds(X)

\* The task that a committed batch has under a name.
TaskOf(b, t) ==
    [batch |-> b, content |-> batchDisk[b].list[t], snapshot |-> batchDisk[b].list[t]]

\* What is on disk under a name is what the commit marks say.
LEMMA HoldsIs ==
  ASSUME NEW M \in SUBSET Singles, Inv(M), NEW t \in Tasks
  PROVE  Holds(Batches \ M)[t] = {TaskOf(b, t) : b \in ReadyWith(t) \cap (Batches \ M)}
<1> DEFINE X == Batches \ M
           Named(b) == [batch |-> b,
                        content |-> IF /\ taskDisk[t] # NoTask /\ taskDisk[t].batch = b
                                       /\ taskDisk[t].gen = batchDisk[b].gen
                                    THEN taskDisk[t].content ELSE "none",
                        snapshot |-> manifest[t]]
<1>1. Holds(X)[t] = {Named(b) : b \in ReadyWith(t) \cap X}
  BY DEF Holds
<1>2. ASSUME NEW b \in ReadyWith(t) \cap X PROVE Named(b) = TaskOf(b, t)
  <2>1. Complete(b) /\ batchDisk[b].state = "ready" /\ t \in Listed(batchDisk[b])
    BY DEF Inv, Disk, ReadyWith, Listed
  <2>2. QED BY <2>1 DEF Complete, TaskOf
<1> HIDE DEF Named
<1>3. QED BY <1>1, <1>2

\* The same after a step.
LEMMA HoldsBecomes ==
  ASSUME NEW M \in SUBSET Singles, Inv(M)', NEW t \in Tasks
  PROVE  Holds(Batches \ M)'[t] = {TaskOf(b, t)' : b \in ReadyWith(t)' \cap (Batches \ M)}
<1>1. (Holds(Batches \ M)[t] = {TaskOf(b, t) : b \in ReadyWith(t) \cap (Batches \ M)})'
  BY HoldsIs, PTL
<1>2. QED BY <1>1

\* A step that neither commits a batch outside M nor touches a committed one
\* leaves the names alone.
LEMMA HoldsStill ==
  ASSUME NEW M \in SUBSET Singles, Inv(M), Inv(M)',
         \A b \in Batches \ M :
            batchDisk'[b] = batchDisk[b] \/ "ready" \notin {batchDisk[b].state, batchDisk'[b].state}
  PROVE  Holds(Batches \ M)' = Holds(Batches \ M)
<1> DEFINE X == Batches \ M
<1>1. ASSUME NEW t \in Tasks PROVE Holds(X)'[t] = Holds(X)[t]
  <2>1. ReadyWith(t)' \cap X = ReadyWith(t) \cap X
    BY DEF ReadyWith
  <2>2. \A b \in ReadyWith(t) \cap X : TaskOf(b, t)' = TaskOf(b, t)
    BY DEF ReadyWith, TaskOf
  <2>3. {TaskOf(b, t)' : b \in ReadyWith(t)' \cap X} = {TaskOf(b, t) : b \in ReadyWith(t) \cap X}
    BY <2>1, <2>2
  <2>4. QED BY <2>3, HoldsIs, HoldsBecomes
<1>2. QED BY <1>1 DEF Holds

\* A step that touches only the document of b, which is not committed after it.
LEMMA OneMoves ==
  ASSUME NEW M \in SUBSET Singles, Inv(M), Inv(M)', NEW b \in Batches \ M,
         \A x \in Batches \ {b} : batchDisk'[x] = batchDisk[x],
         "ready" \notin {batchDisk[b].state, batchDisk'[b].state}
  PROVE  /\ Status(Batches \ M)' = [Status(Batches \ M) EXCEPT ![b] = Standing(batchDisk'[b])]
         /\ Holds(Batches \ M)' = Holds(Batches \ M)
<1>1. Holds(Batches \ M)' = Holds(Batches \ M)
  BY HoldsStill
<1>2. Status(Batches \ M)' = [Status(Batches \ M) EXCEPT ![b] = Standing(batchDisk'[b])]
  BY DEF Status, Standing
<1>3. QED BY <1>1, <1>2

\* A step that touches no document of a batch outside M changes nothing.
LEMMA NoneMoves ==
  ASSUME NEW M \in SUBSET Singles, Inv(M), Inv(M)',
         \A x \in Batches \ M : batchDisk'[x] = batchDisk[x]
  PROVE  UNCHANGED <<Status(Batches \ M), Holds(Batches \ M)>>
<1>1. Holds(Batches \ M)' = Holds(Batches \ M)
  BY HoldsStill
<1>2. Status(Batches \ M)' = Status(Batches \ M)
  BY DEF Status, Standing
<1>3. QED BY <1>1, <1>2

\* The steps of the contract, and the stutter.
Answered(X) == Covered(X)!Next \/ UNCHANGED Covered(X)!vars

\* A document outside M that is saved and is not committed by that: the batch is
\* started, rejected, or stays as far as it was.
LEMMA SaveAnswered ==
  ASSUME NEW M \in SUBSET Singles, Inv(M), Inv(M)', NEW b \in Batches, NEW d, NEW o,
         SaveBatch(b, d, o), d.state \in {"validating", "rejected"},
         b \notin M => batchDisk[b].state # "ready",
         b \notin M /\ d.state = "rejected" => batchDisk[b].state = "validating",
         b \in ImportBatches /\ d.state = "validating" =>
            batchDisk[b].state \in {"absent", "rejected", "validating"}
  PROVE  Answered(Batches \ M)
<1> DEFINE X == Batches \ M
<1>1. batchDisk \in [Batches -> BatchDocs]
  BY DEF Inv, TypeOK
<1>2. batchDisk' = batchDisk \/ batchDisk' = [batchDisk EXCEPT ![b] = d]
  BY DEF SaveBatch
<1>3. CASE batchDisk' = batchDisk \/ b \in M
  <2>1. \A x \in X : batchDisk'[x] = batchDisk[x]
    BY <1>1, <1>2, <1>3
  <2>2. QED BY <2>1, NoneMoves DEF Answered, Covered!vars
<1>4. CASE batchDisk' = [batchDisk EXCEPT ![b] = d] /\ b \notin M
  <2>1. batchDisk'[b] = d /\ (\A x \in Batches \ {b} : batchDisk'[x] = batchDisk[x]) /\ b \in X
    BY <1>1, <1>4
  <2>2. /\ Status(X)' = [Status(X) EXCEPT ![b] = Standing(d)]
        /\ Holds(X)' = Holds(X)
    BY <1>4, <2>1, OneMoves
  <2>3. Status(X)[b] = Standing(batchDisk[b]) /\ DOMAIN Status(X) = X
    BY <2>1 DEF Status
  <2>4. CASE d.state = "rejected"
    <3>1. Standing(d) = "rejected" /\ Status(X)[b] = "pending"
      BY <1>4, <2>3, <2>4 DEF Standing
    <3>2. Status(X)' = [x \in X |-> IF x \in {b} THEN "rejected" ELSE Status(X)[x]]
      BY <2>2, <2>3, <3>1
    <3>3. Covered(X)!Reject({b})
      BY <2>2, <3>1, <3>2 DEF Covered!Reject
    <3>4. QED BY <2>1, <3>3 DEF Answered, Covered!Next
  <2>5. CASE d.state = "validating" /\ batchDisk[b].state = "validating"
    <3>1. Standing(d) = Status(X)[b]
      BY <2>3, <2>5 DEF Standing
    <3>2. Status(X)' = Status(X)
      BY <2>2, <3>1 DEF Status
    <3>3. QED BY <2>2, <3>2 DEF Answered, Covered!vars
  <2>6. CASE d.state = "validating" /\ batchDisk[b].state # "validating"
    <3>1. Standing(d) = "pending"
      BY <2>6 DEF Standing
    <3>2. \/ Status(X)[b] \in {"absent", "rejected"}
          \/ Status(X)[b] = "damaged" /\ b \notin ImportBatches
      BY <1>4, <2>3, <2>6 DEF Standing
    <3>3. Covered(X)!Start(b)
      BY <2>2, <3>1, <3>2 DEF Covered!Start
    <3>4. QED BY <2>1, <3>3 DEF Answered, Covered!Next
  <2>7. QED BY <2>4, <2>5, <2>6
<1>5. QED BY <1>2, <1>3, <1>4

\* The commit mark is set.
LEMMA SealAnswered ==
  ASSUME NEW M \in SUBSET Singles, Inv(M), Inv(M)', NEW a \in Actors, Seal(a)
  PROVE  Answered(Batches \ M)
<1> DEFINE X == Batches \ M
<1>0. PICK b, d : b = job[a].batch /\ d = job[a].doc
  OBVIOUS
<1>1. Committing(a) /\ Bound(a)
  BY DEF Seal, Committing, Bound
<1>2. /\ b \in Batches /\ batchDisk[b].state # "ready" /\ Whole(b, d) /\ d \in BatchDocs
      /\ \A t \in Listed(d) : Unlisted(t) /\ t \in Tasks
      /\ b \notin M => batchDisk[b].state = "validating"
  <2>1. TypeOK /\ Committer(M, a)
    BY <1>1 DEF Inv, Actor
  <2>2. b \in Batches /\ (b \notin M => batchDisk[b].state = "validating") /\ Whole(b, d)
    BY <1>0, <1>1, BoundBatch
  <2>3. d \in BatchDocs
    BY <1>0, <2>1, JobTyped
  <2>4. QED BY <1>0, <1>1, <2>1, <2>2, <2>3 DEF Committer, Listed
<1>3. batchDisk \in [Batches -> BatchDocs]
  BY DEF Inv, TypeOK
<1>4. batchDisk' = batchDisk \/ batchDisk' = [batchDisk EXCEPT ![b] = [d EXCEPT !.state = "ready"]]
  BY <1>0 DEF Seal, SaveBatch
<1>5. CASE batchDisk' = batchDisk \/ b \in M
  <2>1. \A x \in X : batchDisk'[x] = batchDisk[x]
    BY <1>3, <1>4, <1>5
  <2>2. QED BY <2>1, NoneMoves DEF Answered, Covered!vars
<1>6. CASE batchDisk' = [batchDisk EXCEPT ![b] = [d EXCEPT !.state = "ready"]] /\ b \notin M
  <2>1. /\ b \in X /\ batchDisk'[b].state = "ready" /\ batchDisk'[b].list = d.list
        /\ \A x \in Batches \ {b} : batchDisk'[x] = batchDisk[x]
    BY <1>2, <1>3, <1>6 DEF BatchDocs
  <2>2. Status(X)[b] = "pending" /\ Status(X)' = [Status(X) EXCEPT ![b] = "committed"]
    BY <1>2, <1>6, <2>1 DEF Status, Standing
  <2> DEFINE c == [t \in Listed(d) |-> d.list[t]]
             task(t) == [batch |-> b, content |-> c[t], snapshot |-> c[t]]
  <2>3. c \in [Listed(d) -> Good] /\ Listed(d) \in (SUBSET Tasks) \ {{}}
    BY <1>2 DEF Whole
  <2>4. ASSUME NEW t \in Listed(d) PROVE Holds(X)[t] = {}
    <3>1. ReadyWith(t) \cap X = {}
      BY <1>2, <2>4 DEF Unlisted, ReadyWith, Listed
    <3>2. QED BY <1>2, <3>1, HoldsIs
  <2>5. ASSUME NEW t \in Listed(d) PROVE Holds(X)'[t] = {task(t)}
    <3>1. ReadyWith(t) \cap X = {}
      BY <1>2, <2>5 DEF Unlisted, ReadyWith, Listed
    <3>2. ReadyWith(t)' \cap X = {b}
      BY <2>1, <2>5, <3>1 DEF ReadyWith, Listed
    <3>3. TaskOf(b, t)' = task(t)
      BY <2>1, <2>5 DEF TaskOf
    <3>4. Holds(X)'[t] = {TaskOf(x, t)' : x \in {b}}
      BY <1>2, <3>2, HoldsBecomes
    <3> HIDE DEF task
    <3>5. QED BY <3>3, <3>4
  <2>6. ASSUME NEW t \in Tasks \ Listed(d) PROVE Holds(X)'[t] = Holds(X)[t]
    <3>1. ReadyWith(t)' \cap X = ReadyWith(t) \cap X /\ b \notin ReadyWith(t)
      BY <1>2, <2>1, <2>6 DEF ReadyWith, Listed
    <3>2. \A x \in ReadyWith(t) \cap X : TaskOf(x, t)' = TaskOf(x, t)
      BY <2>1, <3>1 DEF ReadyWith, TaskOf
    <3>3. {TaskOf(x, t)' : x \in ReadyWith(t)' \cap X} = {TaskOf(x, t) : x \in ReadyWith(t) \cap X}
      BY <3>1, <3>2
    <3>4. QED BY <3>3, HoldsIs, HoldsBecomes
  <2> HIDE DEF c
  <2>7. Holds(X)' = [t \in Tasks |-> IF t \in Listed(d) THEN {task(t)} ELSE Holds(X)[t]]
    <3>1. Holds(X)' = [t \in Tasks |-> Holds(X)'[t]]
      BY DEF Holds
    <3> HIDE DEF task
    <3>2. QED BY <2>5, <2>6, <3>1
  <2>8. Covered(X)!Commit(b)
    <3>1. \A t \in Listed(d) : Holds(X)[t] = {}
      BY <2>4
    <3>2. Holds(X)' = [t \in Tasks |-> IF t \in Listed(d)
                          THEN {[batch |-> b, content |-> c[t], snapshot |-> c[t]]}
                          ELSE Holds(X)[t]]
      BY <2>7
    <3> HIDE DEF task
    <3>3. \E S \in (SUBSET Tasks) \ {{}} : \E cc \in [S -> Good] :
            /\ \A t \in S : Holds(X)[t] = {}
            /\ Holds(X)' = [t \in Tasks |->
                               IF t \in S THEN {[batch |-> b, content |-> cc[t], snapshot |-> cc[t]]}
                               ELSE Holds(X)[t]]
      BY <2>3, <3>1, <3>2
    <3>4. QED BY <2>2, <3>3 DEF Covered!Commit
  <2>9. QED BY <2>1, <2>8 DEF Answered, Covered!Next
<1>7. QED BY <1>4, <1>5, <1>6

\* A restart rejects the imports without all their snapshots.
LEMMA BootAnswered ==
  ASSUME NEW M \in SUBSET Singles, Inv(M), Inv(M)', Boot
  PROVE  Answered(Batches \ M)
<1> DEFINE X == Batches \ M
           lost == {b \in X : batchDisk[b].state = "validating" /\ ~batchDisk[b].complete}
<1>1. ASSUME NEW b \in X
      PROVE  batchDisk'[b] = IF b \in lost THEN [batchDisk[b] EXCEPT !.state = "rejected"]
                             ELSE batchDisk[b]
  BY DEF Boot, Loaded
<1>2. ASSUME NEW b \in lost PROVE batchDisk'[b].state = "rejected"
  <2>1. b \in X /\ batchDisk[b] \in BatchDocs
    BY Typed DEF Inv
  <2>2. batchDisk'[b] = [batchDisk[b] EXCEPT !.state = "rejected"]
    BY <1>1, <2>1
  <2>3. QED BY <2>1, <2>2 DEF BatchDocs
<1>3. Holds(X)' = Holds(X)
  BY <1>1, <1>2, HoldsStill
<1>4. Status(X)' = [b \in X |-> IF b \in lost THEN "rejected" ELSE Status(X)[b]]
  <2>1. ASSUME NEW b \in X
        PROVE  Standing(batchDisk'[b]) = IF b \in lost THEN "rejected" ELSE Status(X)[b]
    BY <1>1, <1>2 DEF Status, Standing
  <2>2. Status(X)' = [b \in X |-> Standing(batchDisk'[b])]
    BY DEF Status, Standing
  <2> HIDE DEF lost
  <2>3. QED BY <2>1, <2>2
<1>5. \A b \in lost : Status(X)[b] = "pending"
  BY DEF Status, Standing
<1>6. Covered(X)!Reject(lost) /\ lost \in SUBSET X
  BY <1>3, <1>4, <1>5 DEF Covered!Reject
<1> HIDE DEF lost
<1>7. QED BY <1>6 DEF Answered, Covered!Next

\* Damage to a document takes the tasks of the batch away; damage to a snapshot
\* changes nothing yet.
LEMMA DamageAnswered ==
  ASSUME NEW M \in SUBSET Singles, Inv(M), Inv(M)', NEW b \in Batches, Damage(b)
  PROVE  Answered(Batches \ M)
<1> DEFINE X == Batches \ M
           gone == [NoBatch EXCEPT !.state = "damaged"]
<1>1. batchDisk \in [Batches -> BatchDocs] /\ gone.state = "damaged"
  BY DEF Inv, TypeOK, NoBatch
<1>2. batchDisk' = batchDisk \/ batchDisk' = [batchDisk EXCEPT ![b] = gone]
  BY DEF Damage
<1> HIDE DEF gone
<1>3. CASE batchDisk' = batchDisk \/ b \in M
  <2>1. \A x \in X : batchDisk'[x] = batchDisk[x]
    BY <1>1, <1>2, <1>3
  <2>2. QED BY <2>1, NoneMoves DEF Answered, Covered!vars
<1>4. CASE batchDisk' = [batchDisk EXCEPT ![b] = gone] /\ b \notin M
  <2>1. b \in X /\ batchDisk'[b] = gone /\ \A x \in Batches \ {b} : batchDisk'[x] = batchDisk[x]
    BY <1>1, <1>4
  <2>2. /\ Status(X)[b] # "absent"
        /\ Status(X)' = [Status(X) EXCEPT ![b] = "damaged"]
    BY <1>1, <2>1 DEF Status, Standing, Damage
  <2>3. ASSUME NEW t \in Tasks PROVE Holds(X)'[t] = {h \in Holds(X)[t] : h.batch # b}
    <3>1. ReadyWith(t)' \cap X = (ReadyWith(t) \cap X) \ {b}
      BY <1>1, <2>1 DEF ReadyWith
    <3>2. \A x \in (ReadyWith(t) \cap X) \ {b} : TaskOf(x, t)' = TaskOf(x, t)
      BY <2>1 DEF ReadyWith, TaskOf
    <3>3. \A x : TaskOf(x, t).batch = x
      BY DEF TaskOf
    <3>4. {TaskOf(x, t)' : x \in (ReadyWith(t) \cap X) \ {b}}
            = {TaskOf(x, t) : x \in (ReadyWith(t) \cap X) \ {b}}
      BY <3>2
    <3>5. {TaskOf(x, t) : x \in (ReadyWith(t) \cap X) \ {b}}
            = {h \in {TaskOf(x, t) : x \in ReadyWith(t) \cap X} : h.batch # b}
      BY <3>3
    <3>6. Holds(X)[t] = {TaskOf(x, t) : x \in ReadyWith(t) \cap X}
      BY HoldsIs
    <3>7. Holds(X)'[t] = {TaskOf(x, t)' : x \in ReadyWith(t)' \cap X}
      BY HoldsBecomes
    <3>8. QED BY <3>1, <3>4, <3>5, <3>6, <3>7
  <2>4. Holds(X)' = [t \in Tasks |-> {h \in Holds(X)[t] : h.batch # b}]
    <3>1. Holds(X)' = [t \in Tasks |-> Holds(X)'[t]]
      BY DEF Holds
    <3>2. QED BY <2>3, <3>1
  <2>5. Covered(X)!Damage(b)
    BY <2>2, <2>4 DEF Covered!Damage
  <2>6. QED BY <2>1, <2>5 DEF Answered, Covered!Next
<1>5. QED BY <1>2, <1>3, <1>4

\* Every step is one of the contract, or leaves all it is about alone.
LEMMA NextAnswered ==
  ASSUME NEW M \in SUBSET Singles, Inv(M), Inv(M)', Next
  PROVE  Answered(Batches \ M)
<1>1. TypeOK /\ batchDisk \in [Batches -> BatchDocs]
  BY DEF Inv, TypeOK
<1>2. CASE UNCHANGED batchDisk
  BY <1>2, NoneMoves DEF Answered, Covered!vars
<1>3. ASSUME NEW b \in ImportBatches, Import(b) PROVE Answered(Batches \ M)
  <2>1. b \in Batches /\ b \notin M /\ fault = FALSE /\ phase = "serving"
    BY <1>1, <1>3, ImportAssumption DEF Batches, Import, Writable, TypeOK
  <2>2. batchDisk[b].state \in {"absent", "rejected"}
    BY <1>3, <2>1 DEF Import, Replaceable, Inv, Memory, Coherent
  <2>3. PICK o \in Outcomes : SaveBatch(b, Started(b), o)
    BY <1>3 DEF Import
  <2>4. Started(b).state = "validating"
    BY DEF Started, NoBatch
  <2>5. QED BY <2>1, <2>2, <2>3, <2>4, SaveAnswered
<1>4. ASSUME NEW b \in Batches, Work(b) PROVE Answered(Batches \ M)
  <2>1. CASE Decide(b)
    <3>1. Worker(M, b)
      BY <2>1, WorkerFacts DEF Decide, Working, Early
    <3>2. job[b].doc.state = "validating" /\ (b \notin M => batchDisk[b].state = "validating")
      BY <3>1 DEF Worker
    <3>3. job[b].doc \in BatchDocs /\ (b \in ImportBatches => b \notin M)
      BY <1>1, JobTyped, ImportAssumption DEF Actors
    <3> DEFINE rejected == [job[b].doc EXCEPT !.state = "rejected"]
               complete == [job[b].doc EXCEPT !.complete = TRUE]
    <3>4. rejected.state = "rejected" /\ complete.state = "validating"
      BY <3>2, <3>3 DEF BatchDocs
    <3>5. \/ UNCHANGED batchDisk
          \/ \E o \in Outcomes : SaveBatch(b, rejected, o)
          \/ \E o \in Outcomes : SaveBatch(b, complete, o)
      BY <2>1 DEF Decide
    <3> HIDE DEF rejected, complete
    <3>6. QED BY <1>2, <3>2, <3>3, <3>4, <3>5, SaveAnswered
  <2>2. CASE Enter(b) \/ DiscoverFiles(b) \/ ScanFile(b) \/ VerifyFile(b)
    BY <1>2, <2>2 DEF Enter, DiscoverFiles, ScanFile, VerifyFile, Progress, onDisk
  <2>3. QED BY <1>4, <2>1, <2>2 DEF Work
<1>5. ASSUME NEW c \in Clients, Register(c) PROVE Answered(Batches \ M)
  <2>1. \/ UNCHANGED batchDisk
        \/ /\ Writable /\ ~Held(First(TasksOf[job[c].batch])) /\ job[c].pc = "uploaded"
           /\ \E o : SaveBatch(job[c].batch, job[c].doc, o)
    BY <1>5 DEF Register
  <2>2. /\ job[c].batch \in Batches /\ job[c].batch \notin ImportBatches
        /\ job[c].doc.state = "validating"
    BY <1>5, ImportAssumption DEF Register, Inv, Actor, Actors, Role, Batches
  <2>3. QED BY <1>2, <2>1, <2>2, FreeIsUncommitted, SaveAnswered
<1>6. ASSUME NEW a \in Actors, Commit(a) PROVE Answered(Batches \ M)
  <2>1. Publish(a) => UNCHANGED batchDisk
    BY DEF Publish
  <2>2. QED BY <1>2, <1>6, <2>1, SealAnswered DEF Commit
<1>7. CASE \/ \E c \in Clients : Upload(c)
           \/ \E t \in Tasks : Dispatch(t) \/ End(t)
           \/ BeginShutdown \/ Exit \/ Crash
  BY <1>2, <1>7 DEF Upload, Dispatch, End, BeginShutdown, Exit, Crash, onDisk
<1>8. QED
  BY <1>3, <1>4, <1>5, <1>6, <1>7, BootAnswered, DamageAnswered DEF Next

\* Nothing is committed at first.
LEMMA InitAnswered ==
  ASSUME NEW M \in SUBSET Singles, Init
  PROVE  Covered(Batches \ M)!Init
<1>1. \A b \in Batches : batchDisk[b].state = "absent"
  BY NoJobIsOne DEF Init
<1>2. Status(Batches \ M) = [b \in Batches \ M |-> "absent"]
  BY <1>1 DEF Status, Standing
<1>3. \A t \in Tasks : ReadyWith(t) = {}
  BY <1>1 DEF ReadyWith
<1>4. Holds(Batches \ M) = [t \in Tasks |-> {}]
  BY <1>3 DEF Holds
<1>5. QED BY <1>2, <1>4 DEF Covered!Init

\* A step that changes nothing here changes nothing there.
LEMMA StutterAnswered ==
  ASSUME NEW X, UNCHANGED vars
  PROVE  Answered(X)
<1>1. UNCHANGED <<batchDisk, taskDisk, manifest>>
  BY DEF vars, onDisk
<1>2. QED BY <1>1 DEF Answered, Covered!vars, Status, Standing, Holds, ReadyWith

\* The batches outside M are transactions over task names, whatever fails or
\* crashes, and whatever is done to those in M: commitBatchLocked implements
\* the contract for them.
THEOREM BatchesAtomic ==
  ASSUME NEW M \in SUBSET Singles
  PROVE  Spec /\ Apart(M) => Covered(Batches \ M)!Spec
<1>1. Init => Covered(Batches \ M)!Init
  BY InitAnswered
<1>2. Inv(M) /\ Inv(M)' /\ [Next]_vars => [Covered(Batches \ M)!Next]_(Covered(Batches \ M)!vars)
  BY NextAnswered, StutterAnswered DEF Answered
<1>3. QED BY <1>1, <1>2, ImportCorrect, PTL DEF Spec, Covered!Spec

\* Imports are, without any assumption about what is submitted meanwhile.
THEOREM ImportsAtomic == Spec => AtomicImport
<1>1. Batches \ Singles = ImportBatches
  BY ImportAssumption DEF Batches
<1>2. Init => Covered(ImportBatches)!Init
  BY <1>1, InitAnswered
<1>3. Inv(Singles) /\ Inv(Singles)' /\ [Next]_vars
        => [Covered(ImportBatches)!Next]_(Covered(ImportBatches)!vars)
  BY <1>1, NextAnswered, StutterAnswered DEF Answered
<1>4. Covered(ImportBatches)!Init => Imports!Init
  BY DEF Covered!Init, Imports!Init
<1>5. [Covered(ImportBatches)!Next]_(Covered(ImportBatches)!vars) => [Imports!Next]_(Imports!vars)
  BY DEF Covered!Next, Covered!vars, Covered!Start, Covered!Commit, Covered!Damage, Covered!Reject,
         Imports!Next, Imports!vars, Imports!Start, Imports!Commit, Imports!Damage, Imports!Reject
<1>6. QED BY <1>2, <1>3, <1>4, <1>5, ImportsCorrect, PTL DEF Spec, AtomicImport, Imports!Spec

\* What the contract speaks of are whole, valid tasks, one under each name.
THEOREM NamesHeldOnce ==
  ASSUME NEW M \in SUBSET Singles
  PROVE  Spec /\ Apart(M) => []Covered(Batches \ M)!TypeOK
<1> DEFINE X == Batches \ M
<1>1. ASSUME Inv(M) PROVE Covered(X)!TypeOK
  <2>1. Status(X) \in [X -> Covered(X)!Statuses]
    BY DEF Status, Standing, Covered!Statuses
  <2>2. ASSUME NEW t \in Tasks
        PROVE  Holds(X)[t] \in {{}} \cup {{h} : h \in Covered(X)!Committed}
    <3>1. CASE ReadyWith(t) \cap X = {}
      <4>1. Holds(X)[t] = {TaskOf(b, t) : b \in {}}
        BY <1>1, <3>1, HoldsIs
      <4>2. QED BY <4>1
    <3>2. ASSUME NEW b \in ReadyWith(t) \cap X
          PROVE  Holds(X)[t] \in {{h} : h \in Covered(X)!Committed}
      <4>1. b \in X /\ batchDisk[b].state = "ready" /\ t \in Listed(batchDisk[b])
        BY DEF ReadyWith, Listed
      <4>2. ASSUME NEW x \in ReadyWith(t), x # b PROVE FALSE
        <5>1. x \in Batches /\ batchDisk[x].state = "ready" /\ t \in Listed(batchDisk[x])
          BY <4>2 DEF ReadyWith, Listed
        <5>2. {batchDisk[x].state, batchDisk[b].state} = {"ready"}
          BY <4>1, <5>1
        <5>3. Listed(batchDisk[x]) \cap Listed(batchDisk[b]) = {}
          BY <1>1, <4>1, <4>2, <5>1, <5>2 DEF Inv, Disk, OneBatchPerTask
        <5>4. QED BY <4>1, <5>1, <5>3
      <4>3. ReadyWith(t) \cap X = {b}
        BY <4>2
      <4>4. Holds(X)[t] = {TaskOf(x, t) : x \in {b}}
        BY <1>1, <4>3, HoldsIs
      <4>5. TaskOf(b, t) \in Covered(X)!Committed
        BY <1>1, <4>1 DEF TaskOf, Covered!Committed, Inv, Disk, Document, Whole
      <4> HIDE DEF X
      <4>6. Holds(X)[t] = {TaskOf(b, t)}
        BY <4>4
      <4>7. QED BY <4>5, <4>6
    <3>3. QED BY <3>1, <3>2
  <2>3. Holds(X) \in [Tasks -> {{}} \cup {{h} : h \in Covered(X)!Committed}]
    <3>1. Holds(X) = [t \in Tasks |-> Holds(X)[t]]
      BY DEF Holds
    <3>2. QED BY <2>2, <3>1
  <2>4. QED BY <2>1, <2>3 DEF Covered!TypeOK
<1>2. QED BY <1>1, ImportCorrect, PTL
==============================================================================
