-------------------------------- MODULE Ledger --------------------------------
(***************************************************************************)
(* What is known of each object of one task: internal/ledger, and the      *)
(* handlers of internal/service that load, feed, save and close a ledger.  *)
(*                                                                         *)
(* rclone leaves evidence in three files of its attempt: the log, the list *)
(* of objects that matched and the list of those that failed.  It writes   *)
(* what it likes, while the controller reads, while the controller is      *)
(* down, and it may die in the middle of a line.  The controller reads     *)
(* whole lines from a saved position, holds the verdicts in memory and     *)
(* saves them, with the positions, as objects.json.  It reads under the    *)
(* mutex, but rclone writes on: one line read is one action.               *)
(*                                                                         *)
(* A definition marked "Mistake" is no part of the model: it is a bug the  *)
(* definition after it could have had.                                     *)
(***************************************************************************)
EXTENDS Naturals, Sequences, FiniteSets, TaskTypes

CONSTANTS
    Objects,      \* the objects of the manifest
    Stranger,     \* an object outside of it
    MaxAttempts,  \* bound: executions
    MaxLines,     \* bound: lines of evidence, over all executions
    MaxTrouble    \* bound: lines, half lines, storage failures and crashes

ASSUME LedgerAssumption ==
    /\ IsFiniteSet(Objects) /\ Objects # {}
    /\ Stranger \notin Objects
    /\ MaxAttempts \in Nat \ {0} /\ MaxLines \in Nat /\ MaxTrouble \in Nat

Ids == 1 .. MaxAttempts

\* The files in the order Consume reads them.
Files == {"rclone.jsonl", "matched.txt", "failed.txt"}
Following(f) ==
    CASE f = "rclone.jsonl" -> "matched.txt"
      [] f = "matched.txt"  -> "failed.txt"
      [] f = "failed.txt"   -> "end"

VARIABLES
    up,         \* the controller runs and has finished its recovery
    fault,      \* Service.fault is set
    doc,        \* tasks/<id>/task.json
    saved,      \* tasks/<id>/objects.json
    ledger,     \* execution.ledger.Checkpoint, while there is an execution
    running,    \* the task has an entry in Service.running
    reading,    \* where Consume stands, and whether it is the last one
    rclone,     \* the process of the last attempt
    evidence,   \* every whole line rclone has written, by attempt and file
    torn,       \* files of the last attempt that end in half a line
    cut,        \* lines its files have lost at the end with the host's cache
    ids,        \* attempt ids drawn so far
    outages

controller == <<up, fault, ledger, running, reading>>
files == <<evidence, torn, cut>>
vars == <<controller, doc, saved, rclone, files, ids, outages>>

------------------------------------------------------------------------------
ObjectStates == {"pending", "active", "copied", "skipped", "failed", "unknown"}

\* Mistake: only a copy is final.
OutranksMatch(new, old) == old # "copied"

\* A copy is final, and so is a match that no copy follows.
Outranks(new, old) == old # "copied" /\ (old = "skipped" => new = "copied")

completed == {"copied", "skipped"}

\* What a line says.  An error names no object for certain; garbage does not
\* parse.
LinesOf(f) ==
    CASE f = "rclone.jsonl" ->
            [kind : {"copied", "failed"}, on : Objects \cup {Stranger}]
              \cup [kind : {"error", "garbage"}, on : {Stranger}]
      [] f = "matched.txt" -> [kind : {"skipped"}, on : Objects \cup {Stranger}]
      [] f = "failed.txt" -> [kind : {"reported"}, on : Objects \cup {Stranger}]

Lines == UNION {LinesOf(f) : f \in Files}

IsError(line) == line.kind \in {"failed", "error"}

Checkpoints ==
    [attempt : Nat, states : [Objects -> ObjectStates],
     cursor : [Ids -> [Files -> Nat]],      \* Cursors, in whole lines
     events : Nat,                          \* Counts.ErrorEvents
     bad : BOOLEAN]                         \* IntegrityError is set

NewLedger ==
    [attempt |-> 0, states |-> [o \in Objects |-> "pending"],
     cursor |-> [a \in Ids |-> [f \in Files |-> 0]], events |-> 0, bad |-> FALSE]

Done(c) == {o \in Objects : c.states[o] \in completed}

\* Mistake: every attempt starts from nothing.
BegunAfresh(c, a) == [NewLedger EXCEPT !.attempt = a, !.cursor = c.cursor, !.events = c.events]

\* Begin: what is completed stays, the rest is tried again.
Begun(c, a) ==
    [c EXCEPT !.attempt = a, !.bad = FALSE,
              !.states = [o \in Objects |-> IF o \in Done(c) THEN c.states[o] ELSE "pending"]]

\* result
Result(c, o, s) ==
    IF o \notin Objects THEN [c EXCEPT !.bad = TRUE]
    ELSE IF Outranks(s, c.states[o]) THEN [c EXCEPT !.states[o] = s] ELSE c

\* Sample: of the objects without a verdict exactly those in S are active.
Sampled(c, S) ==
    [c EXCEPT !.states = [o \in Objects |->
        IF c.states[o] \in completed \cup {"failed"} THEN c.states[o]
        ELSE IF o \in S THEN "active"
        ELSE IF c.states[o] = "active" THEN "pending" ELSE c.states[o]]]

\* The position behind the line, and the count of errors.
Advanced(c, a, f, line) ==
    [c EXCEPT !.cursor[a][f] = @ + 1,
              !.events = IF IsError(line) THEN @ + 1 ELSE @]

\* One line of evidence in the ledger.
Noted(c, a, f, line) ==
    LET read == Advanced(c, a, f, line)
    IN  CASE line.kind = "error" -> read
          [] line.kind \in {"failed", "reported"} -> Result(read, line.on, "failed")
          [] OTHER -> Result(read, line.on, line.kind)

\* Lines of a file of the last attempt that are still there.
Size(f) == Len(evidence[ids][f]) - cut[f]

\* Mistake: an object the last sample showed as active stays so.
FinishedActive(c) ==
    [c EXCEPT !.states = [o \in Objects |->
        IF c.states[o] = "pending" THEN "unknown" ELSE c.states[o]]]

\* Finish: no verdict, no claim.
Finished(c) ==
    [c EXCEPT !.states = [o \in Objects |->
        IF c.states[o] \in {"pending", "active"} THEN "unknown" ELSE c.states[o]]]

\* Mistake: the positions are not part of the checkpoint.
StoredVerdicts(c) == [c EXCEPT !.cursor = NewLedger.cursor]

\* What Save writes and Load returns.
Stored(c) == c

\* Complete, for finish.
Complete(c) == Done(c) = Objects /\ ~c.bad

------------------------------------------------------------------------------
\* The task document, as far as it depends on the ledger: open while its last
\* attempt has no end, and the number of objects it shows as completed.
Docs ==
    [state : {"waiting", "running", "succeeded"}, attempt : Nat, open : BOOLEAN,
     done : Nat]

TypeOK ==
    /\ up \in BOOLEAN /\ fault \in BOOLEAN /\ running \in BOOLEAN
    /\ doc \in Docs /\ saved \in Checkpoints /\ ledger \in Checkpoints
    /\ reading \in [file : Files \cup {"none", "end"}, final : BOOLEAN]
    /\ rclone \in [st : {"none", "ready", "live", "exited"}, zero : BOOLEAN]
    /\ evidence \in [Ids -> [Files -> Seq(Lines)]]
    /\ torn \subseteq Files /\ cut \in [Files -> Nat]
    /\ ids \in 0 .. MaxAttempts /\ outages \in Nat

NoProcess == [st |-> "none", zero |-> FALSE]
Idle == [file |-> "none", final |-> FALSE]

Init ==
    /\ up = TRUE /\ fault = FALSE /\ running = FALSE /\ reading = Idle
    /\ doc = [state |-> "waiting", attempt |-> 0, open |-> FALSE, done |-> 0]
    /\ saved = NewLedger /\ ledger = NewLedger
    /\ rclone = NoProcess
    /\ evidence = [a \in Ids |-> [f \in Files |-> <<>>]]
    /\ torn = {} /\ cut = [f \in Files |-> 0]
    /\ ids = 0 /\ outages = 0

Healthy == up /\ ~fault

\* The bound: lines written, and all that goes wrong.
Written ==
    Cardinality({l \in Ids \X Files \X (1 .. MaxLines) : l[3] <= Len(evidence[l[1]][l[2]])})
MoreTrouble == Written + outages + Cardinality(torn) < MaxTrouble

\* The writes of a handler: first the checkpoint c, then, if that went well,
\* the document d.  Any of them may fail, and progress.json in between.
Saved(c, d) == saved' = Stored(c) /\ doc' = d /\ UNCHANGED outages
NotSaved(c, d) ==
    /\ MoreTrouble /\ outages' = outages + 1
    /\ \/ saved' \in {saved, Stored(c)} /\ UNCHANGED doc
       \/ saved' = Stored(c) /\ doc' = d
Save(c, d) ==
    \/ Saved(c, d) /\ UNCHANGED fault
    \/ NotSaved(c, d) /\ fault' = TRUE

------------------------------------------------------------------------------
(***************************************************************************)
(* The controller.                                                         *)
(***************************************************************************)

\* prepareLocked: load, Begin, save.
Prepare ==
    LET c == Begun(saved, ids + 1)
        d == [doc EXCEPT !.state = "running", !.attempt = ids + 1, !.open = TRUE,
                         !.done = Cardinality(Done(c))]
    IN  /\ Healthy /\ ~running /\ doc.state = "waiting"
        /\ ids < MaxAttempts /\ ids' = ids + 1
        /\ Save(c, d)
        /\ IF fault' THEN UNCHANGED <<ledger, running, rclone>>
           ELSE /\ ledger' = c /\ running' = TRUE
                /\ rclone' = [NoProcess EXCEPT !.st = "ready"]
        /\ torn' = {} /\ cut' = [f \in Files |-> 0]     \* a new directory
        /\ UNCHANGED <<up, reading, evidence>>

\* engine.Start, which may fail; finish treats that as an exit of its own.
Launch ==
    /\ up /\ running /\ rclone.st = "ready"
    /\ \E st \in {"live", "exited"} : rclone' = [NoProcess EXCEPT !.st = st]
    /\ UNCHANGED <<controller, doc, saved, files, ids, outages>>

\* One turn of the polling loop: sample, ...
Poll ==
    /\ Healthy /\ running /\ rclone.st \in {"live", "exited"} /\ reading = Idle
    /\ ledger' \in {ledger} \cup {Sampled(ledger, S) : S \in SUBSET Objects}
    /\ reading' = [file |-> "rclone.jsonl", final |-> FALSE]
    /\ UNCHANGED <<up, fault, running, doc, saved, rclone, files, ids, outages>>

\* ... consume, ...
Stop == reading' = [reading EXCEPT !.file = "end"]

\* consumeFile: the next line, ...
ReadLine ==
    LET a == doc.attempt
        f == reading.file
        i == ledger.cursor[a][f] + 1
    IN  /\ f \in Files /\ i <= Size(f)
        /\ \/ /\ evidence[a][f][i].kind # "garbage"
              /\ ledger' = Noted(ledger, a, f, evidence[a][f][i])
              /\ UNCHANGED reading
           \/ /\ evidence[a][f][i].kind = "garbage"
              /\ ledger' = [ledger EXCEPT !.bad = TRUE]
              /\ Stop
        /\ UNCHANGED <<up, fault, running, doc, saved, rclone, files, ids, outages>>

\* Mistake: half a line at the very end is ignored.
TornNever(f) == FALSE

\* After rclone has ended, nobody will complete the line.
Torn(f) == reading.final /\ f \in torn

\* ... or the end of the file, which may be too early, or half a line.
ReadEnd ==
    LET a == doc.attempt
        f == reading.file
        n == ledger.cursor[a][f]
    IN  /\ f \in Files /\ Size(f) <= n
        /\ \/ /\ Size(f) < n \/ Torn(f)
              /\ ledger' = [ledger EXCEPT !.bad = TRUE]
              /\ Stop
           \/ /\ Size(f) = n /\ ~Torn(f)
              /\ reading' = [reading EXCEPT !.file = Following(f)]
              /\ UNCHANGED ledger
        /\ UNCHANGED <<up, fault, running, doc, saved, rclone, files, ids, outages>>

\* ... and, when it is time, checkpointLocked.
Checkpoint ==
    /\ Healthy /\ running /\ reading.file = "end" /\ ~reading.final
    /\ reading' = Idle
    /\ \/ UNCHANGED <<doc, saved, fault, outages>>
       \/ Save(ledger, [doc EXCEPT !.done = Cardinality(Done(ledger))])
    /\ UNCHANGED <<up, ledger, running, rclone, files, ids>>

\* finish, before its Consume: a faulty controller only frees the slot.
Ended ==
    /\ up /\ running /\ rclone.st = "exited" /\ reading = Idle
    /\ \/ /\ fault /\ running' = FALSE /\ rclone' = NoProcess /\ ledger' = NewLedger
          /\ UNCHANGED reading
       \/ /\ ~fault /\ reading' = [file |-> "rclone.jsonl", final |-> TRUE]
          /\ UNCHANGED <<running, rclone, ledger>>
    /\ UNCHANGED <<up, fault, doc, saved, files, ids, outages>>

\* The document of the attempt closed with checkpoint c.
ClosedDoc(c, st) ==
    [doc EXCEPT !.open = FALSE, !.done = Cardinality(Done(c)), !.state = st]

\* finish, after its Consume: every state but "succeeded" leaves the task to be
\* run again.
Finish ==
    LET c == Finished(ledger)
    IN  /\ Healthy /\ running /\ reading.file = "end" /\ reading.final
        /\ reading' = Idle /\ ledger' = NewLedger
        /\ running' = FALSE /\ rclone' = NoProcess
        /\ Save(c, ClosedDoc(c, IF rclone.zero /\ Complete(c) THEN "succeeded"
                                ELSE "waiting"))
        /\ UNCHANGED <<up, files, ids>>

\* A storage failure met by another task.
StorageFailure ==
    /\ Healthy /\ reading = Idle
    /\ MoreTrouble /\ outages' = outages + 1
    /\ fault' = TRUE
    /\ UNCHANGED <<up, ledger, running, reading, doc, saved, rclone, files, ids>>

\* The controller ends, also one that recovers; a live process stays.
Gone ==
    /\ up' = FALSE /\ fault' = FALSE /\ running' = FALSE
    /\ ledger' = NewLedger /\ reading' = Idle

Crash ==
    /\ up \/ reading # Idle
    /\ fault \/ MoreTrouble
    /\ outages' = IF fault THEN outages ELSE outages + 1
    /\ Gone
    /\ rclone' = IF rclone.st = "live" THEN rclone ELSE NoProcess
    /\ UNCHANGED <<doc, saved, files, ids>>

\* recoverExecutions, once the old process is gone: nothing to do, or an open
\* attempt whose checkpoint is loaded ...
Recover ==
    /\ ~up /\ reading = Idle /\ rclone.st # "live"
    /\ \/ ~doc.open /\ up' = TRUE /\ UNCHANGED <<ledger, reading>>
       \/ /\ doc.open /\ ledger' = saved
          /\ reading' = [file |-> "rclone.jsonl", final |-> TRUE]
          /\ UNCHANGED up
    /\ UNCHANGED <<fault, running, doc, saved, rclone, files, ids, outages>>

\* ... and, once the evidence it left has been read, saved and closed.
Reclose ==
    LET c == Finished(ledger)
        d == ClosedDoc(c, "waiting")
    IN  /\ ~up /\ reading.file = "end"
        /\ \/ Saved(c, d) /\ up' = TRUE
           \/ NotSaved(c, d) /\ up' = FALSE     \* Start fails, serve exits
        /\ ledger' = NewLedger /\ reading' = Idle
        /\ UNCHANGED <<fault, running, rclone, files, ids>>

------------------------------------------------------------------------------
(***************************************************************************)
(* rclone and the host.                                                    *)
(***************************************************************************)
WriteLine(f) ==
    /\ rclone.st = "live"
    /\ Written < MaxLines
    /\ MoreTrouble \/ f \in torn
    /\ \E line \in LinesOf(f) :
        evidence' = [evidence EXCEPT ![ids][f] = Append(@, line)]
    /\ torn' = torn \ {f}
    /\ UNCHANGED <<controller, doc, saved, rclone, cut, ids, outages>>

HalfLine(f) ==
    /\ rclone.st = "live" /\ f \notin torn /\ MoreTrouble
    /\ torn' = torn \cup {f}
    /\ UNCHANGED <<controller, doc, saved, rclone, evidence, cut, ids, outages>>

Exit ==
    /\ rclone.st = "live"
    /\ \E zero \in BOOLEAN :
        rclone' = IF running THEN [st |-> "exited", zero |-> zero] ELSE NoProcess
    /\ UNCHANGED <<controller, doc, saved, files, ids, outages>>

\* The whole host fails: rclone does not sync its files, and the end of one of
\* them is gone.
HostFailure ==
    /\ ~up /\ doc.open /\ reading = Idle
    /\ rclone' = NoProcess
    /\ \E f \in Files :
        /\ Size(f) > 0
        /\ cut' = [cut EXCEPT ![f] = @ + 1]
        /\ torn' = torn \ {f}
    /\ UNCHANGED <<controller, doc, saved, evidence, ids, outages>>

Next ==
    \/ Prepare \/ Launch \/ Poll \/ ReadLine \/ ReadEnd \/ Checkpoint
    \/ Ended \/ Finish \/ StorageFailure \/ Crash \/ Recover \/ Reclose
    \/ \E f \in Files : WriteLine(f) \/ HalfLine(f)
    \/ Exit \/ HostFailure

Spec == Init /\ [][Next]_vars

------------------------------------------------------------------------------
(***************************************************************************)
(* Safety, of the checkpoint in memory and of the saved one.               *)
(***************************************************************************)
Consumed(c, a, f) == 1 .. c.cursor[a][f]

\* The error lines of ev, by attempt and position, that c has read.
ErrorsRead(ev, c) ==
    {p \in UNION {{a} \X Consumed(c, a, "rclone.jsonl") : a \in Ids} :
        IsError(ev[p[1]]["rclone.jsonl"][p[2]])}

\* Every error line is counted once, however often the controller polls, dies
\* and reads the files again (README.md:195).
EventsExact == \A c \in {ledger, saved} : c.events = Cardinality(ErrorsRead(evidence, c))

\* c has seen a line of kind k about object o that attempt a left in ev.
Seen(ev, c, a, k, o) ==
    \E f \in Files : \E i \in Consumed(c, a, f) :
        ev[a][f][i].kind = k /\ ev[a][f][i].on = o
SeenEver(ev, c, k, o) == \E a \in Ids : Seen(ev, c, a, k, o)
SeenNow(ev, c, K, o) == c.attempt \in Ids /\ \E k \in K : Seen(ev, c, c.attempt, k, o)

VerdictFollows(ev, c, o) ==
    /\ c.states[o] = "copied" <=> SeenEver(ev, c, "copied", o)
    /\ c.states[o] = "skipped" <=>
         SeenEver(ev, c, "skipped", o) /\ ~SeenEver(ev, c, "copied", o)
    /\ c.states[o] = "failed" <=>
         c.states[o] \notin completed /\ SeenNow(ev, c, {"failed", "reported"}, o)

\* A verdict of the current attempt is about an object outside of the manifest.
SeenStranger(ev, c) == SeenNow(ev, c, {"copied", "failed", "skipped", "reported"}, Stranger)

\* The verdict on an object is the strongest evidence there is, whatever the
\* order and the pieces it was read in: a copy or else a match in any attempt,
\* or else a failure in the current one.  An object outside of the manifest
\* spoils the attempt.
VerdictsFollowEvidence ==
    \A c \in {ledger, saved} :
        /\ \A o \in Objects : VerdictFollows(evidence, c, o)
        /\ SeenStranger(evidence, c) => c.bad

\* A task is shown as succeeded only if rclone has said of every object that it
\* was copied or matched, and every line its last attempt left was read and
\* made sense (README.md:197).
SuccessProved ==
    doc.state = "succeeded" =>
        /\ \A o \in Objects : \E k \in completed : SeenEver(evidence, saved, k, o)
        /\ torn = {}
        /\ \A f \in Files : \A i \in 1 .. Len(evidence[doc.attempt][f]) :
            LET line == evidence[doc.attempt][f][i]
            IN  i \in Consumed(saved, doc.attempt, f)
                /\ (line.on = Stranger => line.kind = "error")

\* The task document never shows more completed objects than objects.json
\* proves, whichever of the two writes a failure or a crash came between.
DocNeverAhead == doc.done <= Cardinality(Done(saved))

\* A closed attempt has no object in flight, and unless its evidence is not
\* intact, all of it has been read: a line written after the last poll is not
\* lost, nor one written while the controller was down.
ClosedIsSettled ==
    ~doc.open /\ doc.attempt > 0 /\ saved.attempt = doc.attempt /\ doc.attempt = ids =>
        /\ \A o \in Objects : saved.states[o] \notin {"pending", "active"}
        /\ ~saved.bad => \A f \in Files : saved.cursor[doc.attempt][f] = Size(f)

\* Whoever reads evidence, of an execution or of an attempt to recover, has the
\* open attempt, and a process that writes belongs to it.
Phases ==
    /\ ~up => ~running /\ ~fault
    /\ up /\ reading # Idle => running
    /\ ~up /\ reading # Idle => reading.final
    /\ running \/ reading # Idle => doc.open /\ ledger.attempt = ids
    /\ ~running /\ reading = Idle => ledger = NewLedger
    /\ doc.open => doc.state = "running" /\ doc.attempt = ids /\ saved.attempt = ids
    /\ doc.open => ids > 0
    /\ doc.attempt <= ids /\ saved.attempt <= ids
    /\ rclone.st = "live" => doc.open
    /\ rclone.st \in {"ready", "exited"} => running
    /\ reading.final => reading # Idle /\ rclone.st \in {"none", "exited"}
    /\ reading.file = "none" => reading = Idle
    /\ running => \A f \in Files : cut[f] = 0

\* c has read only lines that exist and make sense.
Sensible(ev, c) ==
    \A a \in Ids, f \in Files :
        /\ c.cursor[a][f] <= Len(ev[a][f])
        /\ \A i \in Consumed(c, a, f) : ev[a][f][i].kind # "garbage"

\* Every file has its own kinds of lines, and those of attempts to come none.
Positions ==
    /\ \A a \in Ids, f \in Files :
        /\ \A i \in 1 .. Len(evidence[a][f]) : evidence[a][f][i] \in LinesOf(f)
        /\ a > ids => Len(evidence[a][f]) = 0
    /\ Sensible(evidence, ledger) /\ Sensible(evidence, saved)

\* The last Consume has read the files before the one it stands at to their end.
Passed(f) ==
    \/ reading.file = "matched.txt" /\ f = "rclone.jsonl"
    \/ reading.file = "failed.txt" /\ f # "failed.txt"
    \/ reading.file = "end"
FinalRead ==
    reading.final /\ ~ledger.bad =>
        \A f \in Files : Passed(f) => ledger.cursor[ids][f] = Size(f) /\ f \notin torn

\* new has every completed object of old, perhaps with a better verdict.
Keeps(old, new) ==
    \A o \in Done(old) : new.states[o] \in {old.states[o], "copied"}

\* The checkpoint in memory never falls behind the saved one.
MemoryAhead == running \/ reading # Idle => Keeps(saved, ledger)

\* Everything above at once: no step of anyone breaks it.
Inv ==
    /\ Phases /\ Positions /\ FinalRead /\ MemoryAhead
    /\ EventsExact /\ VerdictsFollowEvidence
    /\ SuccessProved /\ DocNeverAhead /\ ClosedIsSettled

\* What a checkpoint has recorded as completed stays so: over retries, storage
\* failures and crashes.
CompletedKept == [][Keeps(saved, saved')]_vars

\* The document and the process, read as AttemptContract's state.
Stage ==
    CASE doc.state = "succeeded" -> "done"
      [] rclone.st = "ready" -> "ready"
      [] OTHER -> IF doc.open THEN "spent" ELSE "rest"
Transfer == INSTANCE AttemptContract WITH
    attempt <- doc.attempt, stage <- Stage, live <- {a \in {ids} : rclone.st = "live"}

\* Evidence is written by one attempt at a time, the open one, and none is
\* written once its attempt is closed: what the last reading found is all there
\* will ever be.
AttemptsInTurn == Transfer!Spec
==============================================================================
