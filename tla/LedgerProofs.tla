----------------------------- MODULE LedgerProofs -----------------------------
(***************************************************************************)
(* What a ledger never forgets, for any manifest and any bounds.           *)
(***************************************************************************)
EXTENDS Ledger, FiniteSetTheorems, TLAPS

(***************************************************************************)
(* The operations of internal/ledger keep the type of a checkpoint.        *)
(***************************************************************************)

\* The completed objects of a checkpoint are finitely many.
LEMMA DoneCount ==
    ASSUME NEW c
    PROVE  IsFiniteSet(Done(c)) /\ Cardinality(Done(c)) \in Nat
<1>1. IsFiniteSet(Done(c))
  BY LedgerAssumption, FS_Subset DEF Done
<1>2. QED
  BY <1>1, FS_CardinalityType

LEMMA NewLedgerType == NewLedger \in Checkpoints
  BY DEF NewLedger, Checkpoints, ObjectStates

\* The types of the parts of a checkpoint.
LEMMA CheckpointParts ==
    ASSUME NEW c \in Checkpoints
    PROVE  /\ c.attempt \in Nat /\ c.events \in Nat /\ c.events + 1 \in Nat
           /\ c.bad \in BOOLEAN
           /\ c.states \in [Objects -> ObjectStates]
           /\ c.cursor \in [Ids -> [Files -> Nat]]
<1>1. c.events \in Nat
  BY DEF Checkpoints
<1>2. QED
  BY <1>1 DEF Checkpoints

LEMMA StatesType ==
    ASSUME NEW c \in Checkpoints, NEW s \in [Objects -> ObjectStates]
    PROVE  [c EXCEPT !.states = s] \in Checkpoints
  BY DEF Checkpoints

LEMMA BadType ==
    ASSUME NEW c \in Checkpoints
    PROVE  [c EXCEPT !.bad = TRUE] \in Checkpoints
  BY DEF Checkpoints

LEMMA BegunType ==
    ASSUME NEW c \in Checkpoints, NEW a \in Nat
    PROVE  Begun(c, a) \in Checkpoints
<1> DEFINE s == [o \in Objects |-> IF o \in Done(c) THEN c.states[o] ELSE "pending"]
<1>1. s \in [Objects -> ObjectStates]
  BY CheckpointParts DEF ObjectStates
<1> HIDE DEF s
<1>2. [c EXCEPT !.attempt = a, !.bad = FALSE, !.states = s] \in Checkpoints
  BY <1>1 DEF Checkpoints
<1>3. QED
  BY <1>2 DEF Begun, s

LEMMA FinishedType ==
    ASSUME NEW c \in Checkpoints
    PROVE  Finished(c) \in Checkpoints
<1> DEFINE s == [o \in Objects |-> IF c.states[o] \in {"pending", "active"}
                                   THEN "unknown" ELSE c.states[o]]
<1>1. s \in [Objects -> ObjectStates]
  BY CheckpointParts DEF ObjectStates
<1>2. QED
  BY <1>1, StatesType DEF Finished

LEMMA SampledType ==
    ASSUME NEW c \in Checkpoints, NEW S \in SUBSET Objects
    PROVE  Sampled(c, S) \in Checkpoints
<1> DEFINE s == [o \in Objects |->
        IF c.states[o] \in completed \cup {"failed"} THEN c.states[o]
        ELSE IF o \in S THEN "active"
        ELSE IF c.states[o] = "active" THEN "pending" ELSE c.states[o]]
<1>1. s \in [Objects -> ObjectStates]
  BY CheckpointParts DEF ObjectStates
<1>2. QED
  BY <1>1, StatesType DEF Sampled

LEMMA ResultType ==
    ASSUME NEW c \in Checkpoints, NEW o, NEW s \in ObjectStates
    PROVE  Result(c, o, s) \in Checkpoints
<1>1. CASE o \notin Objects
  BY <1>1, BadType DEF Result
<1>2. CASE o \in Objects
  <2>1. [c.states EXCEPT ![o] = s] \in [Objects -> ObjectStates]
    BY <1>2, CheckpointParts
  <2>2. [c EXCEPT !.states = [c.states EXCEPT ![o] = s]] \in Checkpoints
    BY <2>1, StatesType
  <2>3. [c EXCEPT !.states[o] = s] = [c EXCEPT !.states = [c.states EXCEPT ![o] = s]]
    OBVIOUS
  <2>4. QED
    BY <1>2, <2>2, <2>3 DEF Result
<1>3. QED
  BY <1>1, <1>2

\* Advanced moves one position, ...
LEMMA AdvancedCursor ==
    ASSUME NEW c \in Checkpoints, NEW a \in Ids, NEW f \in Files, NEW line
    PROVE  Advanced(c, a, f, line).cursor = [c.cursor EXCEPT ![a][f] = c.cursor[a][f] + 1]
  BY DEF Advanced, Checkpoints

\* ... and leaves the verdicts alone.
LEMMA AdvancedType ==
    ASSUME NEW c \in Checkpoints, NEW a \in Ids, NEW f \in Files, NEW line
    PROVE  /\ Advanced(c, a, f, line) \in Checkpoints
           /\ Advanced(c, a, f, line).states = c.states
           /\ Advanced(c, a, f, line).bad = c.bad
           /\ Advanced(c, a, f, line).attempt = c.attempt
<1> DEFINE n == IF IsError(line) THEN c.events + 1 ELSE c.events
           u == [c.cursor EXCEPT ![a][f] = c.cursor[a][f] + 1]
<1>1. n \in Nat
  BY CheckpointParts
<1>2. c.cursor[a][f] + 1 \in Nat
  <2>1. c.cursor[a][f] \in Nat
    BY CheckpointParts
  <2>2. QED
    BY <2>1
<1>3. u \in [Ids -> [Files -> Nat]]
  BY <1>2, CheckpointParts
<1>4. Advanced(c, a, f, line) = [c EXCEPT !.cursor = u, !.events = n]
  BY DEF Advanced, Checkpoints
<1> HIDE DEF n, u
<1>5. [c EXCEPT !.cursor = u, !.events = n] \in Checkpoints
  BY <1>1, <1>3 DEF Checkpoints
<1>6. /\ [c EXCEPT !.cursor = u, !.events = n].states = c.states
      /\ [c EXCEPT !.cursor = u, !.events = n].bad = c.bad
      /\ [c EXCEPT !.cursor = u, !.events = n].attempt = c.attempt
  BY DEF Checkpoints
<1>7. QED
  BY <1>4, <1>5, <1>6

\* Noted is Advanced, and then a verdict for most lines.
LEMMA NotedCases ==
    ASSUME NEW c, NEW a, NEW f, NEW line \in Lines, line.kind # "garbage"
    PROVE  \/ Noted(c, a, f, line) = Advanced(c, a, f, line)
           \/ \E s \in {"copied", "skipped", "failed"} :
                Noted(c, a, f, line) = Result(Advanced(c, a, f, line), line.on, s)
<1>1. line.kind \in {"copied", "failed", "error", "garbage", "skipped", "reported"}
  BY DEF Lines, LinesOf, Files
<1>2. CASE line.kind = "error"
  BY <1>2 DEF Noted
<1>3. CASE line.kind \in {"failed", "reported"}
  BY <1>3 DEF Noted
<1>4. CASE line.kind \in {"copied", "skipped"}
  BY <1>4 DEF Noted
<1>5. QED
  BY <1>1, <1>2, <1>3, <1>4

LEMMA ResultParts ==
    ASSUME NEW c \in Checkpoints, NEW o, NEW s \in ObjectStates
    PROVE  /\ Result(c, o, s).attempt = c.attempt
           /\ Result(c, o, s).cursor = c.cursor
           /\ Result(c, o, s).events = c.events
           /\ Result(c, o, s).bad <=> c.bad \/ o \notin Objects
           /\ \A p \in Objects :
                Result(c, o, s).states[p] =
                  IF p = o /\ Outranks(s, c.states[o]) THEN s ELSE c.states[p]
<1>1. CASE o \notin Objects
  BY <1>1 DEF Result, Checkpoints
<1>2. CASE o \in Objects
  BY <1>2 DEF Result, Checkpoints
<1>3. QED
  BY <1>1, <1>2

\* Begin, Finish and Sample move no position and count no line.
LEMMA BegunParts ==
    ASSUME NEW c \in Checkpoints, NEW a \in Nat
    PROVE  /\ Begun(c, a).attempt = a /\ Begun(c, a).cursor = c.cursor
           /\ Begun(c, a).events = c.events /\ Begun(c, a).bad = FALSE
           /\ \A o \in Objects : Begun(c, a).states[o] =
                IF o \in Done(c) THEN c.states[o] ELSE "pending"
  BY DEF Begun, Checkpoints

LEMMA FinishedParts ==
    ASSUME NEW c \in Checkpoints
    PROVE  /\ Finished(c).attempt = c.attempt /\ Finished(c).cursor = c.cursor
           /\ Finished(c).events = c.events /\ Finished(c).bad = c.bad
           /\ \A o \in Objects : Finished(c).states[o] =
                IF c.states[o] \in {"pending", "active"} THEN "unknown" ELSE c.states[o]
  BY DEF Finished, Checkpoints

LEMMA SampledParts ==
    ASSUME NEW c \in Checkpoints, NEW S \in SUBSET Objects
    PROVE  /\ Sampled(c, S).attempt = c.attempt /\ Sampled(c, S).cursor = c.cursor
           /\ Sampled(c, S).events = c.events /\ Sampled(c, S).bad = c.bad
           /\ \A o \in Objects :
                \/ Sampled(c, S).states[o] = c.states[o]
                \/ /\ c.states[o] \notin completed \cup {"failed"}
                   /\ Sampled(c, S).states[o] \in {"active", "pending"}
  BY DEF Sampled, Checkpoints

LEMMA NotedType ==
    ASSUME NEW c \in Checkpoints, NEW a \in Ids, NEW f \in Files,
           NEW line \in Lines, line.kind # "garbage"
    PROVE  Noted(c, a, f, line) \in Checkpoints
<1>1. {"copied", "skipped", "failed"} \subseteq ObjectStates
  BY DEF ObjectStates
<1>2. Advanced(c, a, f, line) \in Checkpoints
  BY AdvancedType
<1>3. CASE Noted(c, a, f, line) = Advanced(c, a, f, line)
  BY <1>2, <1>3
<1>4. CASE \E s \in {"copied", "skipped", "failed"} :
             Noted(c, a, f, line) = Result(Advanced(c, a, f, line), line.on, s)
  <2>1. PICK s \in {"copied", "skipped", "failed"} :
          Noted(c, a, f, line) = Result(Advanced(c, a, f, line), line.on, s)
    BY <1>4
  <2>2. QED
    BY <1>1, <1>2, <2>1, ResultType
<1>5. QED
  BY <1>3, <1>4, NotedCases

------------------------------------------------------------------------------
(***************************************************************************)
(* Type correctness.                                                       *)
(***************************************************************************)

\* A document of an open or of a closed attempt is a document.
LEMMA DocTypes ==
    ASSUME NEW d \in Docs, NEW c, NEW a \in Nat,
           NEW st \in {"waiting", "running", "succeeded"}, NEW open \in BOOLEAN
    PROVE  /\ d.attempt \in Nat /\ d.done \in Nat /\ d.open \in BOOLEAN
           /\ d.state \in {"waiting", "running", "succeeded"}
           /\ [d EXCEPT !.done = Cardinality(Done(c))] \in Docs
           /\ [d EXCEPT !.state = st, !.attempt = a, !.open = open,
                        !.done = Cardinality(Done(c))] \in Docs
           /\ [d EXCEPT !.open = open, !.done = Cardinality(Done(c)), !.state = st] \in Docs
  BY DoneCount DEF Docs

\* The writes of a handler keep the types of the disk.
LEMMA SaveType ==
    ASSUME TypeOK, NEW c \in Checkpoints, NEW d \in Docs, Saved(c, d) \/ NotSaved(c, d)
    PROVE  saved' \in Checkpoints /\ doc' \in Docs /\ outages' \in Nat
<1>1. outages + 1 \in Nat
  BY DEF TypeOK
<1>2. QED
  BY <1>1 DEF TypeOK, Saved, NotSaved, Stored

\* A save that succeeds changes both, one that fails leaves a fault.
LEMMA SaveCases ==
    ASSUME NEW c, NEW d, Save(c, d)
    PROVE  \/ saved' = c /\ doc' = d
           \/ saved' \in {saved, c} /\ doc' = doc /\ fault'
<1>1. CASE Saved(c, d)
  BY <1>1 DEF Saved, Stored
<1>2. CASE NotSaved(c, d) /\ fault' = TRUE
  BY <1>2 DEF NotSaved, Stored
<1>3. QED
  BY <1>1, <1>2 DEF Save

\* A line that is still there was written, and is one.
LEMMA LineType ==
    ASSUME TypeOK, ids \in Ids, NEW f \in Files, NEW i \in Nat, i > 0, i <= Size(f)
    PROVE  i \in 1 .. Len(evidence[ids][f]) /\ evidence[ids][f][i] \in Lines
<1>1. evidence[ids][f] \in Seq(Lines) /\ cut[f] \in Nat
  BY DEF TypeOK
<1>2. Len(evidence[ids][f]) \in Nat
  BY <1>1
<1>3. i \in 1 .. Len(evidence[ids][f])
  BY <1>1, <1>2 DEF Size
<1>4. QED
  BY <1>1, <1>3

\* Where ReadLine reads, and what its line is.
LEMMA ReadLineFacts ==
    ASSUME TypeOK, Phases, ReadLine, NEW i, i = ledger.cursor[ids][reading.file] + 1
    PROVE  /\ doc.open /\ doc.attempt = ids /\ ids \in Ids /\ ledger.attempt = ids
           /\ reading.file \in Files
           /\ i \in 1 .. Len(evidence[ids][reading.file])
           /\ evidence[ids][reading.file][i] \in Lines
           /\ \/ /\ evidence[ids][reading.file][i].kind # "garbage"
                 /\ ledger' = Noted(ledger, ids, reading.file, evidence[ids][reading.file][i])
                 /\ reading' = reading
              \/ /\ ledger' = [ledger EXCEPT !.bad = TRUE]
                 /\ Stop
<1>1. reading.file \in Files
  BY DEF ReadLine
<1>2. reading # Idle
  BY <1>1 DEF Idle, Files
<1>3. doc.open /\ doc.attempt = ids /\ ids \in Ids /\ ledger.attempt = ids
  BY <1>2, LedgerAssumption DEF Phases, Ids, TypeOK
<1>4. i <= Size(reading.file)
  BY <1>3 DEF ReadLine
<1>5. i \in Nat /\ i > 0
  <2>1. ledger.cursor[ids][reading.file] \in Nat
    BY <1>1, <1>3, CheckpointParts DEF TypeOK
  <2>2. QED
    BY <2>1
<1>6. QED
  BY <1>1, <1>3, <1>4, <1>5, LineType DEF ReadLine

LEMMA InitType == Init => TypeOK
<1> SUFFICES ASSUME Init PROVE TypeOK
  OBVIOUS
<1>1. MaxAttempts \in Nat
  BY LedgerAssumption
<1>2. doc \in Docs
  BY DEF Init, Docs
<1>3. <<>> \in Seq(Lines)
  OBVIOUS
<1>4. evidence \in [Ids -> [Files -> Seq(Lines)]]
  BY <1>3 DEF Init
<1>5. ids \in 0 .. MaxAttempts /\ outages \in Nat
  BY <1>1 DEF Init
<1>6. /\ reading \in [file : Files \cup {"none", "end"}, final : BOOLEAN]
      /\ rclone \in [st : {"none", "ready", "live", "exited"}, zero : BOOLEAN]
  BY DEF Init, Idle, NoProcess
<1>7. /\ up \in BOOLEAN /\ fault \in BOOLEAN /\ running \in BOOLEAN
      /\ torn \subseteq Files /\ cut \in [Files -> Nat]
  BY DEF Init
<1>8. saved \in Checkpoints /\ ledger \in Checkpoints
  BY NewLedgerType DEF Init
<1>9. QED
  BY <1>2, <1>4, <1>5, <1>6, <1>7, <1>8 DEF TypeOK

LEMMA NextType == TypeOK /\ Phases /\ [Next]_vars => TypeOK'
<1> SUFFICES ASSUME TypeOK, Phases, [Next]_vars PROVE TypeOK'
  OBVIOUS
<1>a. MaxAttempts \in Nat /\ ids \in Nat /\ outages + 1 \in Nat
  BY LedgerAssumption DEF TypeOK
<1>b. NoProcess \in [st : {"none", "ready", "live", "exited"}, zero : BOOLEAN]
  BY DEF NoProcess
<1>c. Idle \in [file : Files \cup {"none", "end"}, final : BOOLEAN]
  BY DEF Idle
<1>d. [f \in Files |-> 0] \in [Files -> Nat]
  OBVIOUS
<1>e. \A last \in BOOLEAN : [file |-> "rclone.jsonl", final |-> last]
                               \in [file : Files \cup {"none", "end"}, final : BOOLEAN]
  BY DEF Files
<1>1. CASE Prepare
  <2> DEFINE c == Begun(saved, ids + 1)
             d == [doc EXCEPT !.state = "running", !.attempt = ids + 1, !.open = TRUE,
                              !.done = Cardinality(Done(c))]
  <2>1. c \in Checkpoints
    BY <1>a, BegunType DEF TypeOK
  <2>2. d \in Docs
    <3>1. doc \in Docs /\ ids + 1 \in Nat
      BY <1>a DEF TypeOK
    <3>2. QED
      BY <3>1, DocTypes
  <2>3. Save(c, d)
    BY <1>1 DEF Prepare
  <2>4. saved' \in Checkpoints /\ doc' \in Docs /\ outages' \in Nat
    <3> HIDE DEF c, d
    <3>1. QED
      BY <2>1, <2>2, <2>3, SaveType DEF Save
  <2>5. fault' \in BOOLEAN
    BY <2>3 DEF Save, TypeOK
  <2>6. ids' \in 0 .. MaxAttempts
    BY <1>1, <1>a DEF Prepare
  <2>7. ledger' \in Checkpoints /\ running' \in BOOLEAN
    BY <1>1, <2>1 DEF Prepare, TypeOK
  <2>8. rclone' \in [st : {"none", "ready", "live", "exited"}, zero : BOOLEAN]
    BY <1>1, <1>b DEF Prepare, TypeOK, NoProcess
  <2>9. QED
    BY <1>1, <1>d, <2>4, <2>5, <2>6, <2>7, <2>8 DEF Prepare, TypeOK
<1>2. CASE Launch
  BY <1>2 DEF Launch, TypeOK, NoProcess, controller, files
<1>3. CASE Poll
  BY <1>3, <1>e, SampledType DEF Poll, TypeOK, files
<1>4. CASE ReadLine
  <2>1. PICK i : i = ledger.cursor[ids][reading.file] + 1
    OBVIOUS
  <2>2. ledger' \in Checkpoints
    BY <1>4, <2>1, ReadLineFacts, NotedType, BadType DEF TypeOK
  <2>3. reading' \in [file : Files \cup {"none", "end"}, final : BOOLEAN]
    BY <1>4, <2>1, ReadLineFacts DEF TypeOK, Stop
  <2>4. QED
    BY <1>4, <2>2, <2>3 DEF ReadLine, TypeOK, files
<1>5. CASE ReadEnd
  <2>1. ledger' \in Checkpoints
    BY <1>5, BadType DEF ReadEnd, TypeOK
  <2>2. \A f \in Files : Following(f) \in Files \cup {"end"}
    BY DEF Following, Files
  <2>3. reading' \in [file : Files \cup {"none", "end"}, final : BOOLEAN]
    BY SMTT(40), <1>5, <2>2 DEF ReadEnd, TypeOK, Stop
  <2>4. QED
    BY <1>5, <2>1, <2>3 DEF ReadEnd, TypeOK, files
<1>6. CASE Checkpoint
  <2>1. saved' \in Checkpoints /\ doc' \in Docs /\ outages' \in Nat /\ fault' \in BOOLEAN
    BY <1>6, SaveType, DocTypes DEF Checkpoint, Save, TypeOK
  <2>2. QED
    BY <1>6, <1>c, <2>1 DEF Checkpoint, TypeOK, files
<1>7. CASE Ended
  BY <1>7, <1>b, <1>e, NewLedgerType DEF Ended, TypeOK, files
<1>8. CASE Finish
  <2> DEFINE c == Finished(ledger)
             d == ClosedDoc(c, IF rclone.zero /\ Complete(c) THEN "succeeded" ELSE "waiting")
  <2>1. c \in Checkpoints
    BY FinishedType DEF TypeOK
  <2>2. d \in Docs
    BY DocTypes DEF TypeOK, ClosedDoc
  <2>3. saved' \in Checkpoints /\ doc' \in Docs /\ outages' \in Nat /\ fault' \in BOOLEAN
    <3>1. Save(c, d)
      BY <1>8 DEF Finish
    <3> HIDE DEF c, d
    <3>2. QED
      BY <2>1, <2>2, <3>1, SaveType DEF Save, TypeOK
  <2>4. QED
    BY <1>8, <1>b, <1>c, <2>3, NewLedgerType DEF Finish, TypeOK, files
<1>9. CASE StorageFailure
  BY <1>9, <1>a DEF StorageFailure, TypeOK, files
<1>10. CASE Crash
  BY <1>10, <1>a, <1>b, <1>c, NewLedgerType DEF Crash, Gone, TypeOK, files
<1>11. CASE Recover
  BY <1>11, <1>e DEF Recover, TypeOK, files
<1>12. CASE Reclose
  <2> DEFINE c == Finished(ledger)
             d == ClosedDoc(c, "waiting")
  <2>1. c \in Checkpoints
    BY FinishedType DEF TypeOK
  <2>2. d \in Docs
    BY DocTypes DEF TypeOK, ClosedDoc
  <2>3. saved' \in Checkpoints /\ doc' \in Docs /\ outages' \in Nat
    <3>1. Saved(c, d) \/ NotSaved(c, d)
      BY <1>12 DEF Reclose
    <3> HIDE DEF c, d
    <3>2. QED
      BY <2>1, <2>2, <3>1, SaveType
  <2>4. QED
    BY <1>12, <1>c, <2>3, NewLedgerType DEF Reclose, TypeOK, files
<1>13. ASSUME NEW f \in Files, WriteLine(f) PROVE TypeOK'
  <2>1. PICK line \in LinesOf(f) : evidence' = [evidence EXCEPT ![ids][f] = Append(@, line)]
    BY <1>13 DEF WriteLine
  <2>2. line \in Lines
    BY <2>1 DEF Lines
  <2>3. \A s \in Seq(Lines) : Append(s, line) \in Seq(Lines)
    BY <2>2
  <2>4. evidence' \in [Ids -> [Files -> Seq(Lines)]]
    BY <2>1, <2>3 DEF TypeOK
  <2>5. QED
    BY <1>13, <2>4 DEF WriteLine, TypeOK, controller
<1>14. ASSUME NEW f \in Files, HalfLine(f) PROVE TypeOK'
  BY <1>14 DEF HalfLine, TypeOK, controller
<1>15. CASE Exit
  BY <1>15, <1>b DEF Exit, TypeOK, controller, files
<1>16. CASE HostFailure
  <2>1. \A n \in Nat : n + 1 \in Nat
    OBVIOUS
  <2>2. cut' \in [Files -> Nat] /\ torn' \subseteq Files
    BY <1>16, <2>1 DEF HostFailure, TypeOK
  <2>3. QED
    BY <1>16, <1>b, <2>2 DEF HostFailure, TypeOK, controller
<1>17. CASE UNCHANGED vars
  BY <1>17 DEF TypeOK, vars, controller, files
<1>18. QED
  BY <1>1, <1>2, <1>3, <1>4, <1>5, <1>6, <1>7, <1>8, <1>9, <1>10, <1>11, <1>12, <1>13,
     <1>14, <1>15, <1>16, <1>17 DEF Next

\* In d one position is one line further than in c, the others are the same.
Moved(c, d, a, f) ==
    \A b \in Ids, g \in Files :
        d.cursor[b][g] = IF b = a /\ g = f THEN c.cursor[a][f] + 1 ELSE c.cursor[b][g]

\* Noted moves its position by one line, ...
LEMMA NotedCursor ==
    ASSUME NEW c \in Checkpoints, NEW a \in Ids, NEW f \in Files,
           NEW line \in Lines, line.kind # "garbage"
    PROVE  Moved(c, Noted(c, a, f, line), a, f)
<1> DEFINE r == Advanced(c, a, f, line)
<1>1. r \in Checkpoints
  BY AdvancedType
<1>c. Moved(c, r, a, f)
  <2>1. r.cursor = [c.cursor EXCEPT ![a][f] = c.cursor[a][f] + 1]
    BY AdvancedCursor
  <2> HIDE DEF r
  <2>2. QED
    BY <2>1, CheckpointParts DEF Moved
<1>2. {"copied", "skipped", "failed"} \subseteq ObjectStates
  BY DEF ObjectStates
<1> HIDE DEF r
<1>3. CASE Noted(c, a, f, line) = r
  BY <1>c, <1>3
<1>4. CASE \E s \in {"copied", "skipped", "failed"} :
             Noted(c, a, f, line) = Result(r, line.on, s)
  <2>1. PICK s \in {"copied", "skipped", "failed"} :
          Noted(c, a, f, line) = Result(r, line.on, s)
    BY <1>4
  <2>2. Result(r, line.on, s).cursor = r.cursor
    BY <1>1, <1>2, ResultParts
  <2>3. QED
    BY <1>c, <2>1, <2>2 DEF Moved
<1>5. QED
  BY <1>3, <1>4, NotedCases DEF r

\* ... counts an error and leaves the attempt alone.
LEMMA NotedParts ==
    ASSUME NEW c \in Checkpoints, NEW a \in Ids, NEW f \in Files,
           NEW line \in Lines, line.kind # "garbage"
    PROVE  /\ Noted(c, a, f, line).attempt = c.attempt
           /\ IsError(line) => Noted(c, a, f, line).events = c.events + 1
           /\ ~IsError(line) => Noted(c, a, f, line).events = c.events
           /\ c.bad => Noted(c, a, f, line).bad
<1> DEFINE r == Advanced(c, a, f, line)
<1>1. /\ r \in Checkpoints /\ r.bad = c.bad /\ r.attempt = c.attempt
  BY AdvancedType
<1>2. /\ IsError(line) => r.events = c.events + 1
      /\ ~IsError(line) => r.events = c.events
  BY DEF Advanced, Checkpoints
<1>3. {"copied", "skipped", "failed"} \subseteq ObjectStates
  BY DEF ObjectStates
<1> HIDE DEF r
<1>4. CASE Noted(c, a, f, line) = r
  BY <1>1, <1>2, <1>4
<1>5. CASE \E s \in {"copied", "skipped", "failed"} :
             Noted(c, a, f, line) = Result(r, line.on, s)
  <2>1. PICK s \in {"copied", "skipped", "failed"} :
          Noted(c, a, f, line) = Result(r, line.on, s)
    BY <1>5
  <2>2. s \in ObjectStates
    BY <1>3
  <2>3. /\ Result(r, line.on, s).attempt = r.attempt
        /\ Result(r, line.on, s).events = r.events
        /\ r.bad => Result(r, line.on, s).bad
    BY <1>1, <2>2, ResultParts
  <2>4. QED
    BY <1>1, <1>2, <2>1, <2>3
<1>6. QED
  BY <1>4, <1>5, NotedCases DEF r

------------------------------------------------------------------------------
(***************************************************************************)
(* Who reads and who writes.                                               *)
(***************************************************************************)

LEMMA InitPhases == Init => Phases
  BY LedgerAssumption DEF Init, Phases, NewLedger, NoProcess, Idle

LEMMA NextPhases == TypeOK /\ Phases /\ [Next]_vars => Phases'
<1> SUFFICES ASSUME TypeOK, Phases, [Next]_vars PROVE Phases'
  OBVIOUS
<1>a. /\ ids \in Nat /\ ids + 1 \in Nat /\ saved \in Checkpoints /\ ledger \in Checkpoints /\ doc \in Docs
      /\ doc.attempt \in Nat /\ saved.attempt \in Nat /\ ledger.attempt \in Nat
  BY LedgerAssumption DEF TypeOK, Docs, Checkpoints
<1>1. CASE Prepare
  <2> DEFINE c == Begun(saved, ids + 1)
             d == [doc EXCEPT !.state = "running", !.attempt = ids + 1, !.open = TRUE,
                              !.done = Cardinality(Done(c))]
  <2>1. c.attempt = ids + 1
    BY <1>a, BegunParts
  <2>2. d.state = "running" /\ d.attempt = ids + 1 /\ d.open
    BY <1>a DEF Docs
  <2>3. Save(c, d) /\ ids' = ids + 1
    BY <1>1 DEF Prepare
  <2>4. ~doc.open /\ reading = Idle /\ ~running /\ up /\ ~fault /\ reading' = reading /\ up' = up
    BY <1>1 DEF Prepare, Phases, Healthy
  <2>5. CASE fault'
    <3>1. ledger' = ledger /\ running' = running /\ rclone' = rclone
      BY <1>1, <2>5 DEF Prepare
    <3> HIDE DEF c, d
    <3>2. \/ saved' = c /\ doc' = d
          \/ saved' \in {saved, c} /\ doc' = doc
      BY <2>3, SaveCases
    <3>3. QED
      BY <1>a, <2>1, <2>2, <2>3, <2>4, <3>1, <3>2 DEF Phases
  <2>6. CASE ~fault'
    <3>1. ledger' = c /\ running' = TRUE /\ rclone' = [NoProcess EXCEPT !.st = "ready"]
      BY <1>1, <2>6 DEF Prepare
    <3>2. doc' = d /\ saved' = c
      BY <2>3, <2>6 DEF Save, Saved, Stored
    <3>3. cut' = [f \in Files |-> 0]
      BY <1>1 DEF Prepare
    <3> HIDE DEF c, d
    <3>4. QED
      BY <1>a, <2>1, <2>2, <2>3, <2>4, <3>1, <3>2, <3>3 DEF Phases, NoProcess, Idle
  <2>7. QED
    BY <2>5, <2>6
<1>2. CASE Launch
  BY <1>2 DEF Launch, Phases, NoProcess, controller, files
<1>3. CASE Poll
  BY <1>a, <1>3, SampledParts DEF Poll, Phases, files, Idle, Healthy
<1>4. CASE ReadLine
  <2>1. PICK i : i = ledger.cursor[ids][reading.file] + 1
    OBVIOUS
  <2> DEFINE line == evidence[ids][reading.file][i]
  <2>a. /\ ids \in Ids /\ reading.file \in Files /\ line \in Lines
        /\ \/ /\ line.kind # "garbage"
              /\ ledger' = Noted(ledger, ids, reading.file, line)
           \/ ledger' = [ledger EXCEPT !.bad = TRUE]
    BY <1>4, <2>1, ReadLineFacts
  <2> HIDE DEF line
  <2>2. ledger'.attempt = ledger.attempt
    <3>1. CASE ledger' = [ledger EXCEPT !.bad = TRUE]
      BY <1>a, <3>1 DEF Checkpoints
    <3>2. CASE line.kind # "garbage" /\ ledger' = Noted(ledger, ids, reading.file, line)
      <4>2. Noted(ledger, ids, reading.file, line).attempt = ledger.attempt
        BY <1>a, <2>a, <3>2, NotedParts
      <4>3. QED
        BY <3>2, <4>2
    <3>3. QED
      BY <2>a, <3>1, <3>2
  <2>3. reading' \in {reading, [reading EXCEPT !.file = "end"]} /\ reading # Idle /\ reading' # Idle
        /\ reading'.final = reading.final
    <3>1. reading' = reading \/ reading' = [reading EXCEPT !.file = "end"]
      BY <1>4 DEF ReadLine, Stop
    <3>2. reading.file \in Files /\ reading \in [file : Files \cup {"none", "end"}, final : BOOLEAN]
      BY <2>a DEF TypeOK
    <3>3. QED
      BY <3>1, <3>2 DEF Idle, Files
  <2>4. QED
    BY <1>4, <2>2, <2>3 DEF ReadLine, Phases, files, TypeOK, Idle
<1>5. CASE ReadEnd
  <2>1. ledger'.attempt = ledger.attempt
    BY <1>a, <1>5 DEF ReadEnd, Checkpoints
  <2>2. /\ reading # Idle /\ reading' # Idle /\ reading'.final = reading.final
        /\ reading'.file # "none"
    BY <1>5 DEF ReadEnd, Stop, TypeOK, Idle, Files, Following
  <2>3. QED
    BY <1>5, <2>1, <2>2 DEF ReadEnd, Phases, files
<1>6. CASE Checkpoint
  <2> DEFINE d == [doc EXCEPT !.done = Cardinality(Done(ledger))]
  <2>1. d.state = doc.state /\ d.attempt = doc.attempt /\ d.open = doc.open
    BY <1>a DEF Docs
  <2>2. saved' \in {saved, ledger} /\ doc' \in {doc, d}
    BY <1>6 DEF Checkpoint, Save, Saved, NotSaved, Stored
  <2>3. up /\ running /\ doc.open /\ ledger.attempt = ids /\ reading' = Idle
    BY <1>6 DEF Checkpoint, Phases, Healthy
  <2> HIDE DEF d
  <2>4. /\ up' = up /\ running' = running /\ ids' = ids /\ ledger' = ledger
        /\ rclone' = rclone /\ cut' = cut
    BY <1>6 DEF Checkpoint, files
  <2>5. QED
    BY <1>a, <2>1, <2>2, <2>3, <2>4 DEF Phases, Idle
<1>7. CASE Ended
  <2>1. CASE fault
    BY <1>7, <2>1 DEF Ended, Phases, files, NoProcess, Idle
  <2>2. CASE ~fault
    <3>1. reading' = [file |-> "rclone.jsonl", final |-> TRUE]
      BY <1>7, <2>2 DEF Ended
    <3>2. reading'.file # "none" /\ reading'.final /\ reading' # Idle
      BY <3>1 DEF Idle
    <3>3. QED
      BY <1>7, <2>2, <3>1, <3>2 DEF Ended, Phases, files
  <2>3. QED
    BY <2>1, <2>2
<1>8. CASE Finish
  <2> DEFINE c == Finished(ledger)
             st == IF rclone.zero /\ Complete(c) THEN "succeeded" ELSE "waiting"
             d == ClosedDoc(c, st)
  <2>1. c.attempt = ledger.attempt
    BY <1>a, FinishedParts
  <2>2. ~d.open /\ d.attempt = doc.attempt
    BY <1>a DEF Docs, ClosedDoc
  <2>3. saved' \in {saved, c} /\ doc' \in {doc, d}
    BY <1>8 DEF Finish, Save, Saved, NotSaved, Stored
  <2>4. up /\ running /\ doc.open /\ ledger.attempt = ids /\ reading' = Idle
    BY <1>8 DEF Finish, Phases, Healthy
  <2> HIDE DEF c, d, st
  <2>5. QED
    BY <1>a, <1>8, <2>1, <2>2, <2>3, <2>4 DEF Finish, Phases, files, NoProcess, Idle
<1>9. CASE StorageFailure
  BY <1>9 DEF StorageFailure, Phases, Healthy, files
<1>10. CASE Crash
  BY <1>10 DEF Crash, Gone, Phases, files, NoProcess, Idle
<1>11. CASE Recover
  <2>1. CASE ~doc.open
    BY <1>11, <2>1 DEF Recover, Phases, files
  <2>2. CASE doc.open
    <3>1. reading' = [file |-> "rclone.jsonl", final |-> TRUE] /\ reading' # Idle
      BY <1>11, <2>2 DEF Recover, Idle
    <3>2. reading'.file # "none" /\ reading'.final
      BY <3>1
    <3>3. rclone.st \in {"none", "exited"}
      BY <1>11 DEF Recover, Phases, TypeOK
    <3>4. QED
      BY <1>11, <2>2, <3>1, <3>2, <3>3 DEF Recover, Phases, files
  <2>3. QED
    BY <2>1, <2>2
<1>12. CASE Reclose
  <2> DEFINE c == Finished(ledger)
             d == ClosedDoc(c, "waiting")
  <2>1. c.attempt = ledger.attempt
    BY <1>a, FinishedParts
  <2>2. ~d.open /\ d.attempt = doc.attempt
    BY <1>a DEF Docs, ClosedDoc
  <2>3. saved' \in {saved, c} /\ doc' \in {doc, d}
    BY <1>12 DEF Reclose, Saved, NotSaved, Stored
  <2>4. ~up /\ ~running /\ ~fault /\ doc.open /\ ledger.attempt = ids /\ reading' = Idle
        /\ rclone.st # "live"
    BY <1>12 DEF Reclose, Phases, Idle
  <2> HIDE DEF c, d
  <2>5. QED
    BY <1>a, <1>12, <2>1, <2>2, <2>3, <2>4 DEF Reclose, Phases, files, Idle
<1>13. ASSUME NEW f \in Files, WriteLine(f) PROVE Phases'
  BY <1>13 DEF WriteLine, Phases, controller
<1>14. ASSUME NEW f \in Files, HalfLine(f) PROVE Phases'
  BY <1>14 DEF HalfLine, Phases, controller
<1>15. CASE Exit
  BY <1>15 DEF Exit, Phases, controller, files, NoProcess
<1>16. CASE HostFailure
  BY <1>16 DEF HostFailure, Phases, controller, NoProcess
<1>17. CASE UNCHANGED vars
  BY <1>17 DEF Phases, vars, controller, files
<1>18. QED
  BY <1>1, <1>2, <1>3, <1>4, <1>5, <1>6, <1>7, <1>8, <1>9, <1>10, <1>11, <1>12, <1>13,
     <1>14, <1>15, <1>16, <1>17 DEF Next

------------------------------------------------------------------------------
(***************************************************************************)
(* One checkpoint and the evidence: what a checkpoint says follows from    *)
(* the lines it has read, and every operation of the ledger keeps it so.   *)
(***************************************************************************)
AllEvidence == [Ids -> [Files -> Seq(Lines)]]

\* Every line is of a kind its file has.
Sorted(ev) ==
    \A a \in Ids, f \in Files :
        \A i \in 1 .. Len(ev[a][f]) : ev[a][f][i] \in LinesOf(f)

Sound(ev, c) ==
    /\ Sensible(ev, c)
    /\ c.events = Cardinality(ErrorsRead(ev, c))
    /\ \A o \in Objects : VerdictFollows(ev, c, o)
    /\ SeenStranger(ev, c) => c.bad

LEMMA ErrorsFinite ==
    ASSUME NEW ev, NEW c \in Checkpoints
    PROVE  IsFiniteSet(ErrorsRead(ev, c)) /\ Cardinality(ErrorsRead(ev, c)) \in Nat
<1> DEFINE block == [a \in Ids |-> {a} \X Consumed(c, a, "rclone.jsonl")]
           blocks == {{a} \X Consumed(c, a, "rclone.jsonl") : a \in Ids}
<1>1. IsFiniteSet(Ids)
  BY LedgerAssumption, FS_Interval DEF Ids
<1>2. block \in Surjection(Ids, blocks)
  BY DEF Surjection
<1>3. IsFiniteSet(blocks)
  <2> HIDE DEF block, blocks
  <2>1. QED
    BY <1>1, <1>2, FS_Surjection
<1>4. ASSUME NEW a \in Ids PROVE IsFiniteSet({a} \X Consumed(c, a, "rclone.jsonl"))
  <2>1. c.cursor[a]["rclone.jsonl"] \in Nat
    BY CheckpointParts DEF Files
  <2>2. IsFiniteSet(Consumed(c, a, "rclone.jsonl"))
    BY <2>1, FS_Interval DEF Consumed
  <2>3. QED
    BY <2>2, FS_Singleton, FS_Product
<1>5. IsFiniteSet(UNION blocks)
  <2>1. \A b \in blocks : IsFiniteSet(b)
    BY <1>4
  <2> HIDE DEF blocks
  <2>2. QED
    BY <1>3, <2>1, FS_UNION
<1>6. ErrorsRead(ev, c) \subseteq UNION blocks
  BY DEF ErrorsRead
<1>7. QED
  BY <1>5, <1>6, FS_Subset, FS_CardinalityType

\* Checkpoints with the same positions have seen the same lines.
LEMMA SameLines ==
    ASSUME NEW ev, NEW c, NEW d, d.cursor = c.cursor
    PROVE  /\ Sensible(ev, d) <=> Sensible(ev, c)
           /\ ErrorsRead(ev, d) = ErrorsRead(ev, c)
           /\ \A a, k, o : Seen(ev, d, a, k, o) <=> Seen(ev, c, a, k, o)
           /\ \A k, o : SeenEver(ev, d, k, o) <=> SeenEver(ev, c, k, o)
<1>1. \A a, f : Consumed(d, a, f) = Consumed(c, a, f)
  BY DEF Consumed
<1>2. Sensible(ev, d) <=> Sensible(ev, c)
  BY <1>1 DEF Sensible
<1>3. ErrorsRead(ev, d) = ErrorsRead(ev, c)
  BY <1>1 DEF ErrorsRead
<1>4. \A a, k, o : Seen(ev, d, a, k, o) <=> Seen(ev, c, a, k, o)
  BY <1>1 DEF Seen
<1>5. QED
  BY <1>2, <1>3, <1>4 DEF SeenEver

\* A new ledger has read nothing and claims nothing.
LEMMA NewLedgerSound ==
    ASSUME NEW ev \in AllEvidence
    PROVE  Sound(ev, NewLedger)
<1>1. \A a \in Ids, f \in Files : Consumed(NewLedger, a, f) = {}
  BY DEF Consumed, NewLedger
<1>2. Sensible(ev, NewLedger)
  <2>1. \A a \in Ids, f \in Files : 0 <= Len(ev[a][f])
    <3>1. \A a \in Ids, f \in Files : ev[a][f] \in Seq(Lines)
      BY DEF AllEvidence
    <3>2. QED
      BY <3>1
  <2>2. QED
    BY <1>1, <2>1 DEF Sensible, NewLedger
<1>3. ErrorsRead(ev, NewLedger) = {}
  BY <1>1 DEF ErrorsRead, Files
<1>4. \A a \in Ids : \A k, o : ~Seen(ev, NewLedger, a, k, o)
  BY <1>1 DEF Seen
<1>5. \A o \in Objects : VerdictFollows(ev, NewLedger, o)
  <2>1. \A o \in Objects : NewLedger.states[o] = "pending"
    BY DEF NewLedger
  <2>2. QED
    BY <1>4, <2>1 DEF VerdictFollows, SeenEver, SeenNow
<1>6. ~SeenStranger(ev, NewLedger)
  BY <1>4 DEF SeenStranger, SeenNow
<1>7. QED
  BY <1>2, <1>3, <1>5, <1>6, FS_EmptySet DEF Sound, NewLedger

\* Begin: an attempt that has left no line yet.
LEMMA BegunSound ==
    ASSUME NEW ev, NEW c \in Checkpoints, Sound(ev, c), NEW a \in Ids,
           \A f \in Files : Len(ev[a][f]) = 0
    PROVE  Sound(ev, Begun(c, a))
<1> DEFINE d == Begun(c, a)
<1>a. a \in Nat
  BY LedgerAssumption DEF Ids
<1>1. /\ d.attempt = a /\ d.cursor = c.cursor /\ d.events = c.events
      /\ \A o \in Objects : d.states[o] = IF o \in Done(c) THEN c.states[o] ELSE "pending"
  BY <1>a, BegunParts
<1> HIDE DEF d
<1>2. \A k, o : ~Seen(ev, c, a, k, o)
  <2>1. \A f \in Files : c.cursor[a][f] \in Nat /\ c.cursor[a][f] <= 0
    BY CheckpointParts DEF Sound, Sensible
  <2>2. \A f \in Files : Consumed(c, a, f) = {}
    BY <2>1 DEF Consumed
  <2>3. QED
    BY <2>2 DEF Seen
<1>3. \A K, o : ~SeenNow(ev, d, K, o)
  BY <1>1, <1>2, SameLines DEF SeenNow
<1>4. ASSUME NEW o \in Objects PROVE VerdictFollows(ev, d, o)
  <2>1. VerdictFollows(ev, c, o)
    BY DEF Sound
  <2>2. o \in Done(c) <=> c.states[o] \in completed
    BY DEF Done
  <2>3. QED
    BY <1>1, <1>3, <2>1, <2>2, SameLines DEF VerdictFollows, completed
<1>5. QED
  BY <1>1, <1>3, <1>4, SameLines DEF Sound, SeenStranger, d

\* An operation that only moves objects without a verdict.
LEMMA UndecidedSound ==
    ASSUME NEW ev, NEW c, Sound(ev, c), NEW d,
           d.attempt = c.attempt, d.cursor = c.cursor, d.events = c.events, c.bad => d.bad,
           \A o \in Objects :
              \/ d.states[o] = c.states[o]
              \/ /\ c.states[o] \notin completed \cup {"failed"}
                 /\ d.states[o] \in {"active", "pending", "unknown"}
    PROVE  Sound(ev, d)
<1>1. \A K, o : SeenNow(ev, d, K, o) <=> SeenNow(ev, c, K, o)
  BY SameLines DEF SeenNow
<1>2. ASSUME NEW o \in Objects PROVE VerdictFollows(ev, d, o)
  <2>1. VerdictFollows(ev, c, o)
    BY DEF Sound
  <2>2. QED
    BY <1>1, <2>1, SameLines DEF VerdictFollows, completed
<1>3. QED
  BY <1>1, <1>2, SameLines DEF Sound, SeenStranger

\* Evidence that is only appended to changes nothing for a checkpoint.
LEMMA GrownSound ==
    ASSUME NEW ev \in AllEvidence, NEW c \in Checkpoints, Sound(ev, c),
           NEW a \in Ids, NEW f \in Files, NEW line \in Lines
    PROVE  Sound([ev EXCEPT ![a][f] = Append(@, line)], c)
<1> DEFINE new == [ev EXCEPT ![a][f] = Append(@, line)]
<1>1. ASSUME NEW b \in Ids, NEW g \in Files
      PROVE  /\ c.cursor[b][g] \in Nat /\ c.cursor[b][g] <= Len(new[b][g])
             /\ \A i \in Consumed(c, b, g) : new[b][g][i] = ev[b][g][i]
  <2>1. ev[b][g] \in Seq(Lines) /\ c.cursor[b][g] \in Nat
    BY CheckpointParts DEF AllEvidence
  <2>2. c.cursor[b][g] <= Len(ev[b][g])
    BY DEF Sound, Sensible
  <2>3. new[b][g] = IF b = a /\ g = f THEN Append(ev[b][g], line) ELSE ev[b][g]
    BY DEF AllEvidence
  <2>4. \A s \in Seq(Lines) : /\ Len(Append(s, line)) = Len(s) + 1
                              /\ \A i \in 1 .. Len(s) : Append(s, line)[i] = s[i]
    OBVIOUS
  <2>5. Len(ev[b][g]) \in Nat
    BY <2>1
  <2> HIDE DEF new
  <2>6. QED
    BY <2>1, <2>2, <2>3, <2>4, <2>5 DEF Consumed
<1> HIDE DEF new
<1>2. Sensible(new, c)
  BY <1>1 DEF Sound, Sensible
<1>3. ErrorsRead(new, c) = ErrorsRead(ev, c)
  <2>1. "rclone.jsonl" \in Files
    BY DEF Files
  <2>2. QED
    BY <1>1, <2>1 DEF ErrorsRead
<1>4. \A b \in Ids : \A k, o : Seen(new, c, b, k, o) <=> Seen(ev, c, b, k, o)
  BY <1>1 DEF Seen
<1>5. \A k, o : SeenEver(new, c, k, o) <=> SeenEver(ev, c, k, o)
  BY <1>4 DEF SeenEver
<1>6. \A K, o : SeenNow(new, c, K, o) <=> SeenNow(ev, c, K, o)
  BY <1>4 DEF SeenNow
<1>7. \A o \in Objects : VerdictFollows(new, c, o)
  BY <1>5, <1>6 DEF Sound, VerdictFollows
<1>8. QED
  BY <1>2, <1>3, <1>6, <1>7 DEF Sound, SeenStranger, new

\* What one more line adds to the lines consumed.
LEMMA OneMoreConsumed ==
    ASSUME NEW c \in Checkpoints, NEW d, NEW a \in Ids, NEW f \in Files,
           Moved(c, d, a, f)
    PROVE  \A b \in Ids, g \in Files : Consumed(d, b, g) =
             IF b = a /\ g = f THEN Consumed(c, a, f) \cup {c.cursor[a][f] + 1}
             ELSE Consumed(c, b, g)
<1>1. ASSUME NEW b \in Ids, NEW g \in Files
      PROVE  Consumed(d, b, g) =
                IF b = a /\ g = f THEN Consumed(c, a, f) \cup {c.cursor[a][f] + 1}
                ELSE Consumed(c, b, g)
  <2>1. c.cursor[a][f] \in Nat
    BY CheckpointParts
  <2>2. d.cursor[b][g] = IF b = a /\ g = f THEN c.cursor[a][f] + 1 ELSE c.cursor[b][g]
    BY DEF Moved
  <2>3. \A n \in Nat : 1 .. (n + 1) = (1 .. n) \cup {n + 1}
    OBVIOUS
  <2>4. QED
    BY <2>1, <2>2, <2>3 DEF Consumed
<1>2. QED
  BY <1>1

\* The verdict one line of evidence leads to.
LEMMA NotedVerdict ==
    ASSUME NEW c \in Checkpoints, NEW a \in Ids, NEW f \in Files,
           NEW line \in Lines, line.kind # "garbage", NEW o \in Objects
    PROVE  Noted(c, a, f, line).states[o] =
             IF line.on # o \/ line.kind = "error" THEN c.states[o]
             ELSE IF line.kind = "copied" THEN "copied"
             ELSE IF line.kind = "skipped"
                  THEN IF c.states[o] \in completed THEN c.states[o] ELSE "skipped"
             ELSE IF c.states[o] \in completed THEN c.states[o] ELSE "failed"
<1> DEFINE r == Advanced(c, a, f, line)
<1>1. r \in Checkpoints /\ r.states = c.states
  BY AdvancedType
<1>2. line.kind \in {"copied", "failed", "error", "skipped", "reported"}
  BY DEF Lines, LinesOf, Files
<1>3. {"copied", "skipped", "failed"} \subseteq ObjectStates
  BY DEF ObjectStates
<1> HIDE DEF r
<1>4. CASE line.kind = "error"
  BY <1>1, <1>4 DEF Noted, r
<1>5. \A s \in {"copied", "skipped", "failed"} :
        Result(r, line.on, s).states[o] =
          IF o = line.on /\ Outranks(s, c.states[o]) THEN s ELSE c.states[o]
  <2>1. ASSUME NEW s \in {"copied", "skipped", "failed"}
        PROVE  Result(r, line.on, s).states[o] =
                 IF o = line.on /\ Outranks(s, r.states[line.on]) THEN s ELSE r.states[o]
    BY <1>1, <1>3, ResultParts
  <2>2. QED
    BY <1>1, <2>1
<1>6. CASE line.kind \in {"copied", "skipped"}
  <2>1. Noted(c, a, f, line) = Result(r, line.on, line.kind)
    BY <1>6 DEF Noted, r
  <2>2. QED
    BY <1>5, <1>6, <2>1 DEF Outranks, completed
<1>7. CASE line.kind \in {"failed", "reported"}
  <2>1. Noted(c, a, f, line) = Result(r, line.on, "failed")
    BY <1>7 DEF Noted, r
  <2>2. QED
    BY <1>5, <1>7, <2>1 DEF Outranks, completed
<1>8. QED
  BY <1>2, <1>4, <1>6, <1>7

\* A line about an object outside of the manifest spoils the ledger.
LEMMA NotedStranger ==
    ASSUME NEW c \in Checkpoints, NEW a \in Ids, NEW f \in Files,
           NEW line \in Lines, line.kind \notin {"garbage", "error"}, line.on = Stranger
    PROVE  Noted(c, a, f, line).bad
<1>1. Advanced(c, a, f, line) \in Checkpoints
  BY AdvancedType
<1>2. line.on \notin Objects
  BY LedgerAssumption
<1>3. Noted(c, a, f, line) = [Advanced(c, a, f, line) EXCEPT !.bad = TRUE]
  BY <1>2 DEF Noted, Result
<1>4. QED
  BY <1>1, <1>3 DEF Checkpoints

\* Consume, line by line.
LEMMA NotedSound ==
    ASSUME NEW ev \in AllEvidence, Sorted(ev), NEW c \in Checkpoints, Sound(ev, c),
           NEW a \in Ids, c.attempt = a, NEW f \in Files,
           c.cursor[a][f] + 1 \in 1 .. Len(ev[a][f]),
           ev[a][f][c.cursor[a][f] + 1].kind # "garbage"
    PROVE  Sound(ev, Noted(c, a, f, ev[a][f][c.cursor[a][f] + 1]))
<1> DEFINE i == c.cursor[a][f] + 1
           line == ev[a][f][i]
           d == Noted(c, a, f, line)
<1>1. line \in LinesOf(f) /\ line \in Lines
  BY DEF Sorted, Lines
<1>2. c.cursor[a][f] \in Nat /\ i \in Nat /\ i <= Len(ev[a][f]) /\ line.kind # "garbage"
  <2>1. c.cursor[a][f] \in Nat
    BY CheckpointParts
  <2>2. QED
    BY <2>1
<1>3. /\ d.attempt = a
      /\ c.bad => d.bad
      /\ IsError(line) => d.events = c.events + 1
      /\ ~IsError(line) => d.events = c.events
  <2>1. line \in Lines /\ line.kind # "garbage"
    BY <1>1, <1>2
  <2> HIDE DEF line
  <2>2. QED
    BY <2>1, NotedParts
<1>4. Moved(c, d, a, f)
  BY <1>1, <1>2, NotedCursor
<1> HIDE DEF d
<1>5. \A b \in Ids, g \in Files : Consumed(d, b, g) =
        IF b = a /\ g = f THEN Consumed(c, a, f) \cup {i} ELSE Consumed(c, b, g)
  BY <1>4, OneMoreConsumed
<1>6. \A b \in Ids : \A k, o : Seen(ev, d, b, k, o) <=>
        Seen(ev, c, b, k, o) \/ (b = a /\ line.kind = k /\ line.on = o)
  BY <1>5 DEF Seen
<1>7. \A k, o : SeenEver(ev, d, k, o) <=>
        SeenEver(ev, c, k, o) \/ (line.kind = k /\ line.on = o)
  BY <1>6 DEF SeenEver
<1>8. \A K, o : SeenNow(ev, d, K, o) <=>
        SeenNow(ev, c, K, o) \/ (line.kind \in K /\ line.on = o)
  <2> HIDE DEF line
  <2>1. SUFFICES ASSUME NEW K, NEW o
                 PROVE  SeenNow(ev, d, K, o) <=>
                          SeenNow(ev, c, K, o) \/ (line.kind \in K /\ line.on = o)
    OBVIOUS
  <2>2. \A k : Seen(ev, d, a, k, o) <=> Seen(ev, c, a, k, o) \/ (line.kind = k /\ line.on = o)
    BY <1>6
  <2>3. /\ SeenNow(ev, d, K, o) <=> \E k \in K : Seen(ev, d, a, k, o)
        /\ SeenNow(ev, c, K, o) <=> \E k \in K : Seen(ev, c, a, k, o)
    <3>1. d.attempt = a /\ c.attempt = a /\ a \in Ids
      BY <1>3
    <3>2. SeenNow(ev, d, K, o) <=> \E k \in K : Seen(ev, d, a, k, o)
      BY <3>1 DEF SeenNow
    <3>3. SeenNow(ev, c, K, o) <=> \E k \in K : Seen(ev, c, a, k, o)
      BY <3>1 DEF SeenNow
    <3>4. QED
      BY <3>2, <3>3
  <2>4. QED
    BY <2>1, <2>2, <2>3
<1>9. Sensible(ev, d)
  <2>1. ASSUME NEW b \in Ids, NEW g \in Files
        PROVE  d.cursor[b][g] <= Len(ev[b][g])
    <3>1. d.cursor[b][g] = IF b = a /\ g = f THEN i ELSE c.cursor[b][g]
      BY <1>4 DEF Moved
    <3>2. c.cursor[b][g] <= Len(ev[b][g])
      BY DEF Sound, Sensible
    <3>3. QED
      BY <1>2, <3>1, <3>2
  <2>2. ASSUME NEW b \in Ids, NEW g \in Files, NEW j \in Consumed(d, b, g)
        PROVE  ev[b][g][j].kind # "garbage"
    BY <1>2, <1>5 DEF Sound, Sensible
  <2>3. QED
    BY <2>1, <2>2 DEF Sensible
<1>10. d.events = Cardinality(ErrorsRead(ev, d))
  <2>1. IsError(line) => f = "rclone.jsonl"
    BY <1>1 DEF IsError, LinesOf, Files
  <2>2. c.events = Cardinality(ErrorsRead(ev, c))
    BY DEF Sound
  <2>3. CASE IsError(line)
    <3>1. f = "rclone.jsonl" /\ IsError(ev[a]["rclone.jsonl"][i])
      BY <2>1, <2>3
    <3>2. c.cursor[a]["rclone.jsonl"] \in Nat /\ i = c.cursor[a]["rclone.jsonl"] + 1
      BY <1>2, <3>1
    <3> HIDE DEF i, line
    <3>3. \A b \in Ids : Consumed(d, b, "rclone.jsonl") =
            IF b = a THEN Consumed(c, a, "rclone.jsonl") \cup {i}
                     ELSE Consumed(c, b, "rclone.jsonl")
      BY <1>5, <3>1
    <3>4. ErrorsRead(ev, d) = ErrorsRead(ev, c) \cup {<<a, i>>}
      BY <3>1, <3>3 DEF ErrorsRead
    <3>5. i \notin Consumed(c, a, "rclone.jsonl")
      BY <3>2 DEF Consumed
    <3>6. <<a, i>> \notin ErrorsRead(ev, c)
      BY <3>5 DEF ErrorsRead
    <3>7. IsFiniteSet(ErrorsRead(ev, c))
      BY ErrorsFinite
    <3>8. Cardinality(ErrorsRead(ev, c) \cup {<<a, i>>}) = Cardinality(ErrorsRead(ev, c)) + 1
      BY <3>6, <3>7, FS_AddElement
    <3>9. QED
      BY <1>3, <2>2, <2>3, <3>4, <3>8
  <2>4. CASE ~IsError(line)
    <3>1. "rclone.jsonl" \in Files
      BY DEF Files
    <3>2. ErrorsRead(ev, d) = ErrorsRead(ev, c)
      BY <1>5, <2>4, <3>1 DEF ErrorsRead
    <3>3. QED
      BY <1>3, <2>2, <2>4, <3>2
  <2>5. QED
    BY <2>3, <2>4
<1>11. ASSUME NEW o \in Objects PROVE VerdictFollows(ev, d, o)
  <2>1. VerdictFollows(ev, c, o)
    BY DEF Sound
  <2>2. d.states[o] =
          IF line.on # o \/ line.kind = "error" THEN c.states[o]
          ELSE IF line.kind = "copied" THEN "copied"
          ELSE IF line.kind = "skipped"
               THEN IF c.states[o] \in completed THEN c.states[o] ELSE "skipped"
          ELSE IF c.states[o] \in completed THEN c.states[o] ELSE "failed"
    <3>1. line \in Lines /\ line.kind # "garbage"
      BY <1>1, <1>2
    <3> HIDE DEF line
    <3>2. QED
      BY <3>1, NotedVerdict DEF d
  <2>3. line.kind \in {"copied", "failed", "error", "skipped", "reported"}
    BY <1>1, <1>2 DEF Lines, LinesOf, Files
  <2> HIDE DEF line
  <2>4. CASE line.on # o
    BY <1>7, <1>8, <2>1, <2>2, <2>4 DEF VerdictFollows, completed
  <2>5. CASE line.on = o
    BY <1>7, <1>8, <2>1, <2>2, <2>3, <2>5 DEF VerdictFollows, completed
  <2>6. QED
    BY <2>4, <2>5
<1>12. SeenStranger(ev, d) => d.bad
  <2>1. CASE line.kind # "error" /\ line.on = Stranger
    BY <1>1, <1>2, <2>1, NotedStranger DEF d
  <2>2. CASE line.kind = "error" \/ line.on # Stranger
    <3>1. SeenStranger(ev, d) <=> SeenStranger(ev, c)
      <4> DEFINE K == {"copied", "failed", "skipped", "reported"}
      <4> HIDE DEF line
      <4>1. SeenNow(ev, d, K, Stranger) <=>
              SeenNow(ev, c, K, Stranger) \/ (line.kind \in K /\ line.on = Stranger)
        BY <1>8, Zenon
      <4>2. line.kind \in K /\ line.on = Stranger => FALSE
        BY <2>2
      <4> HIDE DEF K
      <4>3. QED
        BY <4>1, <4>2 DEF SeenStranger, K
    <3>2. QED
      BY <1>3, <3>1 DEF Sound
  <2>3. QED
    BY <2>1, <2>2
<1>13. QED
  BY <1>9, <1>10, <1>11, <1>12 DEF Sound, d

------------------------------------------------------------------------------
(***************************************************************************)
(* The checkpoint in memory and the saved one are sound, whatever the      *)
(* controller, rclone and the host do.                                     *)
(***************************************************************************)
AllSound ==
    /\ Sorted(evidence)
    /\ \A a \in Ids, f \in Files : a > ids => Len(evidence[a][f]) = 0
    /\ Sound(evidence, ledger) /\ Sound(evidence, saved)

LEMMA AllSoundMeans ==
    /\ Positions /\ EventsExact /\ VerdictsFollowEvidence <=> AllSound
    /\ (Positions /\ EventsExact /\ VerdictsFollowEvidence)' <=> AllSound'
<1>1. Positions /\ EventsExact /\ VerdictsFollowEvidence <=> AllSound
  BY DEF Positions, EventsExact, VerdictsFollowEvidence, AllSound, Sorted, Sound
<1>2. (Positions /\ EventsExact /\ VerdictsFollowEvidence)' <=> AllSound'
  BY DEF Positions, EventsExact, VerdictsFollowEvidence, AllSound, Sorted, Sound
<1>3. QED
  BY <1>1, <1>2

LEMMA InitSound == Init => AllSound
<1> SUFFICES ASSUME Init PROVE AllSound
  OBVIOUS
<1>1. \A a \in Ids, f \in Files : evidence[a][f] = <<>>
  BY DEF Init
<1>2. evidence \in AllEvidence
  BY InitType DEF TypeOK, AllEvidence
<1>3. Sorted(evidence) /\ \A a \in Ids, f \in Files : Len(evidence[a][f]) = 0
  BY <1>1 DEF Sorted
<1>4. QED
  BY <1>2, <1>3, NewLedgerSound DEF Init, AllSound

LEMMA FinishedSound ==
    ASSUME NEW ev, NEW c \in Checkpoints, Sound(ev, c)
    PROVE  Sound(ev, Finished(c))
<1> DEFINE d == Finished(c)
<1>1. /\ d.attempt = c.attempt /\ d.cursor = c.cursor /\ d.events = c.events /\ d.bad = c.bad
      /\ \A o \in Objects : d.states[o] =
            IF c.states[o] \in {"pending", "active"} THEN "unknown" ELSE c.states[o]
  BY FinishedParts
<1>2. \A o \in Objects :
        \/ d.states[o] = c.states[o]
        \/ /\ c.states[o] \notin completed \cup {"failed"}
           /\ d.states[o] \in {"active", "pending", "unknown"}
  BY <1>1 DEF completed
<1> HIDE DEF d
<1>3. QED
  BY <1>1, <1>2, UndecidedSound DEF d

LEMMA SampledSound ==
    ASSUME NEW ev, NEW c \in Checkpoints, Sound(ev, c), NEW S \in SUBSET Objects
    PROVE  Sound(ev, Sampled(c, S))
<1> DEFINE d == Sampled(c, S)
<1>1. /\ d.attempt = c.attempt /\ d.cursor = c.cursor /\ d.events = c.events /\ d.bad = c.bad
      /\ \A o \in Objects :
            \/ d.states[o] = c.states[o]
            \/ /\ c.states[o] \notin completed \cup {"failed"}
               /\ d.states[o] \in {"active", "pending", "unknown"}
  BY SampledParts
<1> HIDE DEF d
<1>2. QED
  BY <1>1, UndecidedSound DEF d

LEMMA BadSound ==
    ASSUME NEW ev, NEW c \in Checkpoints, Sound(ev, c)
    PROVE  Sound(ev, [c EXCEPT !.bad = TRUE])
<1> DEFINE d == [c EXCEPT !.bad = TRUE]
<1>1. /\ d.attempt = c.attempt /\ d.cursor = c.cursor /\ d.events = c.events /\ d.bad = TRUE
      /\ d.states = c.states
  BY DEF Checkpoints
<1> HIDE DEF d
<1>2. QED
  BY <1>1, UndecidedSound DEF d

LEMMA NextSound == TypeOK /\ Phases /\ AllSound /\ [Next]_vars => AllSound'
<1> SUFFICES ASSUME TypeOK, Phases, AllSound, [Next]_vars PROVE AllSound'
  OBVIOUS
<1>a. /\ evidence \in AllEvidence /\ ledger \in Checkpoints /\ saved \in Checkpoints
      /\ ids \in Nat /\ MaxAttempts \in Nat
  BY LedgerAssumption DEF TypeOK, AllEvidence
<1>b. Sound(evidence, ledger) /\ Sound(evidence, saved) /\ Sorted(evidence)
      /\ Sound(evidence, NewLedger)
  BY <1>a, NewLedgerSound DEF AllSound
<1>c. Sound(evidence, Finished(ledger))
  BY <1>a, <1>b, FinishedSound
<1>d. ASSUME evidence' = evidence, ids' = ids,
             Sound(evidence, ledger'), Sound(evidence, saved')
      PROVE  AllSound'
  BY <1>b, <1>d DEF AllSound
<1>1. CASE Prepare
  <2>1. ids' = ids + 1 /\ ids + 1 \in Ids
    BY <1>1, <1>a DEF Prepare, Ids
  <2>2. \A f \in Files : Len(evidence[ids + 1][f]) = 0
    BY <1>a, <2>1 DEF AllSound, Ids
  <2>3. Sound(evidence, Begun(saved, ids + 1))
    BY <1>a, <1>b, <2>1, <2>2, BegunSound
  <2>4. saved' \in {saved, Begun(saved, ids + 1)}
    BY <1>1, SaveCases DEF Prepare
  <2>5. ledger' \in {ledger, Begun(saved, ids + 1)} /\ evidence' = evidence
    BY <1>1 DEF Prepare
  <2>6. \A a \in Ids, f \in Files : a > ids + 1 => Len(evidence[a][f]) = 0
    BY <1>a DEF AllSound, Ids
  <2>7. QED
    BY <1>b, <2>1, <2>3, <2>4, <2>5, <2>6 DEF AllSound
<1>2. CASE Launch
  BY <1>2, <1>b, <1>d DEF Launch, controller, files
<1>3. CASE Poll
  <2>1. Sound(evidence, ledger')
    BY <1>3, <1>a, <1>b, SampledSound DEF Poll
  <2>2. QED
    BY <1>3, <1>b, <1>d, <2>1 DEF Poll, files
<1>4. CASE ReadLine
  <2> DEFINE i == ledger.cursor[ids][reading.file] + 1
             line == evidence[ids][reading.file][i]
  <2>1. /\ ids \in Ids /\ ledger.attempt = ids /\ reading.file \in Files
        /\ i \in 1 .. Len(evidence[ids][reading.file])
        /\ \/ line.kind # "garbage" /\ ledger' = Noted(ledger, ids, reading.file, line)
           \/ ledger' = [ledger EXCEPT !.bad = TRUE]
    BY <1>4, ReadLineFacts
  <2>2. CASE ledger' = [ledger EXCEPT !.bad = TRUE]
    <3>1. Sound(evidence, ledger')
      BY <1>a, <1>b, <2>2, BadSound
    <3>2. QED
      BY <1>4, <1>b, <1>d, <3>1 DEF ReadLine, files
  <2>3. CASE line.kind # "garbage" /\ ledger' = Noted(ledger, ids, reading.file, line)
    <3>1. Sound(evidence, ledger')
      BY <1>a, <1>b, <2>1, <2>3, NotedSound
    <3>2. QED
      BY <1>4, <1>b, <1>d, <3>1 DEF ReadLine, files
  <2>4. QED
    BY <2>1, <2>2, <2>3
<1>5. CASE ReadEnd
  <2>1. Sound(evidence, ledger')
    BY <1>5, <1>a, <1>b, BadSound DEF ReadEnd
  <2>2. QED
    BY <1>5, <1>b, <1>d, <2>1 DEF ReadEnd, files
<1>6. CASE Checkpoint
  <2>1. saved' \in {saved, ledger}
    BY <1>6, SaveCases DEF Checkpoint
  <2>2. QED
    BY <1>6, <1>b, <1>d, <2>1 DEF Checkpoint, files
<1>7. CASE Ended
  BY <1>7, <1>b, <1>d DEF Ended, files
<1>8. CASE Finish
  <2>1. saved' \in {saved, Finished(ledger)}
    BY <1>8, SaveCases DEF Finish
  <2>2. QED
    BY <1>8, <1>b, <1>c, <1>d, <2>1 DEF Finish, files
<1>9. CASE StorageFailure
  BY <1>9, <1>b, <1>d DEF StorageFailure, files
<1>10. CASE Crash
  BY <1>10, <1>b, <1>d DEF Crash, Gone, files
<1>11. CASE Recover
  BY <1>11, <1>b, <1>d DEF Recover, files
<1>12. CASE Reclose
  <2>1. saved' \in {saved, Finished(ledger)}
    BY <1>12 DEF Reclose, Saved, NotSaved, Stored
  <2>2. QED
    BY <1>12, <1>b, <1>c, <1>d, <2>1 DEF Reclose, files
<1>13. ASSUME NEW f \in Files, WriteLine(f) PROVE AllSound'
  <2>1. PICK line \in LinesOf(f) : evidence' = [evidence EXCEPT ![ids][f] = Append(@, line)]
    BY <1>13 DEF WriteLine
  <2>2. line \in Lines
    BY <2>1 DEF Lines
  <2>3. ids \in Ids
    BY <1>13, <1>a DEF WriteLine, Phases, Ids, TypeOK
  <2>4. Sound(evidence', ledger) /\ Sound(evidence', saved)
    BY <1>a, <1>b, <2>1, <2>2, <2>3, GrownSound
  <2>5. ledger' = ledger /\ saved' = saved /\ ids' = ids
    BY <1>13 DEF WriteLine, controller
  <2>6. ASSUME NEW a \in Ids, NEW g \in Files
        PROVE  evidence'[a][g] = IF a = ids /\ g = f THEN Append(evidence[a][g], line)
                                 ELSE evidence[a][g]
    BY <1>a, <2>1 DEF AllEvidence
  <2>7. Sorted(evidence')
    <3>1. SUFFICES ASSUME NEW a \in Ids, NEW g \in Files, NEW i \in 1 .. Len(evidence'[a][g])
                   PROVE  evidence'[a][g][i] \in LinesOf(g)
      BY DEF Sorted
    <3>2. evidence[a][g] \in Seq(Lines)
      BY <1>a DEF AllEvidence
    <3>3. \A j \in 1 .. Len(evidence[a][g]) : evidence[a][g][j] \in LinesOf(g)
      BY <1>b DEF Sorted
    <3>4. QED
      BY <2>1, <2>2, <2>6, <3>1, <3>2, <3>3
  <2>8. \A a \in Ids, g \in Files : a > ids => Len(evidence'[a][g]) = 0
    BY <1>a, <2>6 DEF AllSound, Ids
  <2>9. QED
    BY <2>4, <2>5, <2>7, <2>8 DEF AllSound
<1>14. ASSUME NEW f \in Files, HalfLine(f) PROVE AllSound'
  BY <1>14, <1>b, <1>d DEF HalfLine, controller
<1>15. CASE Exit
  BY <1>15, <1>b, <1>d DEF Exit, controller, files
<1>16. CASE HostFailure
  BY <1>16, <1>b, <1>d DEF HostFailure, controller
<1>17. CASE UNCHANGED vars
  BY <1>17, <1>b, <1>d DEF vars, controller, files
<1>18. QED
  BY <1>1, <1>2, <1>3, <1>4, <1>5, <1>6, <1>7, <1>8, <1>9, <1>10, <1>11, <1>12, <1>13,
     <1>14, <1>15, <1>16, <1>17 DEF Next

------------------------------------------------------------------------------
(***************************************************************************)
(* What is completed stays so, in memory, on disk and in the document.     *)
(***************************************************************************)

\* Every operation of the ledger keeps what is completed.
LEMMA KeepsParts ==
    ASSUME NEW c \in Checkpoints
    PROVE  /\ Keeps(c, c)
           /\ \A a \in Nat : Keeps(c, Begun(c, a))
           /\ Keeps(c, Finished(c))
           /\ \A S \in SUBSET Objects : Keeps(c, Sampled(c, S))
           /\ Keeps(c, [c EXCEPT !.bad = TRUE])
<1>1. Keeps(c, c)
  BY DEF Keeps
<1>2. ASSUME NEW a \in Nat PROVE Keeps(c, Begun(c, a))
  <2>1. /\ Begun(c, a).cursor = c.cursor
        /\ \A o \in Done(c) : Begun(c, a).states[o] = c.states[o]
    BY BegunParts DEF Done
  <2>2. QED
    BY <2>1 DEF Keeps, Done
<1>3. Keeps(c, Finished(c))
  BY FinishedParts DEF Keeps, Done, completed
<1>4. ASSUME NEW S \in SUBSET Objects PROVE Keeps(c, Sampled(c, S))
  <2>1. \A o \in Objects : \/ Sampled(c, S).states[o] = c.states[o]
                           \/ c.states[o] \notin completed
    BY SampledParts
  <2>2. QED
    BY <2>1 DEF Keeps, Done
<1>5. Keeps(c, [c EXCEPT !.bad = TRUE])
  BY DEF Keeps, Done, Checkpoints
<1>6. QED
  BY <1>1, <1>2, <1>3, <1>4, <1>5

LEMMA NotedKeeps ==
    ASSUME NEW c \in Checkpoints, NEW a \in Ids, NEW f \in Files,
           NEW line \in Lines, line.kind # "garbage"
    PROVE  Keeps(c, Noted(c, a, f, line))
<1>1. SUFFICES ASSUME NEW o \in Done(c)
               PROVE  Noted(c, a, f, line).states[o] \in {c.states[o], "copied"}
  BY DEF Keeps
<1>2. o \in Objects /\ c.states[o] \in completed
  BY DEF Done
<1>3. Noted(c, a, f, line).states[o] =
        IF line.on # o \/ line.kind = "error" THEN c.states[o]
        ELSE IF line.kind = "copied" THEN "copied"
        ELSE IF line.kind = "skipped"
             THEN IF c.states[o] \in completed THEN c.states[o] ELSE "skipped"
        ELSE IF c.states[o] \in completed THEN c.states[o] ELSE "failed"
  BY <1>2, NotedVerdict
<1>4. QED
  BY <1>2, <1>3

LEMMA KeepsTransitive ==
    ASSUME NEW c, NEW d, NEW e, Keeps(c, d), Keeps(d, e)
    PROVE  Keeps(c, e)
  BY DEF Keeps, Done, completed

\* A checkpoint that keeps another one has completed as many objects.
LEMMA KeepsCount ==
    ASSUME NEW c, NEW d, Keeps(c, d)
    PROVE  Cardinality(Done(c)) <= Cardinality(Done(d))
<1>1. Done(c) \subseteq Done(d)
  BY DEF Keeps, Done, completed
<1>2. QED
  BY <1>1, DoneCount, FS_Subset

LEMMA NextKeeps == TypeOK /\ Phases /\ MemoryAhead /\ [Next]_vars
                     => MemoryAhead' /\ Keeps(saved, saved')
<1> SUFFICES ASSUME TypeOK, Phases, MemoryAhead, [Next]_vars
             PROVE  MemoryAhead' /\ Keeps(saved, saved')
  OBVIOUS
<1>a. ledger \in Checkpoints /\ saved \in Checkpoints /\ ids + 1 \in Nat
  BY LedgerAssumption DEF TypeOK
<1>b. Keeps(saved, saved) /\ Keeps(ledger, ledger) /\ Keeps(ledger, Finished(ledger))
  BY <1>a, KeepsParts
<1>c. ASSUME saved' = saved, Keeps(ledger, ledger'), running' = running,
             reading' # Idle => reading # Idle \/ running
      PROVE  MemoryAhead' /\ Keeps(saved, saved')
  BY <1>b, <1>c, KeepsTransitive DEF MemoryAhead
<1>1. CASE Prepare
  <2> DEFINE c == Begun(saved, ids + 1)
  <2>1. Keeps(saved, c) /\ Keeps(c, c)
    BY <1>a, KeepsParts, BegunType
  <2>2. saved' \in {saved, c} /\ (~fault' => saved' = c)
    BY <1>1, SaveCases DEF Prepare
  <2>3. ~running /\ reading = Idle /\ reading' = reading
    BY <1>1 DEF Prepare, Phases, Healthy
  <2>4. fault' => running' = running
    BY <1>1 DEF Prepare
  <2>5. ~fault' => ledger' = c
    BY <1>1 DEF Prepare
  <2> HIDE DEF c
  <2>6. QED
    BY <1>b, <2>1, <2>2, <2>3, <2>4, <2>5 DEF MemoryAhead
<1>2. CASE Launch
  BY <1>2, <1>b, <1>c DEF Launch, controller
<1>3. CASE Poll
  <2>1. Keeps(ledger, ledger')
    BY <1>3, <1>a, <1>b, KeepsParts DEF Poll
  <2>2. QED
    BY <1>3, <1>c, <2>1 DEF Poll
<1>4. CASE ReadLine
  <2> DEFINE i == ledger.cursor[ids][reading.file] + 1
             line == evidence[ids][reading.file][i]
  <2>1. /\ ids \in Ids /\ reading.file \in Files /\ line \in Lines
        /\ \/ line.kind # "garbage" /\ ledger' = Noted(ledger, ids, reading.file, line)
           \/ ledger' = [ledger EXCEPT !.bad = TRUE]
    BY <1>4, ReadLineFacts
  <2> HIDE DEF line
  <2>2. Keeps(ledger, ledger')
    <3>1. CASE line.kind # "garbage" /\ ledger' = Noted(ledger, ids, reading.file, line)
      BY <1>a, <2>1, <3>1, NotedKeeps
    <3>2. CASE ledger' = [ledger EXCEPT !.bad = TRUE]
      BY <1>a, <3>2, KeepsParts
    <3>3. QED
      BY <2>1, <3>1, <3>2
  <2>3. reading # Idle
    BY <2>1 DEF Idle, Files
  <2>4. QED
    BY <1>4, <1>c, <2>2, <2>3 DEF ReadLine
<1>5. CASE ReadEnd
  <2>1. Keeps(ledger, ledger')
    BY <1>5, <1>a, <1>b, KeepsParts DEF ReadEnd
  <2>2. reading # Idle
    BY <1>5 DEF ReadEnd, Idle, Files
  <2>3. QED
    BY <1>5, <1>c, <2>1, <2>2 DEF ReadEnd
<1>6. CASE Checkpoint
  <2>1. running /\ running' = running /\ ledger' = ledger
    BY <1>6 DEF Checkpoint
  <2>2. saved' \in {saved, ledger}
    BY <1>6, SaveCases DEF Checkpoint
  <2>3. QED
    BY <1>b, <2>1, <2>2 DEF MemoryAhead
<1>7. CASE Ended
  <2>1. CASE fault
    BY <1>7, <1>b, <2>1 DEF Ended, MemoryAhead
  <2>2. CASE ~fault
    BY <1>7, <1>b, <1>c, <2>2 DEF Ended
  <2>3. QED
    BY <2>1, <2>2
<1>8. CASE Finish
  <2>1. saved' \in {saved, Finished(ledger)}
    BY <1>8, SaveCases DEF Finish
  <2>2. running /\ ~running' /\ reading' = Idle
    BY <1>8 DEF Finish
  <2>3. Keeps(saved, Finished(ledger))
    BY <1>b, <2>2, KeepsTransitive DEF MemoryAhead
  <2>4. QED
    BY <1>b, <2>1, <2>2, <2>3 DEF MemoryAhead
<1>9. CASE StorageFailure
  BY <1>9, <1>b, <1>c DEF StorageFailure
<1>10. CASE Crash
  BY <1>10, <1>b DEF Crash, Gone, MemoryAhead
<1>11. CASE Recover
  <2>1. CASE ~doc.open
    BY <1>11, <1>b, <1>c, <2>1 DEF Recover
  <2>2. CASE doc.open
    BY <1>11, <1>b, <2>2 DEF Recover, MemoryAhead
  <2>3. QED
    BY <2>1, <2>2
<1>12. CASE Reclose
  <2>1. saved' \in {saved, Finished(ledger)}
    BY <1>12 DEF Reclose, Saved, NotSaved, Stored
  <2>2. reading # Idle /\ ~running' /\ reading' = Idle
    BY <1>12 DEF Reclose, Idle, Phases
  <2>3. Keeps(saved, Finished(ledger))
    BY <1>b, <2>2, KeepsTransitive DEF MemoryAhead
  <2>4. QED
    BY <1>b, <2>1, <2>2, <2>3 DEF MemoryAhead
<1>13. ASSUME NEW f \in Files, WriteLine(f) PROVE MemoryAhead' /\ Keeps(saved, saved')
  BY <1>13, <1>b, <1>c DEF WriteLine, controller
<1>14. ASSUME NEW f \in Files, HalfLine(f) PROVE MemoryAhead' /\ Keeps(saved, saved')
  BY <1>14, <1>b, <1>c DEF HalfLine, controller
<1>15. CASE Exit
  BY <1>15, <1>b, <1>c DEF Exit, controller
<1>16. CASE HostFailure
  BY <1>16, <1>b, <1>c DEF HostFailure, controller
<1>17. CASE UNCHANGED vars
  BY <1>17, <1>b, <1>c DEF vars, controller
<1>18. QED
  BY <1>1, <1>2, <1>3, <1>4, <1>5, <1>6, <1>7, <1>8, <1>9, <1>10, <1>11, <1>12, <1>13,
     <1>14, <1>15, <1>16, <1>17 DEF Next

\* The writes of a handler never put the document ahead of the checkpoint.
LEMMA SavedAhead ==
    ASSUME TypeOK, DocNeverAhead, Keeps(saved, saved'), NEW c, NEW d,
           d.done = Cardinality(Done(c)), Saved(c, d) \/ NotSaved(c, d)
    PROVE  DocNeverAhead'
<1>1. CASE doc' = doc
  <2>1. doc.done \in Nat
    BY DEF TypeOK, Docs
  <2>2. Cardinality(Done(saved)) <= Cardinality(Done(saved'))
    BY KeepsCount
  <2>3. QED
    BY <1>1, <2>1, <2>2, DoneCount DEF DocNeverAhead
<1>2. CASE doc' = d /\ saved' = c
  BY <1>2, DoneCount DEF DocNeverAhead
<1>3. QED
  BY <1>1, <1>2 DEF Saved, NotSaved, Stored

LEMMA NextAhead == TypeOK /\ DocNeverAhead /\ Keeps(saved, saved') /\ [Next]_vars
                     => DocNeverAhead'
<1> SUFFICES ASSUME TypeOK, DocNeverAhead, Keeps(saved, saved'), [Next]_vars
             PROVE  DocNeverAhead'
  OBVIOUS
<1>a. doc \in Docs
  BY DEF TypeOK
<1>b. ASSUME saved' = saved, doc' = doc PROVE DocNeverAhead'
  BY <1>b DEF DocNeverAhead
<1>1. CASE Prepare
  <2> DEFINE c == Begun(saved, ids + 1)
             d == [doc EXCEPT !.state = "running", !.attempt = ids + 1, !.open = TRUE,
                              !.done = Cardinality(Done(c))]
  <2>1. Save(c, d)
    BY <1>1 DEF Prepare
  <2>2. d.done = Cardinality(Done(c))
    BY <1>a DEF Docs
  <2> HIDE DEF c, d
  <2>3. QED
    BY <2>1, <2>2, SavedAhead DEF Save
<1>2. CASE Checkpoint
  <2> DEFINE d == [doc EXCEPT !.done = Cardinality(Done(ledger))]
  <2>1. Save(ledger, d) \/ (doc' = doc /\ saved' = saved)
    BY <1>2 DEF Checkpoint
  <2>2. d.done = Cardinality(Done(ledger))
    BY <1>a DEF Docs
  <2> HIDE DEF d
  <2>3. QED
    BY <1>b, <2>1, <2>2, SavedAhead DEF Save
<1>3. ASSUME Finish \/ Reclose PROVE DocNeverAhead'
  <2> DEFINE c == Finished(ledger)
  <2>1. PICK st : Save(c, ClosedDoc(c, st)) \/ Saved(c, ClosedDoc(c, st))
                    \/ NotSaved(c, ClosedDoc(c, st))
    BY <1>3 DEF Finish, Reclose
  <2>2. ClosedDoc(c, st).done = Cardinality(Done(c))
    BY <1>a DEF Docs, ClosedDoc
  <2> HIDE DEF c
  <2>3. QED
    BY <2>1, <2>2, SavedAhead DEF Save
<1>4. CASE Launch \/ Poll \/ ReadLine \/ ReadEnd \/ Ended \/ StorageFailure \/ Crash \/ Recover
           \/ Exit \/ HostFailure \/ UNCHANGED vars
  BY <1>4, <1>b DEF Launch, Poll, ReadLine, ReadEnd, Ended, StorageFailure, Crash, Recover,
     Exit, HostFailure, vars
<1>5. ASSUME NEW f \in Files, WriteLine(f) \/ HalfLine(f) PROVE DocNeverAhead'
  BY <1>5, <1>b DEF WriteLine, HalfLine
<1>6. QED
  BY <1>1, <1>2, <1>3, <1>4, <1>5 DEF Next

------------------------------------------------------------------------------
(***************************************************************************)
(* The last Consume reads everything, and what the closed attempt claims.  *)
(***************************************************************************)

LEMMA NextFinalRead == TypeOK /\ Phases /\ FinalRead /\ [Next]_vars => FinalRead'
<1> SUFFICES ASSUME TypeOK, Phases, FinalRead, [Next]_vars PROVE FinalRead'
  OBVIOUS
<1>a. ~Idle.final
  BY DEF Idle
<1>b. ASSUME ~reading'.final PROVE FinalRead'
  BY <1>b DEF FinalRead
<1>c. ASSUME reading' = reading, ledger' = ledger, evidence' = evidence, cut' = cut,
             torn' = torn, ids' = ids
      PROVE  FinalRead'
  BY <1>c DEF FinalRead, Passed, Size
<1>1. CASE Prepare
  BY <1>1, <1>a, <1>b DEF Prepare, Phases, Healthy
<1>2. CASE Poll
  BY <1>2, <1>b DEF Poll
<1>3. CASE ReadLine
  <2> DEFINE f == reading.file
             i == ledger.cursor[ids][f] + 1
             line == evidence[ids][f][i]
  <2>1. /\ ids \in Ids /\ f \in Files /\ line \in Lines
        /\ \/ /\ line.kind # "garbage" /\ ledger' = Noted(ledger, ids, f, line)
              /\ reading' = reading
           \/ ledger' = [ledger EXCEPT !.bad = TRUE]
    BY <1>3, ReadLineFacts
  <2>2. evidence' = evidence /\ cut' = cut /\ torn' = torn /\ ids' = ids
    BY <1>3 DEF ReadLine, files
  <2>3. ledger \in Checkpoints
    BY DEF TypeOK
  <2>4. CASE ledger' = [ledger EXCEPT !.bad = TRUE]
    <3>1. ledger'.bad
      BY <2>3, <2>4 DEF Checkpoints
    <3>2. QED
      BY <3>1 DEF FinalRead
  <2>5. CASE line.kind # "garbage" /\ ledger' = Noted(ledger, ids, f, line) /\ reading' = reading
    <3> HIDE DEF line
    <3>1. Moved(ledger, ledger', ids, f)
      BY <2>1, <2>3, <2>5, NotedCursor
    <3>2. ledger.bad => ledger'.bad
      BY <2>1, <2>3, <2>5, NotedParts
    <3>3. ASSUME NEW g \in Files, Passed(g)
          PROVE  g # f /\ ledger'.cursor[ids][g] = ledger.cursor[ids][g]
      <4>1. g # f
        BY <2>1, <3>3 DEF Passed, Files
      <4>2. QED
        BY <2>1, <3>1, <4>1 DEF Moved
    <3>4. \A g \in Files : (Passed(g)' <=> Passed(g)) /\ Size(g)' = Size(g)
      BY <2>2, <2>5 DEF Passed, Size
    <3>5. QED
      BY <2>2, <2>5, <3>2, <3>3, <3>4 DEF FinalRead
  <2>6. QED
    BY <2>1, <2>4, <2>5
<1>4. CASE ReadEnd
  <2>1. /\ reading.file \in Files /\ evidence' = evidence /\ cut' = cut /\ torn' = torn
        /\ ids' = ids
    BY <1>4 DEF ReadEnd, files
  <2>2. doc.attempt = ids
    BY <2>1 DEF Phases, Idle, Files
  <2>3. \/ ledger' = [ledger EXCEPT !.bad = TRUE]
        \/ /\ Size(reading.file) = ledger.cursor[ids][reading.file] /\ ~Torn(reading.file)
           /\ reading' = [reading EXCEPT !.file = Following(reading.file)]
           /\ ledger' = ledger
    BY <1>4, <2>2 DEF ReadEnd
  <2>4. CASE ledger' = [ledger EXCEPT !.bad = TRUE]
    <3>1. ledger'.bad
      BY <2>4 DEF Checkpoints, TypeOK
    <3>2. QED
      BY <3>1 DEF FinalRead
  <2>5. CASE /\ Size(reading.file) = ledger.cursor[ids][reading.file] /\ ~Torn(reading.file)
             /\ reading' = [reading EXCEPT !.file = Following(reading.file)]
             /\ ledger' = ledger
    <3>1. reading'.file = Following(reading.file) /\ reading'.final = reading.final
      BY <2>5 DEF TypeOK
    <3>2. \A g \in Files : Passed(g)' => Passed(g) \/ g = reading.file
      BY <2>1, <3>1 DEF Passed, Following, Files
    <3>3. \A g \in Files : Size(g)' = Size(g)
      BY <2>1 DEF Size
    <3>4. QED
      BY <2>1, <2>5, <3>1, <3>2, <3>3 DEF FinalRead, Torn
  <2>6. QED
    BY <2>3, <2>4, <2>5
<1>5. CASE Checkpoint \/ Finish \/ Crash \/ Reclose
  BY <1>5, <1>a, <1>b DEF Checkpoint, Finish, Crash, Gone, Reclose
<1>6. ASSUME reading' = [file |-> "rclone.jsonl", final |-> TRUE] PROVE FinalRead'
  BY <1>6 DEF FinalRead, Passed
<1>7. CASE Ended
  BY <1>7, <1>a, <1>b, <1>6 DEF Ended
<1>8. CASE Recover
  BY <1>8, <1>a, <1>b, <1>6 DEF Recover
<1>9. ASSUME NEW f \in Files, WriteLine(f) \/ HalfLine(f) PROVE FinalRead'
  BY <1>9, <1>b DEF WriteLine, HalfLine, controller, Phases
<1>10. CASE HostFailure
  BY <1>10, <1>a, <1>b DEF HostFailure, controller
<1>11. CASE Launch \/ StorageFailure \/ Exit \/ UNCHANGED vars
  BY <1>11, <1>c DEF Launch, StorageFailure, Exit, vars, controller, files
<1>12. QED
  BY <1>1, <1>2, <1>3, <1>4, <1>5, <1>7, <1>8, <1>9, <1>10, <1>11 DEF Next

\* What Finish and Reclose close the attempt with.
LEMMA ClosingFacts ==
    ASSUME TypeOK, Phases, FinalRead, Finish \/ Reclose
    PROVE  /\ doc.open /\ doc.state = "running" /\ doc.attempt = ids /\ ids \in Ids
           /\ ledger.attempt = ids
           /\ evidence' = evidence /\ torn' = torn /\ cut' = cut /\ ids' = ids
           /\ \/ doc' = doc
              \/ saved' = Finished(ledger) /\ doc'.attempt = ids
           /\ ~ledger.bad => \A f \in Files : ledger.cursor[ids][f] = Size(f) /\ f \notin torn
<1>1. reading # Idle /\ reading.file = "end" /\ reading.final
  BY DEF Finish, Reclose, Phases, Healthy, Idle
<1>2. /\ doc.open /\ doc.state = "running" /\ doc.attempt = ids /\ ids \in Ids
      /\ ledger.attempt = ids
  BY <1>1, LedgerAssumption DEF Phases, TypeOK, Ids
<1>3. evidence' = evidence /\ torn' = torn /\ cut' = cut /\ ids' = ids
  BY DEF Finish, Reclose, files
<1>4. doc' = doc \/ (saved' = Finished(ledger) /\ doc'.attempt = ids)
  <2>1. PICK st : \/ Save(Finished(ledger), ClosedDoc(Finished(ledger), st))
                  \/ Saved(Finished(ledger), ClosedDoc(Finished(ledger), st))
                  \/ NotSaved(Finished(ledger), ClosedDoc(Finished(ledger), st))
    BY DEF Finish, Reclose
  <2>2. ClosedDoc(Finished(ledger), st).attempt = ids
    BY <1>2 DEF ClosedDoc, TypeOK, Docs
  <2>3. QED
    BY <2>1, <2>2 DEF Save, Saved, NotSaved, Stored
<1>5. ~ledger.bad => \A f \in Files : ledger.cursor[ids][f] = Size(f) /\ f \notin torn
  BY <1>1 DEF FinalRead, Passed
<1>6. QED
  BY <1>2, <1>3, <1>4, <1>5

\* The document stays open.
LEMMA CheckpointDoc ==
    ASSUME TypeOK, Phases, Checkpoint
    PROVE  doc'.open /\ doc'.state = "running"
<1>1. doc.open /\ doc.state = "running"
  BY DEF Checkpoint, Phases
<1>2. \/ doc' = doc
      \/ doc' = [doc EXCEPT !.done = Cardinality(Done(ledger))]
  BY SaveCases DEF Checkpoint
<1>3. QED
  BY <1>1, <1>2 DEF TypeOK, Docs

\* A new attempt opens the document, or leaves it behind.
LEMMA PrepareDoc ==
    ASSUME TypeOK, Phases, Prepare
    PROVE  /\ doc'.state # "succeeded"
           /\ doc'.open \/ (doc'.attempt < ids' /\ ids' = ids + 1)
<1> DEFINE d == [doc EXCEPT !.state = "running", !.attempt = ids + 1, !.open = TRUE,
                            !.done = Cardinality(Done(Begun(saved, ids + 1)))]
<1>1. doc' = doc \/ doc' = d
  BY SaveCases DEF Prepare
<1>2. d.state = "running" /\ d.open
  BY DEF TypeOK, Docs
<1>3. doc.attempt < ids + 1 /\ ids' = ids + 1 /\ doc.state = "waiting"
  BY LedgerAssumption DEF Prepare, Phases, TypeOK, Docs
<1> HIDE DEF d
<1>4. QED
  BY <1>1, <1>2, <1>3

LEMMA NextSettled == TypeOK /\ Phases /\ FinalRead /\ ClosedIsSettled /\ [Next]_vars
                       => ClosedIsSettled'
<1> SUFFICES ASSUME TypeOK, Phases, FinalRead, ClosedIsSettled, [Next]_vars
             PROVE  ClosedIsSettled'
  OBVIOUS
<1>a. ASSUME doc' = doc, saved' = saved, evidence' = evidence, cut' = cut, ids' = ids
      PROVE  ClosedIsSettled'
  BY <1>a DEF ClosedIsSettled, Size
<1>b. ASSUME doc'.open PROVE ClosedIsSettled'
  BY <1>b DEF ClosedIsSettled
<1>1. CASE Prepare
  <2>1. doc'.open \/ doc'.attempt # ids'
    BY <1>1, PrepareDoc, LedgerAssumption DEF TypeOK
  <2>2. QED
    BY <2>1 DEF ClosedIsSettled
<1>2. CASE Checkpoint
  BY <1>2, <1>b, CheckpointDoc
<1>3. CASE Finish \/ Reclose
  <2>1. ledger \in Checkpoints
    BY DEF TypeOK
  <2>2. CASE doc' = doc
    BY <1>3, <1>b, <2>2, ClosingFacts
  <2>3. CASE saved' = Finished(ledger) /\ doc'.attempt = ids
    <3>1. \A o \in Objects : saved'.states[o] \notin {"pending", "active"}
      BY <2>1, <2>3, FinishedParts
    <3>2. saved'.cursor = ledger.cursor /\ saved'.bad = ledger.bad
      BY <2>1, <2>3, FinishedParts
    <3>3. \A f \in Files : Size(f)' = Size(f)
      BY <1>3, ClosingFacts DEF Size
    <3>4. ~ledger.bad => \A f \in Files : ledger.cursor[ids][f] = Size(f)
      BY <1>3, ClosingFacts
    <3>5. QED
      BY <2>3, <3>1, <3>2, <3>3, <3>4 DEF ClosedIsSettled
  <2>4. QED
    BY <1>3, <2>2, <2>3, ClosingFacts
<1>4. ASSUME NEW f \in Files, WriteLine(f) PROVE ClosedIsSettled'
  BY <1>4, <1>b DEF WriteLine, Phases
<1>5. CASE HostFailure
  BY <1>5, <1>b DEF HostFailure
<1>6. ASSUME NEW f \in Files, HalfLine(f) PROVE ClosedIsSettled'
  BY <1>6, <1>a DEF HalfLine
<1>7. CASE Launch \/ Poll \/ ReadLine \/ ReadEnd \/ Ended \/ StorageFailure \/ Crash \/ Recover
           \/ Exit \/ UNCHANGED vars
  BY <1>7, <1>a DEF Launch, Poll, ReadLine, ReadEnd, Ended, StorageFailure, Crash, Recover,
     Exit, vars, files
<1>8. QED
  BY <1>1, <1>2, <1>3, <1>4, <1>5, <1>6, <1>7 DEF Next

\* Complete is a proof of success when everything has been read.
LEMMA CompleteProves ==
    ASSUME NEW ev, Sorted(ev), NEW c, Sound(ev, c), Complete(c), c.attempt \in Ids,
           \A f \in Files : c.cursor[c.attempt][f] = Len(ev[c.attempt][f])
    PROVE  /\ \A o \in Objects : \E k \in completed : SeenEver(ev, c, k, o)
           /\ \A f \in Files : \A i \in 1 .. Len(ev[c.attempt][f]) :
                /\ i \in Consumed(c, c.attempt, f)
                /\ ev[c.attempt][f][i].on = Stranger => ev[c.attempt][f][i].kind = "error"
<1>1. ASSUME NEW o \in Objects PROVE \E k \in completed : SeenEver(ev, c, k, o)
  <2>1. c.states[o] \in completed
    BY DEF Complete, Done
  <2>2. VerdictFollows(ev, c, o)
    BY DEF Sound
  <2>3. QED
    BY <2>1, <2>2 DEF VerdictFollows, completed
<1>2. ASSUME NEW f \in Files, NEW i \in 1 .. Len(ev[c.attempt][f])
      PROVE  /\ i \in Consumed(c, c.attempt, f)
             /\ ev[c.attempt][f][i].on = Stranger => ev[c.attempt][f][i].kind = "error"
  <2> DEFINE line == ev[c.attempt][f][i]
  <2>1. i \in Consumed(c, c.attempt, f)
    BY DEF Consumed
  <2>2. line \in LinesOf(f) /\ line.kind # "garbage"
    BY <2>1 DEF Sorted, Sound, Sensible
  <2>3. line.kind \in {"copied", "failed", "error", "skipped", "reported"}
    BY <2>2 DEF LinesOf, Files
  <2>4. ~SeenStranger(ev, c)
    BY DEF Sound, Complete
  <2>5. ASSUME line.on = Stranger, line.kind # "error" PROVE FALSE
    <3>1. Seen(ev, c, c.attempt, line.kind, Stranger)
      BY <2>1, <2>5 DEF Seen
    <3> HIDE DEF line
    <3>2. QED
      BY <2>3, <2>4, <2>5, <3>1 DEF SeenStranger, SeenNow
  <2>6. QED
    BY <2>1, <2>5
<1>3. QED
  BY <1>1, <1>2

LEMMA NextSuccess == TypeOK /\ Phases /\ FinalRead /\ AllSound /\ AllSound' /\ SuccessProved
                       /\ [Next]_vars => SuccessProved'
<1> SUFFICES ASSUME TypeOK, Phases, FinalRead, AllSound, AllSound', SuccessProved, [Next]_vars
             PROVE  SuccessProved'
  OBVIOUS
<1>a. ASSUME doc' = doc, saved' = saved, evidence' = evidence, torn' = torn
      PROVE  SuccessProved'
  BY <1>a DEF SuccessProved
<1>b. ASSUME doc'.state # "succeeded" PROVE SuccessProved'
  BY <1>b DEF SuccessProved
<1>1. CASE Prepare
  BY <1>1, <1>b, PrepareDoc
<1>2. CASE Checkpoint
  BY <1>2, <1>b, CheckpointDoc
<1>3. CASE Finish
  <2> DEFINE c == Finished(ledger)
             st == IF rclone.zero /\ Complete(c) THEN "succeeded" ELSE "waiting"
  <2>1. CASE doc' = doc
    BY <1>3, <1>b, <2>1, ClosingFacts
  <2>2. CASE doc' # doc /\ ~Complete(c)
    <3>1. doc' = ClosedDoc(c, "waiting")
      BY <1>3, <2>2, SaveCases DEF Finish
    <3>2. ClosedDoc(c, "waiting").state = "waiting"
      BY DEF ClosedDoc, TypeOK, Docs
    <3>3. QED
      BY <1>b, <3>1, <3>2
  <2>3. CASE doc' # doc /\ Complete(c)
    <3>1. /\ saved' = c /\ doc'.attempt = ids /\ ids \in Ids /\ ledger.attempt = ids
          /\ evidence' = evidence /\ torn' = torn
      BY <1>3, <2>3, ClosingFacts
    <3>2. c.attempt = ledger.attempt /\ c.cursor = ledger.cursor /\ c.bad = ledger.bad
      BY FinishedParts DEF TypeOK
    <3>3. ~ledger.bad
      BY <2>3, <3>2 DEF Complete, TypeOK, Checkpoints
    <3>4. \A f \in Files : ledger.cursor[ids][f] = Size(f) /\ f \notin torn
      BY <1>3, <3>3, ClosingFacts
    <3>5. \A f \in Files : Size(f) = Len(evidence[ids][f])
      <4>1. \A f \in Files : cut[f] = 0
        BY <1>3 DEF Finish, Phases
      <4>2. \A f \in Files : Len(evidence[ids][f]) \in Nat
        <5>1. \A f \in Files : evidence[ids][f] \in Seq(Lines)
          BY <3>1 DEF TypeOK
        <5>2. QED
          BY <5>1
      <4>3. QED
        BY <4>1, <4>2 DEF Size
    <3>6. torn = {}
      BY <3>4 DEF TypeOK
    <3>7. Sound(evidence, c) /\ Sorted(evidence)
      BY <3>1 DEF AllSound
    <3>8. /\ c.attempt = ids
          /\ \A f \in Files : c.cursor[ids][f] = Len(evidence[ids][f])
      BY <3>1, <3>2, <3>4, <3>5
    <3> HIDE DEF c
    <3>9. /\ \A o \in Objects : \E k \in completed : SeenEver(evidence, c, k, o)
          /\ \A f \in Files : \A i \in 1 .. Len(evidence[ids][f]) :
                /\ i \in Consumed(c, ids, f)
                /\ evidence[ids][f][i].on = Stranger => evidence[ids][f][i].kind = "error"
      BY <2>3, <3>1, <3>7, <3>8, CompleteProves
    <3>10. QED
      BY <3>1, <3>6, <3>9 DEF SuccessProved
  <2>4. QED
    BY <2>1, <2>2, <2>3
<1>4. CASE Reclose
  <2> DEFINE d == ClosedDoc(Finished(ledger), "waiting")
  <2>1. d.state = "waiting" /\ doc.state = "running"
    BY <1>4, ClosingFacts DEF ClosedDoc, TypeOK, Docs
  <2>2. doc' \in {doc, d}
    BY <1>4 DEF Reclose, Saved, NotSaved
  <2> HIDE DEF d
  <2>3. QED
    BY <1>b, <2>1, <2>2
<1>5. ASSUME NEW f \in Files, WriteLine(f) \/ HalfLine(f) PROVE SuccessProved'
  BY <1>5, <1>b DEF WriteLine, HalfLine, Phases
<1>6. CASE HostFailure
  BY <1>6, <1>b DEF HostFailure, Phases
<1>7. CASE Launch \/ Poll \/ ReadLine \/ ReadEnd \/ Ended \/ StorageFailure \/ Crash \/ Recover
           \/ Exit \/ UNCHANGED vars
  BY <1>7, <1>a DEF Launch, Poll, ReadLine, ReadEnd, Ended, StorageFailure, Crash, Recover,
     Exit, vars, files
<1>8. QED
  BY <1>1, <1>2, <1>3, <1>4, <1>5, <1>6, <1>7 DEF Next

------------------------------------------------------------------------------
(***************************************************************************)
(* The theorems.                                                           *)
(***************************************************************************)

\* Every reachable state is of its type, and who reads and who writes agree on
\* the attempt.
THEOREM LedgerTypes == Spec => [](TypeOK /\ Phases)
<1>1. Init => TypeOK /\ Phases
  BY InitType, InitPhases
<1>2. TypeOK /\ Phases /\ [Next]_vars => (TypeOK /\ Phases)'
  BY NextType, NextPhases
<1>3. QED
  BY <1>1, <1>2, PTL DEF Spec

IInv == TypeOK /\ Inv

LEMMA InitIInv == Init => IInv
<1> SUFFICES ASSUME Init PROVE IInv
  OBVIOUS
<1>1. TypeOK /\ Phases
  BY InitType, InitPhases
<1>2. Positions /\ EventsExact /\ VerdictsFollowEvidence
  BY InitSound, AllSoundMeans
<1>3. FinalRead /\ MemoryAhead /\ SuccessProved /\ ClosedIsSettled
  BY DEF Init, FinalRead, MemoryAhead, SuccessProved, ClosedIsSettled, Idle
<1>4. DocNeverAhead
  BY DoneCount DEF Init, DocNeverAhead
<1>5. QED
  BY <1>1, <1>2, <1>3, <1>4 DEF IInv, Inv

LEMMA NextIInv == IInv /\ [Next]_vars => IInv' /\ Keeps(saved, saved')
<1> SUFFICES ASSUME IInv, [Next]_vars PROVE IInv' /\ Keeps(saved, saved')
  OBVIOUS
<1>1. /\ TypeOK /\ Phases /\ Positions /\ FinalRead /\ MemoryAhead
      /\ EventsExact /\ VerdictsFollowEvidence
      /\ SuccessProved /\ DocNeverAhead /\ ClosedIsSettled
  BY DEF IInv, Inv
<1>2. AllSound
  BY <1>1, AllSoundMeans
<1>3. TypeOK' /\ Phases'
  BY <1>1, NextType, NextPhases
<1>4. AllSound'
  BY <1>1, <1>2, NextSound
<1>5. Positions' /\ EventsExact' /\ VerdictsFollowEvidence'
  BY <1>4, AllSoundMeans
<1>6. MemoryAhead' /\ Keeps(saved, saved')
  BY <1>1, NextKeeps
<1>7. DocNeverAhead'
  BY <1>1, <1>6, NextAhead
<1>8. FinalRead' /\ ClosedIsSettled'
  BY <1>1, NextFinalRead, NextSettled
<1>9. SuccessProved'
  BY <1>1, <1>2, <1>4, NextSuccess
<1>10. QED
  BY <1>3, <1>5, <1>6, <1>7, <1>8, <1>9 DEF IInv, Inv

\* The inductive invariant: reader, writer, checkpoint, document and evidence
\* agree, for any manifest, any number of attempts and any evidence.
THEOREM LedgerCorrect == Spec => []Inv
<1>1. IInv => Inv
  BY DEF IInv
<1>2. QED
  BY <1>1, InitIInv, NextIInv, PTL DEF Spec

\* Every error line counts exactly once.
THEOREM EventsCounted == Spec => []EventsExact
<1>1. Inv => EventsExact
  BY DEF Inv
<1>2. QED
  BY <1>1, LedgerCorrect, PTL

\* A verdict is the strongest evidence read so far.
THEOREM VerdictsCorrect == Spec => []VerdictsFollowEvidence
<1>1. Inv => VerdictsFollowEvidence
  BY DEF Inv
<1>2. QED
  BY <1>1, LedgerCorrect, PTL

\* Success has evidence for every object and no line that speaks against it.
THEOREM SuccessCorrect == Spec => []SuccessProved
<1>1. Inv => SuccessProved
  BY DEF Inv
<1>2. QED
  BY <1>1, LedgerCorrect, PTL

\* The task document never claims more than the checkpoint on disk.
THEOREM DocBehind == Spec => []DocNeverAhead
<1>1. Inv => DocNeverAhead
  BY DEF Inv
<1>2. QED
  BY <1>1, LedgerCorrect, PTL

\* A closed attempt has no object in flight and no intact line unread.
THEOREM ClosedSettled == Spec => []ClosedIsSettled
<1>1. Inv => ClosedIsSettled
  BY DEF Inv
<1>2. QED
  BY <1>1, LedgerCorrect, PTL

\* A completed object stays completed.
THEOREM CompletedStays == Spec => CompletedKept
<1>1. IInv /\ [Next]_vars => [Keeps(saved, saved')]_vars
  BY NextIInv
<1>2. QED
  BY <1>1, InitIInv, NextIInv, PTL DEF Spec, CompletedKept

------------------------------------------------------------------------------
(***************************************************************************)
(* Ledger implements AttemptContract.                                      *)
(***************************************************************************)
Writing == {a \in {ids} : rclone.st = "live"}

\* What the stage says of the document and the process.
LEMMA StageFacts ==
    ASSUME TypeOK, Phases
    PROVE  /\ Stage = "ready" <=> rclone.st = "ready"
           /\ Stage = "spent" <=> doc.open /\ rclone.st # "ready"
           /\ Stage = "rest" <=> ~doc.open /\ doc.state # "succeeded"
           /\ rclone.st # "none" => doc.open /\ doc.attempt = ids
           /\ doc.open => doc.state = "running"
           /\ Writing # {} => Writing = {ids} /\ rclone.st = "live"
<1>1. rclone.st # "none" => doc.open /\ doc.attempt = ids
  BY DEF Phases, TypeOK
<1>2. doc.open => doc.state = "running"
  BY DEF Phases
<1>3. QED
  BY <1>1, <1>2 DEF Stage, Writing

\* A step that leaves document and process alone is none of the contract's.
LEMMA SameAttempt ==
    ASSUME TypeOK, Phases, ids' = ids, rclone' = rclone,
           doc' = doc \/ (doc' = [doc EXCEPT !.done = doc'.done])
    PROVE  UNCHANGED Transfer!vars
<1>1. doc'.state = doc.state /\ doc'.open = doc.open /\ doc'.attempt = doc.attempt
  BY DEF TypeOK, Docs
<1>2. QED
  BY <1>1 DEF Transfer!vars, Stage

\* What runs ends, and nothing else happens.
LEMMA ProcessEnds ==
    ASSUME TypeOK, Phases, doc' = doc, ids' = ids, rclone'.st \in {"none", "exited"},
           rclone.st = "live"
    PROVE  Transfer!End
<1>1. Stage = "spent" /\ Stage' = "spent"
  BY StageFacts DEF Stage
<1>2. {a \in {ids} : rclone.st = "live"}' = {}
  OBVIOUS
<1>3. QED
  BY <1>1, <1>2 DEF Transfer!End

\* The closing of an attempt, whose process is gone.
LEMMA CloseSettles ==
    ASSUME TypeOK, Phases, FinalRead, Finish \/ Reclose
    PROVE  [Transfer!Next]_(Transfer!vars)
<1>1. reading # Idle /\ reading.file = "end" /\ reading.final
  BY DEF Finish, Reclose, Phases, Healthy, Idle
<1>2. rclone.st \in {"none", "exited"} /\ doc.open /\ doc.state = "running"
  BY <1>1 DEF Phases
<1>3. PICK st \in {"succeeded", "waiting"} : doc' \in {doc, ClosedDoc(Finished(ledger), st)}
  BY SaveCases DEF Finish, Reclose, Saved, NotSaved
<1>4. rclone' = NoProcess \/ rclone' = rclone
  BY DEF Finish, Reclose
<1>5. ids' = ids
  BY DEF Finish, Reclose, files
<1>6. rclone'.st \in {"none", "exited"}
  BY <1>2, <1>4 DEF NoProcess
<1>7. Stage = "spent"
  BY <1>2, StageFacts
<1>8. {a \in {ids} : rclone.st = "live"} = {} /\ {a \in {ids} : rclone.st = "live"}' = {}
  BY <1>2, <1>6
<1>9. CASE doc' = doc
  <2>1. Stage' = "spent"
    BY <1>2, <1>6, <1>9 DEF Stage
  <2>2. QED
    BY <1>7, <1>8, <1>9, <2>1 DEF Transfer!vars
<1>10. CASE doc' = ClosedDoc(Finished(ledger), st)
  <2>1. doc'.state = st /\ doc'.open = FALSE /\ doc'.attempt = doc.attempt
    BY <1>10 DEF ClosedDoc, TypeOK, Docs
  <2>2. Stage' \in {"rest", "done"}
    BY <1>6, <2>1 DEF Stage
  <2>3. Transfer!Settle
    BY <1>7, <1>8, <2>1, <2>2 DEF Transfer!Settle
  <2>4. QED
    BY <2>3 DEF Transfer!Next
<1>11. QED
  BY <1>3, <1>9, <1>10

\* A new attempt follows a closed one.
LEMMA PrepareGrants ==
    ASSUME TypeOK, Phases, Prepare
    PROVE  [Transfer!Next]_(Transfer!vars)
<1> DEFINE d == [doc EXCEPT !.state = "running", !.attempt = ids + 1, !.open = TRUE,
                            !.done = Cardinality(Done(Begun(saved, ids + 1)))]
<1>1. /\ doc' = d \/ (doc' = doc /\ fault')
      /\ ids' = ids + 1
      /\ rclone' = rclone \/ rclone' = [NoProcess EXCEPT !.st = "ready"]
      /\ fault' => rclone' = rclone
  BY SaveCases DEF Prepare
<1>2. doc.state = "waiting" /\ ~doc.open /\ rclone.st = "none"
  BY DEF Prepare, Phases, TypeOK
<1>3. d.state = "running" /\ d.open /\ d.attempt = ids + 1
  BY DEF TypeOK, Docs
<1>4. doc.attempt < ids + 1 /\ ids + 1 \in Nat
  BY LedgerAssumption DEF Phases, TypeOK, Docs
<1>5. Stage = "rest"
  BY <1>2 DEF Stage
<1>6. rclone'.st \in {"none", "ready"}
  BY <1>1, <1>2 DEF NoProcess
<1>7. {a \in {ids} : rclone.st = "live"} = {} /\ {a \in {ids} : rclone.st = "live"}' = {}
  BY <1>2, <1>6
<1> HIDE DEF d
<1>8. CASE doc' = d
  <2>1. Stage' \in {"ready", "spent"}
    BY <1>3, <1>6, <1>8 DEF Stage
  <2>2. Transfer!Grant
    BY <1>3, <1>4, <1>5, <1>7, <1>8, <2>1 DEF Transfer!Grant
  <2>3. QED
    BY <2>2 DEF Transfer!Next
<1>9. CASE doc' = doc /\ fault'
  <2>1. Stage' = "rest"
    BY <1>1, <1>2, <1>9 DEF Stage
  <2>2. QED
    BY <1>5, <1>7, <1>9, <2>1 DEF Transfer!vars
<1>10. QED
  BY <1>1, <1>8, <1>9

LEMMA StepInTurn == TypeOK /\ Phases /\ FinalRead /\ [Next]_vars
                      => [Transfer!Next]_(Transfer!vars)
<1> SUFFICES ASSUME TypeOK, Phases, FinalRead, [Next]_vars
             PROVE  [Transfer!Next]_(Transfer!vars)
  OBVIOUS
<1>1. CASE Prepare
  BY <1>1, PrepareGrants
<1>2. CASE Launch
  <2>1. rclone.st = "ready" /\ doc' = doc /\ ids' = ids
    BY <1>2 DEF Launch, files
  <2>2. doc.open /\ doc.attempt = ids /\ Stage = "ready"
    BY <2>1, StageFacts
  <2>3. doc.state = "running"
    BY <2>2, StageFacts
  <2>4. CASE rclone' = [NoProcess EXCEPT !.st = "live"]
    <3>1. Stage' = "spent"
      BY <2>1, <2>2, <2>3, <2>4 DEF Stage, NoProcess
    <3>2. /\ {a \in {ids} : rclone.st = "live"} = {}
          /\ {a \in {ids} : rclone.st = "live"}' = {doc.attempt}
      BY <2>1, <2>2, <2>4 DEF NoProcess
    <3>3. Transfer!Begin
      BY <2>1, <2>2, <3>1, <3>2 DEF Transfer!Begin
    <3>4. QED
      BY <3>3 DEF Transfer!Next
  <2>5. CASE rclone' = [NoProcess EXCEPT !.st = "exited"]
    <3>1. Stage' = "spent"
      BY <2>1, <2>2, <2>3, <2>5 DEF Stage, NoProcess
    <3>2. /\ {a \in {ids} : rclone.st = "live"} = {}
          /\ {a \in {ids} : rclone.st = "live"}' = {}
      BY <2>1, <2>5 DEF NoProcess
    <3>3. Transfer!Waive
      BY <2>1, <2>2, <3>1, <3>2 DEF Transfer!Waive
    <3>4. QED
      BY <3>3 DEF Transfer!Next
  <2>6. QED
    BY <1>2, <2>4, <2>5 DEF Launch
<1>3. CASE Checkpoint
  <2>1. \/ doc' = doc
        \/ doc' = [doc EXCEPT !.done = Cardinality(Done(ledger))]
    BY <1>3, SaveCases DEF Checkpoint
  <2>2. doc' = doc \/ doc' = [doc EXCEPT !.done = doc'.done]
    BY <2>1 DEF TypeOK, Docs
  <2>3. QED
    BY <1>3, <2>2, SameAttempt DEF Checkpoint, files
<1>4. CASE Finish \/ Reclose
  BY <1>4, CloseSettles
<1>5. CASE Crash \/ Ended
  <2>1. doc' = doc /\ ids' = ids /\ rclone' \in {rclone, NoProcess}
        /\ (rclone.st = "live" => rclone' = rclone)
    BY <1>5 DEF Crash, Ended, files
  <2>2. CASE rclone' = rclone
    BY <2>1, <2>2, SameAttempt
  <2>3. CASE rclone' = NoProcess /\ rclone.st # "live"
    <3>1. /\ {a \in {ids} : rclone.st = "live"} = {}
          /\ {a \in {ids} : rclone.st = "live"}' = {}
      BY <2>3 DEF NoProcess
    <3>2. CASE rclone.st = "ready"
      <4>1. Stage = "ready" /\ doc.open /\ doc.state = "running"
        BY <3>2, StageFacts
      <4>2. Stage' = "spent"
        BY <2>1, <2>3, <4>1 DEF Stage, NoProcess
      <4>3. Transfer!Waive
        BY <2>1, <3>1, <4>1, <4>2 DEF Transfer!Waive
      <4>4. QED
        BY <4>3 DEF Transfer!Next
    <3>3. CASE rclone.st # "ready"
      <4>1. Stage' = Stage
        BY <2>1, <2>3, <3>3 DEF Stage, NoProcess
      <4>2. QED
        BY <2>1, <3>1, <4>1 DEF Transfer!vars
    <3>4. QED
      BY <3>2, <3>3
  <2>4. QED
    BY <2>1, <2>2, <2>3
<1>6. CASE Exit
  <2>1. rclone'.st \in {"none", "exited"} /\ rclone.st = "live" /\ doc' = doc /\ ids' = ids
    BY <1>6 DEF Exit, NoProcess
  <2>2. QED
    BY <2>1, ProcessEnds DEF Transfer!Next
<1>7. CASE HostFailure
  <2>1. doc' = doc /\ ids' = ids /\ rclone' = NoProcess /\ rclone.st \in {"none", "live"}
    BY <1>7 DEF HostFailure, Phases, TypeOK
  <2>2. CASE rclone.st = "live"
    BY <2>1, <2>2, ProcessEnds DEF Transfer!Next, NoProcess
  <2>3. CASE rclone.st = "none"
    <3>1. Stage' = Stage
      BY <2>1, <2>3 DEF Stage, NoProcess
    <3>2. /\ {a \in {ids} : rclone.st = "live"} = {}
          /\ {a \in {ids} : rclone.st = "live"}' = {}
      BY <2>1, <2>3 DEF NoProcess
    <3>3. QED
      BY <2>1, <3>1, <3>2 DEF Transfer!vars
  <2>4. QED
    BY <2>1, <2>2, <2>3
<1>8. ASSUME NEW f \in Files, WriteLine(f) \/ HalfLine(f)
      PROVE  [Transfer!Next]_(Transfer!vars)
  BY <1>8, SameAttempt DEF WriteLine, HalfLine
<1>9. CASE Poll \/ ReadLine \/ ReadEnd \/ StorageFailure \/ Recover \/ UNCHANGED vars
  BY <1>9, SameAttempt DEF Poll, ReadLine, ReadEnd, StorageFailure, Recover, vars, files
<1>10. QED
  BY <1>1, <1>2, <1>3, <1>4, <1>5, <1>6, <1>7, <1>8, <1>9 DEF Next

\* Evidence is written in turn: by the open attempt, and never behind a closed
\* one, over any crash of the controller or of the host.
THEOREM EvidenceInTurn == Spec => AttemptsInTurn
<1>1. Init => Transfer!Init
  BY DEF Init, Transfer!Init, Stage, NoProcess
<1>2. IInv /\ [Next]_vars => [Transfer!Next]_(Transfer!vars)
  BY StepInTurn DEF IInv, Inv
<1>3. QED
  BY <1>1, <1>2, InitIInv, NextIInv, PTL DEF Spec, AttemptsInTurn, Transfer!Spec
==============================================================================
