--------------------------- MODULE ManifestSnapshot ---------------------------
(***************************************************************************)
(* Snapshot and Load: one manifest is inspected and copied to the staging  *)
(* directory while its owner may still write it (internal/manifest), and   *)
(* importWorker decides what became of it (internal/service/import.go).    *)
(*                                                                         *)
(* The owner is external: it edits the file in place, replaces it or       *)
(* removes it between any two steps.  A file has the time of its last      *)
(* edit, by a clock that may stand still over several edits.               *)
(*                                                                         *)
(* A line counts as one byte here: of the size only its comparisons with   *)
(* MaxBytes and with itself matter.  A hash stands for what was hashed.    *)
(*                                                                         *)
(* A definition marked "Mistake" is no part of the model: it is a bug the  *)
(* definition after it could have had.                                     *)
(***************************************************************************)
EXTENDS Naturals, Sequences, FiniteSets

CONSTANTS
    Good,          \* lines that are object names
    Bad,           \* lines that Inspect reports (empty, BOM, NUL, slash, not UTF-8),
                   \* or at which the scanner gives up, because they are too long
    Inodes,
    NoFile,        \* the path names no file
    MaxObjects, MaxBytes,
    MaxLines,      \* bound: length of a file
    MaxEdits,      \* bound: edits by the owner
    MaxClock,      \* bound: ticks of the file clock
    MaxErrors      \* bound: failed reads, and failed steps in the data directory

Lines == Good \cup Bad
Texts == UNION {[1 .. n -> Lines] : n \in 0 .. MaxLines}
Files == [text : Texts, mtime : 0 .. MaxClock]

ASSUME SnapshotAssumption ==
    /\ NoFile \notin Inodes
    /\ Good \cap Bad = {}
    /\ {MaxObjects, MaxBytes, MaxLines, MaxEdits, MaxClock, MaxErrors} \subseteq Nat

VARIABLES
    path,          \* the inode that the manifest's name stands for
    files,         \* inodes
    clock, edits,
    at,            \* where Snapshot stands, or what importWorker made of it
    before,        \* the first Lstat: inode, size and time
    copied,        \* lines copied, and hashed
    objects,       \* len(keys)
    issues,        \* Inspect has found something
    after,         \* f.Stat behind the copy: size and time
    errors,
    storeFailed,   \* history: a step in the data directory failed
    hidden         \* history: an edit since Lstat left the time as it was

owner == <<path, files, clock, edits>>
result == <<before, copied, objects, issues, after>>
history == <<errors, storeFailed, hidden>>
vars == <<owner, at, result, history>>

\* The callback of AtomicWrite runs from "open" on; it has the file open from
\* "inspect" on.  Ends: the copy is published; the batch gets an issue; the
\* service gets a storage fault.
Ends == {"published", "issue", "fault"}
Opened == {"inspect", "copy", "compare"}
Steps == {"lstat", "open", "publish"} \cup Opened \cup Ends

TypeOK ==
    /\ path \in Inodes \cup {NoFile}
    /\ files \in [Inodes -> Files]
    /\ clock \in 0 .. MaxClock /\ edits \in 0 .. MaxEdits
    /\ at \in Steps
    /\ before \in [inode : Inodes \cup {NoFile}, size : Nat, mtime : Nat]
    /\ copied \in Seq(Lines) /\ objects \in Nat /\ issues \in BOOLEAN
    /\ after \in [size : Nat, mtime : Nat]
    /\ errors \in 0 .. MaxErrors /\ storeFailed \in BOOLEAN /\ hidden \in BOOLEAN

Init ==
    /\ path \in Inodes
    /\ \E t \in Texts :
        files = [i \in Inodes |-> [text |-> IF i = path THEN t ELSE <<>>, mtime |-> 0]]
    /\ clock = 0 /\ edits = 0
    /\ at = "lstat"
    /\ before = [inode |-> NoFile, size |-> 0, mtime |-> 0]
    /\ copied = <<>> /\ objects = 0 /\ issues = FALSE
    /\ after = [size |-> 0, mtime |-> 0]
    /\ errors = 0 /\ storeFailed = FALSE /\ hidden = FALSE

------------------------------------------------------------------------------
(* The owner of the manifest. *)

\* Once Snapshot looks at the manifest no more, it does not matter here.
Looking == at \notin Ends \cup {"publish"}
MayEdit == edits < MaxEdits /\ Looking
Edited == edits' = edits + 1

\* One edit in place: a line at the end more or less, or another line.
Edit ==
    /\ MayEdit /\ Edited /\ path # NoFile
    /\ LET f == files[path] IN \E t \in Texts :
        /\ t # f.text
        /\ \/ \E l \in Lines : t = Append(f.text, l)
           \/ f.text # <<>> /\ t = SubSeq(f.text, 1, Len(f.text) - 1)
           \/ \E i \in DOMAIN f.text, l \in Lines : t = [f.text EXCEPT ![i] = l]
        /\ files' = [files EXCEPT ![path] = [text |-> t, mtime |-> clock]]
        /\ hidden' = (hidden \/ (path = before.inode /\ f.mtime = clock))
    /\ UNCHANGED <<path, clock, at, result, errors, storeFailed>>

\* Another file under the name; it may get an inode that is free again.
Replace ==
    /\ MayEdit /\ Edited
    /\ \E i \in Inodes \ {path}, t \in Texts :
        /\ ~(at \in Opened /\ i = before.inode)
        /\ Len(t) <= 1
        /\ path' = i
        /\ files' = [files EXCEPT ![i] = [text |-> t, mtime |-> clock]]
    /\ UNCHANGED <<clock, at, result, history>>

Remove ==
    /\ MayEdit /\ Edited /\ path # NoFile
    /\ path' = NoFile
    /\ UNCHANGED <<files, clock, at, result, history>>

Tick ==
    /\ clock < MaxClock /\ Looking
    /\ clock' = clock + 1
    /\ UNCHANGED <<path, files, edits, at, result, history>>

------------------------------------------------------------------------------
(* Snapshot. *)

Issue == at' = "issue"

Lstat ==
    /\ at = "lstat"
    /\ \/ path = NoFile /\ Issue /\ UNCHANGED before
       \/ /\ path # NoFile
          /\ before' = [inode |-> path, size |-> Len(files[path].text), mtime |-> files[path].mtime]
          /\ at' = IF before'.size > MaxBytes THEN "issue" ELSE "open"
    /\ UNCHANGED <<owner, copied, objects, issues, after, history>>

\* os.Open and SameFile: what was looked at is what will be read.
Open ==
    /\ at = "open"
    /\ at' = IF path = before.inode THEN "inspect" ELSE "issue"
    /\ UNCHANGED <<owner, result, history>>

Source == files[before.inode]

\* LimitedReader: one byte more than allowed can be read, to see that there is one.
Exhausted == Len(copied) = MaxBytes + 1

\* The reader finds no more, for the moment.
AtEnd == Len(copied) >= Len(Source.text) \/ Exhausted
NextLine == Source.text[Len(copied) + 1]

Seen == {copied[i] : i \in DOMAIN copied}

\* Inspect: the scanner reads on, through the tee, and looks at the line.
InspectLine ==
    /\ at = "inspect" /\ ~AtEnd
    /\ copied' = Append(copied, NextLine)
    /\ \E long \in BOOLEAN : LET many == objects + 1 > MaxObjects IN
        /\ long => NextLine \in Bad
        /\ objects' = IF long THEN objects ELSE objects + 1
        /\ issues' = (issues \/ long \/ many \/ NextLine \in Bad \cup Seen)
        /\ at' = IF long \/ many THEN "copy" ELSE "inspect"
    /\ UNCHANGED <<owner, before, after, history>>

InspectEnd ==
    /\ at = "inspect" /\ AtEnd
    /\ issues' = (issues \/ copied = <<>>)
    /\ at' = "copy"
    /\ UNCHANGED <<owner, before, copied, objects, after, history>>

\* Mistake: what Inspect has left is not copied.
InspectedOnly == FALSE

\* io.Copy goes on where Inspect has stopped.
MoreToCopy == ~AtEnd

CopyLine ==
    /\ at = "copy" /\ MoreToCopy
    /\ copied' = Append(copied, NextLine)
    /\ UNCHANGED <<owner, at, before, objects, issues, after, history>>

\* The copy is complete: too long, or f.Stat.
CopyEnd ==
    /\ at = "copy" /\ ~MoreToCopy
    /\ after' = [size |-> Len(Source.text), mtime |-> Source.mtime]
    /\ at' = IF Exhausted THEN "issue" ELSE "compare"
    /\ UNCHANGED <<owner, before, copied, objects, issues, history>>

\* Mistake: it need only be the same file.
SameFile(current) == before.inode = path

\* Mistake: the file that was opened is compared, and not the name.
SameContent(current) == before.size = after.size /\ before.mtime = after.mtime

\* The second Lstat, and the comparisons.
Unchanged(current) ==
    /\ before.inode = path
    /\ before.size = after.size
    /\ before.mtime = after.mtime /\ before.mtime = current.mtime

Compare ==
    /\ at = "compare"
    /\ at' = IF path # NoFile /\ Unchanged(files[path]) THEN "publish" ELSE "issue"
    /\ UNCHANGED <<owner, result, history>>

\* Sync, rename and directory sync of AtomicWrite.
Publish ==
    /\ at = "publish" /\ at' = "published"
    /\ UNCHANGED <<owner, result, history>>

------------------------------------------------------------------------------
(* What fails. *)

MayErr == errors < MaxErrors
CountError == errors' = errors + 1

\* Mistake: a failed write into the tee is an error of the scanner like others.
TakenForReadError == IF at = "inspect" THEN "copy" ELSE "fault"

\* checkedWriter: the scanner's error is a failed write; importWorker sees a
\* WriteError without an InputError.
AfterWriteError == "fault"

\* A step of AtomicWrite in the data directory fails.
StoreFails ==
    /\ MayErr /\ CountError
    /\ at \in {"open", "inspect", "copy", "publish"}
    /\ storeFailed' = TRUE
    /\ at' = AfterWriteError
    /\ issues' = (issues \/ at = "inspect")
    /\ UNCHANGED <<owner, before, copied, objects, after, hidden>>

\* The source cannot be opened or looked at: an InputError.
StatFails ==
    /\ MayErr /\ CountError
    /\ at \in {"lstat", "open", "copy", "compare"}
    /\ Issue
    /\ UNCHANGED <<owner, result, storeFailed, hidden>>

\* The source cannot be read: the scanner gives up; io.Copy returns the error as
\* it is, and AtomicWrite wraps it into a WriteError.
ReadFails ==
    /\ MayErr /\ CountError
    /\ \/ at = "inspect" /\ at' = "copy" /\ issues' = TRUE
       \/ at = "copy" /\ at' = "fault" /\ UNCHANGED issues
    /\ UNCHANGED <<owner, before, copied, objects, after, storeFailed, hidden>>

Next ==
    \/ Edit \/ Replace \/ Remove \/ Tick
    \/ Lstat \/ Open \/ InspectLine \/ InspectEnd \/ CopyLine \/ CopyEnd
    \/ Compare \/ Publish
    \/ StoreFails \/ StatFails \/ ReadFails

Spec == Init /\ [][Next]_vars

------------------------------------------------------------------------------
(* Load, of a snapshot that was published. *)

\* What Inspect makes of a whole text, in one go.
Clean(text) ==
    /\ Len(text) \in 1 .. MaxObjects
    /\ \A i \in DOMAIN text : text[i] \in Good
    /\ \A i, j \in DOMAIN text : text[i] = text[j] => i = j

\* Load returns its keys, as many as the batch document says.
Loads(text, hash, count) ==
    /\ Len(text) <= MaxBytes /\ Clean(text)
    /\ text = hash
    /\ Len(text) = count

------------------------------------------------------------------------------
\* Unless an edit hid behind an unchanged time, a copy that is accepted is,
\* whole, what the name stands for at that moment, whatever its owner did since
\* Inspect looked at the first line (manifest.go:138).
AcceptedIsCurrent ==
    [][at = "compare" /\ at' = "publish" =>
        hidden \/ (path # NoFile /\ copied = files[path].text)]_vars

\* A snapshot without issues is one that Load accepts after any restart, with
\* as many objects; one with issues is not, or could not be read at first: the
\* verdict is of the bytes that were copied (manifest.go:138).
VerdictIsOfTheCopy ==
    at = "published" /\ ~hidden =>
        IF issues THEN errors = 0 => ~Loads(copied, copied, objects)
                  ELSE Loads(copied, copied, objects)

\* When a step in the data directory has failed, the service stops to schedule;
\* it is never taken for a fault of the manifest (recovery_test.go:166).
StoreFailureFaults ==
    storeFailed /\ at \in Ends => at = "fault"

\* A manifest that cannot be read is an issue of its own batch, and the other
\* batches go on (README.md:91; manifest.go:130 has an issue for it).
BadManifestIsAnIssue ==
    at = "fault" => storeFailed
==============================================================================
