----------------------------- MODULE AtomicStore -----------------------------
(***************************************************************************)
(* Store.AtomicWrite, step by step, on one path: internal/store/store.go.  *)
(*                                                                         *)
(* A document is written to a temporary file, the file is synced, renamed  *)
(* over the path, and the directory is synced.  Any step may fail, the     *)
(* process may die between any two, and the whole host may: then a file    *)
(* that was not synced may have lost its content, and a rename whose       *)
(* directory was not synced may never have happened.                       *)
(*                                                                         *)
(* A definition marked "Mistake" is no part of the model: it is a bug the  *)
(* definition after it could have had.                                     *)
(***************************************************************************)
EXTENDS Naturals, Sequences

CONSTANTS
    Docs,        \* the documents
    Torn,        \* a file that holds no whole document
    Writers,     \* the goroutines that write the path
    MaxWrites    \* bound: documents published

VARIABLES
    entries,     \* files the name stands for: on the disk the first, or one after
                 \* it if the kernel came to write the directory; now the last
    writer,      \* where each AtomicWrite stands
    published,   \* documents renamed so far
    promised     \* history: the rank of the latest document confirmed

vars == <<entries, writer, published, promised>>

File == [doc : Docs \cup {Torn}, synced : BOOLEAN, rank : Nat]

\* at: no write; a temporary file; it is written; synced; renamed.
Steps == {"idle", "temp", "written", "synced", "renamed"}
Writes == [at : Steps, want : Docs \cup {Torn}, file : File]

NoFile == [doc |-> Torn, synced |-> FALSE, rank |-> 0]
NoWrite == [at |-> "idle", want |-> Torn, file |-> NoFile]

TypeOK ==
    /\ entries \in Seq(File) /\ entries # <<>>
    /\ writer \in [Writers -> Writes]
    /\ published \in Nat /\ promised \in Nat

Init ==
    /\ \E d \in Docs : entries = <<[doc |-> d, synced |-> TRUE, rank |-> 0]>>
    /\ writer = [w \in Writers |-> NoWrite]
    /\ published = 0 /\ promised = 0

Visible == entries[Len(entries)]

\* Read: one whole document of this format, and nothing behind it.
Readable == Visible.doc # Torn
Read == Visible.doc

------------------------------------------------------------------------------
\* EnsureDir, CreateTemp, Chmod.
Begin(w, d) ==
    /\ writer[w].at = "idle" /\ published < MaxWrites
    /\ writer' = [writer EXCEPT ![w] = [NoWrite EXCEPT !.at = "temp", !.want = d]]
    /\ UNCHANGED <<entries, published, promised>>

\* The caller's function writes the document.
Write(w) ==
    /\ writer[w].at = "temp"
    /\ writer' = [writer EXCEPT ![w].at = "written", ![w].file.doc = writer[w].want]
    /\ UNCHANGED <<entries, published, promised>>

\* Mistake: the file is closed without a sync.
ClosedOnly(f) == f

\* f.Sync, f.Close.
Synced(f) == [f EXCEPT !.synced = TRUE]

Sync(w) ==
    /\ writer[w].at = "written"
    /\ writer' = [writer EXCEPT ![w].at = "synced", ![w].file = Synced(@)]
    /\ UNCHANGED <<entries, published, promised>>

\* os.Rename.
Rename(w) ==
    /\ writer[w].at = "synced"
    /\ LET f == [writer[w].file EXCEPT !.rank = published + 1]
       IN  /\ entries' = Append(entries, f)
           /\ writer' = [writer EXCEPT ![w].at = "renamed", ![w].file = f]
    /\ published' = published + 1
    /\ UNCHANGED promised

\* Mistake: the rename is taken for permanent.
Unsettled == entries

\* SyncDir: what the name stands for now, whoever renamed it.
Settled == <<Visible>>

\* AtomicWrite returns nil.
Confirm(w) ==
    /\ writer[w].at = "renamed"
    /\ entries' = Settled
    /\ promised' = IF writer[w].file.rank > promised THEN writer[w].file.rank ELSE promised
    /\ writer' = [writer EXCEPT ![w] = NoWrite]
    /\ UNCHANGED published

\* A step fails: AtomicWrite returns an error and removes the temporary file,
\* which after the rename is no more.
Fail(w) ==
    /\ writer[w].at # "idle"
    /\ writer' = [writer EXCEPT ![w] = NoWrite]
    /\ UNCHANGED <<entries, published, promised>>

\* The process dies; what it renamed stays visible.
Crash ==
    /\ writer' = [w \in Writers |-> NoWrite]
    /\ UNCHANGED <<entries, published, promised>>

\* What is left of a file.
Remains(f) == IF f.synced THEN {f} ELSE {f, [f EXCEPT !.doc = Torn]}

\* The host fails: some entry is the one on the disk.
HostFailure ==
    /\ \E i \in 1 .. Len(entries) : \E f \in Remains(entries[i]) :
        entries' = <<[f EXCEPT !.synced = TRUE]>>
    /\ writer' = [w \in Writers |-> NoWrite]
    /\ UNCHANGED <<published, promised>>

Step(w) == Write(w) \/ Sync(w) \/ Rename(w) \/ Confirm(w)

Next ==
    \/ \E w \in Writers : (\E d \in Docs : Begin(w, d)) \/ Step(w) \/ Fail(w)
    \/ Crash \/ HostFailure

Spec == Init /\ [][Next]_vars

------------------------------------------------------------------------------
\* The files, read as versions.
Version(f) == [doc |-> f.doc, rank |-> f.rank]

Register == INSTANCE AtomicRegister WITH
    versions <- [i \in DOMAIN entries |-> Version(entries[i])]

\* AtomicWrite implements AtomicRegister: readers never find a document in
\* parts, also after a host failure, and what was confirmed is never undone.
Atomic == Register!Spec

\* A write that was confirmed is found after any failure, or a later one is
\* (the comment at store.go:99 allows doubt only about a failed write).
ConfirmedSurvives ==
    \A i \in DOMAIN entries : entries[i].rank >= promised
==============================================================================
