--------------------------- MODULE AtomicStoreProofs ---------------------------
(***************************************************************************)
(* AtomicStore implements AtomicRegister, for any documents, any number of *)
(* goroutines that write the path at a time, and any number of failures.   *)
(*                                                                         *)
(* The steps of the register need more than the types: every file under    *)
(* the name is whole and synced (Sound), files are renamed in the order of *)
(* their ranks (Ordered), and what is confirmed is what the name stands    *)
(* for now or earlier (Behind).                                            *)
(***************************************************************************)
EXTENDS AtomicStore, SequenceTheorems, TLAPS

\* A file that may stand under the name.
Whole == [doc : Docs, synced : {TRUE}, rank : Nat]

\* A write has put its document into its file, synced it, and renamed it.
Sound ==
    /\ entries \in Seq(Whole) /\ entries # <<>>
    /\ \A w \in Writers :
        /\ writer[w].at # "idle" => writer[w].want \in Docs
        /\ writer[w].at \in {"written", "synced", "renamed"} => writer[w].file.doc \in Docs
        /\ writer[w].at \in {"synced", "renamed"} => writer[w].file.synced = TRUE

\* Later entries have higher ranks, up to the number of renames.
Ordered ==
    /\ \A i, j \in 1 .. Len(entries) : i < j => entries[i].rank < entries[j].rank
    /\ Visible.rank <= published

\* Nothing has been confirmed that is not there.
Behind ==
    /\ \A i \in 1 .. Len(entries) : promised <= entries[i].rank
    /\ \A w \in Writers : writer[w].at = "renamed" => writer[w].file.rank <= Visible.rank

Inv == TypeOK /\ Sound /\ Ordered /\ Behind

------------------------------------------------------------------------------
\* The last entry is one of them.
LEMMA VisibleEntry ==
  ASSUME NEW S, entries \in Seq(S), entries # <<>>
  PROVE  Len(entries) \in Nat \ {0} /\ Len(entries) \in 1 .. Len(entries) /\ Visible \in S
  BY DEF Visible

\* A new path has one document.
LEMMA InitInv == Init => Inv
<1> SUFFICES ASSUME Init PROVE Inv
  OBVIOUS
<1>1. PICK d \in Docs : entries = <<[doc |-> d, synced |-> TRUE, rank |-> 0]>>
  BY DEF Init
<1>2. Len(entries) = 1 /\ entries[1] = [doc |-> d, synced |-> TRUE, rank |-> 0]
      /\ entries # <<>> /\ entries \in Seq(Whole) /\ entries \in Seq(File)
  BY <1>1 DEF Whole, File
<1>3. Sound
  BY <1>2 DEF Init, Sound, NoWrite
<1>4. TypeOK
  BY <1>2 DEF Init, TypeOK, NoWrite, NoFile, Writes, Steps, File
<1>5. Ordered /\ Behind
  BY <1>2 DEF Init, Ordered, Behind, Visible, NoWrite
<1>6. QED BY <1>3, <1>4, <1>5 DEF Inv

------------------------------------------------------------------------------
\* Steps that leave the name alone.
LEMMA PrepareKeepsInv ==
  ASSUME Inv, NEW w \in Writers,
         (\E d \in Docs : Begin(w, d)) \/ Write(w) \/ Sync(w) \/ Fail(w)
  PROVE  Inv'
<1>1. UNCHANGED <<entries, published, promised>>
  BY DEF Begin, Write, Sync, Fail
<1>2. PICK r : writer' = [writer EXCEPT ![w] = r] /\ r \in Writes /\ r.at # "renamed"
               /\ (r.at # "idle" => r.want \in Docs)
               /\ (r.at \in {"written", "synced"} => r.file.doc \in Docs)
               /\ (r.at = "synced" => r.file.synced = TRUE)
  <2>0. writer[w] \in Writes /\ writer \in [Writers -> Writes]
    BY DEF Inv, TypeOK
  <2>1. CASE \E d \in Docs : Begin(w, d)
    <3>1. PICK d \in Docs : Begin(w, d)
      BY <2>1
    <3>2. WITNESS [NoWrite EXCEPT !.at = "temp", !.want = d]
    <3>3. QED BY <3>1 DEF Begin, NoWrite, NoFile, Writes, Steps, File
  <2>2. CASE Write(w)
    <3>1. WITNESS [writer[w] EXCEPT !.at = "written", !.file.doc = writer[w].want]
    <3>2. QED BY <2>0, <2>2 DEF Write, Writes, Steps, File, Inv, Sound
  <2>3. CASE Sync(w)
    <3>1. WITNESS [writer[w] EXCEPT !.at = "synced", !.file = Synced(writer[w].file)]
    <3>2. QED BY <2>0, <2>3 DEF Sync, Synced, Writes, Steps, File, Inv, Sound
  <2>4. CASE Fail(w)
    <3>1. WITNESS NoWrite
    <3>2. QED BY <2>4 DEF Fail, NoWrite, NoFile, Writes, Steps, File
  <2>5. QED BY <2>1, <2>2, <2>3, <2>4
<1>3. TypeOK'
  BY <1>1, <1>2 DEF Inv, TypeOK
<1>4. Sound'
  BY <1>1, <1>2 DEF Inv, TypeOK, Sound
<1>5. Ordered' /\ Behind'
  BY <1>1, <1>2 DEF Inv, TypeOK, Ordered, Behind, Visible
<1>6. QED BY <1>3, <1>4, <1>5 DEF Inv

\* A rename: one more entry, with a rank above all others.
LEMMA RenameKeepsInv ==
  ASSUME Inv, NEW w \in Writers, Rename(w)
  PROVE  /\ Inv'
         /\ \E f \in Whole : entries' = Append(entries, f) /\ f.rank > Visible.rank
<1> DEFINE f == [writer[w].file EXCEPT !.rank = published + 1]
           n == Len(entries)
<1>0. /\ writer[w] \in Writes /\ published + 1 \in Nat
      /\ writer[w].file.doc \in Docs /\ writer[w].file.synced = TRUE
  BY DEF Inv, TypeOK, Sound, Rename
<1>1. f \in Whole /\ f \in File /\ f.rank = published + 1
  BY <1>0 DEF Whole, Writes, File
<1>2. /\ entries' = Append(entries, f) /\ published' = published + 1
      /\ writer' = [writer EXCEPT ![w].at = "renamed", ![w].file = f]
      /\ promised' = promised
  BY DEF Rename
<1>3. n \in Nat \ {0} /\ Visible \in Whole /\ Visible.rank \in Nat
  <2>1. n \in Nat \ {0} /\ Visible \in Whole
    BY VisibleEntry DEF Inv, Sound
  <2>2. QED BY <2>1 DEF Whole
<1>4. /\ Len(entries') = n + 1 /\ entries'[n + 1] = f
      /\ \A i \in 1 .. n : entries'[i] = entries[i]
      /\ entries' \in Seq(Whole) /\ entries' \in Seq(File) /\ entries' # <<>>
  BY <1>1, <1>2, <1>3 DEF Inv, Sound, TypeOK
<1>5. f.rank > Visible.rank
  BY <1>1, <1>3 DEF Inv, Ordered, TypeOK
<1>6. Visible' = f
  BY <1>4 DEF Visible
<1>7. writer' \in [Writers -> Writes]
  BY <1>1, <1>2 DEF Inv, TypeOK, Writes, Steps
<1>8. TypeOK'
  BY <1>2, <1>4, <1>7 DEF Inv, TypeOK
<1>9. Sound'
  <2>1. ASSUME NEW v \in Writers
        PROVE  /\ writer'[v].at # "idle" => writer'[v].want \in Docs
               /\ writer'[v].at \in {"written", "synced", "renamed"} => writer'[v].file.doc \in Docs
               /\ writer'[v].at \in {"synced", "renamed"} => writer'[v].file.synced = TRUE
    <3>1. CASE v = w
      <4>1. writer'[v] = [writer[w] EXCEPT !.at = "renamed", !.file = f]
        BY <3>1, <1>2 DEF Inv, TypeOK
      <4>2. writer'[v].want = writer[w].want /\ writer'[v].file = f
        BY <4>1, <1>0 DEF Writes
      <4>3. QED BY <4>2, <1>0, <1>1 DEF Inv, Sound, Rename, Whole
    <3>2. CASE v # w
      BY <3>2, <1>2 DEF Inv, TypeOK, Sound
    <3>3. QED BY <3>1, <3>2
  <2>2. QED BY <2>1, <1>4 DEF Sound
<1>10. \A i \in 1 .. n : entries[i].rank \in Nat /\ entries[i].rank <= Visible.rank
  <2>1. \A i \in 1 .. n : entries[i] \in Whole
    BY <1>3 DEF Inv, Sound
  <2>2. \A i \in 1 .. n : entries[i].rank \in Nat
    BY <2>1 DEF Whole
  <2>3. QED BY <2>2, <1>3 DEF Inv, Ordered, Visible
<1>11. Ordered'
  <2>1. ASSUME NEW i \in 1 .. n + 1, NEW j \in 1 .. n + 1, i < j
        PROVE  entries'[i].rank < entries'[j].rank
    <3>1. i \in 1 .. n
      BY <2>1, <1>3
    <3>2. CASE j = n + 1
      BY <3>1, <3>2, <1>3, <1>4, <1>5, <1>10, <1>1 DEF Whole
    <3>3. CASE j \in 1 .. n
      BY <3>1, <3>3, <2>1, <1>4 DEF Inv, Ordered
    <3>4. QED BY <3>2, <3>3, <1>3
  <2>2. QED BY <2>1, <1>1, <1>2, <1>4, <1>6 DEF Ordered, Inv, TypeOK
<1>12. Behind'
  <2>1. \A i \in 1 .. n + 1 : promised <= entries'[i].rank
    <3>1. promised <= f.rank
      <4>1. promised <= Visible.rank /\ promised \in Nat
        BY <1>3 DEF Inv, Behind, Visible, TypeOK
      <4>2. f.rank \in Nat
        BY <1>1 DEF Whole
      <4> HIDE DEF f
      <4>3. QED BY <4>1, <4>2, <1>3, <1>5
    <3>2. entries'[n + 1].rank = f.rank
      BY <1>4
    <3>3. \A i \in 1 .. n : entries'[i] = entries[i] /\ promised <= entries[i].rank
      BY <1>4 DEF Inv, Behind
    <3> HIDE DEF f, n
    <3>4. \A i \in 1 .. n + 1 : i = n + 1 \/ i \in 1 .. n
      BY <1>3
    <3>5. QED BY <3>1, <3>2, <3>3, <3>4
  <2>2. ASSUME NEW v \in Writers, writer'[v].at = "renamed"
        PROVE  writer'[v].file.rank <= f.rank
    <3>1. CASE v = w
      BY <3>1, <1>1, <1>2 DEF Inv, TypeOK
    <3>2. CASE v # w
      BY <3>2, <2>2, <1>1, <1>2, <1>3, <1>5 DEF Inv, TypeOK, Behind, Writes, File, Whole
    <3>3. QED BY <3>1, <3>2
  <2>3. QED BY <2>1, <2>2, <1>2, <1>4, <1>6 DEF Behind
<1>13. QED BY <1>1, <1>2, <1>5, <1>8, <1>9, <1>11, <1>12 DEF Inv

------------------------------------------------------------------------------
\* One entry is left, and the writes that go on are as they were.
LEMMA AloneKeepsInv ==
  ASSUME Inv, NEW e \in Whole, entries' = <<e>>, e.rank <= published,
         published' = published, promised' \in Nat, promised' <= e.rank,
         writer' \in [Writers -> Writes],
         \A w \in Writers : writer'[w].at # "idle" => writer'[w] = writer[w],
         \A w \in Writers : writer'[w].at = "renamed" => writer[w].file.rank <= e.rank
  PROVE  Inv'
<1>0. e \in File
  BY DEF Whole, File
<1>1. /\ Len(entries') = 1 /\ entries'[1] = e
      /\ entries' \in Seq(Whole) /\ entries' \in Seq(File) /\ entries' # <<>>
  BY <1>0
<1>2. TypeOK'
  BY <1>1 DEF Inv, TypeOK
<1>3. Sound'
  BY <1>1 DEF Inv, Sound
<1>4. Visible' = e
  BY <1>1 DEF Visible
<1>5. Ordered' /\ Behind'
  BY <1>1, <1>4 DEF Ordered, Behind
<1>6. QED BY <1>2, <1>3, <1>5 DEF Inv

\* No write is under way.
LEMMA NoWriteIsOne == NoWrite \in Writes /\ NoWrite.at = "idle"
  BY DEF NoWrite, NoFile, Writes, Steps, File

\* The directory is synced: the last entry alone remains.
LEMMA ConfirmKeepsInv ==
  ASSUME Inv, NEW w \in Writers, Confirm(w)
  PROVE  /\ Inv'
         /\ entries' = <<Visible>> /\ promised' \in promised .. Visible.rank
<1>1. Visible \in Whole /\ Visible.rank \in Nat
  <2>1. Visible \in Whole
    BY VisibleEntry DEF Inv, Sound
  <2>2. QED BY <2>1 DEF Whole
<1>2. promised \in Nat /\ promised <= Visible.rank
  BY VisibleEntry DEF Inv, Sound, TypeOK, Behind, Visible
<1>3. writer[w].file.rank \in Nat /\ writer[w].file.rank <= Visible.rank
  BY DEF Inv, TypeOK, Behind, Writes, File, Confirm
<1>4. entries' = <<Visible>> /\ promised' \in promised .. Visible.rank
  BY <1>1, <1>2, <1>3 DEF Confirm, Settled
<1>5. /\ writer' \in [Writers -> Writes]
      /\ \A v \in Writers : writer'[v].at # "idle" => writer'[v] = writer[v]
  BY NoWriteIsOne DEF Inv, TypeOK, Confirm
<1>6. \A v \in Writers : writer'[v].at = "renamed" => writer[v].file.rank <= Visible.rank
  BY <1>5 DEF Inv, Behind
<1>7. published' = published /\ Visible.rank <= published
  BY DEF Confirm, Inv, Ordered
<1>8. promised' \in Nat /\ promised' <= Visible.rank
  BY <1>1, <1>2, <1>4
<1>9. QED BY <1>1, <1>4, <1>5, <1>6, <1>7, <1>8, AloneKeepsInv

\* The host fails: one entry is on the disk, and it is whole.
LEMMA HostFailureKeepsInv ==
  ASSUME Inv, HostFailure
  PROVE  Inv' /\ \E i \in 1 .. Len(entries) : entries' = <<entries[i]>>
<1>1. PICK i \in 1 .. Len(entries) : \E f \in Remains(entries[i]) :
        entries' = <<[f EXCEPT !.synced = TRUE]>>
  BY DEF HostFailure
<1> DEFINE e == entries[i]
<1>2. e \in Whole /\ promised <= e.rank
  BY DEF Inv, Sound, Behind
<1>3. e.synced = TRUE /\ [e EXCEPT !.synced = TRUE] = e /\ e.rank \in Nat
  BY <1>2 DEF Whole
<1>4. entries' = <<e>>
  BY <1>1, <1>3 DEF Remains
<1>5. e.rank <= published
  <2>1. Len(entries) \in 1 .. Len(entries) /\ i <= Len(entries) /\ Len(entries) \in Nat
    BY VisibleEntry DEF Inv, TypeOK
  <2>2. CASE i = Len(entries)
    BY <2>2 DEF Inv, Ordered, Visible
  <2>3. CASE i < Len(entries)
    <3>1. Visible \in Whole
      BY VisibleEntry DEF Inv, Sound
    <3>2. Visible.rank \in Nat
      BY <3>1 DEF Whole
    <3>3. e.rank < Visible.rank /\ Visible.rank <= published /\ published \in Nat
      BY <2>1, <2>3 DEF Inv, Ordered, Visible, TypeOK
    <3> HIDE DEF e
    <3>4. QED BY <1>3, <3>2, <3>3
  <2>4. QED BY <2>1, <2>2, <2>3
<1>6. /\ writer' = [w \in Writers |-> NoWrite]
      /\ published' = published /\ promised' = promised /\ promised \in Nat
  BY DEF HostFailure, Inv, TypeOK
<1>7. /\ writer' \in [Writers -> Writes]
      /\ \A w \in Writers : writer'[w].at = "idle"
  BY <1>6, NoWriteIsOne
<1>8. Inv'
  <2> HIDE DEF e
  <2>1. QED BY <1>2, <1>4, <1>5, <1>6, <1>7, AloneKeepsInv
<1>9. QED BY <1>4, <1>8

\* The process dies.
LEMMA CrashKeepsInv ==
  ASSUME Inv, Crash PROVE Inv'
<1>1. /\ writer' \in [Writers -> Writes]
      /\ \A w \in Writers : writer'[w].at = "idle"
      /\ UNCHANGED <<entries, published, promised>>
  BY NoWriteIsOne DEF Crash
<1>2. TypeOK' /\ Sound' /\ Ordered' /\ Behind'
  BY <1>1 DEF Inv, TypeOK, Sound, Ordered, Behind, Visible
<1>3. QED BY <1>2 DEF Inv

------------------------------------------------------------------------------
\* Every step keeps the invariant.
LEMMA StepKeepsInv == Inv /\ [Next]_vars => Inv'
<1> SUFFICES ASSUME Inv, [Next]_vars PROVE Inv'
  OBVIOUS
<1>1. ASSUME NEW w \in Writers, (\E d \in Docs : Begin(w, d)) \/ Write(w) \/ Sync(w) \/ Fail(w)
      PROVE  Inv'
  BY <1>1, PrepareKeepsInv
<1>2. ASSUME NEW w \in Writers, Rename(w) PROVE Inv'
  BY <1>2, RenameKeepsInv
<1>3. ASSUME NEW w \in Writers, Confirm(w) PROVE Inv'
  BY <1>3, ConfirmKeepsInv
<1>4. CASE Crash
  BY <1>4, CrashKeepsInv
<1>5. CASE HostFailure
  BY <1>5, HostFailureKeepsInv
<1>6. CASE UNCHANGED vars
  BY <1>6 DEF vars, Inv, TypeOK, Sound, Ordered, Behind, Visible
<1>7. QED BY <1>1, <1>2, <1>3, <1>4, <1>5, <1>6 DEF Next, Step

\* AtomicWrite keeps its files whole, synced and in order.
THEOREM StoreCorrect == Spec => []Inv
<1>1. QED BY InitInv, StepKeepsInv, PTL DEF Spec

\* After any failure a reader finds the last document that was confirmed, or a
\* later one (store.go:99).
THEOREM ConfirmedFound == Spec => []ConfirmedSurvives
<1>1. Inv => ConfirmedSurvives
  BY DEF Inv, TypeOK, Behind, ConfirmedSurvives, Sound, Whole
<1>2. QED BY <1>1, StoreCorrect, PTL

------------------------------------------------------------------------------
\* The files as versions.
Seen(s) == [i \in DOMAIN s |-> Version(s[i])]

\* They are a sequence, as long as that of the files.
LEMMA SeenSeq ==
  ASSUME NEW s \in Seq(Whole)
  PROVE  /\ Seen(s) \in Seq(Register!Versions) /\ Len(Seen(s)) = Len(s)
         /\ \A i \in 1 .. Len(s) : Seen(s)[i] = Version(s[i])
<1>1. Len(s) \in Nat /\ DOMAIN s = 1 .. Len(s)
  OBVIOUS
<1>2. \A i \in 1 .. Len(s) : Version(s[i]) \in Register!Versions
  <2>1. \A f \in Whole : Version(f) \in Register!Versions
    BY DEF Whole, Version, Register!Versions
  <2>2. \A i \in 1 .. Len(s) : s[i] \in Whole
    OBVIOUS
  <2>3. QED BY <2>1, <2>2
<1>3. Seen(s) \in [1 .. Len(s) -> Register!Versions]
  BY <1>1, <1>2 DEF Seen
<1>4. QED BY <1>1, <1>3 DEF Seen

\* One file is one version.
LEMMA SeenAlone ==
  ASSUME NEW e \in Whole
  PROVE  Seen(<<e>>) = <<Version(e)>>
<1>1. <<e>> \in Seq(Whole) /\ Len(<<e>>) = 1 /\ <<e>>[1] = e
  OBVIOUS
<1> DEFINE s == <<e>>
<1>2. s \in Seq(Whole) /\ Len(s) = 1 /\ s[1] = e
  BY <1>1
<1> HIDE DEF s
<1>3. Seen(s) \in Seq(Register!Versions) /\ Len(Seen(s)) = Len(s)
      /\ \A i \in 1 .. Len(s) : Seen(s)[i] = Version(s[i])
  BY <1>2, SeenSeq
<1>4. Seen(s) \in Seq(Register!Versions) /\ Len(Seen(s)) = 1 /\ Seen(s)[1] = Version(e)
  BY <1>2, <1>3
<1>5. Seen(s) = <<Version(e)>>
  BY <1>4
<1>6. QED BY <1>5 DEF s

\* One more file is one more version.
LEMMA SeenAppend ==
  ASSUME NEW s \in Seq(Whole), NEW f \in Whole
  PROVE  Seen(Append(s, f)) = Append(Seen(s), Version(f))
<1> DEFINE t == Append(s, f)
           n == Len(s)
<1>1. t \in Seq(Whole) /\ Len(t) = n + 1 /\ t[n + 1] = f /\ n \in Nat
      /\ \A i \in 1 .. n : t[i] = s[i]
  OBVIOUS
<1>2. /\ Seen(t) \in Seq(Register!Versions) /\ Len(Seen(t)) = n + 1
      /\ \A i \in 1 .. n + 1 : Seen(t)[i] = Version(t[i])
  BY <1>1, SeenSeq
<1>3. /\ Seen(s) \in Seq(Register!Versions) /\ Len(Seen(s)) = n
      /\ \A i \in 1 .. n : Seen(s)[i] = Version(s[i])
  BY SeenSeq
<1>4. Version(f) \in Register!Versions
  BY DEF Whole, Version, Register!Versions
<1> DEFINE a == Append(Seen(s), Version(f))
<1>5. /\ a \in Seq(Register!Versions) /\ Len(a) = n + 1 /\ a[n + 1] = Version(f)
      /\ \A i \in 1 .. n : a[i] = Seen(s)[i]
  BY <1>3, <1>4
<1> HIDE DEF t, a, n
<1>6. \A i \in 1 .. n + 1 : Seen(t)[i] = a[i]
  <2>1. ASSUME NEW i \in 1 .. n + 1 PROVE Seen(t)[i] = a[i]
    <3>1. CASE i = n + 1
      BY <3>1, <1>1, <1>2, <1>5
    <3>2. CASE i \in 1 .. n
      BY <3>2, <1>1, <1>2, <1>3, <1>5
    <3>3. QED BY <3>1, <3>2, <1>1
  <2>2. QED BY <2>1
<1>7. Seen(t) = a
  BY <1>2, <1>5, <1>6, SeqEqual
<1>8. QED BY <1>7 DEF t, a

\* A new path is a new register.
LEMMA InitRefines == Init => Register!Init
<1> SUFFICES ASSUME Init PROVE Register!Init
  OBVIOUS
<1>1. PICK d \in Docs : entries = <<[doc |-> d, synced |-> TRUE, rank |-> 0]>>
  BY DEF Init
<1>2. [doc |-> d, synced |-> TRUE, rank |-> 0] \in Whole
  BY DEF Whole
<1>3. Seen(entries) = <<[doc |-> d, rank |-> 0]>>
  BY <1>1, <1>2, SeenAlone DEF Version
<1>4. QED BY <1>3 DEF Init, Register!Init, Seen

\* Every step of AtomicWrite is one of the register, or none.
LEMMA StepRefines == Inv /\ [Next]_vars => [Register!Next]_(Register!register)
<1> SUFFICES ASSUME Inv, [Next]_vars PROVE [Register!Next]_(Register!register)
  OBVIOUS
<1>0. /\ entries \in Seq(Whole) /\ Len(entries) \in Nat \ {0} /\ Visible \in Whole
      /\ Len(Seen(entries)) = Len(entries)
      /\ Seen(entries) \in Seq(Register!Versions)
      /\ \A i \in 1 .. Len(entries) : Seen(entries)[i] = Version(entries[i])
      /\ Register!Latest(Seen(entries)) = Version(Visible)
  <2>1. entries \in Seq(Whole) /\ Len(entries) \in Nat \ {0} /\ Visible \in Whole
    BY VisibleEntry DEF Inv, Sound
  <2>2. QED BY <2>1, SeenSeq DEF Register!Latest, Visible
<1>1. CASE UNCHANGED <<entries, promised>>
  BY <1>1 DEF Register!register
<1>2. ASSUME NEW w \in Writers, Rename(w) PROVE Register!Publish
  <2>1. PICK f \in Whole : entries' = Append(entries, f) /\ f.rank > Visible.rank
    BY <1>2, RenameKeepsInv
  <2>2. Seen(entries') = Append(Seen(entries), Version(f))
    BY <2>1, <1>0, SeenAppend
  <2>3. Version(f) \in Register!Versions /\ Version(f).rank > Version(Visible).rank
    BY <2>1 DEF Version, Whole, Register!Versions
  <2>4. Seen(entries') \in Seq(Register!Versions)
        /\ Register!Latest(Seen(entries')) = Version(f)
    BY <1>0, <2>2, <2>3 DEF Register!Latest
  <2>5. promised' = promised
    BY <1>2 DEF Rename
  <2>6. /\ Seen(entries') \in Seq(Register!Versions)
        /\ Seen(entries') = Append(Seen(entries), Register!Latest(Seen(entries')))
        /\ Register!Latest(Seen(entries')).rank > Register!Latest(Seen(entries)).rank
    BY <1>0, <2>2, <2>3, <2>4
  <2>7. QED BY <2>5, <2>6 DEF Register!Publish, Register!Latest, Seen
<1>3. ASSUME NEW w \in Writers, Confirm(w) PROVE Register!Confirm
  <2>1. entries' = <<Visible>> /\ promised' \in promised .. Visible.rank
    BY <1>3, ConfirmKeepsInv
  <2>2. Seen(entries') = <<Register!Latest(Seen(entries))>>
    BY <2>1, <1>0, SeenAlone
  <2>3. Register!Latest(Seen(entries)).rank = Visible.rank
    BY <1>0 DEF Version
  <2>4. promised' \in promised .. Register!Latest(Seen(entries)).rank
    BY <2>1, <2>3
  <2>5. QED BY <2>2, <2>4 DEF Register!Confirm, Register!Latest, Seen
<1>4. CASE HostFailure
  <2>1. PICK i \in 1 .. Len(entries) : entries' = <<entries[i]>>
    BY <1>4, HostFailureKeepsInv
  <2>2. entries[i] \in Whole
    BY <1>0
  <2>3. Seen(entries') = <<Seen(entries)[i]>> /\ i \in 1 .. Len(Seen(entries))
    BY <2>1, <2>2, <1>0, SeenAlone
  <2>4. promised' = promised
    BY <1>4 DEF HostFailure
  <2>5. \E j \in 1 .. Len(Seen(entries)) : Seen(entries') = <<Seen(entries)[j]>>
    BY <2>3
  <2>6. Register!HostFailure
    BY <2>4, <2>5 DEF Register!HostFailure, Seen
  <2>7. QED BY <2>6 DEF Register!Next
<1>5. ASSUME NEW w \in Writers, (\E d \in Docs : Begin(w, d)) \/ Write(w) \/ Sync(w) \/ Fail(w)
      PROVE  UNCHANGED <<entries, promised>>
  BY <1>5 DEF Begin, Write, Sync, Fail
<1>6. CASE Crash \/ UNCHANGED vars
  BY <1>1, <1>6 DEF Crash, vars
<1>7. QED
  BY <1>1, <1>2, <1>3, <1>4, <1>5, <1>6 DEF Next, Step, Register!Next

\* AtomicWrite implements AtomicRegister.
THEOREM StoreIsAtomic == Spec => Atomic
<1>1. QED
  BY InitRefines, StepRefines, StoreCorrect, PTL DEF Spec, Atomic, Register!Spec
==============================================================================
