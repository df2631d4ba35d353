---------------------------- MODULE SnapshotProofs ----------------------------
(***************************************************************************)
(* ManifestSnapshot, for any lines, limits and bounds: a copy is accepted  *)
(* only when it is what the name stands for, its verdict is that of its    *)
(* bytes, and a storage failure is never taken for a bad manifest.         *)
(*                                                                         *)
(* The argument: the time of a file never goes back (Timed), so as long as *)
(* it is the time of the first Lstat and no edit has hidden behind it, the *)
(* copy is a prefix of the file (Copies); and while Inspect reads, what it *)
(* has found is what is wrong with the lines it has copied (Judged).       *)
(***************************************************************************)
EXTENDS ManifestSnapshot, SequenceTheorems, TLAPS

Types ==
    /\ path \in Inodes \cup {NoFile}
    /\ files \in [Inodes -> [text : Seq(Lines), mtime : Nat]]
    /\ clock \in Nat
    /\ before \in [inode : Inodes \cup {NoFile}, size : Nat, mtime : Nat]
    /\ copied \in Seq(Lines) /\ objects \in Nat
    /\ issues \in BOOLEAN /\ errors \in Nat
    /\ storeFailed \in BOOLEAN /\ hidden \in BOOLEAN

\* No file is from the future, and the one looked at is not older than it was.
Timed ==
    /\ \A i \in Inodes : files[i].mtime <= clock
    /\ at \in {"open"} \cup Opened =>
        before.inode \in Inodes /\ before.mtime <= Source.mtime

\* The file has not been edited since the first Lstat.
Steady == hidden = FALSE /\ Source.mtime = before.mtime

Prefix(s, t) == Len(s) <= Len(t) /\ \A i \in 1 .. Len(s) : s[i] = t[i]

Copies ==
    /\ at \in {"lstat", "open"} => copied = <<>> /\ objects = 0 /\ issues = FALSE
    /\ at \in Opened /\ Steady => Prefix(copied, Source.text)
    /\ at = "compare" /\ Steady => copied = Source.text
    /\ at \in {"compare", "publish", "published"} => Len(copied) <= MaxBytes
    /\ Len(copied) <= MaxBytes + 1

\* Nothing is wrong with the lines of s, unless that there are none.
Flawless(s) ==
    /\ Len(s) <= MaxObjects
    /\ \A i \in 1 .. Len(s) : s[i] \in Good
    /\ \A i, j \in 1 .. Len(s) : s[i] = s[j] => i = j

\* The verdict is that of text s.
Verdict(s) ==
    /\ issues = FALSE => Flawless(s) /\ s # <<>> /\ objects = Len(s)
    /\ issues = TRUE /\ errors = 0 => ~Flawless(s) \/ s = <<>>

Judged ==
    /\ at = "inspect" =>
        /\ objects = Len(copied)
        /\ issues = FALSE => Flawless(copied)
        /\ issues = TRUE /\ errors = 0 => ~Flawless(copied)
    /\ at = "copy" /\ Steady =>
        /\ issues = FALSE => Flawless(copied) /\ copied # <<>> /\ objects = Len(copied) /\ AtEnd
        /\ issues = TRUE /\ errors = 0 => ~Flawless(copied) \/ Source.text = <<>>
    /\ at = "compare" /\ Steady => Verdict(copied)
    /\ at \in {"publish", "published"} /\ hidden = FALSE => Verdict(copied)

Blamed == storeFailed = TRUE => at = "fault"

Inv == Types /\ Timed /\ Copies /\ Judged /\ Blamed

------------------------------------------------------------------------------
\* One line more is flawless if it is a new name and there is room for it.
LEMMA FlawlessAppend ==
  ASSUME NEW s \in Seq(Lines), NEW l \in Lines
  PROVE  Flawless(Append(s, l)) <=>
            /\ Flawless(s) /\ Len(s) + 1 <= MaxObjects
            /\ l \in Good /\ l \notin {s[i] : i \in DOMAIN s}
<1> DEFINE t == Append(s, l)
           n == Len(s)
<1>1. n \in Nat /\ DOMAIN s = 1 .. n /\ Len(t) = n + 1 /\ t[n + 1] = l
      /\ \A i \in 1 .. n : t[i] = s[i]
  OBVIOUS
<1>2. MaxObjects \in Nat
  BY SnapshotAssumption
<1> HIDE DEF t
<1>3. ASSUME Flawless(t)
      PROVE  /\ Flawless(s) /\ n + 1 <= MaxObjects
             /\ l \in Good /\ l \notin {s[i] : i \in DOMAIN s}
  <2>1. /\ n + 1 <= MaxObjects /\ \A i \in 1 .. n + 1 : t[i] \in Good
        /\ \A i, j \in 1 .. n + 1 : t[i] = t[j] => i = j
    BY <1>1, <1>3 DEF Flawless
  <2>2. /\ n + 1 \in 1 .. n + 1 /\ \A i \in 1 .. n : i \in 1 .. n + 1 /\ i # n + 1
        /\ n <= MaxObjects
    BY <1>1, <1>2, <2>1
  <2>3. l \in Good /\ \A i \in 1 .. n : s[i] \in Good /\ s[i] # l
    BY <1>1, <2>1, <2>2
  <2>4. \A i, j \in 1 .. n : s[i] = s[j] => i = j
    BY <1>1, <2>1, <2>2
  <2>5. QED BY <1>1, <2>1, <2>2, <2>3, <2>4 DEF Flawless
<1>4. ASSUME Flawless(s), n + 1 <= MaxObjects, l \in Good, l \notin {s[i] : i \in DOMAIN s}
      PROVE  Flawless(t)
  <2>1. \A i \in 1 .. n + 1 : i = n + 1 \/ i \in 1 .. n
    BY <1>1
  <2>2. \A i \in 1 .. n : s[i] \in Good /\ s[i] # l
    BY <1>1, <1>4 DEF Flawless
  <2>3. \A i, j \in 1 .. n : s[i] = s[j] => i = j
    BY <1>4 DEF Flawless
  <2>4. \A i \in 1 .. n + 1 : t[i] \in Good
    BY <1>1, <1>4, <2>1, <2>2
  <2>5. ASSUME NEW i \in 1 .. n + 1, NEW j \in 1 .. n + 1, t[i] = t[j] PROVE i = j
    BY <2>5, <1>1, <2>1, <2>2, <2>3
  <2>6. QED BY <1>1, <1>4, <2>4, <2>5 DEF Flawless
<1>5. QED BY <1>3, <1>4 DEF t

\* What is clean is what is flawless and not empty.
LEMMA CleanIsFlawless ==
  ASSUME NEW s \in Seq(Lines)
  PROVE  Clean(s) <=> Flawless(s) /\ s # <<>>
<1>1. Len(s) \in Nat /\ DOMAIN s = 1 .. Len(s) /\ (s # <<>> <=> Len(s) >= 1)
  OBVIOUS
<1>2. QED BY <1>1, SnapshotAssumption DEF Clean, Flawless

\* The bounded texts are sequences.
LEMMA TextsAreSeqs == \A t \in Texts : t \in Seq(Lines)
<1> SUFFICES ASSUME NEW n \in 0 .. MaxLines, NEW t \in [1 .. n -> Lines] PROVE t \in Seq(Lines)
  BY DEF Texts
<1>1. n \in Nat
  BY SnapshotAssumption
<1>2. QED BY <1>1

\* A prefix that is not the whole goes on with the next line.
LEMMA PrefixAppend ==
  ASSUME NEW s \in Seq(Lines), NEW t \in Seq(Lines), Prefix(s, t), Len(s) < Len(t)
  PROVE  Prefix(Append(s, t[Len(s) + 1]), t) /\ t[Len(s) + 1] \in Lines
<1> DEFINE n == Len(s)
           a == Append(s, t[n + 1])
<1>1. n \in Nat /\ Len(t) \in Nat /\ n + 1 \in 1 .. Len(t)
  OBVIOUS
<1>2. t[n + 1] \in Lines
  BY <1>1
<1>3. Len(a) = n + 1 /\ a[n + 1] = t[n + 1] /\ \A i \in 1 .. n : a[i] = s[i]
  BY <1>1, <1>2
<1> HIDE DEF a
<1>4. \A i \in 1 .. n + 1 : i = n + 1 \/ i \in 1 .. n
  BY <1>1
<1>5. QED BY <1>1, <1>2, <1>3, <1>4 DEF Prefix, a

\* A prefix as long as the whole is the whole.
LEMMA PrefixWhole ==
  ASSUME NEW s \in Seq(Lines), NEW t \in Seq(Lines), Prefix(s, t), Len(s) >= Len(t)
  PROVE  s = t
<1>1. Len(s) = Len(t) /\ Len(s) \in Nat
  BY DEF Prefix
<1>2. QED BY <1>1, SeqEqual DEF Prefix

------------------------------------------------------------------------------
\* A manifest nobody has looked at.
LEMMA InitInv == Init => Inv
<1> SUFFICES ASSUME Init PROVE Inv
  OBVIOUS
<1>0. PICK t \in Texts :
        files = [i \in Inodes |-> [text |-> IF i = path THEN t ELSE <<>>, mtime |-> 0]]
  BY DEF Init
<1>1. Types
  <2>1. t \in Seq(Lines) /\ <<>> \in Seq(Lines)
    BY TextsAreSeqs
  <2>2. files \in [Inodes -> [text : Seq(Lines), mtime : Nat]]
    BY <1>0, <2>1
  <2>3. QED BY <2>1, <2>2 DEF Init, Types
<1>2. Timed /\ Copies /\ Judged /\ Blamed
  BY SnapshotAssumption DEF Init, Timed, Copies, Judged, Blamed, Opened
<1>3. QED BY <1>1, <1>2 DEF Inv

\* The file that is read has a text and a time.
LEMMA SourceTyped ==
  ASSUME Inv, at \in {"open"} \cup Opened
  PROVE  /\ before.inode \in Inodes /\ Source.text \in Seq(Lines)
         /\ Source.mtime \in Nat /\ before.mtime \in Nat
         /\ before.mtime <= Source.mtime /\ Source.mtime <= clock
<1>1. before.inode \in Inodes /\ before.mtime <= Source.mtime
  BY DEF Inv, Timed
<1>2. files[before.inode] \in [text : Seq(Lines), mtime : Nat]
      /\ files[before.inode].mtime <= clock
  BY <1>1 DEF Inv, Types, Timed
<1>3. before.mtime \in Nat
  BY DEF Inv, Types
<1>4. QED BY <1>1, <1>2, <1>3 DEF Source

\* The owner edits: when the time stays as it was, the edit hides.
LEMMA OwnerKeepsInv ==
  ASSUME Inv, Edit \/ Replace \/ Remove \/ Tick
  PROVE  Inv'
<1>1. UNCHANGED <<at, result, errors, storeFailed>> /\ at \notin {"publish", "published"}
  BY DEF Edit, Replace, Remove, Tick, MayEdit, Looking, Ends, history
<1>2. Types' /\ \A i \in Inodes : files'[i].mtime <= clock'
  <2>1. CASE Edit
    <3>1. PICK t \in Texts : files' = [files EXCEPT ![path] = [text |-> t, mtime |-> clock]]
      BY <2>1 DEF Edit
    <3>2. path \in Inodes /\ t \in Seq(Lines) /\ hidden' \in BOOLEAN
          /\ UNCHANGED <<path, clock>>
      BY <2>1, <3>1, TextsAreSeqs DEF Edit, Inv, Types
    <3>3. files' \in [Inodes -> [text : Seq(Lines), mtime : Nat]]
      BY <3>1, <3>2 DEF Inv, Types
    <3>4. \A i \in Inodes : files'[i].mtime <= clock'
      BY <3>1, <3>2 DEF Inv, Types, Timed
    <3>5. QED BY <1>1, <3>2, <3>3, <3>4 DEF Inv, Types, result
  <2>2. CASE Replace
    <3>1. PICK i \in Inodes \ {path}, t \in Texts :
            path' = i /\ files' = [files EXCEPT ![i] = [text |-> t, mtime |-> clock]]
      BY <2>2 DEF Replace
    <3>2. t \in Seq(Lines) /\ UNCHANGED <<hidden, clock>>
      BY <2>2, <3>1, TextsAreSeqs DEF Replace, history
    <3>3. files' \in [Inodes -> [text : Seq(Lines), mtime : Nat]]
      BY <3>1, <3>2 DEF Inv, Types
    <3>4. \A j \in Inodes : files'[j].mtime <= clock'
      BY <3>1, <3>2 DEF Inv, Types, Timed
    <3>5. QED BY <1>1, <3>1, <3>2, <3>3, <3>4 DEF Inv, Types, result
  <2>3. CASE Remove
    BY <2>3 DEF Remove, history, result, Inv, Types, Timed
  <2>4. CASE Tick
    <3>1. clock' = clock + 1 /\ UNCHANGED <<path, files, result, history>> /\ clock \in Nat
      BY <2>4 DEF Tick, Inv, Types
    <3>2. \A i \in Inodes : files[i].mtime \in Nat /\ files[i].mtime <= clock
      BY DEF Inv, Types, Timed
    <3>3. \A i \in Inodes : files[i].mtime <= clock + 1
      BY <3>1, <3>2
    <3>4. QED BY <3>1, <3>3 DEF Inv, Types, result, history
  <2>5. QED BY <2>1, <2>2, <2>3, <2>4
<1>3. ASSUME at \in {"open"} \cup Opened
      PROVE  before.inode \in Inodes /\ before.mtime <= Source'.mtime
  <2>1. before.inode \in Inodes /\ before.mtime <= clock
    BY <1>3, SourceTyped DEF Inv, Types
  <2>2. files'[before.inode] = files[before.inode] \/ files'[before.inode].mtime = clock
    BY <2>1 DEF Edit, Replace, Remove, Tick, Inv, Types
  <2>3. QED BY <1>1, <1>3, <2>1, <2>2, SourceTyped DEF Source, result
<1>4. Timed'
  BY <1>1, <1>2, <1>3 DEF Timed, Source, result, Opened
<1>5. ASSUME at \in Opened, Steady' PROVE Source' = Source /\ Steady
  <2>1. before.inode \in Inodes /\ before.mtime <= Source.mtime /\ Source.mtime <= clock
        /\ before.mtime \in Nat /\ Source.mtime \in Nat /\ before' = before
    BY <1>1, <1>5, SourceTyped DEF result
  <2>2. hidden' = FALSE /\ files'[before.inode].mtime = before.mtime
    BY <1>5, <2>1 DEF Steady, Source
  <2>3. hidden = FALSE
    BY <2>2 DEF Edit, Replace, Remove, Tick, history, Inv, Types
  <2>4. files'[before.inode] = files[before.inode]
    <3>1. CASE Edit
      <4>1. PICK t \in Texts : files' = [files EXCEPT ![path] = [text |-> t, mtime |-> clock]]
        BY <3>1 DEF Edit
      <4>2. CASE path = before.inode
        <5>1. clock = before.mtime
          BY <2>1, <2>2, <4>1, <4>2 DEF Inv, Types
        <5>2. Source.mtime = clock
          BY <2>1, <5>1 DEF Inv, Types
        <5>3. QED BY <3>1, <2>2, <4>2, <5>2 DEF Edit, Source
      <4>3. CASE path # before.inode
        BY <2>1, <4>1, <4>3 DEF Inv, Types
      <4>4. QED BY <4>2, <4>3
    <3>2. CASE Replace
      BY <1>5, <2>1, <3>2 DEF Replace, Inv, Types
    <3>3. CASE Remove \/ Tick
      BY <3>3 DEF Remove, Tick
    <3>4. QED BY <3>1, <3>2, <3>3
  <2>5. QED BY <2>1, <2>2, <2>3, <2>4 DEF Source, Steady
<1>6. Copies'
  BY <1>1, <1>5 DEF Inv, Copies, Opened, result
<1>7. ASSUME at \in {"copy", "compare"}, Steady'
      PROVE  Source' = Source /\ Steady /\ AtEnd' = AtEnd
  BY <1>1, <1>5, <1>7 DEF Opened, AtEnd, Exhausted, result
<1>8. Judged'
  <2>1. at = "inspect" =>
          /\ objects = Len(copied)
          /\ issues = FALSE => Flawless(copied)
          /\ issues = TRUE /\ errors = 0 => ~Flawless(copied)
    BY DEF Inv, Judged
  <2>2. at = "copy" /\ Steady' =>
          /\ issues = FALSE => Flawless(copied) /\ copied # <<>> /\ objects = Len(copied) /\ AtEnd'
          /\ issues = TRUE /\ errors = 0 => ~Flawless(copied) \/ Source'.text = <<>>
    BY <1>7 DEF Inv, Judged
  <2>3. at = "compare" /\ Steady' => Verdict(copied)
    BY <1>7 DEF Inv, Judged
  <2>4. QED BY <1>1, <2>1, <2>2, <2>3 DEF Judged, Verdict, Flawless, result
<1>9. Blamed'
  BY <1>1 DEF Inv, Blamed
<1>10. QED BY <1>2, <1>4, <1>6, <1>8, <1>9 DEF Inv

------------------------------------------------------------------------------
\* Nothing is copied or judged before the manifest is open.
LEMMA OpenKeepsInv ==
  ASSUME Inv, Lstat \/ Open
  PROVE  Inv'
<1>1. /\ UNCHANGED <<owner, copied, objects, issues, history>>
      /\ at \in {"lstat", "open"} /\ at' \in {"open", "inspect", "issue"}
      /\ copied = <<>> /\ objects = 0 /\ issues = FALSE
  BY DEF Lstat, Open, Issue, result, Inv, Copies
<1>2. Types' /\ Timed'
  <2>1. CASE Lstat /\ at' = "open"
    <3>1. /\ path \in Inodes
          /\ before' = [inode |-> path, size |-> Len(files[path].text), mtime |-> files[path].mtime]
      BY <2>1 DEF Lstat, Issue, Inv, Types
    <3>2. files[path] \in [text : Seq(Lines), mtime : Nat]
      BY <3>1 DEF Inv, Types
    <3>3. before' \in [inode : Inodes \cup {NoFile}, size : Nat, mtime : Nat]
          /\ before'.inode = path /\ before'.mtime = files[path].mtime
      BY <3>1, <3>2
    <3>4. Types'
      BY <1>1, <3>3 DEF Inv, Types, owner, history
    <3>5. Timed'
      BY <1>1, <3>1, <3>2, <3>3 DEF Inv, Timed, Source, owner
    <3>6. QED BY <3>4, <3>5
  <2>2. CASE Lstat /\ at' = "issue"
    <3>1. before' = before \/
            /\ path \in Inodes
            /\ before' = [inode |-> path, size |-> Len(files[path].text), mtime |-> files[path].mtime]
      BY <2>2 DEF Lstat, Inv, Types
    <3>2. before' \in [inode : Inodes \cup {NoFile}, size : Nat, mtime : Nat]
      BY <3>1 DEF Inv, Types
    <3>3. Types'
      BY <1>1, <3>2 DEF Inv, Types, owner, history
    <3>4. Timed'
      BY <1>1, <2>2 DEF Inv, Timed, owner, Opened
    <3>5. QED BY <3>3, <3>4
  <2>3. CASE Open
    <3>1. UNCHANGED <<owner, result, history>> /\ at = "open"
      BY <2>3 DEF Open
    <3>2. Types'
      BY <3>1 DEF Inv, Types, owner, result, history
    <3>3. Timed'
      BY <3>1, <1>1 DEF Inv, Timed, Source, owner, result
    <3>4. QED BY <3>2, <3>3
  <2>4. at' \in {"open", "issue"} \/ Open
    BY DEF Lstat, Issue
  <2>5. QED BY <2>1, <2>2, <2>3, <2>4
<1>3. Copies'
  <2>1. ASSUME at' = "inspect" PROVE Prefix(copied', Source'.text)
    <3>1. UNCHANGED <<owner, result>> /\ at = "open"
      BY <2>1 DEF Lstat, Issue, Open
    <3>2. Source.text \in Seq(Lines)
      BY <3>1, SourceTyped
    <3>3. Source' = Source /\ copied' = <<>>
      BY <1>1, <3>1 DEF Source, owner, result
    <3>4. Len(copied') = 0 /\ Len(Source.text) \in Nat
      BY <3>2, <3>3
    <3>5. QED BY <3>3, <3>4 DEF Prefix
  <2>2. Len(copied') = 0 /\ 0 <= MaxBytes + 1
    BY <1>1, SnapshotAssumption
  <2>3. QED BY <1>1, <2>1, <2>2 DEF Copies, Opened
<1>4. Judged'
  <2>1. Len(copied) = 0 /\ Flawless(copied)
    BY <1>1, SnapshotAssumption DEF Flawless
  <2>2. QED BY <1>1, <2>1 DEF Judged, Flawless
<1>5. Blamed'
  BY <1>1 DEF Inv, Blamed, history
<1>6. QED BY <1>2, <1>3, <1>4, <1>5 DEF Inv

------------------------------------------------------------------------------
\* Inspect reads on, until it has seen the end, a long line, or too many.
LEMMA InspectLineKeepsInv ==
  ASSUME Inv, InspectLine
  PROVE  Inv'
<1> DEFINE l == NextLine
           n == Len(copied)
<1>0. /\ at = "inspect" /\ ~AtEnd /\ copied' = Append(copied, l)
      /\ UNCHANGED <<owner, before, after, history>> /\ at' \in {"inspect", "copy"}
  BY DEF InspectLine
<1>1. PICK long \in BOOLEAN :
        /\ long => l \in Bad
        /\ objects' = IF long THEN objects ELSE objects + 1
        /\ issues' = (issues \/ long \/ objects + 1 > MaxObjects \/ l \in Bad \cup Seen)
        /\ at' = IF long \/ objects + 1 > MaxObjects THEN "copy" ELSE "inspect"
  BY DEF InspectLine
<1>2. /\ copied \in Seq(Lines) /\ n \in Nat /\ objects = n /\ issues \in BOOLEAN
      /\ MaxBytes \in Nat /\ MaxObjects \in Nat /\ n <= MaxBytes + 1
  BY <1>0, SnapshotAssumption DEF Inv, Types, Copies, Judged
<1>3. Source.text \in Seq(Lines) /\ n < Len(Source.text) /\ n # MaxBytes + 1
  BY <1>0, <1>2, SourceTyped DEF AtEnd, Exhausted, Opened
<1>4. l \in Lines
  BY <1>2, <1>3 DEF NextLine
<1>5. copied' \in Seq(Lines) /\ Len(copied') = n + 1 /\ n + 1 <= MaxBytes + 1 /\ copied' # <<>>
  BY <1>0, <1>2, <1>3, <1>4
<1>6. UNCHANGED Source /\ (Steady' <=> Steady)
  BY <1>0 DEF owner, Source, Steady, history
<1>7. Types'
  BY <1>0, <1>1, <1>2, <1>5 DEF Inv, Types, owner, history
<1>8. Timed'
  BY <1>0, <1>6 DEF Inv, Timed, owner, Opened
<1>9. Copies'
  <2>1. ASSUME Steady PROVE Prefix(copied', Source.text)
    BY <1>0, <1>2, <1>3, <2>1, PrefixAppend DEF Inv, Copies, Opened, NextLine
  <2>2. QED BY <1>0, <1>5, <1>6, <2>1 DEF Copies, Opened
<1>10. Seen = {copied[i] : i \in DOMAIN copied}
  BY DEF Seen
<1>11. Flawless(copied') <=>
         /\ Flawless(copied) /\ n + 1 <= MaxObjects
         /\ l \in Good /\ l \notin Seen
  BY <1>0, <1>2, <1>4, <1>10, FlawlessAppend
<1>12. l \in Good <=> l \notin Bad
  BY <1>4, SnapshotAssumption DEF Lines
<1>13. /\ issues = FALSE => Flawless(copied)
       /\ issues = TRUE /\ errors = 0 => ~Flawless(copied)
  BY <1>0 DEF Inv, Judged
<1>14. errors' = errors
  BY <1>0 DEF history
<1> HIDE DEF l, n
<1>15. issues' = TRUE /\ errors' = 0 => ~Flawless(copied')
  <2>1. CASE issues = TRUE
    BY <2>1, <1>11, <1>13, <1>14
  <2>2. CASE issues = FALSE
    BY <2>2, <1>1, <1>2, <1>11, <1>12
  <2>3. QED BY <2>1, <2>2, <1>2
<1>16. ASSUME issues' = FALSE
       PROVE  Flawless(copied') /\ at' = "inspect"
  <2>1. ~(issues \/ long \/ objects + 1 > MaxObjects \/ l \in Bad \cup Seen)
    BY <1>16, <1>1, Zenon
  <2>2. issues = FALSE /\ long = FALSE /\ ~(n + 1 > MaxObjects) /\ l \notin Bad /\ l \notin Seen
    BY <2>1, <1>2
  <2>3. n + 1 <= MaxObjects
    BY <2>2, <1>2
  <2>4. at' = "inspect"
    BY <1>1, <1>2, <2>2
  <2>5. QED BY <2>2, <2>3, <2>4, <1>11, <1>12, <1>13
<1>17. at' = "inspect" => objects' = Len(copied')
  BY <1>1, <1>2, <1>5
<1>18. issues' \in BOOLEAN
  BY <1>7 DEF Types
<1>19. Judged'
  BY <1>0, <1>15, <1>16, <1>17, <1>18 DEF Judged, Flawless
<1>20. Blamed'
  BY <1>0 DEF Inv, Blamed, history
<1>21. QED BY <1>7, <1>8, <1>9, <1>19, <1>20 DEF Inv

\* Inspect has seen the end.
LEMMA InspectEndKeepsInv ==
  ASSUME Inv, InspectEnd
  PROVE  Inv'
<1>0. /\ at = "inspect" /\ AtEnd /\ at' = "copy"
      /\ issues' = (issues \/ copied = <<>>)
      /\ UNCHANGED <<owner, before, copied, objects, after, history>>
  BY DEF InspectEnd
<1>1. /\ UNCHANGED Source /\ (Steady' <=> Steady) /\ AtEnd' = AtEnd
      /\ issues \in BOOLEAN /\ issues' \in BOOLEAN
  BY <1>0 DEF owner, Source, Steady, history, AtEnd, Exhausted, Inv, Types
<1>2. Types' /\ Timed'
  BY <1>0, <1>1 DEF Inv, Types, Timed, owner, history, Opened
<1>3. Copies'
  BY <1>0, <1>1 DEF Inv, Copies, Opened
<1>4. copied = <<>> => Source.text = <<>>
  <2>1. Source.text \in Seq(Lines) /\ Len(Source.text) \in Nat /\ MaxBytes \in Nat
    BY <1>0, SourceTyped, SnapshotAssumption DEF Opened
  <2>2. ASSUME copied = <<>> PROVE Len(Source.text) = 0
    <3>1. Len(copied) = 0
      BY <2>2
    <3>2. QED BY <1>0, <2>1, <3>1 DEF AtEnd, Exhausted
  <2>3. QED BY <2>1, <2>2
<1>5. /\ objects = Len(copied)
      /\ issues = FALSE => Flawless(copied)
      /\ issues = TRUE /\ errors = 0 => ~Flawless(copied)
  BY <1>0 DEF Inv, Judged
<1>6. issues' = FALSE => Flawless(copied) /\ copied # <<>> /\ objects = Len(copied) /\ AtEnd
  BY <1>0, <1>1, <1>5
<1>7. issues' = TRUE /\ errors = 0 => ~Flawless(copied) \/ Source.text = <<>>
  BY <1>0, <1>1, <1>4, <1>5
<1>8. Judged'
  BY <1>0, <1>1, <1>6, <1>7 DEF Judged, Flawless, history
<1>9. Blamed'
  BY <1>0 DEF Inv, Blamed, history
<1>10. QED BY <1>2, <1>3, <1>8, <1>9 DEF Inv

\* io.Copy goes on; when the file is steady and Inspect found nothing, there is
\* nothing left to copy.
LEMMA CopyLineKeepsInv ==
  ASSUME Inv, CopyLine
  PROVE  Inv'
<1> DEFINE l == NextLine
           n == Len(copied)
<1>0. /\ at = "copy" /\ ~AtEnd /\ copied' = Append(copied, l)
      /\ UNCHANGED <<owner, at, before, objects, issues, after, history>>
  BY DEF CopyLine, MoreToCopy
<1>1. /\ copied \in Seq(Lines) /\ n \in Nat /\ MaxBytes \in Nat /\ n <= MaxBytes + 1
  BY SnapshotAssumption DEF Inv, Types, Copies
<1>2. Source.text \in Seq(Lines) /\ n < Len(Source.text) /\ n # MaxBytes + 1
  BY <1>0, <1>1, SourceTyped DEF AtEnd, Exhausted, Opened
<1>3. l \in Lines
  BY <1>1, <1>2 DEF NextLine
<1>4. copied' \in Seq(Lines) /\ Len(copied') = n + 1 /\ n + 1 <= MaxBytes + 1
  BY <1>0, <1>1, <1>2, <1>3
<1>5. UNCHANGED Source /\ (Steady' <=> Steady)
  BY <1>0 DEF owner, Source, Steady, history
<1>6. Types' /\ Timed'
  BY <1>0, <1>4, <1>5 DEF Inv, Types, Timed, owner, history, Opened
<1>7. Copies'
  <2>1. ASSUME Steady PROVE Prefix(copied', Source.text)
    BY <1>0, <1>1, <1>2, <2>1, PrefixAppend DEF Inv, Copies, Opened, NextLine
  <2>2. QED BY <1>0, <1>4, <1>5, <2>1 DEF Copies, Opened
<1>8. ASSUME Steady PROVE issues = TRUE /\ (errors = 0 => ~Flawless(copied'))
  <2>1. issues = TRUE
    BY <1>0, <1>8 DEF Inv, Judged, Types
  <2>2. Source.text # <<>>
    BY <1>1, <1>2
  <2>3. errors = 0 => ~Flawless(copied)
    BY <1>0, <1>8, <2>1, <2>2 DEF Inv, Judged
  <2>4. QED BY <1>0, <1>1, <1>3, <2>1, <2>3, FlawlessAppend
<1>9. Judged'
  BY <1>0, <1>5, <1>8 DEF Judged, Flawless, history
<1>10. Blamed'
  BY <1>0 DEF Inv, Blamed, history
<1>11. QED BY <1>6, <1>7, <1>9, <1>10 DEF Inv

\* The copy is complete.
LEMMA CopyEndKeepsInv ==
  ASSUME Inv, CopyEnd
  PROVE  Inv'
<1>0. /\ at = "copy" /\ AtEnd /\ at' = IF Exhausted THEN "issue" ELSE "compare"
      /\ UNCHANGED <<owner, before, copied, objects, issues, history>>
  BY DEF CopyEnd, MoreToCopy
<1>1. UNCHANGED Source /\ (Steady' <=> Steady)
  BY <1>0 DEF owner, Source, Steady, history
<1>2. Types' /\ Timed'
  BY <1>0, <1>1 DEF Inv, Types, Timed, owner, history, Opened
<1>3. /\ copied \in Seq(Lines) /\ Source.text \in Seq(Lines) /\ Len(copied) \in Nat
      /\ MaxBytes \in Nat /\ Len(copied) <= MaxBytes + 1
  BY <1>0, SourceTyped, SnapshotAssumption DEF Inv, Types, Copies, Opened
<1>4. ASSUME at' = "compare"
      PROVE  Len(copied) <= MaxBytes /\ Len(copied) >= Len(Source.text)
  BY <1>0, <1>3, <1>4 DEF AtEnd, Exhausted
<1>5. ASSUME at' = "compare", Steady PROVE copied = Source.text /\ Prefix(copied, Source.text)
  <2>1. Prefix(copied, Source.text)
    BY <1>0, <1>5 DEF Inv, Copies, Opened
  <2>2. QED BY <1>3, <1>4, <1>5, <2>1, PrefixWhole
<1>6. Copies'
  BY <1>0, <1>1, <1>3, <1>4, <1>5 DEF Copies, Opened
<1>7. ASSUME at' = "compare", Steady PROVE Verdict(copied)
  BY <1>0, <1>5, <1>7 DEF Inv, Judged, Verdict
<1>8. Judged'
  BY <1>0, <1>1, <1>7 DEF Judged, Verdict, Flawless, history
<1>9. Blamed'
  BY <1>0 DEF Inv, Blamed, history
<1>10. QED BY <1>2, <1>6, <1>8, <1>9 DEF Inv

\* A copy that is accepted is of a steady file.
LEMMA CompareAccepts ==
  ASSUME Inv, Compare, at' = "publish", hidden = FALSE
  PROVE  Steady /\ path # NoFile /\ Source = files[path] /\ copied = files[path].text
<1>1. at = "compare" /\ path # NoFile /\ Unchanged(files[path])
  BY DEF Compare
<1>2. Steady /\ Source = files[path]
  BY <1>1 DEF Unchanged, Steady, Source
<1>3. QED BY <1>1, <1>2 DEF Inv, Copies

\* The comparison and the publication.
LEMMA PublishKeepsInv ==
  ASSUME Inv, Compare \/ Publish
  PROVE  Inv'
<1>0. /\ UNCHANGED <<owner, result, history>>
      /\ at \in {"compare", "publish"} /\ at' \in {"publish", "issue", "published"}
      /\ at' = "published" => at = "publish"
      /\ at' = "publish" => Compare
  BY DEF Compare, Publish
<1>1. Types'
  BY <1>0 DEF Inv, Types, owner, result, history
<1>2. Timed'
  BY <1>0 DEF Inv, Timed, owner, Opened
<1>3. Copies'
  BY <1>0 DEF Inv, Copies, Opened, result
<1>4. ASSUME at' \in {"publish", "published"}, hidden = FALSE PROVE Verdict(copied)
  <2>1. CASE at' = "publish"
    <3>1. Steady /\ at = "compare"
      BY <1>0, <1>4, <2>1, CompareAccepts DEF Compare
    <3>2. QED BY <3>1 DEF Inv, Judged
  <2>2. CASE at' = "published"
    BY <1>0, <1>4, <2>2 DEF Inv, Judged
  <2>3. QED BY <1>4, <2>1, <2>2
<1>5. Judged'
  BY <1>0, <1>4 DEF Judged, Verdict, Flawless, result, history
<1>6. Blamed'
  BY <1>0 DEF Inv, Blamed, history
<1>7. QED BY <1>1, <1>2, <1>3, <1>5, <1>6 DEF Inv

\* A failed step or read.
LEMMA FailureKeepsInv ==
  ASSUME Inv, StoreFails \/ StatFails \/ ReadFails
  PROVE  Inv'
<1>0. /\ UNCHANGED <<owner, before, copied, objects, hidden>> /\ errors' = errors + 1
      /\ errors \in Nat /\ issues' \in BOOLEAN /\ storeFailed' \in BOOLEAN
      /\ at \notin {"fault"}
  BY DEF StoreFails, StatFails, ReadFails, CountError, result, Inv, Types
<1>1. \/ at' \in {"issue", "fault"}
      \/ at = "inspect" /\ at' = "copy" /\ issues' = TRUE
  BY DEF StoreFails, StatFails, ReadFails, AfterWriteError, Issue
<1>2. UNCHANGED Source /\ (Steady' <=> Steady) /\ errors' # 0
  BY <1>0 DEF owner, Source, Steady
<1>3. Types'
  BY <1>0 DEF Inv, Types, owner
<1>4. Timed'
  BY <1>0, <1>1, <1>2 DEF Inv, Timed, owner, Opened
<1>5. Copies'
  BY <1>0, <1>1, <1>2 DEF Inv, Copies, Opened
<1>6. Judged'
  BY <1>0, <1>1, <1>2 DEF Judged, Flawless
<1>7. storeFailed' = TRUE => at' = "fault"
  BY <1>0 DEF StoreFails, StatFails, ReadFails, AfterWriteError, Inv, Blamed
<1>8. QED BY <1>3, <1>4, <1>5, <1>6, <1>7 DEF Inv, Blamed

------------------------------------------------------------------------------
\* Every step keeps the invariant.
LEMMA StepKeepsInv == Inv /\ [Next]_vars => Inv'
<1> SUFFICES ASSUME Inv, [Next]_vars PROVE Inv'
  OBVIOUS
<1>1. CASE UNCHANGED vars
  BY <1>1 DEF vars, owner, result, history, Inv, Types, Timed, Copies, Judged, Blamed, Steady,
     Source, Prefix, Flawless, Verdict, AtEnd, Exhausted
<1>2. CASE Edit \/ Replace \/ Remove \/ Tick
  BY <1>2, OwnerKeepsInv
<1>3. CASE Lstat \/ Open
  BY <1>3, OpenKeepsInv
<1>4. CASE InspectLine
  BY <1>4, InspectLineKeepsInv
<1>5. CASE InspectEnd
  BY <1>5, InspectEndKeepsInv
<1>6. CASE CopyLine
  BY <1>6, CopyLineKeepsInv
<1>7. CASE CopyEnd
  BY <1>7, CopyEndKeepsInv
<1>8. CASE Compare \/ Publish
  BY <1>8, PublishKeepsInv
<1>9. CASE StoreFails \/ StatFails \/ ReadFails
  BY <1>9, FailureKeepsInv
<1>10. QED BY <1>1, <1>2, <1>3, <1>4, <1>5, <1>6, <1>7, <1>8, <1>9 DEF Next

\* What Snapshot has copied and found at each moment.
THEOREM SnapshotCorrect == Spec => []Inv
<1>1. QED BY InitInv, StepKeepsInv, PTL DEF Spec

\* A copy that is accepted is what the name stands for (manifest.go:138).
THEOREM CurrentAccepted == Spec => AcceptedIsCurrent
<1>1. Inv /\ [Next]_vars =>
        [at = "compare" /\ at' = "publish" =>
            hidden \/ (path # NoFile /\ copied = files[path].text)]_vars
  <2> SUFFICES ASSUME Inv, Next, at = "compare", at' = "publish", hidden = FALSE
      PROVE  path # NoFile /\ copied = files[path].text
    BY DEF Inv, Types
  <2>1. Compare
    BY DEF Next, Edit, Replace, Remove, Tick, Lstat, Open, InspectLine, InspectEnd, CopyLine,
       CopyEnd, Publish, StoreFails, StatFails, ReadFails, AfterWriteError, Issue
  <2>2. QED BY <2>1, CompareAccepts
<1>2. QED BY <1>1, SnapshotCorrect, PTL DEF Spec, AcceptedIsCurrent

\* The verdict on a copy that is published is that of its bytes: a later Load
\* agrees (manifest.go:138).
THEOREM VerdictCorrect == Spec => []VerdictIsOfTheCopy
<1>1. Inv => VerdictIsOfTheCopy
  <2> SUFFICES ASSUME Inv, at = "published", hidden = FALSE
      PROVE  IF issues THEN errors = 0 => ~Loads(copied, copied, objects)
                       ELSE Loads(copied, copied, objects)
    BY DEF VerdictIsOfTheCopy, Inv, Types
  <2>1. copied \in Seq(Lines) /\ issues \in BOOLEAN /\ Len(copied) <= MaxBytes
    BY DEF Inv, Types, Copies
  <2>2. Verdict(copied)
    BY DEF Inv, Judged
  <2>3. Clean(copied) <=> Flawless(copied) /\ copied # <<>>
    BY <2>1, CleanIsFlawless
  <2>4. QED BY <2>1, <2>2, <2>3 DEF Verdict, Loads
<1>2. QED BY <1>1, SnapshotCorrect, PTL

\* A failed step in the data directory stops the service, and is never taken
\* for a fault of the manifest (recovery_test.go:166).
THEOREM StoreFailureStops == Spec => []StoreFailureFaults
<1>1. Inv => StoreFailureFaults
  BY DEF Inv, Types, Blamed, StoreFailureFaults
<1>2. QED BY <1>1, SnapshotCorrect, PTL
==============================================================================
