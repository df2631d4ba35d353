---------------------------- MODULE SettingsProofs ----------------------------
(***************************************************************************)
(* Settings, for any clients, slots and values: scheduler.json is an       *)
(* atomic register, attempts that hold the same limits fit into their      *)
(* budget together, and no conditional update is lost.                     *)
(*                                                                         *)
(* The service does to the file what AtomicWrite does (StepStores), so the *)
(* theorems about that hold of scheduler.json.  For the budget the types   *)
(* do not suffice: what a client has asked for and what memory holds is    *)
(* valid (Checked), and of the attempts with the same limits there are no  *)
(* more than these allow (Fits).                                           *)
(***************************************************************************)
EXTENDS Settings, FiniteSetTheorems, TLAPS

Files == INSTANCE AtomicStoreProofs WITH
    Docs <- Records \cup {Absent}, Writers <- {"service"}, MaxWrites <- MaxUpdates

Limits == [max : Maxes, budget : Budgets, share : Nat, ours : BOOLEAN]

\* The part of the types that the proofs need.
Types ==
    /\ settings \in Records \cup {Absent}
    /\ held \in [Slots -> Limits \cup {None}]

\* What a client asks for, and what the controller runs with, was validated.
Checked ==
    /\ up => Valid(settings.use)
    /\ ~Free => Asked \in Records
    /\ ~Free /\ asking.by \in Clients => Valid(Asked.use)

\* The attempts of this controller that hold the same limits as s.
Equal(s) == {t \in Running : held[t] = held[s]}

\* The limits of an attempt are those of valid settings, and no more than max
\* of them are held.
Fits ==
    \A s \in Live :
        /\ held[s].max \in 1 .. 256 /\ held[s].share >= 1
        /\ held[s].share = held[s].budget \div held[s].max
        /\ Cardinality(Equal(s)) <= held[s].max

Inv == Files!Inv /\ Types /\ Checked /\ Fits

------------------------------------------------------------------------------
\* Every record has choices.
LEMMA RecordsUse ==
  ASSUME NEW r \in Records \cup {Absent}
  PROVE  r.use \in Choices
  BY SettingsAssumption DEF Records, Absent

\* The choices of a valid record are numbers.
LEMMA ValidShare ==
  ASSUME NEW u \in Choices, Valid(u)
  PROVE  /\ u.max \in Maxes /\ u.budget \in Budgets /\ u.max \in 1 .. 256
         /\ Share(u) \in Nat /\ Share(u) >= 1 /\ Share(u) = u.budget \div u.max
<1>1. u.max \in Maxes /\ u.budget \in Budgets
  BY DEF Choices
<1>2. u.max \in Nat /\ u.budget \in Nat
  BY <1>1, SettingsAssumption
<1>3. QED BY <1>1, <1>2 DEF Valid, Share

\* Nobody runs and nothing is asked at first.
LEMMA InitInv == Init => Inv /\ Files!Init
<1> SUFFICES ASSUME Init PROVE Inv /\ Files!Init
  OBVIOUS
<1>1. Files!Init
  BY DEF Init, Store!Init, Files!Init, Store!NoWrite, Files!NoWrite, Store!NoFile, Files!NoFile
<1>2. Files!Inv
  BY <1>1, Files!InitInv
<1>3. Types
  BY DEF Init, Types
<1>4. Checked /\ Fits
  BY DEF Init, Checked, Fits, Free, Live
<1>5. QED BY <1>1, <1>2, <1>3, <1>4 DEF Inv

------------------------------------------------------------------------------
\* The steps of one AtomicWrite are steps of the store.
LEMMA StepStores == Inv /\ [Next]_vars => [Files!Next]_(Files!vars)
<1> SUFFICES ASSUME Inv, [Next]_vars PROVE [Files!Next]_(Files!vars)
  OBVIOUS
<1>1. ASSUME NEW d \in Records \cup {Absent}, Store!Begin("service", d)
      PROVE  Files!Next
  <2>1. Files!Begin("service", d)
    BY <1>1 DEF Store!Begin, Files!Begin, Store!NoWrite, Files!NoWrite, Store!NoFile, Files!NoFile
  <2>2. QED BY <2>1 DEF Files!Next
<1>2. ASSUME Store!Write("service") \/ Store!Sync("service") \/ Store!Rename("service")
      PROVE  Files!Next
  <2>1. Files!Write("service") \/ Files!Sync("service") \/ Files!Rename("service")
    BY <1>2 DEF Store!Write, Files!Write, Store!Sync, Files!Sync, Store!Synced, Files!Synced,
                Store!Rename, Files!Rename
  <2>2. QED BY <2>1 DEF Files!Next, Files!Step
<1>3. ASSUME Store!Confirm("service") PROVE Files!Next
  <2>1. Files!Confirm("service")
    BY <1>3 DEF Store!Confirm, Files!Confirm, Store!Settled, Files!Settled, Store!Visible,
                Files!Visible, Store!NoWrite, Files!NoWrite, Store!NoFile, Files!NoFile
  <2>2. QED BY <2>1 DEF Files!Next, Files!Step
<1>4. ASSUME Store!Fail("service") PROVE Files!Next
  <2>1. Files!Fail("service")
    BY <1>4 DEF Store!Fail, Files!Fail, Store!NoWrite, Files!NoWrite, Store!NoFile, Files!NoFile
  <2>2. QED BY <2>1 DEF Files!Next
<1>5. ASSUME Store!Crash PROVE Files!Next
  <2>1. Files!Crash
    BY <1>5 DEF Store!Crash, Files!Crash, Store!NoWrite, Files!NoWrite, Store!NoFile, Files!NoFile
  <2>2. QED BY <2>1 DEF Files!Next
<1>6. ASSUME Store!HostFailure PROVE Files!Next
  <2>1. Files!HostFailure
    BY <1>6 DEF Store!HostFailure, Files!HostFailure, Store!Remains, Files!Remains,
                Store!NoWrite, Files!NoWrite, Store!NoFile, Files!NoFile
  <2>2. QED BY <2>1 DEF Files!Next
<1>7. ASSUME UNCHANGED file PROVE UNCHANGED Files!vars
  BY <1>7 DEF file, Files!vars
<1>8. ASSUME NEW c \in Clients, Update(c) PROVE Files!Next
  <2>1. PICK u \in Choices : Store!Begin("service", [rev |-> settings.rev + 1, use |-> u])
    BY <1>8 DEF Update
  <2>2. [rev |-> settings.rev + 1, use |-> u] \in Records
    BY <1>8, SettingsAssumption DEF Inv, Types, Update, Records, Absent
  <2>3. QED BY <2>1, <2>2, <1>1
<1>9. ASSUME LoadDefault PROVE Files!Next
  <2>1. [rev |-> 1, use |-> Default] \in Records
    BY SettingsAssumption DEF Records
  <2>2. QED BY <1>9, <2>1, <1>1 DEF LoadDefault
<1>10. CASE UNCHANGED vars
  BY <1>7, <1>10 DEF vars
<1>11. CASE Next
  <2>1. ASSUME NEW c \in Clients, Get(c) PROVE UNCHANGED file
    BY <2>1 DEF Get
  <2>2. ASSUME NEW s \in Slots, Dispatch(s) \/ End(s) PROVE UNCHANGED file
    BY <2>2 DEF Dispatch, End
  <2>3. CASE Writing
    BY <2>3, <1>2 DEF Writing
  <2>4. CASE Updated \/ DefaultWritten
    BY <2>4, <1>3 DEF Updated, DefaultWritten
  <2>5. CASE UpdateFails \/ DefaultFails
    BY <2>5, <1>4 DEF UpdateFails, DefaultFails
  <2>6. CASE Load
    BY <2>6, <1>7 DEF Load
  <2>7. CASE Crash
    BY <2>7, <1>5 DEF Crash
  <2>8. CASE HostFailure
    BY <2>8, <1>6 DEF HostFailure
  <2>9. QED BY <1>11, <2>1, <2>2, <2>3, <2>4, <2>5, <2>6, <2>7, <2>8, <1>7, <1>8, <1>9 DEF Next
<1>12. QED BY <1>10, <1>11

------------------------------------------------------------------------------
\* What memory and a write come to hold.
LEMMA TypesKept == Inv /\ [Next]_vars => Types'
<1> SUFFICES ASSUME Inv, [Next]_vars PROVE Types'
  OBVIOUS
<1>1. settings' \in Records \cup {Absent}
  <2>1. CASE UNCHANGED settings
    BY <2>1 DEF Inv, Types
  <2>2. CASE Updated \/ DefaultWritten
    BY <2>2 DEF Updated, DefaultWritten, Inv, Checked
  <2>3. CASE UpdateFails
    BY <2>3 DEF UpdateFails, AfterFailure, Inv, Types
  <2>4. CASE Load
    <3>1. Store!Read \in Records \cup {Absent}
      <4>1. Files!Visible \in Files!Whole
        BY Files!VisibleEntry DEF Inv, Files!Inv, Files!Sound
      <4>2. Files!Visible.doc \in Records \cup {Absent}
        BY <4>1 DEF Files!Whole
      <4>3. QED BY <4>2 DEF Store!Read, Store!Visible, Files!Visible
    <3>2. QED BY <2>4, <3>1 DEF Load
  <2>5. CASE Crash \/ HostFailure
    BY <2>5 DEF Crash, HostFailure, Gone
  <2>6. QED
    BY <2>1, <2>2, <2>3, <2>4, <2>5 DEF Next, Get, Update, Dispatch, End, Writing, LoadDefault,
       DefaultFails, vars, control
<1>2. held' \in [Slots -> Limits \cup {None}]
  <2>1. CASE UNCHANGED held
    BY <2>1 DEF Inv, Types
  <2>2. ASSUME NEW s \in Slots, Dispatch(s) PROVE held' \in [Slots -> Limits \cup {None}]
    <3>1. settings.use \in Choices /\ Valid(settings.use)
      BY <2>2, RecordsUse DEF Dispatch, Healthy, Inv, Types, Checked
    <3>2. [max |-> settings.use.max, budget |-> settings.use.budget,
           share |-> Share(settings.use), ours |-> TRUE] \in Limits
      BY <3>1, ValidShare DEF Limits
    <3>3. QED BY <2>2, <3>2 DEF Dispatch, Inv, Types
  <2>3. ASSUME NEW s \in Slots, End(s) PROVE held' \in [Slots -> Limits \cup {None}]
    BY <2>3 DEF End, Inv, Types
  <2>4. CASE Load
    <3>1. PICK left \in SUBSET Live :
            held' = [s \in Slots |-> IF s \in left THEN [held[s] EXCEPT !.ours = FALSE] ELSE None]
      BY <2>4 DEF Load
    <3>2. \A s \in left : held[s] \in Limits
      BY DEF Live, Inv, Types
    <3>3. \A s \in left : [held[s] EXCEPT !.ours = FALSE] \in Limits
      BY <3>2 DEF Limits
    <3>4. QED BY <3>1, <3>3
  <2>5. CASE HostFailure
    BY <2>5 DEF HostFailure
  <2>6. QED
    BY <2>1, <2>2, <2>3, <2>4, <2>5 DEF Next, Get, Update, Writing, Updated, UpdateFails,
       LoadDefault, DefaultWritten, DefaultFails, Crash, vars
<1>3. QED BY <1>1, <1>2 DEF Types

\* What a write wants does not change until it is over.
LEMMA WantKept ==
  ASSUME Inv, Store!Write("service") \/ Store!Sync("service") \/ Store!Rename("service")
  PROVE  Asked' = Asked
<1>1. writer \in [{"service"} -> Files!Writes]
  BY DEF Inv, Files!Inv, Files!TypeOK
<1>2. writer["service"] \in Files!Writes
  BY <1>1
<1>3. CASE Store!Write("service")
  BY <1>1, <1>2, <1>3 DEF Store!Write, Asked, Files!Writes
<1>4. CASE Store!Sync("service")
  BY <1>1, <1>2, <1>4 DEF Store!Sync, Asked, Files!Writes
<1>5. CASE Store!Rename("service")
  BY <1>1, <1>2, <1>5 DEF Store!Rename, Asked, Files!Writes
<1>6. QED BY <1>3, <1>4, <1>5

\* A write begins with what it is to write.
LEMMA BeginWants ==
  ASSUME Inv, NEW d, Store!Begin("service", d)
  PROVE  Asked' = d
<1>1. writer \in [{"service"} -> Files!Writes]
  BY DEF Inv, Files!Inv, Files!TypeOK
<1>2. QED BY <1>1 DEF Store!Begin, Asked, Store!NoWrite

\* Only valid settings come into memory.
LEMMA CheckedKept == Inv /\ [Next]_vars => Checked'
<1> SUFFICES ASSUME Inv, [Next]_vars PROVE Checked'
  OBVIOUS
<1>1. CASE UNCHANGED <<up, settings, asking, writer>>
  BY <1>1 DEF Inv, Checked, Free, Asked
<1>2. ASSUME NEW c \in Clients, Update(c) PROVE Checked'
  <2>1. PICK u \in Choices : Valid(u) /\ Store!Begin("service", [rev |-> settings.rev + 1, use |-> u])
    BY <1>2 DEF Update
  <2>2. [rev |-> settings.rev + 1, use |-> u] \in Records
    BY <1>2, SettingsAssumption DEF Inv, Types, Update, Records, Absent
  <2>3. Asked' = [rev |-> settings.rev + 1, use |-> u]
    BY <2>1, BeginWants
  <2>4. Asked' \in Records /\ Asked'.use = u
    BY <2>2, <2>3
  <2>5. up' = up /\ settings' = settings
    BY <1>2 DEF Update
  <2>6. QED BY <2>1, <2>4, <2>5 DEF Checked, Inv
<1>3. CASE Writing
  <2>1. Asked' = Asked
    BY <1>3, WantKept DEF Writing
  <2>2. QED BY <1>3, <2>1 DEF Writing, control, Checked, Inv, Free
<1>4. CASE Updated
  BY <1>4 DEF Updated, Checked, Inv, Free
<1>5. CASE UpdateFails
  BY <1>5 DEF UpdateFails, AfterFailure, Checked, Inv, Free
<1>6. CASE Load
  BY <1>6 DEF Load, Checked, Inv, Free
<1>7. CASE LoadDefault
  <2>1. Asked' = [rev |-> 1, use |-> Default] /\ asking'.by = "load"
    BY <1>7, BeginWants DEF LoadDefault
  <2>2. Asked' \in Records
    BY <2>1, SettingsAssumption DEF Records
  <2>3. up' = FALSE \/ UNCHANGED <<up, settings>>
    BY <1>7 DEF LoadDefault
  <2>4. QED BY <2>1, <2>2, <2>3, SettingsAssumption DEF Checked, Inv
<1>8. CASE DefaultWritten
  BY <1>8 DEF DefaultWritten, Checked, Free
<1>9. CASE DefaultFails
  BY <1>9 DEF DefaultFails, Checked, Inv, Free
<1>10. CASE Crash \/ HostFailure
  BY <1>10 DEF Crash, HostFailure, Gone, Checked, Free
<1>11. QED
  BY <1>1, <1>2, <1>3, <1>4, <1>5, <1>6, <1>7, <1>8, <1>9, <1>10
     DEF Next, Get, Dispatch, End, vars, control, file

------------------------------------------------------------------------------
\* There are finitely many attempts.
LEMMA Finite ==
  ASSUME NEW s
  PROVE  /\ IsFiniteSet(Running) /\ Cardinality(Running) \in Nat
         /\ IsFiniteSet(Equal(s)) /\ Cardinality(Equal(s)) \in Nat
<1>1. Running \subseteq Slots /\ Equal(s) \subseteq Slots
  BY DEF Running, Equal, Live
<1>2. QED BY <1>1, SettingsAssumption, FS_Subset, FS_CardinalityType

\* An attempt starts: those with its limits are fewer than the settings allow,
\* and with other limits none is added.
LEMMA DispatchFits ==
  ASSUME Inv, Types', NEW s \in Slots, Dispatch(s)
  PROVE  Fits'
<1> DEFINE new == [max |-> settings.use.max, budget |-> settings.use.budget,
                   share |-> Share(settings.use), ours |-> TRUE]
<1>1. /\ held' = [held EXCEPT ![s] = new] /\ held[s] = None
      /\ Cardinality(Running) < settings.use.max
      /\ settings.use \in Choices /\ Valid(settings.use)
  BY RecordsUse DEF Dispatch, Healthy, Inv, Types, Checked
<1>2. held'[s] = new /\ \A t \in Slots \ {s} : held'[t] = held[t]
  BY <1>1 DEF Inv, Types
<1>3. s \notin Running
  BY <1>1 DEF Running, Live
<1>4. Running' \subseteq Running \cup {s}
  BY <1>2 DEF Running, Live
<1>5. settings.use.max \in Nat
  BY <1>1, ValidShare
<1>6. ASSUME NEW t \in Live'
      PROVE  /\ held'[t].max \in 1 .. 256 /\ held'[t].share >= 1
             /\ held'[t].share = held'[t].budget \div held'[t].max
             /\ Cardinality(Equal(t)') <= held'[t].max
  <2>1. CASE held'[t] = new
    <3>1. Equal(t)' \subseteq Running \cup {s}
      BY <1>4 DEF Equal
    <3>2. IsFiniteSet(Running \cup {s}) /\ Cardinality(Running \cup {s}) = Cardinality(Running) + 1
      BY <1>3, Finite, FS_AddElement
    <3>3. Cardinality(Equal(t)') <= Cardinality(Running) + 1
      BY <3>1, <3>2, FS_Subset
    <3>4. Cardinality(Equal(t)') \in Nat /\ Cardinality(Running) \in Nat
      BY <3>1, <3>2, Finite, FS_Subset, FS_CardinalityType
    <3>5. Cardinality(Equal(t)') <= settings.use.max
      BY <1>1, <1>5, <3>3, <3>4
    <3>6. QED BY <2>1, <3>5, <1>1, ValidShare
  <2>2. CASE held'[t] # new
    <3>1. t \in Slots \ {s} /\ t \in Live /\ held'[t] = held[t]
      BY <1>2, <2>2 DEF Live
    <3>2. Equal(t)' = Equal(t)
      BY <3>1, <1>2, <1>3, <2>2 DEF Equal, Running, Live
    <3>3. QED BY <3>1, <3>2 DEF Inv, Fits
  <2>3. QED BY <2>1, <2>2
<1>7. QED BY <1>6 DEF Fits

\* An attempt ends: the others stay as they are.
LEMMA EndFits ==
  ASSUME Inv, NEW s \in Slots, End(s)
  PROVE  Fits'
<1>1. held' = [held EXCEPT ![s] = None]
  BY DEF End
<1>2. held'[s] = None /\ \A t \in Slots \ {s} : held'[t] = held[t]
  BY <1>1 DEF Inv, Types
<1>3. ASSUME NEW t \in Live'
      PROVE  t \in Live /\ held'[t] = held[t] /\ Equal(t)' \subseteq Equal(t)
  BY <1>2 DEF Live, Equal, Running
<1>4. ASSUME NEW t \in Live'
      PROVE  Cardinality(Equal(t)') <= held[t].max
  <2>1. Cardinality(Equal(t)') <= Cardinality(Equal(t)) /\ Cardinality(Equal(t)') \in Nat
    BY <1>3, Finite, FS_Subset, FS_CardinalityType
  <2>2. Cardinality(Equal(t)) <= held[t].max /\ held[t].max \in Nat
    BY <1>3 DEF Inv, Fits
  <2>3. QED BY <2>1, <2>2, Finite
<1>5. QED BY <1>3, <1>4 DEF Inv, Fits

\* A controller starts: none of the attempts that are left is its own.
LEMMA LoadFits ==
  ASSUME Inv, Load
  PROVE  Fits'
<1>1. PICK left \in SUBSET Live :
        held' = [s \in Slots |-> IF s \in left THEN [held[s] EXCEPT !.ours = FALSE] ELSE None]
  BY DEF Load
<1>2. \A s \in left : held[s] \in Limits /\ s \in Slots /\ s \in Live
  BY DEF Live, Inv, Types
<1>3. \A s \in left :
        /\ held'[s].ours = FALSE /\ held'[s].max = held[s].max
        /\ held'[s].share = held[s].share /\ held'[s].budget = held[s].budget
  BY <1>1, <1>2 DEF Limits
<1>4. Live' \subseteq left
  BY <1>1 DEF Live
<1>5. Running' = {}
  BY <1>3, <1>4 DEF Running
<1>6. ASSUME NEW s \in Live' PROVE Cardinality(Equal(s)') = 0
  BY <1>5, FS_EmptySet DEF Equal
<1>7. \A s \in left : held[s].max \in 1 .. 256 /\ held[s].share >= 1
        /\ held[s].share = held[s].budget \div held[s].max
  BY <1>2 DEF Inv, Fits
<1>8. \A s \in Live' : 0 <= held'[s].max
  BY <1>3, <1>4, <1>7
<1>9. QED BY <1>3, <1>4, <1>6, <1>7, <1>8 DEF Fits

\* However the settings change, the attempts fit.
LEMMA FitsKept == Inv /\ [Next]_vars => Fits'
<1> SUFFICES ASSUME Inv, [Next]_vars PROVE Fits'
  OBVIOUS
<1>1. CASE UNCHANGED held
  BY <1>1 DEF Inv, Fits, Live, Equal, Running
<1>2. ASSUME NEW s \in Slots, Dispatch(s) PROVE Fits'
  BY <1>2, TypesKept, DispatchFits
<1>3. ASSUME NEW s \in Slots, End(s) PROVE Fits'
  BY <1>3, EndFits
<1>4. CASE Load
  BY <1>4, LoadFits
<1>5. CASE HostFailure
  BY <1>5 DEF HostFailure, Fits, Live
<1>6. QED
  BY <1>1, <1>2, <1>3, <1>4, <1>5 DEF Next, Get, Update, Writing, Updated, UpdateFails,
     LoadDefault, DefaultWritten, DefaultFails, Crash, vars

------------------------------------------------------------------------------
\* The invariant is inductive.
LEMMA StepKeepsInv == Inv /\ [Next]_vars => Inv'
<1>1. Inv /\ [Next]_vars => Files!Inv'
  BY StepStores, Files!StepKeepsInv DEF Inv
<1>2. QED BY <1>1, TypesKept, CheckedKept, FitsKept DEF Inv

\* Memory holds valid settings, and attempts hold shares of them.
THEOREM SettingsCorrect == Spec => []Inv
<1>1. Init => Inv
  BY InitInv
<1>2. QED BY <1>1, StepKeepsInv, PTL DEF Spec

\* A share that is counted no more than max times is within the budget.
LEMMA ShareTimes ==
  ASSUME NEW b \in Nat, NEW m \in 1 .. 256, NEW n \in Nat, n <= m
  PROVE  n * (b \div m) <= b
<1> DEFINE q == b \div m
<1>1. q \in Nat /\ q * m <= b
  OBVIOUS
<1> HIDE DEF q
<1>2. n * q <= q * m /\ n * q \in Nat /\ q * m \in Nat
  BY <1>1
<1>3. n * q <= b
  BY <1>1, <1>2
<1>4. QED BY <1>3 DEF q

\* No attempt runs without a limit, and those of one controller with the same
\* limits keep to their budget together (README.md:157).
THEOREM BudgetKept == Spec => []SharesWithinBudget
<1>1. Inv => SharesWithinBudget
  <2> SUFFICES ASSUME Inv, NEW s \in Live
      PROVE  /\ held[s].share >= 1
             /\ Cardinality(Equal(s)) * held[s].share <= held[s].budget
    BY DEF SharesWithinBudget, Equal
  <2>1. held[s] \in Limits
    BY DEF Live, Inv, Types
  <2>2. held[s].budget \in Nat
    BY <2>1, SettingsAssumption DEF Limits
  <2>3. /\ held[s].max \in 1 .. 256 /\ held[s].share >= 1
        /\ held[s].share = held[s].budget \div held[s].max
        /\ Cardinality(Equal(s)) <= held[s].max
    BY DEF Inv, Fits
  <2>4. QED BY <2>2, <2>3, Finite, ShareTimes
<1>2. QED BY <1>1, SettingsCorrect, PTL

\* scheduler.json is written as AtomicStore writes a file.
LEMMA Stores == Spec => Files!Spec
<1>1. Init => Files!Init
  BY InitInv
<1>2. QED BY <1>1, StepStores, SettingsCorrect, PTL DEF Spec, Files!Spec

\* So it is an atomic register (store.go:99).
THEOREM SettingsAtomic == Spec => DocumentAtomic
<1>1. Spec => Files!Atomic
  BY Stores, Files!StoreIsAtomic, PTL
<1>2. Files!Atomic => DocumentAtomic
  BY PTL DEF DocumentAtomic, Store!Atomic, Files!Atomic, Store!Register!Spec, Files!Register!Spec,
     Store!Register!Init, Files!Register!Init, Store!Register!Next, Files!Register!Next,
     Store!Register!register, Files!Register!register, Store!Register!Publish,
     Files!Register!Publish, Store!Register!Confirm, Files!Register!Confirm,
     Store!Register!HostFailure, Files!Register!HostFailure, Store!Register!Latest,
     Files!Register!Latest, Store!Register!Versions, Files!Register!Versions,
     Store!Version, Files!Version
<1>3. QED BY <1>1, <1>2, PTL

------------------------------------------------------------------------------
(***************************************************************************)
(* No update is lost.  A revision must name one document: those the name   *)
(* may stand for ascend (Ascends), a write brings a higher revision        *)
(* (Follows), memory is what the file shows when an update begins (Serves),*)
(* and what a client remembers, unless it was misled, is not later than    *)
(* the file and equal to the document with that revision (Told).           *)
(***************************************************************************)
Pending == writer["service"]

Ascends ==
    \A i, j \in 1 .. Len(entries) : i < j => entries[i].doc.rev < entries[j].doc.rev

Follows ==
    /\ Free => Pending.at = "idle"
    /\ Pending.at \in {"temp", "written", "synced"} => Asked.rev > Store!Read.rev
    /\ Pending.at \in {"written", "synced"} => Pending.file.doc = Asked
    /\ Pending.at = "renamed" => Store!Read = Asked

Serves ==
    /\ up => settings \in Records /\ \E i \in 1 .. Len(entries) : entries[i].doc = settings
    /\ Healthy => settings = Store!Read
    /\ ~Free /\ asking.by = "load" => ~up

Told(c) ==
    seen[c] # None =>
        /\ seen[c].rev <= Store!Read.rev
        /\ \A i \in 1 .. Len(entries) :
             entries[i].doc.rev = seen[c].rev => entries[i].doc = seen[c]

Recalls ==
    /\ seen \in [Clients -> Records \cup {None}]
    /\ Ascends /\ Follows /\ Serves
    /\ \A c \in Clients \ misled : Told(c)

\* What the file and the write under way are.
LEMMA FileFacts ==
  ASSUME Inv
  PROVE  /\ Len(entries) \in 1 .. Len(entries) /\ Len(entries) \in Nat
         /\ \A i \in 1 .. Len(entries) :
              entries[i] \in Files!Whole /\ entries[i].doc \in Records \cup {Absent}
         /\ Store!Read = entries[Len(entries)].doc
         /\ Store!Read \in Records \cup {Absent}
         /\ writer \in [{"service"} -> Files!Writes]
<1>1. entries \in Seq(Files!Whole) /\ entries # <<>> /\ writer \in [{"service"} -> Files!Writes]
  BY DEF Inv, Files!Inv, Files!Sound, Files!TypeOK
<1>2. Len(entries) \in 1 .. Len(entries) /\ Len(entries) \in Nat
  BY <1>1, Files!VisibleEntry
<1>3. \A i \in 1 .. Len(entries) : entries[i] \in Files!Whole
  BY <1>1
<1>4. \A i \in 1 .. Len(entries) : entries[i].doc \in Records \cup {Absent}
  BY <1>3 DEF Files!Whole
<1>5. Store!Read = entries[Len(entries)].doc
  BY DEF Store!Read, Store!Visible
<1>6. QED BY <1>1, <1>2, <1>3, <1>4, <1>5

\* Revisions are numbers, and only what is not there has none.
LEMMA Revision ==
  ASSUME NEW d \in Records \cup {Absent}
  PROVE  d.rev \in Nat /\ (d \in Records <=> d.rev >= 1)
  BY SettingsAssumption DEF Records, Absent

\* The last revision is the highest.
LEMMA ReadIsLast ==
  ASSUME Inv, Ascends, NEW i \in 1 .. Len(entries)
  PROVE  /\ entries[i].doc.rev \in Nat /\ Store!Read.rev \in Nat
         /\ entries[i].doc.rev <= Store!Read.rev
         /\ entries[i].doc.rev = Store!Read.rev => entries[i].doc = Store!Read
<1>1. entries[i].doc.rev \in Nat /\ Store!Read.rev \in Nat
  BY FileFacts, Revision
<1>2. CASE i = Len(entries)
  BY <1>1, <1>2, FileFacts
<1>3. CASE i < Len(entries)
  <2>1. entries[i].doc.rev < entries[Len(entries)].doc.rev
    BY <1>3, FileFacts DEF Ascends
  <2>2. QED BY <1>1, <2>1, FileFacts
<1>4. QED BY <1>2, <1>3, FileFacts

------------------------------------------------------------------------------
\* What the steps that change the file do to it, and to what a client knows.
LEMMA SameFile ==
  ASSUME entries' = entries
  PROVE  /\ Store!Read' = Store!Read /\ (Ascends => Ascends')
         /\ \A c : seen'[c] = seen[c] => (Told(c) => Told(c)')
  BY DEF Store!Read, Store!Visible, Ascends, Told

LEMMA RenameRecalls ==
  ASSUME Inv, Recalls, Store!Rename("service")
  PROVE  /\ Ascends' /\ Store!Read' = Asked
         /\ \A i \in 1 .. Len(entries) : i \in 1 .. Len(entries)' /\ entries'[i] = entries[i]
         /\ \A c \in Clients : seen'[c] = seen[c] /\ Told(c) => Told(c)'
<1> DEFINE n == Len(entries)
           f == [Pending.file EXCEPT !.rank = published + 1]
<1>1. /\ entries' = Append(entries, f) /\ Pending \in Files!Writes /\ Pending.at = "synced"
      /\ entries \in Seq(Files!Whole)
  BY FileFacts DEF Store!Rename, Pending, Inv, Files!Inv, Files!Sound
<1>2. f.doc = Asked
  BY <1>1 DEF Recalls, Follows, Files!Writes, Files!File
<1>3. /\ Len(entries') = n + 1 /\ n \in Nat /\ entries'[n + 1] = f
      /\ \A i \in 1 .. n : entries'[i] = entries[i]
  BY <1>1, FileFacts
<1> HIDE DEF f, n
<1>4. Store!Read' = Asked
  BY <1>2, <1>3 DEF Store!Read, Store!Visible
<1>5. Asked.rev > Store!Read.rev /\ Store!Read.rev \in Nat /\ Asked.rev \in Nat
  <2>1. Asked \in Records
    BY <1>1 DEF Inv, Checked, Recalls, Follows, Pending
  <2>2. QED BY <1>1, <2>1, FileFacts, Revision DEF Recalls, Follows
<1>6. \A i \in 1 .. n : entries[i].doc.rev \in Nat /\ entries[i].doc.rev < Asked.rev
  BY <1>5, ReadIsLast DEF Recalls, n
<1>7. Ascends'
  <2> SUFFICES ASSUME NEW i \in 1 .. n + 1, NEW j \in 1 .. n + 1, i < j
      PROVE  entries'[i].doc.rev < entries'[j].doc.rev
    BY <1>3 DEF Ascends
  <2>1. i \in 1 .. n
    BY <1>3
  <2>2. CASE j = n + 1
    BY <1>2, <1>3, <1>6, <2>1, <2>2
  <2>3. CASE j \in 1 .. n
    BY <1>3, <2>1, <2>3 DEF Recalls, Ascends, n
  <2>4. QED BY <1>3, <2>2, <2>3
<1>8. ASSUME NEW c \in Clients, seen'[c] = seen[c], Told(c), seen[c] # None
      PROVE  /\ seen'[c].rev <= Store!Read'.rev
             /\ \A i \in 1 .. n + 1 : entries'[i].doc.rev = seen'[c].rev => entries'[i].doc = seen'[c]
  <2>1. seen[c].rev \in Nat /\ seen[c].rev <= Store!Read.rev
    BY <1>8, Revision DEF Told, Recalls
  <2>2. seen[c].rev < Asked.rev
    BY <1>5, <2>1
  <2>3. \A i \in 1 .. n : entries[i].doc.rev = seen[c].rev => entries[i].doc = seen[c]
    BY <1>8 DEF Told, n
  <2>4. QED BY <1>2, <1>3, <1>4, <1>5, <1>8, <2>1, <2>2, <2>3
<1>9. \A c \in Clients : seen'[c] = seen[c] /\ Told(c) => Told(c)'
  BY <1>3, <1>8 DEF Told
<1>10. \A i \in 1 .. Len(entries) : i \in 1 .. Len(entries)' /\ entries'[i] = entries[i]
  BY <1>3 DEF n
<1>11. QED BY <1>4, <1>7, <1>9, <1>10

\* One entry is left, and it was there.
LEMMA AloneRecalls ==
  ASSUME Inv, Recalls, NEW i \in 1 .. Len(entries), NEW f, entries' = <<f>>,
         f.doc = entries[i].doc
  PROVE  /\ Ascends' /\ Store!Read' = entries[i].doc
         /\ \A c \in Clients : seen'[c] = seen[c] /\ Told(c)
              /\ (seen[c] # None => seen[c].rev <= entries[i].doc.rev) => Told(c)'
<1>1. Len(entries') = 1 /\ entries'[1] = f
  OBVIOUS
<1>2. Ascends'
  BY <1>1 DEF Ascends
<1>3. Store!Read' = entries[i].doc
  BY <1>1 DEF Store!Read, Store!Visible
<1>4. ASSUME NEW c \in Clients, seen'[c] = seen[c], Told(c),
             seen[c] # None => seen[c].rev <= entries[i].doc.rev
      PROVE  Told(c)'
  BY <1>1, <1>3, <1>4 DEF Told
<1>5. QED BY <1>2, <1>3, <1>4

LEMMA ConfirmRecalls ==
  ASSUME Inv, Recalls, Store!Confirm("service")
  PROVE  /\ Ascends' /\ Store!Read' = Asked /\ Asked \in Records
         /\ \A c \in Clients : seen'[c] = seen[c] /\ Told(c) => Told(c)'
         /\ \A c \in Clients : seen'[c] = Asked => Told(c)'
         /\ 1 \in 1 .. Len(entries)' /\ entries'[1].doc = Asked
         /\ writer'["service"].at = "idle"
<1>1. /\ entries' = <<Store!Visible>> /\ Pending.at = "renamed"
      /\ Store!Visible = entries[Len(entries)] /\ Store!Visible.doc = Store!Read
  BY DEF Store!Confirm, Store!Settled, Store!Visible, Store!Read, Pending
<1>2. Store!Read = Asked
  BY <1>1 DEF Recalls, Follows
<1>3. Asked \in Records
  BY <1>1 DEF Inv, Checked, Recalls, Follows
<1>4. /\ Ascends' /\ Store!Read' = Asked
      /\ \A c \in Clients : seen'[c] = seen[c] /\ Told(c) => Told(c)'
  <2>1. /\ Ascends' /\ Store!Read' = entries[Len(entries)].doc
        /\ \A c \in Clients : seen'[c] = seen[c] /\ Told(c)
             /\ (seen[c] # None => seen[c].rev <= entries[Len(entries)].doc.rev) => Told(c)'
    BY <1>1, FileFacts, AloneRecalls
  <2>2. QED BY <1>1, <1>2, <2>1 DEF Told
<1>5. 1 \in 1 .. Len(entries)' /\ entries'[1].doc = Asked /\ Len(entries)' = 1
  BY <1>1, <1>2
<1>6. \A c \in Clients : seen'[c] = Asked => Told(c)'
  <2>1. Asked.rev \in Nat
    BY <1>3, Revision
  <2>2. QED BY <1>4, <1>5, <2>1 DEF Told
<1>7. writer'["service"].at = "idle"
  BY FileFacts DEF Store!Confirm, Store!NoWrite
<1>8. QED BY <1>3, <1>4, <1>5, <1>6, <1>7

------------------------------------------------------------------------------
\* HostFailure puts what it takes back from a client on record.
LEMMA HostFailureRecalls ==
  ASSUME Inv, Recalls, HostFailure
  PROVE  Recalls'
<1>1. PICK i \in 1 .. Len(entries) : \E f \in Store!Remains(entries[i]) :
        entries' = <<[f EXCEPT !.synced = TRUE]>>
  BY DEF HostFailure, Store!HostFailure
<1>2. PICK f \in Store!Remains(entries[i]) : entries' = <<[f EXCEPT !.synced = TRUE]>>
  BY <1>1
<1>3. entries[i] \in Files!Whole
  BY FileFacts
<1>4. f = entries[i] /\ [f EXCEPT !.synced = TRUE].doc = entries[i].doc
  BY <1>2, <1>3 DEF Store!Remains, Files!Whole
<1>5. /\ Ascends' /\ Store!Read' = entries[i].doc
      /\ \A c \in Clients : seen'[c] = seen[c] /\ Told(c)
           /\ (seen[c] # None => seen[c].rev <= entries[i].doc.rev) => Told(c)'
  BY <1>2, <1>4, AloneRecalls
<1>6. ASSUME NEW c \in Clients \ misled' PROVE Told(c)'
  <2>1. c \notin misled /\ c \notin Undone(Store!Read') /\ seen' = seen
    BY <1>6 DEF HostFailure
  <2>2. seen[c] # None => seen[c].rev <= entries[i].doc.rev
    BY <1>5, <2>1 DEF Undone
  <2>3. QED BY <1>5, <2>1, <2>2 DEF Recalls
<1>7. Follows' /\ Serves'
  <2>1. up' = FALSE /\ writer'["service"].at = "idle"
    BY DEF HostFailure, Gone, Store!HostFailure, Store!NoWrite
  <2>2. QED BY <2>1 DEF Follows, Serves, Healthy, Pending
<1>8. QED BY <1>5, <1>6, <1>7 DEF Recalls, HostFailure

\* A write that is under way.
LEMMA WritingRecalls ==
  ASSUME Inv, Recalls, Writing
  PROVE  Recalls'
<1>1. UNCHANGED <<up, fault, settings, asking, seen, misled>>
  BY DEF Writing, control
<1>2. Asked' = Asked
  BY WantKept DEF Writing
<1>3. ~Free /\ Pending \in Files!Writes /\ writer \in [{"service"} -> Files!Writes]
  <2>1. Pending.at # "idle"
    BY DEF Writing, Store!Write, Store!Sync, Store!Rename, Pending
  <2>2. QED BY <2>1, FileFacts DEF Recalls, Follows, Pending
<1>4. ~Free' /\ ~Healthy' /\ (asking'.by = "load" => ~up')
  BY <1>1, <1>3 DEF Free, Healthy, Recalls, Serves
<1>5. CASE Store!Write("service")
  <2>1. entries' = entries
    BY <1>5 DEF Store!Write
  <2>2. Pending'.at = "written" /\ Pending'.file.doc = Asked /\ Pending.at = "temp"
    BY <1>3, <1>5 DEF Store!Write, Pending, Asked, Files!Writes, Files!File
  <2>3. Follows'
    BY <1>2, <1>4, <2>1, <2>2, SameFile DEF Recalls, Follows
  <2>4. Serves'
    BY <1>1, <1>4, <2>1 DEF Recalls, Serves
  <2>5. QED BY <1>1, <2>1, <2>3, <2>4, SameFile DEF Recalls
<1>6. CASE Store!Sync("service")
  <2>1. entries' = entries
    BY <1>6 DEF Store!Sync
  <2>2. Pending'.at = "synced" /\ Pending'.file.doc = Pending.file.doc /\ Pending.at = "written"
    BY <1>3, <1>6 DEF Store!Sync, Store!Synced, Pending, Files!Writes, Files!File
  <2>3. Follows'
    BY <1>2, <1>4, <2>1, <2>2, SameFile DEF Recalls, Follows
  <2>4. Serves'
    BY <1>1, <1>4, <2>1 DEF Recalls, Serves
  <2>5. QED BY <1>1, <2>1, <2>3, <2>4, SameFile DEF Recalls
<1>7. CASE Store!Rename("service")
  <2>1. Pending'.at = "renamed"
    BY <1>3, <1>7 DEF Store!Rename, Pending, Files!Writes
  <2>2. Follows'
    BY <1>2, <1>4, <1>7, <2>1, RenameRecalls DEF Follows
  <2>3. Serves'
    BY <1>1, <1>4, <1>7, RenameRecalls DEF Recalls, Serves
  <2>4. QED BY <1>1, <1>7, <2>2, <2>3, RenameRecalls DEF Recalls
<1>8. QED BY <1>5, <1>6, <1>7 DEF Writing

\* A write is confirmed: it is what memory and its client know.
LEMMA ConfirmedRecalls ==
  ASSUME Inv, Recalls, Updated \/ DefaultWritten
  PROVE  Recalls'
<1>1. Store!Confirm("service") /\ settings' = Asked /\ asking' = None
  BY DEF Updated, DefaultWritten
<1>2. Follows' /\ Serves'
  BY <1>1, ConfirmRecalls DEF Follows, Serves, Pending, Free
<1>3. CASE Updated
  <2>1. /\ asking.by \in Clients /\ seen' = [seen EXCEPT ![asking.by] = Asked]
        /\ misled' = misled \ {asking.by}
    BY <1>3 DEF Updated
  <2>2. seen' \in [Clients -> Records \cup {None}] /\ seen'[asking.by] = Asked
        /\ \A c \in Clients \ {asking.by} : seen'[c] = seen[c]
    BY <1>1, <2>1, ConfirmRecalls DEF Recalls
  <2>3. \A c \in Clients \ misled' : Told(c)'
    BY <1>1, <2>1, <2>2, ConfirmRecalls DEF Recalls
  <2>4. QED BY <1>1, <1>2, <2>2, <2>3, ConfirmRecalls DEF Recalls
<1>4. CASE DefaultWritten
  <2>1. UNCHANGED <<seen, misled>>
    BY <1>4 DEF DefaultWritten
  <2>2. QED BY <1>1, <1>2, <2>1, ConfirmRecalls DEF Recalls
<1>5. QED BY <1>3, <1>4

\* A write begins, with a revision above that of the file.
LEMMA BeginRecalls ==
  ASSUME Inv, Recalls, (\E c \in Clients : Update(c)) \/ LoadDefault
  PROVE  Recalls'
<1>1. UNCHANGED <<up, fault, settings, seen, misled>> /\ asking' # None
  <2>1. ASSUME NEW c \in Clients, Update(c)
        PROVE  UNCHANGED <<up, fault, settings, seen, misled>> /\ asking' # None
    BY <2>1, SettingsAssumption DEF Update
  <2>2. CASE LoadDefault
    <3>1. [by |-> "load", checked |-> FALSE] \in [by : Clients \cup {"load"}, checked : BOOLEAN]
      OBVIOUS
    <3>2. asking' # None
      BY <2>2, <3>1, SettingsAssumption DEF LoadDefault
    <3>3. QED BY <2>2, <3>2 DEF LoadDefault
  <2>3. QED BY <2>1, <2>2
<1>2. PICK d : Store!Begin("service", d) /\ d.rev > Store!Read.rev
  <2>1. ASSUME NEW c \in Clients, Update(c)
        PROVE  \E d : Store!Begin("service", d) /\ d.rev > Store!Read.rev
    <3>1. PICK u : Store!Begin("service", [rev |-> settings.rev + 1, use |-> u])
      BY <2>1 DEF Update
    <3>2. settings = Store!Read /\ settings.rev \in Nat
      BY <2>1, Revision DEF Update, Recalls, Serves, Inv, Types
    <3>3. QED BY <3>1, <3>2
  <2>2. CASE LoadDefault
    <3>1. Store!Begin("service", [rev |-> 1, use |-> Default]) /\ Store!Read.rev = 0
      BY <2>2 DEF LoadDefault, Absent
    <3>2. QED BY <3>1
  <2>3. QED BY <2>1, <2>2
<1>3. Asked' = d /\ entries' = entries /\ Pending'.at = "temp"
  BY <1>2, BeginWants, FileFacts DEF Store!Begin, Pending, Store!NoWrite
<1>4. Follows'
  BY <1>1, <1>2, <1>3, SameFile DEF Follows, Free
<1>5. Serves'
  <2>1. asking'.by = "load" => ~up
    <3>1. ASSUME NEW c \in Clients, Update(c) PROVE asking'.by # "load"
      BY <3>1, SettingsAssumption DEF Update
    <3>2. QED BY <3>1 DEF LoadDefault
  <2>2. QED BY <1>1, <1>3, <2>1 DEF Recalls, Serves, Healthy, Free
<1>6. QED BY <1>1, <1>3, <1>4, <1>5, SameFile DEF Recalls

\* A write ends without success, or with its controller: the file stays.
LEMMA FailedRecalls ==
  ASSUME Inv, Recalls, UpdateFails \/ DefaultFails \/ Crash
  PROVE  Recalls'
<1>1. /\ UNCHANGED <<entries, seen, misled>>
      /\ writer'["service"].at = "idle"
  BY FileFacts DEF UpdateFails, DefaultFails, Crash, Store!Fail, Store!Crash, Store!NoWrite
<1>2. Follows'
  BY <1>1 DEF Follows, Pending
<1>3. Serves'
  <2>1. CASE UpdateFails
    BY <1>1, <2>1 DEF UpdateFails, AfterFailure, Recalls, Serves, Healthy, Free
  <2>2. CASE DefaultFails
    <3>1. up' = FALSE /\ asking' = None
      BY <2>2 DEF DefaultFails, Recalls, Serves, Inv
    <3>2. QED BY <3>1 DEF Serves, Healthy, Free
  <2>3. CASE Crash
    BY <2>3 DEF Crash, Gone, Serves, Healthy
  <2>4. QED BY <2>1, <2>2, <2>3
<1>4. QED BY <1>1, <1>2, <1>3, SameFile DEF Recalls

\* Everything else but Get leaves the file and the clients alone.
LEMMA RestRecalls ==
  ASSUME Inv, Recalls,
         \/ \E c \in Clients : Get(c)
         \/ \E s \in Slots : Dispatch(s) \/ End(s)
         \/ Load
         \/ UNCHANGED vars
  PROVE  Recalls'
<1>1. UNCHANGED <<fault, asking, file>>
  BY DEF Get, Dispatch, End, Load, vars, control
<1>2. entries' = entries /\ writer' = writer
  BY <1>1 DEF file
<1>3. Follows'
  BY <1>1, <1>2, SameFile DEF Recalls, Follows, Free, Pending, Asked
<1>4. Serves'
  <2>1. CASE Load
    <3>1. settings' = Store!Read /\ Store!Read \in Records /\ Free
      BY <2>1, FileFacts DEF Load
    <3>2. \E i \in 1 .. Len(entries) : entries[i].doc = settings'
      BY <3>1, FileFacts
    <3>3. QED BY <1>1, <1>2, <3>1, <3>2, SameFile DEF Serves, Free
  <2>2. CASE UNCHANGED <<up, settings>>
    BY <1>1, <1>2, <2>2, SameFile DEF Recalls, Serves, Healthy, Free
  <2>3. QED BY <2>1, <2>2 DEF Get, Dispatch, End, vars, control
<1>5. CASE UNCHANGED <<seen, misled>>
  BY <1>2, <1>3, <1>4, <1>5, SameFile DEF Recalls
<1>6. ASSUME NEW c \in Clients, Get(c) PROVE Recalls'
  <2>1. /\ up /\ seen' = [seen EXCEPT ![c] = settings] /\ misled' = misled \ {c}
    BY <1>6 DEF Get
  <2>2. PICK i \in 1 .. Len(entries) : entries[i].doc = settings /\ settings \in Records
    BY <2>1 DEF Recalls, Serves
  <2>3. /\ seen' \in [Clients -> Records \cup {None}] /\ seen'[c] = settings
        /\ \A d \in Clients \ {c} : seen'[d] = seen[d]
    BY <2>1, <2>2 DEF Recalls
  <2>4. settings.rev <= Store!Read.rev
    BY <2>2, ReadIsLast DEF Recalls
  <2>5. ASSUME NEW j \in 1 .. Len(entries), entries[j].doc.rev = settings.rev
        PROVE  entries[j].doc = settings
    <3>1. entries[i].doc.rev \in Nat
      BY FileFacts, Revision
    <3>2. ~(i < j) /\ ~(j < i)
      BY <2>2, <2>5, <3>1 DEF Recalls, Ascends
    <3>3. i = j
      BY <3>2, FileFacts
    <3>4. QED BY <2>2, <3>3
  <2>6. Told(c)'
    BY <1>2, <2>3, <2>4, <2>5, SameFile DEF Told
  <2>7. \A d \in Clients \ misled' : Told(d)'
    BY <1>2, <2>1, <2>3, <2>6, SameFile DEF Recalls
  <2>8. QED BY <1>2, <1>3, <1>4, <2>3, <2>7, SameFile DEF Recalls
<1>7. QED BY <1>5, <1>6 DEF Dispatch, End, Load, vars

LEMMA RecallsKept == Inv /\ Recalls /\ [Next]_vars => Recalls'
  BY HostFailureRecalls, WritingRecalls, ConfirmedRecalls, BeginRecalls, FailedRecalls,
     RestRecalls DEF Next

LEMMA InitRecalls == Init => Recalls
<1> SUFFICES ASSUME Init PROVE Recalls
  OBVIOUS
<1>1. PICK f : entries = <<f>>
  BY DEF Init, Store!Init
<1>2. Ascends
  BY <1>1 DEF Ascends
<1>3. writer["service"].at = "idle"
  BY DEF Init, Store!Init, Store!NoWrite
<1>4. Follows /\ Serves
  BY <1>3 DEF Init, Follows, Serves, Healthy, Free, Pending
<1>5. seen \in [Clients -> Records \cup {None}] /\ \A c \in Clients : Told(c)
  BY DEF Init, Told
<1>6. QED BY <1>2, <1>4, <1>5 DEF Recalls

\* A conditional update is applied to exactly the settings its client was told
\* of (README.md:260), for any clients, failures and restarts.
THEOREM UpdatesKept == Spec => NoLostUpdate
<1>1. Spec => [](Inv /\ Recalls)
  BY InitInv, InitRecalls, StepKeepsInv, RecallsKept, PTL DEF Spec
<1>2. Inv /\ Recalls /\ [Next]_vars =>
        [\A c \in Clients : asking = None /\ asking' = [by |-> c, checked |-> TRUE] =>
           settings = seen[c] \/ c \in misled]_vars
  <2> SUFFICES ASSUME Inv, Recalls, Next, NEW c \in Clients \ misled,
                      asking = None, asking' = [by |-> c, checked |-> TRUE]
      PROVE  settings = seen[c]
    OBVIOUS
  <2>1. asking' # asking /\ asking' # None
    <3>1. [by |-> c, checked |-> TRUE] \in [by : Clients \cup {"load"}, checked : BOOLEAN]
      OBVIOUS
    <3>2. QED BY <3>1, SettingsAssumption
  <2>2. asking'.by = c /\ asking'.checked = TRUE /\ asking'.by # "load"
    BY SettingsAssumption
  <2>3. PICK d \in Clients : Update(d)
    BY <2>1, <2>2 DEF Next, Get, Dispatch, End, Writing, Updated, UpdateFails, Load, LoadDefault,
       DefaultWritten, DefaultFails, Crash, HostFailure, Gone, control
  <2>4. Current(c) /\ Healthy
    BY <2>2, <2>3 DEF Update
  <2>5. settings = Store!Read /\ seen[c] # None /\ seen[c].rev = settings.rev
    BY <2>4 DEF Current, Recalls, Serves
  <2>6. QED BY <2>5, FileFacts DEF Recalls, Told
<1>3. QED BY <1>1, <1>2, PTL DEF Spec, NoLostUpdate
==============================================================================
