------------------------------- MODULE Settings -------------------------------
(***************************************************************************)
(* The scheduler settings: Service.UpdateSettings and load, over the steps *)
(* of AtomicStore on scheduler.json, and the share of the bandwidth each   *)
(* attempt is given for as long as it runs.                                *)
(*                                                                         *)
(* UpdateSettings holds Service.mu over its write, so while one is under   *)
(* way no other handler runs; the store's steps, a crash and a host        *)
(* failure come in between.  Clients live elsewhere and remember what they *)
(* have read.  A request that is refused changes nothing and is no action. *)
(*                                                                         *)
(* A definition marked "Mistake" is no part of the model: it is a bug the  *)
(* definition after it could have had.                                     *)
(***************************************************************************)
EXTENDS Naturals, Sequences, FiniteSets

CONSTANTS
    Clients,
    Slots,        \* tasks that may run; which task it is does not matter here
    Maxes,        \* values of maxRunning that clients ask for
    Budgets,      \* values of bandwidthBudget, in bytes per second
    Default,      \* DefaultSettings, without its revision
    None, Torn,
    MaxUpdates,   \* bound: updates and first writes begun
    MaxOutages    \* bound: crashes, host failures and failed writes

Choices == [max : Maxes, budget : Budgets, paused : BOOLEAN]

ASSUME SettingsAssumption ==
    /\ Maxes \subseteq Nat /\ Budgets \subseteq Nat /\ Default \in Choices
    /\ IsFiniteSet(Slots) /\ "load" \notin Clients
    /\ None \notin [by : Clients \cup {"load"}, checked : BOOLEAN]
    /\ MaxUpdates \in Nat \ {0} /\ MaxOutages \in Nat

VARIABLES
    up,           \* the controller serves
    fault,        \* Service.fault is set
    settings,     \* Service.settings
    asking,       \* who holds the mutex over a write, if anybody does
    held,         \* the limits each attempt that runs was started with
    seen,         \* what each client has last been told
    misled,       \* history: clients told what a host failure has undone since
    outages,
    entries, writer, published, promised      \* scheduler.json

control == <<up, fault, settings, asking>>
file == <<entries, writer, published, promised>>
vars == <<control, held, seen, misled, outages, file>>

\* Records of scheduler.json, and that there is none.
Records == [rev : 1 .. MaxUpdates, use : Choices]
Absent == [rev |-> 0, use |-> Default]

Store == INSTANCE AtomicStore WITH
    Docs <- Records \cup {Absent}, Writers <- {"service"}, MaxWrites <- MaxUpdates

TypeOK ==
    /\ up \in BOOLEAN /\ fault \in BOOLEAN
    /\ settings \in Records \cup {Absent}
    /\ asking \in [by : Clients \cup {"load"}, checked : BOOLEAN] \cup {None}
    /\ held \in [Slots -> [max : Maxes, budget : Budgets, share : Nat, ours : BOOLEAN] \cup {None}]
    /\ seen \in [Clients -> Records \cup {None}]
    /\ misled \subseteq Clients /\ outages \in Nat
    /\ Store!TypeOK

Init ==
    /\ up = FALSE /\ fault = FALSE /\ settings = Absent /\ asking = None
    /\ held = [s \in Slots |-> None]
    /\ seen = [c \in Clients |-> None] /\ misled = {}
    /\ outages = 0
    /\ Store!Init /\ Store!Read = Absent

------------------------------------------------------------------------------
\* Mistake: the share of an attempt is not looked at.
InRange(u) == u.max \in 1 .. 256 /\ u.budget >= 1

\* Settings.Validate: limits, a positive budget, and no share of zero, which
\* rclone would take for no limit.
Valid(u) == u.max \in 1 .. 256 /\ u.budget >= 1 /\ u.budget \div u.max >= 1

\* BandwidthBytesPerSecond.
Share(u) == u.budget \div u.max

Free == asking = None
Healthy == up /\ ~fault /\ Free
MayFail == outages < MaxOutages
CountOutage == outages' = outages + 1

\* GET, also from a faulty controller.
Get(c) ==
    /\ up /\ Free
    /\ seen' = [seen EXCEPT ![c] = settings]
    /\ misled' = misled \ {c}
    /\ UNCHANGED <<control, held, outages, file>>

\* The revision the client knows is the current one.
Current(c) == seen[c] # None /\ seen[c].rev = settings.rev

\* UpdateSettings up to its write: some fields change, and the client may ask
\* for that only if nobody else has changed any.
Update(c) ==
    /\ Healthy /\ settings.rev < MaxUpdates
    /\ \E u \in Choices, checked \in BOOLEAN :
        /\ checked => Current(c)
        /\ Valid(u)
        /\ asking' = [by |-> c, checked |-> checked]
        /\ Store!Begin("service", [rev |-> settings.rev + 1, use |-> u])
    /\ UNCHANGED <<up, fault, settings, held, seen, misled, outages>>

\* The write under way, but for its end.
Writing ==
    /\ Store!Write("service") \/ Store!Sync("service") \/ Store!Rename("service")
    /\ UNCHANGED <<control, held, seen, misled, outages>>

Asked == writer["service"].want

\* The write succeeds: memory follows, and the client is answered.
Updated ==
    /\ ~Free /\ asking.by \in Clients
    /\ Store!Confirm("service")
    /\ settings' = Asked /\ asking' = None
    /\ seen' = [seen EXCEPT ![asking.by] = Asked]
    /\ misled' = misled \ {asking.by}
    /\ UNCHANGED <<up, fault, held, outages>>

\* Mistake: memory is changed before the write.
ChangedFirst == Asked

\* What a failed write leaves in memory.
AfterFailure == settings

\* The write fails, perhaps after the rename: a storage failure.
UpdateFails ==
    /\ ~Free /\ asking.by \in Clients /\ MayFail /\ CountOutage
    /\ Store!Fail("service")
    /\ fault' = TRUE /\ asking' = None /\ settings' = AfterFailure
    /\ UNCHANGED <<up, held, seen, misled>>

------------------------------------------------------------------------------
Live == {s \in Slots : held[s] # None}

\* Service.running; what recovery could not end blocks its task and is not there.
Running == {s \in Live : held[s].ours}

\* loop and prepareLocked: the attempt takes a copy of the settings.
Dispatch(s) ==
    /\ Healthy /\ held[s] = None
    /\ ~settings.use.paused /\ Cardinality(Running) < settings.use.max
    /\ held' = [held EXCEPT ![s] =
            [max |-> settings.use.max, budget |-> settings.use.budget,
             share |-> Share(settings.use), ours |-> TRUE]]
    /\ UNCHANGED <<control, seen, misled, outages, file>>

\* An attempt ends, whether a controller waits for it or not.
End(s) ==
    /\ held[s] # None /\ Free
    /\ held' = [held EXCEPT ![s] = None]
    /\ UNCHANGED <<control, seen, misled, outages, file>>

------------------------------------------------------------------------------
\* load: a file that is there must be valid.  Recovery then ends the attempts
\* of earlier controllers; those it cannot end stay, and their tasks with them.
Load ==
    /\ ~up /\ Free
    /\ Store!Readable /\ Store!Read # Absent /\ Valid(Store!Read.use)
    /\ up' = TRUE /\ settings' = Store!Read
    /\ \E left \in SUBSET Live :
        held' = [s \in Slots |-> IF s \in left THEN [held[s] EXCEPT !.ours = FALSE] ELSE None]
    /\ UNCHANGED <<fault, asking, seen, misled, outages, file>>

\* load, on an empty data directory: the default is written first, and looked
\* at like any other.
LoadDefault ==
    /\ ~up /\ Free /\ Store!Read = Absent
    /\ asking' = [by |-> "load", checked |-> FALSE]
    /\ Store!Begin("service", [rev |-> 1, use |-> Default])
    /\ UNCHANGED <<up, fault, settings, held, seen, misled, outages>>

DefaultWritten ==
    /\ ~Free /\ asking.by = "load" /\ Valid(Asked.use)
    /\ Store!Confirm("service")
    /\ up' = TRUE /\ settings' = Asked /\ asking' = None
    /\ UNCHANGED <<fault, held, seen, misled, outages>>

\* New fails, and serve with it.
DefaultFails ==
    /\ ~Free /\ asking.by = "load" /\ MayFail /\ CountOutage
    /\ Store!Fail("service")
    /\ asking' = None
    /\ UNCHANGED <<up, fault, settings, held, seen, misled>>

Gone == up' = FALSE /\ fault' = FALSE /\ settings' = Absent /\ asking' = None

\* The controller ends; its attempts and its clients do not.
Crash ==
    /\ up \/ ~Free
    /\ MayFail \/ fault
    /\ outages' = IF fault THEN outages ELSE outages + 1
    /\ Gone /\ Store!Crash
    /\ UNCHANGED <<held, seen, misled>>

\* The clients who have been told of a revision that is not in d.
Undone(d) ==
    {c \in Clients : seen[c] # None /\ ~(d \in Records /\ seen[c].rev <= d.rev)}

\* The host fails, and with it every attempt.
HostFailure ==
    /\ MayFail /\ CountOutage
    /\ Gone /\ Store!HostFailure
    /\ held' = [s \in Slots |-> None]
    /\ misled' = misled \cup Undone(Store!Read')
    /\ UNCHANGED seen

Next ==
    \/ \E c \in Clients : Get(c) \/ Update(c)
    \/ \E s \in Slots : Dispatch(s) \/ End(s)
    \/ Writing \/ Updated \/ UpdateFails
    \/ Load \/ LoadDefault \/ DefaultWritten \/ DefaultFails
    \/ Crash \/ HostFailure

Spec == Init /\ [][Next]_vars

------------------------------------------------------------------------------
\* scheduler.json is an atomic register under every failure: it never holds a
\* part of a document, and nothing confirmed is undone (store.go:99).
DocumentAtomic == Store!Atomic

\* An update that was made conditional on a revision is applied to exactly the
\* settings its client was told of, also when controllers died and writes
\* failed in between, unless the client was told of settings that a failure
\* of the host has undone (README.md:260).
NoLostUpdate ==
    [][\A c \in Clients : asking = None /\ asking' = [by |-> c, checked |-> TRUE] =>
        settings = seen[c] \/ c \in misled]_vars

\* However the settings change while attempts run, none runs without a limit,
\* and those of one controller that were started with the same limits fit into
\* their budget together (README.md:157).
SharesWithinBudget ==
    \A s \in Live :
        LET equal == {t \in Running : held[t] = held[s]}
        IN  /\ held[s].share >= 1
            /\ Cardinality(equal) * held[s].share <= held[s].budget
==============================================================================
