-------------------------------- MODULE Runner --------------------------------
(***************************************************************************)
(* The processes of one task: Rclone.Start, process.Stop and               *)
(* Rclone.Recover (internal/runner/runner_unix.go) around the execution    *)
(* lock (internal/store/lock_unix.go).                                     *)
(*                                                                         *)
(* rclone, whatever it starts, and the kernel are external: a leader and a *)
(* helper in one process group, flock, os.Process, and process numbers     *)
(* that are used again.  The lock belongs to an open file: whoever         *)
(* inherited that holds it.                                                *)
(*                                                                         *)
(* A definition marked "Mistake" is no part of the model: it is a bug the  *)
(* definition after it could have had.                                     *)
(***************************************************************************)
EXTENDS Naturals, FiniteSets

CONSTANTS
    Stoppers,      \* goroutines that call Stop with a context that never ends
    Closer,        \* the one that calls it for Service.Close, with a deadline
    MaxAttempts,   \* bound: attempts
    MaxCrashes     \* bound: controllers that died

Callers == Stoppers \cup {Closer}
Attempts == 1 .. MaxAttempts

ASSUME RunnerAssumption ==
    /\ Closer \notin Stoppers
    /\ MaxAttempts \in Nat /\ MaxCrashes \in Nat

VARIABLES
    phase,         \* of the controller, as far as this task goes
    starting,      \* Start holds the lock and has not forked
    attempts,      \* attempts begun
    leader,        \* of each attempt: rclone
    helper,        \* of each attempt: something rclone started still runs
    reused,        \* attempts whose process number belongs to a stranger by now
    handle,        \* the attempt whose process the controller has, or 0
    done,          \* attempts whose process.done is closed
    asked,         \* attempts whose terminateOnce is spent
    stop,          \* where each call of Stop stands, and whose process it is for
    expired,       \* the deadline of Close has passed
    quit,          \* Recover: quitSent
    crashes,
    stray          \* history: signals that reached a stranger

processes == <<leader, helper, reused>>
control == <<phase, starting, attempts, handle, done, asked>>
calls == <<stop, expired>>
vars == <<control, processes, calls, quit, crashes, stray>>

\* recovering: Recover waits for the lock.
Phases == {"down", "recovering", "free", "blocked"}
Leaders == {"none", "running", "zombie", "reaped"}

\* In Stop: after the first check; waiting; the timer has fired; the process was
\* found; waiting for the end.
InStop == {"called", "waiting", "late", "found", "last"}
Idle == [at |-> "idle", of |-> 0]

TypeOK ==
    /\ phase \in Phases
    /\ starting \in BOOLEAN /\ attempts \in 0 .. MaxAttempts
    /\ leader \in [Attempts -> Leaders]
    /\ helper \in [Attempts -> BOOLEAN]
    /\ reused \subseteq Attempts
    /\ handle \in 0 .. MaxAttempts
    /\ done \subseteq Attempts /\ asked \subseteq Attempts
    /\ stop \in [Callers -> [at : InStop, of : Attempts] \cup {Idle}]
    /\ expired \in BOOLEAN /\ quit \in BOOLEAN
    /\ crashes \in 0 .. MaxCrashes
    /\ stray \subseteq {"term", "kill", "group"}

Init ==
    /\ phase = "free" /\ starting = FALSE /\ attempts = 0
    /\ leader = [a \in Attempts |-> "none"]
    /\ helper = [a \in Attempts |-> FALSE]
    /\ reused = {}
    /\ handle = 0 /\ done = {} /\ asked = {}
    /\ stop = [k \in Callers |-> Idle] /\ expired = FALSE
    /\ quit = FALSE /\ crashes = 0 /\ stray = {}

------------------------------------------------------------------------------
Alive(a) == leader[a] = "running" \/ helper[a]

\* Mistake: the lock is not passed on, and goes when Start returns.
NotInherited == {}

\* The attempts whose processes have the locked file open.
Inherited == {a \in Attempts : Alive(a)}

\* flock: the locked file is open somewhere.
Held == starting \/ Inherited # {}

\* The number of a's group is in use by it.
GroupExists(a) == leader[a] \in {"running", "zombie"} \/ helper[a]

------------------------------------------------------------------------------
(* Start. *)

\* Acquire, when execute starts the next attempt: the one before has ended.
Acquire ==
    /\ phase = "free" /\ ~starting /\ (handle = 0 \/ handle \in done)
    /\ ~Held /\ attempts < MaxAttempts
    /\ starting' = TRUE /\ attempts' = attempts + 1
    /\ handle' = 0
    /\ UNCHANGED <<phase, done, asked, processes, calls, quit, crashes, stray>>

\* cmd.Start; the copy of the parent is closed, and process made.
Fork ==
    /\ starting /\ starting' = FALSE
    /\ leader' = [leader EXCEPT ![attempts] = "running"]
    /\ handle' = attempts
    /\ UNCHANGED <<phase, attempts, done, asked, helper, reused, calls, quit, crashes, stray>>

\* stderr.log cannot be made, or rclone not be run.
ForkFails ==
    /\ starting /\ starting' = FALSE
    /\ UNCHANGED <<phase, attempts, handle, done, asked, processes, calls, quit, crashes, stray>>

\* The goroutine of Start: cmd.Wait reaps the leader; helpers do not keep it, as
\* what they write goes to a file.
Wait ==
    /\ handle # 0 /\ leader[handle] = "zombie"
    /\ leader' = [leader EXCEPT ![handle] = "reaped"]
    /\ UNCHANGED <<control, helper, reused, calls, quit, crashes, stray>>

\* The result is stored, and done closed.
CloseDone ==
    /\ handle # 0 /\ leader[handle] = "reaped" /\ handle \notin done
    /\ done' = done \cup {handle}
    /\ UNCHANGED <<phase, starting, attempts, handle, asked, processes, calls, quit, crashes, stray>>

------------------------------------------------------------------------------
(* Stop. *)

Move(k, at) == stop' = [stop EXCEPT ![k].at = at]
Return(k) == stop' = [stop EXCEPT ![k] = Idle]
Its(k) == stop[k].of

\* Stop, up to its first check.
Call(k) ==
    /\ stop[k] = Idle /\ handle # 0 /\ handle \notin done
    /\ stop' = [stop EXCEPT ![k] = [at |-> "called", of |-> handle]]
    /\ UNCHANGED <<control, processes, expired, quit, crashes, stray>>

\* Mistake: the signal goes to the number, whoever has it.
ByNumber(a) == TRUE

\* os.Process: no signal once the leader has been reaped.
Unreaped(a) == leader[a] # "reaped"

\* terminateOnce.  What rclone does about SIGTERM is its own affair.
Terminate(k) ==
    /\ stop[k].at = "called" /\ Move(k, "waiting")
    /\ asked' = asked \cup {Its(k)}
    /\ stray' = IF Its(k) \in reused \ asked /\ Unreaped(Its(k))
                THEN stray \cup {"term"} ELSE stray
    /\ UNCHANGED <<phase, starting, attempts, handle, done, processes, expired, quit, crashes>>

\* p.done, in both selects.
SeeDone(k) ==
    /\ stop[k].at \in {"waiting", "last"} /\ Its(k) \in done
    /\ Return(k)
    /\ UNCHANGED <<control, processes, expired, quit, crashes, stray>>

\* The timer fires.
TimerFires(k) ==
    /\ stop[k].at = "waiting" /\ Move(k, "late")
    /\ UNCHANGED <<control, processes, expired, quit, crashes, stray>>

\* Signal(0).
Probe(k) ==
    /\ stop[k].at = "late"
    /\ Move(k, IF Unreaped(Its(k)) THEN "found" ELSE "last")
    /\ UNCHANGED <<control, processes, expired, quit, crashes, stray>>

\* Mistake: the group is asked once more.
NoneOf(a) == {}

\* Whom SIGKILL ends in a.
GroupOf(a) == {"leader", "helper"}

Killed(a) == IF leader[a] = "running" THEN "zombie" ELSE leader[a]

\* syscall.Kill of the group, by its number; ESRCH is no error.
KillGroup(k) ==
    /\ stop[k].at = "found" /\ Move(k, "last")
    /\ LET a == Its(k) IN
        /\ leader' = IF "leader" \in GroupOf(a) THEN [leader EXCEPT ![a] = Killed(a)] ELSE leader
        /\ helper' = IF "helper" \in GroupOf(a) THEN [helper EXCEPT ![a] = FALSE] ELSE helper
        /\ stray' = IF a \in reused THEN stray \cup {"group"} ELSE stray
    /\ UNCHANGED <<control, reused, expired, quit, crashes>>

\* The deadline of Close passes while Stop waits: the leader alone is killed.
KillLeader(k) ==
    /\ k = Closer /\ expired /\ stop[k].at = "waiting" /\ Move(k, "last")
    /\ LET a == Its(k) IN
        /\ leader' = [leader EXCEPT ![a] = Killed(a)]
        /\ stray' = IF Unreaped(a) /\ a \in reused THEN stray \cup {"kill"} ELSE stray
    /\ UNCHANGED <<control, helper, reused, expired, quit, crashes>>

\* ctx.Done behind the kill: Stop returns an error.
GiveUp(k) ==
    /\ k = Closer /\ expired /\ stop[k].at = "last"
    /\ Return(k)
    /\ UNCHANGED <<control, processes, expired, quit, crashes, stray>>

Expire ==
    /\ ~expired /\ stop[Closer] # Idle /\ expired' = TRUE
    /\ UNCHANGED <<control, processes, stop, quit, crashes, stray>>

------------------------------------------------------------------------------
(* A controller dies, and the next one recovers. *)

Crash ==
    /\ crashes < MaxCrashes /\ crashes' = crashes + 1
    /\ phase' = "down"
    /\ starting' = FALSE /\ handle' = 0
    /\ stop' = [k \in Callers |-> Idle] /\ expired' = FALSE /\ quit' = FALSE
    \* What it had not reaped is reaped by init.
    /\ leader' = [a \in Attempts |-> IF leader[a] = "zombie" THEN "reaped" ELSE leader[a]]
    /\ UNCHANGED <<attempts, done, asked, helper, reused, stray>>

\* Mistake: an answer to core/quit is enough.
Answered == ~Held \/ quit

\* Acquire succeeds: that is the proof that the group has gone.
Gone == ~Held

Recovery == <<starting, attempts, handle, done, asked, processes, calls, crashes, stray>>

\* Recover, up to its first look at the lock.
Recover ==
    /\ phase = "down"
    /\ phase' = IF Gone THEN "free" ELSE "recovering"
    /\ UNCHANGED <<quit, Recovery>>

\* core/quit is answered by a leader that listens; what it does then is its own
\* affair.  A call that fails is made again after the next tick.
Quit ==
    /\ phase = "recovering" /\ ~quit
    /\ \E a \in Attempts : leader[a] = "running"
    /\ quit' = TRUE
    /\ UNCHANGED <<phase, Recovery>>

Recovered ==
    /\ phase = "recovering" /\ Gone
    /\ phase' = "free" /\ quit' = FALSE
    /\ UNCHANGED Recovery

\* The deadline comes first, be the lock free by now or not, or the socket is
\* not ours: the task is blocked.
NotRecovered ==
    /\ phase = "recovering"
    /\ phase' = "blocked" /\ quit' = FALSE
    /\ UNCHANGED Recovery

------------------------------------------------------------------------------
(* rclone and the kernel. *)

\* The leader ends: by itself, at SIGTERM, or after core/quit.
Exit(a) ==
    /\ leader[a] = "running"
    /\ leader' = [leader EXCEPT ![a] = IF a = handle THEN "zombie" ELSE "reaped"]
    /\ UNCHANGED <<control, helper, reused, calls, quit, crashes, stray>>

\* rclone starts something, which outlives it or not.
Help(a) ==
    /\ leader[a] = "running" /\ ~helper[a]
    /\ helper' = [helper EXCEPT ![a] = TRUE]
    /\ UNCHANGED <<control, leader, reused, calls, quit, crashes, stray>>

HelperEnds(a) ==
    /\ helper[a]
    /\ helper' = [helper EXCEPT ![a] = FALSE]
    /\ UNCHANGED <<control, leader, reused, calls, quit, crashes, stray>>

\* The number of a group that is no more is given to a stranger.
Reuse(a) ==
    /\ leader[a] = "reaped" /\ ~helper[a] /\ a \notin reused
    /\ reused' = reused \cup {a}
    /\ UNCHANGED <<control, leader, helper, calls, quit, crashes, stray>>

External == \E a \in Attempts : Exit(a) \/ Help(a) \/ HelperEnds(a) \/ Reuse(a)

Stopping(k) ==
    Terminate(k) \/ SeeDone(k) \/ TimerFires(k) \/ Probe(k) \/ KillGroup(k)
    \/ KillLeader(k) \/ GiveUp(k)

Next ==
    \/ Acquire \/ Fork \/ ForkFails \/ Wait \/ CloseDone
    \/ \E k \in Callers : Call(k) \/ Stopping(k)
    \/ Expire
    \/ Crash \/ Recover \/ Quit \/ Recovered \/ NotRecovered
    \/ External

Spec == Init /\ [][Next]_vars

\* The goroutines run and timers fire.  Nothing is assumed of rclone, which may
\* ignore SIGTERM for ever, nor of the next controller.
FairSpec ==
    /\ Spec
    /\ WF_vars(Wait) /\ WF_vars(CloseDone)
    /\ \A k \in Callers : WF_vars(Stopping(k))

------------------------------------------------------------------------------
\* However controllers die, attempts are started and Stop is late, processes of
\* two attempts never work on the task's objects at a time (runner_unix.go:170).
OneGroup ==
    \A a, b \in Attempts : Alive(a) /\ Alive(b) => a = b

\* The processes, the lock and Start, read as AttemptContract's state.  Whether
\* a task is given up is not the runner's to know.
Stage ==
    CASE starting -> "ready"
      [] OTHER -> IF \E a \in Attempts : Alive(a) THEN "spent" ELSE "rest"
Transfer == INSTANCE AttemptContract WITH
    attempt <- attempts, stage <- Stage, live <- {a \in Attempts : Alive(a)}

\* What the controller relies on: attempts follow one another, each is run at
\* most once, and one begins only when nothing of another is left, however
\* controllers die and whatever outlives them.
AttemptsInTurn == Transfer!Spec

\* A task is free to run again only when nothing of its last attempt is left,
\* its helpers included: recovery then reads the evidence for the last time
\* (runner_unix.go:204).
RecoveredMeansGone ==
    [][phase # "free" /\ phase' = "free" => \A a \in Attempts : ~Alive(a)]_vars

\* No SIGTERM and no kill of the leader reaches a stranger with the same number,
\* however late Stop is and whoever has ended the process meanwhile
\* (runner_unix.go:261).
SignalsAreOurs == stray \cap {"term", "kill"} = {}

\* Stop returns, though rclone may ignore SIGTERM and helpers may outlive it,
\* and though several callers stop the same process.
StopReturns ==
    \A k \in Callers : stop[k] # Idle ~> stop[k] = Idle
==============================================================================
