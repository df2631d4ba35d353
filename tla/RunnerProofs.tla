----------------------------- MODULE RunnerProofs -----------------------------
(***************************************************************************)
(* Proofs about Runner, for any number of callers of Stop, of attempts and *)
(* of controllers that die.                                                *)
(*                                                                         *)
(* OneGroup is not inductive: it does not say that nothing runs while      *)
(* Start holds the lock (Apart), nor that the attempt about to be forked   *)
(* has no process yet (Fresh).  That signals find their process rests on   *)
(* the numbers in use (Reaped).                                            *)
(***************************************************************************)
EXTENDS Runner, TLAPS

\* While Start holds the lock nothing else of the task runs.
Apart == starting => \A a \in Attempts : ~Alive(a)

\* An attempt that has not been forked has no process.
Fresh ==
    /\ starting => attempts \in Attempts /\ leader[attempts] = "none"
    /\ \A a \in Attempts : a > attempts => leader[a] = "none"
    /\ \A a \in Attempts : leader[a] = "none" => ~helper[a]

\* A number is used again only when its group has gone.
Reaped == \A a \in reused : leader[a] = "reaped" /\ ~helper[a]

Inv == TypeOK /\ OneGroup /\ Apart /\ Fresh /\ Reaped /\ SignalsAreOurs

\* A new task has no process.
LEMMA InitInv == Init => Inv
<1> SUFFICES ASSUME Init PROVE Inv
  OBVIOUS
<1>1. 0 \in 0 .. MaxAttempts /\ 0 \in 0 .. MaxCrashes
  BY RunnerAssumption
<1>2. TypeOK
  BY <1>1 DEF Init, TypeOK, Phases, Leaders
<1>3. \A a \in Attempts : ~Alive(a)
  BY DEF Init, Alive
<1>4. Fresh
  BY DEF Init, Fresh
<1>5. QED
  BY <1>2, <1>3, <1>4 DEF Init, Inv, OneGroup, Apart, Reaped, SignalsAreOurs

\* Start, and the goroutine that waits for its process.
LEMMA StartKeepsInv ==
  ASSUME Inv, Acquire \/ Fork \/ ForkFails \/ Wait \/ CloseDone
  PROVE  Inv'
<1> USE RunnerAssumption DEF Inv, Attempts
<1>1. CASE Acquire
  <2>1. \A a \in Attempts : ~Alive(a)
    BY <1>1 DEF Acquire, Held, Inherited
  <2>2. TypeOK'
    BY <1>1 DEF Acquire, TypeOK, processes, calls
  <2>3. (OneGroup /\ Apart /\ Reaped /\ SignalsAreOurs)'
    BY <1>1, <2>1 DEF Acquire, OneGroup, Apart, Reaped, SignalsAreOurs, Alive, processes
  <2>4. Fresh'
    BY <1>1 DEF Acquire, Fresh, TypeOK, processes
  <2>5. QED BY <2>2, <2>3, <2>4
<1>2. CASE Fork
  <2>1. TypeOK'
    BY <1>2 DEF Fork, TypeOK, Fresh, Leaders, calls
  <2>2. \A a \in Attempts : Alive(a)' => a = attempts
    BY <1>2 DEF Fork, Apart, Alive, TypeOK
  <2>3. OneGroup' /\ Apart'
    BY <1>2, <2>2 DEF Fork, OneGroup, Apart
  <2>4. Fresh'
    BY <1>2 DEF Fork, Fresh, TypeOK
  <2>5. Reaped' /\ SignalsAreOurs'
    BY <1>2 DEF Fork, Reaped, Fresh, TypeOK, SignalsAreOurs
  <2>6. QED BY <2>1, <2>3, <2>4, <2>5
<1>3. CASE ForkFails
  BY <1>3 DEF ForkFails, TypeOK, OneGroup, Apart, Fresh, Reaped, SignalsAreOurs, Alive,
              processes, calls
<1>4. CASE Wait
  BY <1>4 DEF Wait, TypeOK, OneGroup, Apart, Fresh, Reaped, SignalsAreOurs, Alive,
              control, calls, Leaders
<1>5. CASE CloseDone
  BY <1>5 DEF CloseDone, TypeOK, OneGroup, Apart, Fresh, Reaped, SignalsAreOurs, Alive,
              processes, calls
<1>6. QED BY <1>1, <1>2, <1>3, <1>4, <1>5

\* Stop, of whatever attempt and however late: its kills end only what is there.
LEMMA StopKeepsInv ==
  ASSUME Inv, NEW k \in Callers, Call(k) \/ Stopping(k)
  PROVE  Inv'
<1> USE RunnerAssumption DEF Inv, Attempts
<1>0. stop[k] # Idle => stop[k].of \in Attempts /\ stop[k].at \in InStop
  BY DEF TypeOK
<1>1. CASE Call(k)
  <2>1. TypeOK'
    BY <1>1 DEF Call, TypeOK, InStop, Idle, control, processes
  <2>2. QED
    BY <1>1, <2>1 DEF Call, OneGroup, Apart, Fresh, Reaped, SignalsAreOurs, Alive, control,
                      processes
<1>2. CASE Terminate(k) \/ TimerFires(k) \/ Probe(k) \/ SeeDone(k) \/ GiveUp(k)
  <2>1. Its(k) \in Attempts /\ stop[k] \in [at : InStop, of : Attempts]
    BY <1>0, <1>2 DEF Terminate, TimerFires, Probe, SeeDone, GiveUp, Its, Idle, TypeOK
  <2>2. stop' \in [Callers -> [at : InStop, of : Attempts] \cup {Idle}]
    BY <1>2, <2>1 DEF Terminate, TimerFires, Probe, SeeDone, GiveUp, Move, Return, TypeOK,
                      InStop
  <2>3. stray' = stray
    BY <1>2, <2>1 DEF Terminate, TimerFires, Probe, SeeDone, GiveUp, Unreaped, Reaped
  <2>4. asked' \subseteq Attempts
    BY <1>2, <2>1 DEF Terminate, TimerFires, Probe, SeeDone, GiveUp, TypeOK, control
  <2>5. TypeOK'
    BY <1>2, <2>2, <2>3, <2>4
       DEF Terminate, TimerFires, Probe, SeeDone, GiveUp, TypeOK, control, processes
  <2>6. QED
    BY <1>2, <2>3, <2>5
       DEF Terminate, TimerFires, Probe, SeeDone, GiveUp, OneGroup, Apart, Fresh, Reaped,
           SignalsAreOurs, Alive, control, processes
<1>3. CASE KillGroup(k)
  <2>1. Its(k) \in Attempts /\ stop[k] \in [at : InStop, of : Attempts]
    BY <1>0, <1>3 DEF KillGroup, Its, Idle, TypeOK
  <2>2. /\ stop' \in [Callers -> [at : InStop, of : Attempts] \cup {Idle}]
        /\ stray' \subseteq stray \cup {"group"}
    BY <1>3, <2>1 DEF KillGroup, Move, TypeOK, InStop
  <2>3. /\ leader' = [leader EXCEPT ![Its(k)] = Killed(Its(k))]
        /\ helper' = [helper EXCEPT ![Its(k)] = FALSE]
    BY <1>3 DEF KillGroup, GroupOf
  <2>4. \A a \in Attempts : Alive(a)' => Alive(a)
    BY <2>1, <2>3 DEF Alive, Killed, TypeOK
  <2>5. TypeOK'
    BY <1>3, <2>1, <2>2, <2>3 DEF KillGroup, TypeOK, Killed, Leaders, control
  <2>6. Fresh' /\ Reaped'
    BY <1>3, <2>1, <2>3 DEF KillGroup, Fresh, Reaped, Killed, TypeOK, control
  <2>7. QED
    BY <1>3, <2>2, <2>4, <2>5, <2>6 DEF KillGroup, OneGroup, Apart, SignalsAreOurs, control
<1>4. CASE KillLeader(k)
  <2>1. Its(k) \in Attempts /\ stop[k] \in [at : InStop, of : Attempts]
    BY <1>0, <1>4 DEF KillLeader, Its, Idle, TypeOK
  <2>2. /\ stop' \in [Callers -> [at : InStop, of : Attempts] \cup {Idle}]
        /\ stray' = stray
    BY <1>4, <2>1 DEF KillLeader, Move, TypeOK, InStop, Unreaped, Reaped
  <2>3. leader' = [leader EXCEPT ![Its(k)] = Killed(Its(k))] /\ helper' = helper
    BY <1>4 DEF KillLeader
  <2>4. \A a \in Attempts : Alive(a)' => Alive(a)
    BY <2>1, <2>3 DEF Alive, Killed, TypeOK
  <2>5. TypeOK'
    BY <1>4, <2>1, <2>2, <2>3 DEF KillLeader, TypeOK, Killed, Leaders, control
  <2>6. Fresh' /\ Reaped'
    BY <1>4, <2>1, <2>3 DEF KillLeader, Fresh, Reaped, Killed, TypeOK, control
  <2>7. QED
    BY <1>4, <2>2, <2>4, <2>5, <2>6 DEF KillLeader, OneGroup, Apart, SignalsAreOurs, control
<1>5. QED BY <1>1, <1>2, <1>3, <1>4 DEF Stopping

\* Controllers that die and recover.
LEMMA ControllersKeepInv ==
  ASSUME Inv, Expire \/ Crash \/ Recover \/ Quit \/ Recovered \/ NotRecovered
  PROVE  Inv'
<1> USE RunnerAssumption DEF Inv, Attempts
<1>1. CASE Crash
  <2>0. /\ crashes' \in 0 .. MaxCrashes
        /\ leader' \in [Attempts -> Leaders]
        /\ handle' \in 0 .. MaxAttempts
    BY <1>1 DEF Crash, TypeOK, Leaders
  <2>1. TypeOK'
    BY <1>1, <2>0 DEF Crash, TypeOK, Phases
  <2>2. \A a \in Attempts : Alive(a)' <=> Alive(a)
    BY <1>1 DEF Crash, Alive
  <2>3. Fresh' /\ Reaped'
    BY <1>1 DEF Crash, Fresh, Reaped, TypeOK
  <2>4. QED
    BY <1>1, <2>1, <2>2, <2>3 DEF Crash, OneGroup, Apart, SignalsAreOurs
<1>2. CASE Expire \/ Recover \/ Quit \/ Recovered \/ NotRecovered
  <2>1. TypeOK'
    BY <1>2 DEF Expire, Recover, Quit, Recovered, NotRecovered, Recovery, TypeOK, Phases,
                control, processes, calls
  <2>2. QED
    BY <1>2, <2>1
       DEF Expire, Recover, Quit, Recovered, NotRecovered, Recovery, OneGroup, Apart, Fresh,
           Reaped, SignalsAreOurs, Alive, control, processes, calls
<1>3. QED BY <1>1, <1>2

\* rclone, its helpers and the kernel.
LEMMA ExternalKeepsInv ==
  ASSUME Inv, NEW a \in Attempts, Exit(a) \/ Help(a) \/ HelperEnds(a) \/ Reuse(a)
  PROVE  Inv'
<1> USE RunnerAssumption DEF Inv, Attempts
<1>1. \A b \in Attempts : Alive(b)' => Alive(b)
  BY DEF Exit, Help, HelperEnds, Reuse, Alive, TypeOK
<1>2. TypeOK'
  BY DEF Exit, Help, HelperEnds, Reuse, TypeOK, Leaders, control, calls
<1>3. Fresh'
  BY DEF Exit, Help, HelperEnds, Reuse, Fresh, TypeOK, control
<1>5. Reaped'
  <2>1. CASE Exit(a)
    BY <2>1 DEF Exit, Reaped, TypeOK
  <2>2. CASE Help(a)
    BY <2>2 DEF Help, Reaped, TypeOK
  <2>3. CASE HelperEnds(a)
    BY <2>3 DEF HelperEnds, Reaped, TypeOK
  <2>4. CASE Reuse(a)
    BY <2>4 DEF Reuse, Reaped
  <2>5. QED BY <2>1, <2>2, <2>3, <2>4
<1>4. QED
  BY <1>1, <1>2, <1>3, <1>5
     DEF Exit, Help, HelperEnds, Reuse, OneGroup, Apart, SignalsAreOurs, control

\* Steps of others.
LEMMA StutterKeepsInv == ASSUME Inv, UNCHANGED vars PROVE Inv'
  BY DEF Inv, TypeOK, OneGroup, Apart, Fresh, Reaped, SignalsAreOurs, Alive, vars, control,
         processes, calls

\* The invariant is inductive.
LEMMA StepKeepsInv == ASSUME Inv, [Next]_vars PROVE Inv'
<1>1. CASE \E k \in Callers : Call(k) \/ Stopping(k)
  BY <1>1, StopKeepsInv
<1>2. CASE External
  BY <1>2, ExternalKeepsInv DEF External
<1>3. CASE UNCHANGED vars
  BY <1>3, StutterKeepsInv
<1>4. QED
  BY <1>1, <1>2, <1>3, StartKeepsInv, ControllersKeepInv DEF Next

\* The invariant, of which the two theorems after it are parts.
THEOREM RunnerCorrect == Spec => []Inv
  BY InitInv, StepKeepsInv, PTL DEF Spec

\* Processes of two attempts of a task never run at a time.
THEOREM GroupsApart == Spec => []OneGroup
<1>1. Inv => OneGroup
  BY DEF Inv
<1>2. QED BY <1>1, RunnerCorrect, PTL

\* SIGTERM and the kill of a leader never reach a stranger.
THEOREM SignalsFindOurs == Spec => []SignalsAreOurs
<1>1. Inv => SignalsAreOurs
  BY DEF Inv
<1>2. QED BY <1>1, RunnerCorrect, PTL

\* A task becomes free again only in a step that finds none of its processes.
THEOREM RecoveryIsProof == Spec => RecoveredMeansGone
<1>1. ASSUME [Next]_vars, phase # "free", phase' = "free"
      PROVE  \A a \in Attempts : ~Alive(a)
  <2>1. Recover \/ Recovered
    BY <1>1 DEF Next, vars, Acquire, Fork, ForkFails, Wait, CloseDone, Call, Stopping,
                Terminate, SeeDone, TimerFires, Probe, KillGroup, KillLeader, GiveUp, Expire,
                Crash, Quit, NotRecovered, Recovery, External, Exit, Help, HelperEnds, Reuse,
                control
  <2>2. QED
    BY <2>1, <1>1 DEF Recover, Recovered, Gone, Held, Inherited
<1>2. [Next]_vars => [phase # "free" /\ phase' = "free" => \A a \in Attempts : ~Alive(a)]_vars
  BY <1>1
<1>3. QED BY <1>2, PTL DEF Spec, RecoveredMeansGone

------------------------------------------------------------------------------
(***************************************************************************)
(* Runner implements AttemptContract.                                      *)
(***************************************************************************)

\* Only Start adds an attempt or a process; everything else ends some.
LEMMA OthersOnlyEnd ==
  ASSUME Inv, [Next]_vars
  PROVE  \/ Acquire \/ Fork
         \/ /\ attempts' = attempts /\ (starting' => starting)
            /\ \A a \in Attempts : Alive(a)' => Alive(a)
<1> USE RunnerAssumption DEF Inv, Attempts
<1>1. CASE ForkFails \/ Wait \/ CloseDone
  BY <1>1 DEF ForkFails, Wait, CloseDone, Alive, TypeOK, processes, control
<1>2. ASSUME NEW k \in Callers, Call(k) \/ Stopping(k)
      PROVE  /\ attempts' = attempts /\ starting' = starting
             /\ \A a \in Attempts : Alive(a)' => Alive(a)
  <2>1. CASE KillGroup(k) \/ KillLeader(k)
    <3>1. stop[k] \in [at : InStop, of : Attempts]
      BY <2>1 DEF KillGroup, KillLeader, TypeOK, Idle
    <3>2. \A a \in Attempts : Alive(a)' => Alive(a)
      BY <2>1, <3>1 DEF KillGroup, KillLeader, Killed, Alive, Its, TypeOK
    <3>3. QED BY <2>1, <3>2 DEF KillGroup, KillLeader, control
  <2>2. QED
    BY <1>2, <2>1 DEF Call, Stopping, Terminate, SeeDone, TimerFires, Probe, GiveUp, Alive,
                      processes, control
<1>3. CASE Expire \/ Crash \/ Recover \/ Quit \/ Recovered \/ NotRecovered
  BY <1>3 DEF Expire, Crash, Recover, Quit, Recovered, NotRecovered, Recovery, Alive, TypeOK,
              processes, control
<1>4. CASE External
  BY <1>4 DEF External, Exit, Help, HelperEnds, Reuse, Alive, TypeOK, control
<1>5. CASE UNCHANGED vars
  BY <1>5 DEF vars, control, processes, Alive
<1>6. QED BY <1>1, <1>2, <1>3, <1>4, <1>5 DEF Next

\* Processes that end leave none, or all there were: they are of one attempt.
LEMMA StepInTurn ==
  ASSUME Inv, [Next]_vars
  PROVE  [Transfer!Next]_(Transfer!vars)
<1> DEFINE Live == {a \in Attempts : Alive(a)}
<1> USE RunnerAssumption DEF Inv, Attempts
<1>0. attempts \in Nat /\ (starting => Live = {})
  BY DEF TypeOK, Apart
<1>1. CASE Acquire
  <2>1. Live = {} /\ Live' = {}
    BY <1>1 DEF Acquire, Held, Inherited, Alive, processes
  <2>2. Stage = "rest" /\ Stage' = "ready"
    BY <1>1, <2>1 DEF Acquire, Stage
  <2>3. attempts' \in Nat /\ attempts' > attempts
    BY <1>0, <1>1 DEF Acquire
  <2>4. Transfer!Grant
    BY <2>1, <2>2, <2>3 DEF Transfer!Grant
  <2>5. QED BY <2>4 DEF Transfer!Next
<1>2. CASE Fork
  <2>1. Live = {} /\ Live' = {attempts}
    BY <1>0, <1>2 DEF Fork, Alive, TypeOK, Fresh
  <2>2. Stage = "ready" /\ Stage' = "spent"
    BY <1>2, <2>1 DEF Fork, Stage
  <2>3. Transfer!Begin
    BY <1>2, <2>1, <2>2 DEF Transfer!Begin, Fork
  <2>4. QED BY <2>3 DEF Transfer!Next
<1>3. CASE /\ attempts' = attempts /\ (starting' => starting)
           /\ \A a \in Attempts : Alive(a)' => Alive(a)
  <2>1. Live' = Live \/ Live' = {}
    BY <1>3 DEF OneGroup
  <2>2. starting \in BOOLEAN /\ starting' \in BOOLEAN
    BY StepKeepsInv DEF TypeOK
  <2>3. CASE starting' = starting /\ Live' = Live
    <3>1. Stage' = Stage
      BY <2>3 DEF Stage
    <3>2. QED BY <1>3, <2>3, <3>1 DEF Transfer!vars
  <2>4. CASE ~(starting' = starting /\ Live' = Live)
    <3>1. Live' = {} /\ ~starting'
      BY <1>0, <1>3, <2>1, <2>2, <2>4
    <3>2. starting \/ Live # {}
      BY <1>3, <2>2, <2>4, <3>1
    <3>3. Stage \in {"ready", "spent"} /\ Stage' = "rest"
      BY <3>1, <3>2 DEF Stage
    <3>4. Transfer!Settle
      BY <1>3, <3>1, <3>3 DEF Transfer!Settle
    <3>5. QED BY <3>4 DEF Transfer!Next
  <2>5. QED BY <2>3, <2>4
<1>4. QED BY <1>1, <1>2, <1>3, OthersOnlyEnd

\* Start, Stop, Recover and whatever outlives a controller implement the
\* contract the scheduler and the ledger build on.
THEOREM RunsInTurn == Spec => AttemptsInTurn
<1>1. Init => Transfer!Init
  <2> SUFFICES ASSUME Init PROVE Transfer!Init
    OBVIOUS
  <2>1. {a \in Attempts : Alive(a)} = {}
    BY DEF Init, Alive
  <2>2. QED BY <2>1 DEF Init, Transfer!Init, Stage
<1>2. Inv /\ [Next]_vars => [Transfer!Next]_(Transfer!vars)
  BY StepInTurn
<1>3. QED
  BY <1>1, <1>2, RunnerCorrect, PTL DEF Spec, AttemptsInTurn, Transfer!Spec
==============================================================================
