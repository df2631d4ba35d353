------------------------------ MODULE TaskTypes ------------------------------
(***************************************************************************)
(* The vocabulary every module about tasks shares: the task states of      *)
(* internal/model, the outcomes of a durable write, and the classes of     *)
(* rclone exit codes the controller tells apart.                           *)
(***************************************************************************)

\* A slot in Service.running belongs to a task in one of these states.
ActiveStates == {"starting", "running", "pausing", "cancelling"}

TaskStates == ActiveStates \cup
    {"queued", "retry_wait", "paused", "cancelled", "succeeded", "failed",
     "needs_review", "blocked"}

\* Task.DesiredState; "" is the zero value of a task record that could not be
\* loaded.
Intents == {"run", "pause", "cancel"}

(***************************************************************************)
(* What Store.AtomicWrite may do: publish the document, fail with the old  *)
(* document still in place, or fail after the rename with the new one in   *)
(* place.  The caller cannot tell the two failures apart.                  *)
(***************************************************************************)
Outcomes == {"ok", "lost", "applied"}

\* Exit code 0, exit code 5 (the retryable one), every other code and a kill.
ExitCodes == {"zero", "five", "other"}
==============================================================================
