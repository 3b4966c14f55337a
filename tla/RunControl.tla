------------------------------- MODULE RunControl -------------------------------
(***************************************************************************)
(* What a person does to a Run (run_control.rs, runs_retry_requests.rs)    *)
(* and the cancellation driver (run_cancellation.rs,                       *)
(* run_cancellation_requests.rs), which stops the workers of a cancelled   *)
(* run one target at a time and leaves durable evidence of each closure.   *)
(* The coordinator's own terminal is another target of the same kind and   *)
(* is not modelled.                                                        *)
(***************************************************************************)
EXTENDS RunStore

(* run_command: a command names the control_sequence it saw and consumes   *)
(* it.  MaxSequence bounds the commands of a behaviour.                    *)
Command == /\ ActorFree /\ sequence < MaxSequence
           /\ sequence' = sequence + 1

Pause ==
  /\ Command /\ status = "running"
  /\ status' = "paused"
  /\ UNCHANGED <<closed, taskVars, attemptVars, cancelVars, workerVars, memoryVars, hostVars>>

Resume ==
  /\ Command /\ status = "paused"
  /\ status' = "running"
  /\ UNCHANGED <<closed, taskVars, attemptVars, cancelVars, workerVars, memoryVars, hostVars>>

(* Mutant of CancelTransaction: launches in Attention get no target.       *)
CancelUnsettledLaunches ==
  /\ target' = [a \in Attempts |->
       IF launch[a] \in {"reserved", "starting", "started"} /\ target[a] \in {"none", "attention"}
       THEN "pending" ELSE target[a]]
  /\ integration' = [t \in Tasks |-> IF integration[t] = "attention"
                                     THEN "pending" ELSE integration[t]]
  /\ task' = [t \in Tasks |-> IF task[t] \in {"completed", "cancelled"}
                              THEN task[t] ELSE "cancelled"]
  /\ dispatch' = [a \in Attempts |-> IF dispatch[a] \in ActiveDispatch
                                     THEN "cancelled" ELSE dispatch[a]]
  /\ status' = "cancelled"
  /\ closed' = (closed \/ AllSettled(target'))
  /\ UNCHANGED <<evidence, latest, phase, launch, setups, shutdown>>

(* run_cancellation::cancel, one transaction: a target for every launch,   *)
(* a fresh chance for what needs attention, and no dispatch left active.   *)
CancelTransaction ==
  /\ target' = [a \in Attempts |-> IF launch[a] # "none" /\ target[a] \in {"none", "attention"}
                                   THEN "pending" ELSE target[a]]
  /\ integration' = [t \in Tasks |-> IF integration[t] = "attention"
                                     THEN "pending" ELSE integration[t]]
  /\ task' = [t \in Tasks |-> IF task[t] \in {"completed", "cancelled"}
                              THEN task[t] ELSE "cancelled"]
  /\ dispatch' = [a \in Attempts |-> IF dispatch[a] \in ActiveDispatch
                                     THEN "cancelled" ELSE dispatch[a]]
  /\ status' = "cancelled"
  /\ closed' = (closed \/ AllSettled(target'))
  /\ UNCHANGED <<evidence, latest, phase, launch, setups, shutdown>>

Cancel ==
  /\ Command /\ status \in Accepted
  /\ CancelTransaction
  /\ UNCHANGED <<workerVars, memoryVars, hostVars>>

(* retry_cancellation.                                                     *)
RetryCancellation ==
  /\ Command /\ status = "cancelled"
  /\ \/ \E a \in Attempts : target[a] = "attention"
     \/ \E t \in Tasks : integration[t] = "attention"
  /\ CancelTransaction
  /\ UNCHANGED <<workerVars, memoryVars, hostVars>>

(* start_run_retry: the actor checks the attempt and starts the job.       *)
StartRetry(a, job) ==
  /\ ActorFree /\ At("retry", "idle") /\ status = "paused" /\ a = Current(a[1])
  /\ Take("retry", job, a, job)
  /\ UNCHANGED <<runVars, taskVars, attemptVars, cancelVars, workerVars, hostVars,
                 seen, checks, failing, canc, guards>>

(* can_retry bounds the attempts by MaxAttempts here.                      *)
RetryTask(a) ==
  /\ phase[a] = "attention" /\ task[a[1]] = "pending" /\ a[2] < MaxAttempts
  /\ StartRetry(a, "prepare")

RetryIntegration(a) ==
  /\ task[a[1]] = "completed" /\ integration[a[1]] = "attention"
  /\ StartRetry(a, "integrate")

-----------------------------------------------------------------------------
(* The cancellation driver.                                                *)

NoTarget == [pc |-> "idle", at |-> NoAttempt, ok |-> FALSE]
Close(pc, ok) == canc' = [pc |-> pc, at |-> canc.at, ok |-> ok]

DriverOnly == UNCHANGED <<sequence, status, evidence, integration, latest, setups, proc,
                          spawned, lane, seen, checks, failing, hostVars>>

(* workflow_cancellation_page: only pending targets of cancelled runs.     *)
PickTarget(a) ==
  /\ host = "ready" /\ canc.pc = "idle" /\ status = "cancelled" /\ target[a] = "pending"
  /\ canc' = [pc |-> "terminal", at |-> a, ok |-> FALSE]
  /\ DriverOnly
  /\ UNCHANGED <<closed, task, phase, launch, dispatch, cancelVars, session, guards>>

(* cancel_workflow_terminal on the actor.  A session that was never asked  *)
(* to shut down is captured, the barrier is committed, and only then is it *)
(* terminated.                                                             *)
BeginShutdown ==
  /\ ActorFree /\ canc.pc = "terminal"
  /\ session[canc.at] # "none" /\ shutdown[canc.at] = "unstarted"
  /\ shutdown' = [shutdown EXCEPT ![canc.at] = "started"]
  /\ Terminate(canc.at)
  /\ Close("wait", FALSE)
  /\ DriverOnly
  /\ UNCHANGED <<closed, target, guards>>

(* A guard retained by an earlier attempt of the driver is waited for.     *)
ReuseGuard ==
  /\ ActorFree /\ canc.pc = "terminal" /\ canc.at \in guards
  /\ session[canc.at] \notin Live \/ shutdown[canc.at] = "unstarted"
  /\ session[canc.at] = "none" \/ shutdown[canc.at] # "unstarted"
  /\ guards' = guards \ {canc.at}
  /\ Close("wait", FALSE)
  /\ DriverOnly
  /\ UNCHANGED <<closed, task, phase, launch, dispatch, cancelVars, session>>

(* No session, no guard and no open shutdown: the terminal is closed.      *)
AlreadyClosed ==
  /\ ActorFree /\ canc.pc = "terminal" /\ canc.at \notin guards
  /\ \/ session[canc.at] = "none" /\ shutdown[canc.at] = "unstarted"
     \/ session[canc.at] \notin Live /\ shutdown[canc.at] = "verified"
  /\ Close("settle", TRUE)
  /\ DriverOnly
  /\ UNCHANGED <<closed, task, phase, launch, dispatch, cancelVars, session, guards>>

(* The command answers an error: the guard cannot be captured, a session   *)
(* is live although its shutdown began, or the host restarted in between.  *)
CannotClose ==
  /\ ActorFree /\ canc.pc = "terminal"
  /\ \/ session[canc.at] # "none" /\ shutdown[canc.at] = "unstarted"
     \/ session[canc.at] \in Live /\ shutdown[canc.at] # "unstarted"
     \/ shutdown[canc.at] = "started" /\ canc.at \notin guards
  /\ Close("settle", FALSE)
  /\ DriverOnly
  /\ UNCHANGED <<closed, task, phase, launch, dispatch, cancelVars, session, guards>>

(* Mutant of ShutdownVerified: the processes are not waited for.           *)
VerifyWithoutWaiting ==
  /\ canc.pc = "wait"
  /\ shutdown' = [shutdown EXCEPT ![canc.at] = "verified"]
  /\ Close("settle", TRUE)
  /\ DriverOnly
  /\ UNCHANGED <<closed, task, phase, launch, dispatch, target, session, guards>>

(* finish_shutdown: the guard sees every captured process gone, and the    *)
(* closure is recorded ...                                                 *)
ShutdownVerified ==
  /\ canc.pc = "wait" /\ ~proc[canc.at]
  /\ shutdown' = [shutdown EXCEPT ![canc.at] = "verified"]
  /\ Close("settle", TRUE)
  /\ DriverOnly
  /\ UNCHANGED <<closed, task, phase, launch, dispatch, target, session, guards>>

(* Mutant of ShutdownTimesOut: the wait has no deadline.                   *)
ShutdownNeverTimesOut ==
  /\ ActorFree /\ canc.pc = "wait" /\ ~proc[canc.at]
  /\ guards' = guards \cup {canc.at}
  /\ Close("settle", FALSE)
  /\ DriverOnly
  /\ UNCHANGED <<closed, task, phase, launch, dispatch, cancelVars, session>>

(* ... or the wait fails and the actor retains the guard.                  *)
ShutdownTimesOut ==
  /\ ActorFree /\ canc.pc = "wait"
  /\ guards' = guards \cup {canc.at}
  /\ Close("settle", FALSE)
  /\ DriverOnly
  /\ UNCHANGED <<closed, task, phase, launch, dispatch, cancelVars, session>>

(* Mutant of SettleTarget: the error of the closure is dropped.            *)
SettleDespiteError ==
  /\ canc.pc = "settle"
  /\ target' = [target EXCEPT ![canc.at] = IF @ = "pending" THEN "settled" ELSE @]
  /\ closed' = (closed \/ AllSettled(target'))
  /\ canc' = NoTarget
  /\ DriverOnly
  /\ UNCHANGED <<task, phase, launch, dispatch, shutdown, session, guards>>

(* settle_workflow_cancellation: without an error only when no shutdown is *)
(* open, otherwise the target needs attention; a target that is no longer  *)
(* pending keeps its state.                                                *)
SettleTarget ==
  /\ canc.pc = "settle"
  /\ LET next == IF canc.ok /\ shutdown[canc.at] # "started" THEN "settled" ELSE "attention"
     IN  target' = [target EXCEPT ![canc.at] = IF @ = "pending" THEN next ELSE @]
  /\ closed' = (closed \/ AllSettled(target'))
  /\ canc' = NoTarget
  /\ DriverOnly
  /\ UNCHANGED <<task, phase, launch, dispatch, shutdown, session, guards>>

(* reconcile_cancelled, after a page of targets: the checkout of a         *)
(* cancelled integration is inspected under the lock.                      *)
ReconcileCancelled(t) ==
  /\ host = "ready" /\ canc.pc = "idle" /\ status = "cancelled"
  /\ integration[t] = "pending" /\ LockFree
  /\ \E s \in {"settled", "attention"} : integration' = [integration EXCEPT ![t] = s]
  /\ UNCHANGED <<runVars, task, evidence, attemptVars, cancelVars, workerVars,
                 memoryVars, hostVars>>
=============================================================================
