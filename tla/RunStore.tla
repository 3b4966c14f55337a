------------------------------- MODULE RunStore -------------------------------
(***************************************************************************)
(* The state of one isolated Run: the SQLite rows the runtime store keeps  *)
(* (rust/alera-core/src/runtime/run_*.rs), the terminal sessions and       *)
(* worker processes of the host, and the volatile bookkeeping of the host  *)
(* actor and of its off-actor lanes.  The operators below are the store's  *)
(* reads and transactions that several handlers share; the handlers are in *)
(* RunScheduler, RunWorker, RunControl and RunEngine.                      *)
(*                                                                         *)
(* Abstractions.  The plan is one accepted revision with no stage gates    *)
(* (gates and replanning are another component), the integration workspace *)
(* is already ready, and a task's `pending' and `ready' states are the one *)
(* value "pending": for an isolated run no statement tells them apart.     *)
(***************************************************************************)
EXTENDS Integers, FiniteSets

CONSTANTS
  Tasks,            \* the tasks of the accepted plan
  Deps,             \* Deps[t]: the tasks t depends on (depends_on)
  NoAttempt,        \* the "no attempt" of an idle lane, actor or driver
  MaxConcurrent,    \* max_concurrent of the frozen plan
  MaxAttempts,      \* bound: attempts per task
  MaxSequence,      \* bound: control_sequence
  MaxCrashes,       \* bound: host crashes
  HistoryFailures   \* whether terminal history may lag behind or fail

ASSUME TasksAssumption == IsFiniteSet(Tasks)
ASSUME DepsAssumption == Deps \in [Tasks -> SUBSET Tasks]
ASSUME BoundsAssumption == /\ MaxConcurrent \in Nat \ {0}
                           /\ MaxAttempts \in Nat
                           /\ MaxSequence \in Nat
                           /\ MaxCrashes \in Nat
ASSUME HistoryAssumption == HistoryFailures \in BOOLEAN

(* An attempt is a row of runWorkspaces, named by its task and number.     *)
(* Number 0 stands for "no workspace yet".                                 *)
Attempts == Tasks \X (0..MaxAttempts)

ASSUME NoAttemptAssumption == NoAttempt \notin Attempts

VARIABLES
  status,       \* orchestrationCoordinatorRuns.status
  sequence,     \* .control_sequence
  closed,       \* a cancelled run's completed_at is set
  task,         \* orchestrationTasks.status
  evidence,     \* the tasks with a current runTaskEvidence row
  integration,  \* runIntegrations.state of the task ("settled": cancelled=1)
  latest,       \* MAX(runWorkspaces.attempt), 0 without a workspace
  phase,        \* runWorkspaces.phase
  launch,       \* runLaunches.status
  dispatch,     \* orchestrationDispatchContexts.status
  setups,       \* history: how often the project setup ran in the attempt
  target,       \* runCancellationTargets.state
  shutdown,     \* runTerminalShutdowns.state
  session,      \* the host's session of the attempt's terminal
  proc,         \* the attempt's worker process exists
  spawned,      \* history: how often a worker was spawned for the attempt
  lane,         \* the off-actor lanes: the scheduler pass, a retry, recovery
  seen,         \* control_sequence the scheduler pass read with its page
  checks,       \* completions whose Git verification is in flight
  failing,      \* the attempt whose failure the actor is settling
  canc,         \* the cancellation driver
  guards,       \* process guards retained in memory by the driver
  host,         \* life cycle of the host process
  crashes       \* number of crashes so far

runVars     == <<status, sequence, closed>>
taskVars    == <<task, evidence, integration>>
attemptVars == <<latest, phase, launch, dispatch, setups>>
cancelVars  == <<target, shutdown>>
workerVars  == <<session, proc, spawned>>
memoryVars  == <<lane, seen, checks, failing, canc, guards>>
hostVars    == <<host, crashes>>
vars == <<runVars, taskVars, attemptVars, cancelVars, workerVars, memoryVars, hostVars>>

-----------------------------------------------------------------------------
(* The values of the columns.  "reserved" of a workspace stands for its    *)
(* reserved, creating and created phases, each of which recovery resumes.  *)

RunStatus      == {"running", "paused", "completed", "cancelled"}
TaskStatus     == {"pending", "dispatched", "stalled", "completed", "cancelled"}
Integration    == {"none", "pending", "integrated", "conflict", "attention", "settled"}
Phase          == {"none", "reserved", "setupRunning", "ready", "attention"}
LaunchStatus   == {"none", "reserved", "starting", "started", "attention"}
DispatchStatus == {"none", "awaiting", "dispatched", "stalled", "completed",
                   "failed", "startup_failed", "cancelled"}
TargetState    == {"none", "pending", "settled", "attention"}
ShutdownState  == {"unstarted", "started", "verified"}

(* A "closing" session was asked to terminate before its history was       *)
(* written: it stays in the session table and its process is not killed.   *)
SessionState   == {"none", "running", "closing", "exited"}

Lanes   == {"pump", "retry", "boot"}
LanePcs == {"idle", "step", "execute", "complete", "pause",
            "prepare", "create", "setup", "launch", "claim", "refused",
            "spawn", "mark", "integrate", "apply"}
LaneJobs == {"none", "prepare", "launch", "integrate"}
CancPcs == {"idle", "terminal", "wait", "settle"}

Accepted       == {"running", "paused"}
ActiveDispatch == {"awaiting", "dispatched", "stalled"}
Live           == {"running", "closing"}

-----------------------------------------------------------------------------
(* Reads the handlers share.                                               *)

Current(t) == <<t, latest[t]>>

(* A task's result is integrated: completed, with matching evidence.       *)
Integrated(t) == task[t] = "completed" /\ t \in evidence

(* Mutant of EligibleIn: the dependencies are not looked at.               *)
EligibleAtOnce(t, states) == task[t] \in states

(* eligible_task_state: the task's state, and evidence for every dependency*)
EligibleIn(t, states) == task[t] \in states /\ \A d \in Deps[t] : Integrated(d)

(* approved_plan together with eligible_task.                              *)
Eligible(t) == status \in Accepted /\ EligibleIn(t, {"pending"})

(* The attempts that count against max_concurrent in the store's SQL.      *)
ActiveAttempts ==
  {a \in Attempts : /\ phase[a] \notin {"none", "attention"}
                    /\ ~(dispatch[a] = "none" /\ task[a[1]] = "cancelled")
                    /\ dispatch[a] \notin {"completed", "failed", "startup_failed"}}

Unsettled(t) == integration[t] \in {"pending", "attention"}

(* run_launch_validation::inputs.                                          *)
Inputs(a, states) ==
  /\ status = "running"
  /\ \A t \in Tasks : ~Unsettled(t)
  /\ EligibleIn(a[1], states)
  /\ phase[a] = "ready"
  /\ a = Current(a[1])
  /\ Cardinality(ActiveAttempts) <= MaxConcurrent

(* require_workflow_launch_spawnable.                                      *)
Spawnable(a) ==
  /\ launch[a] = "starting"
  /\ Inputs(a, {"dispatched"})
  /\ dispatch[a] = "awaiting"

-----------------------------------------------------------------------------
(* Transactions the handlers share.                                        *)

(* settle_workflow_launch_without_session: the attempt is retained in      *)
(* Attention, and its task returns to pending unless a later attempt, a    *)
(* completion or a cancellation owns it.                                   *)
SettleWithoutSession(a) ==
  IF launch[a] = "none" \/ dispatch[a] = "completed"
  THEN UNCHANGED <<task, phase, launch, dispatch>>
  ELSE /\ launch' = [launch EXCEPT ![a] = "attention"]
       /\ phase' = [phase EXCEPT ![a] = "attention"]
       /\ dispatch' = [dispatch EXCEPT ![a] =
                         IF @ \in ActiveDispatch THEN "startup_failed" ELSE @]
       /\ task' = [task EXCEPT ![a[1]] =
                     IF /\ @ \in {"pending", "dispatched", "stalled"}
                        /\ status \in Accepted
                        /\ a = Current(a[1])
                     THEN "pending" ELSE @]

(* terminate_sessions_for_tab: the session is removed and its process      *)
(* killed, or, while its history is not written yet, only marked.          *)
RemoveSession(a) == session' = [session EXCEPT ![a] = "none"]
DeferRemoval(a) ==
  /\ HistoryFailures /\ session[a] # "none"
  /\ session' = [session EXCEPT ![a] = IF @ = "running" THEN "closing" ELSE @]

(* A removal settles the launch in the same loop; a deferred one does not. *)
Terminate(a) ==
  \/ RemoveSession(a) /\ SettleWithoutSession(a)
  \/ DeferRemoval(a) /\ UNCHANGED <<task, phase, launch, dispatch>>

(* The host actor runs one command at a time; it is in the middle of one   *)
(* while it spawns a worker or settles a failed one.                       *)
ActorFree == /\ host \in {"recovering", "ready"}
             /\ failing = NoAttempt
             /\ lane["pump"].pc # "mark"

(* Preparation, launch and integration hold the integration workspace's    *)
(* lock for as long as the lane stays in one of these steps.               *)
Locked == {"create", "setup", "claim", "refused", "spawn", "mark", "apply"}
LockFree == \A l \in Lanes : lane[l].pc \notin Locked

Idle == [pc |-> "idle", at |-> NoAttempt, job |-> "none"]
At(l, pc) == lane[l].pc = pc
Take(l, pc, a, job) == lane' = [lane EXCEPT ![l] = [pc |-> pc, at |-> a, job |-> job]]
Goto(l, pc) == Take(l, pc, lane[l].at, lane[l].job)
Finish(l) == Take(l, "idle", NoAttempt, "none")

(* An error ends a lane's job; the scheduler pass pauses the run first.    *)
Fail(l) == IF l = "pump" THEN Goto(l, "pause") ELSE Finish(l)

(* run_cancellation::finish, over the targets as they are after the step.  *)
AllSettled(tgt) == \A a \in Attempts : tgt[a] \in {"none", "settled"}
=============================================================================
