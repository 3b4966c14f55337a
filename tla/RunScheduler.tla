----------------------------- MODULE RunScheduler -----------------------------
(***************************************************************************)
(* The scheduler pass of an isolated Run (run_scheduler_pump.rs with       *)
(* run_execution*.rs), and the managed-worktree jobs it drives: attempt    *)
(* preparation (managed_workspace/run.rs), the one-shot worker launch      *)
(* (run/launch.rs, run_launch_requests.rs) and integration                 *)
(* (run/integration.rs; a merge and its record are one step here).         *)
(* Preparation and integration also run in the retry lane and in the       *)
(* recovery lane of a starting host, so they take the lane as a parameter. *)
(* Git, the project setup and the PTY are external: each may fail.         *)
(***************************************************************************)
EXTENDS RunStore

-----------------------------------------------------------------------------
(* The pass: page, step, execute.                                          *)

(* workflow_execution_page: the pass starts from a snapshot of the run.    *)
ReadPage ==
  /\ host = "ready" /\ At("pump", "idle") /\ status = "running"
  /\ seen' = sequence
  /\ Goto("pump", "step")
  /\ UNCHANGED <<runVars, taskVars, attemptVars, cancelVars, workerVars, hostVars,
                 checks, failing, canc, guards>>

(* Mutant of NeedsAttention: an attempt in Attention is overlooked.        *)
IgnoresRetainedAttempt ==
  \E t \in Tasks : \/ task[t] \in {"stalled", "cancelled"}
                   \/ integration[t] \in {"conflict", "attention"}

(* The alternatives of run_execution_step::choose.                         *)
NeedsAttention ==
  \E t \in Tasks : \/ phase[Current(t)] = "attention"
                   \/ task[t] \in {"stalled", "cancelled"}
                   \/ integration[t] \in {"conflict", "attention"}

ToIntegrate == {t \in Tasks : task[t] = "completed" /\ t \notin evidence}

(* Mutant of Occupied: only tasks with a worker count.                     *)
OccupiedByWorkers == {t \in Tasks : task[t] \in {"dispatched", "stalled"}}
Occupied == {t \in Tasks : task[t] # "completed" /\ latest[t] > 0}

ToPrepare == {t \in Tasks : /\ EligibleIn(t, {"pending"})
                            /\ latest[t] = 0
                            /\ Cardinality(Occupied) < MaxConcurrent}

ToLaunch == {t \in Tasks : EligibleIn(t, {"pending"}) /\ phase[Current(t)] = "ready"}

AllIntegrated == \A t \in Tasks : Integrated(t)

StepOnly == UNCHANGED <<runVars, taskVars, attemptVars, cancelVars, workerVars,
                        hostVars, seen, checks, failing, canc, guards>>

(* workflow_execution_step answers Waiting, also when the run left running.*)
StepWaiting ==
  /\ At("pump", "step")
  /\ \/ status # "running"
     \/ /\ ~NeedsAttention /\ ~AllIntegrated
        /\ ToIntegrate = {} /\ ToPrepare = {} /\ ToLaunch = {}
  /\ Finish("pump")
  /\ StepOnly

StepAttention ==
  /\ At("pump", "step") /\ status = "running" /\ NeedsAttention
  /\ Goto("pump", "pause")
  /\ StepOnly

StepComplete ==
  /\ At("pump", "step") /\ status = "running" /\ ~NeedsAttention /\ AllIntegrated
  /\ Goto("pump", "complete")
  /\ StepOnly

(* Integration is serial and precedes any scheduling.                      *)
StepJob(t, job) ==
  /\ At("pump", "step") /\ status = "running" /\ ~NeedsAttention
  /\ CASE job = "integrate" -> t \in ToIntegrate
       [] job = "prepare"   -> ToIntegrate = {} /\ t \in ToPrepare
       [] job = "launch"    -> ToIntegrate = {} /\ t \in ToLaunch
  /\ Take("pump", "execute", Current(t), job)
  /\ StepOnly

(* execute: the step is dropped when the run changed since the page.       *)
Execute ==
  /\ At("pump", "execute")
  /\ IF status = "running" /\ sequence = seen
     THEN Goto("pump", lane["pump"].job)
     ELSE Finish("pump")
  /\ StepOnly

(* complete_workflow_execution: everything is checked again in one         *)
(* transaction; a failed check is an error, a changed run is not.          *)
CompleteRun ==
  /\ At("pump", "complete")
  /\ IF status = "running" /\ sequence = seen
     THEN IF AllIntegrated /\ \A t \in Tasks : ~Unsettled(t)
          THEN status' = "completed" /\ Finish("pump")
          ELSE UNCHANGED status /\ Goto("pump", "pause")
     ELSE UNCHANGED status /\ Finish("pump")
  /\ UNCHANGED <<sequence, closed, taskVars, attemptVars, cancelVars, workerVars,
                 hostVars, seen, checks, failing, canc, guards>>

(* pause_workflow_execution_for_attention.                                 *)
PauseForAttention ==
  /\ At("pump", "pause")
  /\ IF status = "running" /\ sequence = seen
     THEN status' = "paused" /\ sequence' = sequence + 1
     ELSE UNCHANGED <<status, sequence>>
  /\ Finish("pump")
  /\ UNCHANGED <<closed, taskVars, attemptVars, cancelVars, workerVars, hostVars,
                 seen, checks, failing, canc, guards>>

-----------------------------------------------------------------------------
(* Attempt preparation, in the pump, retry and recovery lanes.             *)

LaneOnly == UNCHANGED <<runVars, cancelVars, workerVars, hostVars,
                        seen, checks, failing, canc, guards>>

(* reserve_workflow_workspace accepts the request: the pump's names a task *)
(* without a workspace, a retry's names the latest attempt in Attention.   *)
MayReserve(l, a) ==
  /\ Eligible(a[1])
  /\ a = Current(a[1])
  /\ Cardinality(ActiveAttempts) < MaxConcurrent
  /\ l = "pump" => a[2] = 0
  /\ l = "retry" => status # "running" /\ phase[a] = "attention"

ReserveWorkspace(l) ==
  /\ At(l, "prepare") /\ LockFree
  /\ LET a == lane[l].at
         next == <<a[1], a[2] + 1>>
     IN  /\ MayReserve(l, a)
         /\ a[2] < MaxAttempts
         /\ latest' = [latest EXCEPT ![a[1]] = a[2] + 1]
         /\ phase' = [phase EXCEPT ![next] = "reserved"]
         /\ Take(l, "create", next, lane[l].job)
  /\ LaneOnly
  /\ UNCHANGED <<taskVars, launch, dispatch, setups>>

(* The lock is busy, or the transaction refuses the request.               *)
ReserveWorkspaceFails(l) ==
  /\ At(l, "prepare")
  /\ \/ ~LockFree
     \/ ~MayReserve(l, lane[l].at)
     \/ lane[l].at[2] >= MaxAttempts
  /\ Fail(l)
  /\ LaneOnly
  /\ UNCHANGED <<taskVars, attemptVars>>

(* advance: the worktree is created and the project setup begins.          *)
CreateWorkspace(l) ==
  /\ At(l, "create") /\ Eligible(lane[l].at[1])
  /\ phase' = [phase EXCEPT ![lane[l].at] = "setupRunning"]
  /\ setups' = [setups EXCEPT ![lane[l].at] = @ + 1]
  /\ Goto(l, "setup")
  /\ LaneOnly
  /\ UNCHANGED <<taskVars, latest, launch, dispatch>>

(* Mutant of CreateWorkspaceFails: a phase outside the schema.             *)
CreateWorkspaceFailsAsFailed(l) ==
  /\ At(l, "create")
  /\ phase' = [phase EXCEPT ![lane[l].at] = "failed"]
  /\ Finish(l)
  /\ LaneOnly
  /\ UNCHANGED <<taskVars, latest, launch, dispatch, setups>>

(* Git fails or the task is no longer eligible: the attempt is retained in *)
(* Attention and the job itself succeeds.                                  *)
CreateWorkspaceFails(l) ==
  /\ At(l, "create")
  /\ phase' = [phase EXCEPT ![lane[l].at] = "attention"]
  /\ Finish(l)
  /\ LaneOnly
  /\ UNCHANGED <<taskVars, latest, launch, dispatch, setups>>

(* The validation that precedes advance fails: an error, and the attempt   *)
(* keeps its phase.                                                        *)
CreateWorkspaceRefused(l) ==
  /\ At(l, "create") /\ l # "boot" /\ ~Eligible(lane[l].at[1])
  /\ Fail(l)
  /\ LaneOnly
  /\ UNCHANGED <<taskVars, attemptVars>>

(* finish_setup: a failed setup, or a task that is no longer eligible,     *)
(* leaves the attempt in Attention.                                        *)
FinishSetup(l) ==
  /\ At(l, "setup")
  /\ \E next \in {"ready", "attention"} :
       /\ next = "ready" => Eligible(lane[l].at[1])
       /\ phase' = [phase EXCEPT ![lane[l].at] = next]
  /\ Finish(l)
  /\ LaneOnly
  /\ UNCHANGED <<taskVars, latest, launch, dispatch, setups>>

-----------------------------------------------------------------------------
(* The one-shot launch: reserve, claim, validate, spawn.                   *)

(* launch::prepare finds the launch of an earlier pass.                    *)
LaunchReplayed ==
  /\ At("pump", "launch") /\ launch[lane["pump"].at] # "none"
  /\ Finish("pump")
  /\ StepOnly

(* reserve_workflow_launch: the launch, its dispatch and the task's move   *)
(* to dispatched commit together.                                          *)
ReserveLaunch ==
  /\ At("pump", "launch") /\ LockFree
  /\ LET a == lane["pump"].at IN
       /\ launch[a] = "none" /\ dispatch[a] = "none"
       /\ Inputs(a, {"pending"})
       /\ launch' = [launch EXCEPT ![a] = "reserved"]
       /\ dispatch' = [dispatch EXCEPT ![a] = "awaiting"]
       /\ task' = [task EXCEPT ![a[1]] = "dispatched"]
  /\ Goto("pump", "claim")
  /\ LaneOnly
  /\ UNCHANGED <<evidence, integration, latest, phase, setups>>

(* A busy lock, stale inputs or a dirty checkout: the pass fails.          *)
LaunchFails ==
  /\ At("pump", "launch") /\ launch[lane["pump"].at] = "none"
  /\ Goto("pump", "pause")
  /\ StepOnly

(* claim_workflow_launch, then Git is validated again outside of the       *)
(* transaction: after a claim the launch may still be refused.             *)
ClaimLaunch ==
  /\ At("pump", "claim")
  /\ LET a == lane["pump"].at IN
       /\ launch[a] = "reserved" /\ dispatch[a] = "awaiting" /\ Inputs(a, {"dispatched"})
       /\ launch' = [launch EXCEPT ![a] = "starting"]
  /\ \E pc \in {"spawn", "refused"} : Goto("pump", pc)
  /\ LaneOnly
  /\ UNCHANGED <<taskVars, latest, phase, dispatch, setups>>

ClaimRefused ==
  /\ At("pump", "claim")
  /\ LET a == lane["pump"].at IN
       ~(launch[a] = "reserved" /\ dispatch[a] = "awaiting" /\ Inputs(a, {"dispatched"}))
  /\ Goto("pump", "refused")
  /\ StepOnly

(* finish_workflow_launch on the actor, after an error of any later step:  *)
(* the launch is settled before the locks are released, and the pass goes  *)
(* on as if it had succeeded.                                              *)
RefuseLaunch ==
  /\ (At("pump", "refused") \/ At("pump", "spawn")) /\ ActorFree
  /\ SettleWithoutSession(lane["pump"].at)
  /\ Finish("pump")
  /\ LaneOnly
  /\ UNCHANGED <<evidence, integration, latest, setups>>

(* spawn_workflow_launch: the durable state is checked once more on the    *)
(* actor, and the worker process starts ...                                *)
SpawnWorker ==
  /\ At("pump", "spawn") /\ ActorFree
  /\ LET a == lane["pump"].at IN
       /\ Spawnable(a)
       /\ session' = [session EXCEPT ![a] = "running"]
       /\ proc' = [proc EXCEPT ![a] = TRUE]
       /\ spawned' = [spawned EXCEPT ![a] = @ + 1]
  /\ Goto("pump", "mark")
  /\ UNCHANGED <<runVars, taskVars, attemptVars, cancelVars, hostVars,
                 seen, checks, failing, canc, guards>>

(* ... before mark_workflow_launch_started records it.                     *)
MarkStarted ==
  /\ At("pump", "mark")
  /\ launch' = [launch EXCEPT ![lane["pump"].at] = "started"]
  /\ Finish("pump")
  /\ LaneOnly
  /\ UNCHANGED <<taskVars, latest, phase, dispatch, setups>>

-----------------------------------------------------------------------------
(* Integration of a completed task.                                        *)

(* reserve_workflow_integration: a result of the task's ready attempt, and *)
(* one unsettled integration per run (index runUnsettledIntegration).      *)
MayIntegrate(t) == /\ status \in Accepted /\ task[t] = "completed" /\ t \notin evidence
                   /\ phase[Current(t)] = "ready" /\ dispatch[Current(t)] = "completed"
                   /\ \A u \in Tasks \ {t} : ~Unsettled(u)

ReserveIntegration(l) ==
  /\ At(l, "integrate") /\ LockFree /\ MayIntegrate(lane[l].at[1])
  /\ integration' = [integration EXCEPT ![lane[l].at[1]] =
                       IF @ = "none" THEN "pending" ELSE @]
  /\ Goto(l, "apply")
  /\ LaneOnly
  /\ UNCHANGED <<task, evidence, attemptVars>>

ReserveIntegrationFails(l) ==
  /\ At(l, "integrate") /\ ~(LockFree /\ MayIntegrate(lane[l].at[1]))
  /\ Fail(l)
  /\ LaneOnly
  /\ UNCHANGED <<taskVars, attemptVars>>

(* Mutant of Integrate: the run is not checked again.                      *)
IntegrateCancelledToo(l) ==
  /\ At(l, "apply")
  /\ integration' = [integration EXCEPT ![lane[l].at[1]] = "integrated"]
  /\ evidence' = evidence \cup {lane[l].at[1]}
  /\ Finish(l)
  /\ LaneOnly
  /\ UNCHANGED <<task, attemptVars>>

(* The merge lands: evidence and state commit together, paused or not.     *)
Integrate(l) ==
  /\ At(l, "apply") /\ status \in Accepted
  /\ integration' = [integration EXCEPT ![lane[l].at[1]] = "integrated"]
  /\ evidence' = evidence \cup {lane[l].at[1]}
  /\ Finish(l)
  /\ LaneOnly
  /\ UNCHANGED <<task, attemptVars>>

(* A merge conflict is recorded; it is an answer, not an error.            *)
IntegrateConflicts(l) ==
  /\ At(l, "apply") /\ status \in Accepted
  /\ integration' = [integration EXCEPT ![lane[l].at[1]] = "conflict"]
  /\ Finish(l)
  /\ LaneOnly
  /\ UNCHANGED <<task, evidence, attemptVars>>

(* Any other failure keeps the row in Attention, again as an answer: the   *)
(* next pass sees the row and pauses the run.                              *)
IntegrateFails(l) ==
  /\ At(l, "apply") /\ status \in Accepted
  /\ integration' = [integration EXCEPT ![lane[l].at[1]] = "attention"]
  /\ Finish(l)
  /\ LaneOnly
  /\ UNCHANGED <<task, evidence, attemptVars>>

(* The run was cancelled meanwhile: the checkout is inspected, and the row *)
(* is settled as cancelled or kept for a person.                           *)
IntegrateCancelled(l) ==
  /\ At(l, "apply") /\ status = "cancelled"
  /\ \E s \in {"settled", "attention"} :
       integration' = [integration EXCEPT ![lane[l].at[1]] = s]
  /\ Finish(l)
  /\ LaneOnly
  /\ UNCHANGED <<task, evidence, attemptVars>>
=============================================================================
