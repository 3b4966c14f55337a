------------------------------- MODULE RunEngine -------------------------------
(***************************************************************************)
(* The isolated Run engine: the scheduler pass, the workers, the person's  *)
(* commands and the cancellation driver of RunScheduler, RunWorker and     *)
(* RunControl interleaved over one store, with crashes and restarts of the *)
(* host (reconcile_workflow_launches, managed_workspace/run/recovery.rs).  *)
(***************************************************************************)
EXTENDS RunScheduler, RunWorker, RunControl

(* The plan was accepted: its tasks are materialized and the run runs.     *)
Init ==
  /\ status = "running" /\ sequence = 0 /\ closed = FALSE
  /\ task = [t \in Tasks |-> "pending"]
  /\ evidence = {}
  /\ integration = [t \in Tasks |-> "none"]
  /\ latest = [t \in Tasks |-> 0]
  /\ phase = [a \in Attempts |-> "none"]
  /\ launch = [a \in Attempts |-> "none"]
  /\ dispatch = [a \in Attempts |-> "none"]
  /\ setups = [a \in Attempts |-> 0]
  /\ target = [a \in Attempts |-> "none"]
  /\ shutdown = [a \in Attempts |-> "unstarted"]
  /\ session = [a \in Attempts |-> "none"]
  /\ proc = [a \in Attempts |-> FALSE]
  /\ spawned = [a \in Attempts |-> 0]
  /\ lane = [l \in Lanes |-> Idle]
  /\ seen = 0
  /\ checks = {}
  /\ failing = NoAttempt
  /\ canc = NoTarget
  /\ guards = {}
  /\ host = "ready"
  /\ crashes = 0

-----------------------------------------------------------------------------
(* Crash and restart.                                                      *)

(* The host dies between any two steps: sessions, lanes, timers, checks    *)
(* and guards are lost; rows and (for a while) worker processes remain.    *)
Crash ==
  /\ host # "down" /\ crashes < MaxCrashes
  /\ host' = "down" /\ crashes' = crashes + 1
  /\ session' = [a \in Attempts |-> "none"]
  /\ lane' = [l \in Lanes |-> Idle]
  /\ checks' = {} /\ failing' = NoAttempt /\ canc' = NoTarget /\ guards' = {}
  /\ UNCHANGED <<runVars, taskVars, attemptVars, cancelVars, proc, spawned, seen>>

Start ==
  /\ host = "down" /\ host' = "booting"
  /\ UNCHANGED <<runVars, taskVars, attemptVars, cancelVars, workerVars, memoryVars, crashes>>

(* Mutant of Interrupted: reserved launches are overlooked.                *)
InterruptedClaims(a) ==
  \/ launch[a] \in {"starting", "started"} /\ dispatch[a] # "completed"
  \/ launch[a] = "attention" /\ dispatch[a] \in ActiveDispatch

(* workflow_launch_recovery_page: the launches a restart has to settle.    *)
Interrupted(a) ==
  \/ launch[a] \in {"reserved", "starting", "started"} /\ dispatch[a] # "completed"
  \/ launch[a] = "attention" /\ dispatch[a] \in ActiveDispatch

(* Mutant of ReconcileLaunch: the attempt is launched again.               *)
RelaunchInterrupted(a) ==
  /\ host = "booting" /\ Interrupted(a) /\ session[a] \notin Live
  /\ launch' = [launch EXCEPT ![a] = "none"]
  /\ dispatch' = [dispatch EXCEPT ![a] = "none"]
  /\ task' = [task EXCEPT ![a[1]] = IF @ = "dispatched" THEN "pending" ELSE @]
  /\ UNCHANGED <<runVars, evidence, integration, latest, phase, setups, cancelVars, workerVars,
                 memoryVars, hostVars>>

(* reconcile_workflow_launches, before the actor takes any command.        *)
ReconcileLaunch(a) ==
  /\ host = "booting" /\ Interrupted(a) /\ session[a] \notin Live
  /\ SettleWithoutSession(a)
  /\ UNCHANGED <<runVars, evidence, integration, latest, setups, cancelVars, workerVars,
                 memoryVars, hostVars>>

LaunchesReconciled ==
  /\ host = "booting" /\ \A a \in Attempts : ~Interrupted(a)
  /\ host' = "recovering"
  /\ UNCHANGED <<runVars, taskVars, attemptVars, cancelVars, workerVars, memoryVars, crashes>>

(* The recovery lane, off the actor: interrupted integrations, then        *)
(* interrupted preparations, each skipped while its lock is busy.          *)
RecoverIntegration(a) ==
  /\ host = "recovering" /\ At("boot", "idle") /\ LockFree
  /\ a = Current(a[1]) /\ integration[a[1]] = "pending"
  /\ Take("boot", "apply", a, "integrate")
  /\ UNCHANGED <<runVars, taskVars, attemptVars, cancelVars, workerVars, hostVars,
                 seen, checks, failing, canc, guards>>

(* Mutant of RecoverWorkspace: an interrupted setup is run again.          *)
RecoverRunningSetup(a) ==
  /\ host = "recovering" /\ At("boot", "idle") /\ LockFree
  /\ \A t \in Tasks : integration[t] # "pending"
  /\ phase[a] \in {"reserved", "setupRunning"}
  /\ Take("boot", "create", a, "prepare")
  /\ UNCHANGED <<runVars, taskVars, attemptVars, cancelVars, workerVars, hostVars,
                 seen, checks, failing, canc, guards>>

RecoverWorkspace(a) ==
  /\ host = "recovering" /\ At("boot", "idle") /\ LockFree
  /\ \A t \in Tasks : integration[t] # "pending"
  /\ \/ /\ phase[a] = "reserved"
        /\ Take("boot", "create", a, "prepare")
        /\ UNCHANGED phase
     \/ /\ phase[a] = "setupRunning"
        /\ phase' = [phase EXCEPT ![a] = "attention"]
        /\ UNCHANGED lane
  /\ UNCHANGED <<runVars, taskVars, latest, launch, dispatch, setups, cancelVars, workerVars,
                 hostVars, seen, checks, failing, canc, guards>>

RecoveryFinished ==
  /\ host = "recovering" /\ At("boot", "idle")
  /\ \/ ~LockFree
     \/ /\ \A t \in Tasks : integration[t] # "pending"
        /\ \A a \in Attempts : phase[a] \notin {"reserved", "setupRunning"}
  /\ host' = "ready"
  /\ UNCHANGED <<runVars, taskVars, attemptVars, cancelVars, workerVars, memoryVars, crashes>>

-----------------------------------------------------------------------------
Pass == \/ ReadPage \/ StepWaiting \/ StepAttention \/ StepComplete \/ Execute
        \/ CompleteRun \/ PauseForAttention
        \/ \E t \in Tasks, job \in {"integrate", "prepare", "launch"} : StepJob(t, job)
        \/ LaunchReplayed \/ ReserveLaunch \/ LaunchFails \/ ClaimLaunch \/ ClaimRefused
        \/ RefuseLaunch \/ SpawnWorker \/ MarkStarted

Job(l) == \/ ReserveWorkspace(l) \/ ReserveWorkspaceFails(l)
          \/ CreateWorkspace(l) \/ CreateWorkspaceFails(l) \/ CreateWorkspaceRefused(l)
          \/ FinishSetup(l)
          \/ ReserveIntegration(l) \/ ReserveIntegrationFails(l)
          \/ Integrate(l) \/ IntegrateConflicts(l) \/ IntegrateFails(l) \/ IntegrateCancelled(l)

Worker(a) == \/ Accept(a) \/ Revive(a) \/ Escalate(a) \/ RequestCompletion(a)
             \/ WorkerFails(a) \/ Stall(a) \/ Failover(a) \/ ProcessDies(a)

Closure(a) == \/ FinishCompletion(a) \/ AcceptanceTimeout(a) \/ SessionExits(a)
              \/ FinishClosing(a)

Person == \/ Pause \/ Resume \/ Cancel \/ RetryCancellation
          \/ \E a \in Attempts : RetryTask(a) \/ RetryIntegration(a)
          \/ \E t \in Tasks : AbortStage(t)

Driver == \/ \E a \in Attempts : PickTarget(a)
          \/ BeginShutdown \/ ReuseGuard \/ AlreadyClosed \/ CannotClose
          \/ ShutdownVerified \/ ShutdownTimesOut \/ SettleTarget
          \/ \E t \in Tasks : ReconcileCancelled(t)

Restart == \/ Start \/ LaunchesReconciled \/ RecoveryFinished
           \/ \E a \in Attempts : ReconcileLaunch(a) \/ RecoverIntegration(a) \/ RecoverWorkspace(a)

Next == \/ Pass
        \/ \E l \in Lanes : Job(l)
        \/ \E a \in Attempts : Worker(a) \/ Closure(a)
        \/ SettleFailed
        \/ Person \/ Driver \/ Restart \/ Crash

Spec == Init /\ [][Next]_vars

(* The host's own steps are eventually taken: a woken pass, a spawned job, *)
(* a queued actor command and the driver all run to completion.  Nothing   *)
(* is assumed of workers, people, processes or crashes.                    *)
Fairness == /\ WF_vars(Pass)
            /\ \A l \in Lanes : WF_vars(Job(l))
            /\ \A a \in Attempts : WF_vars(Closure(a))
            /\ WF_vars(SettleFailed)
            /\ WF_vars(Driver)
            /\ WF_vars(Restart)

FairSpec == Spec /\ Fairness

-----------------------------------------------------------------------------
(* What the engine promises.                                               *)

Lane == [pc : LanePcs, at : Attempts \cup {NoAttempt}, job : LaneJobs]

(* The type invariant of the store, the host and its lanes.                *)
TypeOK ==
  /\ status \in RunStatus /\ sequence \in Nat /\ closed \in BOOLEAN
  /\ task \in [Tasks -> TaskStatus]
  /\ evidence \subseteq Tasks
  /\ integration \in [Tasks -> Integration]
  /\ latest \in [Tasks -> 0..MaxAttempts]
  /\ phase \in [Attempts -> Phase]
  /\ launch \in [Attempts -> LaunchStatus]
  /\ dispatch \in [Attempts -> DispatchStatus]
  /\ setups \in [Attempts -> Nat]
  /\ target \in [Attempts -> TargetState]
  /\ shutdown \in [Attempts -> ShutdownState]
  /\ session \in [Attempts -> SessionState]
  /\ proc \in [Attempts -> BOOLEAN]
  /\ spawned \in [Attempts -> Nat]
  /\ lane \in [Lanes -> Lane]
  /\ seen \in Nat
  /\ checks \subseteq Attempts
  /\ failing \in Attempts \cup {NoAttempt}
  /\ canc \in [pc : CancPcs, at : Attempts \cup {NoAttempt}, ok : BOOLEAN]
  /\ guards \subseteq Attempts
  /\ host \in {"down", "booting", "recovering", "ready"}
  /\ crashes \in Nat

(* A worker the host can still reach is running.                           *)
Working(a) == session[a] \in Live /\ proc[a]

(* An attempt's worker is spawned at most once, whatever crashes or        *)
(* refusals fall between the reservation, the claim, the spawn and its     *)
(* record: mark_workflow_launch_started comes after the process exists.    *)
OneSpawnPerAttempt == \A a \in Attempts : spawned[a] <= 1

(* The project setup of an attempt is never run a second time, also when   *)
(* the host died while it ran (recovery.rs: setupRunning -> attention).    *)
SetupRunsOnce == \A a \in Attempts : setups[a] <= 1

(* A cancellation target is settled only once its worker is gone.          *)
SettledTargetHasNoWorker ==
  \A a \in Attempts : target[a] = "settled" => ~Working(a)

(* A cancelled run is closed (completed_at) only when none of its workers  *)
(* is running and none can be launched any more.                           *)
CancelledRunIsQuiet ==
  closed => \A a \in Attempts : ~Working(a) /\ target[a] \notin {"pending", "attention"}

(* A target whose orderly shutdown began is settled only on the evidence   *)
(* that its captured processes are gone.                                   *)
ShutdownEvidence ==
  \A a \in Attempts : target[a] = "settled" /\ shutdown[a] # "unstarted" => ~proc[a]

(* An attempt retained in Attention, which a retry may replace, has no     *)
(* session any more.                                                       *)
AttentionMeansStopped ==
  \A a \in Attempts : phase[a] = "attention" => session[a] \notin Live

(* Two attempts of a task never have a running worker at the same time.    *)
OneWorkerPerTask ==
  \A a, b \in Attempts : a[1] = b[1] /\ Working(a) /\ Working(b) => a = b

(* A completed dispatch is the latest attempt's, and its task is completed:*)
(* a late result of a replaced attempt is never accepted.                  *)
CompletionBelongsToLatest ==
  \A a \in Attempts : dispatch[a] = "completed" => a = Current(a[1]) /\ task[a[1]] = "completed"

(* No worker is launched before the results it builds on are integrated.   *)
LaunchedAfterDependencies ==
  \A a \in Attempts : launch[a] # "none" => \A d \in Deps[a[1]] : Integrated(d)

(* The scheduler counts tasks, the store counts attempts: a pass that asks *)
(* for a first attempt is never refused for max_concurrent, which would    *)
(* pause a healthy run.                                                    *)
LimitsAgree ==
  At("pump", "prepare") /\ status = "running" /\ sequence = seen
    => Cardinality(ActiveAttempts) < MaxConcurrent

(* A cancelled run stays cancelled, and whatever was in flight starts no   *)
(* setup and no worker and adds no evidence.                               *)
CancelledRunDoesNothingNew ==
  [][status = "cancelled" => /\ status' = "cancelled"
                             /\ UNCHANGED <<evidence, setups, spawned>>]_vars

(* A cancelled run is eventually closed, or one of its workers is handed   *)
(* to a person: no crash leaves a target pending for ever.                 *)
CancellationSettles ==
  status = "cancelled" ~> closed \/ \E a \in Attempts : target[a] = "attention"

(* A running run without an active dispatch does not stay so: it moves on  *)
(* to a worker, completes, or is paused for a person's attention.          *)
Stuck == status = "running" /\ \A a \in Attempts : dispatch[a] \notin ActiveDispatch
NoSilentHang == Stuck ~> ~Stuck

(* As long as the host does not crash: a worker that escalated and then    *)
(* reports a failure while the host dies is the known exception.           *)
NoHangWithoutCrash == Stuck ~> ~Stuck \/ crashes > 0

(* A reserved or claimed launch becomes a started worker or Attention.     *)
LaunchResolves ==
  \A a \in Attempts : launch[a] \in {"reserved", "starting"}
                        ~> launch[a] \in {"started", "attention"}
=============================================================================
