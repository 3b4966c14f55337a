---------------------------- MODULE RunEngineProofs ----------------------------
(***************************************************************************)
(* Safety of the isolated Run engine for every set of tasks, dependency    *)
(* relation and bound.  The inductive invariant has four parts, each the   *)
(* subject of a lemma about one step: the types with what each program     *)
(* counter implies (TypeInv), the life of a launch (SpawnInv), what a      *)
(* cancellation knows about its targets (QuietInv) and the project setup   *)
(* under the integration lock (SetupInv).                                  *)
(***************************************************************************)
EXTENDS RunEngine, TLAPS

USE DEF vars, runVars, taskVars, attemptVars, cancelVars, workerVars, memoryVars, hostVars

-----------------------------------------------------------------------------
(* Attempts are pairs; Attempts itself stays folded in the proofs.         *)

(* An attempt is a task with a number.                                     *)
LEMMA AttemptParts == \A a \in Attempts : a[1] \in Tasks /\ a[2] \in 0..MaxAttempts
  BY DEF Attempts

(* A task with a number is an attempt, and has these parts.                *)
LEMMA MakeAttempt ==
  \A t \in Tasks, n \in 0..MaxAttempts :
    <<t, n>> \in Attempts /\ <<t, n>>[1] = t /\ <<t, n>>[2] = n
  BY DEF Attempts

(* The latest attempt of a task is an attempt.                             *)
LEMMA CurrentIsAttempt == TypeOK => \A t \in Tasks : Current(t) \in Attempts
  BY MakeAttempt DEF TypeOK, Current

-----------------------------------------------------------------------------
(* Types.                                                                  *)

(* A lane that works on an attempt names it, and a chosen step has a job.  *)
LanesOK ==
  /\ \A l \in Lanes : lane[l].pc \notin {"idle", "step", "complete", "pause"}
                        => lane[l].at \in Attempts
  /\ lane["pump"].pc = "execute" => lane["pump"].job # "none"

(* So does the cancellation driver.                                        *)
DriverOK == canc.pc # "idle" => canc.at \in Attempts

TypeInv == TypeOK /\ LanesOK /\ DriverOK

(* settle_workflow_launch_without_session keeps the types it writes.       *)
LEMMA SettleTypes ==
  ASSUME TypeOK, NEW a \in Attempts, SettleWithoutSession(a)
  PROVE  /\ task' \in [Tasks -> TaskStatus]
         /\ phase' \in [Attempts -> Phase]
         /\ launch' \in [Attempts -> LaunchStatus]
         /\ dispatch' \in [Attempts -> DispatchStatus]
<1>1. CASE launch[a] = "none" \/ dispatch[a] = "completed"
  BY <1>1 DEF TypeOK, SettleWithoutSession
<1>2. CASE ~(launch[a] = "none" \/ dispatch[a] = "completed")
  <2>1. launch' \in [Attempts -> LaunchStatus]
    BY <1>2 DEF TypeOK, SettleWithoutSession, LaunchStatus
  <2>2. phase' \in [Attempts -> Phase]
    BY <1>2 DEF TypeOK, SettleWithoutSession, Phase
  <2>3. dispatch' \in [Attempts -> DispatchStatus]
    BY <1>2 DEF TypeOK, SettleWithoutSession, DispatchStatus, ActiveDispatch
  <2>4. task' \in [Tasks -> TaskStatus]
    BY <1>2, AttemptParts DEF TypeOK, SettleWithoutSession, TaskStatus
  <2> QED
    BY <2>1, <2>2, <2>3, <2>4
<1> QED
  BY <1>1, <1>2

(* The removal of a session, now or later, keeps the type of the table.    *)
LEMMA SessionTypes ==
  ASSUME TypeOK, NEW a \in Attempts, RemoveSession(a) \/ DeferRemoval(a)
  PROVE  session' \in [Attempts -> SessionState]
  BY DEF TypeOK, RemoveSession, DeferRemoval, SessionState

(* terminate_sessions_for_tab keeps the types it writes.                   *)
LEMMA TerminateTypes ==
  ASSUME TypeOK, NEW a \in Attempts, Terminate(a)
  PROVE  /\ task' \in [Tasks -> TaskStatus]
         /\ phase' \in [Attempts -> Phase]
         /\ launch' \in [Attempts -> LaunchStatus]
         /\ dispatch' \in [Attempts -> DispatchStatus]
         /\ session' \in [Attempts -> SessionState]
<1>1. CASE RemoveSession(a) /\ SettleWithoutSession(a)
  BY <1>1, SettleTypes, SessionTypes
<1>2. CASE DeferRemoval(a) /\ UNCHANGED <<task, phase, launch, dispatch>>
  BY <1>2, SessionTypes DEF TypeOK
<1> QED
  BY <1>1, <1>2 DEF Terminate

(* The run starts well typed.                                              *)
LEMMA TypeInit == Init => TypeInv
<1> SUFFICES ASSUME Init PROVE TypeInv
  OBVIOUS
<1> USE DEF Init
<1>1. /\ status \in RunStatus /\ sequence \in Nat /\ closed \in BOOLEAN
      /\ task \in [Tasks -> TaskStatus]
      /\ evidence \subseteq Tasks
      /\ integration \in [Tasks -> Integration]
  BY DEF RunStatus, TaskStatus, Integration
<1>2. /\ latest \in [Tasks -> 0..MaxAttempts]
      /\ phase \in [Attempts -> Phase]
      /\ launch \in [Attempts -> LaunchStatus]
      /\ dispatch \in [Attempts -> DispatchStatus]
      /\ setups \in [Attempts -> Nat]
  BY BoundsAssumption DEF Phase, LaunchStatus, DispatchStatus
<1>3. /\ target \in [Attempts -> TargetState]
      /\ shutdown \in [Attempts -> ShutdownState]
      /\ session \in [Attempts -> SessionState]
      /\ proc \in [Attempts -> BOOLEAN]
      /\ spawned \in [Attempts -> Nat]
  BY DEF TargetState, ShutdownState, SessionState
<1>4. lane \in [Lanes -> Lane] /\ LanesOK
  BY DEF Lane, Lanes, LanePcs, LaneJobs, Idle, LanesOK
<1>5. /\ canc \in [pc : CancPcs, at : Attempts \cup {NoAttempt}, ok : BOOLEAN]
      /\ DriverOK
  BY DEF CancPcs, NoTarget, DriverOK
<1>6. /\ seen \in Nat /\ checks \subseteq Attempts /\ guards \subseteq Attempts
      /\ failing \in Attempts \cup {NoAttempt}
      /\ host \in {"down", "booting", "recovering", "ready"}
      /\ crashes \in Nat
  OBVIOUS
<1> QED
  BY <1>1, <1>2, <1>3, <1>4, <1>5, <1>6 DEF TypeInv, TypeOK

(* Every step of the engine keeps the types.                               *)
LEMMA TypeStep == TypeInv /\ [Next]_vars => TypeInv'
<1> SUFFICES ASSUME TypeInv, [Next]_vars PROVE TypeInv'
  OBVIOUS
<1> USE DEF TypeInv, TypeOK, LanesOK, DriverOK
<1>1. CASE ReadPage
  BY <1>1 DEF ReadPage, Goto, Take, At, Lane, Lanes, LanePcs, LaneJobs
<1>2. CASE StepWaiting
  BY <1>2 DEF StepWaiting, StepOnly, Finish, Take, At, Lane, Lanes, LanePcs, LaneJobs
<1>3. CASE StepAttention
  BY <1>3 DEF StepAttention, StepOnly, Goto, Take, At, Lane, Lanes, LanePcs, LaneJobs
<1>4. CASE StepComplete
  BY <1>4 DEF StepComplete, StepOnly, Goto, Take, At, Lane, Lanes, LanePcs, LaneJobs
<1>5. CASE Execute
  BY <1>5 DEF Execute, StepOnly, Finish, Take, Goto, At, Lane, Lanes, LanePcs, LaneJobs
<1>6. CASE CompleteRun
  BY <1>6 DEF CompleteRun, Finish, Take, Goto, At, RunStatus, Lane, Lanes, LanePcs, LaneJobs
<1>7. CASE PauseForAttention
  BY <1>7 DEF PauseForAttention, Finish, Take, At, RunStatus, Lane, Lanes, LanePcs, LaneJobs
<1>8. ASSUME NEW t \in Tasks, NEW job \in {"integrate", "prepare", "launch"}, StepJob(t, job)
      PROVE  TypeInv'
  BY <1>8, CurrentIsAttempt DEF StepJob, StepOnly, Take, At, Lane, Lanes, LanePcs, LaneJobs
<1>9. CASE LaunchReplayed
  BY <1>9 DEF LaunchReplayed, StepOnly, Finish, Take, At, Lane, Lanes, LanePcs, LaneJobs
<1>10. CASE ReserveLaunch
  BY <1>10, AttemptParts
     DEF ReserveLaunch, LaneOnly, Goto, Take, At, TaskStatus, LaunchStatus, DispatchStatus,
         Lane, Lanes, LanePcs, LaneJobs
<1>11. CASE LaunchFails
  BY <1>11 DEF LaunchFails, StepOnly, Goto, Take, At, Lane, Lanes, LanePcs, LaneJobs
<1>12. CASE ClaimLaunch
  BY <1>12
     DEF ClaimLaunch, LaneOnly, Goto, Take, At, LaunchStatus, Lane, Lanes, LanePcs, LaneJobs
<1>13. CASE ClaimRefused
  BY <1>13 DEF ClaimRefused, StepOnly, Goto, Take, At, Lane, Lanes, LanePcs, LaneJobs
<1>14. CASE RefuseLaunch
  BY <1>14, SettleTypes
     DEF RefuseLaunch, LaneOnly, Finish, Take, At, Lane, Lanes, LanePcs, LaneJobs
<1>15. CASE SpawnWorker
  BY <1>15 DEF SpawnWorker, Goto, Take, At, SessionState, Lane, Lanes, LanePcs, LaneJobs
<1>16. CASE MarkStarted
  BY <1>16
     DEF MarkStarted, LaneOnly, Finish, Take, At, LaunchStatus, Lane, Lanes, LanePcs,
         LaneJobs
<1>17. ASSUME NEW l \in Lanes, ReserveWorkspace(l)
      PROVE  TypeInv'
  <2> DEFINE next == <<lane[l].at[1], lane[l].at[2] + 1>>
  <2>1. lane[l].at \in Attempts /\ lane[l].at[2] < MaxAttempts
    BY <1>17 DEF ReserveWorkspace, At
  <2>2. lane[l].at[1] \in Tasks /\ lane[l].at[2] + 1 \in 0..MaxAttempts
    BY <2>1, AttemptParts, BoundsAssumption
  <2>3. next \in Attempts
    BY <2>2, MakeAttempt
  <2>4. latest' \in [Tasks -> 0..MaxAttempts]
    BY <1>17, <2>2 DEF ReserveWorkspace
  <2>5. phase' \in [Attempts -> Phase]
    BY <1>17, <2>3 DEF ReserveWorkspace, Phase
  <2>6. lane' \in [Lanes -> Lane] /\ LanesOK'
    BY <1>17, <2>3 DEF ReserveWorkspace, Take, At, Lane, Lanes, LanePcs, LaneJobs
  <2> QED
    BY <1>17, <2>4, <2>5, <2>6 DEF ReserveWorkspace, LaneOnly
<1>18. ASSUME NEW l \in Lanes, ReserveWorkspaceFails(l)
      PROVE  TypeInv'
  BY <1>18
     DEF ReserveWorkspaceFails, LaneOnly, Fail, Finish, Take, Goto, At, Lane, Lanes,
         LanePcs, LaneJobs
<1>19. ASSUME NEW l \in Lanes, CreateWorkspace(l)
      PROVE  TypeInv'
  BY <1>19, AttemptParts
     DEF CreateWorkspace, LaneOnly, Goto, Take, At, Phase, Lane, Lanes, LanePcs, LaneJobs
<1>20. ASSUME NEW l \in Lanes, CreateWorkspaceFails(l)
      PROVE  TypeInv'
  BY <1>20
     DEF CreateWorkspaceFails, LaneOnly, Finish, Take, At, Phase, Lane, Lanes, LanePcs,
         LaneJobs
<1>21. ASSUME NEW l \in Lanes, CreateWorkspaceRefused(l)
      PROVE  TypeInv'
  BY <1>21, AttemptParts
     DEF CreateWorkspaceRefused, LaneOnly, Fail, Finish, Take, Goto, At, Lane, Lanes,
         LanePcs, LaneJobs
<1>22. ASSUME NEW l \in Lanes, FinishSetup(l)
      PROVE  TypeInv'
  BY <1>22, AttemptParts
     DEF FinishSetup, LaneOnly, Finish, Take, At, Phase, Lane, Lanes, LanePcs, LaneJobs
<1>23. ASSUME NEW l \in Lanes, ReserveIntegration(l)
      PROVE  TypeInv'
  BY <1>23, AttemptParts
     DEF ReserveIntegration, LaneOnly, Goto, Take, At, Integration, Lane, Lanes, LanePcs,
         LaneJobs
<1>24. ASSUME NEW l \in Lanes, ReserveIntegrationFails(l)
      PROVE  TypeInv'
  BY <1>24, AttemptParts
     DEF ReserveIntegrationFails, LaneOnly, Fail, Finish, Take, Goto, At, Lane, Lanes,
         LanePcs, LaneJobs
<1>25. ASSUME NEW l \in Lanes, Integrate(l)
      PROVE  TypeInv'
  BY <1>25, AttemptParts
     DEF Integrate, LaneOnly, Finish, Take, At, Integration, Lane, Lanes, LanePcs, LaneJobs
<1>26. ASSUME NEW l \in Lanes, IntegrateConflicts(l)
      PROVE  TypeInv'
  BY <1>26, AttemptParts
     DEF IntegrateConflicts, LaneOnly, Finish, Take, At, Integration, Lane, Lanes, LanePcs,
         LaneJobs
<1>27. ASSUME NEW l \in Lanes, IntegrateFails(l)
      PROVE  TypeInv'
  BY <1>27, AttemptParts
     DEF IntegrateFails, LaneOnly, Fail, Finish, Take, Goto, At, Integration, Lane, Lanes,
         LanePcs, LaneJobs
<1>28. ASSUME NEW l \in Lanes, IntegrateCancelled(l)
      PROVE  TypeInv'
  BY <1>28, AttemptParts
     DEF IntegrateCancelled, LaneOnly, Finish, Take, At, Integration, Lane, Lanes, LanePcs,
         LaneJobs
<1>29. ASSUME NEW a \in Attempts, Accept(a)
      PROVE  TypeInv'
  BY <1>29 DEF Accept, NotMemory, DispatchStatus
<1>30. ASSUME NEW a \in Attempts, Revive(a)
      PROVE  TypeInv'
  BY <1>30, AttemptParts DEF Revive, NotMemory, TaskStatus, DispatchStatus
<1>31. ASSUME NEW a \in Attempts, Escalate(a)
      PROVE  TypeInv'
  BY <1>31 DEF Escalate, NotMemory, LaunchStatus
<1>32. ASSUME NEW a \in Attempts, RequestCompletion(a)
      PROVE  TypeInv'
  BY <1>32 DEF RequestCompletion, NotMemory
<1>33. ASSUME NEW a \in Attempts, WorkerFails(a)
      PROVE  TypeInv'
  BY <1>33, AttemptParts DEF WorkerFails, NotMemory, TaskStatus, DispatchStatus
<1>34. ASSUME NEW a \in Attempts, Stall(a)
      PROVE  TypeInv'
  BY <1>34, AttemptParts DEF Stall, NotMemory, TaskStatus, DispatchStatus
<1>35. ASSUME NEW a \in Attempts, Failover(a)
      PROVE  TypeInv'
  BY <1>35, SettleTypes, SessionTypes, AttemptParts DEF Failover, SettleOnly, NotMemory
<1>36. ASSUME NEW a \in Attempts, ProcessDies(a)
      PROVE  TypeInv'
  BY <1>36 DEF ProcessDies
<1>37. ASSUME NEW a \in Attempts, FinishCompletion(a)
      PROVE  TypeInv'
  <2>1. task' \in [Tasks -> TaskStatus]
    BY <1>37, AttemptParts DEF FinishCompletion, TaskStatus
  <2>2. launch' \in [Attempts -> LaunchStatus]
    BY <1>37 DEF FinishCompletion, LaunchStatus
  <2>3. dispatch' \in [Attempts -> DispatchStatus]
    BY <1>37 DEF FinishCompletion, DispatchStatus
  <2> QED
    BY <1>37, <2>1, <2>2, <2>3 DEF FinishCompletion, NotMemory
<1>38. ASSUME NEW a \in Attempts, AcceptanceTimeout(a)
      PROVE  TypeInv'
  BY <1>38, SettleTypes, SessionTypes DEF AcceptanceTimeout, SettleOnly, NotMemory
<1>39. ASSUME NEW a \in Attempts, SessionExits(a)
      PROVE  TypeInv'
  BY <1>39, SettleTypes DEF SessionExits, SettleOnly, NotMemory, SessionState
<1>40. ASSUME NEW a \in Attempts, FinishClosing(a)
      PROVE  TypeInv'
  BY <1>40, SettleTypes DEF FinishClosing, SettleOnly, NotMemory, SessionState
<1>41. CASE SettleFailed
  BY <1>41, TerminateTypes DEF SettleFailed, NotMemory
<1>42. CASE Pause
  BY <1>42 DEF Pause, Command, RunStatus
<1>43. CASE Resume
  BY <1>43 DEF Resume, Command, RunStatus
<1>44. CASE Cancel
  BY <1>44
     DEF Cancel, CancelTransaction, Command, TaskStatus, DispatchStatus, Integration,
         TargetState, RunStatus
<1>45. CASE RetryCancellation
  BY <1>45
     DEF RetryCancellation, CancelTransaction, Command, TaskStatus, DispatchStatus,
         Integration, TargetState, RunStatus
<1>46. ASSUME NEW a \in Attempts, RetryTask(a)
      PROVE  TypeInv'
  BY <1>46, CurrentIsAttempt, AttemptParts
     DEF RetryTask, StartRetry, Take, At, Lane, Lanes, LanePcs, LaneJobs
<1>47. ASSUME NEW a \in Attempts, RetryIntegration(a)
      PROVE  TypeInv'
  BY <1>47, CurrentIsAttempt, AttemptParts
     DEF RetryIntegration, StartRetry, Take, At, Lane, Lanes, LanePcs, LaneJobs
<1>48. ASSUME NEW t \in Tasks, AbortStage(t)
      PROVE  TypeInv'
  BY <1>48, AttemptParts DEF AbortStage, NotMemory, TaskStatus, DispatchStatus
<1>49. ASSUME NEW a \in Attempts, PickTarget(a)
      PROVE  TypeInv'
  BY <1>49 DEF PickTarget, DriverOnly, CancPcs
<1>50. CASE BeginShutdown
  BY <1>50, TerminateTypes DEF BeginShutdown, DriverOnly, Close, ShutdownState, CancPcs
<1>51. CASE ReuseGuard
  BY <1>51 DEF ReuseGuard, DriverOnly, Close, CancPcs
<1>52. CASE AlreadyClosed
  BY <1>52 DEF AlreadyClosed, DriverOnly, Close, CancPcs
<1>53. CASE CannotClose
  BY <1>53 DEF CannotClose, DriverOnly, Close, CancPcs
<1>54. CASE ShutdownVerified
  BY <1>54 DEF ShutdownVerified, DriverOnly, Close, ShutdownState, CancPcs
<1>55. CASE ShutdownTimesOut
  BY <1>55 DEF ShutdownTimesOut, DriverOnly, Close, CancPcs
<1>56. CASE SettleTarget
  BY <1>56 DEF SettleTarget, DriverOnly, NoTarget, TargetState, CancPcs
<1>57. ASSUME NEW t \in Tasks, ReconcileCancelled(t)
      PROVE  TypeInv'
  BY <1>57 DEF ReconcileCancelled, Integration
<1>58. CASE Start
  BY <1>58 DEF Start
<1>59. CASE LaunchesReconciled
  BY <1>59 DEF LaunchesReconciled
<1>60. CASE RecoveryFinished
  BY <1>60 DEF RecoveryFinished, At
<1>61. ASSUME NEW a \in Attempts, ReconcileLaunch(a)
      PROVE  TypeInv'
  BY <1>61, SettleTypes DEF ReconcileLaunch
<1>62. ASSUME NEW a \in Attempts, RecoverIntegration(a)
      PROVE  TypeInv'
  BY <1>62, CurrentIsAttempt, AttemptParts
     DEF RecoverIntegration, Take, At, Lane, Lanes, LanePcs, LaneJobs
<1>63. ASSUME NEW a \in Attempts, RecoverWorkspace(a)
      PROVE  TypeInv'
  BY <1>63 DEF RecoverWorkspace, Take, At, Phase, Lane, Lanes, LanePcs, LaneJobs
<1>64. CASE Crash
  BY <1>64 DEF Crash, NoTarget, Idle, Lanes, SessionState, Lane, LanePcs, LaneJobs, CancPcs
<1>65. CASE UNCHANGED vars
  BY <1>65
<1> QED
  BY <1>1, <1>2, <1>3, <1>4, <1>5, <1>6, <1>7, <1>8, <1>9, <1>10, <1>11, <1>12, <1>13,
     <1>14, <1>15, <1>16, <1>17, <1>18, <1>19, <1>20, <1>21, <1>22, <1>23, <1>24, <1>25,
     <1>26, <1>27, <1>28, <1>29, <1>30, <1>31, <1>32, <1>33, <1>34, <1>35, <1>36, <1>37,
     <1>38, <1>39, <1>40, <1>41, <1>42, <1>43, <1>44, <1>45, <1>46, <1>47, <1>48, <1>49,
     <1>50, <1>51, <1>52, <1>53, <1>54, <1>55, <1>56, <1>57, <1>58, <1>59, <1>60, <1>61,
     <1>62, <1>63, <1>64, <1>65
     DEF Next, Pass, Job, Worker, Closure, Person, Driver, Restart

(* The type invariant of the engine: no command, worker, lane, driver,     *)
(* crash or recovery writes a value outside of its column.                 *)
THEOREM TypeCorrect == Spec => []TypeOK
<1>1. Spec => []TypeInv
  BY TypeInit, TypeStep, PTL DEF Spec
<1>2. TypeInv => TypeOK
  BY DEF TypeInv
<1> QED
  BY <1>1, <1>2, PTL

-----------------------------------------------------------------------------
(* One spawn per attempt.                                                  *)

(* Before its claim an attempt was never spawned.  A claimed attempt that  *)
(* was spawned is either just being marked on the actor, or its host died  *)
(* and has not yet reconciled its launches: until it has, nothing spawns.  *)
(* A dispatch is accepted or completed only after the mark.                *)
SpawnPart(a) ==
  /\ launch[a] \in {"none", "reserved"} => spawned[a] = 0 /\ session[a] = "none"
  /\ launch[a] = "starting" =>
       \/ spawned[a] = 0 /\ session[a] = "none"
       \/ /\ spawned[a] = 1
          /\ host \in {"down", "booting"} \/ (lane["pump"].pc = "mark" /\ lane["pump"].at = a)
  /\ dispatch[a] \in {"dispatched", "stalled", "completed"} => launch[a] \in {"started", "attention"}
  /\ spawned[a] <= 1

MarkPart == lane["pump"].pc = "mark" => launch[lane["pump"].at] # "none"

SpawnInv == MarkPart /\ \A a \in Attempts : SpawnPart(a)

(* Steps that touch no launch, dispatch, session, host state or mark.      *)
LEMMA SpawnFrame ==
  ASSUME SpawnInv, UNCHANGED <<launch, dispatch, spawned, session, host>>,
         (lane["pump"].pc # "mark" /\ lane'["pump"].pc # "mark") \/ lane'["pump"] = lane["pump"]
  PROVE  SpawnInv'
<1>1. MarkPart'
  BY DEF SpawnInv, MarkPart
<1>2. ASSUME NEW a \in Attempts
      PROVE  SpawnPart(a)'
  <2>1. SpawnPart(a)
    BY DEF SpawnInv
  <2>2. CASE lane["pump"].pc # "mark"
    BY <2>1, <2>2 DEF SpawnPart
  <2>3. CASE lane'["pump"] = lane["pump"]
    BY <2>1, <2>3 DEF SpawnPart
  <2> QED
    BY <2>2, <2>3
<1> QED
  BY <1>1, <1>2 DEF SpawnInv

(* Every step of the engine keeps the life cycle of a launch.              *)
LEMMA SpawnStep == TypeInv /\ SpawnInv /\ [Next]_vars => SpawnInv'
<1> SUFFICES ASSUME TypeInv, SpawnInv, [Next]_vars PROVE SpawnInv'
  OBVIOUS
<1> USE DEF TypeInv, TypeOK, LanesOK, DriverOK, Lane, Lanes
<1>1. CASE ReserveLaunch
  BY <1>1 DEF ReserveLaunch, LaneOnly, Goto, Take, At, SpawnInv, SpawnPart, MarkPart
<1>2. CASE ClaimLaunch
  BY <1>2 DEF ClaimLaunch, LaneOnly, Goto, Take, At, SpawnInv, SpawnPart, MarkPart
<1>3. CASE RefuseLaunch
  BY <1>3
     DEF RefuseLaunch, LaneOnly, Finish, Take, SettleWithoutSession, ActiveDispatch,
         ActorFree, At, SpawnInv, SpawnPart, MarkPart
<1>4. CASE SpawnWorker
  BY <1>4
     DEF SpawnWorker, Goto, Take, Spawnable, ActorFree, At, SpawnInv, SpawnPart, MarkPart
<1>5. CASE MarkStarted
  BY <1>5 DEF MarkStarted, LaneOnly, Finish, Take, At, SpawnInv, SpawnPart, MarkPart
<1>6. CASE \/ ReadPage
           \/ StepWaiting
           \/ StepAttention
           \/ StepComplete
           \/ Execute
           \/ CompleteRun
           \/ PauseForAttention
           \/ \E t \in Tasks, job \in {"integrate", "prepare", "launch"} : StepJob(t, job)
           \/ LaunchReplayed
           \/ LaunchFails
           \/ ClaimRefused
  BY <1>6, SpawnFrame
     DEF ReadPage, Goto, Take, At, StepWaiting, StepOnly, Finish, StepAttention,
         StepComplete, Execute, CompleteRun, PauseForAttention, StepJob, LaunchReplayed,
         LaunchFails, ClaimRefused, LaneJobs
<1>7. ASSUME NEW l \in Lanes,
             ReserveWorkspace(l) \/ ReserveWorkspaceFails(l) \/ CreateWorkspace(l) \/
             CreateWorkspaceFails(l) \/ CreateWorkspaceRefused(l) \/ FinishSetup(l) \/
             ReserveIntegration(l) \/ ReserveIntegrationFails(l) \/ Integrate(l) \/
             IntegrateConflicts(l) \/ IntegrateFails(l) \/ IntegrateCancelled(l)
      PROVE  SpawnInv'
  <2>1. CASE ReserveWorkspace(l) \/ ReserveWorkspaceFails(l)
    BY <1>7, <2>1, SpawnFrame
       DEF ReserveWorkspace, ReserveWorkspaceFails, LaneOnly, Take, At, Fail, Finish, Goto
  <2>2. CASE \/ CreateWorkspace(l) \/ CreateWorkspaceFails(l)
             \/ CreateWorkspaceRefused(l) \/ FinishSetup(l)
    BY <1>7, <2>2, SpawnFrame
       DEF CreateWorkspace, CreateWorkspaceFails, CreateWorkspaceRefused, FinishSetup,
           LaneOnly, Take, At, Fail, Finish, Goto
  <2>3. CASE ReserveIntegration(l) \/ ReserveIntegrationFails(l)
    BY <1>7, <2>3, SpawnFrame
       DEF ReserveIntegration, ReserveIntegrationFails, LaneOnly, Take, At, Fail, Finish, Goto
  <2>4. CASE \/ Integrate(l) \/ IntegrateConflicts(l)
             \/ IntegrateFails(l) \/ IntegrateCancelled(l)
    BY <1>7, <2>4, SpawnFrame
       DEF Integrate, IntegrateConflicts, IntegrateFails, IntegrateCancelled,
           LaneOnly, Take, At, Finish
  <2> QED
    BY <1>7, <2>1, <2>2, <2>3, <2>4
<1>8. ASSUME NEW a \in Attempts, Accept(a)
      PROVE  SpawnInv'
  BY <1>8
     DEF Accept, NotMemory, MayAccept, WorkerCalls, ActorFree, SpawnInv, SpawnPart, MarkPart
<1>9. ASSUME NEW a \in Attempts, Revive(a)
      PROVE  SpawnInv'
  BY <1>9 DEF Revive, NotMemory, MayAccept, ActorFree, SpawnInv, SpawnPart, MarkPart
<1>10. ASSUME NEW a \in Attempts, Escalate(a)
      PROVE  SpawnInv'
  BY <1>10 DEF Escalate, NotMemory, WorkerCalls, ActorFree, SpawnInv, SpawnPart, MarkPart
<1>11. ASSUME NEW a \in Attempts, WorkerFails(a)
      PROVE  SpawnInv'
  BY <1>11 DEF WorkerFails, NotMemory, WorkerCalls, ActorFree, SpawnInv, SpawnPart, MarkPart
<1>12. ASSUME NEW a \in Attempts, Stall(a)
      PROVE  SpawnInv'
  BY <1>12 DEF Stall, NotMemory, ActorFree, SpawnInv, SpawnPart, MarkPart
<1>13. ASSUME NEW a \in Attempts, Failover(a)
      PROVE  SpawnInv'
  BY <1>13
     DEF Failover, SettleOnly, NotMemory, SettleWithoutSession, ActiveDispatch,
         DeferRemoval, RemoveSession, ActorFree, SpawnInv, SpawnPart, MarkPart
<1>14. ASSUME NEW a \in Attempts,
             RequestCompletion(a) \/ ProcessDies(a)
      PROVE  SpawnInv'
  BY <1>14, SpawnFrame DEF RequestCompletion, NotMemory, ProcessDies
<1>15. ASSUME NEW a \in Attempts, FinishCompletion(a)
      PROVE  SpawnInv'
  BY <1>15 DEF FinishCompletion, NotMemory, ActorFree, SpawnInv, SpawnPart, MarkPart
<1>16. ASSUME NEW a \in Attempts, AcceptanceTimeout(a)
      PROVE  SpawnInv'
  BY <1>16
     DEF AcceptanceTimeout, SettleOnly, NotMemory, SettleWithoutSession, ActiveDispatch,
         DeferRemoval, RemoveSession, ActorFree, SpawnInv, SpawnPart, MarkPart
<1>17. ASSUME NEW a \in Attempts, SessionExits(a)
      PROVE  SpawnInv'
  BY <1>17
     DEF SessionExits, SettleOnly, NotMemory, SettleWithoutSession, ActiveDispatch, Live,
         ActorFree, SpawnInv, SpawnPart, MarkPart
<1>18. ASSUME NEW a \in Attempts, FinishClosing(a)
      PROVE  SpawnInv'
  BY <1>18
     DEF FinishClosing, SettleOnly, NotMemory, SettleWithoutSession, ActiveDispatch,
         ActorFree, SpawnInv, SpawnPart, MarkPart
<1>19. CASE SettleFailed
  BY <1>19
     DEF SettleFailed, NotMemory, Terminate, DeferRemoval, SettleWithoutSession,
         ActiveDispatch, RemoveSession, SpawnInv, SpawnPart, MarkPart
<1>20. CASE Cancel
  BY <1>20
     DEF Cancel, CancelTransaction, ActiveDispatch, Command, ActorFree, SpawnInv, SpawnPart,
         MarkPart
<1>21. CASE RetryCancellation
  BY <1>21
     DEF RetryCancellation, CancelTransaction, ActiveDispatch, Command, ActorFree, SpawnInv,
         SpawnPart, MarkPart
<1>22. ASSUME NEW t \in Tasks, AbortStage(t)
      PROVE  SpawnInv'
  BY <1>22
     DEF AbortStage, NotMemory, ActiveDispatch, ActorFree, SpawnInv, SpawnPart, MarkPart
<1>23. CASE \/ Pause
            \/ Resume
            \/ \E a \in Attempts : RetryTask(a)
            \/ \E a \in Attempts : RetryIntegration(a)
  BY <1>23, SpawnFrame
     DEF Pause, Command, Resume, RetryTask, StartRetry, Take, At, RetryIntegration
<1>24. CASE BeginShutdown
  BY <1>24
     DEF BeginShutdown, DriverOnly, Close, Terminate, DeferRemoval, SettleWithoutSession,
         ActiveDispatch, RemoveSession, ActorFree, SpawnInv, SpawnPart, MarkPart
<1>25. CASE \/ \E a \in Attempts : PickTarget(a)
            \/ ReuseGuard
            \/ AlreadyClosed
            \/ CannotClose
            \/ ShutdownVerified
            \/ ShutdownTimesOut
            \/ SettleTarget
            \/ \E t \in Tasks : ReconcileCancelled(t)
  BY <1>25, SpawnFrame
     DEF PickTarget, DriverOnly, ReuseGuard, Close, AlreadyClosed, CannotClose,
         ShutdownVerified, ShutdownTimesOut, SettleTarget, NoTarget, ReconcileCancelled
<1>26. CASE Start
  BY <1>26 DEF Start, SpawnInv, SpawnPart, MarkPart
<1>27. CASE LaunchesReconciled
  BY <1>27
     DEF LaunchesReconciled, Interrupted, ActiveDispatch, SpawnInv, SpawnPart, MarkPart
<1>28. CASE RecoveryFinished
  BY <1>28 DEF RecoveryFinished, At, SpawnInv, SpawnPart, MarkPart
<1>29. ASSUME NEW a \in Attempts, ReconcileLaunch(a)
      PROVE  SpawnInv'
  BY <1>29
     DEF ReconcileLaunch, SettleWithoutSession, ActiveDispatch, Live, Interrupted, SpawnInv,
         SpawnPart, MarkPart
<1>30. CASE Crash
  BY <1>30 DEF Crash, NoTarget, Idle, SpawnInv, SpawnPart, MarkPart
<1>31. ASSUME NEW a \in Attempts,
             RecoverIntegration(a) \/ RecoverWorkspace(a)
      PROVE  SpawnInv'
  BY <1>31, SpawnFrame DEF RecoverIntegration, Take, At, RecoverWorkspace
<1>32. CASE UNCHANGED vars
  BY <1>32, SpawnFrame
<1> QED
  BY <1>1, <1>2, <1>3, <1>4, <1>5, <1>6, <1>7, <1>8, <1>9, <1>10, <1>11, <1>12, <1>13,
     <1>14, <1>15, <1>16, <1>17, <1>18, <1>19, <1>20, <1>21, <1>22, <1>23, <1>24, <1>25,
     <1>26, <1>27, <1>28, <1>29, <1>30, <1>31, <1>32
     DEF Next, Pass, Job, Worker, Closure, Person, Driver, Restart

(* The life cycle of every launch, as an invariant of the engine.          *)
LEMMA LaunchLifeCycle == Spec => [](TypeInv /\ SpawnInv)
<1>1. Init => SpawnInv
  BY DEF Init, SpawnInv, SpawnPart, MarkPart, Idle, Lanes
<1> QED
  BY <1>1, TypeInit, TypeStep, SpawnStep, PTL DEF Spec

(* A worker is spawned at most once for an attempt, whatever crash falls   *)
(* between the claim, the spawn and mark_workflow_launch_started.          *)
THEOREM SpawnedOnce == Spec => []OneSpawnPerAttempt
<1>1. SpawnInv => OneSpawnPerAttempt
  BY DEF SpawnInv, SpawnPart, OneSpawnPerAttempt
<1> QED
  BY <1>1, LaunchLifeCycle, PTL

-----------------------------------------------------------------------------
(* Cancellation.                                                           *)

(* Targets and shutdowns exist only in a cancelled run, which spawns       *)
(* nothing any more; every launch of a cancelled run has a target; and a   *)
(* closure that was recorded, or is about to be, is that of a dead worker. *)
QuietPart(a) ==
  /\ target[a] # "none" \/ shutdown[a] # "unstarted" => status = "cancelled"
  /\ target[a] = "settled" => ~Working(a) /\ shutdown[a] # "started"
  /\ shutdown[a] = "verified" => ~proc[a]
  /\ status = "cancelled" /\ launch[a] # "none" => target[a] # "none"
  /\ closed => status = "cancelled" /\ target[a] \in {"none", "settled"}

DriverPart ==
  canc.pc # "idle" => /\ status = "cancelled" /\ target[canc.at] = "pending"
                      /\ canc.pc = "settle" /\ canc.ok => ~Working(canc.at)

QuietInv == DriverPart /\ \A a \in Attempts : QuietPart(a)

(* Steps that touch nothing a cancellation looks at.                       *)
LEMMA QuietFrame ==
  ASSUME QuietInv, UNCHANGED <<status, closed, target, shutdown, proc, session, launch, canc>>
  PROVE  QuietInv'
  BY DEF QuietInv, QuietPart, DriverPart, Working

(* Every step of the engine keeps what the cancellation knows.             *)
LEMMA QuietStep == TypeInv /\ SpawnInv /\ QuietInv /\ [Next]_vars => QuietInv'
<1> SUFFICES ASSUME TypeInv, SpawnInv, QuietInv, [Next]_vars PROVE QuietInv'
  OBVIOUS
<1> USE DEF TypeInv, TypeOK, LanesOK, DriverOK, Lane, Lanes
<1>1. CASE CompleteRun
  BY <1>1
     DEF CompleteRun, Finish, Take, Goto, At, QuietInv, QuietPart, DriverPart, Working, Live
<1>2. CASE PauseForAttention
  BY <1>2
     DEF PauseForAttention, Finish, Take, At, QuietInv, QuietPart, DriverPart, Working, Live
<1>3. CASE ReserveLaunch
  BY <1>3
     DEF ReserveLaunch, LaneOnly, Goto, Take, Inputs, At, QuietInv, QuietPart, DriverPart,
         Working, Live
<1>4. CASE ClaimLaunch
  BY <1>4
     DEF ClaimLaunch, LaneOnly, Goto, Take, Inputs, At, QuietInv, QuietPart, DriverPart,
         Working, Live
<1>5. CASE RefuseLaunch
  BY <1>5
     DEF RefuseLaunch, LaneOnly, Finish, Take, SettleWithoutSession, Accepted, At, QuietInv,
         QuietPart, DriverPart, Working, Live
<1>6. CASE SpawnWorker
  BY <1>6
     DEF SpawnWorker, Goto, Take, Spawnable, Inputs, At, QuietInv, QuietPart, DriverPart,
         Working, Live
<1>7. CASE MarkStarted
  BY <1>7
     DEF MarkStarted, LaneOnly, Finish, Take, At, QuietInv, QuietPart, DriverPart, Working,
         Live, SpawnInv, MarkPart
<1>8. CASE \/ ReadPage
           \/ StepWaiting
           \/ StepAttention
           \/ StepComplete
           \/ Execute
           \/ \E t \in Tasks, job \in {"integrate", "prepare", "launch"} : StepJob(t, job)
           \/ LaunchReplayed
           \/ LaunchFails
           \/ ClaimRefused
  BY <1>8, QuietFrame
     DEF ReadPage, Goto, Take, At, StepWaiting, StepOnly, Finish, StepAttention,
         StepComplete, Execute, StepJob, LaunchReplayed, LaunchFails, ClaimRefused
<1>9. ASSUME NEW l \in Lanes,
             ReserveWorkspace(l) \/ ReserveWorkspaceFails(l) \/ CreateWorkspace(l) \/
             CreateWorkspaceFails(l) \/ CreateWorkspaceRefused(l) \/ FinishSetup(l) \/
             ReserveIntegration(l) \/ ReserveIntegrationFails(l) \/ Integrate(l) \/
             IntegrateConflicts(l) \/ IntegrateFails(l) \/ IntegrateCancelled(l)
      PROVE  QuietInv'
  BY <1>9, QuietFrame
     DEF ReserveWorkspace, LaneOnly, Take, At, ReserveWorkspaceFails, Fail, Finish, Goto,
         CreateWorkspace, CreateWorkspaceFails, CreateWorkspaceRefused, FinishSetup,
         ReserveIntegration, ReserveIntegrationFails, Integrate, IntegrateConflicts,
         IntegrateFails, IntegrateCancelled
<1>10. ASSUME NEW a \in Attempts, Escalate(a)
      PROVE  QuietInv'
  BY <1>10
     DEF Escalate, NotMemory, QuietInv, QuietPart, DriverPart, Working, Live, SpawnInv,
         SpawnPart
<1>11. ASSUME NEW a \in Attempts, Failover(a)
      PROVE  QuietInv'
  BY <1>11
     DEF Failover, SettleOnly, NotMemory, SettleWithoutSession, Accepted, DeferRemoval,
         RemoveSession, QuietInv, QuietPart, DriverPart, Working, Live
<1>12. ASSUME NEW a \in Attempts, ProcessDies(a)
      PROVE  QuietInv'
  BY <1>12 DEF ProcessDies, QuietInv, QuietPart, DriverPart, Working, Live
<1>13. ASSUME NEW a \in Attempts,
             Accept(a) \/ Revive(a) \/ RequestCompletion(a) \/ WorkerFails(a) \/
             Stall(a)
      PROVE  QuietInv'
  BY <1>13, QuietFrame DEF Accept, NotMemory, Revive, RequestCompletion, WorkerFails, Stall
<1>14. ASSUME NEW a \in Attempts, FinishCompletion(a)
      PROVE  QuietInv'
  BY <1>14 DEF FinishCompletion, NotMemory, QuietInv, QuietPart, DriverPart, Working, Live
<1>15. ASSUME NEW a \in Attempts, AcceptanceTimeout(a)
      PROVE  QuietInv'
  BY <1>15
     DEF AcceptanceTimeout, SettleOnly, NotMemory, SettleWithoutSession, Accepted,
         DeferRemoval, RemoveSession, QuietInv, QuietPart, DriverPart, Working, Live
<1>16. ASSUME NEW a \in Attempts, SessionExits(a)
      PROVE  QuietInv'
  BY <1>16
     DEF SessionExits, SettleOnly, NotMemory, SettleWithoutSession, Accepted, Live,
         QuietInv, QuietPart, DriverPart, Working
<1>17. ASSUME NEW a \in Attempts, FinishClosing(a)
      PROVE  QuietInv'
  BY <1>17
     DEF FinishClosing, SettleOnly, NotMemory, SettleWithoutSession, Accepted, QuietInv,
         QuietPart, DriverPart, Working, Live
<1>18. CASE SettleFailed
  BY <1>18
     DEF SettleFailed, NotMemory, Terminate, DeferRemoval, SettleWithoutSession, Accepted,
         RemoveSession, QuietInv, QuietPart, DriverPart, Working, Live
<1>19. CASE Pause
  BY <1>19 DEF Pause, Command, QuietInv, QuietPart, DriverPart, Working, Live
<1>20. CASE Resume
  BY <1>20 DEF Resume, Command, QuietInv, QuietPart, DriverPart, Working, Live
<1>21. CASE Cancel
  BY <1>21
     DEF Cancel, CancelTransaction, AllSettled, Accepted, Command, QuietInv, QuietPart,
         DriverPart, Working, Live
<1>22. CASE RetryCancellation
  BY <1>22
     DEF RetryCancellation, CancelTransaction, AllSettled, Command, QuietInv, QuietPart,
         DriverPart, Working, Live
<1>23. CASE \/ \E a \in Attempts : RetryTask(a)
            \/ \E a \in Attempts : RetryIntegration(a)
            \/ \E t \in Tasks : AbortStage(t)
  BY <1>23, QuietFrame
     DEF RetryTask, StartRetry, Take, At, RetryIntegration, AbortStage, NotMemory
<1>24. ASSUME NEW a \in Attempts, PickTarget(a)
      PROVE  QuietInv'
  BY <1>24 DEF PickTarget, DriverOnly, QuietInv, QuietPart, DriverPart, Working, Live
<1>25. CASE BeginShutdown
  BY <1>25
     DEF BeginShutdown, DriverOnly, Close, Terminate, DeferRemoval, SettleWithoutSession,
         Accepted, RemoveSession, QuietInv, QuietPart, DriverPart, Working, Live
<1>26. CASE ReuseGuard
  BY <1>26 DEF ReuseGuard, DriverOnly, Close, Live, QuietInv, QuietPart, DriverPart, Working
<1>27. CASE AlreadyClosed
  BY <1>27
     DEF AlreadyClosed, DriverOnly, Close, Live, QuietInv, QuietPart, DriverPart, Working
<1>28. CASE CannotClose
  BY <1>28
     DEF CannotClose, DriverOnly, Close, Live, QuietInv, QuietPart, DriverPart, Working
<1>29. CASE ShutdownVerified
  BY <1>29
     DEF ShutdownVerified, DriverOnly, Close, QuietInv, QuietPart, DriverPart, Working, Live
<1>30. CASE ShutdownTimesOut
  BY <1>30
     DEF ShutdownTimesOut, DriverOnly, Close, QuietInv, QuietPart, DriverPart, Working, Live
<1>31. CASE SettleTarget
  BY <1>31
     DEF SettleTarget, DriverOnly, NoTarget, AllSettled, QuietInv, QuietPart, DriverPart,
         Working, Live
<1>32. ASSUME NEW t \in Tasks,
             ReconcileCancelled(t)
      PROVE  QuietInv'
  BY <1>32, QuietFrame DEF ReconcileCancelled
<1>33. ASSUME NEW a \in Attempts, ReconcileLaunch(a)
      PROVE  QuietInv'
  BY <1>33
     DEF ReconcileLaunch, SettleWithoutSession, Accepted, Live, QuietInv, QuietPart,
         DriverPart, Working
<1>34. CASE Crash
  BY <1>34 DEF Crash, NoTarget, Idle, QuietInv, QuietPart, DriverPart, Working, Live
<1>35. CASE \/ Start
            \/ LaunchesReconciled
            \/ RecoveryFinished
            \/ \E a \in Attempts : RecoverIntegration(a)
            \/ \E a \in Attempts : RecoverWorkspace(a)
  BY <1>35, QuietFrame
     DEF Start, LaunchesReconciled, RecoveryFinished, At, RecoverIntegration, Take,
         RecoverWorkspace
<1>36. CASE UNCHANGED vars
  BY <1>36, QuietFrame
<1> QED
  BY <1>1, <1>2, <1>3, <1>4, <1>5, <1>6, <1>7, <1>8, <1>9, <1>10, <1>11, <1>12, <1>13,
     <1>14, <1>15, <1>16, <1>17, <1>18, <1>19, <1>20, <1>21, <1>22, <1>23, <1>24, <1>25,
     <1>26, <1>27, <1>28, <1>29, <1>30, <1>31, <1>32, <1>33, <1>34, <1>35, <1>36
     DEF Next, Pass, Job, Worker, Closure, Person, Driver, Restart

(* What the cancellation knows, as an invariant of the engine.             *)
LEMMA CancellationKnows == Spec => [](SpawnInv /\ QuietInv)
<1>1. Init => QuietInv
  BY DEF Init, QuietInv, QuietPart, DriverPart, NoTarget
<1>2. Spec => [](TypeInv /\ SpawnInv)
  BY LaunchLifeCycle
<1> QED
  BY <1>1, <1>2, QuietStep, PTL DEF Spec

(* A cancellation target is settled only once its worker is gone, also     *)
(* when the terminal's removal was deferred or its shutdown timed out.     *)
THEOREM SettledTargetsAreStopped == Spec => []SettledTargetHasNoWorker
<1>1. QuietInv => SettledTargetHasNoWorker
  BY DEF QuietInv, QuietPart, SettledTargetHasNoWorker
<1> QED
  BY <1>1, CancellationKnows, PTL

(* An orderly shutdown is settled only on the evidence that the captured   *)
(* processes are gone.                                                     *)
THEOREM ShutdownsAreProven == Spec => []ShutdownEvidence
<1>1. TypeInv /\ QuietInv => ShutdownEvidence
  BY DEF TypeInv, TypeOK, ShutdownState, QuietInv, QuietPart, ShutdownEvidence
<1> QED
  BY <1>1, CancellationKnows, LaunchLifeCycle, PTL

(* A cancelled run is closed only when none of its workers is running: the *)
(* targets cover every worker, since a live session has a launch.          *)
THEOREM ClosedRunsAreQuiet == Spec => []CancelledRunIsQuiet
<1>1. ASSUME TypeInv, SpawnInv, QuietInv, closed, NEW a \in Attempts
      PROVE  ~Working(a) /\ target[a] \notin {"pending", "attention"}
  <2>1. status = "cancelled" /\ target[a] \in {"none", "settled"}
    BY <1>1 DEF QuietInv, QuietPart
  <2>2. CASE target[a] = "settled"
    BY <1>1, <2>2 DEF QuietInv, QuietPart
  <2>3. CASE target[a] = "none"
    <3>1. launch[a] = "none"
      BY <1>1, <2>1, <2>3 DEF QuietInv, QuietPart
    <3>2. session[a] = "none"
      BY <1>1, <3>1 DEF SpawnInv, SpawnPart
    <3> QED
      BY <2>3, <3>2 DEF Working, Live
  <2> QED
    BY <2>1, <2>2, <2>3
<1>2. TypeInv /\ SpawnInv /\ QuietInv => CancelledRunIsQuiet
  BY <1>1 DEF CancelledRunIsQuiet
<1> QED
  BY <1>2, CancellationKnows, LaunchLifeCycle, PTL

-----------------------------------------------------------------------------
(* The project setup.                                                      *)

(* A setup ran only in an attempt that left its reserved phase; attempts   *)
(* above the latest one are untouched.                                     *)
SetupPart(a) ==
  /\ phase[a] \in {"none", "reserved"} => setups[a] = 0
  /\ phase[a] = "reserved" => a[2] <= latest[a[1]]
  /\ a[2] > latest[a[1]] => setups[a] = 0
  /\ setups[a] <= 1

(* The integration lock is held by one lane at a time.                     *)
LockInv == \A k, l \in Lanes : lane[k].pc \in Locked /\ lane[l].pc \in Locked => k = l

(* A lane that is about to start a setup is the first to do so.            *)
CreateInv ==
  \A l \in Lanes : lane[l].pc = "create" =>
    setups[lane[l].at] = 0 /\ lane[l].at[2] <= latest[lane[l].at[1]]

SetupInv == LockInv /\ CreateInv /\ \A a \in Attempts : SetupPart(a)

(* Steps that touch no attempt and no lane.                                *)
LEMMA SetupFrame ==
  ASSUME SetupInv, UNCHANGED <<phase, setups, latest, lane>>
  PROVE  SetupInv'
  BY DEF SetupInv, SetupPart, LockInv, CreateInv

(* A lane that does not go to "create" enters a locked step only when the  *)
(* lock is free or its own.                                                *)
LEMMA LaneFrame ==
  ASSUME TypeOK, SetupInv, UNCHANGED <<setups, latest>>,
         NEW l \in Lanes, NEW pc, NEW at, NEW job, Take(l, pc, at, job), pc # "create",
         pc \in Locked => LockFree \/ lane[l].pc \in Locked
  PROVE  LockInv' /\ CreateInv'
<1> USE DEF Take, TypeOK
<1>1. LockInv'
  BY DEF SetupInv, LockInv, LockFree
<1>2. CreateInv'
  BY DEF SetupInv, CreateInv
<1> QED
  BY <1>1, <1>2

(* Lanes that do not move keep their lock.                                 *)
LEMMA SetupLanes ==
  ASSUME SetupInv, UNCHANGED <<setups, latest, lane>>
  PROVE  LockInv' /\ CreateInv'
  BY DEF SetupInv, LockInv, CreateInv

(* An attempt that goes to Attention is none to set up.                    *)
LEMMA PhaseFrame ==
  ASSUME SetupInv, UNCHANGED <<setups, latest>>,
         \A b \in Attempts : phase'[b] \in {phase[b], "attention"}
  PROVE  \A b \in Attempts : SetupPart(b)'
  BY DEF SetupInv, SetupPart

(* Settling a launch moves its attempt to Attention, if anywhere.          *)
LEMMA SettlePhase ==
  ASSUME TypeOK, NEW a \in Attempts, SettleWithoutSession(a)
  PROVE  \A b \in Attempts : phase'[b] \in {phase[b], "attention"}
  BY DEF TypeOK, SettleWithoutSession

(* So does terminating a session.                                          *)
LEMMA TerminatePhase ==
  ASSUME TypeOK, NEW a \in Attempts, Terminate(a)
  PROVE  \A b \in Attempts : phase'[b] \in {phase[b], "attention"}
  BY SettlePhase DEF Terminate

(* Every step of the engine keeps the setup and its lock.                  *)
LEMMA SetupStep == TypeInv /\ SetupInv /\ [Next]_vars => SetupInv'
<1> SUFFICES ASSUME TypeInv, SetupInv, [Next]_vars PROVE SetupInv'
  OBVIOUS
<1> USE DEF TypeInv
<1>1. CASE ReadPage
  BY <1>1, LaneFrame DEF ReadPage, Goto, At, SetupInv, SetupPart, Locked, Lanes
<1>2. CASE StepWaiting
  BY <1>2, LaneFrame
     DEF StepWaiting, StepOnly, Finish, At, SetupInv, SetupPart, Locked, Lanes
<1>3. CASE StepAttention
  BY <1>3, LaneFrame
     DEF StepAttention, StepOnly, Goto, At, SetupInv, SetupPart, Locked, Lanes
<1>4. CASE StepComplete
  BY <1>4, LaneFrame
     DEF StepComplete, StepOnly, Goto, At, SetupInv, SetupPart, Locked, Lanes
<1>5. CASE Execute
  <2>1. lane["pump"].job \notin Locked /\ lane["pump"].job # "create"
    BY DEF TypeOK, Lane, Lanes, LaneJobs, Locked
  <2>2. LockInv' /\ CreateInv'
    <3>1. CASE Goto("pump", lane["pump"].job)
      BY <1>5, <2>1, <3>1, LaneFrame DEF Execute, StepOnly, Goto, Lanes
    <3>2. CASE Finish("pump")
      BY <1>5, <3>2, LaneFrame DEF Execute, StepOnly, Finish, Lanes, Locked
    <3> QED
      BY <1>5, <3>1, <3>2 DEF Execute
  <2> QED
    BY <1>5, <2>2 DEF Execute, StepOnly, SetupInv, SetupPart
<1>6. CASE CompleteRun
  BY <1>6, LaneFrame DEF CompleteRun, Finish, Goto, At, SetupInv, SetupPart, Locked, Lanes
<1>7. CASE PauseForAttention
  BY <1>7, LaneFrame DEF PauseForAttention, Finish, At, SetupInv, SetupPart, Locked, Lanes
<1>8. ASSUME NEW t \in Tasks, NEW job \in {"integrate", "prepare", "launch"}, StepJob(t, job)
      PROVE  SetupInv'
  BY <1>8, LaneFrame DEF StepJob, StepOnly, At, SetupInv, SetupPart, Locked, Lanes
<1>9. CASE LaunchReplayed
  BY <1>9, LaneFrame
     DEF LaunchReplayed, StepOnly, Finish, At, SetupInv, SetupPart, Locked, Lanes
<1>10. CASE ReserveLaunch
  BY <1>10, LaneFrame
     DEF ReserveLaunch, LaneOnly, Goto, At, SetupInv, SetupPart, Locked, Lanes
<1>11. CASE LaunchFails
  BY <1>11, LaneFrame
     DEF LaunchFails, StepOnly, Goto, At, SetupInv, SetupPart, Locked, Lanes
<1>12. CASE ClaimLaunch
  BY <1>12, LaneFrame
     DEF ClaimLaunch, LaneOnly, Goto, At, SetupInv, SetupPart, Locked, Lanes
<1>13. CASE ClaimRefused
  BY <1>13, LaneFrame
     DEF ClaimRefused, StepOnly, Goto, At, SetupInv, SetupPart, Locked, Lanes
<1>14. CASE RefuseLaunch
  BY <1>14, SettlePhase, PhaseFrame, SetupLanes, LaneFrame
     DEF RefuseLaunch, LaneOnly, Finish, At, SetupInv, TypeOK, Locked, Lanes, LanesOK
<1>15. CASE SpawnWorker
  BY <1>15, LaneFrame DEF SpawnWorker, Goto, At, SetupInv, SetupPart, Locked, Lanes
<1>16. CASE MarkStarted
  BY <1>16, LaneFrame
     DEF MarkStarted, LaneOnly, Finish, At, SetupInv, SetupPart, Locked, Lanes
<1>17. ASSUME NEW l \in Lanes, ReserveWorkspace(l)
      PROVE  SetupInv'
  <2> DEFINE next == <<lane[l].at[1], lane[l].at[2] + 1>>
  <2>1. lane[l].at \in Attempts /\ lane[l].at = Current(lane[l].at[1]) /\ LockFree
    BY <1>17 DEF ReserveWorkspace, At, LanesOK, MayReserve
  <2>2. lane[l].at[1] \in Tasks /\ lane[l].at[2] = latest[lane[l].at[1]]
    BY <2>1, AttemptParts DEF Current
  <2>3. next \in Attempts /\ next[1] = lane[l].at[1] /\ next[2] = latest[next[1]] + 1
    BY <1>17, <2>1, <2>2, AttemptParts, MakeAttempt, BoundsAssumption DEF ReserveWorkspace
  <2>4. next[2] > latest[next[1]]
    BY <2>2, <2>3 DEF TypeOK
  <2>5. setups[next] = 0
    BY <2>3, <2>4 DEF SetupInv, SetupPart
  <2>6. setups' = setups /\ lane' = [lane EXCEPT ![l] = [pc |-> "create", at |-> next, job |-> lane[l].job]]
    BY <1>17 DEF ReserveWorkspace, Take
  <2>7. CreateInv'
    <3>1. \A k \in Lanes \ {l} : lane'[k].pc # "create"
      BY <2>1, <2>6 DEF LockFree, Locked, TypeOK
    <3>2. /\ lane'[l].at = next /\ setups'[next] = 0
          /\ next[2] <= latest'[next[1]]
      BY <1>17, <2>2, <2>3, <2>5, <2>6 DEF ReserveWorkspace, TypeOK
    <3> QED
      BY <3>1, <3>2 DEF CreateInv
  <2>8. LockInv'
    BY <2>1, <2>6 DEF LockInv, LockFree, TypeOK
  <2>9. ASSUME NEW a \in Attempts PROVE SetupPart(a)'
    <3>1. phase'[a] \in {"none", "reserved"} => setups[a] = 0
      BY <1>17, <2>3, <2>5 DEF ReserveWorkspace, SetupInv, SetupPart, TypeOK
    <3>2. a[2] > latest'[a[1]] => a[2] > latest[a[1]]
      BY <1>17, <2>2, AttemptParts, BoundsAssumption DEF ReserveWorkspace, TypeOK
    <3>3. phase'[a] = "reserved" => a[2] <= latest'[a[1]]
      <4>1. CASE a = next
        BY <1>17, <2>2, <2>3, <4>1 DEF ReserveWorkspace, TypeOK
      <4>2. CASE a # next
        BY <1>17, <2>2, <2>3, <4>2, AttemptParts
           DEF ReserveWorkspace, TypeOK, SetupInv, SetupPart
      <4> QED
        BY <4>1, <4>2
    <3> QED
      BY <2>6, <3>1, <3>2, <3>3 DEF SetupInv, SetupPart
  <2> QED
    BY <2>7, <2>8, <2>9 DEF SetupInv
<1>18. ASSUME NEW l \in Lanes, ReserveWorkspaceFails(l)
      PROVE  SetupInv'
  BY <1>18, LaneFrame
     DEF ReserveWorkspaceFails, LaneOnly, Fail, Finish, Goto, At, SetupInv, SetupPart,
         Locked, Lanes
<1>19. ASSUME NEW l \in Lanes, CreateWorkspace(l)
      PROVE  SetupInv'
  <2>1. /\ lane[l].at \in Attempts /\ lane[l].pc \in Locked
        /\ setups[lane[l].at] = 0 /\ lane[l].at[2] <= latest[lane[l].at[1]]
    BY <1>19 DEF CreateWorkspace, At, LanesOK, SetupInv, CreateInv, Locked
  <2>2. lane' = [lane EXCEPT ![l] = [pc |-> "setup", at |-> lane[l].at, job |-> lane[l].job]]
    BY <1>19 DEF CreateWorkspace, Goto, Take
  <2>3. LockInv'
    BY <2>1, <2>2 DEF LockInv, SetupInv, TypeOK
  <2>4. \A k \in Lanes \ {l} : lane'[k] = lane[k] /\ lane[k].pc # "create"
    BY <2>1, <2>2 DEF LockInv, SetupInv, TypeOK, Locked
  <2>5. CreateInv'
    BY <1>19, <2>2, <2>4 DEF CreateWorkspace, CreateInv, TypeOK, SetupInv
  <2>6. ASSUME NEW a \in Attempts
        PROVE  SetupPart(a)'
    <3>1. latest' = latest /\ SetupPart(a)
      BY <1>19 DEF CreateWorkspace, SetupInv
    <3>2. CASE a = lane[l].at
      <4>1. phase'[a] = "setupRunning" /\ setups'[a] = 1
        BY <1>19, <2>1, <3>2 DEF CreateWorkspace, TypeOK
      <4>2. a[2] <= latest'[a[1]] /\ a[2] \in Int /\ latest'[a[1]] \in Int
        BY <2>1, <3>1, <3>2, AttemptParts DEF TypeOK
      <4> QED
        BY <4>1, <4>2 DEF SetupPart
    <3>3. CASE a # lane[l].at
      <4>1. phase'[a] = phase[a] /\ setups'[a] = setups[a]
        BY <1>19, <2>1, <3>3 DEF CreateWorkspace, TypeOK
      <4> QED
        BY <3>1, <4>1 DEF SetupPart
    <3> QED
      BY <3>2, <3>3
  <2> QED
    BY <2>3, <2>5, <2>6 DEF SetupInv
<1>20. ASSUME NEW l \in Lanes, CreateWorkspaceFails(l)
      PROVE  SetupInv'
  BY <1>20, LaneFrame
     DEF CreateWorkspaceFails, LaneOnly, Finish, At, SetupInv, SetupPart, Locked, Lanes
<1>21. ASSUME NEW l \in Lanes, CreateWorkspaceRefused(l)
      PROVE  SetupInv'
  BY <1>21, LaneFrame
     DEF CreateWorkspaceRefused, LaneOnly, Fail, Finish, Goto, At, SetupInv, SetupPart,
         Locked, Lanes
<1>22. ASSUME NEW l \in Lanes, FinishSetup(l)
      PROVE  SetupInv'
  BY <1>22, LaneFrame
     DEF FinishSetup, LaneOnly, Finish, At, SetupInv, SetupPart, Locked, Lanes
<1>23. ASSUME NEW l \in Lanes, ReserveIntegration(l)
      PROVE  SetupInv'
  BY <1>23, LaneFrame
     DEF ReserveIntegration, LaneOnly, Goto, At, SetupInv, SetupPart, Locked, Lanes
<1>24. ASSUME NEW l \in Lanes, ReserveIntegrationFails(l)
      PROVE  SetupInv'
  BY <1>24, LaneFrame
     DEF ReserveIntegrationFails, LaneOnly, Fail, Finish, Goto, At, SetupInv, SetupPart,
         Locked, Lanes
<1>25. ASSUME NEW l \in Lanes, Integrate(l)
      PROVE  SetupInv'
  BY <1>25, LaneFrame
     DEF Integrate, LaneOnly, Finish, At, SetupInv, SetupPart, Locked, Lanes
<1>26. ASSUME NEW l \in Lanes, IntegrateConflicts(l)
      PROVE  SetupInv'
  BY <1>26, LaneFrame
     DEF IntegrateConflicts, LaneOnly, Finish, At, SetupInv, SetupPart, Locked, Lanes
<1>27. ASSUME NEW l \in Lanes, IntegrateFails(l)
      PROVE  SetupInv'
  BY <1>27, LaneFrame
     DEF IntegrateFails, LaneOnly, Fail, Finish, Goto, At, SetupInv, SetupPart, Locked,
         Lanes
<1>28. ASSUME NEW l \in Lanes, IntegrateCancelled(l)
      PROVE  SetupInv'
  BY <1>28, LaneFrame
     DEF IntegrateCancelled, LaneOnly, Finish, At, SetupInv, SetupPart, Locked, Lanes
<1>29. ASSUME NEW a \in Attempts, Failover(a)
      PROVE  SetupInv'
  BY <1>29, SettlePhase, PhaseFrame, SetupLanes
     DEF Failover, SettleOnly, NotMemory, SetupInv, TypeOK
<1>30. ASSUME NEW a \in Attempts,
             Accept(a) \/ Revive(a) \/ Escalate(a) \/ RequestCompletion(a) \/
             WorkerFails(a) \/ Stall(a) \/ ProcessDies(a)
      PROVE  SetupInv'
  BY <1>30, SetupFrame
     DEF Accept, NotMemory, Revive, Escalate, RequestCompletion, WorkerFails, Stall,
         ProcessDies
<1>31. ASSUME NEW a \in Attempts, AcceptanceTimeout(a)
      PROVE  SetupInv'
  BY <1>31, SettlePhase, PhaseFrame, SetupLanes
     DEF AcceptanceTimeout, SettleOnly, NotMemory, SetupInv, TypeOK
<1>32. ASSUME NEW a \in Attempts, SessionExits(a)
      PROVE  SetupInv'
  BY <1>32, SettlePhase, PhaseFrame, SetupLanes
     DEF SessionExits, SettleOnly, NotMemory, SetupInv, TypeOK
<1>33. ASSUME NEW a \in Attempts, FinishClosing(a)
      PROVE  SetupInv'
  BY <1>33, SettlePhase, PhaseFrame, SetupLanes
     DEF FinishClosing, SettleOnly, NotMemory, SetupInv, TypeOK
<1>34. CASE SettleFailed
  BY <1>34, TerminatePhase, PhaseFrame, SetupLanes
     DEF SettleFailed, NotMemory, SetupInv, TypeOK
<1>35. ASSUME NEW a \in Attempts,
             FinishCompletion(a)
      PROVE  SetupInv'
  BY <1>35, SetupFrame DEF FinishCompletion, NotMemory
<1>36. ASSUME NEW a \in Attempts, RetryTask(a)
      PROVE  SetupInv'
  BY <1>36, LaneFrame DEF RetryTask, StartRetry, At, SetupInv, SetupPart, Locked, Lanes
<1>37. ASSUME NEW a \in Attempts, RetryIntegration(a)
      PROVE  SetupInv'
  BY <1>37, LaneFrame
     DEF RetryIntegration, StartRetry, At, SetupInv, SetupPart, Locked, Lanes
<1>38. CASE \/ Pause
            \/ Resume
            \/ Cancel
            \/ RetryCancellation
            \/ \E t \in Tasks : AbortStage(t)
  BY <1>38, SetupFrame
     DEF Pause, Command, Resume, Cancel, CancelTransaction, RetryCancellation, AbortStage,
         NotMemory
<1>39. CASE BeginShutdown
  <2>1. canc.at \in Attempts /\ Terminate(canc.at)
    BY <1>39 DEF BeginShutdown, DriverOK
  <2>2. \A b \in Attempts : phase'[b] \in {phase[b], "attention"}
    BY <2>1, TerminatePhase
  <2>3. LockInv' /\ CreateInv'
    BY <1>39, SetupLanes DEF BeginShutdown, DriverOnly
  <2>4. \A b \in Attempts : SetupPart(b)'
    BY <1>39, <2>2, PhaseFrame DEF BeginShutdown, DriverOnly
  <2> QED
    BY <2>3, <2>4 DEF SetupInv
<1>40. CASE \/ \E a \in Attempts : PickTarget(a)
            \/ ReuseGuard
            \/ AlreadyClosed
            \/ CannotClose
            \/ ShutdownVerified
            \/ ShutdownTimesOut
            \/ SettleTarget
            \/ \E t \in Tasks : ReconcileCancelled(t)
  BY <1>40, SetupFrame
     DEF PickTarget, DriverOnly, ReuseGuard, Close, AlreadyClosed, CannotClose,
         ShutdownVerified, ShutdownTimesOut, SettleTarget, NoTarget, ReconcileCancelled
<1>41. ASSUME NEW a \in Attempts, ReconcileLaunch(a)
      PROVE  SetupInv'
  BY <1>41, SettlePhase, PhaseFrame, SetupLanes DEF ReconcileLaunch, SetupInv, TypeOK
<1>42. ASSUME NEW a \in Attempts, RecoverIntegration(a)
      PROVE  SetupInv'
  BY <1>42, LaneFrame DEF RecoverIntegration, At, SetupInv, SetupPart, Locked, Lanes
<1>43. ASSUME NEW a \in Attempts, RecoverWorkspace(a)
      PROVE  SetupInv'
  <2>1. CASE phase[a] = "reserved" /\ Take("boot", "create", a, "prepare") /\ UNCHANGED phase
    <3>1. LockFree /\ UNCHANGED <<setups, latest>>
      BY <1>43 DEF RecoverWorkspace
    <3>2. lane' = [lane EXCEPT !["boot"] = [pc |-> "create", at |-> a, job |-> "prepare"]]
      BY <2>1 DEF Take
    <3>3. LockInv'
      BY <3>1, <3>2 DEF LockInv, LockFree, TypeOK, Lanes
    <3>4. setups[a] = 0 /\ a[2] <= latest[a[1]]
      BY <2>1 DEF SetupInv, SetupPart
    <3>5. CreateInv'
      <4>1. \A k \in Lanes \ {"boot"} : lane'[k].pc # "create"
        BY <3>1, <3>2 DEF LockFree, Locked, TypeOK
      <4>2. lane'["boot"].at = a
        BY <3>2 DEF TypeOK, Lanes
      <4> QED
        BY <3>1, <3>4, <4>1, <4>2 DEF CreateInv
    <3> QED
      BY <2>1, <3>1, <3>3, <3>5 DEF SetupInv, SetupPart
  <2>2. CASE phase' = [phase EXCEPT ![a] = "attention"] /\ UNCHANGED lane
    <3>1. UNCHANGED <<setups, latest, lane>> /\ \A b \in Attempts : phase'[b] \in {phase[b], "attention"}
      BY <1>43, <2>2 DEF RecoverWorkspace, TypeOK
    <3> QED
      BY <3>1, PhaseFrame, SetupLanes DEF SetupInv
  <2> QED
    BY <1>43, <2>1, <2>2 DEF RecoverWorkspace
<1>44. CASE Crash
  <2>1. UNCHANGED <<phase, setups, latest>> /\ \A l \in Lanes : lane'[l] = Idle
    BY <1>44 DEF Crash
  <2>2. LockInv' /\ CreateInv'
    BY <2>1 DEF LockInv, CreateInv, Idle, Locked
  <2> QED
    BY <2>1, <2>2 DEF SetupInv, SetupPart
<1>45. CASE \/ Start
            \/ LaunchesReconciled
            \/ RecoveryFinished
  BY <1>45, SetupFrame DEF Start, LaunchesReconciled, RecoveryFinished, At
<1>46. CASE UNCHANGED vars
  BY <1>46, SetupFrame
<1> QED
  BY <1>1, <1>2, <1>3, <1>4, <1>5, <1>6, <1>7, <1>8, <1>9, <1>10, <1>11, <1>12, <1>13,
     <1>14, <1>15, <1>16, <1>17, <1>18, <1>19, <1>20, <1>21, <1>22, <1>23, <1>24, <1>25,
     <1>26, <1>27, <1>28, <1>29, <1>30, <1>31, <1>32, <1>33, <1>34, <1>35, <1>36, <1>37,
     <1>38, <1>39, <1>40, <1>41, <1>42, <1>43, <1>44, <1>45, <1>46
     DEF Next, Pass, Job, Worker, Closure, Person, Driver, Restart

(* The project setup of an attempt runs at most once, in whichever lane    *)
(* and across restarts.                                                    *)
THEOREM SetupOnce == Spec => []SetupRunsOnce
<1>1. Init => SetupInv
  BY DEF Init, SetupInv, SetupPart, LockInv, CreateInv, Idle, Locked
<1>2. Spec => [](TypeInv /\ SpawnInv)
  BY LaunchLifeCycle
<1>3. SetupInv => SetupRunsOnce
  BY DEF SetupInv, SetupPart, SetupRunsOnce
<1> QED
  BY <1>1, <1>2, <1>3, SetupStep, PTL DEF Spec

-----------------------------------------------------------------------------
(* Cancellation and work in flight.                                        *)

(* No step taken after a cancellation, of whatever was in flight at that   *)
(* moment, revives the run, adds evidence, or starts a setup or a worker.  *)
THEOREM CancelledForGood == Spec => CancelledRunDoesNothingNew
<1> DEFINE Quiet == status' = "cancelled" /\ UNCHANGED <<evidence, setups, spawned>>
<1>1. ASSUME Next, status = "cancelled" PROVE Quiet
  <2> USE <1>1 DEF Accepted
  <2>1. CASE Pass
    BY <2>1
       DEF Pass, ReadPage, StepWaiting, StepAttention, StepComplete, Execute, CompleteRun,
           PauseForAttention, StepJob, StepOnly, LaunchReplayed, ReserveLaunch, LaunchFails,
           ClaimLaunch, ClaimRefused, RefuseLaunch, SpawnWorker, Spawnable, Inputs,
           MarkStarted, LaneOnly
  <2>2. ASSUME NEW l \in Lanes, Job(l) PROVE Quiet
    BY <2>2
       DEF Job, ReserveWorkspace, MayReserve, ReserveWorkspaceFails, CreateWorkspace,
           CreateWorkspaceFails, CreateWorkspaceRefused, FinishSetup, Eligible,
           ReserveIntegration, ReserveIntegrationFails, Integrate, IntegrateConflicts,
           IntegrateFails, IntegrateCancelled, LaneOnly
  <2>3. ASSUME NEW a \in Attempts, Worker(a) \/ Closure(a) PROVE Quiet
    BY <2>3
       DEF Worker, Closure, Accept, Revive, Escalate, RequestCompletion, WorkerFails, Stall,
           Failover, ProcessDies, FinishCompletion, AcceptanceTimeout, SessionExits,
           FinishClosing, SettleOnly
  <2>4. CASE SettleFailed
    BY <2>4 DEF SettleFailed
  <2>5. CASE Person
    BY <2>5
       DEF Person, Pause, Resume, Cancel, RetryCancellation, CancelTransaction, RetryTask,
           RetryIntegration, StartRetry, AbortStage
  <2>6. CASE Driver
    BY <2>6
       DEF Driver, PickTarget, BeginShutdown, ReuseGuard, AlreadyClosed, CannotClose,
           ShutdownVerified, ShutdownTimesOut, SettleTarget, ReconcileCancelled, DriverOnly
  <2>7. CASE Restart \/ Crash
    BY <2>7
       DEF Restart, Start, LaunchesReconciled, RecoveryFinished, ReconcileLaunch,
           RecoverIntegration, RecoverWorkspace, Crash
  <2> QED
    BY <2>1, <2>2, <2>3, <2>4, <2>5, <2>6, <2>7 DEF Next
<1>2. [Next]_vars => [status = "cancelled" => Quiet]_vars
  BY <1>1
<1> QED
  BY <1>2, PTL DEF Spec, CancelledRunDoesNothingNew
=============================================================================
