----------------------------- MODULE RunTaskProofs -----------------------------
(***************************************************************************)
(* Safety of the tasks of an isolated Run, for every set of tasks,         *)
(* dependency relation and bound: which attempt a dispatch belongs to,     *)
(* what a launch builds on, who still runs when an attempt is replaced and *)
(* how the scheduler's limit relates to the store's.  The four parts of    *)
(* RunEngineProofs' invariant are extended by five: the attempt a task     *)
(* accepts (TaskInv), the life of a workspace (AttemptInv), the evidence   *)
(* under a launch (DepsInv), the sessions of replaced attempts (LiveInv)   *)
(* and the count a pass acts on (LimitInv).                                *)
(***************************************************************************)
EXTENDS RunEngineProofs, FiniteSetTheorems

USE DEF vars, runVars, taskVars, attemptVars, cancelVars, workerVars, memoryVars, hostVars

-----------------------------------------------------------------------------
(* An open or completed dispatch is the latest attempt's, and its task     *)
(* shows it.                                                               *)
DispatchPart(a) ==
  /\ dispatch[a] \in ActiveDispatch =>
       a = Current(a[1]) /\ task[a[1]] \in {"dispatched", "stalled"}
  /\ dispatch[a] = "completed" => a = Current(a[1]) /\ task[a[1]] = "completed"

(* A completed task has its completed dispatch; only completed tasks are   *)
(* integrated.                                                             *)
ResultPart(t) ==
  /\ task[t] = "completed" => dispatch[Current(t)] = "completed"
  /\ t \in evidence \/ integration[t] # "none" => task[t] = "completed"

(* A lane about to record a merge merges the result of a completed task.   *)
ApplyPart == \A l \in Lanes : lane[l].pc = "apply" => task[lane[l].at[1]] = "completed"

TaskInv == /\ \A a \in Attempts : DispatchPart(a)
           /\ \A t \in Tasks : ResultPart(t)
           /\ ApplyPart

-----------------------------------------------------------------------------
(* Settling a launch, from the point of view of the attempts and tasks.    *)

(* Other attempts are left alone; this one keeps its state, or its open    *)
(* dispatch ends in Attention.  The task returns to pending only when this *)
(* is its latest attempt and no dispatch of it is left.                    *)
Settles(a) ==
  /\ \A b \in Attempts \ {a} :
       phase'[b] = phase[b] /\ launch'[b] = launch[b] /\ dispatch'[b] = dispatch[b]
  /\ \/ phase'[a] = phase[a] /\ launch'[a] = launch[a] /\ dispatch'[a] = dispatch[a]
     \/ /\ launch[a] # "none" /\ dispatch[a] # "completed"
        /\ phase'[a] = "attention" /\ launch'[a] = "attention"
        /\ dispatch'[a] \notin ActiveDispatch \cup {"completed"}
  /\ \A t \in Tasks :
       \/ task'[t] = task[t]
       \/ /\ t = a[1] /\ a = Current(t) /\ task[t] # "completed" /\ task'[t] = "pending"
          /\ dispatch'[a] \notin ActiveDispatch \cup {"completed"}

(* settle_workflow_launch_without_session does so.                         *)
LEMMA SettleFacts ==
  ASSUME TypeOK, NEW a \in Attempts, SettleWithoutSession(a)
  PROVE  Settles(a)
<1>1. CASE launch[a] = "none" \/ dispatch[a] = "completed"
  BY <1>1 DEF SettleWithoutSession, Settles
<1>2. CASE ~(launch[a] = "none" \/ dispatch[a] = "completed")
  <2>1. \A b \in Attempts \ {a} :
          phase'[b] = phase[b] /\ launch'[b] = launch[b] /\ dispatch'[b] = dispatch[b]
    BY <1>2 DEF SettleWithoutSession, TypeOK
  <2>2. phase'[a] = "attention" /\ launch'[a] = "attention"
    BY <1>2 DEF SettleWithoutSession, TypeOK
  <2>3. dispatch'[a] \notin ActiveDispatch \cup {"completed"}
    BY <1>2 DEF SettleWithoutSession, TypeOK, ActiveDispatch
  <2>4. \A t \in Tasks : \/ task'[t] = task[t]
                        \/ /\ t = a[1] /\ a = Current(t) /\ task[t] # "completed"
                           /\ task'[t] = "pending"
    BY <1>2 DEF SettleWithoutSession, TypeOK
  <2> QED
    BY <1>2, <2>1, <2>2, <2>3, <2>4 DEF Settles
<1> QED
  BY <1>1, <1>2

(* So does terminating a session, now or later.                            *)
LEMMA TerminateFacts ==
  ASSUME TypeOK, NEW a \in Attempts, Terminate(a)
  PROVE  Settles(a)
  BY SettleFacts DEF Terminate, Settles

(* Tasks that abort_stage reaches: the aborted one and waiting ones.       *)
LEMMA CancelledWithFacts ==
  ASSUME NEW t \in Tasks
  PROVE  /\ CancelledWith(t) \subseteq Tasks /\ t \in CancelledWith(t)
         /\ \A u \in CancelledWith(t) : u = t \/ Waiting(u)
<1> DEFINE Closed(S) == \A u \in Tasks \ S : Waiting(u) => Deps[u] \cap S = {}
           Least(S) == /\ t \in S /\ Closed(S)
                       /\ \A R \in SUBSET Tasks : t \in R /\ Closed(R) => S \subseteq R
           I == {u \in Tasks : \A R \in SUBSET Tasks : t \in R /\ Closed(R) => u \in R}
<1>1. I \in SUBSET Tasks /\ t \in I
  OBVIOUS
<1>2. Closed(I)
  <2> SUFFICES ASSUME NEW u \in Tasks \ I, Waiting(u), NEW d \in Deps[u], d \in I
               PROVE  FALSE
    OBVIOUS
  <2>1. PICK R \in SUBSET Tasks : t \in R /\ Closed(R) /\ u \notin R
    OBVIOUS
  <2>2. d \in R
    BY <2>1
  <2> QED
    BY <2>1, <2>2
<1>3. Least(I)
  BY <1>1, <1>2
<1>4. CancelledWith(t) = CHOOSE S \in SUBSET Tasks : Least(S)
  BY DEF CancelledWith
<1>5. CancelledWith(t) \in SUBSET Tasks /\ Least(CancelledWith(t))
  <2> HIDE DEF Least
  <2> QED
    BY <1>1, <1>3, <1>4
<1> DEFINE R == {u \in CancelledWith(t) : u = t \/ Waiting(u)}
<1>6. R \in SUBSET Tasks /\ t \in R /\ Closed(R)
  BY <1>5
<1>7. CancelledWith(t) \subseteq R
  BY <1>5, <1>6
<1> QED
  BY <1>5, <1>7

-----------------------------------------------------------------------------
(* The attempt a task accepts.                                             *)

(* Steps that write no task, dispatch or integration: a lane starts to     *)
(* apply only the result of a completed task.                              *)
LEMMA TaskFrame ==
  ASSUME TaskInv, UNCHANGED <<task, dispatch, latest, evidence, integration>>,
         \A l \in Lanes : lane'[l].pc = "apply" =>
           lane'[l] = lane[l] \/ task[lane'[l].at[1]] = "completed"
  PROVE  TaskInv'
<1>1. \A a \in Attempts : DispatchPart(a)'
  BY DEF TaskInv, DispatchPart, Current
<1>2. \A t \in Tasks : ResultPart(t)'
  BY DEF TaskInv, ResultPart, Current
<1>3. ApplyPart'
  BY DEF TaskInv, ApplyPart
<1> QED
  BY <1>1, <1>2, <1>3 DEF TaskInv

(* A lane that moves to a step other than applying.                        *)
LEMMA TakeFrame ==
  ASSUME TypeOK, NEW l \in Lanes, NEW pc, NEW at, NEW job, Take(l, pc, at, job), pc # "apply"
  PROVE  \A k \in Lanes : lane'[k].pc = "apply" => lane'[k] = lane[k]
  BY DEF TypeOK, Take

(* Steps that leave completed tasks completed keep what lanes apply.       *)
LEMMA ApplyFrame ==
  ASSUME TypeInv, TaskInv,
         \A t \in Tasks : task[t] = "completed" => task'[t] = "completed",
         \A l \in Lanes : lane'[l].pc = "apply" => lane'[l] = lane[l]
  PROVE  ApplyPart'
<1> SUFFICES ASSUME NEW l \in Lanes, lane'[l].pc = "apply"
             PROVE  task'[lane'[l].at[1]] = "completed"
  BY DEF ApplyPart
<1>1. lane'[l] = lane[l] /\ lane[l].at \in Attempts
  BY DEF TypeInv, LanesOK
<1>2. lane[l].at[1] \in Tasks /\ task[lane[l].at[1]] = "completed"
  BY <1>1, AttemptParts DEF TaskInv, ApplyPart
<1> QED
  BY <1>1, <1>2

(* Settling a launch keeps the attempt a task accepts.                     *)
LEMMA SettleTask ==
  ASSUME TypeInv, TaskInv, NEW a \in Attempts, Settles(a),
         UNCHANGED <<latest, evidence, integration>>,
         \A l \in Lanes : lane'[l].pc = "apply" => lane'[l] = lane[l]
  PROVE  TaskInv'
<1>1. ASSUME NEW b \in Attempts PROVE DispatchPart(b)'
  <2>1. b[1] \in Tasks /\ DispatchPart(b)
    BY AttemptParts DEF TaskInv
  <2>2. dispatch'[b] \in ActiveDispatch \cup {"completed"} => dispatch'[b] = dispatch[b]
    BY DEF Settles
  <2>3. dispatch'[b] \in ActiveDispatch \cup {"completed"} => task'[b[1]] = task[b[1]]
    BY <2>1, <2>2 DEF Settles, DispatchPart
  <2> QED
    BY <2>1, <2>2, <2>3 DEF DispatchPart, Current
<1>2. ASSUME NEW t \in Tasks PROVE ResultPart(t)'
  <2>1. ResultPart(t) /\ Current(t) \in Attempts
    BY CurrentIsAttempt DEF TaskInv, TypeInv
  <2>2. task'[t] = "completed" <=> task[t] = "completed"
    BY DEF Settles
  <2>3. dispatch[Current(t)] = "completed" => dispatch'[Current(t)] = "completed"
    BY <2>1 DEF Settles
  <2> QED
    BY <2>1, <2>2, <2>3 DEF ResultPart, Current
<1>3. ApplyPart'
  BY ApplyFrame DEF Settles
<1> QED
  BY <1>1, <1>2, <1>3 DEF TaskInv

(* The dispatch of an attempt moves, and its task with it; the rest of the *)
(* run stays.  A dispatch that was open, or not yet made for the latest    *)
(* attempt of a pending task, ends up open, completed or closed together   *)
(* with its task.                                                          *)
LEMMA DispatchMoves ==
  ASSUME TypeInv, TaskInv, NEW a \in Attempts, NEW st, NEW ts,
         dispatch' = [dispatch EXCEPT ![a] = st], task' = [task EXCEPT ![a[1]] = ts],
         a = Current(a[1]), task[a[1]] # "completed",
         st \in ActiveDispatch => ts \in {"dispatched", "stalled"},
         ts = "completed" <=> st = "completed",
         UNCHANGED <<latest, evidence, integration>>,
         \A l \in Lanes : lane'[l].pc = "apply" => lane'[l] = lane[l]
  PROVE  TaskInv'
<1>0. a[1] \in Tasks
  BY AttemptParts
<1>1. ASSUME NEW b \in Attempts PROVE DispatchPart(b)'
  <2>1. b[1] \in Tasks /\ DispatchPart(b)
    BY AttemptParts DEF TaskInv
  <2>2. CASE b = a
    <3>1. dispatch'[b] = st /\ task'[b[1]] = ts
      BY <1>0, <2>2 DEF TypeInv, TypeOK
    <3>2. Current(b[1])' = Current(b[1])
      BY DEF Current
    <3> QED
      BY <2>2, <3>1, <3>2 DEF DispatchPart
  <2>3. CASE b # a
    <3>1. dispatch'[b] = dispatch[b]
      BY <2>3 DEF TypeInv, TypeOK
    <3>2. dispatch[b] \in ActiveDispatch \cup {"completed"} => b[1] # a[1]
      BY <2>1, <2>3 DEF DispatchPart
    <3>3. dispatch[b] \in ActiveDispatch \cup {"completed"} => task'[b[1]] = task[b[1]]
      BY <2>1, <3>2 DEF TypeInv, TypeOK
    <3> QED
      BY <2>1, <3>1, <3>3 DEF DispatchPart, Current
  <2> QED
    BY <2>2, <2>3
<1>2. ASSUME NEW t \in Tasks PROVE ResultPart(t)'
  <2>1. ResultPart(t) /\ Current(t) \in Attempts /\ Current(t)[1] = t /\ Current(t)' = Current(t)
    BY CurrentIsAttempt, MakeAttempt DEF TaskInv, TypeInv, TypeOK, Current
  <2>2. CASE t = a[1]
    <3>1. task'[t] = ts /\ dispatch'[Current(t)] = st /\ task[t] # "completed"
      BY <1>0, <2>2 DEF TypeInv, TypeOK
    <3>2. t \notin evidence /\ integration[t] = "none"
      BY <2>1, <3>1 DEF ResultPart
    <3> QED
      BY <2>1, <3>1, <3>2 DEF ResultPart
  <2>3. CASE t # a[1]
    <3>1. task'[t] = task[t] /\ dispatch'[Current(t)] = dispatch[Current(t)]
      BY <1>0, <2>1, <2>3 DEF TypeInv, TypeOK
    <3> QED
      BY <2>1, <3>1 DEF ResultPart
  <2> QED
    BY <2>2, <2>3
<1>3. \A t \in Tasks : task[t] = "completed" => task'[t] = "completed"
  BY <1>0 DEF TypeInv, TypeOK
<1>4. ApplyPart'
  BY <1>3, ApplyFrame
<1> QED
  BY <1>1, <1>2, <1>4 DEF TaskInv

(* A person cancels tasks, and their open dispatches with them.            *)
LEMMA CancelTask ==
  ASSUME TypeInv, TaskInv, NEW S \in SUBSET Tasks,
         \A t \in S : task[t] # "completed",
         \A t \in Tasks : task'[t] = IF t \in S THEN "cancelled" ELSE task[t],
         \A a \in Attempts : dispatch'[a] = IF a[1] \in S /\ dispatch[a] \in ActiveDispatch
                                            THEN "cancelled" ELSE dispatch[a],
         \A t \in Tasks : integration'[t] # "none" => integration[t] # "none",
         UNCHANGED <<latest, evidence, lane>>
  PROVE  TaskInv'
<1>1. ASSUME NEW b \in Attempts PROVE DispatchPart(b)'
  <2>1. b[1] \in Tasks /\ DispatchPart(b)
    BY AttemptParts DEF TaskInv
  <2>2. dispatch'[b] \in ActiveDispatch \cup {"completed"}
          => dispatch'[b] = dispatch[b] /\ b[1] \notin S
    <3>1. CASE b[1] \in S /\ dispatch[b] \in ActiveDispatch
      BY <3>1 DEF ActiveDispatch
    <3>2. CASE ~(b[1] \in S /\ dispatch[b] \in ActiveDispatch)
      BY <2>1, <3>2 DEF DispatchPart
    <3> QED
      BY <3>1, <3>2
  <2> QED
    BY <2>1, <2>2 DEF DispatchPart, Current
<1>2. ASSUME NEW t \in Tasks PROVE ResultPart(t)'
  <2>1. ResultPart(t) /\ Current(t) \in Attempts /\ Current(t)' = Current(t)
    BY CurrentIsAttempt DEF TaskInv, TypeInv, Current
  <2>2. task'[t] = "completed" <=> task[t] = "completed"
    OBVIOUS
  <2>3. dispatch[Current(t)] = "completed" => dispatch'[Current(t)] = "completed"
    BY <2>1 DEF ActiveDispatch
  <2> QED
    BY <2>1, <2>2, <2>3 DEF ResultPart
<1>3. ApplyPart'
  BY ApplyFrame
<1> QED
  BY <1>1, <1>2, <1>3 DEF TaskInv

(* Every step of the engine keeps the attempt a task accepts.              *)
LEMMA TaskStep == TypeInv /\ TaskInv /\ [Next]_vars => TaskInv'
<1> SUFFICES ASSUME TypeInv, TaskInv, [Next]_vars PROVE TaskInv'
  OBVIOUS
<1>0. TypeOK /\ "pump" \in Lanes /\ "retry" \in Lanes /\ "boot" \in Lanes
  BY DEF TypeInv, Lanes
<1>1. CASE \/ ReadPage \/ StepWaiting \/ StepAttention \/ StepComplete \/ CompleteRun
           \/ PauseForAttention \/ LaunchReplayed \/ LaunchFails \/ ClaimLaunch
           \/ ClaimRefused \/ SpawnWorker \/ MarkStarted
  <2>1. PICK pc, at, job : Take("pump", pc, at, job) /\ pc # "apply"
    BY <1>1
       DEF ReadPage, StepWaiting, StepAttention, StepComplete, CompleteRun, PauseForAttention,
           LaunchReplayed, LaunchFails, ClaimLaunch, ClaimRefused, SpawnWorker, MarkStarted,
           Goto, Finish
  <2>2. UNCHANGED <<task, dispatch, latest, evidence, integration>>
    BY <1>1
       DEF ReadPage, StepWaiting, StepAttention, StepComplete, CompleteRun, PauseForAttention,
           LaunchReplayed, LaunchFails, ClaimLaunch, ClaimRefused, SpawnWorker, MarkStarted,
           StepOnly, LaneOnly
  <2> QED
    BY <1>0, <2>1, <2>2, TakeFrame, TaskFrame
<1>2. CASE Execute
  <2>1. lane["pump"].job # "apply"
    BY <1>0 DEF TypeOK, Lane, LaneJobs
  <2>2. PICK pc, at, job : Take("pump", pc, at, job) /\ pc # "apply"
    BY <1>2, <2>1 DEF Execute, Goto, Finish
  <2> QED
    BY <1>0, <1>2, <2>2, TakeFrame, TaskFrame DEF Execute, StepOnly
<1>3. ASSUME NEW t \in Tasks, NEW job \in {"integrate", "prepare", "launch"}, StepJob(t, job)
      PROVE  TaskInv'
  BY <1>0, <1>3, TakeFrame, TaskFrame DEF StepJob, StepOnly
<1>4. CASE ReserveLaunch
  <2> DEFINE a == lane["pump"].at
  <2>1. a \in Attempts
    BY <1>0, <1>4 DEF ReserveLaunch, At, TypeInv, LanesOK
  <2>2. a = Current(a[1]) /\ task[a[1]] # "completed"
    BY <1>4 DEF ReserveLaunch, Inputs, EligibleIn
  <2>3. \A l \in Lanes : lane'[l].pc = "apply" => lane'[l] = lane[l]
    BY <1>0, <1>4, TakeFrame DEF ReserveLaunch, Goto
  <2>4. /\ dispatch' = [dispatch EXCEPT ![a] = "awaiting"]
        /\ task' = [task EXCEPT ![a[1]] = "dispatched"]
        /\ UNCHANGED <<latest, evidence, integration>>
    BY <1>4 DEF ReserveLaunch
  <2>5. "dispatched" = "completed" <=> "awaiting" = "completed"
    OBVIOUS
  <2> HIDE DEF a
  <2> QED
    BY <2>1, <2>2, <2>3, <2>4, <2>5, DispatchMoves
<1>5. CASE RefuseLaunch
  <2>1. lane["pump"].at \in Attempts
    BY <1>0, <1>5 DEF RefuseLaunch, At, TypeInv, LanesOK
  <2>2. \A l \in Lanes : lane'[l].pc = "apply" => lane'[l] = lane[l]
    BY <1>0, <1>5, TakeFrame DEF RefuseLaunch, Finish
  <2> QED
    BY <1>0, <1>5, <2>1, <2>2, SettleFacts, SettleTask DEF RefuseLaunch
<1>6. ASSUME NEW l \in Lanes, ReserveWorkspace(l) PROVE TaskInv'
  <2> DEFINE a == lane[l].at
  <2>1. a \in Attempts /\ a[1] \in Tasks
    BY <1>6, AttemptParts DEF ReserveWorkspace, At, TypeInv, LanesOK
  <2>2. task[a[1]] = "pending"
    BY <1>6 DEF ReserveWorkspace, MayReserve, Eligible, EligibleIn
  <2>3. UNCHANGED <<task, dispatch, evidence, integration>>
    BY <1>6 DEF ReserveWorkspace
  <2>4. \A t \in Tasks \ {a[1]} : Current(t)' = Current(t)
    BY <1>0, <1>6, <2>1 DEF ReserveWorkspace, TypeOK, Current
  <2>5. ASSUME NEW b \in Attempts PROVE DispatchPart(b)'
    BY <2>2, <2>3, <2>4, AttemptParts DEF TaskInv, DispatchPart
  <2>6. ASSUME NEW t \in Tasks PROVE ResultPart(t)'
    BY <2>2, <2>3, <2>4 DEF TaskInv, ResultPart
  <2>7. \A k \in Lanes : lane'[k].pc = "apply" => lane'[k] = lane[k]
    BY <1>0, <1>6, TakeFrame DEF ReserveWorkspace
  <2>8. ApplyPart'
    BY <2>3, <2>7, ApplyFrame
  <2> QED
    BY <2>5, <2>6, <2>8 DEF TaskInv
<1>7. ASSUME NEW l \in Lanes,
             \/ ReserveWorkspaceFails(l) \/ CreateWorkspace(l) \/ CreateWorkspaceFails(l)
             \/ CreateWorkspaceRefused(l) \/ FinishSetup(l) \/ ReserveIntegrationFails(l)
      PROVE  TaskInv'
  <2>1. PICK pc, at, job : Take(l, pc, at, job) /\ pc # "apply"
    BY <1>7
       DEF ReserveWorkspaceFails, CreateWorkspace, CreateWorkspaceFails, CreateWorkspaceRefused,
           FinishSetup, ReserveIntegrationFails, Fail, Goto, Finish
  <2>2. UNCHANGED <<task, dispatch, latest, evidence, integration>>
    BY <1>7
       DEF ReserveWorkspaceFails, CreateWorkspace, CreateWorkspaceFails, CreateWorkspaceRefused,
           FinishSetup, ReserveIntegrationFails
  <2> QED
    BY <1>0, <2>1, <2>2, TakeFrame, TaskFrame
<1>8. ASSUME NEW l \in Lanes,
             \/ ReserveIntegration(l) \/ Integrate(l) \/ IntegrateConflicts(l)
             \/ IntegrateFails(l) \/ IntegrateCancelled(l)
      PROVE  TaskInv'
  <2> DEFINE t == lane[l].at[1]
  <2>1. t \in Tasks
    BY <1>8, AttemptParts
       DEF ReserveIntegration, Integrate, IntegrateConflicts, IntegrateFails,
           IntegrateCancelled, At, TypeInv, LanesOK
  <2>2. task[t] = "completed"
    BY <1>8
       DEF ReserveIntegration, MayIntegrate, Integrate, IntegrateConflicts, IntegrateFails,
           IntegrateCancelled, At, TaskInv, ApplyPart
  <2>3. UNCHANGED <<task, dispatch, latest>>
    BY <1>8
       DEF ReserveIntegration, Integrate, IntegrateConflicts, IntegrateFails, IntegrateCancelled
  <2>4. \A u \in Tasks \ {t} : integration'[u] = integration[u] /\ (u \in evidence' => u \in evidence)
    BY <1>0, <1>8
       DEF ReserveIntegration, Integrate, IntegrateConflicts, IntegrateFails,
           IntegrateCancelled, TypeOK
  <2>5. ASSUME NEW b \in Attempts PROVE DispatchPart(b)'
    BY <2>3 DEF TaskInv, DispatchPart, Current
  <2>6. ASSUME NEW u \in Tasks PROVE ResultPart(u)'
    BY <2>2, <2>3, <2>4 DEF TaskInv, ResultPart, Current
  <2>7. PICK pc : Goto(l, pc) \/ Finish(l)
    BY <1>8
       DEF ReserveIntegration, Integrate, IntegrateConflicts, IntegrateFails, IntegrateCancelled
  <2>8. ASSUME NEW k \in Lanes, lane'[k].pc = "apply" PROVE task[lane'[k].at[1]] = "completed"
    <3>1. CASE k = l
      BY <1>0, <2>2, <2>7, <2>8, <3>1 DEF TypeOK, Goto, Finish, Take
    <3>2. CASE k # l
      <4>1. lane'[k] = lane[k]
        BY <1>0, <2>7, <3>2 DEF TypeOK, Goto, Finish, Take
      <4> QED
        BY <2>8, <4>1 DEF TaskInv, ApplyPart
    <3> QED
      BY <3>1, <3>2
  <2>9. ApplyPart'
    BY <2>3, <2>8 DEF ApplyPart
  <2> QED
    BY <2>5, <2>6, <2>9 DEF TaskInv
<1>9. ASSUME NEW a \in Attempts,
             \/ Accept(a) \/ Revive(a) \/ WorkerFails(a) \/ Stall(a)
             \/ FinishCompletion(a) /\ task' # task
      PROVE  TaskInv'
  <2>1. a[1] \in Tasks /\ DispatchPart(a)
    BY AttemptParts DEF TaskInv
  <2>2. dispatch[a] \in ActiveDispatch
    BY <1>9 DEF Accept, Revive, WorkerFails, Stall, FinishCompletion, ActiveDispatch
  <2>3. a = Current(a[1]) /\ task[a[1]] \in {"dispatched", "stalled"}
    BY <2>1, <2>2 DEF DispatchPart
  <2>4. UNCHANGED <<latest, evidence, integration, lane>>
    BY <1>9 DEF Accept, Revive, WorkerFails, Stall, FinishCompletion, NotMemory
  <2>5. \A ts : ts = task[a[1]] => task = [task EXCEPT ![a[1]] = ts]
    BY <1>0, <2>1 DEF TypeOK
  <2> DEFINE Moves(st, ts) == /\ dispatch' = [dispatch EXCEPT ![a] = st]
                              /\ task' = [task EXCEPT ![a[1]] = ts]
                              /\ st \in ActiveDispatch => ts \in {"dispatched", "stalled"}
                              /\ ts = "completed" <=> st = "completed"
  <2>6. \E st, ts : Moves(st, ts)
    <3>1. CASE Accept(a)
      <4>1. Moves("dispatched", task[a[1]])
        BY <2>3, <2>5, <3>1 DEF Accept
      <4> QED
        BY <4>1
    <3>2. CASE Revive(a)
      <4>1. Moves("dispatched", "dispatched")
        BY <2>3, <3>2 DEF Revive
      <4> QED
        BY <4>1
    <3>3. CASE WorkerFails(a)
      <4>1. Moves("failed", "pending")
        BY <3>3 DEF WorkerFails, ActiveDispatch
      <4> HIDE DEF Moves
      <4> QED
        BY <4>1
    <3>4. CASE Stall(a)
      <4>1. Moves("stalled", "stalled")
        BY <3>4 DEF Stall
      <4> QED
        BY <4>1
    <3>5. CASE FinishCompletion(a) /\ task' # task
      <4>1. Moves("completed", "completed")
        BY <3>5 DEF FinishCompletion, ActiveDispatch
      <4> QED
        BY <4>1
    <3> QED
      BY <1>9, <3>1, <3>2, <3>3, <3>4, <3>5
  <2> QED
    BY <2>3, <2>4, <2>6, DispatchMoves
<1>10. ASSUME NEW a \in Attempts,
              \/ Failover(a) \/ AcceptanceTimeout(a) \/ SessionExits(a) \/ FinishClosing(a)
              \/ ReconcileLaunch(a)
       PROVE  TaskInv'
  <2>1. SettleWithoutSession(a) /\ UNCHANGED <<latest, evidence, integration, lane>>
    BY <1>10
       DEF Failover, AcceptanceTimeout, SessionExits, FinishClosing, ReconcileLaunch,
           SettleOnly, NotMemory
  <2> QED
    BY <1>0, <2>1, SettleFacts, SettleTask
<1>11. ASSUME NEW a \in Attempts,
              \/ Escalate(a) \/ RequestCompletion(a) \/ ProcessDies(a) \/ PickTarget(a)
              \/ FinishCompletion(a) /\ task' = task
       PROVE  TaskInv'
  <2>1. CASE FinishCompletion(a) /\ dispatch' # dispatch
    <3>1. dispatch[a] \in ActiveDispatch /\ task'[a[1]] = "completed"
      BY <1>0, <2>1, AttemptParts DEF FinishCompletion, ActiveDispatch, TypeOK
    <3>2. task[a[1]] \in {"dispatched", "stalled"} /\ task[a[1]] # "completed"
      BY <3>1 DEF TaskInv, DispatchPart
    <3> QED
      BY <1>9, <2>1, <3>1, <3>2
  <2>2. CASE ~(FinishCompletion(a) /\ dispatch' # dispatch)
    <3>1. UNCHANGED <<task, dispatch, latest, evidence, integration, lane>>
      BY <1>11, <2>2
         DEF Escalate, RequestCompletion, ProcessDies, PickTarget, FinishCompletion, NotMemory,
             DriverOnly
    <3> QED
      BY <3>1, TaskFrame
  <2> QED
    BY <2>1, <2>2
<1>12. CASE SettleFailed
  <2>1. failing \in Attempts
    BY <1>0, <1>12 DEF SettleFailed, TypeOK
  <2> QED
    BY <1>0, <1>12, <2>1, TerminateFacts, SettleTask DEF SettleFailed, NotMemory
<1>13. CASE BeginShutdown
  <2>1. canc.at \in Attempts
    BY <1>13 DEF BeginShutdown, TypeInv, DriverOK
  <2> QED
    BY <1>0, <1>13, <2>1, TerminateFacts, SettleTask DEF BeginShutdown, DriverOnly
<1>14. CASE Cancel \/ RetryCancellation
  <2> DEFINE S == {t \in Tasks : task[t] \notin {"completed", "cancelled"}}
  <2>1. CancelTransaction /\ UNCHANGED lane
    BY <1>14 DEF Cancel, RetryCancellation
  <2>2. \A t \in Tasks : task'[t] = IF t \in S THEN "cancelled" ELSE task[t]
    BY <2>1 DEF CancelTransaction
  <2>3. ASSUME NEW a \in Attempts
        PROVE  dispatch'[a] = IF a[1] \in S /\ dispatch[a] \in ActiveDispatch
                              THEN "cancelled" ELSE dispatch[a]
    <3>1. dispatch[a] \in ActiveDispatch => a[1] \in S
      BY AttemptParts DEF TaskInv, DispatchPart
    <3> QED
      BY <2>1, <3>1 DEF CancelTransaction
  <2>4. \A t \in Tasks : integration'[t] # "none" => integration[t] # "none"
    BY <2>1 DEF CancelTransaction
  <2>5. UNCHANGED <<latest, evidence>>
    BY <2>1 DEF CancelTransaction
  <2> HIDE DEF S
  <2>6. S \in SUBSET Tasks /\ \A t \in S : task[t] # "completed"
    BY DEF S
  <2> QED
    BY <2>1, <2>2, <2>3, <2>4, <2>5, <2>6, CancelTask
<1>15. ASSUME NEW t \in Tasks, AbortStage(t) PROVE TaskInv'
  <2> DEFINE S == CancelledWith(t)
  <2>1. S \in SUBSET Tasks /\ \A u \in S : task[u] # "completed"
    BY <1>15, CancelledWithFacts DEF AbortStage, Waiting
  <2>2. \A u \in Tasks : task'[u] = IF u \in S THEN "cancelled" ELSE task[u]
    BY <1>15 DEF AbortStage
  <2>3. \A a \in Attempts : dispatch'[a] = IF a[1] \in S /\ dispatch[a] \in ActiveDispatch
                                           THEN "cancelled" ELSE dispatch[a]
    BY <1>15 DEF AbortStage
  <2>4. UNCHANGED <<latest, evidence, integration, lane>>
    BY <1>15 DEF AbortStage, NotMemory
  <2> HIDE DEF S
  <2> QED
    BY <2>1, <2>2, <2>3, <2>4, CancelTask
<1>16. ASSUME NEW a \in Attempts, RetryTask(a) \/ RetryIntegration(a) PROVE TaskInv'
  <2>1. PICK job \in {"prepare", "integrate"} : StartRetry(a, job)
    BY <1>16 DEF RetryTask, RetryIntegration
  <2> QED
    BY <1>0, <2>1, TakeFrame, TaskFrame DEF StartRetry
<1>17. CASE \/ Pause \/ Resume \/ ReuseGuard \/ AlreadyClosed \/ CannotClose \/ ShutdownVerified
            \/ ShutdownTimesOut \/ SettleTarget \/ Start \/ LaunchesReconciled
            \/ RecoveryFinished \/ UNCHANGED vars
  <2>1. UNCHANGED <<task, dispatch, latest, evidence, integration, lane>>
    BY <1>17
       DEF Pause, Resume, ReuseGuard, AlreadyClosed, CannotClose, ShutdownVerified,
           ShutdownTimesOut, SettleTarget, Start, LaunchesReconciled, RecoveryFinished,
           DriverOnly
  <2> QED
    BY <2>1, TaskFrame
<1>18. ASSUME NEW t \in Tasks, ReconcileCancelled(t) PROVE TaskInv'
  <2>1. UNCHANGED <<task, dispatch, latest, evidence, lane>> /\ integration[t] = "pending"
    BY <1>18 DEF ReconcileCancelled
  <2>2. \A u \in Tasks : u # t => integration'[u] = integration[u]
    BY <1>0, <1>18 DEF ReconcileCancelled, TypeOK
  <2>3. \A b \in Attempts : DispatchPart(b)'
    BY <2>1 DEF TaskInv, DispatchPart, Current
  <2>4. \A u \in Tasks : ResultPart(u)'
    BY <2>1, <2>2 DEF TaskInv, ResultPart, Current
  <2> QED
    BY <2>1, <2>3, <2>4 DEF TaskInv, ApplyPart
<1>19. ASSUME NEW a \in Attempts, RecoverIntegration(a) PROVE TaskInv'
  <2>1. a[1] \in Tasks /\ task[a[1]] = "completed"
    BY <1>19, AttemptParts DEF RecoverIntegration, TaskInv, ResultPart
  <2>2. \A l \in Lanes : lane'[l].pc = "apply" =>
          lane'[l] = lane[l] \/ task[lane'[l].at[1]] = "completed"
    BY <1>0, <1>19, <2>1 DEF RecoverIntegration, Take, TypeOK
  <2> QED
    BY <1>19, <2>2, TaskFrame DEF RecoverIntegration
<1>20. ASSUME NEW a \in Attempts, RecoverWorkspace(a) PROVE TaskInv'
  <2>1. \A l \in Lanes : lane'[l].pc = "apply" => lane'[l] = lane[l]
    BY <1>0, <1>20, TakeFrame DEF RecoverWorkspace
  <2> QED
    BY <1>20, <2>1, TaskFrame DEF RecoverWorkspace
<1>21. CASE Crash
  <2>1. \A l \in Lanes : lane'[l].pc # "apply"
    BY <1>21 DEF Crash, Idle
  <2> QED
    BY <1>21, <2>1, TaskFrame DEF Crash
<1> QED
  BY <1>1, <1>2, <1>3, <1>4, <1>5, <1>6, <1>7, <1>8, <1>9, <1>10, <1>11, <1>12, <1>13,
     <1>14, <1>15, <1>16, <1>17, <1>18, <1>19, <1>20, <1>21
     DEF Next, Pass, Job, Worker, Closure, Person, Driver, Restart

-----------------------------------------------------------------------------
(* The life of a workspace.                                                *)

(* Every attempt before the latest one is retained in Attention, none      *)
(* exists beyond it, and only an attempt that was ready has a launch.      *)
AttemptPart(a) ==
  /\ phase[a] \notin {"none", "attention"} => a = Current(a[1])
  /\ phase[a] # "none" => 0 < a[2] /\ a[2] <= latest[a[1]]
  /\ launch[a] # "none" => phase[a] \in {"ready", "attention"}

(* The lane that creates or sets up a workspace finds it in that phase,    *)
(* and recovery never reserves one.                                        *)
WorkPart ==
  /\ \A l \in Lanes : /\ lane[l].pc = "create" => phase[lane[l].at] = "reserved"
                      /\ lane[l].pc = "setup" => phase[lane[l].at] = "setupRunning"
  /\ lane["boot"].pc \in {"idle", "create", "setup", "apply"}

AttemptInv == WorkPart /\ \A a \in Attempts : AttemptPart(a)

(* No lane comes to create or set up a workspace.                          *)
LanesCalm ==
  /\ \A l \in Lanes : lane'[l].pc \in {"create", "setup"} => lane'[l] = lane[l]
  /\ lane'["boot"].pc \in {"idle", "create", "setup", "apply"}

(* A lane that moves to another step comes to no workspace either.         *)
LEMMA TakeCalm ==
  ASSUME TypeOK, AttemptInv, NEW l \in Lanes, NEW pc, NEW at, NEW job, Take(l, pc, at, job),
         pc \notin {"create", "setup"}, l = "boot" => pc \in {"idle", "apply"}
  PROVE  LanesCalm
  BY DEF TypeOK, Take, LanesCalm, AttemptInv, WorkPart, Lanes

(* Lanes that stay come to no workspace.                                   *)
LEMMA StayCalm ==
  ASSUME AttemptInv, UNCHANGED lane
  PROVE  LanesCalm
  BY DEF LanesCalm, AttemptInv, WorkPart

(* Steps that make no attempt, phase or launch.                            *)
LEMMA AttemptFrame ==
  ASSUME AttemptInv, LanesCalm, UNCHANGED <<phase, latest>>,
         \A a \in Attempts : launch'[a] # "none" => launch[a] # "none"
  PROVE  AttemptInv'
<1>1. \A a \in Attempts : AttemptPart(a)'
  BY DEF AttemptInv, AttemptPart, Current
<1>2. WorkPart'
  BY DEF AttemptInv, WorkPart, LanesCalm
<1> QED
  BY <1>1, <1>2 DEF AttemptInv

(* Settling a launch leaves the workspaces in preparation alone.           *)
LEMMA AttemptSettle ==
  ASSUME TypeInv, AttemptInv, LanesCalm, NEW a \in Attempts, Settles(a), UNCHANGED latest
  PROVE  AttemptInv'
<1>1. ASSUME NEW b \in Attempts PROVE AttemptPart(b)'
  <2>1. AttemptPart(b)
    BY DEF AttemptInv
  <2>2. CASE phase'[b] = phase[b] /\ launch'[b] = launch[b]
    BY <2>1, <2>2 DEF AttemptPart, Current
  <2>3. CASE launch[b] # "none" /\ phase'[b] = "attention"
    BY <2>1, <2>3 DEF AttemptPart, Current
  <2> QED
    BY <2>2, <2>3 DEF Settles
<1>2. ASSUME NEW l \in Lanes, lane'[l].pc \in {"create", "setup"}
      PROVE  lane'[l] = lane[l] /\ phase'[lane[l].at] = phase[lane[l].at]
  <2>1. lane'[l] = lane[l] /\ lane[l].at \in Attempts
    BY <1>2 DEF LanesCalm, TypeInv, LanesOK
  <2>2. phase[lane[l].at] \in {"reserved", "setupRunning"}
    BY <1>2, <2>1 DEF AttemptInv, WorkPart
  <2>3. launch[lane[l].at] = "none"
    BY <2>1, <2>2 DEF AttemptInv, AttemptPart
  <2> QED
    BY <2>1, <2>3 DEF Settles
<1>3. WorkPart'
  BY <1>2 DEF LanesCalm, AttemptInv, WorkPart
<1> QED
  BY <1>1, <1>3 DEF AttemptInv

(* The lane that creates or sets up a workspace moves its phase.           *)
LEMMA PhaseMoves ==
  ASSUME TypeInv, SetupInv, AttemptInv, NEW l \in Lanes, lane[l].pc \in {"create", "setup"},
         NEW p \in {"setupRunning", "ready", "attention"},
         phase' = [phase EXCEPT ![lane[l].at] = p],
         NEW pc, NEW at, NEW job, Take(l, pc, at, job),
         pc = "idle" \/ (pc = "setup" /\ p = "setupRunning" /\ at = lane[l].at),
         UNCHANGED <<latest, launch>>
  PROVE  AttemptInv'
<1> DEFINE a == lane[l].at
<1>1. a \in Attempts /\ phase[a] \in {"reserved", "setupRunning"}
  BY DEF TypeInv, LanesOK, AttemptInv, WorkPart
<1>2. launch[a] = "none" /\ a = Current(a[1]) /\ 0 < a[2] /\ a[2] <= latest[a[1]]
  BY <1>1 DEF AttemptInv, AttemptPart
<1>3. ASSUME NEW b \in Attempts PROVE AttemptPart(b)'
  <2>1. CASE b = a
    <3>1. phase'[b] = p
      BY <1>1, <2>1 DEF TypeInv, TypeOK
    <3> QED
      BY <1>2, <2>1, <3>1 DEF AttemptPart, Current
  <2>2. CASE b # a
    <3>1. phase'[b] = phase[b]
      BY <1>1, <2>2 DEF TypeInv, TypeOK
    <3> QED
      BY <3>1 DEF AttemptInv, AttemptPart, Current
  <2> QED
    BY <2>1, <2>2
<1>4. \A k \in Lanes \ {l} : lane'[k] = lane[k] /\ lane[k].pc \notin {"create", "setup"}
  BY DEF Take, TypeInv, TypeOK, SetupInv, LockInv, Locked
<1>5. lane'[l].pc = pc /\ lane'[l].at = at
  BY DEF Take, TypeInv, TypeOK
<1>6. pc = "setup" => phase'[at] = "setupRunning"
  BY <1>1 DEF TypeInv, TypeOK
<1>7. \A k \in Lanes : /\ lane'[k].pc = "create" => phase'[lane'[k].at] = "reserved"
                       /\ lane'[k].pc = "setup" => phase'[lane'[k].at] = "setupRunning"
  BY <1>4, <1>5, <1>6
<1>8. lane'["boot"].pc \in {"idle", "create", "setup", "apply"}
  BY <1>4, <1>5 DEF AttemptInv, WorkPart, Lanes
<1> QED
  BY <1>3, <1>7, <1>8 DEF AttemptInv, WorkPart

(* Every step of the engine keeps the life of a workspace.                 *)
LEMMA AttemptStep ==
  TypeInv /\ SpawnInv /\ SetupInv /\ AttemptInv /\ [Next]_vars => AttemptInv'
<1> SUFFICES ASSUME TypeInv, SpawnInv, SetupInv, AttemptInv, [Next]_vars PROVE AttemptInv'
  OBVIOUS
<1>0. TypeOK /\ "pump" \in Lanes /\ "retry" \in Lanes /\ "boot" \in Lanes
  BY DEF TypeInv, Lanes
<1>1. CASE \/ ReadPage \/ StepWaiting \/ StepAttention \/ StepComplete \/ CompleteRun
           \/ PauseForAttention \/ LaunchReplayed \/ LaunchFails \/ ClaimRefused \/ SpawnWorker
  <2>1. PICK pc, at, job : Take("pump", pc, at, job) /\ pc \notin {"create", "setup"}
    BY <1>1
       DEF ReadPage, StepWaiting, StepAttention, StepComplete, CompleteRun, PauseForAttention,
           LaunchReplayed, LaunchFails, ClaimRefused, SpawnWorker, Goto, Finish
  <2>2. UNCHANGED <<phase, latest, launch>>
    BY <1>1
       DEF ReadPage, StepWaiting, StepAttention, StepComplete, CompleteRun, PauseForAttention,
           LaunchReplayed, LaunchFails, ClaimRefused, SpawnWorker, StepOnly
  <2> QED
    BY <1>0, <2>1, <2>2, TakeCalm, AttemptFrame
<1>2. CASE Execute
  <2>1. lane["pump"].job \notin {"create", "setup"}
    BY <1>0 DEF TypeOK, Lane, LaneJobs
  <2>2. PICK pc, at, job : Take("pump", pc, at, job) /\ pc \notin {"create", "setup"}
    BY <1>2, <2>1 DEF Execute, Goto, Finish
  <2> QED
    BY <1>0, <1>2, <2>2, TakeCalm, AttemptFrame DEF Execute, StepOnly
<1>3. ASSUME NEW t \in Tasks, NEW job \in {"integrate", "prepare", "launch"}, StepJob(t, job)
      PROVE  AttemptInv'
  BY <1>0, <1>3, TakeCalm, AttemptFrame DEF StepJob, StepOnly
<1>4. CASE ReserveLaunch
  <2> DEFINE a == lane["pump"].at
  <2>1. LanesCalm
    BY <1>0, <1>4, TakeCalm DEF ReserveLaunch, Goto
  <2>2. phase[a] = "ready" /\ UNCHANGED <<phase, latest>>
    BY <1>4 DEF ReserveLaunch, Inputs
  <2>3. \A b \in Attempts : b # a => launch'[b] = launch[b]
    BY <1>0, <1>4 DEF ReserveLaunch, TypeOK
  <2>4. ASSUME NEW b \in Attempts PROVE AttemptPart(b)'
    BY <2>2, <2>3 DEF AttemptInv, AttemptPart, Current
  <2>5. WorkPart'
    BY <2>1, <2>2 DEF AttemptInv, WorkPart, LanesCalm
  <2> QED
    BY <2>4, <2>5 DEF AttemptInv
<1>5. CASE ClaimLaunch \/ MarkStarted
  <2>1. PICK pc, at, job : Take("pump", pc, at, job) /\ pc \notin {"create", "setup"}
    BY <1>5 DEF ClaimLaunch, MarkStarted, Goto, Finish
  <2>2. launch[lane["pump"].at] # "none"
    BY <1>5 DEF ClaimLaunch, MarkStarted, SpawnInv, MarkPart, At
  <2>3. \A b \in Attempts : launch'[b] # "none" => launch[b] # "none"
    BY <1>0, <1>5, <2>2 DEF ClaimLaunch, MarkStarted, TypeOK
  <2>4. UNCHANGED <<phase, latest>>
    BY <1>5 DEF ClaimLaunch, MarkStarted
  <2> QED
    BY <1>0, <2>1, <2>3, <2>4, TakeCalm, AttemptFrame
<1>6. CASE RefuseLaunch
  <2>1. lane["pump"].at \in Attempts
    BY <1>0, <1>6 DEF RefuseLaunch, At, TypeInv, LanesOK
  <2>2. LanesCalm
    BY <1>0, <1>6, TakeCalm DEF RefuseLaunch, Finish
  <2> QED
    BY <1>0, <1>6, <2>1, <2>2, SettleFacts, AttemptSettle DEF RefuseLaunch
<1>7. ASSUME NEW l \in Lanes, ReserveWorkspace(l) PROVE AttemptInv'
  <2> DEFINE a == lane[l].at
             next == <<a[1], a[2] + 1>>
  <2>1. a \in Attempts /\ a[1] \in Tasks /\ a[2] \in 0..MaxAttempts
    BY <1>7, AttemptParts DEF ReserveWorkspace, At, TypeInv, LanesOK
  <2>2. l # "boot" /\ a = Current(a[1]) /\ LockFree /\ a[2] < MaxAttempts
    BY <1>7 DEF ReserveWorkspace, MayReserve, At, AttemptInv, WorkPart
  <2>3. next \in Attempts /\ next[1] = a[1] /\ next[2] = a[2] + 1
    BY <2>1, <2>2, MakeAttempt, BoundsAssumption
  <2>4. a[2] = latest[a[1]]
    BY <2>1, <2>2 DEF Current
  <2>5. phase[a] \in {"none", "attention"}
    <3>1. l \in {"pump", "retry"}
      BY <2>2 DEF Lanes
    <3>2. CASE l = "pump"
      BY <1>7, <2>1, <3>2 DEF ReserveWorkspace, MayReserve, AttemptInv, AttemptPart
    <3>3. CASE l = "retry"
      BY <1>7, <3>3 DEF ReserveWorkspace, MayReserve
    <3> QED
      BY <3>1, <3>2, <3>3
  <2>6. phase[next] = "none"
    <3>1. ~(next[2] <= latest[next[1]])
      BY <2>1, <2>3, <2>4 DEF TypeInv, TypeOK
    <3> QED
      BY <2>3, <3>1 DEF AttemptInv, AttemptPart
  <2>7. launch[next] = "none" /\ UNCHANGED launch
    BY <1>7, <2>3, <2>6 DEF ReserveWorkspace, AttemptInv, AttemptPart
  <2>8. latest'[a[1]] = a[2] + 1 /\ \A t \in Tasks \ {a[1]} : latest'[t] = latest[t]
    BY <1>0, <1>7, <2>1 DEF ReserveWorkspace, TypeOK
  <2>9. phase'[next] = "reserved" /\ \A b \in Attempts \ {next} : phase'[b] = phase[b]
    BY <1>0, <1>7, <2>3 DEF ReserveWorkspace, TypeOK
  <2>10. /\ lane'[l].pc = "create" /\ lane'[l].at = next
         /\ \A k \in Lanes \ {l} : lane'[k] = lane[k]
    BY <1>0, <1>7 DEF ReserveWorkspace, Take, TypeOK
  <2>11. <<a[1], latest'[a[1]]>> = next /\ \A t \in Tasks \ {a[1]} : Current(t)' = Current(t)
    BY <2>8 DEF Current
  <2> HIDE DEF next, a
  <2>12. ASSUME NEW b \in Attempts PROVE AttemptPart(b)'
    <3>1. AttemptPart(b) /\ b[1] \in Tasks /\ b[2] \in 0..MaxAttempts
      BY AttemptParts DEF AttemptInv
    <3>2. CASE b = next
      <4>1. phase'[b] = "reserved" /\ launch'[b] = "none" /\ b = Current(b[1])'
        BY <2>3, <2>7, <2>9, <2>11, <3>2 DEF Current
      <4>2. 0 < b[2] /\ b[2] <= latest'[b[1]]
        BY <2>1, <2>3, <2>8, <3>2
      <4> QED
        BY <4>1, <4>2 DEF AttemptPart
    <3>3. CASE b # next /\ b[1] = a[1]
      <4>1. phase'[b] = phase[b] /\ launch'[b] = launch[b]
        BY <2>7, <2>9, <3>3
      <4>2. phase[b] \in {"none", "attention"}
        BY <2>2, <2>5, <3>1, <3>3 DEF AttemptPart
      <4>3. phase[b] # "none" => 0 < b[2] /\ b[2] <= latest'[b[1]]
        BY <2>1, <2>4, <2>8, <3>1, <3>3 DEF AttemptPart
      <4> QED
        BY <3>1, <4>1, <4>2, <4>3 DEF AttemptPart
    <3>4. CASE b[1] # a[1]
      <4>1. phase'[b] = phase[b] /\ launch'[b] = launch[b]
        BY <2>3, <2>7, <2>9, <3>4
      <4>2. Current(b[1])' = Current(b[1]) /\ latest'[b[1]] = latest[b[1]]
        BY <2>8, <2>11, <3>1, <3>4
      <4> QED
        BY <3>1, <4>1, <4>2 DEF AttemptPart
    <3> QED
      BY <3>2, <3>3, <3>4
  <2>13. \A k \in Lanes \ {l} : lane[k].pc \notin {"create", "setup"}
    BY <2>2 DEF LockFree, Locked
  <2>14. WorkPart'
    BY <1>0, <2>2, <2>9, <2>10, <2>13 DEF WorkPart, AttemptInv
  <2> QED
    BY <2>12, <2>14 DEF AttemptInv
<1>8. ASSUME NEW l \in Lanes,
             \/ ReserveWorkspaceFails(l) \/ CreateWorkspaceRefused(l)
             \/ ReserveIntegration(l) \/ ReserveIntegrationFails(l) \/ Integrate(l)
             \/ IntegrateConflicts(l) \/ IntegrateFails(l) \/ IntegrateCancelled(l)
      PROVE  AttemptInv'
  <2>1. PICK pc, at, job : /\ Take(l, pc, at, job) /\ pc \notin {"create", "setup"}
                           /\ l = "boot" => pc \in {"idle", "apply"}
    BY <1>8
       DEF ReserveWorkspaceFails, CreateWorkspaceRefused, ReserveIntegration,
           ReserveIntegrationFails, Integrate, IntegrateConflicts, IntegrateFails,
           IntegrateCancelled, Fail, Goto, Finish
  <2>2. UNCHANGED <<phase, latest, launch>>
    BY <1>8
       DEF ReserveWorkspaceFails, CreateWorkspaceRefused, ReserveIntegration,
           ReserveIntegrationFails, Integrate, IntegrateConflicts, IntegrateFails,
           IntegrateCancelled
  <2> QED
    BY <1>0, <2>1, <2>2, TakeCalm, AttemptFrame
<1>9. ASSUME NEW l \in Lanes, CreateWorkspace(l) PROVE AttemptInv'
  BY <1>9, PhaseMoves DEF CreateWorkspace, At, Goto
<1>10. ASSUME NEW l \in Lanes, CreateWorkspaceFails(l) PROVE AttemptInv'
  BY <1>10, PhaseMoves DEF CreateWorkspaceFails, At, Finish
<1>11. ASSUME NEW l \in Lanes, FinishSetup(l) PROVE AttemptInv'
  BY <1>11, PhaseMoves DEF FinishSetup, At, Finish
<1>12. ASSUME NEW a \in Attempts,
              \/ Accept(a) \/ Revive(a) \/ Escalate(a) \/ RequestCompletion(a)
              \/ WorkerFails(a) \/ Stall(a) \/ ProcessDies(a) \/ FinishCompletion(a)
              \/ PickTarget(a)
       PROVE  AttemptInv'
  <2>1. UNCHANGED <<phase, latest, lane>>
    BY <1>12
       DEF Accept, Revive, Escalate, RequestCompletion, WorkerFails, Stall, ProcessDies,
           FinishCompletion, PickTarget, NotMemory, DriverOnly
  <2>2. dispatch[a] = "dispatched" => launch[a] # "none"
    BY DEF SpawnInv, SpawnPart
  <2>3. \A b \in Attempts : launch'[b] # "none" => launch[b] # "none"
    BY <1>0, <1>12, <2>2
       DEF Accept, Revive, Escalate, RequestCompletion, WorkerFails, Stall, ProcessDies,
           FinishCompletion, PickTarget, TypeOK
  <2> QED
    BY <2>1, <2>3, StayCalm, AttemptFrame
<1>13. ASSUME NEW a \in Attempts,
              \/ Failover(a) \/ AcceptanceTimeout(a) \/ SessionExits(a) \/ FinishClosing(a)
              \/ ReconcileLaunch(a)
       PROVE  AttemptInv'
  <2>1. SettleWithoutSession(a) /\ UNCHANGED <<latest, lane>>
    BY <1>13
       DEF Failover, AcceptanceTimeout, SessionExits, FinishClosing, ReconcileLaunch,
           SettleOnly, NotMemory
  <2> QED
    BY <1>0, <2>1, SettleFacts, StayCalm, AttemptSettle
<1>14. CASE SettleFailed
  <2>1. failing \in Attempts
    BY <1>0, <1>14 DEF SettleFailed, TypeOK
  <2> QED
    BY <1>0, <1>14, <2>1, TerminateFacts, StayCalm, AttemptSettle DEF SettleFailed, NotMemory
<1>15. CASE BeginShutdown
  <2>1. canc.at \in Attempts
    BY <1>15 DEF BeginShutdown, TypeInv, DriverOK
  <2> QED
    BY <1>0, <1>15, <2>1, TerminateFacts, StayCalm, AttemptSettle DEF BeginShutdown, DriverOnly
<1>16. ASSUME NEW a \in Attempts, RetryTask(a) \/ RetryIntegration(a) PROVE AttemptInv'
  <2>1. PICK job \in {"prepare", "integrate"} : StartRetry(a, job)
    BY <1>16 DEF RetryTask, RetryIntegration
  <2> QED
    BY <1>0, <2>1, TakeCalm, AttemptFrame DEF StartRetry
<1>17. CASE \/ Pause \/ Resume \/ Cancel \/ RetryCancellation \/ (\E t \in Tasks : AbortStage(t))
            \/ ReuseGuard \/ AlreadyClosed \/ CannotClose \/ ShutdownVerified
            \/ ShutdownTimesOut \/ SettleTarget \/ (\E t \in Tasks : ReconcileCancelled(t))
            \/ Start \/ LaunchesReconciled \/ RecoveryFinished \/ UNCHANGED vars
  <2>1. UNCHANGED <<phase, latest, launch, lane>>
    BY <1>17
       DEF Pause, Resume, Cancel, RetryCancellation, CancelTransaction, AbortStage, ReuseGuard,
           AlreadyClosed, CannotClose, ShutdownVerified, ShutdownTimesOut, SettleTarget,
           ReconcileCancelled, Start, LaunchesReconciled, RecoveryFinished, DriverOnly, NotMemory
  <2> QED
    BY <2>1, StayCalm, AttemptFrame
<1>18. ASSUME NEW a \in Attempts, RecoverIntegration(a) PROVE AttemptInv'
  BY <1>0, <1>18, TakeCalm, AttemptFrame DEF RecoverIntegration
<1>19. ASSUME NEW a \in Attempts, RecoverWorkspace(a) PROVE AttemptInv'
  <2>1. LockFree /\ UNCHANGED <<latest, launch>>
    BY <1>19 DEF RecoverWorkspace
  <2>2. \A l \in Lanes : lane[l].pc \notin {"create", "setup"}
    BY <2>1 DEF LockFree, Locked
  <2>3. CASE phase[a] = "reserved" /\ Take("boot", "create", a, "prepare") /\ UNCHANGED phase
    <3>1. /\ lane'["boot"].pc = "create" /\ lane'["boot"].at = a
          /\ \A l \in Lanes \ {"boot"} : lane'[l] = lane[l]
      BY <1>0, <2>3 DEF Take, TypeOK
    <3>2. WorkPart'
      BY <2>2, <2>3, <3>1 DEF WorkPart
    <3>3. \A b \in Attempts : AttemptPart(b)'
      BY <2>1, <2>3 DEF AttemptInv, AttemptPart, Current
    <3> QED
      BY <3>2, <3>3 DEF AttemptInv
  <2>4. CASE phase[a] = "setupRunning" /\ phase' = [phase EXCEPT ![a] = "attention"] /\ UNCHANGED lane
    <3>1. phase'[a] = "attention" /\ \A b \in Attempts \ {a} : phase'[b] = phase[b]
      BY <1>0, <2>4 DEF TypeOK
    <3>2. ASSUME NEW b \in Attempts PROVE AttemptPart(b)'
      BY <2>1, <2>4, <3>1 DEF AttemptInv, AttemptPart, Current
    <3>3. WorkPart'
      BY <2>2, <2>4 DEF AttemptInv, WorkPart
    <3> QED
      BY <3>2, <3>3 DEF AttemptInv
  <2> QED
    BY <1>19, <2>3, <2>4 DEF RecoverWorkspace
<1>20. CASE Crash
  <2>1. \A l \in Lanes : lane'[l].pc = "idle"
    BY <1>20 DEF Crash, Idle
  <2>2. LanesCalm
    BY <1>0, <2>1 DEF LanesCalm
  <2> QED
    BY <1>20, <2>2, AttemptFrame DEF Crash
<1> QED
  BY <1>1, <1>2, <1>3, <1>4, <1>5, <1>6, <1>7, <1>8, <1>9, <1>10, <1>11, <1>12, <1>13,
     <1>14, <1>15, <1>16, <1>17, <1>18, <1>19, <1>20
     DEF Next, Pass, Job, Worker, Closure, Person, Driver, Restart

-----------------------------------------------------------------------------
(* What a launch builds on.                                                *)

DepsPart(a) == launch[a] # "none" => \A d \in Deps[a[1]] : Integrated(d)
DepsInv == \A a \in Attempts : DepsPart(a)

(* A completed task stays completed, and evidence is never withdrawn.      *)
LEMMA CompletedStays ==
  ASSUME TypeInv, TaskInv, [Next]_vars
  PROVE  /\ \A t \in Tasks : task[t] = "completed" => task'[t] = "completed"
         /\ evidence \subseteq evidence'
<1> DEFINE Stays == /\ \A t \in Tasks : task[t] = "completed" => task'[t] = "completed"
                    /\ evidence \subseteq evidence'
<1> SUFFICES Stays
  OBVIOUS
<1>0. TypeOK
  BY DEF TypeInv
<1>1. CASE Pass
  <2>1. CASE RefuseLaunch
    <3>1. lane["pump"].at \in Attempts
      BY <2>1 DEF RefuseLaunch, At, TypeInv, LanesOK, Lanes
    <3> QED
      BY <1>0, <2>1, <3>1, SettleFacts DEF RefuseLaunch, Settles
  <2>2. CASE ReserveLaunch
    <3>1. task[lane["pump"].at[1]] = "pending" /\ UNCHANGED evidence
      BY <2>2 DEF ReserveLaunch, Inputs, EligibleIn
    <3> QED
      BY <1>0, <2>2, <3>1 DEF ReserveLaunch, TypeOK
  <2> QED
    BY <1>1, <2>1, <2>2
       DEF Pass, ReadPage, StepWaiting, StepAttention, StepComplete, Execute, CompleteRun,
           PauseForAttention, StepJob, LaunchReplayed, LaunchFails, ClaimLaunch, ClaimRefused,
           SpawnWorker, MarkStarted, StepOnly
<1>2. ASSUME NEW l \in Lanes, Job(l) PROVE Stays
  BY <1>2
     DEF Job, ReserveWorkspace, ReserveWorkspaceFails, CreateWorkspace, CreateWorkspaceFails,
         CreateWorkspaceRefused, FinishSetup, ReserveIntegration, ReserveIntegrationFails,
         Integrate, IntegrateConflicts, IntegrateFails, IntegrateCancelled
<1>3. ASSUME NEW a \in Attempts, Worker(a) \/ Closure(a) \/ ReconcileLaunch(a) PROVE Stays
  <2>1. CASE \/ Failover(a) \/ AcceptanceTimeout(a) \/ SessionExits(a) \/ FinishClosing(a)
             \/ ReconcileLaunch(a)
    <3>1. SettleWithoutSession(a) /\ UNCHANGED evidence
      BY <2>1
         DEF Failover, AcceptanceTimeout, SessionExits, FinishClosing, ReconcileLaunch, SettleOnly
    <3> QED
      BY <1>0, <3>1, SettleFacts DEF Settles
  <2>2. CASE Revive(a) \/ WorkerFails(a) \/ Stall(a) \/ FinishCompletion(a)
    <3>1. UNCHANGED evidence
      BY <2>2 DEF Revive, WorkerFails, Stall, FinishCompletion
    <3>2. dispatch[a] \in {"dispatched", "stalled"} => task[a[1]] # "completed"
      BY DEF TaskInv, DispatchPart, ActiveDispatch
    <3> QED
      BY <1>0, <2>2, <3>1, <3>2 DEF Revive, WorkerFails, Stall, FinishCompletion, TypeOK
  <2> QED
    BY <1>3, <2>1, <2>2
       DEF Worker, Closure, Accept, Escalate, RequestCompletion, ProcessDies
<1>4. CASE SettleFailed
  BY <1>0, <1>4, TerminateFacts DEF SettleFailed, Settles, TypeOK
<1>5. CASE Person
  <2>1. CASE Cancel \/ RetryCancellation
    BY <2>1 DEF Cancel, RetryCancellation, CancelTransaction
  <2>2. ASSUME NEW t \in Tasks, AbortStage(t) PROVE Stays
    <3>1. \A u \in CancelledWith(t) : task[u] # "completed"
      BY <2>2, CancelledWithFacts DEF AbortStage, Waiting
    <3> QED
      BY <2>2, <3>1 DEF AbortStage
  <2> QED
    BY <1>5, <2>1, <2>2 DEF Person, Pause, Resume, RetryTask, RetryIntegration, StartRetry
<1>6. CASE Driver
  <2>1. CASE BeginShutdown
    BY <1>0, <2>1, TerminateFacts DEF BeginShutdown, DriverOnly, Settles, TypeInv, DriverOK
  <2> QED
    BY <1>6, <2>1
       DEF Driver, PickTarget, ReuseGuard, AlreadyClosed, CannotClose, ShutdownVerified,
           ShutdownTimesOut, SettleTarget, ReconcileCancelled, DriverOnly
<1>7. CASE Restart \/ Crash \/ UNCHANGED vars
  BY <1>3, <1>7
     DEF Restart, Start, LaunchesReconciled, RecoveryFinished, RecoverIntegration,
         RecoverWorkspace, Crash
<1> QED
  BY <1>1, <1>2, <1>3, <1>4, <1>5, <1>6, <1>7 DEF Next

(* A launch comes to exist only in reserve_workflow_launch.                *)
LEMMA LaunchIsReserved ==
  ASSUME TypeInv, SpawnInv, [Next]_vars, NEW a \in Attempts, launch[a] = "none",
         launch'[a] # "none"
  PROVE  ReserveLaunch /\ a = lane["pump"].at
<1>0. TypeOK
  BY DEF TypeInv
<1>1. CASE Pass
  <2>1. ~RefuseLaunch
    <3> SUFFICES ASSUME RefuseLaunch PROVE FALSE
      OBVIOUS
    <3>1. lane["pump"].at \in Attempts
      BY DEF RefuseLaunch, At, TypeInv, LanesOK, Lanes
    <3> QED
      BY <1>0, <3>1, SettleFacts DEF RefuseLaunch, Settles
  <2>2. ~(ClaimLaunch \/ MarkStarted)
    BY <1>0 DEF ClaimLaunch, MarkStarted, SpawnInv, MarkPart, At, TypeOK
  <2>3. ReserveLaunch
    BY <1>1, <2>1, <2>2
       DEF Pass, ReadPage, StepWaiting, StepAttention, StepComplete, Execute, CompleteRun,
           PauseForAttention, StepJob, LaunchReplayed, LaunchFails, ClaimRefused, SpawnWorker,
           StepOnly
  <2> QED
    BY <1>0, <2>3 DEF ReserveLaunch, TypeOK
<1>2. ASSUME NEW l \in Lanes, Job(l) PROVE FALSE
  BY <1>2
     DEF Job, ReserveWorkspace, ReserveWorkspaceFails, CreateWorkspace, CreateWorkspaceFails,
         CreateWorkspaceRefused, FinishSetup, ReserveIntegration, ReserveIntegrationFails,
         Integrate, IntegrateConflicts, IntegrateFails, IntegrateCancelled
<1>3. ASSUME NEW b \in Attempts, Worker(b) \/ Closure(b) \/ ReconcileLaunch(b) PROVE FALSE
  <2>1. CASE \/ Failover(b) \/ AcceptanceTimeout(b) \/ SessionExits(b) \/ FinishClosing(b)
             \/ ReconcileLaunch(b)
    <3>1. SettleWithoutSession(b)
      BY <2>1
         DEF Failover, AcceptanceTimeout, SessionExits, FinishClosing, ReconcileLaunch
    <3> QED
      BY <1>0, <3>1, SettleFacts DEF Settles
  <2>2. CASE Escalate(b) \/ FinishCompletion(b)
    <3>1. dispatch[b] = "dispatched" => launch[b] # "none"
      BY DEF SpawnInv, SpawnPart
    <3> QED
      BY <1>0, <2>2, <3>1 DEF Escalate, FinishCompletion, TypeOK
  <2> QED
    BY <1>3, <2>1, <2>2
       DEF Worker, Closure, Accept, Revive, WorkerFails, Stall, RequestCompletion, ProcessDies
<1>4. ~SettleFailed
  BY <1>0, TerminateFacts DEF SettleFailed, Settles, TypeOK
<1>5. ~Person
  BY DEF Person, Pause, Resume, Cancel, RetryCancellation, CancelTransaction, AbortStage,
         RetryTask, RetryIntegration, StartRetry
<1>6. ~Driver
  <2>1. ~BeginShutdown
    BY <1>0, TerminateFacts DEF BeginShutdown, Settles, TypeInv, DriverOK
  <2> QED
    BY <2>1
       DEF Driver, PickTarget, ReuseGuard, AlreadyClosed, CannotClose, ShutdownVerified,
           ShutdownTimesOut, SettleTarget, ReconcileCancelled, DriverOnly
<1>7. ~(Restart \/ Crash \/ UNCHANGED vars)
  BY <1>3
     DEF Restart, Start, LaunchesReconciled, RecoveryFinished, RecoverIntegration,
         RecoverWorkspace, Crash
<1> QED
  BY <1>1, <1>2, <1>3, <1>4, <1>5, <1>6, <1>7 DEF Next

(* Every step keeps the evidence under the launches.                       *)
LEMMA DepsStep == TypeInv /\ SpawnInv /\ TaskInv /\ DepsInv /\ [Next]_vars => DepsInv'
<1> SUFFICES ASSUME TypeInv, SpawnInv, TaskInv, DepsInv, [Next]_vars, NEW a \in Attempts,
                    launch'[a] # "none", NEW d \in Deps[a[1]]
             PROVE  Integrated(d)'
  BY DEF DepsInv, DepsPart
<1>1. d \in Tasks
  BY AttemptParts, DepsAssumption
<1>2. Integrated(d)
  <2>1. CASE launch[a] # "none"
    BY <2>1 DEF DepsInv, DepsPart
  <2>2. CASE launch[a] = "none"
    BY <2>2, LaunchIsReserved DEF ReserveLaunch, Inputs, EligibleIn
  <2> QED
    BY <2>1, <2>2
<1> QED
  BY <1>1, <1>2, CompletedStays DEF Integrated

-----------------------------------------------------------------------------
(* The sessions of replaced attempts.                                      *)

(* When terminal history is written at once, a running session is that of  *)
(* the latest attempt, which nobody has given up yet.                      *)
LivePart(a) == /\ session[a] # "closing"
               /\ session[a] = "running" => a = Current(a[1]) /\ phase[a] = "ready"

(* No session exists yet for the launch a pass is about to spawn.          *)
ClaimPart == lane["pump"].pc \in {"claim", "refused", "spawn"}
               => session[lane["pump"].at] # "running"

LiveInv == ClaimPart /\ \A a \in Attempts : LivePart(a)

(* Steps after which no session runs that did not run before, and those    *)
(* that run belong to an attempt the step left alone.                      *)
LEMMA LiveFrame ==
  ASSUME TypeInv, LiveInv,
         \A a \in Attempts : /\ session'[a] = session[a] \/ session'[a] \in {"none", "exited"}
                             /\ session'[a] = "running" =>
                                  phase'[a] = phase[a] /\ latest'[a[1]] = latest[a[1]],
         \/ lane'["pump"].pc \notin {"claim", "refused", "spawn"}
         \/ session'[lane'["pump"].at] # "running"
         \/ /\ lane["pump"].pc \in {"claim", "refused", "spawn"}
            /\ lane'["pump"].at = lane["pump"].at
  PROVE  LiveInv'
<1>1. ASSUME NEW a \in Attempts PROVE LivePart(a)'
  <2>1. LivePart(a)
    BY DEF LiveInv
  <2> QED
    BY <2>1 DEF LivePart, Current
<1>2. ClaimPart'
  <2>1. CASE \/ lane'["pump"].pc \notin {"claim", "refused", "spawn"}
             \/ session'[lane'["pump"].at] # "running"
    BY <2>1 DEF ClaimPart
  <2>2. CASE /\ lane["pump"].pc \in {"claim", "refused", "spawn"}
             /\ lane'["pump"].at = lane["pump"].at
    <3>1. lane["pump"].at \in Attempts
      BY <2>2 DEF TypeInv, LanesOK, Lanes
    <3>2. session[lane["pump"].at] # "running"
      BY <2>2 DEF LiveInv, ClaimPart
    <3> QED
      BY <2>2, <3>1, <3>2 DEF ClaimPart
  <2> QED
    BY <2>1, <2>2
<1> QED
  BY <1>1, <1>2 DEF LiveInv

(* Settling a launch whose session is gone.                                *)
LEMMA LiveSettle ==
  ASSUME TypeInv, LiveInv, NEW a \in Attempts, Settles(a), session'[a] # "running",
         \A b \in Attempts : session'[b] = session[b] \/ session'[b] \in {"none", "exited"},
         UNCHANGED latest, lane'["pump"] = lane["pump"] \/ lane'["pump"].pc = "idle"
  PROVE  LiveInv'
<1>1. \A b \in Attempts : session'[b] = "running" => phase'[b] = phase[b]
  BY DEF Settles
<1> QED
  BY <1>1, LiveFrame

(* Without failures of terminal history a session is removed at once.      *)
LEMMA RemovedAtOnce ==
  ASSUME TypeOK, ~HistoryFailures, NEW a \in Attempts, RemoveSession(a) \/ DeferRemoval(a)
  PROVE  /\ session'[a] = "none"
         /\ \A b \in Attempts : session'[b] = session[b] \/ session'[b] \in {"none", "exited"}
  BY DEF RemoveSession, DeferRemoval, TypeOK

(* So is a session that is terminated with its launch.                     *)
LEMMA TerminatedAtOnce ==
  ASSUME TypeOK, ~HistoryFailures, NEW a \in Attempts, Terminate(a)
  PROVE  /\ session'[a] = "none"
         /\ \A b \in Attempts : session'[b] = session[b] \/ session'[b] \in {"none", "exited"}
  BY RemovedAtOnce DEF Terminate

(* Every step keeps the sessions to the latest attempts.                   *)
LEMMA LiveStep ==
  ASSUME ~HistoryFailures, TypeInv, SpawnInv, AttemptInv, LiveInv, [Next]_vars
  PROVE  LiveInv'
<1>0. TypeOK /\ "pump" \in Lanes
  BY DEF TypeInv, Lanes
<1>1. CASE \/ ReadPage \/ StepWaiting \/ StepAttention \/ StepComplete \/ CompleteRun
           \/ PauseForAttention \/ LaunchReplayed \/ LaunchFails \/ MarkStarted
  <2>1. PICK pc, at, job : Take("pump", pc, at, job) /\ pc \notin {"claim", "refused", "spawn"}
    BY <1>1
       DEF ReadPage, StepWaiting, StepAttention, StepComplete, CompleteRun, PauseForAttention,
           LaunchReplayed, LaunchFails, MarkStarted, Goto, Finish
  <2>2. lane'["pump"].pc \notin {"claim", "refused", "spawn"}
    BY <1>0, <2>1 DEF Take, TypeOK
  <2>3. UNCHANGED <<phase, latest, session>>
    BY <1>1
       DEF ReadPage, StepWaiting, StepAttention, StepComplete, CompleteRun, PauseForAttention,
           LaunchReplayed, LaunchFails, MarkStarted, StepOnly, LaneOnly
  <2> QED
    BY <2>2, <2>3, LiveFrame
<1>2. CASE Execute
  <2>1. lane["pump"].job \notin {"claim", "refused", "spawn"}
    BY <1>0 DEF TypeOK, Lane, LaneJobs
  <2>2. lane'["pump"].pc \notin {"claim", "refused", "spawn"}
    BY <1>0, <1>2, <2>1 DEF Execute, Goto, Finish, Take, TypeOK
  <2> QED
    BY <1>2, <2>2, LiveFrame DEF Execute, StepOnly
<1>3. ASSUME NEW t \in Tasks, NEW job \in {"integrate", "prepare", "launch"}, StepJob(t, job)
      PROVE  LiveInv'
  <2>1. lane'["pump"].pc = "execute"
    BY <1>0, <1>3 DEF StepJob, Take, TypeOK
  <2> QED
    BY <1>3, <2>1, LiveFrame DEF StepJob, StepOnly
<1>4. CASE ReserveLaunch
  <2>1. lane["pump"].at \in Attempts /\ launch[lane["pump"].at] = "none"
    BY <1>0, <1>4 DEF ReserveLaunch, At, TypeInv, LanesOK
  <2>2. session[lane["pump"].at] = "none"
    BY <2>1 DEF SpawnInv, SpawnPart
  <2>3. lane'["pump"].at = lane["pump"].at
    BY <1>0, <1>4 DEF ReserveLaunch, Goto, Take, TypeOK
  <2> QED
    BY <1>4, <2>2, <2>3, LiveFrame DEF ReserveLaunch, LaneOnly
<1>5. CASE ClaimLaunch \/ ClaimRefused
  <2>1. lane["pump"].pc = "claim" /\ lane'["pump"].at = lane["pump"].at
    BY <1>0, <1>5 DEF ClaimLaunch, ClaimRefused, At, Goto, Take, TypeOK
  <2>2. UNCHANGED <<phase, latest, session>>
    BY <1>5 DEF ClaimLaunch, ClaimRefused, StepOnly, LaneOnly
  <2> QED
    BY <2>1, <2>2, LiveFrame
<1>6. CASE RefuseLaunch
  <2>1. lane["pump"].at \in Attempts /\ session[lane["pump"].at] # "running"
    BY <1>0, <1>6 DEF RefuseLaunch, At, TypeInv, LanesOK, LiveInv, ClaimPart
  <2>2. lane'["pump"].pc = "idle"
    BY <1>0, <1>6 DEF RefuseLaunch, Finish, Take, TypeOK
  <2>3. Settles(lane["pump"].at) /\ UNCHANGED <<session, latest>>
    BY <1>0, <1>6, <2>1, SettleFacts DEF RefuseLaunch, LaneOnly
  <2> QED
    BY <2>1, <2>2, <2>3, LiveSettle
<1>7. CASE SpawnWorker
  <2> DEFINE a == lane["pump"].at
  <2>1. a \in Attempts
    BY <1>0, <1>7 DEF SpawnWorker, At, TypeInv, LanesOK
  <2>2. a = Current(a[1]) /\ phase[a] = "ready"
    BY <1>7 DEF SpawnWorker, Spawnable, Inputs
  <2>3. session'[a] = "running" /\ \A b \in Attempts \ {a} : session'[b] = session[b]
    BY <1>0, <1>7, <2>1 DEF SpawnWorker, TypeOK
  <2>4. UNCHANGED <<phase, latest>>
    BY <1>7 DEF SpawnWorker
  <2>5. lane'["pump"].pc = "mark"
    BY <1>0, <1>7 DEF SpawnWorker, Goto, Take, TypeOK
  <2>6. ASSUME NEW b \in Attempts PROVE LivePart(b)'
    BY <2>2, <2>3, <2>4 DEF LiveInv, LivePart, Current
  <2> QED
    BY <2>5, <2>6 DEF LiveInv, ClaimPart
<1>8. ASSUME NEW l \in Lanes, Job(l) PROVE LiveInv'
  <2>1. PICK pc, at, job : Take(l, pc, at, job) /\ pc \notin {"claim", "refused", "spawn"}
    BY <1>8
       DEF Job, ReserveWorkspace, ReserveWorkspaceFails, CreateWorkspace, CreateWorkspaceFails,
           CreateWorkspaceRefused, FinishSetup, ReserveIntegration, ReserveIntegrationFails,
           Integrate, IntegrateConflicts, IntegrateFails, IntegrateCancelled, Fail, Goto, Finish
  <2>2. lane'["pump"] = lane["pump"] \/ lane'["pump"].pc \notin {"claim", "refused", "spawn"}
    BY <1>0, <2>1 DEF Take, TypeOK
  <2>3. UNCHANGED session
    BY <1>8
       DEF Job, ReserveWorkspace, ReserveWorkspaceFails, CreateWorkspace, CreateWorkspaceFails,
           CreateWorkspaceRefused, FinishSetup, ReserveIntegration, ReserveIntegrationFails,
           Integrate, IntegrateConflicts, IntegrateFails, IntegrateCancelled, LaneOnly
  <2>4. ASSUME NEW b \in Attempts, session[b] = "running"
        PROVE  phase'[b] = phase[b] /\ latest'[b[1]] = latest[b[1]]
    <3>1. b = Current(b[1]) /\ phase[b] = "ready" /\ b[1] \in Tasks
      BY <2>4, AttemptParts DEF LiveInv, LivePart
    <3>2. CASE ReserveWorkspace(l)
      <4> DEFINE a == lane[l].at
                 next == <<a[1], a[2] + 1>>
      <4>1. /\ a \in Attempts /\ a[1] \in Tasks /\ a[2] \in 0..MaxAttempts
            /\ a = Current(a[1]) /\ a[2] < MaxAttempts
        BY <3>2, AttemptParts DEF ReserveWorkspace, MayReserve, At, TypeInv, LanesOK
      <4>2. next \in Attempts /\ next[1] = a[1] /\ next[2] = a[2] + 1
        BY <4>1, MakeAttempt, BoundsAssumption
      <4>3. phase[a] # "ready"
        <5>1. l \in {"pump", "retry"}
          BY <3>2 DEF ReserveWorkspace, At, AttemptInv, WorkPart, Lanes
        <5>2. l = "pump" => a[2] = 0
          BY <3>2 DEF ReserveWorkspace, MayReserve
        <5>3. l = "retry" => phase[a] = "attention"
          BY <3>2 DEF ReserveWorkspace, MayReserve
        <5> QED
          BY <4>1, <5>1, <5>2, <5>3 DEF AttemptInv, AttemptPart
      <4>4. b[1] # a[1]
        BY <3>1, <4>1, <4>3
      <4>5. /\ phase' = [phase EXCEPT ![next] = "reserved"]
            /\ latest' = [latest EXCEPT ![a[1]] = a[2] + 1]
        BY <3>2 DEF ReserveWorkspace
      <4> QED
        BY <1>0, <3>1, <4>2, <4>4, <4>5 DEF TypeOK
    <3>3. CASE CreateWorkspace(l) \/ CreateWorkspaceFails(l) \/ FinishSetup(l)
      <4>1. lane[l].at \in Attempts /\ phase[lane[l].at] \in {"reserved", "setupRunning"}
        BY <3>3
           DEF CreateWorkspace, CreateWorkspaceFails, FinishSetup, At, TypeInv, LanesOK,
               AttemptInv, WorkPart
      <4> QED
        BY <1>0, <3>1, <3>3, <4>1 DEF CreateWorkspace, CreateWorkspaceFails, FinishSetup, TypeOK
    <3> QED
      BY <1>8, <3>2, <3>3
         DEF Job, ReserveWorkspaceFails, CreateWorkspaceRefused, ReserveIntegration,
             ReserveIntegrationFails, Integrate, IntegrateConflicts, IntegrateFails,
             IntegrateCancelled
  <2> QED
    BY <2>2, <2>3, <2>4, LiveFrame
<1>9. ASSUME NEW a \in Attempts,
             \/ Accept(a) \/ Revive(a) \/ Escalate(a) \/ RequestCompletion(a)
             \/ WorkerFails(a) \/ Stall(a) \/ ProcessDies(a) \/ FinishCompletion(a)
             \/ PickTarget(a)
      PROVE  LiveInv'
  <2>1. UNCHANGED <<phase, latest, lane, session>>
    BY <1>9
       DEF Accept, Revive, Escalate, RequestCompletion, WorkerFails, Stall, ProcessDies,
           FinishCompletion, PickTarget, NotMemory, DriverOnly
  <2> QED
    BY <2>1, LiveFrame
<1>10. ASSUME NEW a \in Attempts, Failover(a) \/ AcceptanceTimeout(a) PROVE LiveInv'
  <2>1. /\ SettleWithoutSession(a) /\ UNCHANGED <<latest, lane>>
        /\ RemoveSession(a) \/ DeferRemoval(a)
    BY <1>10 DEF Failover, AcceptanceTimeout, SettleOnly, NotMemory
  <2> QED
    BY <1>0, <2>1, SettleFacts, RemovedAtOnce, LiveSettle
<1>11. ASSUME NEW a \in Attempts, SessionExits(a) \/ FinishClosing(a) \/ ReconcileLaunch(a)
       PROVE  LiveInv'
  <2>1. SettleWithoutSession(a) /\ UNCHANGED <<latest, lane>>
    BY <1>11 DEF SessionExits, FinishClosing, ReconcileLaunch, SettleOnly, NotMemory
  <2>2. /\ session'[a] # "running"
        /\ \A b \in Attempts : session'[b] = session[b] \/ session'[b] \in {"none", "exited"}
    BY <1>0, <1>11 DEF SessionExits, FinishClosing, ReconcileLaunch, Live, TypeOK
  <2> QED
    BY <1>0, <2>1, <2>2, SettleFacts, LiveSettle
<1>12. CASE SettleFailed
  <2>1. failing \in Attempts /\ Terminate(failing) /\ UNCHANGED <<latest, lane>>
    BY <1>0, <1>12 DEF SettleFailed, TypeOK, NotMemory
  <2> QED
    BY <1>0, <2>1, TerminateFacts, TerminatedAtOnce, LiveSettle
<1>13. CASE BeginShutdown
  <2>1. canc.at \in Attempts /\ Terminate(canc.at) /\ UNCHANGED <<latest, lane>>
    BY <1>13 DEF BeginShutdown, TypeInv, DriverOK, DriverOnly
  <2> QED
    BY <1>0, <2>1, TerminateFacts, TerminatedAtOnce, LiveSettle
<1>14. ASSUME NEW a \in Attempts, RetryTask(a) \/ RetryIntegration(a) \/ RecoverIntegration(a)
       PROVE  LiveInv'
  <2>1. lane'["pump"] = lane["pump"]
    BY <1>0, <1>14
       DEF RetryTask, RetryIntegration, StartRetry, RecoverIntegration, Take, TypeOK
  <2>2. UNCHANGED <<phase, latest, session>>
    BY <1>14 DEF RetryTask, RetryIntegration, StartRetry, RecoverIntegration
  <2> QED
    BY <2>1, <2>2, LiveFrame
<1>15. CASE \/ Pause \/ Resume \/ Cancel \/ RetryCancellation \/ (\E t \in Tasks : AbortStage(t))
            \/ ReuseGuard \/ AlreadyClosed \/ CannotClose \/ ShutdownVerified
            \/ ShutdownTimesOut \/ SettleTarget \/ (\E t \in Tasks : ReconcileCancelled(t))
            \/ Start \/ LaunchesReconciled \/ RecoveryFinished \/ UNCHANGED vars
  <2>1. UNCHANGED <<phase, latest, session, lane>>
    BY <1>15
       DEF Pause, Resume, Cancel, RetryCancellation, CancelTransaction, AbortStage, ReuseGuard,
           AlreadyClosed, CannotClose, ShutdownVerified, ShutdownTimesOut, SettleTarget,
           ReconcileCancelled, Start, LaunchesReconciled, RecoveryFinished, DriverOnly, NotMemory
  <2> QED
    BY <2>1, LiveFrame
<1>16. ASSUME NEW a \in Attempts, RecoverWorkspace(a) PROVE LiveInv'
  <2>1. lane'["pump"] = lane["pump"] /\ UNCHANGED <<latest, session>>
    BY <1>0, <1>16 DEF RecoverWorkspace, Take, TypeOK
  <2>2. \A b \in Attempts : phase'[b] = phase[b] \/ phase[b] = "setupRunning"
    BY <1>0, <1>16 DEF RecoverWorkspace, TypeOK
  <2>3. \A b \in Attempts : session[b] = "running" => phase[b] = "ready"
    BY DEF LiveInv, LivePart
  <2>4. \A b \in Attempts : session[b] = "running" => phase'[b] = phase[b]
    BY <2>2, <2>3
  <2> QED
    BY <2>1, <2>4, LiveFrame
<1>17. CASE Crash
  <2>1. lane'["pump"].pc = "idle" /\ \A a \in Attempts : session'[a] = "none"
    BY <1>0, <1>17 DEF Crash, Idle
  <2> QED
    BY <2>1 DEF LiveInv, LivePart, ClaimPart
<1> QED
  BY <1>1, <1>2, <1>3, <1>4, <1>5, <1>6, <1>7, <1>8, <1>9, <1>10, <1>11, <1>12, <1>13,
     <1>14, <1>15, <1>16, <1>17
     DEF Next, Pass, Worker, Closure, Person, Driver, Restart

-----------------------------------------------------------------------------
(* The scheduler's count.                                                  *)

(* A pass is about to ask for a first attempt, of the run it read.         *)
Counting ==
  /\ At("pump", "prepare") \/ (At("pump", "execute") /\ lane["pump"].job = "prepare")
  /\ status = "running" /\ sequence = seen

(* As long as the run is the one the pass read, the tasks it counted have  *)
(* not become more.                                                        *)
LimitInv == seen <= sequence /\ (Counting => Cardinality(Occupied) < MaxConcurrent)

(* Steps that make no attempt and complete tasks for good.                 *)
LEMMA LimitFrame ==
  ASSUME TypeOK, TypeOK', LimitInv, UNCHANGED latest, seen' <= sequence', Counting' => Counting,
         \A t \in Tasks : task[t] = "completed" => task'[t] = "completed"
  PROVE  LimitInv'
<1>1. Occupied' \subseteq Occupied /\ Occupied \subseteq Tasks
  BY DEF Occupied
<1>2. IsFiniteSet(Occupied)
  BY <1>1, TasksAssumption, FS_Subset
<1>3. IsFiniteSet(Occupied') /\ Cardinality(Occupied') <= Cardinality(Occupied)
  BY <1>1, <1>2, FS_Subset
<1>4. Cardinality(Occupied) \in Nat /\ Cardinality(Occupied') \in Nat
  BY <1>2, <1>3, FS_CardinalityType
<1>5. Counting' => Cardinality(Occupied') < MaxConcurrent
  BY <1>3, <1>4, BoundsAssumption DEF LimitInv
<1> QED
  BY <1>5 DEF LimitInv

(* Every step keeps the scheduler's count.                                 *)
LEMMA LimitStep ==
  TypeInv /\ TypeInv' /\ TaskInv /\ AttemptInv /\ LimitInv /\ [Next]_vars => LimitInv'
<1> SUFFICES ASSUME TypeInv, TypeInv', TaskInv, AttemptInv, LimitInv, [Next]_vars PROVE LimitInv'
  OBVIOUS
<1>0. /\ TypeOK /\ TypeOK' /\ "pump" \in Lanes
      /\ \A t \in Tasks : task[t] = "completed" => task'[t] = "completed"
  BY CompletedStays DEF TypeInv, Lanes
<1>1. seen \in Nat /\ sequence \in Nat /\ seen <= sequence
  BY <1>0 DEF TypeOK, LimitInv
<1>2. CASE \/ ReadPage \/ StepWaiting \/ StepAttention \/ StepComplete \/ CompleteRun
           \/ PauseForAttention \/ LaunchReplayed \/ ReserveLaunch \/ LaunchFails \/ ClaimLaunch
           \/ ClaimRefused \/ RefuseLaunch \/ SpawnWorker \/ MarkStarted
  <2>1. PICK pc, at, job : Take("pump", pc, at, job) /\ pc \notin {"execute", "prepare"}
    BY <1>2
       DEF ReadPage, StepWaiting, StepAttention, StepComplete, CompleteRun, PauseForAttention,
           LaunchReplayed, ReserveLaunch, LaunchFails, ClaimLaunch, ClaimRefused, RefuseLaunch,
           SpawnWorker, MarkStarted, Goto, Finish
  <2>2. ~Counting'
    BY <1>0, <2>1 DEF Take, TypeOK, Counting, At
  <2>3. seen' <= sequence'
    BY <1>1, <1>2
       DEF ReadPage, StepWaiting, StepAttention, StepComplete, CompleteRun, PauseForAttention,
           LaunchReplayed, ReserveLaunch, LaunchFails, ClaimLaunch, ClaimRefused, RefuseLaunch,
           SpawnWorker, MarkStarted, StepOnly, LaneOnly
  <2> QED
    BY <2>2, <2>3 DEF LimitInv
<1>3. CASE Execute
  <2>1. Counting' => Counting
    BY <1>0, <1>3 DEF Execute, StepOnly, Goto, Finish, Take, TypeOK, Counting, At
  <2> QED
    BY <1>0, <1>1, <1>3, <2>1, LimitFrame DEF Execute, StepOnly
<1>4. ASSUME NEW t \in Tasks, NEW job \in {"integrate", "prepare", "launch"}, StepJob(t, job)
      PROVE  LimitInv'
  <2>1. UNCHANGED <<seen, sequence, task, latest>>
    BY <1>4 DEF StepJob, StepOnly
  <2>2. CASE job = "prepare"
    <3>1. Cardinality(Occupied) < MaxConcurrent
      BY <1>4, <2>2 DEF StepJob, ToPrepare
    <3>2. Occupied' = Occupied
      BY <2>1 DEF Occupied
    <3> QED
      BY <1>1, <2>1, <3>1, <3>2 DEF LimitInv
  <2>3. CASE job # "prepare"
    <3>1. ~Counting'
      BY <1>0, <1>4, <2>3 DEF StepJob, Take, TypeOK, Counting, At
    <3> QED
      BY <1>1, <2>1, <3>1 DEF LimitInv
  <2> QED
    BY <2>2, <2>3
<1>5. ASSUME NEW l \in Lanes, ReserveWorkspace(l) PROVE LimitInv'
  <2>1. UNCHANGED <<seen, sequence, status>>
    BY <1>5 DEF ReserveWorkspace, LaneOnly
  <2>2. ~Counting'
    <3>1. CASE l = "pump"
      BY <1>0, <1>5, <3>1 DEF ReserveWorkspace, Take, TypeOK, Counting, At
    <3>2. CASE l # "pump"
      <4>1. l = "retry"
        BY <1>5, <3>2 DEF ReserveWorkspace, At, AttemptInv, WorkPart, Lanes
      <4>2. status # "running"
        BY <1>5, <4>1 DEF ReserveWorkspace, MayReserve
      <4> QED
        BY <2>1, <4>2 DEF Counting
    <3> QED
      BY <3>1, <3>2
  <2> QED
    BY <1>1, <2>1, <2>2 DEF LimitInv
<1>6. ASSUME NEW l \in Lanes,
             \/ ReserveWorkspaceFails(l) \/ CreateWorkspace(l) \/ CreateWorkspaceFails(l)
             \/ CreateWorkspaceRefused(l) \/ FinishSetup(l) \/ ReserveIntegration(l)
             \/ ReserveIntegrationFails(l) \/ Integrate(l) \/ IntegrateConflicts(l)
             \/ IntegrateFails(l) \/ IntegrateCancelled(l)
      PROVE  LimitInv'
  <2>1. PICK pc, at, job : Take(l, pc, at, job) /\ pc \notin {"execute", "prepare"}
    BY <1>6
       DEF ReserveWorkspaceFails, CreateWorkspace, CreateWorkspaceFails,
           CreateWorkspaceRefused, FinishSetup, ReserveIntegration, ReserveIntegrationFails,
           Integrate, IntegrateConflicts, IntegrateFails, IntegrateCancelled, Fail, Goto, Finish
  <2>2. UNCHANGED <<latest, seen, sequence, status>>
    BY <1>6
       DEF ReserveWorkspaceFails, CreateWorkspace, CreateWorkspaceFails,
           CreateWorkspaceRefused, FinishSetup, ReserveIntegration, ReserveIntegrationFails,
           Integrate, IntegrateConflicts, IntegrateFails, IntegrateCancelled, LaneOnly
  <2>3. Counting' => Counting
    BY <1>0, <2>1, <2>2 DEF Take, TypeOK, Counting, At
  <2> QED
    BY <1>0, <1>1, <2>2, <2>3, LimitFrame
<1>7. ASSUME NEW a \in Attempts, Worker(a) \/ Closure(a) \/ ReconcileLaunch(a) PROVE LimitInv'
  <2>1. UNCHANGED <<latest, lane, seen, sequence, status>>
    BY <1>7
       DEF Worker, Closure, Accept, Revive, Escalate, RequestCompletion, WorkerFails, Stall,
           Failover, ProcessDies, FinishCompletion, AcceptanceTimeout, SessionExits,
           FinishClosing, ReconcileLaunch, SettleOnly, NotMemory
  <2> QED
    BY <1>0, <1>1, <2>1, LimitFrame DEF Counting, At
<1>8. CASE SettleFailed
  BY <1>0, <1>1, <1>8, LimitFrame DEF SettleFailed, NotMemory, Counting, At
<1>9. CASE Pause \/ Resume \/ Cancel \/ RetryCancellation
  <2>1. sequence' = sequence + 1 /\ UNCHANGED seen
    BY <1>9 DEF Pause, Resume, Cancel, RetryCancellation, Command
  <2>2. seen' <= sequence' /\ ~Counting'
    BY <1>1, <2>1 DEF Counting
  <2> QED
    BY <2>2 DEF LimitInv
<1>10. ASSUME NEW t \in Tasks, AbortStage(t) \/ ReconcileCancelled(t) PROVE LimitInv'
  <2>1. UNCHANGED <<latest, lane, seen, sequence, status>>
    BY <1>10 DEF AbortStage, ReconcileCancelled, NotMemory
  <2> QED
    BY <1>0, <1>1, <2>1, LimitFrame DEF Counting, At
<1>11. ASSUME NEW a \in Attempts,
              RetryTask(a) \/ RetryIntegration(a) \/ RecoverIntegration(a) \/ RecoverWorkspace(a)
       PROVE  LimitInv'
  <2>1. lane'["pump"] = lane["pump"]
    BY <1>0, <1>11
       DEF RetryTask, RetryIntegration, StartRetry, RecoverIntegration, RecoverWorkspace, Take,
           TypeOK
  <2>2. UNCHANGED <<latest, seen, sequence, status>>
    BY <1>11
       DEF RetryTask, RetryIntegration, StartRetry, RecoverIntegration, RecoverWorkspace
  <2> QED
    BY <1>0, <1>1, <2>1, <2>2, LimitFrame DEF Counting, At
<1>12. CASE Driver
  <2>1. UNCHANGED <<latest, lane, seen, sequence, status>>
    BY <1>12
       DEF Driver, PickTarget, BeginShutdown, ReuseGuard, AlreadyClosed, CannotClose,
           ShutdownVerified, ShutdownTimesOut, SettleTarget, ReconcileCancelled, DriverOnly
  <2> QED
    BY <1>0, <1>1, <2>1, LimitFrame DEF Counting, At
<1>13. CASE Start \/ LaunchesReconciled \/ RecoveryFinished \/ UNCHANGED vars
  <2>1. UNCHANGED <<latest, lane, seen, sequence, status>>
    BY <1>13 DEF Start, LaunchesReconciled, RecoveryFinished
  <2> QED
    BY <1>0, <1>1, <2>1, LimitFrame DEF Counting, At
<1>14. CASE Crash
  <2>1. lane'["pump"].pc = "idle" /\ UNCHANGED <<seen, sequence>>
    BY <1>0, <1>14 DEF Crash, Idle
  <2> QED
    BY <1>1, <2>1 DEF LimitInv, Counting, At
<1> QED
  BY <1>2, <1>3, <1>4, <1>5, <1>6, <1>7, <1>8, <1>9, <1>10, <1>11, <1>12, <1>13, <1>14
     DEF Next, Pass, Job, Person, Restart

(* An attempt the store counts is the latest of a task the scheduler       *)
(* counts.                                                                 *)
LEMMA AttemptsAreTasks ==
  ASSUME TypeInv, TaskInv, AttemptInv
  PROVE  \A a \in ActiveAttempts : a[1] \in Occupied /\ a = Current(a[1])
<1> SUFFICES ASSUME NEW a \in ActiveAttempts PROVE a[1] \in Occupied /\ a = Current(a[1])
  OBVIOUS
<1>1. /\ a \in Attempts /\ a[1] \in Tasks /\ a[2] \in 0..MaxAttempts
      /\ phase[a] \notin {"none", "attention"} /\ dispatch[a] # "completed"
  BY AttemptParts DEF ActiveAttempts
<1>2. a = Current(a[1]) /\ 0 < a[2]
  BY <1>1 DEF AttemptInv, AttemptPart
<1>3. latest[a[1]] > 0
  BY <1>1, <1>2 DEF Current, TypeInv, TypeOK
<1>4. task[a[1]] # "completed"
  BY <1>1, <1>2 DEF TaskInv, ResultPart
<1> QED
  BY <1>1, <1>2, <1>3, <1>4 DEF Occupied

(* So the store's count is at most the scheduler's.                        *)
LEMMA CountsAgree ==
  ASSUME TypeInv, TaskInv, AttemptInv
  PROVE  /\ IsFiniteSet(Occupied) /\ IsFiniteSet(ActiveAttempts)
         /\ Cardinality(ActiveAttempts) <= Cardinality(Occupied)
<1> DEFINE f == [a \in ActiveAttempts |-> a[1]]
<1>1. IsFiniteSet(Occupied)
  BY TasksAssumption, FS_Subset DEF Occupied
<1>2. f \in Injection(ActiveAttempts, Occupied)
  BY AttemptsAreTasks DEF Injection, IsInjective
<1> HIDE DEF f
<1> QED
  BY <1>1, <1>2, FS_Injection

-----------------------------------------------------------------------------
(* The theorems.                                                           *)

(* The parts of the invariant that hold whatever terminal history does.    *)
RunInv == TypeInv /\ SpawnInv /\ SetupInv /\ TaskInv /\ AttemptInv /\ DepsInv /\ LimitInv

(* An accepted plan starts with tasks nobody has attempted.                *)
LEMMA RunInvInit == Init => RunInv
<1> SUFFICES ASSUME Init PROVE RunInv
  OBVIOUS
<1>1. TypeInv
  BY TypeInit
<1>2. SpawnInv
  BY DEF Init, SpawnInv, SpawnPart, MarkPart, Idle, Lanes
<1>3. SetupInv
  BY DEF Init, SetupInv, SetupPart, LockInv, CreateInv, Idle, Locked
<1>4. TaskInv
  BY CurrentIsAttempt, <1>1
     DEF Init, TaskInv, DispatchPart, ResultPart, ApplyPart, Idle, ActiveDispatch, TypeInv
<1>5. AttemptInv
  BY DEF Init, AttemptInv, AttemptPart, WorkPart, Idle, Lanes
<1>6. DepsInv
  BY DEF Init, DepsInv, DepsPart
<1>7. LimitInv
  BY DEF Init, LimitInv, Counting, At, Idle, Lanes
<1> QED
  BY <1>1, <1>2, <1>3, <1>4, <1>5, <1>6, <1>7 DEF RunInv

(* Every reachable state has them.                                         *)
LEMMA RunInvHolds == Spec => []RunInv
<1>1. RunInv /\ [Next]_vars => RunInv'
  BY TypeStep, SpawnStep, SetupStep, TaskStep, AttemptStep, DepsStep, LimitStep DEF RunInv
<1> QED
  BY <1>1, RunInvInit, PTL DEF Spec

(* A late result of a replaced attempt is never accepted: a completed      *)
(* dispatch is that of the latest attempt, and its task is completed.      *)
THEOREM CompletionsAreCurrent == Spec => []CompletionBelongsToLatest
<1>1. RunInv => CompletionBelongsToLatest
  BY DEF RunInv, TaskInv, DispatchPart, CompletionBelongsToLatest
<1> QED
  BY <1>1, RunInvHolds, PTL

(* No worker is launched before the results it builds on are integrated,   *)
(* and they stay integrated for as long as the launch exists.              *)
THEOREM LaunchesHaveDependencies == Spec => []LaunchedAfterDependencies
<1>1. RunInv => LaunchedAfterDependencies
  BY DEF RunInv, DepsInv, DepsPart, LaunchedAfterDependencies
<1> QED
  BY <1>1, RunInvHolds, PTL

(* A pass that asks for a first attempt, of a run that has not changed, is *)
(* never refused for max_concurrent: the attempts the store counts are at  *)
(* most the tasks the scheduler counted.                                   *)
THEOREM PassesAreNotRefused == Spec => []LimitsAgree
<1>1. RunInv => LimitsAgree
  <2> SUFFICES ASSUME RunInv, At("pump", "prepare"), status = "running", sequence = seen
               PROVE  Cardinality(ActiveAttempts) < MaxConcurrent
    BY DEF LimitsAgree
  <2>1. Cardinality(Occupied) < MaxConcurrent
    BY DEF RunInv, LimitInv, Counting
  <2>2. /\ Cardinality(ActiveAttempts) <= Cardinality(Occupied)
        /\ Cardinality(ActiveAttempts) \in Nat /\ Cardinality(Occupied) \in Nat
    BY CountsAgree, FS_CardinalityType DEF RunInv
  <2> QED
    BY <2>1, <2>2, BoundsAssumption
<1> QED
  BY <1>1, RunInvHolds, PTL

(* When terminal history is written at once, two attempts of a task never  *)
(* have a running worker at the same time, across retries, failovers,      *)
(* timeouts and crashes.  (With a lagging history a session outlives its   *)
(* attempt: see the run engine_still_running.)                             *)
THEOREM OneWorkerWithHistory ==
  ASSUME ~HistoryFailures
  PROVE  Spec => []OneWorkerPerTask
<1>1. Init => LiveInv
  BY DEF Init, LiveInv, LivePart, ClaimPart, Idle, Lanes
<1>2. RunInv /\ LiveInv /\ [Next]_vars => LiveInv'
  BY LiveStep DEF RunInv
<1>3. LiveInv => OneWorkerPerTask
  BY DEF LiveInv, LivePart, OneWorkerPerTask, Working, Live
<1> QED
  BY <1>1, <1>2, <1>3, RunInvHolds, PTL DEF Spec

(* Under the same condition an attempt that is retained in Attention, and  *)
(* that a retry may therefore replace, has no session any more: a lagging  *)
(* history is the only way to the counterexample of that run.              *)
THEOREM AttentionWithHistory ==
  ASSUME ~HistoryFailures
  PROVE  Spec => []AttentionMeansStopped
<1>1. Init => LiveInv
  BY DEF Init, LiveInv, LivePart, ClaimPart, Idle, Lanes
<1>2. RunInv /\ LiveInv /\ [Next]_vars => LiveInv'
  BY LiveStep DEF RunInv
<1>3. LiveInv => AttentionMeansStopped
  BY DEF LiveInv, LivePart, AttentionMeansStopped, Live
<1> QED
  BY <1>1, <1>2, <1>3, RunInvHolds, PTL DEF Spec
=============================================================================
