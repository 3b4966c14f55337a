------------------------------- MODULE RunWorker -------------------------------
(***************************************************************************)
(* The worker of an attempt and its dispatch: acceptance, liveness,        *)
(* completion, failure, stalls and the end of its session                  *)
(* (orchestration_dispatch_*_store.rs, orchestration_worker_requests.rs,   *)
(* orchestration_completion.rs, coordinator_stall_policy.rs,               *)
(* run_launch_recovery.rs, session_termination.rs, pty_events.rs).         *)
(* Every action but the death of a process is a command of the host actor. *)
(***************************************************************************)
EXTENDS RunStore

NotMemory == UNCHANGED <<lane, seen, canc, guards>>

WorkerCalls(a) == ActorFree /\ session[a] = "running" /\ proc[a]

(* Trigger runDispatchAcceptance: a dispatch becomes dispatched only under *)
(* its current approved launch.                                            *)
MayAccept(a) == /\ status \in Accepted
                /\ \/ dispatch[a] = "awaiting" /\ launch[a] \in {"starting", "started"}
                   \/ dispatch[a] = "stalled" /\ launch[a] # "reserved"

(* touch_worker_dispatch: the first call accepts the dispatch, and any     *)
(* later call (or "keep waiting") revives a stalled one with its task.     *)
Accept(a) ==
  /\ WorkerCalls(a) /\ dispatch[a] = "awaiting" /\ MayAccept(a)
  /\ dispatch' = [dispatch EXCEPT ![a] = "dispatched"]
  /\ NotMemory
  /\ UNCHANGED <<runVars, taskVars, latest, phase, launch, setups, cancelVars,
                 workerVars, hostVars, checks, failing>>

Revive(a) ==
  /\ ActorFree /\ dispatch[a] = "stalled" /\ MayAccept(a)
  /\ dispatch' = [dispatch EXCEPT ![a] = "dispatched"]
  /\ task' = [task EXCEPT ![a[1]] = IF @ = "stalled" THEN "dispatched" ELSE @]
  /\ NotMemory
  /\ UNCHANGED <<runVars, evidence, integration, latest, phase, launch, setups,
                 cancelVars, workerVars, hostVars, checks, failing>>

(* orchestration_escalate: the launch shows Attention, nothing is settled. *)
Escalate(a) ==
  /\ WorkerCalls(a) /\ dispatch[a] = "dispatched"
  /\ launch' = [launch EXCEPT ![a] = "attention"]
  /\ NotMemory
  /\ UNCHANGED <<runVars, taskVars, latest, phase, dispatch, setups, cancelVars,
                 workerVars, hostVars, checks, failing>>

(* orchestration_complete with a result: its commit is verified off the    *)
(* actor ...                                                               *)
RequestCompletion(a) ==
  /\ WorkerCalls(a) /\ dispatch[a] = "dispatched"
  /\ checks' = checks \cup {a}
  /\ NotMemory
  /\ UNCHANGED <<runVars, taskVars, attemptVars, cancelVars, workerVars, hostVars, failing>>

(* Mutant of FinishCompletion: the dispatch is not checked again.          *)
FinishLateCompletion(a) ==
  /\ ActorFree /\ a \in checks
  /\ checks' = checks \ {a}
  /\ dispatch' = [dispatch EXCEPT ![a] = "completed"]
  /\ task' = [task EXCEPT ![a[1]] = "completed"]
  /\ launch' = [launch EXCEPT ![a] = IF @ = "attention" THEN "started" ELSE @]
  /\ NotMemory
  /\ UNCHANGED <<runVars, evidence, integration, latest, phase, setups, cancelVars,
                 workerVars, hostVars, failing>>

(* ... and complete_workflow_orchestration_dispatch runs when the answer   *)
(* is back.  A dispatch that meanwhile ended rejects the result.           *)
FinishCompletion(a) ==
  /\ ActorFree /\ a \in checks
  /\ checks' = checks \ {a}
  /\ \/ /\ dispatch[a] \in {"dispatched", "stalled"}
        /\ dispatch' = [dispatch EXCEPT ![a] = "completed"]
        /\ task' = [task EXCEPT ![a[1]] = "completed"]
        /\ launch' = [launch EXCEPT ![a] = IF @ = "attention" THEN "started" ELSE @]
     \/ UNCHANGED <<dispatch, task, launch>>
  /\ NotMemory
  /\ UNCHANGED <<runVars, evidence, integration, latest, phase, setups, cancelVars,
                 workerVars, hostVars, failing>>

(* orchestration_complete with a failure: fail_orchestration_dispatch ...  *)
WorkerFails(a) ==
  /\ WorkerCalls(a) /\ dispatch[a] = "dispatched"
  /\ dispatch' = [dispatch EXCEPT ![a] = "failed"]
  /\ task' = [task EXCEPT ![a[1]] = "pending"]
  /\ failing' = a
  /\ NotMemory
  /\ UNCHANGED <<runVars, evidence, integration, latest, phase, launch, setups,
                 cancelVars, workerVars, hostVars, checks>>

(* ... and, later in the same command, the session is terminated and the   *)
(* launch settled.                                                         *)
SettleFailed ==
  /\ failing # NoAttempt
  /\ Terminate(failing)
  /\ failing' = NoAttempt
  /\ NotMemory
  /\ UNCHANGED <<runVars, evidence, integration, latest, setups, cancelVars,
                 proc, spawned, hostVars, checks>>

SettleOnly == /\ NotMemory
              /\ UNCHANGED <<runVars, evidence, integration, latest, setups, cancelVars,
                             proc, spawned, hostVars, checks, failing>>

(* handle_workflow_launch_acceptance_timeout: the launch is settled        *)
(* whether the session was removed or not.                                 *)
AcceptanceTimeout(a) ==
  /\ ActorFree /\ launch[a] = "started" /\ dispatch[a] = "awaiting"
  /\ RemoveSession(a) \/ DeferRemoval(a)
  /\ SettleWithoutSession(a)
  /\ SettleOnly

(* stall_expired_orchestration_dispatches: the lease ran out.              *)
Stall(a) ==
  /\ ActorFree /\ dispatch[a] = "dispatched"
  /\ dispatch' = [dispatch EXCEPT ![a] = "stalled"]
  /\ task' = [task EXCEPT ![a[1]] = "stalled"]
  /\ NotMemory
  /\ UNCHANGED <<runVars, evidence, integration, latest, phase, launch, setups,
                 cancelVars, workerVars, hostVars, checks, failing>>

(* Mutant of Failover: settles without terminating.                        *)
FailoverKeepsSession(a) ==
  /\ ActorFree /\ task[a[1]] = "stalled" /\ dispatch[a] = "stalled"
  /\ SettleWithoutSession(a)
  /\ SettleOnly /\ UNCHANGED session

(* failover_stalled_dispatch: the auto-failover policy, or a person's      *)
(* "kill and failover" on the stall gate.                                  *)
Failover(a) ==
  /\ ActorFree /\ task[a[1]] = "stalled" /\ dispatch[a] = "stalled"
  /\ RemoveSession(a) \/ DeferRemoval(a)
  /\ SettleWithoutSession(a)
  /\ SettleOnly

(* The tasks cancel_orchestration_task reaches from t: t, and every        *)
(* waiting task that depends on a cancelled one.                           *)
Waiting(t) == task[t] \in {"pending", "stalled"}
CancelledWith(t) ==
  CHOOSE S \in SUBSET Tasks :
    /\ t \in S
    /\ \A u \in Tasks \ S : Waiting(u) => Deps[u] \cap S = {}
    /\ \A R \in SUBSET Tasks :
         t \in R /\ (\A u \in Tasks \ R : Waiting(u) => Deps[u] \cap R = {}) => S \subseteq R

(* A person's "abort stage" on the stall gate: the worker keeps running.   *)
AbortStage(t) ==
  /\ ActorFree /\ task[t] = "stalled"
  /\ LET S == CancelledWith(t) IN
       /\ task' = [u \in Tasks |-> IF u \in S THEN "cancelled" ELSE task[u]]
       /\ dispatch' = [a \in Attempts |->
            IF a[1] \in S /\ dispatch[a] \in ActiveDispatch THEN "cancelled" ELSE dispatch[a]]
  /\ NotMemory
  /\ UNCHANGED <<runVars, evidence, integration, latest, phase, launch, setups,
                 cancelVars, workerVars, hostVars, checks, failing>>

-----------------------------------------------------------------------------
(* The end of a worker.                                                    *)

(* A worker process ends, by itself or because it was killed.              *)
ProcessDies(a) ==
  /\ proc[a]
  /\ proc' = [proc EXCEPT ![a] = FALSE]
  /\ UNCHANGED <<runVars, taskVars, attemptVars, cancelVars, session, spawned,
                 memoryVars, hostVars>>

(* handle_session_exit: the PTY reported the end of the process.           *)
SessionExits(a) ==
  /\ ActorFree /\ session[a] \in Live /\ ~proc[a]
  /\ SettleWithoutSession(a)
  /\ session' = [session EXCEPT ![a] = "exited"]
  /\ SettleOnly

(* The history of a closing session became durable: it is terminated now.  *)
FinishClosing(a) ==
  /\ ActorFree /\ session[a] = "closing"
  /\ session' = [session EXCEPT ![a] = "none"]
  /\ SettleWithoutSession(a)
  /\ SettleOnly
=============================================================================
