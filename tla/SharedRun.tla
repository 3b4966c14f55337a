------------------------------- MODULE SharedRun -------------------------------
(***************************************************************************)
(* A shared run: workers in the terminals of one checkout, tasks with      *)
(* dependencies, the coordinator tick that dispatches them and the lease   *)
(* sweep that notices silent workers (coordinator_tick.rs,                 *)
(* coordinator_dispatch.rs, coordinator_stall_policy.rs,                   *)
(* orchestration_lease_sweep.rs and the orchestration_*_store.rs files     *)
(* under them).                                                            *)
(*                                                                         *)
(* All of this runs on the host actor, one command at a time: `actor' is   *)
(* the command in progress, and every transaction of a tick or a sweep is  *)
(* a step of its own because the host can die between two of them.         *)
(***************************************************************************)
EXTENDS Integers, Sequences, FiniteSets

CONSTANTS
  CircuitBreaker,  \* ORCHESTRATION_CIRCUIT_BREAKER_THRESHOLD
  StartupLimit,    \* startup failures that stall a task
  Configs          \* the runs and the environments that are considered

Bounds == {"dispatches", "silences", "gates", "commands", "exits", "crashes"}

ASSUME LimitAssumption == CircuitBreaker \in Nat \ {0} /\ StartupLimit \in Nat \ {0}
ASSUME ConfigAssumption ==
  \A c \in Configs : /\ IsFiniteSet(c.tasks)
                     /\ c.deps \in [c.tasks -> SUBSET c.tasks]
                     /\ c.policy \in {"ask", "auto-failover", "wait"}
                     /\ c.limit \in Nat \ {0}
                     /\ c.bound \in [Bounds -> Nat]

VARIABLES
  conf,      \* the configuration in effect, fixed from the start
  run,       \* orchestrationCoordinatorRuns.status
  sequence,  \* .control_sequence
  loop,      \* the host ticks for this run
  status,    \* orchestrationTasks.status ("none": not delegated yet)
  startups,  \* .startup_failure_count
  fails,     \* MAX(failure_count) over the task's dispatches
  disp,      \* orchestrationDispatchContexts of the task, oldest first
  gates,     \* task gates of runGates, oldest first
  inbox,     \* unread messages to the coordinator that the tick acts on
  term,      \* "gone", "idle" (takes a prompt) or "busy"
  work,      \* the dispatch whose context the terminal holds
  actor,     \* the command in progress
  silences,  \* history: lease expiries of the task
  commands, exits, crashes

(* The run's plan, its settings and the terminals it has.                  *)
Tasks == conf.tasks           \* every task that may be delegated
Deps == conf.deps             \* Deps[t]: the tasks that t depends on
Terms == conf.terms           \* worker terminals
StallPolicy == conf.policy
MaxConcurrent == conf.limit   \* orchestrationCoordinatorRuns.max_concurrent

(* Bounds: dispatches of a task, expiries of its leases, its decision      *)
(* gates, commands of a person, terminals that exit, host crashes.         *)
MaxDispatches == conf.bound["dispatches"]
MaxSilences == conf.bound["silences"]
MaxGates == conf.bound["gates"]
MaxCommands == conf.bound["commands"]
MaxExits == conf.bound["exits"]
MaxCrashes == conf.bound["crashes"]

taskVars == <<status, startups, fails, disp, gates>>
runVars  == <<run, sequence, loop>>
termVars == <<term, work>>
histVars == <<silences, commands, exits, crashes, conf>>
vars == <<taskVars, runVars, inbox, termVars, actor, histVars>>

(* Statuses that end a task; the others are "pending", "ready",            *)
(* "dispatched", "blocked" and "stalled".                                  *)
Final == {"completed", "failed", "cancelled"}
(* Statuses of an open dispatch; it closes as "completed", "failed",       *)
(* "startup_failed" or "cancelled".                                        *)
Active == {"awaiting", "dispatched", "stalled"}
Decisions == {"killAndFailover", "keepWaiting", "abortStage"}
NoJob == <<>>

Init ==
  /\ conf \in Configs
  /\ run = "running" /\ sequence = 0 /\ loop = TRUE
  /\ status = [t \in Tasks |-> "none"]
  /\ startups = [t \in Tasks |-> 0] /\ fails = [t \in Tasks |-> 0]
  /\ disp = [t \in Tasks |-> <<>>] /\ gates = [t \in Tasks |-> <<>>]
  /\ inbox = {}
  /\ term = [h \in Terms |-> "idle"] /\ work = [h \in Terms |-> NoJob]
  /\ actor = [pc |-> "idle", todo |-> {}, slots |-> 0, free |-> {}]
  /\ silences = [t \in Tasks |-> 0] /\ commands = 0
  /\ exits = 0 /\ crashes = 0

-----------------------------------------------------------------------------
(* Reads.                                                                  *)

ActiveAt(t) == {i \in DOMAIN disp[t] : disp[t][i].st \in Active}
HasActive(t) == ActiveAt(t) # {}

(* active_orchestration_dispatch_for_handle, as <<task, number>>.          *)
JobsOf(h) == {j \in Tasks \X (1..MaxDispatches) :
                j[2] \in ActiveAt(j[1]) /\ disp[j[1]][j[2]].h = h}
DispatchOf(j) == disp[j[1]][j[2]]

PendingGate(t, kind) == \E i \in DOMAIN gates[t] :
                          gates[t][i].st = "pending" /\ gates[t][i].kind = kind

Occupied == Cardinality({t \in Tasks : status[t] \in {"dispatched", "stalled"}})

(* The tasks of `among' that depend on t, directly or through each other.  *)
Reached(t, among) ==
  {u \in among : \A S \in SUBSET among :
     (\A v \in among : (t \in Deps[v] \/ Deps[v] \cap S # {}) => v \in S) => u \in S}

(* status_for_deps                                                         *)
StatusForDeps(t) ==
  IF \E d \in Deps[t] : status[d] = "failed" THEN "failed"
  ELSE IF \E d \in Deps[t] : status[d] = "cancelled" THEN "cancelled"
  ELSE IF \A d \in Deps[t] : status[d] = "completed" THEN "ready"
  ELSE "pending"

-----------------------------------------------------------------------------
(* Transactions of the store, as the next value of a variable.             *)

CloseAll(S, st) ==
  [t \in Tasks |-> [i \in DOMAIN disp[t] |->
     IF t \in S /\ disp[t][i].st \in Active THEN [disp[t][i] EXCEPT !.st = st] ELSE disp[t][i]]]

SetDispatch(j, st) == disp' = [disp EXCEPT ![j[1]][j[2]].st = st]

CloseGates(S, st) ==
  [t \in Tasks |-> [i \in DOMAIN gates[t] |->
     IF t \in S /\ gates[t][i].st = "pending" THEN [gates[t][i] EXCEPT !.st = st] ELSE gates[t][i]]]

NewGate(kind, t) == [kind |-> kind, st |-> "pending", answer |-> "none", about |-> silences[t]]

(* Mutant of Settled: dependants of a failed task keep waiting.            *)
SettledAlone(t, st) ==
  [u \in Tasks |->
     IF u = t THEN st
     ELSE IF /\ st = "completed" /\ status[u] = "pending" /\ t \in Deps[u]
             /\ \A d \in Deps[u] \ {t} : status[d] = "completed"
       THEN "ready" ELSE status[u]]

(* A task is completed or failed, and refresh_pending_dependents_after_    *)
(* task_status promotes or fails the tasks that waited for it.             *)
Settled(t, st) ==
  [u \in Tasks |->
     IF u = t THEN st
     ELSE IF /\ st = "completed" /\ status[u] = "pending" /\ t \in Deps[u]
             /\ \A d \in Deps[u] \ {t} : status[d] = "completed"
       THEN "ready"
     ELSE IF st = "failed" /\ u \in Reached(t, {v \in Tasks : status[v] = "pending"})
       THEN "failed"
     ELSE status[u]]

(* fail_orchestration_dispatch_with_result                                 *)
FailDispatch(j) ==
  LET t == j[1] IN
  /\ SetDispatch(j, "failed")
  /\ fails' = [fails EXCEPT ![t] = @ + 1]
  /\ status' = IF fails[t] + 1 >= CircuitBreaker THEN Settled(t, "failed")
                                                 ELSE [status EXCEPT ![t] = "ready"]

(* Mutant of FailStartups: a task below the limit keeps its status.        *)
FailStartupsKept(S) ==
  /\ startups' = [t \in Tasks |-> IF t \in S THEN startups[t] + 1 ELSE startups[t]]
  /\ status' = [t \in Tasks |-> IF t \in S /\ startups[t] + 1 >= StartupLimit THEN "stalled"
                                                                         ELSE status[t]]
  /\ disp' = CloseAll(S, "startup_failed")

(* fail_orchestration_startup, for each task of S.                         *)
FailStartups(S) ==
  /\ startups' = [t \in Tasks |-> IF t \in S THEN startups[t] + 1 ELSE startups[t]]
  /\ status' = [t \in Tasks |-> IF t \notin S THEN status[t]
                                ELSE IF startups[t] + 1 >= StartupLimit THEN "stalled"
                                ELSE "ready"]
  /\ disp' = CloseAll(S, "startup_failed")

(* Mutant of MoveTasks: the dispatches of the tasks stay open.             *)
MoveTasksOnly(S, st) ==
  /\ status' = [t \in Tasks |-> IF t \in S THEN st ELSE status[t]]
  /\ UNCHANGED disp

(* update_orchestration_task_status to a status that is not final          *)
MoveTasks(S, st) ==
  /\ status' = [t \in Tasks |-> IF t \in S THEN st ELSE status[t]]
  /\ disp' = CloseAll(S, "failed")

(* cancel_orchestration_task, for each task of S.                          *)
CancelTasks(S) ==
  LET open == {u \in Tasks : status[u] \in {"pending", "ready", "blocked", "stalled"}}
      C == S \cup UNION {Reached(t, open) : t \in S}
  IN  /\ status' = [t \in Tasks |-> IF t \in C /\ status[t] \notin Final THEN "cancelled"
                                                                        ELSE status[t]]
      /\ disp' = CloseAll(C, "cancelled")
      /\ gates' = CloseGates(C, "timeout")

(* record_orchestration_activity and resolve_stall_gate_as_resumed         *)
RecordActivity(j) ==
  LET t == j[1] IN
  IF DispatchOf(j).st # "stalled" THEN UNCHANGED taskVars
  ELSE /\ SetDispatch(j, "dispatched")
       /\ status' = [status EXCEPT ![t] = IF @ = "stalled" THEN "dispatched" ELSE @]
       /\ gates' = [gates EXCEPT ![t] = [i \in DOMAIN @ |->
                      IF @[i].kind = "stall" /\ @[i].st = "pending"
                      THEN [@[i] EXCEPT !.st = "resolved", !.answer = "resumed"] ELSE @[i]]]
       /\ UNCHANGED <<startups, fails>>

(* create_scoped_orchestration_dispatch                                    *)
Dispatchable(t, h) ==
  /\ status[t] = "ready" /\ JobsOf(h) = {} /\ Len(disp[t]) < MaxDispatches

Dispatched(t, h) ==
  /\ status' = [status EXCEPT ![t] = "dispatched"]
  /\ disp' = [disp EXCEPT ![t] = Append(@, [h |-> h, st |-> "awaiting"])]
  /\ work' = [work EXCEPT ![h] = <<t, Len(disp[t]) + 1>>]
  /\ term' = [term EXCEPT ![h] = "busy"]
  /\ UNCHANGED <<startups, fails, gates>>

-----------------------------------------------------------------------------
(* The actor.                                                              *)

Idle == actor.pc = "idle"
Goto(pc, todo) == actor' = [pc |-> pc, todo |-> todo, slots |-> 0, free |-> {}]
Done == Goto("idle", {})

Command == Idle /\ UNCHANGED <<actor, exits, crashes, conf>>

(* Commands of a person or of the coordinator's terminal are counted.      *)
Asked == Command /\ commands < MaxCommands /\ commands' = commands + 1
Unasked == Command /\ UNCHANGED commands

(* orchestration.taskCreate.  A dependency must exist already.             *)
Delegate(t) ==
  /\ Unasked /\ run = "running"
  /\ status[t] = "none" /\ \A d \in Deps[t] : status[d] # "none"
  /\ status' = [status EXCEPT ![t] = StatusForDeps(t)]
  /\ UNCHANGED <<startups, fails, disp, gates, runVars, inbox, termVars, silences>>

(* orchestration.dispatch: the coordinator's own dispatch, without limit.  *)
ManualDispatch(t, h) ==
  /\ Asked /\ term[h] = "idle" /\ Dispatchable(t, h) /\ Dispatched(t, h)
  /\ UNCHANGED <<runVars, inbox, silences>>

-----------------------------------------------------------------------------
(* A worker.  Its commands carry the token of the dispatch that its        *)
(* terminal's context file names, and act on the terminal's active one.    *)

Works(h) == Unasked /\ term[h] = "busy" /\ work[h] \in JobsOf(h)

(* touch_worker_dispatch, by `context': accept, renew or revive.           *)
WorkerTouches(h) ==
  /\ Works(h)
  /\ IF DispatchOf(work[h]).st = "awaiting"
     THEN SetDispatch(work[h], "dispatched") /\ UNCHANGED <<status, startups, fails, gates>>
     ELSE RecordActivity(work[h])
  /\ UNCHANGED <<runVars, inbox, termVars, silences>>

(* Output and hooks of a terminal count as activity of whatever dispatch   *)
(* is active there.                                                        *)
TerminalOutput(h) ==
  /\ Unasked /\ term[h] # "gone"
  /\ \E j \in JobsOf(h) : DispatchOf(j).st = "stalled" /\ RecordActivity(j)
  /\ UNCHANGED <<runVars, inbox, termVars, silences>>

(* orchestration.complete: touch_worker_dispatch first, so that a stall    *)
(* gate of the task is resolved as `resumed' before the task completes.    *)
TouchedGates(t, st) ==
  [gates EXCEPT ![t] = [i \in DOMAIN @ |->
     IF st = "stalled" /\ @[i].kind = "stall" /\ @[i].st = "pending"
     THEN [@[i] EXCEPT !.st = "resolved", !.answer = "resumed"] ELSE @[i]]]

WorkerCompletes(h) ==
  /\ Works(h)
  /\ LET j == work[h] IN
     /\ SetDispatch(j, "completed")
     /\ status' = Settled(j[1], "completed")
     /\ gates' = TouchedGates(j[1], DispatchOf(j).st)
  /\ term' = [term EXCEPT ![h] = "idle"]
  /\ UNCHANGED <<startups, fails, runVars, inbox, work, silences>>

(* orchestration.complete --kind failure                                   *)
WorkerFails(h) ==
  /\ Works(h) /\ FailDispatch(work[h])
  /\ gates' = TouchedGates(work[h][1], DispatchOf(work[h]).st)
  /\ term' = [term EXCEPT ![h] = "idle"] /\ work' = [work EXCEPT ![h] = NoJob]
  /\ UNCHANGED <<startups, runVars, inbox, silences>>

(* orchestration.escalate, or a message that asks for a decision gate.     *)
WorkerWrites(h, kind) ==
  /\ Works(h) /\ DispatchOf(work[h]).st = "dispatched"
  /\ inbox' = inbox \cup {[kind |-> kind, job |-> work[h]]}
  /\ UNCHANGED <<taskVars, runVars, termVars, silences>>

(* The agent ends its turn, whether or not its work is reported.           *)
TurnEnds(h) ==
  /\ Unasked /\ term[h] = "busy" /\ term' = [term EXCEPT ![h] = "idle"]
  /\ UNCHANGED <<taskVars, runVars, inbox, work, silences>>

(* A person or a delivered message starts another turn.                    *)
TurnBegins(h) ==
  /\ Unasked /\ term[h] = "idle" /\ work[h] \in JobsOf(h)
  /\ term' = [term EXCEPT ![h] = "busy"]
  /\ UNCHANGED <<taskVars, runVars, inbox, work, silences>>

(* fail_active_dispatch_for_closed_session.  A terminal that was spawned   *)
(* for its task is charged to the startup budget before acceptance.        *)
TerminalExits(h) ==
  /\ Idle /\ exits < MaxExits /\ exits' = exits + 1 /\ term[h] # "gone"
  /\ IF JobsOf(h) = {} THEN UNCHANGED taskVars
     ELSE \E j \in JobsOf(h) :
            \/ DispatchOf(j).st = "awaiting" /\ FailStartups({j[1]}) /\ UNCHANGED <<fails, gates>>
            \/ FailDispatch(j) /\ UNCHANGED <<startups, gates>>
  /\ term' = [term EXCEPT ![h] = "gone"] /\ work' = [work EXCEPT ![h] = NoJob]
  /\ UNCHANGED <<runVars, inbox, actor, silences, commands, crashes, conf>>

-----------------------------------------------------------------------------
(* The coordinator tick: messages, gate blocks, dispatch, convergence.     *)

TickOnly == UNCHANGED <<silences, commands, exits, crashes, conf, sequence>>

TickStarts ==
  /\ Idle /\ loop
  /\ IF run \in Final THEN loop' = FALSE /\ Done ELSE loop' = loop /\ Goto("messages", {})
  /\ TickOnly /\ UNCHANGED <<taskVars, run, inbox, termVars>>

(* One message.  A sender that no longer owns the active dispatch of the   *)
(* task is stale.                                                          *)
TickMessage ==
  /\ actor.pc = "messages"
  /\ \E m \in inbox :
       LET t == m.job[1]  current == m.job[2] \in ActiveAt(t) IN
       /\ inbox' = inbox \ {m}
       /\ \/ m.kind = "escalation" /\ current /\ FailDispatch(m.job) /\ UNCHANGED <<startups, gates>>
          \/ /\ m.kind = "gate" /\ current /\ status[t] \in {"ready", "dispatched"}
             /\ Len(gates[t]) < MaxGates
             /\ gates' = [gates EXCEPT ![t] = Append(@, NewGate("decision", t))]
             /\ disp' = CloseAll({t}, "completed")
             /\ status' = [status EXCEPT ![t] = "blocked"]
             /\ UNCHANGED <<startups, fails>>
          \/ /\ ~current \/ (m.kind = "gate" /\ (status[t] = "stalled" \/ Len(gates[t]) = MaxGates))
             /\ UNCHANGED taskVars
  /\ TickOnly /\ UNCHANGED <<run, loop, termVars, actor>>

(* coordinator_assert_gate_blocks: a task with a pending gate, of either   *)
(* kind, is blocked.  A stalled task keeps its status.                     *)
TickGateBlocks ==
  /\ actor.pc = "messages" /\ inbox = {}
  /\ MoveTasks({t \in Tasks : /\ status[t] \in {"pending", "ready", "dispatched"}
                              /\ PendingGate(t, "decision") \/ PendingGate(t, "stall")}, "blocked")
  /\ Goto("schedule", {})
  /\ TickOnly /\ UNCHANGED <<startups, fails, gates, run, loop, inbox, termVars>>

(* schedule_run; without an idle terminal one is created instead.          *)
FreeTerms == {h \in Terms : term[h] = "idle" /\ JobsOf(h) = {}}

(* Mutant of TickSchedule: the last slot is never used.                    *)
TickScheduleShort ==
  /\ actor.pc = "schedule"
  /\ IF run # "running" THEN Done
     ELSE LET ready == {t \in Tasks : status[t] = "ready"} IN
          IF ready = {} \/ Occupied + 1 >= MaxConcurrent \/ FreeTerms = {} THEN Goto("converge", {})
          ELSE actor' = [pc |-> "dispatch", todo |-> ready,
                         slots |-> MaxConcurrent - Occupied, free |-> FreeTerms]
  /\ TickOnly /\ UNCHANGED <<taskVars, run, loop, inbox, termVars>>

TickSchedule ==
  /\ actor.pc = "schedule"
  /\ IF run # "running" THEN Done /\ UNCHANGED term
     ELSE LET ready == {t \in Tasks : status[t] = "ready"} IN
          IF ready = {} \/ Occupied >= MaxConcurrent THEN Goto("converge", {}) /\ UNCHANGED term
          ELSE IF FreeTerms # {}
            THEN /\ actor' = [pc |-> "dispatch", todo |-> ready,
                              slots |-> MaxConcurrent - Occupied, free |-> FreeTerms]
                 /\ UNCHANGED term
          ELSE /\ Goto("converge", {})
               /\ \/ \E h \in Terms : /\ term[h] = "gone" /\ JobsOf(h) = {}
                                      /\ term' = [term EXCEPT ![h] = "idle"]
                  \/ UNCHANGED term
  /\ TickOnly /\ UNCHANGED <<taskVars, run, loop, inbox, work>>

(* The tick counts its slots and its idle terminals down; a terminal that  *)
(* could not be written to is dropped, and its slot is used again.         *)
Took(t, h, n) == actor' = [actor EXCEPT !.todo = @ \ {t}, !.free = @ \ {h}, !.slots = @ - n]

(* Mutant of TickDispatch: the free slots are not counted down.            *)
TickDispatchAll ==
  /\ actor.pc = "dispatch" /\ actor.slots > 0
  /\ \E t \in actor.todo, h \in actor.free :
       Dispatchable(t, h) /\ Dispatched(t, h) /\ Took(t, h, 0)
  /\ TickOnly /\ UNCHANGED <<run, loop, inbox>>

(* coordinator_dispatch_task: one ready task and one free terminal.        *)
TickDispatch ==
  /\ actor.pc = "dispatch" /\ actor.slots > 0
  /\ \E t \in actor.todo, h \in actor.free :
       Dispatchable(t, h) /\ Dispatched(t, h) /\ Took(t, h, 1)
  /\ TickOnly /\ UNCHANGED <<run, loop, inbox>>

(* The prompt cannot be written: the new dispatch has failed its startup.  *)
TickDispatchFails ==
  /\ actor.pc = "dispatch" /\ actor.slots > 0
  /\ \E t \in actor.todo, h \in actor.free :
       /\ Dispatchable(t, h) /\ Took(t, h, 0)
       /\ startups' = [startups EXCEPT ![t] = @ + 1]
       /\ status' = [status EXCEPT ![t] = IF startups[t] + 1 >= StartupLimit THEN "stalled" ELSE "ready"]
       /\ disp' = [disp EXCEPT ![t] = Append(@, [h |-> h, st |-> "startup_failed"])]
  /\ TickOnly /\ UNCHANGED <<fails, gates, run, loop, inbox, termVars>>

(* Nothing left to hand out, or the stale-base preflight skips the rest.   *)
TickDispatched ==
  /\ actor.pc = "dispatch" /\ Goto("converge", {})
  /\ TickOnly /\ UNCHANGED <<taskVars, run, loop, inbox, termVars>>

Created == {t \in Tasks : status[t] # "none"}
Verdict == IF \E t \in Created : status[t] = "failed" THEN "failed" ELSE "completed"

(* coordinator_check_convergence and finish_orchestration_coordinator_run. *)
TickConverge ==
  /\ actor.pc = "converge"
  /\ LET some(S) == \E t \in Created : status[t] \in S IN
     IF Created = {} THEN run' = "failed" /\ loop' = FALSE
     ELSE IF \A t \in Created : status[t] \in Final THEN run' = Verdict /\ loop' = FALSE
     ELSE IF ~some({"ready", "dispatched", "blocked", "stalled"}) THEN run' = "failed" /\ loop' = FALSE
     ELSE UNCHANGED <<run, loop>>
  /\ Done
  /\ TickOnly /\ UNCHANGED <<taskVars, inbox, termVars>>

-----------------------------------------------------------------------------
(* The lease sweep: startups, leases and policy, settlement, decisions.    *)

SweepOnly == UNCHANGED <<sequence, loop, inbox, termVars, commands, exits, crashes, conf>>

(* fail_stuck_orchestration_startups: any dispatch past its deadline whose *)
(* terminal is gone or shows no agent.                                     *)
SweepStarts ==
  /\ Idle
  /\ \E S \in SUBSET {t \in Tasks : \E i \in ActiveAt(t) : disp[t][i].st = "awaiting"} :
       FailStartups(S)
  /\ Goto("leases", {})
  /\ SweepOnly /\ UNCHANGED <<fails, gates, run, silences>>

(* stall_expired_orchestration_dispatches: any accepted dispatch may have  *)
(* been silent for the length of its lease.                                *)
SweepLeases ==
  /\ actor.pc = "leases"
  /\ \E S \in SUBSET {t \in Tasks : /\ silences[t] < MaxSilences
                                    /\ \E i \in ActiveAt(t) : disp[t][i].st = "dispatched"} :
       /\ status' = [t \in Tasks |-> IF t \in S THEN "stalled" ELSE status[t]]
       /\ disp' = [t \in Tasks |-> [i \in DOMAIN disp[t] |->
                     IF t \in S /\ disp[t][i].st = "dispatched"
                     THEN [disp[t][i] EXCEPT !.st = "stalled"] ELSE disp[t][i]]]
       /\ silences' = [t \in Tasks |-> IF t \in S THEN silences[t] + 1 ELSE silences[t]]
       /\ Goto("policy", S)
  /\ SweepOnly /\ UNCHANGED <<startups, fails, gates, run>>

(* failover_stalled_dispatch: interrupt, then back to ready.               *)
Failover(t) ==
  IF \E i \in ActiveAt(t) : disp[t][i].st = "stalled"
  THEN MoveTasks({t}, "ready") ELSE UNCHANGED <<status, disp>>

(* Mutant of SweepPolicy: no gate is opened.                               *)
SweepPolicyWaits ==
  /\ actor.pc = "policy"
  /\ \E t \in actor.todo :
       /\ IF StallPolicy = "auto-failover" THEN Failover(t) ELSE UNCHANGED <<status, disp>>
       /\ Goto("policy", actor.todo \ {t})
  /\ SweepOnly /\ UNCHANGED <<startups, fails, gates, run, silences>>

(* apply_stall_policy for one task that has just stalled.                  *)
SweepPolicy ==
  /\ actor.pc = "policy"
  /\ \E t \in actor.todo :
       /\ CASE StallPolicy = "wait" -> UNCHANGED <<status, disp, gates>>
            [] StallPolicy = "auto-failover" -> Failover(t) /\ UNCHANGED gates
            [] StallPolicy = "ask" ->
                 /\ gates' = IF status[t] # "stalled" \/ PendingGate(t, "decision") \/ PendingGate(t, "stall")
                             THEN gates ELSE [gates EXCEPT ![t] = Append(@, NewGate("stall", t))]
                 /\ UNCHANGED <<status, disp>>
       /\ Goto("policy", actor.todo \ {t})
  /\ SweepOnly /\ UNCHANGED <<startups, fails, run, silences>>

(* The stall gates that coordinator_process_stall_decisions reads.         *)
ResolvedStallGates ==
  {g \in Tasks \X (1..(MaxGates + MaxSilences)) :
     /\ status[g[1]] = "stalled" /\ g[2] \in DOMAIN gates[g[1]]
     /\ gates[g[1]][g[2]].kind = "stall" /\ gates[g[1]][g[2]].answer \in Decisions}

(* settle_loopless_shared_runs, then the decisions are read.               *)
SweepSettles ==
  /\ actor.pc = "policy" /\ actor.todo = {}
  /\ run' = IF /\ run = "running" /\ ~loop /\ Created # {}
               /\ \A t \in Created : status[t] \in Final
            THEN Verdict ELSE run
  /\ Goto("decisions", ResolvedStallGates)
  /\ SweepOnly /\ UNCHANGED <<taskVars, silences>>

(* One decision, the oldest of its task first.                             *)
SweepDecision ==
  /\ actor.pc = "decisions"
  /\ \E g \in actor.todo :
       LET t == g[1]  answer == gates[t][g[2]].answer IN
       /\ \A o \in actor.todo : o[1] = t => g[2] <= o[2]
       /\ CASE answer = "killAndFailover" -> Failover(t) /\ UNCHANGED gates
            [] answer = "keepWaiting" ->
                 /\ status' = [status EXCEPT ![t] = IF @ = "stalled" THEN "dispatched" ELSE @]
                 /\ disp' = [disp EXCEPT ![t] = [i \in DOMAIN @ |->
                               IF @[i].st = "stalled" THEN [@[i] EXCEPT !.st = "dispatched"] ELSE @[i]]]
                 /\ UNCHANGED gates
            [] answer = "abortStage" ->
                 IF status[t] \in Final THEN UNCHANGED <<status, disp, gates>> ELSE CancelTasks({t})
       /\ Goto("decisions", actor.todo \ {g})
  /\ SweepOnly /\ UNCHANGED <<startups, fails, run, silences>>

SweepEnds ==
  /\ actor.pc = "decisions" /\ actor.todo = {} /\ Done
  /\ SweepOnly /\ UNCHANGED <<taskVars, run, silences>>

-----------------------------------------------------------------------------
(* A person.                                                               *)

(* orchestration.gateCreate                                                *)
CreateGate(t) ==
  /\ Asked /\ status[t] \in {"ready", "dispatched"} /\ Len(gates[t]) < MaxGates
  /\ gates' = [gates EXCEPT ![t] = Append(@, NewGate("decision", t))]
  /\ disp' = CloseAll({t}, "completed")
  /\ status' = [status EXCEPT ![t] = "blocked"]
  /\ UNCHANGED <<startups, fails, runVars, inbox, termVars, silences>>

(* Mutant of ResolveGate: the task is released whatever has become of it.  *)
ResolveGateAlways(t, answer) ==
  /\ Unasked
  /\ \E i \in DOMAIN gates[t] :
       /\ gates[t][i].st = "pending"
       /\ answer \in IF gates[t][i].kind = "stall" THEN Decisions ELSE {"answer"}
       /\ gates' = [gates EXCEPT ![t][i].st = "resolved", ![t][i].answer = answer]
       /\ status' = [status EXCEPT ![t] = "ready"]
  /\ UNCHANGED <<startups, fails, disp, runVars, inbox, termVars, silences>>

(* Mutant of ResolveGate: the task of a decision gate stays blocked.       *)
ResolveGateOnly(t, answer) ==
  /\ Unasked
  /\ \E i \in DOMAIN gates[t] :
       /\ gates[t][i].st = "pending"
       /\ answer \in IF gates[t][i].kind = "stall" THEN Decisions ELSE {"answer"}
       /\ gates' = [gates EXCEPT ![t][i].st = "resolved", ![t][i].answer = answer]
  /\ UNCHANGED <<startups, fails, status, disp, runVars, inbox, termVars, silences>>

(* runs.resolveGate of a task gate.                                        *)
ResolveGate(t, answer) ==
  /\ Unasked
  /\ \E i \in DOMAIN gates[t] :
       /\ gates[t][i].st = "pending"
       /\ answer \in IF gates[t][i].kind = "stall" THEN Decisions ELSE {"answer"}
       /\ gates' = [gates EXCEPT ![t][i].st = "resolved", ![t][i].answer = answer]
       /\ status' = IF gates[t][i].kind = "decision" /\ status[t] = "blocked"
                    THEN [status EXCEPT ![t] = "ready"] ELSE status
  /\ UNCHANGED <<startups, fails, disp, runVars, inbox, termVars, silences>>

(* orchestration.taskRecover: to ready or failed.                          *)
RecoverTask(t, to) ==
  /\ Asked /\ status[t] = "stalled"
  /\ IF to = "ready" THEN MoveTasks({t}, "ready")
     ELSE status' = Settled(t, "failed") /\ disp' = CloseAll({t}, "failed")
  /\ UNCHANGED <<startups, fails, gates, runVars, inbox, termVars, silences>>

(* orchestration.taskCancel                                                *)
CancelTask(t) ==
  /\ Asked /\ status[t] \notin Final \cup {"none"}
  /\ CancelTasks({t})
  /\ UNCHANGED <<startups, fails, runVars, inbox, termVars, silences>>

(* runs.control pause and resume, with the sequence the person saw.        *)
Control(from, to) ==
  /\ Asked /\ run = from
  /\ run' = to /\ sequence' = sequence + 1
  /\ UNCHANGED <<taskVars, loop, inbox, termVars, silences>>

(* runs.control cancel, as asked by a person who saw the run at sequence   *)
(* `seen'.  The workers are interrupted first, by cancelling their tasks;  *)
(* only then is the sequence of the command checked.                       *)
Interrupted == {t \in Tasks : status[t] \in {"dispatched", "stalled"}}

CancelRunInterrupts(seen) ==
  /\ Idle /\ commands < MaxCommands /\ commands' = commands + 1
  /\ CancelTasks(Interrupted) /\ Goto("cancel", {seen})
  /\ UNCHANGED <<startups, fails, runVars, inbox, termVars, silences, exits, crashes, conf>>

CancelRun ==
  /\ actor.pc = "cancel" /\ actor.todo = {sequence} /\ run \notin Final
  /\ LET open == {t \in Tasks : status[t] \notin Final \cup {"none"}} IN
     /\ status' = [t \in Tasks |-> IF t \in open THEN "cancelled" ELSE status[t]]
     /\ disp' = CloseAll(open, "cancelled")
     /\ gates' = CloseGates(Tasks, "invalidated")
  /\ run' = "cancelled" /\ sequence' = sequence + 1 /\ loop' = FALSE /\ Done
  /\ UNCHANGED <<startups, fails, inbox, termVars, histVars>>

CancelRunRefused ==
  /\ actor.pc = "cancel" /\ (actor.todo # {sequence} \/ run \in Final)
  /\ Done
  /\ UNCHANGED <<taskVars, runVars, inbox, termVars, silences, commands, exits, crashes, conf>>

(* orchestration.runStop, with or without --cancel-active.                 *)
StopRun(cancelActive) ==
  /\ Asked /\ run \notin Final
  /\ IF cancelActive THEN CancelTasks(Interrupted) ELSE UNCHANGED <<status, disp, gates>>
  /\ run' = "cancelled" /\ loop' = FALSE
  /\ UNCHANGED <<startups, fails, sequence, inbox, termVars, silences>>

-----------------------------------------------------------------------------
(* The host dies: terminals, loops and the command in progress are lost.   *)
(* Nothing restarts the loop of a run that was started with                *)
(* orchestration.run.                                                      *)
Crash ==
  /\ crashes < MaxCrashes /\ crashes' = crashes + 1
  /\ loop' = FALSE /\ Done
  /\ term' = [h \in Terms |-> "gone"] /\ work' = [h \in Terms |-> NoJob]
  /\ UNCHANGED <<taskVars, run, sequence, inbox, silences, commands, exits, conf>>

Tick == TickStarts \/ TickMessage \/ TickGateBlocks \/ TickSchedule \/ TickDispatch
        \/ TickDispatchFails \/ TickDispatched \/ TickConverge
Sweep == SweepStarts \/ SweepLeases \/ SweepPolicy \/ SweepSettles \/ SweepDecision \/ SweepEnds

Worker(h) ==
  \/ WorkerTouches(h) \/ WorkerCompletes(h) \/ WorkerFails(h)
  \/ \E kind \in {"escalation", "gate"} : WorkerWrites(h, kind)
  \/ TerminalOutput(h) \/ TurnBegins(h) \/ TurnEnds(h) \/ TerminalExits(h)

People ==
  \/ \E t \in Tasks : Delegate(t) \/ CreateGate(t) \/ CancelTask(t)
  \/ \E t \in Tasks, h \in Terms : ManualDispatch(t, h)
  \/ \E t \in Tasks, a \in Decisions \cup {"answer"} : ResolveGate(t, a)
  \/ \E t \in Tasks, to \in {"ready", "failed"} : RecoverTask(t, to)
  \/ Control("running", "paused") \/ Control("paused", "running")
  \/ \E seen \in 0..sequence : CancelRunInterrupts(seen)
  \/ CancelRun \/ CancelRunRefused
  \/ \E b \in BOOLEAN : StopRun(b)

Next == Tick \/ Sweep \/ (\E h \in Terms : Worker(h)) \/ People \/ Crash

Spec == Init /\ [][Next]_vars

(* Timers reach the actor's inbox in turn, so that neither ticks nor sweeps *)
(* are starved; a terminal that the run asks for is eventually created and  *)
(* a task eventually dispatched to it; an agent that holds a dispatch       *)
(* eventually reports, unless its terminal exits.                           *)
FairSpec ==
  /\ Spec
  /\ SF_vars(TickStarts) /\ WF_vars(Tick /\ ~Idle)
  /\ SF_vars(SweepStarts) /\ WF_vars(Sweep /\ ~Idle)
  /\ SF_vars(TickSchedule /\ term' # term) /\ SF_vars(TickDispatch)
  /\ \A h \in UNION {c.terms : c \in Configs} :
       SF_vars(TurnBegins(h)) /\ SF_vars(WorkerCompletes(h)) /\ SF_vars(TurnEnds(h))

-----------------------------------------------------------------------------
(* Properties.                                                             *)

(* A task is worked on by at most one terminal and a terminal works on at  *)
(* most one task, and the status of the task is that of its dispatch: the  *)
(* unguarded updates of the outcome store never leave a worker whose task  *)
(* the run believes to be waiting, blocked or settled.                     *)
OneActiveDispatch ==
  /\ \A t \in Tasks : HasActive(t) =>
       /\ Cardinality(ActiveAt(t)) = 1
       /\ \A i \in ActiveAt(t) : status[t] = IF disp[t][i].st = "stalled" THEN "stalled" ELSE "dispatched"
  /\ \A h \in Terms : Cardinality(JobsOf(h)) <= 1

(* Work is only offered, handed out or held after everything it depends on *)
(* has completed, and a waiting task waits for something that can still    *)
(* complete: whichever way a dependency ends, its dependants are promoted, *)
(* failed or cancelled in the same transaction.                            *)
WaitsOnlyForOpenDependencies ==
  \A t \in Tasks :
    /\ status[t] \in {"ready", "dispatched", "blocked", "stalled", "completed"} =>
         \A d \in Deps[t] : status[d] = "completed"
    /\ status[t] = "pending" => \E d \in Deps[t] : status[d] \notin Final

(* A task believed to be running has a worker.  The exception is a task    *)
(* that stalled again, this time without one, after a person had answered  *)
(* keepWaiting to an earlier stall: the old answer sends it back to        *)
(* dispatched, where no sweep looks for a worker.                          *)
DispatchedHasWorker ==
  \A t \in Tasks : status[t] = "dispatched" =>
    HasActive(t) \/ \E i \in DOMAIN gates[t] : gates[t][i].answer = "keepWaiting"

(* A settled task is never reopened, whatever late worker, stale gate or   *)
(* sweep acts on it.                                                       *)
SettledStays == [][\A t \in Tasks : status[t] \in Final => status'[t] = status[t]]_vars

(* The coordinator tick never has more workers than max_concurrent.        *)
TickKeepsLimit ==
  [][actor.pc = "dispatch" =>
       \A t \in Tasks : status'[t] = "dispatched" /\ status[t] # "dispatched" =>
         Cardinality({u \in Tasks : status'[u] = "dispatched"}) <= MaxConcurrent]_vars

(* Every run ends, or comes to a point where it waits for a person: paused, *)
(* a blocked task, or a stall that the policy leaves to a person.           *)
WaitsForPerson ==
  \/ run = "paused"
  \/ \E t \in Tasks : \/ status[t] = "blocked"
                      \/ status[t] = "stalled" /\ (~HasActive(t) \/ StallPolicy # "auto-failover")

RunConverges == <>[](run \in Final \/ WaitsForPerson)

(* A blocked task is one that some gate blocked, and the gate is pending   *)
(* unless it is a stall gate, which a tick may take for a decision gate    *)
(* and whose resolution releases nothing.                                  *)
BlockedHasItsGate ==
  \A t \in Tasks : status[t] = "blocked" =>
    \E i \in DOMAIN gates[t] : gates[t][i].st = "pending" \/ gates[t][i].kind = "stall"

(* A stall that the policy leaves to a person is put to that person: a gate *)
(* is pending, or one was answered and the next sweep carries it out.  A    *)
(* crash between the stall and its gate is the exception: nothing selects   *)
(* the task again.                                                          *)
StallIsPutToAPerson ==
  \A t \in Tasks :
    (StallPolicy = "ask" /\ Idle /\ crashes = 0 /\ status[t] = "stalled" /\ HasActive(t)) =>
      \E i \in DOMAIN gates[t] : \/ gates[t][i].st = "pending"
                                 \/ gates[t][i].kind = "stall" /\ gates[t][i].answer \in Decisions

(* A cancel command with a stale sequence changes no task.                 *)
StaleCancelChangesNothing ==
  [][(Idle /\ actor'.pc = "cancel" /\ actor'.todo # {sequence}) => UNCHANGED status]_vars

================================================================================
