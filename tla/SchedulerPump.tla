----------------------------- MODULE SchedulerPump -----------------------------
(***************************************************************************)
(* The two lanes that drive the isolated Runs of a host without a polling  *)
(* loop (run_scheduler_pump.rs, run_cancellation_requests.rs): the pass    *)
(* over the running Runs, a page at a time, and the pass over the pending  *)
(* cancellation targets.  A lane runs off the host actor; the actor starts *)
(* it, coalesces the wakes that arrive meanwhile into a dirty flag, and    *)
(* settles its result.  The board revision, bumped by a trigger with every *)
(* durable change, tells the actor whether there is anything to wake for.  *)
(*                                                                         *)
(* A Run is the number of steps it can still take; what a step does is the *)
(* subject of RunScheduler, whose fairness this module justifies.          *)
(***************************************************************************)
EXTENDS Integers, FiniteSets

CONSTANTS
  NumRuns,      \* the isolated Runs of the host, ordered by id
  PageSize,     \* LIMIT 25 of both pages
  MaxWork,      \* bound: steps a Run can need at once
  MaxTargets,   \* bound: pending cancellation targets
  MaxChanges,   \* bound: changes from outside the lanes
  MaxErrors     \* bound: failures of the store

ASSUME PumpAssumption == /\ NumRuns \in Nat /\ PageSize \in Nat \ {0}
                         /\ MaxWork \in Nat /\ MaxTargets \in Nat
                         /\ MaxChanges \in Nat /\ MaxErrors \in Nat

Runs == 1..NumRuns

(* The cursor before the first run: Option<String>::None.                  *)
Start == 0

VARIABLES
  work,      \* work[r]: the steps workflow_execution_step would answer
  running,   \* the runs with status running
  targets,   \* number of pending runCancellationTargets rows
  changed,   \* the board revision is above the last one taken
  job,       \* a retry job runs off the actor
  pump,      \* ExecutionPump: ready, busy, dirty, cursor, cancelling, ...
  pass,      \* the execution pass in flight, and whether the last one failed
  stale,     \* runs whose state changed since the pass read its page
  sweep,     \* the cancellation pass in flight
  changes,   \* number of outside changes so far
  errors     \* number of store errors so far

vars == <<work, running, targets, changed, job, pump, pass, stale, sweep, changes, errors>>

NoPass == [pc |-> "none", from |-> Start, page |-> {}, full |-> FALSE, last |-> Start,
           cursor |-> Start, again |-> FALSE, failed |-> FALSE]
NoSweep == [pc |-> "none", page |-> 0, progress |-> FALSE, failed |-> FALSE]

(* A host starts with whatever an earlier one left in the store.           *)
Init ==
  /\ work \in [Runs -> 0..MaxWork] /\ running \in SUBSET Runs
  /\ targets \in 0..MaxTargets /\ changed \in BOOLEAN
  /\ job = FALSE
  /\ pump = [ready |-> FALSE, busy |-> FALSE, dirty |-> FALSE, cursor |-> Start,
             cancelling |-> FALSE, cancellationDirty |-> FALSE]
  /\ pass = NoPass /\ stale = {} /\ sweep = NoSweep
  /\ changes = 0 /\ errors = 0

-----------------------------------------------------------------------------
(* The actor's half: a command computes the pump it leaves behind.         *)

(* wake_workflow_cancellation: start the lane, or note that it must rerun. *)
WakeCancellation(p) ==
  IF p.cancelling THEN [p EXCEPT !.cancellationDirty = TRUE]
                  ELSE [p EXCEPT !.cancelling = TRUE]

(* wake_workflow_execution: dropped until the host has recovered; it wakes *)
(* the cancellation lane too.                                              *)
Wake(p) ==
  IF ~p.ready THEN p
  ELSE LET q == WakeCancellation(p) IN
       IF q.busy THEN [q EXCEPT !.dirty = TRUE] ELSE [q EXCEPT !.busy = TRUE]

(* broadcast_orchestration_board_change.                                   *)
Broadcast(p, news) == IF news THEN Wake(p) ELSE p

(* Mutant of SettlePage: the dirty flag is spent on any page.              *)
SettlePageEagerly(p, cursor, again) ==
  LET q == [p EXCEPT !.busy = FALSE, !.cursor = cursor, !.dirty = FALSE]
  IN  [pump |-> q, wake |-> again \/ p.dirty]

(* ExecutionPump::settle_page: the dirty flag is spent only when the scan  *)
(* has come to its end.                                                    *)
SettlePage(p, cursor, again) ==
  LET q == [p EXCEPT !.busy = FALSE, !.cursor = cursor,
                     !.dirty = p.dirty /\ cursor # Start]
  IN  [pump |-> q, wake |-> again \/ (cursor = Start /\ p.dirty)]

(* The command ends with the pump p and the lanes e and s: a lane that was *)
(* woken while idle is spawned, and the pass takes the cursor.             *)
EndCommand(p, e, s) ==
  /\ IF p.busy /\ e.pc = "none"
     THEN /\ pass' = [NoPass EXCEPT !.pc = "read", !.from = p.cursor]
          /\ pump' = [p EXCEPT !.cursor = Start]
     ELSE pass' = e /\ pump' = p
  /\ sweep' = IF p.cancelling /\ s.pc = "none" THEN [NoSweep EXCEPT !.pc = "read"] ELSE s

(* What a durable change outside of the lanes makes of a run: it may have  *)
(* new steps, need none, start or stop.                                    *)
ChangeRun(r) ==
  /\ changes < MaxChanges /\ changes' = changes + 1
  /\ \E n \in 0..MaxWork : work' = [work EXCEPT ![r] = n]
  /\ \E on \in BOOLEAN : running' = IF on THEN running \cup {r} ELSE running \ {r}
  /\ stale' = stale \cup {r}
  /\ UNCHANGED <<targets, errors>>

(* A command of the actor: a worker's result, an exit, a person's decision.*)
ActorChanges(r) ==
  /\ ChangeRun(r)
  /\ EndCommand(Broadcast(pump, TRUE), pass, sweep)
  /\ changed' = FALSE /\ UNCHANGED job

(* A retry: a job off the actor that writes, and answers when it is done.  *)
JobStarts ==
  /\ ~job /\ changes < MaxChanges /\ job' = TRUE
  /\ UNCHANGED <<work, running, targets, changed, pump, pass, stale, sweep, changes, errors>>

JobWrites(r) ==
  /\ job /\ ChangeRun(r)
  /\ changed' = TRUE
  /\ UNCHANGED <<job, pump, pass, sweep>>

(* handle_workflow_workspace_finished.                                     *)
JobFinishes ==
  /\ job /\ job' = FALSE
  /\ EndCommand(Broadcast(pump, changed), pass, sweep)
  /\ changed' = FALSE
  /\ UNCHANGED <<work, running, targets, stale, changes, errors>>

(* A cancelled run: its control command wakes both lanes and announces.    *)
CancelRun(r, n) ==
  /\ changes < MaxChanges /\ changes' = changes + 1
  /\ r \in running /\ running' = running \ {r} /\ stale' = stale \cup {r}
  /\ targets + n <= MaxTargets /\ targets' = targets + n
  /\ EndCommand(Broadcast(WakeCancellation(Wake(pump)), TRUE), pass, sweep)
  /\ changed' = FALSE
  /\ UNCHANGED <<work, job, errors>>

(* Mutant of RecoveryFinished: readiness alone, without a wake.            *)
RecoveryOnlyReady ==
  /\ ~pump.ready
  /\ EndCommand(Broadcast([pump EXCEPT !.ready = TRUE], changed), pass, sweep)
  /\ changed' = FALSE
  /\ UNCHANGED <<work, running, targets, job, stale, changes, errors>>

(* handle_workflow_workspace_recovery_finished.                            *)
RecoveryFinished ==
  /\ ~pump.ready
  /\ EndCommand(Broadcast(Wake([pump EXCEPT !.ready = TRUE]), changed), pass, sweep)
  /\ changed' = FALSE
  /\ UNCHANGED <<work, running, targets, job, stale, changes, errors>>

-----------------------------------------------------------------------------
(* The execution pass, off the actor.                                      *)

Actionable(r) == r \in running /\ work[r] > 0

PassOnly == UNCHANGED <<targets, job, pump, sweep, changes>>

(* workflow_execution_page: the next running runs after the cursor.        *)
ReadPage ==
  /\ pass.pc = "read"
  /\ LET listed == {r \in running : r > pass.from} IN
     \E page \in SUBSET listed, last \in Runs \cup {Start} :
       /\ Cardinality(page) <= PageSize
       /\ page # listed => Cardinality(page) = PageSize
       /\ \A x \in page, y \in listed \ page : x < y
       /\ IF page = {} THEN last = Start ELSE last \in page /\ \A x \in page : x <= last
       /\ pass' = [pass EXCEPT !.pc = "scan", !.page = page, !.last = last,
                               !.full = (Cardinality(page) = PageSize)]
  /\ stale' = {}
  /\ PassOnly /\ UNCHANGED <<work, running, changed, errors>>

(* The first run of the page that is left.                                 *)
Head(r) == pass.pc = "scan" /\ r \in pass.page /\ \A q \in pass.page : r <= q

PassDone(cursor, again) ==
  pass' = [pass EXCEPT !.pc = "done", !.cursor = cursor, !.again = again]

(* Waiting: the next run of the page.                                      *)
PassSkips(r) ==
  /\ Head(r) /\ ~Actionable(r)
  /\ pass' = [pass EXCEPT !.page = @ \ {r}]
  /\ PassOnly /\ UNCHANGED <<work, running, changed, stale, errors>>

(* Mutant of PassSteps: a waiting run is stepped too.                      *)
PassStepsAnyway(r) ==
  /\ Head(r)
  /\ \/ work' = [work EXCEPT ![r] = @ - 1] /\ UNCHANGED running
     \/ running' = running \ {r} /\ UNCHANGED work
  /\ changed' = TRUE
  /\ PassDone(r, TRUE)
  /\ PassOnly /\ UNCHANGED <<stale, errors>>

(* A step is executed, a gate opened, or the run paused or completed: a    *)
(* durable change, after which the pass answers with this run as cursor.   *)
PassSteps(r) ==
  /\ Head(r) /\ Actionable(r)
  /\ \/ work' = [work EXCEPT ![r] = @ - 1] /\ UNCHANGED running
     \/ running' = running \ {r} /\ UNCHANGED work
  /\ changed' = TRUE
  /\ PassDone(r, TRUE)
  /\ PassOnly /\ UNCHANGED <<stale, errors>>

(* execute drops a step whose run changed since the page was read.         *)
PassDrops(r) ==
  /\ Head(r) /\ r \in stale
  /\ PassDone(r, TRUE)
  /\ PassOnly /\ UNCHANGED <<work, running, changed, stale, errors>>

(* Mutant of PassEnds: another page is always asked for.                   *)
PassAlwaysAgain ==
  /\ pass.pc = "scan" /\ pass.page = {}
  /\ PassDone(IF pass.full THEN pass.last ELSE Start, TRUE)
  /\ PassOnly /\ UNCHANGED <<work, running, changed, stale, errors>>

(* Every run of the page waits: a full page may have a successor.          *)
PassEnds ==
  /\ pass.pc = "scan" /\ pass.page = {}
  /\ PassDone(IF pass.full THEN pass.last ELSE Start, pass.full)
  /\ PassOnly /\ UNCHANGED <<work, running, changed, stale, errors>>

(* The store fails: the pass is over and starts from the beginning later.  *)
PassFails ==
  /\ pass.pc \in {"read", "scan"} /\ errors < MaxErrors /\ errors' = errors + 1
  /\ pass' = [pass EXCEPT !.pc = "done", !.cursor = Start, !.again = FALSE, !.failed = TRUE]
  /\ PassOnly /\ UNCHANGED <<work, running, changed, stale>>

(* finish_workflow_execution_pass: settle the page, announce what the pass *)
(* changed, and wake again.                                                *)
FinishPass ==
  /\ pass.pc = "done"
  /\ LET settled == SettlePage(pump, pass.cursor, pass.again)
         told == Broadcast(settled.pump, changed)
     IN  EndCommand(IF settled.wake THEN Wake(told) ELSE told,
                    [NoPass EXCEPT !.failed = pass.failed], sweep)
  /\ changed' = FALSE
  /\ UNCHANGED <<work, running, targets, job, stale, changes, errors>>

-----------------------------------------------------------------------------
(* The cancellation pass, off the actor and beside the execution pass.     *)

SweepOnly == UNCHANGED <<work, running, job, pump, pass, stale, changes>>

(* workflow_cancellation_page.                                             *)
SweepReads ==
  /\ sweep.pc = "read"
  /\ LET page == IF targets < PageSize THEN targets ELSE PageSize IN
       sweep' = [sweep EXCEPT !.pc = "settle", !.page = page, !.progress = (page > 0)]
  /\ SweepOnly /\ UNCHANGED <<targets, changed, errors>>

(* settle_run: the next target of the page is settled or needs attention.  *)
SweepSettles ==
  /\ sweep.pc = "settle" /\ sweep.page > 0
  /\ sweep' = [sweep EXCEPT !.page = @ - 1]
  /\ targets' = targets - 1
  /\ changed' = TRUE
  /\ SweepOnly /\ UNCHANGED errors

(* The settlement could not be recorded: the target stays pending.         *)
SweepCannotSettle ==
  /\ sweep.pc = "settle" /\ sweep.page > 0
  /\ errors < MaxErrors /\ errors' = errors + 1
  /\ sweep' = [sweep EXCEPT !.page = @ - 1, !.failed = TRUE]
  /\ SweepOnly /\ UNCHANGED <<targets, changed>>

(* The page itself could not be read, or the inspection after it failed.   *)
SweepFails ==
  /\ sweep.pc \in {"read", "settle"} /\ sweep.page = 0
  /\ errors < MaxErrors /\ errors' = errors + 1
  /\ sweep' = [sweep EXCEPT !.pc = "done", !.failed = TRUE]
  /\ SweepOnly /\ UNCHANGED <<targets, changed>>

SweepEnds ==
  /\ sweep.pc = "settle" /\ sweep.page = 0
  /\ sweep' = [sweep EXCEPT !.pc = "done"]
  /\ SweepOnly /\ UNCHANGED <<targets, changed, errors>>

(* Mutant of FinishSweep: a wake that came meanwhile is forgotten.         *)
FinishSweepForgetsDirty ==
  /\ sweep.pc = "done"
  /\ LET over == [pump EXCEPT !.cancelling = FALSE, !.cancellationDirty = FALSE]
         told == Broadcast(over, changed)
     IN  EndCommand(IF sweep.failed \/ sweep.progress THEN WakeCancellation(told) ELSE told,
                    pass, NoSweep)
  /\ changed' = FALSE
  /\ UNCHANGED <<work, running, targets, job, stale, changes, errors>>

(* finish_workflow_cancellation: progress, a wake that came meanwhile or a *)
(* failure (after two seconds) start the lane again.                       *)
FinishSweep ==
  /\ sweep.pc = "done"
  /\ LET over == [pump EXCEPT !.cancelling = FALSE,
                              !.cancellationDirty = @ /\ sweep.failed]
         told == Broadcast(over, changed)
     IN  EndCommand(IF sweep.failed \/ sweep.progress \/ pump.cancellationDirty
                    THEN WakeCancellation(told) ELSE told, pass, NoSweep)
  /\ changed' = FALSE
  /\ UNCHANGED <<work, running, targets, job, stale, changes, errors>>

-----------------------------------------------------------------------------
Outside == \/ \E r \in Runs : ActorChanges(r) \/ JobWrites(r)
           \/ \E r \in Runs, n \in 0..MaxTargets : CancelRun(r, n)
           \/ JobStarts

PassStep == \/ ReadPage \/ PassEnds \/ PassFails
            \/ \E r \in Runs : PassSkips(r) \/ PassSteps(r) \/ PassDrops(r)

SweepStep == SweepReads \/ SweepSettles \/ SweepCannotSettle \/ SweepFails \/ SweepEnds

Next == \/ Outside \/ JobFinishes \/ RecoveryFinished
        \/ PassStep \/ FinishPass \/ SweepStep \/ FinishSweep

Spec == Init /\ [][Next]_vars

(* Spawned jobs run to their end and the actor empties its inbox.          *)
Fairness == /\ WF_vars(JobFinishes) /\ WF_vars(RecoveryFinished)
            /\ WF_vars(PassStep) /\ WF_vars(FinishPass)
            /\ WF_vars(SweepStep) /\ WF_vars(FinishSweep)

FairSpec == Spec /\ Fairness

-----------------------------------------------------------------------------
(* What the pump promises.                                                 *)

Cursors    == Runs \cup {Start}
PumpState  == [ready : BOOLEAN, busy : BOOLEAN, dirty : BOOLEAN, cursor : Cursors,
               cancelling : BOOLEAN, cancellationDirty : BOOLEAN]
PassState  == [pc : {"none", "read", "scan", "done"}, from : Cursors, page : SUBSET Runs,
               full : BOOLEAN, last : Cursors, cursor : Cursors, again : BOOLEAN,
               failed : BOOLEAN]
SweepState == [pc : {"none", "read", "settle", "done"}, page : 0..PageSize,
               progress : BOOLEAN, failed : BOOLEAN]

(* The type invariant of the pump and its lanes.                           *)
TypeOK ==
  /\ work \in [Runs -> 0..MaxWork] /\ running \subseteq Runs
  /\ targets \in 0..MaxTargets
  /\ changed \in BOOLEAN /\ job \in BOOLEAN
  /\ pump \in PumpState /\ pass \in PassState /\ sweep \in SweepState
  /\ stale \subseteq Runs
  /\ changes \in Nat /\ errors \in Nat

(* No wake is lost: a recovered host whose execution lane is idle, with no *)
(* unannounced change, has no run left that could take a step (unless the  *)
(* store failed under the last pass).                                      *)
NoLostWakeup ==
  pump.ready /\ ~pump.busy /\ ~changed /\ ~pass.failed
    => \A r \in Runs : ~Actionable(r)

(* A pending cancellation target always has a cancellation pass coming.    *)
NoLostCancellation == pump.ready /\ targets > 0 => pump.cancelling

(* A run that can take a step takes it, also behind pages of waiting runs, *)
(* unless the store fails.                                                 *)
StepsAreTaken ==
  \A r \in Runs : Actionable(r) ~> ~Actionable(r) \/ pass.failed

(* Waiting does not create a polling loop: without further changes both    *)
(* lanes come to rest.                                                     *)
LanesComeToRest == <>[](~pump.busy /\ ~pump.cancelling)
=============================================================================
