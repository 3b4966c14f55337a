# Alera Runs: a TLA+ verification project

Alera is a workbench for CLI coding agents. A Flutter desktop and mobile client
talks to a Rust runtime host (`rust/alera-cli`, terminal host) that owns the
terminals and keeps its state in SQLite (`rust/alera-core/src/runtime`). The
parts of it that act on their own, for hours and without a person watching, are
specified here:

- the **isolated Run engine**: a person accepts a plan, and the host creates one
  managed worktree per attempt, runs the project setup, starts exactly one
  worker, waits for its result, merges it and goes on to the next task;
- the **integration** of a result into the Run's branch, where Git and SQLite
  commit separately and a person may touch the checkout;
- **shared runs**: tasks handed to the terminals of one checkout by a
  coordinator tick, with leases, stalls and gates;
- **automations**: agents started by a schedule, with misfires, overlap
  policies, retries, prechecks and a circuit breaker.

Meanwhile people pause, resume, cancel, retry and take over, agents die or fall
silent, and the host may crash between any two steps.

## 1. Inventory

| Component | State it keeps | Operations | What is hard | Status |
|---|---|---|---|---|
| Isolated Run store (`run_*.rs`) | run status and sequence, tasks, evidence, integrations, attempts, launches, dispatches, cancellation targets, shutdown rows | transactions shared by all handlers | every guard is re-checked in SQL at a later time than it was first read | `RunStore` |
| Run scheduler lane (`run_scheduler_pump.rs`, `run_execution*.rs`, `managed_workspace/run*`) | the pass in flight, its page snapshot, file locks | choose a step; prepare, launch, integrate; complete, pause | runs off the actor; commands commit between its steps | `RunScheduler` |
| Workers (`orchestration_worker_requests.rs`, `orchestration_completion.rs`, `orchestration_dispatch_*`, `coordinator_stall_policy.rs`) | dispatch status, sessions, processes | accept, escalate, complete, fail, stall, failover, time out, exit | late answers, timeouts, deferred closing of terminals | `RunWorker` |
| Run control and cancellation (`run_control.rs`, `run_cancellation*.rs`, `runs_retry_requests.rs`) | targets, shutdown rows, in-memory process guards | pause, resume, cancel, retry; the cancellation driver | cancellation races with a spawn or merge in flight; guards are lost in a crash | `RunControl`, without the receipts of replayed commands and the coordinator session as a target |
| Startup recovery (`run_launch_recovery.rs`, `run/recovery.rs`, `run/integration.rs`) | none of its own | reconcile launches, integrations, workspaces | must neither repeat nor strand interrupted work | `RunEngine` |
| Scheduler pump (`run_scheduler_pump.rs`, `run_cancellation_requests.rs`, `orchestration_board_*`) | ready, busy, dirty, cursor, cancelling, cancellation_dirty; board revision | wake, page, settle, broadcast | lost wakes, wakes behind pages, spinning | `SchedulerPump` |
| Git integration (`git/run_integration*`, `run_integration_*.rs`, `managed_workspace/run/integration.rs`) | receipt reference, branch, checkout, lock; row, evidence, `integration_sha` | reserve, prepare, record, apply (checkout, move), complete, reconcile, conflict, attend, cancel, retry | Git and database commit separately; the checkout is a person's too | `RunIntegration`, implementing `IntegrationContract` |
| Shared-checkout orchestration (`coordinator_*.rs`, `orchestration_*_store.rs`, `orchestration_lease_sweep.rs`) | tasks, dispatches, gates, messages to the coordinator, terminals | create and dispatch tasks, tick, sweep, resolve gates, pause, resume, cancel | unguarded updates, several transactions in a tick, leases that expire while the worker answers | `SharedRun` |
| Stall decisions (`orchestration_stall_store.rs`, `coordinator_stall_policy.rs`) | stall gates | open, resolve, apply | a decision outlives the stall it was about | `SharedRun` (and failover in `RunWorker`) |
| Automations (`automation_*.rs` in store and host) | definition, claims, cursor, runs with attempts, owners, circuit | tick (reset, reconcile, evaluate, resume, expire), run now, cancel, take over, precheck, report | duplicate or lost occurrences, overlap, owners that outlive the host | `Automation` |
| Plans, recipes, stage gates (`run_plan*.rs`, `run_gate*.rs`, `run_lifecycle.rs`) | revisions, gates | propose, accept, resolve, replan | replanning under running work | not modelled |
| Run cleanup (`run_cleanup*.rs`) | claims, removal receipts | claim, remove, abandon | removal of work that is still owned | not modelled |
| Host inbox and mutation queue | budgets, barriers | admit, run, complete | back-pressure, self-deadlock | not modelled |
| Terminal history, output, spawn | sessions, buffers | batch, persist, deliver | back-pressure | only as seen by Runs |
| Workspaces, remote hosts, relay, cloud, push, inbox, AI assist, voice, clients | - | - | protocols or user interfaces of their own | not modelled |

How they interact: the host **actor** handles one command at a time and calls
the store; the **execution lane** and the **cancellation lane** are spawned jobs
that read and write the same store and come back to the actor through its inbox
for what touches sessions (spawn, terminate). The rows are shared state. A
database trigger bumps the board revision with every change, and that revision
is what wakes the lanes again. Workers are processes that call the actor. Shared
runs and automations have no lane of their own: the actor's periodic ticks drive
them, and only a precheck command runs beside it.

`PROJECT.json` lists the components with their files, the hazards with the lines
where they bite, and which definition models which lines.

## 2. Modules

| Module | Extends | What it is |
|---|---|---|
| `RunStore` | | the variables, the shared reads (`EligibleIn`, `Inputs`, `Spawnable`) and transactions (`SettleWithoutSession`, `Terminate`) |
| `RunScheduler` | `RunStore` | the pass and its jobs, one action per transaction or external effect |
| `RunWorker` | `RunStore` | what workers, their leases and their terminals do |
| `RunControl` | `RunStore` | what people do, and the cancellation driver |
| `RunEngine` | the three above | `Init`, crash, restart, recovery, `Next`, fairness, properties |
| `MCRunEngine` | `RunEngine` | dependency relations and symmetry for TLC |
| `RunEngineProofs` | `RunEngine` | theorems about the engine: types, spawns, cancellation, setup |
| `RunTaskProofs` | `RunEngineProofs` | theorems about tasks and their attempts: results, dependencies, limit, workers |
| `SchedulerPump` | | the two lanes' wake protocol, over any number of Runs |
| `SchedulerPumpProofs` | `SchedulerPump` | theorems about the wake protocol |
| `IntegrationContract` | | abstract: the serial log of results that a Run's dependents rely on |
| `RunIntegration` | | integration step by step over Git, SQLite, people and crashes; implements the contract |
| `RunIntegrationProofs` | `RunIntegration` | theorems about integration, the refinement included |
| `SharedRun` | | a shared run: tick, sweep, workers, gates, control, crash |
| `MCSharedRun` | `SharedRun` | the shared runs that TLC goes through |
| `SharedRunProofs` | `SharedRun` | theorems about shared runs |
| `Automation` | | one recurring automation: tick, launch, precheck, reports, people, crash and reboot |
| `MCAutomation` | `Automation` | the automations that TLC goes through |
| `AutomationProofs` | `Automation` | theorems about automations |

### The engine's state and the code

An *attempt* is a pair of task and number and stands for a `runWorkspaces` row.
`phase`, `launch`, `dispatch`, `target`, `shutdown`, `task`, `integration` are
the status columns of the rows named beside the variables in `RunStore`;
`session` and `proc` are the host's session table and the operating system's
process (a process can outlive its session, and the host). `lane` holds the
program counters of the three off-actor jobs: the scheduler pass, a retry, and
the recovery of a starting host. `seen` is the sequence the pass read with its
page, `checks` the completions whose Git verification is in flight, `failing`
the failure whose second half (closing the terminal) the actor still has to do,
`canc` and `guards` the cancellation driver. `setups` and `spawned` are history
variables that count external effects.

Atomicity follows the code: one transaction, or one external effect, is one
action. Everything the code does in separate awaits is separate: reservation,
claim, spawn and record of a launch are four actions; a worker's failure commits
before its terminal is closed; the driver captures, waits and settles in three.
Actor commands exclude each other (`ActorFree`), lane steps do not. Git, the
setup script and the PTY are external: each step that uses them has a failing
alternative.

A crash (`Crash`) may fall between any two actions: sessions, lanes, checks and
guards are lost, rows stay, and worker processes may live on. `Start`,
`ReconcileLaunch`, `RecoverIntegration`, `RecoverWorkspace` are the code's
startup; the scheduler is enabled only when they are done, as `ready` is in the
pump.

Abstractions: one Run, one accepted plan revision, no stage gates; the
integration workspace exists; *pending* and *ready* of a task are one value (no
statement of an isolated Run tells them apart); *reserved*, *creating* and
*created* of a workspace are one value (recovery resumes each the same way);
attempt preparation is worktree creation and setup; a merge and its record are
one step (`RunIntegration` opens it up). `HistoryFailures` says whether terminal history may lag or fail, which
is what makes the host skip the removal of a session.

### The pump's state and the code

`pump` is `ExecutionPump`; `pass` and `sweep` are the two jobs in flight, each
with the page it still has to go through; `changed` says that the board revision
is above the last one taken; `stale` are the runs changed since the pass read
its page (their step is dropped by `execute`). A Run is the number of steps it
can still take. An actor command computes the pump it leaves (`Wake`,
`WakeCancellation`, `Broadcast`, `SettlePage`) and `EndCommand` starts the lanes
it woke. `PassFails`, `SweepFails` and `SweepCannotSettle` are store errors. A
failing read of the board revision itself is left out, and a step of a pass always
changes a row: the launch that is replayed for ever in finding 1 changes none, and
is in `RunEngine`.

### Integration: state and code

A commit is the sequence of results and personal commits squashed onto the
source commit. `ref` is the receipt reference, `head` the branch, `tree` with
`mixed` and `edited` the checkout, `reflock` the branch's lock file; `state`,
`expected`, `recorded`, `evidence`, `sha` are rows. All jobs of a Run hold the
lock of the integration workspace, so `job` is one program counter; a lane that
finds the lock busy changes nothing. A person edits, commits on the branch and
restores the checkout; the last only while no job is in flight, which is an
assumption about people. A crash falls between any two Git or SQLite steps; one
inside the move of the branch may leave `reflock`, after which every replay ends
in Attention. A job that lives on through a graceful restart is not modelled.

`IntegrationContract` is what dependents rely on: one serial log, at most one
integration open, each entered at most once or refused, nothing added after
cancellation. `Contract` in `RunIntegration` maps `sha` to the log and row states
to phases, and `ImplementsContract` is checked with all faults present. In
`RunScheduler` an integration is one step: the contract is what makes that
step's effect on the rows right.

### Shared runs: state and code

The actor handles one command at a time; `actor` is its program counter, and
each transaction of a tick, a sweep or a cancel is a step, since the host may die
between two. `disp` are the dispatch rows of a task, `gates` its gates with
their answers, `inbox` the unread messages the tick acts on, `work` the dispatch
whose context a terminal holds, which may be obsolete. `TickMessage` ...
`TickConverge` are the stages of the tick in order, `Sweep*` those of the lease
sweep; a late worker may report at any idle moment. Slots are counted once per
tick, as in the code. A failover does not raise the failure count. The circuit
breaker and the startup limit are 3 in the code and 2 in the instances. Nothing
restarts the coordinator loop of a run after a host restart, so the live instance
has no crash. Abstracted: a task with a failed and a cancelled dependency becomes
failed, where the code takes the first of the two in the list; a dispatch by hand
goes to an idle terminal and its startup failures are left out (the code looks for
an idle terminal only when it injects the prompt); the startup failure that the
exit of a terminal charges to a pending readiness without a dispatch (a path kept
for older clients) is left out.

### Automations: state and code

Occurrences are the instants `1..Horizon`; `claimed` are the claim rows, `cursor`
the schedule cursor, `runs` the run rows with what the policies look at, `proc`
the latest agent process of each run, `jobs` the prechecks in flight, `mail` a
report under way. A tick goes through its phases one run at a time. The durations
of the code (back-off, silence, the 24-hour limit) are not measured: each is over
at any later step. Reports and requests are handled between ticks, as the actor
does. The evaluation loop does not read the definition again, a pending run of a
trashed automation is never resumed, a reset of the circuit re-activates a
definition that was blocked for another reason, and a restored definition becomes
Archived or Paused by `state_before_trash` (`before`): all four are in the model as
they are in the code.

- *History.* Every tick, and every report that completes a run, deletes ended rows
  that are 30 days old or beyond the newest hundred. `PruneRuns` marks them
  `pruned` and nothing reads them again: neither the limit of scheduled runs, nor
  the failure streak, nor the reservations.
- *Store errors.* The evaluation loop goes on after an error. `AdmitFails`: the
  occurrence has no claim and the loop takes the next. `CountFails`: a failing
  count stands for the maximum and archives the automation. `BindFails`: the run
  is admitted and stays pending. `ClaimFails`: a batch of misfires is not claimed.
  `slipped` are the occurrences left without a claim by one of these or by a crash
  before the batch; `errors` bounds them.
- *Processes.* A process is attached to the host, detached (it outlived its host
  and its identity is recorded), unrecorded (the host died after binding the
  terminal and before recording the process) or gone. `CrashInLaunch` is the crash
  between binding the terminal, spawning, recording and saving Dispatched. A run
  that times out or is cancelled ends its agent only if the terminal is the run's
  own and its history is written, so `EndOverdue` may leave the agent alive.
  `strays` are the runs that waited for a person or had ended when the host of
  their agent died: reconciliation does not look at them.

Left out: SSH owners and prechecks, one-time schedules, edits of a definition,
heartbeats of agents (they only clear the recovery state), preparation and cleanup
of workspaces; errors of the store other than those above, and the invalid
occurrence that ends the loop and blocks the definition; the purge of a trashed
automation, which is one that is never restored; the second pass over the pending
runs of a definition that leaves Active during its own evaluation, which the next
tick makes. Wider than the code: a conversation may be resumed natively more than
once per run.

In `SharedRun` and `Automation` the settings and the bounds are a record `conf`
that `Init` takes from the constant `Configs` and no step changes, so that one
run of TLC goes through several configurations.

## 3. What TLC checks

| Run | Instance | Shows |
|---|---|---|
| `engine_one` | 1 task, 2 attempts, 3 commands, 1 crash, fair | one spawn and one setup per attempt; a closed cancelled run is quiet; one worker per task; no late completion; a cancelled run does nothing new; a cancellation settles or is handed to a person; a reserved launch starts or becomes Attention; without a crash no silent hang |
| `engine_tasks` | 3 tasks, one building on another, limit 1, failing history | a worker starts only on integrated dependencies; scheduler and store count the limit alike; targets are settled only on evidence that the worker is gone |
| `engine_interrupted` | 1 task, 1 crash, fair | **violated**, finding 1 |
| `engine_still_running` | 1 task, failing history | **violated**, finding 2 |
| `pump` | 2 runs, pages of 1, 2 targets, 1 change, 1 error, fair | no lost wake, no lost cancellation; steps are taken; lanes come to rest |
| `integration` | 2 tasks (one without changes), 2 personal edits, 3 commands, 2 crashes, fair | rows and branch explain each other (`BranchIsExplained`); a person's commits stay and nothing is checked out over them; the contract is implemented; a reserved integration settles |
| `shared_safe` | a chain with failover, two tasks with limit 1, a task asked about twice | one active dispatch per task and terminal, in step with the task; waiting only for open dependencies; a dispatched task has a worker; settled stays settled; the limit of a tick; gates and stalls reach a person |
| `shared_live` | the chain with one terminal, fair, no crash | the run ends or waits for a person |
| `shared_stale_cancel` | one task, 2 commands | **violated**, finding 3 |
| `automation_safe` | a queue with retries and a crash; people beside a precheck; a bound conversation with a limit of one run and a crash; one run with three attempts and a crash; a manual run beside a scheduled one and a crash; pause and resume with pruning and a crash; three occurrences with a limit of one run, misfires, a store error and pruning | one run in flight, occurrences once and in order, safe launches, prechecks not repeated, owners keep their target, the limit on the retained history, bounded retries |
| `automation_live` | a queue of two with one attempt: once with cancellation and a crash, once with a store error; fair | every run ends; every due occurrence is claimed |
| `automation_manual_block` | one manual run | **violated**, finding 4 |

**Bounds.** One task with two attempts is enough for every conflict between an
attempt and its replacement; three control commands allow pause, retry under
pause, resume and cancel; one crash at every point covers each recovery path
once (recovery itself may crash as well, since the crash can come while
booting). Three tasks with a limit of one are the smallest case where the limit,
the dependency order, a fork and the serial integration meet. For the pump,
pages of one with two runs give first, middle and last pages. For integration, a
second crash falls into the replay of the first, and two edits let a person
commit and restore. A shared task has two or three dispatches, so that a late
worker, its replacement and an old answer meet. Two occurrences are enough for
every overlap decision, and a manual run beside one for the policies people
choose; the third attempt lets a resumed conversation be replaced, and a run
that returns to its terminal beside another one needs the manual run. A third
occurrence lets a limit of one be reached, pruned away and reached again, and lets
a claim pass over an occurrence whose admission failed. Every bound is a named constant or a field of `conf.bound`. Deadlock is
not checked where a system may come to rest; it is checked for shared runs, whose
host always has a sweep to run.

**Fairness.** `RunEngine` assumes weak fairness of the host's own steps only:
the pass, each lane's job, the removal of exited or closing sessions, the second
half of a failure, the driver, and the restart. Workers, people, processes and
crashes are never forced. That the pass and the driver are scheduled at all
rests on the wake protocol, which is why `SchedulerPump` is specified: there
fairness is only that a spawned job runs and that the actor empties its inbox,
and `StepsAreTaken` and `NoLostCancellation` are what `RunEngine` assumes.
`RunIntegration`: the job holding the lock runs on, and startup, recovery and the
pass of a running Run are taken. `SharedRun`: ticks and sweeps recur (strong
fairness, as other commands may take the actor first), a tick that can create or
use a terminal does so again and again, and a worker with a task eventually
begins, reports and ends its turn; whether it falls silent or exits first is
free. `Automation`: ticks recur and run to their end (weak); back-off, deadlines
and the exit of an agent, which a crash or another run may postpone, come in the
end (strong); an attempt that can be started is not refused for ever (strong),
since a plan that fails before the first attempt costs none and has no deadline.

**Mutants.** Every property has a mutant of the definition it depends on (a
dropped guard, a forgotten flag, a swapped order), defined beside the original
and named in `PROJECT.json`, under which TLC finds it violated.

### Findings

1. `engine_interrupted`. A worker escalates (its launch becomes `attention`
   while its dispatch stays active), then reports a failure. The failure is
   committed before the terminal is closed; a crash in between leaves launch
   `attention` with dispatch `failed`. `workflow_launch_recovery_page` does not
   select this pair, the workspace stays `ready` and the task ready, and every
   later pass finds the old launch and replays it: no worker, no pause, no error.
   The docs promise Attention for an interrupted launch. Without the crash the
   property holds (`NoHangWithoutCrash` in `engine_one`).
2. `engine_still_running`. If terminal history cannot be written,
   `terminate_sessions_because` asks for termination and skips the removal, which
   is also what would have killed the process. The acceptance timeout and the
   stall failover settle the attempt anyway, so it can be retried while the old
   worker runs. With history intact no two workers of a task run together
   (`OneWorkerPerTask` in `engine_one`) and an attempt in Attention has no session,
   and cancellation is safe in either case (`engine_tasks`); all three are proved.
3. `shared_stale_cancel`. `runs_control` interrupts the workers of a shared run
   and cancels their tasks before `control_run` compares the sequence of the
   command. A cancel from a stale screen is refused with a sequence error after
   it has done its damage: the run goes on, its tasks are cancelled.
4. `automation_manual_block`. A manual run whose agent reports `blocked` takes
   the automation out of its schedule: the handler of the report does not look
   at the trigger of the run, while the other path to the same state does, and
   the docs say that manual runs do not count.

### Exceptions that passing properties name

Where the code falls short of the plain statement, the property states its
exception and says so in its comment. Some were found by the proofs, where smaller
instances had passed; the instances now reach them.

- `DispatchedHasWorker`: a resolved stall gate is never consumed, so an old
  *keepWaiting* sends a task that stalled again, now without a worker, back to
  dispatched.
- `BlockedHasItsGate`: a stall gate left pending blocks its task at the next
  tick like a decision gate, and its resolution releases nothing.
- `StallIsPutToAPerson`: a crash between the stall and its gate leaves a stalled
  task that nobody is asked about.
- `LostPrecheckNotRepeated`: a person who ends the wait for a lost precheck
  makes a later attempt run the command again.
- `OwnersKeepTargets`: a person took the run over, or its row was pruned; the run
  waited for a person or had ended when its host died, and reconciliation passed
  over it (a timed-out run may leave its agent alive); a resumed conversation that
  stays silent is given up without looking for its process; and a run that returns
  to a terminal of its own looks at its own reservation only.
  `docs/automations-experience.md` says at line 120 that "targets stay reserved until
  process closure is proven" and that "a timed-out run can retain its reservation".
- `LaunchesAreSafe`: from the third attempt on, an agent may be started while the
  process of the attempt before, a resumed conversation that stayed silent, still
  lives outside the host. `docs/automations-experience.md` says at line 120 that "a
  live or unverified owner is never replaced merely because its transport
  disappeared"; this is the one path on which it is.
- `OccurrencesInOrder`: an occurrence whose admission fails in the store while a
  later one succeeds is never claimed; nor are the misfires of an evaluation when
  a crash or a store error comes before their batch is recorded. In the second
  case the misfires were to be dropped anyway, and only their record is lost.
- `DueOccurrencesAreClaimed`: the first case above. A failing count of the runs
  archives the automation, which then is no longer Active.
- `LimitHolds` counts retained runs that are not skipped: a superseded run that was
  launched before no longer counts, and neither does one that was pruned. An
  automation whose limit is above a hundred, or whose runs outlast the retention,
  goes on past it, although the docs say at line 96 that a recurring automation
  completes "when it reaches its maximum scheduled runs".
- `RunConverges` is checked where the host does not die: after a crash the loop of
  a shared run is started again only by a command.
- `NoHangWithoutCrash`: finding 1.

## 4. What is proved

All theorems hold for every value of the constants under the assumptions named
in the modules: any finite set of tasks with any dependency relation
(`TasksAssumption`, `DepsAssumption`), any bounds (`BoundsAssumption`,
`BoundAssumption`, `LimitAssumption`, `PumpAssumption`), any configuration whose
fields have their types (`ConfigAssumption`), with or without failing terminal
history (`HistoryAssumption`), and a value for "none" that is no other value
(`NoAttemptAssumption`, `NoneAssumption`). Every invariant and every action
property that a passing run checks is a theorem.

**Engine (`RunEngineProofs`).** The invariant is built in layers, each
inductive relative to the previous ones.

- `TypeInv`: `TypeOK`, and that a busy lane or driver holds an attempt. Gives
  `TypeCorrect`.
- `SpawnInv`: how `launch`, `dispatch`, `session`, `spawned` and the host's life
  cycle go together. The claim moves `reserved` to `starting` and is the only
  way to a spawn; what matters is that no path returns a launch to an earlier
  status, and that a lane in `mark` blocks the actor. Gives `SpawnedOnce`.
- `QuietInv`: what the cancellation driver knows. A pending target is the only
  one it works on, and a positive settlement carries that the worker is not
  running; a settled target cannot get a worker since the run is cancelled and
  the launch no longer spawnable. Gives `SettledTargetsAreStopped`,
  `ShutdownsAreProven`, `ClosedRunsAreQuiet`, also with `HistoryFailures`.
- `SetupInv`: the lock excludes lanes from each other (`LockInv`), a lane about
  to create is the first (`CreateInv`), and attempts above `latest` are
  untouched. Gives `SetupOnce`.
- `CancelledForGood` is the action property `CancelledRunDoesNothingNew`.

**Pump (`SchedulerPumpProofs`).** `IInv` is `TypeOK` with `LaneInv` (a flag is
set exactly while its job is in flight), `PassInv` (what a finished pass answers,
and that a change under a pass is known), `CoverInv` and `SweepInv`. `CoverInv`
is the argument: of every run that could take a step it says why it will be
looked at, because a change is still unannounced, the pump is dirty, the last
pass failed, or the pass in flight has the run ahead of it (after the cursor, on
the page, or behind a full page). `NoLostWakeup` alone is not inductive, since it
says nothing while a pass runs. Gives `PumpTypeCorrect`, `WakeupsAreKept`,
`CancellationsAreKept`, for any number of runs and any page size.

**Tasks (`RunTaskProofs`).** Five parts on top of the engine's four. The two
layers differ in what they talk about: the engine's is about one attempt, this one
about a task and all of its attempts.

- `TaskInv`: an open or completed dispatch is the latest attempt's, and the task
  shows it; a lane about to record a merge merges a completed task. Gives
  `CompletionsAreCurrent`.
- `AttemptInv`: every attempt before the latest one is in Attention, none exists
  beyond it, and only one that was ready has a launch.
- `DepsInv`: every launch stands on evidence, which is never withdrawn. Gives
  `LaunchesHaveDependencies`.
- `LimitInv`: as long as the Run is the one the pass read, the tasks it counted
  have not become more. Gives `PassesAreNotRefused`, with an injection from the
  attempts the store counts to the tasks the scheduler counted.
- `LiveInv`, only for `HistoryFailures = FALSE`: a running session is that of the
  latest attempt, which nobody has given up. Gives `OneWorkerWithHistory` and
  `AttentionWithHistory`; with failing history both are false, which is finding 2.

**Integration (`RunIntegrationProofs`).** `RowInv` says that a receipt is the
merge onto the reserved commit, that one row at a time holds the Run's place and
that it is based on the present `sha`; `ShaInv` that `sha` is made of the results
with evidence, each once; `JobInv` what the job knows at each point between a Git
step and the row that records it. `BranchIsExplained` is inductive only with all
three: after a crash the row alone does not say how far Git got, the receipt does.
Gives `BranchAndRowsAgree` and `PersonsWorkIsKept`. `IntegrationRefinesContract`
maps every step to one of the contract or to a stutter: only reserving, completing,
refusing and cancelling an integration are visible there.

**Shared runs (`SharedRunProofs`).** Every action is first reduced to what it does
to each task (`Move`, fourteen ways), so that what concerns one task is proved per
move and not per action. The invariant: `DispatchInv` (one open dispatch, and the
status says which), `GateInv` (when a gate can be pending), `TerminalInv` (a
terminal has one open dispatch), `DepsInv` (work starts when dependencies have
completed, a task waits only while they may), `AskInv` (a stall is put to a person
by the policy step of the sweep that saw it), `ActorInv` (the command in progress:
running tasks and the slots left stay within the limit), and
`DispatchedHasWorker`, `BlockedHasItsGate` themselves. `TerminalInv` needs the
guard of the claim, since the terminals a tick remembers as free are stale by the
time it dispatches.

**Automations (`AutomationProofs`).** Every action is reduced to what it does to
the rows it writes (`Marks`, `Holds`, `Closes`, `Retries`, `Begins`, `Checks`,
`Parks`, `Opens`, `Waits`, `Binds`), and each part of the invariant is shown for those.

- `TypeInv`: the types, and that scheduled rows are at most as many as claims.
- `RowInv`: what a row says of its agent. An agent belongs to a row with a
  terminal, a pending row has no agent in this host, and one with a terminal is
  always taken up as interrupted.
- `ActorInv`: the run about to be started is pending without a terminal, the one
  about to be launched is open with nobody's objection, and the runs that the loop
  of a tick has not reached are still pending. The last holds because a run
  supersedes older ones only, and the loop goes from old to new.
- `OverlapInv`: of a run that was let through, with a policy other than
  `ForceParallel`, the older runs have ended. `OneRunInFlight` itself is not
  inductive: a parked or retried run is not in flight, and comes back without
  asking again.
- `PrecheckInv`: a run whose precheck is in flight or lost is parked in a state
  that reconciliation and expiry pass over.
- `OccurrenceInv`: during the evaluation every claim is behind the loop, and what
  is behind the loop is claimed, to be claimed as missed, older than the last
  resume, in `slipped`, or beyond the limit. A late occurrence makes all earlier
  ones late, so a miss never follows one that the limit refused.
- `OwnerInv`: the first agent of a run that outlived its host, and that no exception
  covers, is held: its row is reserved, or it is open, not waiting, and still ahead
  of the reconciliation in progress. Meanwhile no precheck is in flight and a launch
  under way is that of a run with a terminal. It holds whatever agents report: reports are
  handled between ticks, when such a run is reserved, and a reservation is given
  back only on proof that the process is gone.

They give `AutomationTypeCorrect`, `RunsDoNotOverlap`, `OccurrencesAreInOrder`,
`LostPrechecksStayLost`, `ScheduleLimitHolds` and, with the lemma that only a
launch attaches a process, `AgentsStartSafely` and `OwnersHoldTheirTargets`.

**Only model-checked:** the liveness properties (`CancellationSettles`,
`LaunchResolves`, `NoHangWithoutCrash`, `StepsAreTaken`, `LanesComeToRest`,
`IntegrationSettles`, `RunConverges`, `EveryRunEnds`, `DueOccurrencesAreClaimed`):
fairness and `ENABLED` are out of the prover's reach. Each inductive invariant was
checked by TLC on the instances of its component's runs before it was proved.

## 5. Plan

Done: the engine and its wake protocol, integration with its refinement, shared
runs with stall decisions, automations, and a theorem for every safety property
of these. Next, in order:

1. A theorem that bounds finding 4: a manual run takes an automation out of its
   schedule only through its own report.
2. Stage gates and replanning (`run_gate_resolution.rs`, `run_lifecycle.rs`,
   `run_plan_store.rs`) above `RunStore`; Run cleanup.
3. The host's inbox budgets and mutation barrier.

## 6. Not modelled

- Plans, recipes and stage gates, and Run cleanup: large state machines of
  their own beside the engine, left for later in favour of the components that
  act without a person.
- Host inbox and mutation queue; terminal history, output delivery and spawn
  beyond what the engine sees of them.
- Workspace relocation, archive and sleep; remote hosts and the hub; relay,
  cloud and push services; inbox, pull-request watch and agent status: protocols
  of their own, whose peers or services are outside this repository or whose
  state the host only mirrors.
- Git, file and search services, AI assist, dictation and voice: input and
  output over external libraries and services, with state per request.
- The desktop and mobile clients, the bindings generated for them
  (`frb_generated.rs`) and the shared Dart packages: views over the host's
  state. Together with the services above they are most of the repository's
  lines, which is why the modelled part is a small share of them.
