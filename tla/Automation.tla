----------------------------- MODULE Automation -----------------------------
(***************************************************************************)
(* One recurring automation with its runs: the scheduler tick that prunes  *)
(* the history, resets the circuit, reconciles owners, claims due          *)
(* occurrences, resumes pending runs and expires silent ones; the launch   *)
(* of an attempt; the precheck that runs off the actor; what the agent and *)
(* people report; store errors in the admission of an occurrence; host     *)
(* crashes and machine reboots.                                            *)
(*                                                                         *)
(* The host is one actor: a tick or a request runs to its end before the   *)
(* next command is taken, and `actor' is the point it has reached.  A crash *)
(* falls between any two steps.  Occurrences are the instants 1..Horizon;   *)
(* the durations of the code (back-off, silence, grace, the 24-hour limit)  *)
(* are not measured: each is over at any later step.                        *)
(***************************************************************************)
EXTENDS Naturals, Sequences, FiniteSets, FiniteSetsExt

CONSTANT Configs   \* the definitions and the environments that are considered

Policies == {"Skip", "Queue", "RunLatestOnce", "ForceParallel"}

ASSUME ConfigAssumption ==
    \A c \in Configs :
        /\ {c.horizon, c.manual, c.crashes, c.errors, c.grace, c.maxScheduled} \subseteq Nat
        /\ {c.queueCap, c.maxAttempts, c.threshold} \subseteq Nat \ {0}
        /\ {c.precheck, c.reuse, c.prunes} \subseteq BOOLEAN
        /\ c.manualPolicies \cup {c.overlap} \subseteq Policies
        /\ c.misfire \in {"Skip", "RunLatestOnce", "Queue"}
        /\ c.requests \subseteq {"cancel", "takeOver", "wait", "extend", "pause", "trash"}
        /\ c.reports \subseteq {"waiting", "working", "Success", "Failure", "Blocked"}

VARIABLES
    conf,       \* the configuration in effect, fixed from the start
    now,        \* the last instant that has come
    state,      \* of the definition
    before,     \* state_before_trash
    circuit,    \* the circuit breaker is open
    cursor,     \* schedule_cursor_at: the instant of the last resume
    claimed,    \* occurrences with a claim row
    startedAt,  \* automations.runtimeStartedAt
    runs,       \* the run rows, by run number
    proc,       \* what became of the latest agent process of each run
    jobs,       \* runs whose precheck command is running (host memory)
    mail,       \* per run, at most one report on its way to the host
    actor,      \* the point the host has reached in the command it handles
    lost,       \* history: runs whose precheck was cut off by a crash
    slipped,    \* history: occurrences whose claim failed or was cut off
    strays,     \* history: runs that waited or had ended when the host of their agent died
    crashes,
    errors

\* The settings of the definition.
OverlapPolicy  == conf.overlap
ManualPolicies == conf.manualPolicies \* what a person may choose instead for a manual run
MisfirePolicy  == conf.misfire
Grace          == conf.grace          \* misfire grace, in instants
QueueCap       == conf.queueCap
MaxAttempts    == conf.maxAttempts
Threshold      == conf.threshold      \* failures that open the circuit
MaxScheduled   == conf.maxScheduled   \* runs before the automation is archived, 0: no limit
HasPrecheck    == conf.precheck
Reuse          == conf.reuse          \* runs return to a bound conversation, maybe a busy one

\* Bounds: occurrences that come due, runs people start by hand, host deaths,
\* store errors, whether rows get old enough to be pruned, and which requests
\* of people and reports of agents happen.
Horizon    == conf.horizon
MaxManual  == conf.manual
MaxCrashes == conf.crashes
MaxErrors  == conf.errors
Requests   == conf.requests
Reports    == conf.reports

vars == <<conf, now, state, circuit, cursor, claimed, startedAt, runs, proc, jobs,
          mail, actor, before, lost, slipped, strays, crashes, errors>>

definition == <<state, circuit>>
schedule   == <<cursor, claimed>>
memory     == <<conf, startedAt, lost, strays, crashes>>
host       == <<memory, before, slipped, errors>>

Number    == 1 .. (Horizon + MaxManual)
AnyNumber == UNION {1 .. (c.horizon + c.manual) : c \in Configs}

Skipped  == {"PrecheckSkipped", "OverlapSkipped", "QueueLimitSkipped"}
Final    == Skipped \cup {"Success", "Failure", "Blocked", "Timeout", "Cancelled"}
Failing  == {"Failure", "Timeout"}
InFlight == {"Dispatching", "Dispatched", "WaitingForUser"}

Live(n) == proc[n] \in {"attached", "detached"}

\* An agent of an earlier host: its process is recorded, or the host died while
\* it launched the agent and no process is.
Outlived == {"detached", "unrecorded"}

(***************************************************************************)
(* Reading the run table.                                                  *)
(***************************************************************************)
NewRun(trigger, at, policy, precheck) ==
    [trigger |-> trigger, at |-> at, policy |-> policy, precheck |-> precheck,
     status |-> "Pending", attempts |-> 0, begun |-> FALSE, retry |-> FALSE,
     recovery |-> "none", tab |-> FALSE, reserved |-> FALSE, taken |-> FALSE,
     cancel |-> FALSE, overdue |-> FALSE, pruned |-> FALSE]

ActiveRuns == {n \in DOMAIN runs : runs[n].status \notin Final}

Pending == {n \in DOMAIN runs : runs[n].status = "Pending"}

Reserved == {n \in DOMAIN runs : runs[n].reserved /\ ~runs[n].pruned}

Scheduled(rs) == {n \in DOMAIN rs : rs[n].trigger = "Scheduled"}

\* The scheduled runs whose row still exists.
Retained(rs) == {n \in Scheduled(rs) : ~rs[n].pruned}

\* Mutant of Executions: only a run that has ended counts.
ExecutionsEnded(rs) == Cardinality({n \in Retained(rs) : rs[n].status \in Final \ Skipped})

Executions(rs) == Cardinality({n \in Retained(rs) : rs[n].status \notin Skipped})

\* The newest Threshold scheduled runs all failed.
FailureStreak(rs) ==
    \E newest \in SUBSET Retained(rs) :
        /\ Cardinality(newest) = Threshold
        /\ \A n \in newest : rs[n].status \in Failing
        /\ \A n \in Retained(rs) \ newest : \A m \in newest : n < m

(***************************************************************************)
(* Writing it.  A final status is never replaced by another one.           *)
(***************************************************************************)
WithStatus(rs, n, status) ==
    IF rs[n].status \in Final THEN rs ELSE [rs EXCEPT ![n].status = status]

\* prune_automation_runs: ended runs are deleted when they are old, or when enough
\* newer ones have ended; `oldest' is the last run that is.
PruneRuns(rs, oldest) ==
    [n \in DOMAIN rs |->
        IF n <= oldest /\ rs[n].status \in Final THEN [rs[n] EXCEPT !.pruned = TRUE] ELSE rs[n]]

Prunable == IF conf.prunes THEN DOMAIN runs \cup {0} ELSE {0}

\* Mutant of MayRetry: only the deadline bounds the attempts.
MayRetryUntilDeadline(r) == ~r.overdue

MayRetry(r) == r.attempts < MaxAttempts /\ ~r.overdue

FailRun(rs, n) ==
    LET r == rs[n]
        recovery == IF r.recovery # "none" \/ (r.attempts > 0 /\ r.tab) THEN "other" ELSE "none"
    IN  IF r.status \in Final \/ r.taken THEN rs
        ELSE [rs EXCEPT ![n] =
                 IF MayRetry(r)
                 THEN [r EXCEPT !.status = "Pending", !.retry = TRUE, !.recovery = recovery]
                 ELSE [r EXCEPT !.status = "Failure", !.recovery = recovery]]

\* The circuit opens with the failure that completes the streak, and takes an
\* Active definition out of the schedule.
Settle(rs, n) ==
    /\ runs' = rs
    /\ LET opens == /\ rs[n].trigger = "Scheduled"
                    /\ runs[n].status \notin Final /\ rs[n].status \in Failing
                    /\ FailureStreak(rs)
       IN  /\ circuit' = (circuit \/ opens)
           /\ state' = IF opens /\ state = "Active" THEN "Blocked" ELSE state

Fail(rs, n) == Settle(FailRun(rs, n), n)

Block(rs, n) ==
    /\ runs' = WithStatus(rs, n, "Blocked")
    /\ state' = IF rs[n].trigger = "Scheduled" /\ state = "Active" THEN "Blocked" ELSE state
    /\ UNCHANGED circuit

Save(rs) == runs' = rs /\ UNCHANGED definition

(***************************************************************************)
(* The actor.                                                              *)
(***************************************************************************)
Idle == [phase |-> "idle", todo |-> {}, at |-> 0, missed |-> {}, run |-> 0,
         back |-> "idle", full |-> FALSE, spent |-> FALSE]

AtRest == actor.phase = "idle"

Return == actor' = IF actor.back = "idle" THEN Idle
                   ELSE [actor EXCEPT !.phase = actor.back, !.run = 0]

Working(phase) == actor.phase = phase /\ actor.todo # {}

Next1 == Min(actor.todo)

Done == [actor EXCEPT !.todo = @ \ {Next1}]

-----------------------------------------------------------------------------
(***************************************************************************)
(* The tick.                                                               *)
(***************************************************************************)
CircuitResets ==
    /\ circuit' = FALSE
    /\ state' = IF state = "Blocked" THEN "Active" ELSE state

HandleTick ==
    /\ AtRest
    /\ \E oldest \in Prunable :
         /\ runs' = PruneRuns(runs, oldest)
         /\ actor' = [Idle EXCEPT !.phase = "reconcile", !.full = TRUE,
                                  !.todo = ActiveRuns \cup {n \in Reserved : ~runs'[n].pruned}]
    /\ \/ UNCHANGED definition
       \/ circuit /\ state # "Trashed" /\ CircuitResets
    /\ UNCHANGED <<now, schedule, proc, jobs, mail, host>>

\* A run is left alone unless it should have an owner.
SkipsReconcile(n) ==
    LET r == runs[n]
    IN  \/ r.taken
        \/ ~r.reserved /\ r.status \in {"Pending", "WaitingForUser"}
        \/ r.status = "Dispatching" /\ ~r.begun
        \/ n \in jobs

\* Mutant of Reconcile: an agent that this host cannot reach counts as gone.
ReconcileTrusting ==
    /\ Working("reconcile")
    /\ actor' = Done
    /\ LET n == Next1
           r == runs[n]
           free == [runs EXCEPT ![n].reserved = FALSE]
       IN  \/ /\ SkipsReconcile(n)
              /\ Save(runs) /\ UNCHANGED proc
           \/ /\ ~SkipsReconcile(n)                  \* the resumed agent stays silent
              /\ r.recovery = "resuming" /\ r.status # "WaitingForUser"
              /\ proc' = [proc EXCEPT ![n] = IF @ = "attached" THEN "gone" ELSE @]
              /\ Fail([runs EXCEPT ![n].recovery = "other"], n)
           \/ /\ ~SkipsReconcile(n) /\ proc[n] = "attached"
              /\ Save(free) /\ UNCHANGED proc
           \/ /\ ~SkipsReconcile(n) /\ proc[n] \in {"unrecorded", "none"}
              /\ Save([runs EXCEPT ![n].reserved = TRUE, ![n].recovery = "other"])
              /\ UNCHANGED proc
           \/ /\ ~SkipsReconcile(n) /\ proc[n] \in {"gone", "detached"}
              /\ IF r.status \in Final THEN Save(free)
                 ELSE Fail([free EXCEPT ![n].recovery = "other"], n)
              /\ UNCHANGED proc
    /\ UNCHANGED <<now, schedule, jobs, mail, host>>

\* Mutant of Reconcile: a reservation is never given back.
ReconcileKeepingOwner ==
    /\ Working("reconcile")
    /\ actor' = Done
    /\ LET n == Next1
           r == runs[n]
           free == runs
       IN  \/ /\ SkipsReconcile(n)
              /\ Save(runs) /\ UNCHANGED proc
           \/ /\ ~SkipsReconcile(n)                  \* the resumed agent stays silent
              /\ r.recovery = "resuming" /\ r.status # "WaitingForUser"
              /\ proc' = [proc EXCEPT ![n] = IF @ = "attached" THEN "gone" ELSE @]
              /\ Fail([runs EXCEPT ![n].recovery = "other"], n)
           \/ /\ ~SkipsReconcile(n) /\ proc[n] = "attached"
              /\ Save(free) /\ UNCHANGED proc
           \/ /\ ~SkipsReconcile(n) /\ proc[n] \in Outlived \cup {"none"}
              /\ Save([runs EXCEPT ![n].reserved = TRUE, ![n].recovery = "other"])
              /\ UNCHANGED proc
           \/ /\ ~SkipsReconcile(n) /\ proc[n] = "gone"
              /\ IF r.status \in Final THEN Save(free)
                 ELSE Fail([free EXCEPT ![n].recovery = "other"], n)
              /\ UNCHANGED proc
    /\ UNCHANGED <<now, schedule, jobs, mail, host>>

Reconcile ==
    /\ Working("reconcile")
    /\ actor' = Done
    /\ LET n == Next1
           r == runs[n]
           free == [runs EXCEPT ![n].reserved = FALSE]
       IN  \/ /\ SkipsReconcile(n)
              /\ Save(runs) /\ UNCHANGED proc
           \/ /\ ~SkipsReconcile(n)                  \* the resumed agent stays silent
              /\ r.recovery = "resuming" /\ r.status # "WaitingForUser"
              /\ proc' = [proc EXCEPT ![n] = IF @ = "attached" THEN "gone" ELSE @]
              /\ Fail([runs EXCEPT ![n].recovery = "other"], n)
           \/ /\ ~SkipsReconcile(n) /\ proc[n] = "attached"
              /\ Save(free) /\ UNCHANGED proc
           \/ /\ ~SkipsReconcile(n) /\ proc[n] \in Outlived \cup {"none"}
              /\ Save([runs EXCEPT ![n].reserved = TRUE, ![n].recovery = "other"])
              /\ UNCHANGED proc
           \/ /\ ~SkipsReconcile(n) /\ proc[n] = "gone"
              /\ IF r.status \in Final THEN Save(free)
                 ELSE Fail([free EXCEPT ![n].recovery = "other"], n)
              /\ UNCHANGED proc
    /\ UNCHANGED <<now, schedule, jobs, mail, host>>

Resumable == {n \in Pending : ~runs[n].retry}

\* Mutant of ScheduleCursor: a restart begins a new schedule.
ScheduleCursorFromStart == Max(claimed \cup {0, cursor, startedAt})

\* automation_cursor: the newest claim, or the last resume when it is later.
ScheduleCursor == Max(claimed \cup {0, cursor})

\* After the owners, an Active definition is evaluated; a definition that is
\* not Active only has its pending runs resumed.
EndReconcile ==
    /\ actor.phase = "reconcile" /\ actor.todo = {}
    /\ actor' = IF ~actor.full THEN Idle
                ELSE [actor EXCEPT !.phase = CASE state = "Active"  -> "evaluate"
                                               [] state = "Trashed" -> "expire"
                                               [] OTHER             -> "resume",
                                   !.at   = IF state = "Active" THEN ScheduleCursor ELSE 0,
                                   !.todo = CASE state = "Active"  -> {}
                                              [] state = "Trashed" -> ActiveRuns
                                              [] OTHER             -> Resumable]
    /\ UNCHANGED <<now, definition, schedule, runs, proc, jobs, mail, host>>

(***************************************************************************)
(* Evaluation: the due occurrences after the cursor, one at a time.  The   *)
(* definition was read before the loop, and is not read again.             *)
(***************************************************************************)
SkipsMisfire(at) ==
    LET misfire == at < startedAt \/ now - at > Grace
    IN  CASE MisfirePolicy = "Skip"          -> misfire
          [] MisfirePolicy = "RunLatestOnce" -> misfire /\ at + 1 <= now
          [] MisfirePolicy = "Queue"         -> FALSE

LimitReached == MaxScheduled > 0 /\ Executions(runs) >= MaxScheduled

Due == actor.phase = "evaluate" /\ actor.at + 1 <= now

MissOccurrence ==
    /\ Due /\ SkipsMisfire(actor.at + 1)
    /\ actor' = [actor EXCEPT !.at = @ + 1, !.missed = @ \cup {actor.at + 1}, !.spent = TRUE]
    /\ UNCHANGED <<now, definition, schedule, runs, proc, jobs, mail, host>>

PassOver == actor' = [actor EXCEPT !.at = @ + 1, !.spent = TRUE]

Archives == state' = IF state \in {"Archived", "Trashed"} THEN state ELSE "Archived"

ReachLimit ==
    /\ Due /\ ~SkipsMisfire(actor.at + 1) /\ LimitReached
    /\ Archives /\ PassOver
    /\ UNCHANGED <<now, circuit, schedule, runs, proc, jobs, mail, host>>

\* Mutant of AdmitRun: the claim is left to the end of the evaluation.
AdmitRunBeforeClaim ==
    /\ Due /\ ~SkipsMisfire(actor.at + 1) /\ ~LimitReached
    /\ LET at == actor.at + 1
       IN  IF at \in claimed
           THEN PassOver /\ UNCHANGED <<claimed, runs>>
           ELSE /\ claimed' = claimed
                /\ runs' = Append(runs, NewRun("Scheduled", at, OverlapPolicy, HasPrecheck))
                /\ actor' = [actor EXCEPT !.phase = "start", !.run = Len(runs) + 1, !.at = at,
                                          !.back = "evaluate", !.spent = TRUE,
                                          !.missed = @ \cup {at}]
    /\ UNCHANGED <<now, definition, cursor, proc, jobs, mail, host>>

\* The claim and the run row are one transaction; an occurrence that is
\* already claimed is passed over.
AdmitRun ==
    /\ Due /\ ~SkipsMisfire(actor.at + 1) /\ ~LimitReached
    /\ LET at == actor.at + 1
       IN  IF at \in claimed
           THEN PassOver /\ UNCHANGED <<claimed, runs>>
           ELSE /\ claimed' = claimed \cup {at}
                /\ runs' = Append(runs, NewRun("Scheduled", at, OverlapPolicy, HasPrecheck))
                /\ actor' = [actor EXCEPT !.phase = "start", !.run = Len(runs) + 1, !.at = at,
                                          !.back = "evaluate", !.spent = TRUE]
    /\ UNCHANGED <<now, definition, cursor, proc, jobs, mail, host>>

(***************************************************************************)
(* Store errors in the loop.  It goes on with the next occurrence: one that *)
(* was not claimed is taken up by a later tick, unless a newer one is      *)
(* claimed first.                                                          *)
(***************************************************************************)
StoreFails == errors < MaxErrors /\ errors' = errors + 1

\* A failing count stands for the maximum.
CountFails ==
    /\ Due /\ ~SkipsMisfire(actor.at + 1) /\ MaxScheduled > 0
    /\ StoreFails /\ slipped' = slipped \cup {actor.at + 1}
    /\ Archives /\ PassOver
    /\ UNCHANGED <<now, circuit, schedule, runs, proc, jobs, mail, memory, before>>

AdmitFails ==
    /\ Due /\ ~SkipsMisfire(actor.at + 1) /\ ~LimitReached
    /\ StoreFails /\ slipped' = slipped \cup {actor.at + 1}
    /\ PassOver
    /\ UNCHANGED <<now, definition, schedule, runs, proc, jobs, mail, memory, before>>

\* The run is admitted, and left pending when its target cannot be saved.
BindFails ==
    /\ Due /\ ~SkipsMisfire(actor.at + 1) /\ ~LimitReached
    /\ actor.at + 1 \notin claimed
    /\ StoreFails
    /\ claimed' = claimed \cup {actor.at + 1}
    /\ runs' = Append(runs, NewRun("Scheduled", actor.at + 1, OverlapPolicy, HasPrecheck))
    /\ PassOver
    /\ UNCHANGED <<now, definition, cursor, proc, jobs, mail, memory, before, slipped>>

\* The loop ends when nothing more is due, or when it has used up its time.
\* Missed occurrences are claimed in one transaction.
LeaveLoop ==
    /\ actor.phase = "evaluate"
    /\ actor.at + 1 > now \/ actor.spent
    /\ actor' = [actor EXCEPT !.phase = "resume", !.todo = Resumable, !.at = 0,
                              !.missed = {}, !.spent = FALSE]

EndEvaluate ==
    /\ LeaveLoop
    /\ claimed' = claimed \cup actor.missed
    /\ UNCHANGED <<now, definition, cursor, runs, proc, jobs, mail, host>>

ClaimFails ==
    /\ LeaveLoop /\ actor.missed # {}
    /\ StoreFails /\ slipped' = slipped \cup actor.missed
    /\ UNCHANGED <<now, definition, schedule, runs, proc, jobs, mail, memory, before>>

-----------------------------------------------------------------------------
(***************************************************************************)
(* Starting a run: overlap, precheck, attempt, launch.                     *)
(***************************************************************************)
TargetReserved(n) == \E m \in Reserved \ {n} : ~runs[m].taken

\* Mutant of DecideOverlap: a queued run waits for running ones only.
DecideOverlapRunning(policy, n) ==
    LET others  == ActiveRuns \ {n}
        older   == {m \in others \cap Pending : m < n}
        newer   == {m \in others \cap Pending : m > n}
        running == others \ Pending
        decide(d, replaced) == [decision |-> d, superseded |-> replaced]
    IN  CASE policy = "ForceParallel" -> decide("Proceed", {})
          [] policy = "Skip" ->
               decide(IF others # {} THEN "OverlapSkipped" ELSE "Proceed", {})
          [] policy = "RunLatestOnce" ->
               IF newer # {} THEN decide("OverlapSkipped", {})
               ELSE decide(IF running # {} THEN "Wait" ELSE "Proceed", older)
          [] policy = "Queue" ->
               decide(CASE Cardinality(older) > QueueCap -> "QueueLimitSkipped"
                        [] running # {} -> "Wait"
                        [] OTHER -> "Proceed", {})

\* decide_overlap: what the run does, and the older pending runs it replaces.
DecideOverlap(policy, n) ==
    LET others  == ActiveRuns \ {n}
        older   == {m \in others \cap Pending : m < n}
        newer   == {m \in others \cap Pending : m > n}
        running == others \ Pending
        decide(d, replaced) == [decision |-> d, superseded |-> replaced]
    IN  CASE policy = "ForceParallel" -> decide("Proceed", {})
          [] policy = "Skip" ->
               decide(IF others # {} THEN "OverlapSkipped" ELSE "Proceed", {})
          [] policy = "RunLatestOnce" ->
               IF newer # {} THEN decide("OverlapSkipped", {})
               ELSE decide(IF running # {} THEN "Wait" ELSE "Proceed", older)
          [] policy = "Queue" ->
               decide(CASE Cardinality(older) >= QueueCap -> "QueueLimitSkipped"
                        [] running \cup older # {} /\ Cardinality(older) < QueueCap -> "Wait"
                        [] OTHER -> "Proceed", {})

Superseded(rs, ns) ==
    [n \in DOMAIN rs |-> IF n \in ns THEN [rs[n] EXCEPT !.status = "OverlapSkipped"] ELSE rs[n]]

\* begin_automation_attempt: every reason to refuse an attempt.
CanBegin(r) ==
    /\ ~r.taken /\ ~r.reserved /\ ~r.cancel
    /\ r.status = "Pending" \/ (r.status = "Dispatching" /\ ~r.begun)
    /\ MayRetry(r)

Begin(rs, n) ==
    [rs EXCEPT ![n].attempts = @ + 1, ![n].status = "Dispatching", ![n].begun = TRUE,
               ![n].retry = FALSE]

BeginAttempt(rs, n, back) ==
    IF CanBegin(rs[n])
    THEN /\ Save(Begin(rs, n))
         /\ actor' = [actor EXCEPT !.phase = "launch", !.run = n, !.back = back]
    ELSE /\ Fail(rs, n)
         /\ Return

Park(rs, n) ==
    [rs EXCEPT ![n].status = "Pending", ![n].retry = TRUE, ![n].begun = FALSE,
               ![n].precheck = FALSE, ![n].recovery = "waiting"]

\* dispatch_prechecked: the bound conversation may be busy, which parks the
\* run until its grace is over, or the plan may fail.
DispatchPrechecked(rs, n, back) ==
    \/ BeginAttempt(rs, n, back)
    \/ Reuse /\ now - rs[n].at <= Grace /\ Save(Park(rs, n)) /\ Return
    \/ /\ Reuse /\ now - rs[n].at > Grace
       /\ IF rs[n].policy = "ForceParallel" THEN BeginAttempt(rs, n, back)
          ELSE Save(WithStatus(rs, n, "OverlapSkipped")) /\ Return
    \/ Block(rs, n) /\ Return
    \/ Fail(rs, n) /\ Return

StartPrecheck(rs, n) ==
    /\ Save([rs EXCEPT ![n].status = "Dispatching", ![n].begun = FALSE, ![n].retry = FALSE])
    /\ jobs' = jobs \cup {n}
    /\ Return

\* A run that was just admitted is blocked at once when its target is invalid.
StartRun ==
    /\ actor.phase = "start"
    /\ \/ actor.back = "evaluate" /\ Block(runs, actor.run) /\ Return /\ UNCHANGED jobs
       \/ LET n == actor.run
              fresh == [runs EXCEPT ![n].recovery = "none"]
              overlap == DecideOverlap(runs[n].policy, n)
              rest == Superseded(fresh, overlap.superseded)
          IN  CASE n \in jobs ->
                     Save(runs) /\ Return /\ UNCHANGED jobs
                [] n \notin jobs /\ TargetReserved(n) ->
                     /\ Save([runs EXCEPT ![n].recovery = "other", ![n].retry = TRUE])
                     /\ Return /\ UNCHANGED jobs
                [] n \notin jobs /\ ~TargetReserved(n) /\ overlap.decision = "Wait" ->
                     Save(rest) /\ Return /\ UNCHANGED jobs
                [] n \notin jobs /\ ~TargetReserved(n) /\ overlap.decision \in Skipped ->
                     Save(WithStatus(rest, n, overlap.decision)) /\ Return /\ UNCHANGED jobs
                [] OTHER ->
                     \/ Block(rest, n) /\ Return /\ UNCHANGED jobs      \* the target is invalid
                     \/ HasPrecheck /\ rest[n].precheck /\ StartPrecheck(rest, n)
                     \/ /\ ~(HasPrecheck /\ rest[n].precheck)
                        /\ DispatchPrechecked(rest, n, actor.back) /\ UNCHANGED jobs
    /\ UNCHANGED <<now, schedule, proc, mail, host>>

\* The terminal is bound to the run before the agent is spawned (CrashInLaunch is
\* a crash on the way).
Launch ==
    /\ actor.phase = "launch"
    /\ LET n == actor.run
       IN  \/ /\ Save([runs EXCEPT ![n].status = "Dispatched", ![n].tab = TRUE])
              /\ proc' = [proc EXCEPT ![n] = "attached"]
           \/ \E bound \in {runs[n].tab, TRUE} :
                /\ Fail([runs EXCEPT ![n].tab = bound], n)
                /\ UNCHANGED proc
           \/ Block(runs, n) /\ UNCHANGED proc
    /\ Return
    /\ UNCHANGED <<now, schedule, jobs, mail, host>>

\* complete_precheck_if_current: the answer of the command, applied to the run
\* as it is now.
FinishPrecheck(n) ==
    /\ AtRest /\ n \in jobs
    /\ jobs' = jobs \ {n}
    /\ LET r == runs[n]
       IN  \/ /\ r.status \notin {"Dispatching", "WaitingForUser"}
              /\ Save(runs) /\ UNCHANGED actor
           \/ /\ r.status \in {"Dispatching", "WaitingForUser"}
              /\ Save(WithStatus(runs, n, "WaitingForUser")) /\ UNCHANGED actor
           \/ /\ r.status \in {"Dispatching", "WaitingForUser"}
              /\ r.cancel \/ state = "Trashed"
              /\ Save(WithStatus(runs, n, "Cancelled")) /\ UNCHANGED actor
           \/ /\ r.status \in {"Dispatching", "WaitingForUser"}
              /\ ~r.cancel /\ state # "Trashed"
              /\ \/ DispatchPrechecked(runs, n, "idle")
                 \/ Save(WithStatus(runs, n, "PrecheckSkipped")) /\ UNCHANGED actor
    /\ UNCHANGED <<now, schedule, proc, mail, host>>

(***************************************************************************)
(* Pending runs, then deadlines.                                           *)
(***************************************************************************)
Interrupted(r) == r.recovery \notin {"none", "waiting"} /\ r.attempts > 0 /\ r.tab

Resume ==
    /\ Working("resume")
    /\ LET n == Next1
           r == runs[n]
       IN  \/ /\ ~Interrupted(r)
              /\ Save(runs)
              /\ actor' = [Done EXCEPT !.phase = "start", !.run = n, !.back = "resume"]
           \/ /\ Interrupted(r)
              /\ r.taken \/ r.reserved \/ r.cancel \/ proc[n] = "attached"
              /\ Save(runs) /\ actor' = Done
           \/ /\ Interrupted(r) /\ ~r.taken /\ ~r.reserved /\ ~r.cancel
              /\ Block(runs, n) /\ actor' = Done             \* its terminal is missing
           \/ /\ Interrupted(r) /\ ~r.taken /\ ~r.reserved /\ ~r.cancel
              /\ proc[n] # "attached"
              /\ IF CanBegin(r)
                 THEN /\ \E how \in {"resuming", "other"} :
                            Save(Begin([runs EXCEPT ![n].recovery = how], n))
                      /\ actor' = [Done EXCEPT !.phase = "launch", !.run = n, !.back = "resume"]
                 ELSE Fail(runs, n) /\ actor' = Done
    /\ UNCHANGED <<now, schedule, proc, jobs, mail, host>>

EndResume ==
    /\ actor.phase = "resume" /\ actor.todo = {}
    /\ actor' = [actor EXCEPT !.phase = "expire", !.todo = ActiveRuns]
    /\ UNCHANGED <<now, definition, schedule, runs, proc, jobs, mail, host>>

\* A precheck with no job was cut off by a crash: it is kept while its process
\* may still run, and blocked, never repeated, once it has surely ended.
CutOff(r) ==
    r.status \in {"Dispatching", "WaitingForUser"} /\ r.precheck /\ HasPrecheck /\ ~r.begun

CanFallSilent(r) == ~r.reserved /\ r.status \notin {"Pending", "WaitingForUser"}

\* The agent is ended with the run if its terminal is the run's own and has no
\* history left to write; else it may live on.
EndOverdue(n, status) ==
    /\ Settle(WithStatus(runs, n, status), n)
    /\ \/ UNCHANGED proc
       \/ /\ ~runs[n].reserved /\ ~runs[n].taken /\ proc[n] = "attached"
          /\ proc' = [proc EXCEPT ![n] = "gone"]

\* Mutant of Expire: a precheck that was cut off is tried again.
ExpireRetries ==
    /\ Working("expire")
    /\ actor' = Done
    /\ LET n == Next1
           r == runs[n]
       IN  \/ /\ n \in jobs \/ (~r.begun /\ ~r.cancel /\ ~CutOff(r))
              /\ Save(runs) /\ UNCHANGED proc
           \/ /\ n \notin jobs /\ CutOff(r)
              /\ Save(WithStatus(runs, n, "WaitingForUser")) /\ UNCHANGED proc
           \/ /\ n \notin jobs /\ ~r.begun /\ r.cancel
              /\ Save(WithStatus(runs, n, "Cancelled")) /\ UNCHANGED proc
           \/ /\ n \notin jobs /\ CutOff(r) /\ ~r.cancel
              /\ Fail(runs, n) /\ UNCHANGED proc
           \/ /\ n \notin jobs /\ r.begun
              /\ \/ r.cancel /\ EndOverdue(n, "Cancelled")
                 \/ (r.overdue \/ CanFallSilent(r)) /\ EndOverdue(n, "Timeout")
                 \/ ~r.overdue /\ Save(runs) /\ UNCHANGED proc
    /\ UNCHANGED <<now, schedule, jobs, mail, host>>

Expire ==
    /\ Working("expire")
    /\ actor' = Done
    /\ LET n == Next1
           r == runs[n]
       IN  \/ /\ n \in jobs \/ (~r.begun /\ ~r.cancel /\ ~CutOff(r))
              /\ Save(runs) /\ UNCHANGED proc
           \/ /\ n \notin jobs /\ CutOff(r)
              /\ Save(WithStatus(runs, n, "WaitingForUser")) /\ UNCHANGED proc
           \/ /\ n \notin jobs /\ ~r.begun /\ r.cancel
              /\ Save(WithStatus(runs, n, "Cancelled")) /\ UNCHANGED proc
           \/ /\ n \notin jobs /\ CutOff(r) /\ ~r.cancel
              /\ Block(runs, n) /\ UNCHANGED proc
           \/ /\ n \notin jobs /\ r.begun
              /\ \/ r.cancel /\ EndOverdue(n, "Cancelled")
                 \/ (r.overdue \/ CanFallSilent(r)) /\ EndOverdue(n, "Timeout")
                 \/ ~r.overdue /\ Save(runs) /\ UNCHANGED proc
    /\ UNCHANGED <<now, schedule, jobs, mail, host>>

EndTick ==
    /\ actor.phase = "expire" /\ actor.todo = {}
    /\ actor' = Idle
    /\ UNCHANGED <<now, definition, schedule, runs, proc, jobs, mail, host>>

-----------------------------------------------------------------------------
(***************************************************************************)
(* The agent.  A report carries the attempt it belongs to; the host takes  *)
(* a report of the current attempt only.  A lifecycle report needs a       *)
(* terminal of this host, a hook event does not.  What an agent sends      *)
(* while the host is busy might as well have been sent just before or just *)
(* after.                                                                  *)
(***************************************************************************)
Report(n, kind) ==
    /\ AtRest /\ n \in DOMAIN runs /\ Live(n) /\ mail[n] = {}
    /\ kind \in {"waiting", "working"} \/ proc[n] = "attached"
    /\ mail' = [mail EXCEPT ![n] = {[kind |-> kind, attempt |-> runs[n].attempts]}]
    /\ UNCHANGED <<now, definition, schedule, runs, proc, jobs, actor, host>>

\* complete_automation_run prunes before the failures are counted.
Complete(n, status, oldest) ==
    LET rs == PruneRuns(WithStatus(runs, n, status), oldest)
    IN  CASE status = "Failure" -> Settle(rs, n)
          [] status = "Success" ->
               /\ runs' = rs
               /\ IF runs[n].trigger = "Scheduled" /\ circuit THEN CircuitResets
                  ELSE UNCHANGED definition
          [] status = "Blocked" ->
               /\ runs' = rs
               /\ state' = IF state = "Active" THEN "Blocked" ELSE state
               /\ UNCHANGED circuit

DeliverReport(n) ==
    /\ AtRest
    /\ \E report \in mail[n] :
         LET r == runs[n]
             current == report.attempt = r.attempts /\ r.status \notin Final
         IN  \/ /\ ~current
                /\ Save(runs)
             \/ /\ current /\ report.kind = "waiting"
                /\ Save(IF r.taken THEN runs ELSE WithStatus(runs, n, "WaitingForUser"))
             \/ /\ current /\ report.kind = "working"
                /\ Save(IF r.status = "WaitingForUser" THEN WithStatus(runs, n, "Dispatched")
                        ELSE runs)
             \/ /\ current /\ report.kind \notin {"waiting", "working"}
                /\ \E oldest \in Prunable : Complete(n, report.kind, oldest)
    /\ mail' = [mail EXCEPT ![n] = {}]
    /\ UNCHANGED <<now, schedule, proc, jobs, actor, host>>

(***************************************************************************)
(* People.                                                                 *)
(***************************************************************************)
Request(name) == AtRest /\ name \in Requests

OpenRun(n) == n \in ActiveRuns

RunNow(policy, precheck) ==
    /\ AtRest /\ state # "Trashed"
    /\ Cardinality(DOMAIN runs \ Scheduled(runs)) < MaxManual
    /\ runs' = Append(runs, NewRun("Manual", now, policy, precheck))
    /\ actor' = [actor EXCEPT !.phase = "start", !.run = Len(runs) + 1]
    /\ UNCHANGED <<now, definition, schedule, proc, jobs, mail, host>>

CancelRun(n) ==
    /\ Request("cancel") /\ OpenRun(n)
    /\ Save([runs EXCEPT ![n].cancel = TRUE])
    /\ UNCHANGED <<now, schedule, proc, jobs, mail, actor, host>>

TakeOver(n) ==
    /\ Request("takeOver") /\ OpenRun(n) /\ runs[n].tab
    /\ Save([runs EXCEPT ![n].taken = TRUE, ![n].retry = FALSE])
    /\ UNCHANGED <<now, schedule, proc, jobs, mail, actor, host>>

StopWaiting(n) ==
    /\ Request("wait") /\ OpenRun(n) /\ runs[n].status = "WaitingForUser"
    /\ Save([runs EXCEPT ![n].status = "Dispatched"])
    /\ UNCHANGED <<now, schedule, proc, jobs, mail, actor, host>>

ExtendWaiting(n) ==
    /\ Request("extend") /\ OpenRun(n) /\ runs[n].status = "WaitingForUser"
    /\ Save([runs EXCEPT ![n].overdue = FALSE])
    /\ UNCHANGED <<now, schedule, proc, jobs, mail, actor, host>>

Pause(cancelActive) ==
    /\ Request("pause") /\ state \in {"Active", "Blocked"}
    /\ state' = "Paused"
    /\ runs' = [n \in DOMAIN runs |->
                  IF cancelActive /\ n \in ActiveRuns THEN [runs[n] EXCEPT !.cancel = TRUE]
                  ELSE runs[n]]
    /\ UNCHANGED <<now, circuit, schedule, proc, jobs, mail, actor, host>>

ResumeSchedule ==
    /\ Request("pause") /\ state \in {"Paused", "Blocked"}
    /\ state' = "Active" /\ cursor' = now
    /\ UNCHANGED <<now, circuit, claimed, runs, proc, jobs, mail, actor, host>>

Trash ==
    /\ Request("trash") /\ state # "Trashed"
    /\ state' = "Trashed" /\ before' = state
    /\ UNCHANGED <<now, circuit, schedule, runs, proc, jobs, mail, actor, memory, slipped, errors>>

Restore ==
    /\ Request("trash") /\ state = "Trashed"
    /\ state' = IF before = "Archived" THEN "Archived" ELSE "Paused"
    /\ before' = "none"
    /\ UNCHANGED <<now, circuit, schedule, runs, proc, jobs, mail, actor, memory, slipped, errors>>

-----------------------------------------------------------------------------
(***************************************************************************)
(* Time, processes and crashes.                                            *)
(***************************************************************************)
Clock ==
    /\ AtRest /\ now < Horizon
    /\ now' = now + 1
    /\ UNCHANGED <<definition, schedule, runs, proc, jobs, mail, actor, host>>

RetryDue(n) ==
    /\ AtRest /\ OpenRun(n) /\ runs[n].retry
    /\ Save([runs EXCEPT ![n].retry = FALSE])
    /\ UNCHANGED <<now, schedule, proc, jobs, mail, actor, host>>

DeadlinePasses(n) ==
    /\ AtRest /\ OpenRun(n) /\ runs[n].attempts > 0 /\ ~runs[n].overdue
    /\ Save([runs EXCEPT ![n].overdue = TRUE])
    /\ UNCHANGED <<now, schedule, proc, jobs, mail, actor, host>>

AgentExits(n) ==
    /\ AtRest /\ n \in DOMAIN runs /\ Live(n)
    /\ proc' = [proc EXCEPT ![n] = "gone"]
    /\ UNCHANGED <<now, definition, schedule, runs, jobs, mail, actor, host>>

\* The host dies with the rows rs and the processes ps, and starts again.  An
\* agent may survive the host, not the machine: a new boot proves that every
\* process of an older attempt is gone.
HostDies(reboot, survivors, rs, ps) ==
    /\ crashes < MaxCrashes
    /\ crashes' = crashes + 1
    /\ survivors \subseteq {n \in Number : ps[n] = "attached"}
    /\ reboot => survivors = {}
    /\ runs' = rs
    /\ proc' = [n \in Number |->
                  IF n \in survivors THEN "detached"
                  ELSE IF ps[n] = "attached"
                          \/ (reboot /\ n \in DOMAIN rs /\ rs[n].attempts > 0)
                       THEN "gone" ELSE ps[n]]
    /\ jobs' = {} /\ lost' = lost \cup jobs
    /\ mail' = [n \in Number |-> {}]
    /\ startedAt' = now
    /\ slipped' = slipped \cup actor.missed
    /\ strays' = strays \cup {n \in survivors : rs[n].status \in Final \cup {"WaitingForUser"}}
    /\ actor' = [Idle EXCEPT !.phase = "reconcile", !.todo = ActiveRuns \cup Reserved]
    /\ UNCHANGED <<conf, now, definition, schedule, before, errors>>

Crash(reboot, survivors) == HostDies(reboot, survivors, runs, proc)

\* The terminal is bound: the agent may have been spawned, and its process
\* recorded, before the run is saved as Dispatched.
CrashInLaunch(reboot, survivors, left) ==
    /\ actor.phase = "launch"
    /\ HostDies(reboot, survivors, [runs EXCEPT ![actor.run].tab = TRUE],
                [proc EXCEPT ![actor.run] = left])

-----------------------------------------------------------------------------
Init ==
    /\ conf \in Configs
    /\ now = 0 /\ state = "Active" /\ circuit = FALSE /\ cursor = 0
    /\ claimed = {} /\ startedAt = 0 /\ runs = <<>> /\ jobs = {}
    /\ proc = [n \in Number |-> "none"] /\ mail = [n \in Number |-> {}]
    /\ actor = Idle /\ before = "none"
    /\ lost = {} /\ slipped = {} /\ strays = {} /\ crashes = 0 /\ errors = 0

TickStep ==
    \/ Reconcile \/ EndReconcile
    \/ MissOccurrence \/ ReachLimit \/ AdmitRun \/ EndEvaluate
    \/ CountFails \/ AdmitFails \/ BindFails \/ ClaimFails
    \/ StartRun \/ Launch
    \/ Resume \/ EndResume \/ Expire \/ EndTick

People ==
    \/ \E policy \in ManualPolicies \cup {OverlapPolicy}, precheck \in BOOLEAN :
          (precheck => HasPrecheck) /\ RunNow(policy, precheck)
    \/ \E n \in Number : CancelRun(n) \/ TakeOver(n) \/ StopWaiting(n) \/ ExtendWaiting(n)
    \/ \E cancelActive \in BOOLEAN : Pause(cancelActive)
    \/ ResumeSchedule \/ Trash \/ Restore

Next ==
    \/ HandleTick \/ TickStep \/ People
    \/ \E n \in Number : FinishPrecheck(n) \/ DeliverReport(n)
    \/ \E n \in Number, kind \in Reports : Report(n, kind)
    \/ Clock
    \/ \E n \in Number : RetryDue(n) \/ DeadlinePasses(n) \/ AgentExits(n)
    \/ \E reboot \in BOOLEAN, survivors \in SUBSET Number :
          \/ Crash(reboot, survivors)
          \/ \E left \in Outlived \cup {"gone"} : CrashInLaunch(reboot, survivors, left)

Spec == Init /\ [][Next]_vars

\* Planning a run that has no attempt yet may fail, and costs it no attempt.
StartsAttempt(n) == StartRun /\ actor.run = n /\ runs'[n].attempts > runs[n].attempts

\* The host keeps ticking and serves its inbox; back-offs and deadlines pass;
\* no agent process lives for ever, and the plan of a run does not fail for ever.
LiveSpec ==
    /\ Spec
    /\ WF_vars(HandleTick) /\ WF_vars(TickStep)
    /\ SF_vars(\E n \in Number : RetryDue(n))
    /\ SF_vars(\E n \in Number : DeadlinePasses(n))
    /\ SF_vars(\E n \in Number : AgentExits(n))
    /\ SF_vars(\E n \in Number : StartsAttempt(n))

-----------------------------------------------------------------------------
(***************************************************************************)
(* Properties.                                                             *)
(***************************************************************************)
Run == [trigger : {"Scheduled", "Manual"}, at : 0 .. Horizon,
        policy : ManualPolicies \cup {OverlapPolicy}, precheck : BOOLEAN,
        status : Final \cup InFlight \cup {"Pending"}, attempts : 0 .. MaxAttempts,
        begun : BOOLEAN, retry : BOOLEAN, recovery : {"none", "waiting", "resuming", "other"},
        tab : BOOLEAN, reserved : BOOLEAN, taken : BOOLEAN, cancel : BOOLEAN,
        overdue : BOOLEAN, pruned : BOOLEAN]

\* Type invariant: the rows hold what their columns allow, and no run is ever
\* attempted more often than the policy of the automation permits.
TypeOK ==
    /\ now \in 0 .. Horizon /\ cursor \in 0 .. now /\ startedAt \in 0 .. now
    /\ claimed \subseteq 1 .. now
    /\ state \in {"Active", "Paused", "Blocked", "Archived", "Trashed"}
    /\ before \in {"none", "Active", "Paused", "Blocked", "Archived"}
    /\ circuit \in BOOLEAN
    /\ runs \in Seq(Run) /\ DOMAIN runs \subseteq Number
    /\ proc \in [Number -> {"none", "attached", "gone"} \cup Outlived]
    /\ jobs \subseteq DOMAIN runs /\ lost \subseteq DOMAIN runs
    /\ slipped \subseteq 1 .. now /\ strays \subseteq Number
    /\ \A n \in Number : Cardinality(mail[n]) <= 1

\* decide_overlap: two runs are in flight together only if one of them was
\* started with the policy that allows it.
OneRunInFlight ==
    \A m, n \in DOMAIN runs :
        m # n /\ {runs[m].status, runs[n].status} \subseteq InFlight
            => "ForceParallel" \in {runs[m].policy, runs[n].policy}

\* admit_scheduled_automation_run_with: every occurrence makes at most one run,
\* and the runs come in the order of their occurrences, whatever crashed or was
\* paused in between, and however many rows were pruned.  The schedule leaves an
\* occurrence behind unclaimed only if the store failed to admit it, or if it is
\* one of a batch of misfires that record_skipped_misfires could not claim.
OccurrencesInOrder ==
    /\ \A n \in Scheduled(runs) : runs[n].at \in claimed
    /\ \A m, n \in Scheduled(runs) : m < n => runs[m].at < runs[n].at
    /\ AtRest => \A at \in 1 .. ScheduleCursor : at \in claimed \cup slipped \/ at <= cursor

\* begin_automation_attempt: an agent is started only for a run that is still
\* open, that nobody cancelled or took over, and whose earlier agent is gone.
\* Exception, from the third attempt on: reconcile_automation_runs gives up a
\* resumed conversation that stays silent without looking for its process, and
\* that process may have outlived the host it was started by.
LaunchesAreSafe ==
    [][\A n \in DOMAIN runs :
          (proc'[n] = "attached" /\ proc[n] # "attached")
              => /\ proc[n] \in {"none", "gone"} \/ runs[n].attempts > 2
                 /\ runs[n].status = "Dispatching" /\ ~runs[n].reserved
                 /\ ~runs[n].cancel /\ ~runs[n].taken]_vars

\* Only a blocked or failed scheduled run takes the automation out of the
\* schedule; what happens to a manual run does not.
ManualRunsNeverBlock ==
    [][(state = "Active" /\ state' = "Blocked")
          => \E n \in Scheduled(runs) : runs[n].status # runs'[n].status]_vars

\* A precheck command whose outcome was lost in a crash is not run again.  A
\* person who ends the wait for the lost outcome is the exception: the run of
\* an earlier attempt is then reconciled and failed, and its retry runs the
\* command again.
LostPrecheckNotRepeated == "wait" \notin Requests => jobs \cap lost = {}

\* Targets stay reserved until process closure is proven: no agent starts while
\* the first agent of another run may still be alive outside the host.
\* Exceptions: a run that a person took over, or whose row was pruned; a run that
\* waited for a person or had ended when the host died, which reconciliation
\* passes over (a timed-out agent may live on: EndOverdue); a resumed conversation
\* that stays silent, which is given up without looking for its process; and a run
\* that returns to a terminal of its own (resume_interrupted_automation_run), which
\* looks at its own reservation only.
OwnersKeepTargets ==
    [][\A n \in DOMAIN runs :
          (~runs[n].tab /\ proc'[n] = "attached" /\ proc[n] # "attached")
              => \A m \in DOMAIN runs \ {n} :
                    proc[m] \in Outlived /\ runs[m].attempts = 1
                        => runs[m].taken \/ runs[m].pruned \/ m \in strays]_vars

\* The limit of scheduled runs bounds the runs of the retained history that are
\* not skipped, whatever order they are admitted, superseded, pruned and ended in.
\* It does not bound all runs there ever were: count_scheduled_automation_executions
\* counts rows, and the pruned ones are gone.
LimitHolds ==
    MaxScheduled > 0
        => Cardinality({n \in Retained(runs) : runs[n].status \notin Skipped}) <= MaxScheduled

\* Every run that was admitted ends, however often its agent dies and the host
\* restarts, unless a person took a run over or the owner of one was never
\* recorded and so cannot be proved gone.
EveryRunEnds ==
    \A n \in AnyNumber :
        (n \in DOMAIN runs) ~>
            \/ n \in DOMAIN runs /\ runs[n].status \in Final
            \/ \E m \in DOMAIN runs :
                  runs[m].taken \/ (runs[m].reserved /\ proc[m] \in {"none", "unrecorded"})

\* Whatever crashes, an occurrence that is due is claimed while the automation
\* stays Active, if its misfire policy drops none.  Exception: the store failed to
\* admit it, and a later occurrence was claimed before the next tick.
DueOccurrencesAreClaimed ==
    \A at \in AnyNumber :
        (MisfirePolicy = "Queue" /\ now >= at) ~>
            \/ at \in claimed \/ at <= cursor \/ state # "Active"
            \/ at \in slipped /\ \E later \in claimed : later > at

=============================================================================
