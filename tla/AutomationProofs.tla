-------------------------- MODULE AutomationProofs --------------------------
(***************************************************************************)
(* Proofs about Automation, for every configuration that ConfigAssumption  *)
(* admits.                                                                 *)
(*                                                                         *)
(* A step is first reduced to what it does to each run row it writes: the  *)
(* rows move in ten ways (Marks ... Binds).  Each part of the invariant    *)
(* follows from the moves and from the point the actor has reached.        *)
(***************************************************************************)
EXTENDS Automation, FiniteSetTheorems, SequenceTheorems, TLAPS

-----------------------------------------------------------------------------
(***************************************************************************)
(* The inductive invariant.                                                *)
(***************************************************************************)
Phases == {"idle", "reconcile", "evaluate", "start", "launch", "resume", "expire"}

Actor == [phase : Phases, todo : SUBSET Number, at : Nat, missed : SUBSET Nat, run : Nat,
          back : {"idle", "evaluate", "resume"}, full : BOOLEAN, spent : BOOLEAN]

Mail == [kind : {"waiting", "working", "Success", "Failure", "Blocked"}, attempt : Nat]

\* The host is in the loop over the due occurrences, or starts one of its runs.
Evaluating ==
  \/ actor.phase = "evaluate"
  \/ actor.phase \in {"start", "launch"} /\ actor.back = "evaluate"

\* The same for the loop over the pending runs.
Resuming ==
  \/ actor.phase = "resume"
  \/ actor.phase \in {"start", "launch"} /\ actor.back = "resume"

\* The variables have their types, and run rows are counted: a scheduled one
\* has a claim of its own, which bounds them by the horizon.
TypeInv ==
  /\ conf \in Configs /\ crashes \in Nat /\ errors \in Nat /\ TypeOK
  /\ actor \in Actor /\ actor.todo \subseteq DOMAIN runs
  /\ actor.at <= now /\ actor.missed \subseteq 1 .. now
  /\ mail \in [Number -> SUBSET Mail]
  /\ Cardinality(Scheduled(runs)) <= Cardinality(claimed)
  /\ Cardinality(DOMAIN runs \ Scheduled(runs)) <= MaxManual

\* What a run row says about the agent of the run.  An agent belongs to a run
\* with a terminal, and such a run was attempted.  A pending run has no agent
\* in this host; one with a terminal is always taken up as interrupted.
RowOK(r, p, m) ==
  /\ r.tab => r.attempts > 0 /\ r.begun
  /\ p = "attached" \/ p \in Outlived \/ m # {} => r.tab
  /\ r.recovery = "resuming" => r.tab /\ r.attempts > 1
  /\ p = "attached" => ~r.reserved /\ r.status # "Pending"
  /\ r.status = "Pending" =>
        /\ r.tab => r.recovery \notin {"none", "waiting"}
        /\ r.reserved => r.tab
        /\ p \in Outlived => r.attempts > 1

RowInv ==
  /\ \A n \in DOMAIN runs : RowOK(runs[n], proc[n], mail[n])
  /\ \A n \in Number \ DOMAIN runs : proc[n] = "none" /\ mail[n] = {}

\* The run the host is about to start, the attempt it is about to launch, and
\* the runs it still has to take up.
ActorInv ==
  /\ actor.phase = "idle" => actor = Idle
  /\ actor.phase = "start" =>
        /\ actor.run \in DOMAIN runs
        /\ runs[actor.run].status = "Pending" /\ ~runs[actor.run].tab
  /\ actor.phase = "launch" =>
        /\ actor.run \in DOMAIN runs
        /\ runs[actor.run].status = "Dispatching" /\ runs[actor.run].begun
        /\ runs[actor.run].attempts > 0
        /\ ~runs[actor.run].reserved /\ ~runs[actor.run].cancel /\ ~runs[actor.run].taken
        /\ proc[actor.run] # "attached"
        /\ proc[actor.run] \in Outlived => runs[actor.run].attempts > 2
  /\ Resuming => \A k \in actor.todo : runs[k].status = "Pending"
  /\ Resuming /\ actor.phase # "resume" => \A k \in actor.todo : actor.run < k

\* A run that has been let through while others were there finds the older
\* ones ended, unless its policy allows it to run beside them.
OverlapInv ==
  \A m, n \in DOMAIN runs :
     m < n /\ runs[n].policy # "ForceParallel"
        /\ (runs[n].attempts > 0 \/ runs[n].status \in InFlight)
        => runs[m].status \in Final

\* A precheck that was started and has not been answered.
Unanswered(r) ==
  /\ r.status \in InFlight /\ ~r.begun /\ r.precheck /\ HasPrecheck /\ ~r.reserved /\ ~r.tab
  /\ "wait" \in Requests \/ r.status # "Dispatched"

PrecheckInv ==
  /\ \A n \in jobs : runs[n].status \in Final \/ Unanswered(runs[n])
  /\ "wait" \notin Requests =>
        /\ jobs \cap lost = {}
        /\ \A n \in lost : runs[n].status \in Final \/ Unanswered(runs[n])

\* An occurrence is accounted for when it is claimed, about to be claimed as
\* missed, slipped, or older than the last resume of the schedule.
Accounted(a) == a \in claimed \cup slipped \cup actor.missed \/ a <= cursor

OccurrenceInv ==
  /\ \A n \in Scheduled(runs) : runs[n].at \in claimed
  /\ \A m, n \in Scheduled(runs) : m < n => runs[m].at < runs[n].at
  /\ Evaluating => \A c \in claimed : c <= actor.at
  /\ ~Evaluating => actor.missed = {}
  /\ \A c \in claimed \cup actor.missed : \A a \in 1 .. c : Accounted(a)
  /\ Evaluating => \A a \in 1 .. actor.at :
        \/ Accounted(a)
        \/ actor.phase = "evaluate" /\ LimitReached /\ ~SkipsMisfire(a)

\* A first agent that has outlived the host, and that no exception of
\* OwnersKeepTargets covers.
OrphanRow(r, p) == p \in Outlived /\ r.attempts = 1 /\ ~r.taken /\ ~r.pruned

Orphan(n) == OrphanRow(runs[n], proc[n]) /\ n \notin strays

\* The row keeps the target reserved, or the host is about to see to it.
Held(n) ==
  \/ runs[n].reserved
  \/ /\ actor.phase = "reconcile" /\ n \in actor.todo
     /\ runs[n].status \notin Final \cup {"WaitingForUser"}

OwnerInv ==
  \A n \in DOMAIN runs :
     Orphan(n) => /\ Held(n) /\ jobs = {}
                  /\ actor.phase = "launch" => runs[actor.run].tab

IInv ==
  /\ TypeInv /\ RowInv /\ ActorInv /\ OverlapInv /\ PrecheckInv /\ OccurrenceInv
  /\ LimitHolds /\ OwnerInv

-----------------------------------------------------------------------------
(***************************************************************************)
(* The least and the greatest element of a set of numbers.                 *)
(***************************************************************************)
LEMMA LeastExists ==
  ASSUME NEW S, S \subseteq Nat, S # {}
  PROVE  \E x \in S : \A y \in S : x =< y
<1>1. IsWellFoundedOn(OpToRel(<, Nat), Nat)
  BY NatLessThanWellFounded
<1>2. \E x \in S : \A y \in S : ~ (<<y, x>> \in OpToRel(<, Nat))
  BY <1>1, WFMin
<1>3. PICK x \in S : \A y \in S : ~ (<<y, x>> \in OpToRel(<, Nat))
  BY <1>2
<1>4. \A y \in S : <<y, x>> \in OpToRel(<, Nat) \/ x =< y
  BY DEF OpToRel
<1> QED
  BY <1>3, <1>4

LEMMA MinFacts ==
  ASSUME NEW S, S \subseteq Nat, S # {}
  PROVE  Min(S) \in S /\ \A y \in S : Min(S) =< y
BY LeastExists DEF Min

LEMMA MaxFacts ==
  ASSUME NEW S, NEW N \in Nat, S \subseteq 0 .. N, S # {}
  PROVE  Max(S) \in S /\ \A y \in S : y =< Max(S)
<1> DEFINE D == {N - x : x \in S}
<1>1. D \subseteq Nat /\ D # {}
  <2>1. \A x \in S : N - x \in Nat
    OBVIOUS
  <2> QED
    BY <2>1
<1>2. PICK d \in D : \A y \in D : d =< y
  BY <1>1, LeastExists
<1>3. PICK x \in S : d = N - x
  BY <1>2
<1>4. \A y \in S : x >= y
  <2> TAKE y \in S
  <2>1. N - y \in D /\ N \in Nat /\ x \in Nat /\ y \in Nat
    OBVIOUS
  <2>2. d =< N - y
    BY <1>2, <2>1
  <2> QED
    BY <1>3, <2>1, <2>2
<1>5. \E z \in S : \A y \in S : z >= y
  BY <1>4
<1>6. Max(S) \in S /\ \A y \in S : Max(S) >= y
  BY <1>5 DEF Max
<1> QED
  BY <1>6

-----------------------------------------------------------------------------
(***************************************************************************)
(* The configuration is fixed, and its settings are what is assumed.       *)
(***************************************************************************)
LEMMA ConfFacts ==
  ASSUME conf \in Configs
  PROVE  /\ Horizon \in Nat /\ MaxManual \in Nat /\ MaxCrashes \in Nat /\ Grace \in Nat
         /\ MaxScheduled \in Nat
         /\ QueueCap \in Nat \ {0} /\ MaxAttempts \in Nat \ {0} /\ Threshold \in Nat \ {0}
         /\ HasPrecheck \in BOOLEAN /\ Reuse \in BOOLEAN
         /\ ManualPolicies \cup {OverlapPolicy} \subseteq Policies
         /\ MisfirePolicy \in {"Skip", "RunLatestOnce", "Queue"}
         /\ Reports \subseteq {"waiting", "working", "Success", "Failure", "Blocked"}
BY ConfigAssumption
   DEF Horizon, MaxManual, MaxCrashes, Grace, MaxScheduled, QueueCap, MaxAttempts, Threshold,
       HasPrecheck, Reuse, ManualPolicies, OverlapPolicy, MisfirePolicy, Reports

LEMMA ConfStays ==
  ASSUME UNCHANGED conf
  PROVE  /\ Horizon' = Horizon /\ MaxManual' = MaxManual /\ Grace' = Grace
         /\ MaxScheduled' = MaxScheduled /\ MaxAttempts' = MaxAttempts
         /\ HasPrecheck' = HasPrecheck /\ MisfirePolicy' = MisfirePolicy
         /\ Reports' = Reports /\ Requests' = Requests
         /\ Number' = Number /\ Run' = Run /\ Actor' = Actor
BY DEF Horizon, MaxManual, Grace, MaxScheduled, MaxAttempts, HasPrecheck, MisfirePolicy, Reports,
       Requests, Number, Run, Actor, ManualPolicies, OverlapPolicy

Procs == {"none", "attached", "gone"} \cup Outlived

\* A crash, wherever it falls.
Dies(reboot, survivors) ==
  \/ Crash(reboot, survivors)
  \/ \E left \in Outlived \cup {"gone"} : CrashInLaunch(reboot, survivors, left)

LEMMA NextKeepsConf ==
  ASSUME [Next]_vars
  PROVE  UNCHANGED conf
<1>1. HandleTick => UNCHANGED conf
  BY DEF HandleTick, host, memory
<1>2. TickStep => UNCHANGED conf
  BY DEF TickStep, Reconcile, EndReconcile, MissOccurrence, ReachLimit, AdmitRun, EndEvaluate,
         CountFails, AdmitFails, BindFails, ClaimFails,
         StartRun, Launch, Resume, EndResume, Expire, EndTick, host, memory
<1>3. People => UNCHANGED conf
  BY DEF People, RunNow, CancelRun, TakeOver, StopWaiting, ExtendWaiting, Pause,
         ResumeSchedule, Trash, Restore, host, memory
<1>4. ASSUME NEW n \in Number,
             FinishPrecheck(n) \/ DeliverReport(n) \/ RetryDue(n) \/ DeadlinePasses(n)
             \/ AgentExits(n) \/ \E kind \in Reports : Report(n, kind)
      PROVE  UNCHANGED conf
  BY <1>4 DEF FinishPrecheck, DeliverReport, RetryDue, DeadlinePasses, AgentExits, Report, host, memory
<1>5. Clock \/ UNCHANGED vars => UNCHANGED conf
  BY DEF Clock, host, memory, vars
<1>6. (\E reboot \in BOOLEAN, survivors \in SUBSET Number : Dies(reboot, survivors))
         => UNCHANGED conf
  BY DEF Dies, Crash, CrashInLaunch, HostDies
<1> QED
  BY <1>1, <1>2, <1>3, <1>4, <1>5, <1>6 DEF Next, Dies

\* What the type invariant says of a row, of the run numbers and of the actor.
LEMMA TypeFacts ==
  ASSUME TypeInv
  PROVE  /\ runs \in Seq(Run) /\ Len(runs) \in Nat /\ DOMAIN runs = 1 .. Len(runs)
         /\ DOMAIN runs \subseteq Number /\ Number \subseteq Nat \ {0}
         /\ \A n \in DOMAIN runs : runs[n] \in Run /\ n \in Nat /\ n \in Number
         /\ now \in Nat /\ cursor \in Nat /\ startedAt \in Nat /\ crashes \in Nat
         /\ claimed \subseteq Nat /\ now <= Horizon /\ cursor <= now
         /\ actor \in Actor /\ actor.todo \subseteq DOMAIN runs
         /\ actor.at \in Nat /\ actor.at <= now /\ actor.missed \subseteq Nat
<1>1. Horizon \in Nat /\ MaxManual \in Nat
  BY ConfFacts DEF TypeInv
<1>2. runs \in Seq(Run) /\ DOMAIN runs \subseteq Number
  BY DEF TypeInv, TypeOK
<1>3. Number \subseteq Nat \ {0}
  BY <1>1 DEF Number
<1>4. Len(runs) \in Nat /\ DOMAIN runs = 1 .. Len(runs) /\ \A n \in DOMAIN runs : runs[n] \in Run
  BY <1>2, LenProperties
<1>5. actor \in Actor /\ actor.todo \subseteq DOMAIN runs /\ actor.at <= now
      /\ actor.missed \subseteq Nat
  BY <1>1 DEF TypeInv, TypeOK
<1>6. actor.at \in Nat
  BY <1>5 DEF Actor
<1> QED
  BY <1>1, <1>2, <1>3, <1>4, <1>5, <1>6 DEF TypeInv, TypeOK

-----------------------------------------------------------------------------
(***************************************************************************)
(* What can happen to a row: r before the step, s after it.                *)
(***************************************************************************)
Ident(r, s) ==
  s.trigger = r.trigger /\ s.at = r.at /\ s.policy = r.policy /\ (r.pruned => s.pruned)

Tried(r, s) == s.attempts = r.attempts /\ s.begun = r.begun /\ s.precheck = r.precheck

\* A terminal is never given up, and belongs to an attempt.
Bound(r, s) == (r.tab => s.tab) /\ (s.tab => r.tab \/ (r.attempts > 0 /\ r.begun))

\* Notes of people, of the clock and of the pruning.
Marks(r, s) ==
  /\ Ident(r, s) /\ Tried(r, s) /\ s.status = r.status /\ s.tab = r.tab
  /\ s.reserved = r.reserved /\ (r.taken => s.taken)
  /\ s.recovery \in {r.recovery, "other"} \/ (s.recovery = "none" /\ ~r.tab)

\* The owner is reserved or released.
Holds(r, s) ==
  /\ Ident(r, s) /\ Tried(r, s) /\ s.status = r.status /\ s.tab = r.tab /\ s.taken = r.taken
  /\ s.recovery \in {r.recovery, "other"}

\* The run ends.
Closes(r, s) ==
  /\ Ident(r, s) /\ Tried(r, s) /\ Bound(r, s)
  /\ r.status \notin Final /\ s.status \in Final
  /\ s.reserved \in {r.reserved, FALSE} /\ s.taken = r.taken
  /\ s.recovery \in {r.recovery, "other", "none"}

\* An attempt has failed and another one is due later.
Retries(r, s) ==
  /\ Ident(r, s) /\ Tried(r, s) /\ Bound(r, s)
  /\ r.status \notin Final /\ ~r.taken /\ ~s.taken /\ s.status = "Pending"
  /\ s.recovery \in {"none", "other"} /\ (s.tab => s.recovery = "other")
  /\ s.reserved \in {r.reserved, FALSE}

\* begin_automation_attempt.
Begins(r, s) ==
  /\ Ident(r, s) /\ s.attempts = r.attempts + 1 /\ s.begun /\ s.tab = r.tab
  /\ r.status = "Pending" \/ (r.status = "Dispatching" /\ ~r.begun)
  /\ s.status = "Dispatching"
  /\ ~r.reserved /\ ~s.reserved /\ ~s.cancel /\ ~s.taken /\ ~r.taken
  /\ s.recovery = "resuming" => r.tab /\ r.attempts > 0

\* The precheck is started.
Checks(r, s) ==
  /\ Ident(r, s) /\ s.attempts = r.attempts /\ ~s.begun /\ s.precheck /\ s.tab = r.tab
  /\ r.status = "Pending" /\ s.status = "Dispatching"
  /\ s.reserved = r.reserved /\ s.taken = r.taken /\ s.recovery = "none"

\* The run waits for its conversation.
Parks(r, s) ==
  /\ Ident(r, s) /\ s.attempts = r.attempts /\ ~s.begun /\ s.tab = r.tab
  /\ r.status \notin Final /\ s.status = "Pending"
  /\ s.reserved = r.reserved /\ s.taken = r.taken /\ s.recovery = "waiting"

\* The agent of an attempt is started.
Opens(r, s) ==
  /\ Ident(r, s) /\ Tried(r, s) /\ s.tab
  /\ r.status = "Dispatching" /\ s.status = "Dispatched"
  /\ s.reserved = r.reserved /\ s.taken = r.taken /\ s.recovery = r.recovery

\* The run waits for a person, or goes on.
Waits(r, s) ==
  /\ Ident(r, s) /\ Tried(r, s) /\ s.tab = r.tab
  /\ r.status \notin Final /\ s.status \in {"WaitingForUser", "Dispatched"}
  /\ s.reserved = r.reserved /\ s.taken = r.taken /\ s.recovery = r.recovery

\* The terminal is bound, and the host dies.
Binds(r, s) ==
  /\ Ident(r, s) /\ Tried(r, s) /\ s.tab /\ s.status = r.status
  /\ r.status = "Dispatching" /\ r.begun /\ r.attempts > 0
  /\ s.reserved = r.reserved /\ s.taken = r.taken /\ s.recovery = r.recovery
  /\ s.pruned = r.pruned

\* A row keeps its identity, and an end is an end.
Firm(r, s) == Ident(r, s) /\ (r.status \in Final => s.status = r.status)

\* Whether the overlap policy has let the run through.
Passed(r) == r.attempts > 0 \/ r.status \in InFlight

\* No run is let through.
Calm(r, s) == Firm(r, s) /\ (Passed(s) => Passed(r))

Touched(rs, ss, n) ==
  /\ ss \in Seq(Run) /\ DOMAIN ss = DOMAIN rs
  /\ \A k \in DOMAIN rs \ {n} : ss[k] = rs[k]

LEMMA FirmMoves ==
  ASSUME NEW r, NEW s,
         \/ s = r \/ Marks(r, s) \/ Holds(r, s) \/ Closes(r, s) \/ Retries(r, s)
         \/ Begins(r, s) \/ Checks(r, s) \/ Parks(r, s) \/ Opens(r, s) \/ Waits(r, s)
         \/ Binds(r, s)
  PROVE  Firm(r, s)
BY DEF Firm, Ident, Marks, Holds, Closes, Retries, Begins, Checks, Parks, Opens, Waits, Binds,
       Final, Skipped

LEMMA CalmMoves ==
  ASSUME NEW r, NEW s, r.attempts \in Nat,
         \/ s = r \/ Marks(r, s) \/ Holds(r, s) \/ Closes(r, s) \/ Retries(r, s) \/ Parks(r, s)
         \/ (Begins(r, s) /\ Passed(r)) \/ Opens(r, s) \/ (Waits(r, s) /\ Passed(r))
         \/ Binds(r, s)
  PROVE  Calm(r, s)
<1>1. Firm(r, s)
  BY FirmMoves
<1> QED
  BY <1>1 DEF Calm, Passed, Tried, Marks, Holds, Closes, Retries, Begins, Parks, Opens, Waits,
       Binds, Final, Skipped, InFlight

\* How the moves of a row and its agent keep the row in order.
LEMMA RowOKMarks ==
  ASSUME NEW r, NEW s, NEW p, NEW m, RowOK(r, p, m), Marks(r, s)
  PROVE  RowOK(s, p, m)
BY DEF RowOK, Marks, Tried

LEMMA RowOKHolds ==
  ASSUME NEW r, NEW s, NEW p, NEW m, RowOK(r, p, m), Holds(r, s),
         s.reserved => p # "attached" /\ (r.status = "Pending" => r.tab)
  PROVE  RowOK(s, p, m)
BY DEF RowOK, Holds, Tried

LEMMA RowOKCloses ==
  ASSUME NEW r, NEW s, NEW p, NEW m, RowOK(r, p, m), Closes(r, s)
  PROVE  RowOK(s, p, m)
BY DEF RowOK, Closes, Tried, Bound, Final, Skipped

LEMMA RowOKRetries ==
  ASSUME NEW r, NEW s, NEW p, NEW m, RowOK(r, p, m), Retries(r, s),
         p # "attached", p \in Outlived => r.attempts > 1, s.reserved => s.tab
  PROVE  RowOK(s, p, m)
BY DEF RowOK, Retries, Tried, Bound

LEMMA RowOKBegins ==
  ASSUME NEW r, NEW s, NEW p, NEW m, RowOK(r, p, m), Begins(r, s), r.attempts \in Nat
  PROVE  RowOK(s, p, m)
BY DEF RowOK, Begins

LEMMA RowOKChecks ==
  ASSUME NEW r, NEW s, NEW p, NEW m, RowOK(r, p, m), Checks(r, s), ~r.tab
  PROVE  RowOK(s, p, m)
BY DEF RowOK, Checks

LEMMA RowOKParks ==
  ASSUME NEW r, NEW s, NEW p, NEW m, RowOK(r, p, m), Parks(r, s), ~r.tab, ~r.reserved
  PROVE  RowOK(s, p, m)
BY DEF RowOK, Parks

LEMMA RowOKOpens ==
  ASSUME NEW r, NEW s, NEW p, NEW m, RowOK(r, p, m), Opens(r, s),
         r.attempts > 0, r.begun, ~r.reserved
  PROVE  RowOK(s, "attached", m)
BY DEF RowOK, Opens, Tried, Outlived

LEMMA RowOKWaits ==
  ASSUME NEW r, NEW s, NEW p, NEW m, RowOK(r, p, m), Waits(r, s)
  PROVE  RowOK(s, p, m)
BY DEF RowOK, Waits, Tried

LEMMA RowOKGone ==
  ASSUME NEW r, NEW p, NEW m, RowOK(r, p, m)
  PROVE  RowOK(r, "gone", m) /\ RowOK(r, p, {})
BY DEF RowOK, Outlived

LEMMA RowOKBinds ==
  ASSUME NEW r, NEW s, NEW p, NEW q, NEW m, RowOK(r, p, m), Binds(r, s), q # "attached"
  PROVE  RowOK(s, q, {})
BY DEF RowOK, Binds, Tried

-----------------------------------------------------------------------------
(***************************************************************************)
(* What the operators on the run table do to its rows.                     *)
(***************************************************************************)
Statuses == Final \cup InFlight \cup {"Pending"}

LEMMA FunctionIsSeq ==
  ASSUME NEW S, NEW n \in Nat, NEW f \in [1 .. n -> S]
  PROVE  f \in Seq(S)
<1>1. f \in UNION {[1 .. k -> S] : k \in Nat}
  OBVIOUS
<1> QED
  BY <1>1, SeqDef, Zenon

LEMMA PutFacts ==
  ASSUME NEW rs \in Seq(Run), NEW n \in DOMAIN rs, NEW r \in Run
  PROVE  Touched(rs, [rs EXCEPT ![n] = r], n) /\ [rs EXCEPT ![n] = r][n] = r
<1>1. DOMAIN rs = 1 .. Len(rs)
  BY LenProperties
<1>2. n \in 1 .. Len(rs)
  BY <1>1
<1>3. /\ [rs EXCEPT ![n] = r] \in Seq(Run)
      /\ \A j \in 1 .. Len(rs) : [rs EXCEPT ![n] = r][j] = IF j = n THEN r ELSE rs[j]
  BY <1>2, ExceptSeq
<1> QED
  BY <1>1, <1>2, <1>3 DEF Touched

LEMMA TouchedTwice ==
  ASSUME NEW rs, NEW ss, NEW ts, NEW n, Touched(rs, ss, n), Touched(ss, ts, n)
  PROVE  Touched(rs, ts, n)
BY DEF Touched

LEMMA RowFacts ==
  ASSUME NEW rs \in Seq(Run), NEW n \in DOMAIN rs, conf \in Configs
  PROVE  /\ rs[n] \in Run /\ rs[n].attempts \in Nat /\ rs[n].status \in Statuses
         /\ rs[n].policy \in Policies /\ rs[n].at \in Nat
         /\ rs[n].recovery \in {"none", "waiting", "resuming", "other"}
         /\ {rs[n].tab, rs[n].reserved, rs[n].taken, rs[n].cancel, rs[n].begun, rs[n].pruned} \subseteq BOOLEAN
<1>1. rs[n] \in Run
  BY LenProperties
<1>2. Horizon \in Nat /\ MaxAttempts \in Nat /\ ManualPolicies \cup {OverlapPolicy} \subseteq Policies
  BY ConfFacts
<1> QED
  BY <1>1, <1>2 DEF Run, Statuses

LEMMA WithStatusFacts ==
  ASSUME NEW rs \in Seq(Run), NEW n \in DOMAIN rs, NEW status \in Statuses
  PROVE  /\ Touched(rs, WithStatus(rs, n, status), n)
         /\ rs[n].status \in Final => WithStatus(rs, n, status) = rs
         /\ rs[n].status \notin Final =>
               WithStatus(rs, n, status)[n] = [rs[n] EXCEPT !.status = status]
<1>1. rs[n] \in Run
  BY LenProperties
<1>2. [rs[n] EXCEPT !.status = status] \in Run
  BY <1>1 DEF Run, Statuses
<1>3. Touched(rs, rs, n)
  BY DEF Touched
<1> QED
  BY <1>2, <1>3, PutFacts DEF WithStatus

LEMMA FailRunFacts ==
  ASSUME NEW rs \in Seq(Run), NEW n \in DOMAIN rs, rs[n].tab => rs[n].attempts > 0
  PROVE  /\ Touched(rs, FailRun(rs, n), n)
         /\ FailRun(rs, n)[n].reserved = rs[n].reserved
         /\ \/ (rs[n].status \in Final \/ rs[n].taken) /\ FailRun(rs, n) = rs
            \/ Closes(rs[n], FailRun(rs, n)[n])
            \/ Retries(rs[n], FailRun(rs, n)[n])
<1> DEFINE r == rs[n]
           recovery == IF r.recovery # "none" \/ (r.attempts > 0 /\ r.tab) THEN "other" ELSE "none"
           s == IF MayRetry(r)
                THEN [r EXCEPT !.status = "Pending", !.retry = TRUE, !.recovery = recovery]
                ELSE [r EXCEPT !.status = "Failure", !.recovery = recovery]
<1>1. r \in Run
  BY LenProperties
<1>2. s \in Run
  BY ZenonT(30), <1>1 DEF Run, Final, Skipped
<1>3. CASE r.status \in Final \/ r.taken
  <2>1. FailRun(rs, n) = rs
    BY <1>3 DEF FailRun
  <2> QED
    BY <1>3, <2>1 DEF Touched
<1>4. CASE ~(r.status \in Final \/ r.taken)
  <2>1. FailRun(rs, n) = [rs EXCEPT ![n] = s]
    BY <1>4 DEF FailRun
  <2>2. Touched(rs, FailRun(rs, n), n) /\ FailRun(rs, n)[n] = s
    <3> HIDE DEF s
    <3> QED
      BY ZenonT(30), <1>2, <2>1, PutFacts
  <2>3. CASE MayRetry(r)
    <3>1. s = [r EXCEPT !.status = "Pending", !.retry = TRUE, !.recovery = recovery]
      BY <2>3
    <3>2. Retries(r, s) /\ s.reserved = r.reserved
      <4> HIDE DEF s
      <4> QED
        BY <1>1, <1>4, <3>1 DEF Retries, Ident, Tried, Bound, Run
    <3> QED
      BY <2>2, <3>2
  <2>4. CASE ~MayRetry(r)
    <3>1. s = [r EXCEPT !.status = "Failure", !.recovery = recovery]
      BY <2>4
    <3>2. Closes(r, s) /\ s.reserved = r.reserved
      <4> HIDE DEF s
      <4> QED
        BY <1>1, <1>4, <3>1 DEF Closes, Ident, Tried, Bound, Final, Skipped, Run
    <3> QED
      BY <2>2, <3>2
  <2> QED
    BY <2>3, <2>4
<1> QED
  BY <1>3, <1>4

\* A row that was written before its run is failed, ended or started.
Prepared(r, b) ==
  /\ Ident(r, b) /\ Tried(r, b) /\ Bound(r, b) /\ b.status = r.status /\ b.taken = r.taken
  /\ b.reserved \in {r.reserved, FALSE} /\ b.recovery \in {r.recovery, "other", "none"}

LEMMA PreparedMoves ==
  ASSUME NEW r, NEW b, NEW s, Prepared(r, b), r.tab => r.attempts > 0 /\ r.begun
  PROVE  /\ Closes(b, s) => Closes(r, s)
         /\ Retries(b, s) => Retries(r, s)
         /\ Begins(b, s) /\ ~r.reserved /\ b.tab = r.tab => Begins(r, s)
         /\ Checks(b, s) /\ b.reserved = r.reserved /\ b.tab = r.tab => Checks(r, s)
         /\ Parks(b, s) /\ b.reserved = r.reserved /\ b.tab = r.tab => Parks(r, s)
BY DEF Prepared, Closes, Retries, Begins, Checks, Parks, Ident, Tried, Bound

LEMMA FailFacts ==
  ASSUME NEW rs \in Seq(Run), NEW n \in DOMAIN rs, NEW b \in Run, NEW ss,
         Prepared(rs[n], b), b.tab => b.attempts > 0, rs[n].tab => rs[n].attempts > 0 /\ rs[n].begun,
         ss = FailRun([rs EXCEPT ![n] = b], n)
  PROVE  /\ Touched(rs, ss, n) /\ ss[n].reserved = b.reserved
         /\ \/ (rs[n].status \in Final \/ rs[n].taken) /\ ss[n] = b
            \/ Closes(rs[n], ss[n])
            \/ Retries(rs[n], ss[n])
<1> DEFINE bs == [rs EXCEPT ![n] = b]
<1>1. Touched(rs, bs, n) /\ bs[n] = b
  BY PutFacts
<1>2. bs \in Seq(Run) /\ n \in DOMAIN bs
  BY <1>1 DEF Touched
<1> HIDE DEF bs
<1>3. /\ Touched(bs, ss, n) /\ ss[n].reserved = b.reserved
      /\ \/ (b.status \in Final \/ b.taken) /\ ss = bs
         \/ Closes(b, ss[n]) \/ Retries(b, ss[n])
  BY <1>1, <1>2, FailRunFacts DEF bs
<1>4. Touched(rs, ss, n)
  BY <1>1, <1>3, TouchedTwice
<1>5. Closes(b, ss[n]) => Closes(rs[n], ss[n])
  BY PreparedMoves
<1>6. Retries(b, ss[n]) => Retries(rs[n], ss[n])
  BY PreparedMoves
<1> QED
  BY <1>1, <1>3, <1>4, <1>5, <1>6 DEF Prepared

LEMMA EndFacts ==
  ASSUME NEW rs \in Seq(Run), NEW n \in DOMAIN rs, NEW status \in Final
  PROVE  /\ Touched(rs, WithStatus(rs, n, status), n)
         /\ \/ rs[n].status \in Final /\ WithStatus(rs, n, status) = rs
            \/ /\ Closes(rs[n], WithStatus(rs, n, status)[n])
               /\ WithStatus(rs, n, status)[n].reserved = rs[n].reserved
<1>1. rs[n] \in Run /\ status \in Statuses
  BY LenProperties DEF Statuses
<1>2. CASE rs[n].status \in Final
  <2>1. Touched(rs, WithStatus(rs, n, status), n) /\ WithStatus(rs, n, status) = rs
    BY ZenonT(30), <1>1, <1>2, WithStatusFacts
  <2> QED
    BY <1>2, <2>1
<1>3. CASE rs[n].status \notin Final
  <2> DEFINE s == WithStatus(rs, n, status)[n]
  <2>1. Touched(rs, WithStatus(rs, n, status), n) /\ s = [rs[n] EXCEPT !.status = status]
    BY <1>1, <1>3, WithStatusFacts
  <2>2. Closes(rs[n], s) /\ s.reserved = rs[n].reserved
    <3> HIDE DEF s
    <3> QED
      BY <1>1, <1>3, <2>1 DEF Closes, Ident, Tried, Bound, Run
  <2> QED
    BY <2>1, <2>2
<1> QED
  BY <1>2, <1>3

LEMMA WaitFacts ==
  ASSUME NEW rs \in Seq(Run), NEW n \in DOMAIN rs, NEW status \in {"WaitingForUser", "Dispatched"}
  PROVE  /\ Touched(rs, WithStatus(rs, n, status), n)
         /\ \/ rs[n].status \in Final /\ WithStatus(rs, n, status) = rs
            \/ /\ Waits(rs[n], WithStatus(rs, n, status)[n])
               /\ WithStatus(rs, n, status)[n].status = status
<1>1. rs[n] \in Run /\ status \in Statuses
  BY LenProperties DEF Statuses, InFlight
<1>2. CASE rs[n].status \in Final
  <2>1. Touched(rs, WithStatus(rs, n, status), n) /\ WithStatus(rs, n, status) = rs
    BY ZenonT(30), <1>1, <1>2, WithStatusFacts
  <2> QED
    BY <1>2, <2>1
<1>3. CASE rs[n].status \notin Final
  <2> DEFINE s == WithStatus(rs, n, status)[n]
  <2>1. Touched(rs, WithStatus(rs, n, status), n) /\ s = [rs[n] EXCEPT !.status = status]
    BY <1>1, <1>3, WithStatusFacts
  <2>2. Waits(rs[n], s) /\ s.status = status
    <3> HIDE DEF s
    <3> QED
      BY <1>1, <1>3, <2>1 DEF Waits, Ident, Tried, Run
  <2> QED
    BY <2>1, <2>2
<1> QED
  BY <1>2, <1>3

LEMMA BeginFacts ==
  ASSUME NEW rs \in Seq(Run), NEW n \in DOMAIN rs, CanBegin(rs[n]), conf \in Configs,
         rs[n].recovery = "resuming" => rs[n].tab /\ rs[n].attempts > 0
  PROVE  Touched(rs, Begin(rs, n), n) /\ Begins(rs[n], Begin(rs, n)[n])
<1> DEFINE r == rs[n]
           s == [r EXCEPT !.attempts = @ + 1, !.status = "Dispatching", !.begun = TRUE,
                          !.retry = FALSE]
<1>0. r \in Run
  BY LenProperties
<1>1. r \in Run /\ MaxAttempts \in Nat /\ r.attempts \in 0 .. MaxAttempts
  BY <1>0, ConfFacts DEF Run
<1>2. r.attempts + 1 \in 0 .. MaxAttempts
  BY <1>1 DEF CanBegin, MayRetry
<1>3. s \in Run
  BY <1>1, <1>2 DEF Run, InFlight
<1>4. Begin(rs, n) = [rs EXCEPT ![n] = s]
  BY <1>1, LenProperties DEF Begin, Run
<1>5. Begins(r, s)
  BY <1>1 DEF CanBegin, Begins, Ident, Run
<1> HIDE DEF s
<1> QED
  BY <1>3, <1>4, <1>5, PutFacts

\* dispatch_prechecked: the attempt begins, or the actor goes back with the run
\* parked, ended, failed or, if a person has it, as it is.
LEMMA DispatchFacts ==
  ASSUME NEW rs \in Seq(Run), NEW n \in DOMAIN rs, NEW back, conf \in Configs,
         ~rs[n].tab, rs[n].recovery # "resuming", rs[n].status \notin Final,
         DispatchPrechecked(rs, n, back)
  PROVE  /\ Touched(rs, runs', n)
         /\ \/ /\ Begins(rs[n], runs'[n])
               /\ actor' = [actor EXCEPT !.phase = "launch", !.run = n, !.back = back]
            \/ /\ runs' = rs \/ Closes(rs[n], runs'[n]) \/ Retries(rs[n], runs'[n])
                  \/ Parks(rs[n], runs'[n])
               /\ Return
<1>1. ASSUME BeginAttempt(rs, n, back)
      PROVE  /\ Touched(rs, runs', n)
             /\ \/ /\ Begins(rs[n], runs'[n])
                   /\ actor' = [actor EXCEPT !.phase = "launch", !.run = n, !.back = back]
                \/ /\ runs' = rs \/ Closes(rs[n], runs'[n]) \/ Retries(rs[n], runs'[n])
                   /\ Return
  <2>1. CASE CanBegin(rs[n])
    BY <1>1, <2>1, BeginFacts DEF BeginAttempt, Save
  <2>2. CASE ~CanBegin(rs[n])
    <3>1. runs' = FailRun(rs, n) /\ Return
      BY <1>1, <2>2 DEF BeginAttempt, Fail, Settle
    <3> QED
      BY <3>1, FailRunFacts
  <2> QED
    BY <2>1, <2>2
<1>2. ASSUME runs' = Park(rs, n)
      PROVE  Touched(rs, runs', n) /\ Parks(rs[n], runs'[n])
  <2> DEFINE s == [rs[n] EXCEPT !.status = "Pending", !.retry = TRUE, !.begun = FALSE,
                                !.precheck = FALSE, !.recovery = "waiting"]
  <2>1. rs[n] \in Run
    BY LenProperties
  <2>2. s \in Run
    BY <2>1 DEF Run
  <2>3. runs' = [rs EXCEPT ![n] = s]
    BY <1>2, <2>1, LenProperties DEF Park, Run
  <2>4. Parks(rs[n], s)
    BY <2>1 DEF Parks, Ident, Run
  <2> HIDE DEF s
  <2> QED
    BY <2>2, <2>3, <2>4, PutFacts
<1>3. ASSUME runs' = WithStatus(rs, n, "OverlapSkipped") \/ runs' = WithStatus(rs, n, "Blocked")
      PROVE  Touched(rs, runs', n) /\ (runs' = rs \/ Closes(rs[n], runs'[n]))
  BY <1>3, EndFacts DEF Final, Skipped
<1>4. ASSUME runs' = FailRun(rs, n)
      PROVE  Touched(rs, runs', n)
             /\ (runs' = rs \/ Closes(rs[n], runs'[n]) \/ Retries(rs[n], runs'[n]))
  BY <1>4, FailRunFacts
<1> QED
  BY <1>1, <1>2, <1>3, <1>4 DEF DispatchPrechecked, Save, Block, Fail, Settle

Forgotten(r) == [r EXCEPT !.recovery = "none"]

\* What StartRun does before it decides: the note of an earlier wait goes, and
\* the older pending runs that are replaced end.
LEMMA RestFacts ==
  ASSUME TypeInv, NEW n \in DOMAIN runs, NEW gone \in SUBSET Pending, n \notin gone,
         NEW b, b = Forgotten(runs[n]),
         NEW rest, rest = Superseded([runs EXCEPT ![n] = b], gone)
  PROVE  /\ rest \in Seq(Run) /\ DOMAIN rest = DOMAIN runs
         /\ rest[n] = b
         /\ \A k \in DOMAIN runs \ {n} :
               /\ k \in gone => Closes(runs[k], rest[k])
               /\ k \notin gone => rest[k] = runs[k]
<1> DEFINE fresh == [runs EXCEPT ![n] = b]
<1>1. runs \in Seq(Run) /\ runs[n] \in Run /\ DOMAIN runs = 1 .. Len(runs) /\ Len(runs) \in Nat
  BY TypeFacts
<1>2. b \in Run
  BY <1>1 DEF Forgotten, Run
<1>3. rest = Superseded(fresh, gone)
  OBVIOUS
<1>4. Touched(runs, fresh, n) /\ fresh[n] = b
  BY <1>1, <1>2, PutFacts
<1> HIDE DEF fresh
<1>5. rest = [k \in DOMAIN runs |-> IF k \in gone THEN [fresh[k] EXCEPT !.status = "OverlapSkipped"]
                                    ELSE fresh[k]]
  BY <1>3, <1>4 DEF Superseded, Touched
<1>6. \A k \in DOMAIN runs : fresh[k] \in Run
  BY <1>1, <1>4, LenProperties DEF Touched
<1>7. \A k \in DOMAIN runs : rest[k] \in Run
  <2> TAKE k \in DOMAIN runs
  <2>1. [fresh[k] EXCEPT !.status = "OverlapSkipped"] \in Run
    BY <1>6 DEF Run, Final, Skipped
  <2> QED
    BY <1>5, <1>6, <2>1
<1>8. rest \in Seq(Run) /\ DOMAIN rest = DOMAIN runs
  <2>1. rest \in [1 .. Len(runs) -> Run]
    BY <1>1, <1>5, <1>7
  <2>2. rest \in Seq(Run)
    BY <1>1, <2>1, FunctionIsSeq
  <2> QED
    BY <1>5, <2>2
<1>9. rest[n] = b
  BY <1>4, <1>5
<1>10. ASSUME NEW k \in DOMAIN runs \ {n}, k \in gone
       PROVE  Closes(runs[k], rest[k])
  <2>1. rest[k] = [runs[k] EXCEPT !.status = "OverlapSkipped"] /\ runs[k].status = "Pending"
        /\ runs[k] \in Run
    BY <1>1, <1>4, <1>5, <1>6, <1>10 DEF Touched, Pending
  <2> QED
    BY <2>1 DEF Closes, Ident, Tried, Bound, Final, Skipped, Run
<1>11. \A k \in DOMAIN runs \ {n} : k \notin gone => rest[k] = runs[k]
  BY <1>4, <1>5 DEF Touched
<1> QED
  BY <1>8, <1>9, <1>10, <1>11

-----------------------------------------------------------------------------
(***************************************************************************)
(* What the actions do to the rows, one lemma per action that writes one.  *)
(***************************************************************************)
\* The row and the actor of a loop over runs.
LEMMA TodoFacts ==
  ASSUME TypeInv, actor.todo # {}
  PROVE  /\ Next1 \in actor.todo /\ Next1 \in DOMAIN runs /\ \A k \in actor.todo : Next1 <= k
         /\ Done = [actor EXCEPT !.todo = actor.todo \ {Next1}]
<1>1. actor.todo \subseteq DOMAIN runs /\ actor.todo \subseteq Nat /\ actor \in Actor
  BY TypeFacts
<1>2. Next1 \in actor.todo /\ \A k \in actor.todo : Next1 <= k
  BY <1>1, MinFacts DEF Next1
<1>3. Done = [actor EXCEPT !.todo = actor.todo \ {Next1}]
  BY <1>1 DEF Done, Actor
<1> QED
  BY <1>1, <1>2, <1>3

LEMMA ReconcileFacts ==
  ASSUME TypeInv, RowInv, Reconcile
  PROVE  LET n == Next1 IN
         /\ n \in actor.todo /\ n \in DOMAIN runs /\ actor.phase = "reconcile"
         /\ actor' = [actor EXCEPT !.todo = actor.todo \ {n}]
         /\ Touched(runs, runs', n)
         /\ UNCHANGED <<now, cursor, claimed, jobs, mail, conf, startedAt, lost, slipped, strays, crashes>>
         /\ \/ runs' = runs /\ UNCHANGED proc /\ SkipsReconcile(n)
            \/ /\ ~SkipsReconcile(n) /\ runs[n].recovery = "resuming"
               /\ proc' = [proc EXCEPT ![n] = IF @ = "attached" THEN "gone" ELSE @]
               /\ runs'[n].reserved = runs[n].reserved
               /\ \/ Holds(runs[n], runs'[n])
                  \/ Closes(runs[n], runs'[n])
                  \/ Retries(runs[n], runs'[n])
            \/ /\ ~SkipsReconcile(n) /\ UNCHANGED proc
               /\ Holds(runs[n], runs'[n]) /\ ~runs'[n].reserved /\ proc[n] \in {"attached", "gone"}
            \/ /\ ~SkipsReconcile(n) /\ UNCHANGED proc
               /\ Holds(runs[n], runs'[n]) /\ runs'[n].reserved /\ proc[n] \in Outlived \cup {"none"}
            \/ /\ ~SkipsReconcile(n) /\ UNCHANGED proc /\ proc[n] = "gone"
               /\ ~runs'[n].reserved
               /\ Closes(runs[n], runs'[n]) \/ Retries(runs[n], runs'[n])
<1> DEFINE n == Next1
           r == runs[n]
           free == [r EXCEPT !.reserved = FALSE]
           other == [r EXCEPT !.recovery = "other"]
           both == [free EXCEPT !.recovery = "other"]
           held == [r EXCEPT !.reserved = TRUE, !.recovery = "other"]
<1>1. /\ n \in actor.todo /\ n \in DOMAIN runs /\ actor.phase = "reconcile"
      /\ actor' = [actor EXCEPT !.todo = actor.todo \ {n}]
      /\ UNCHANGED <<now, cursor, claimed, jobs, mail, conf, startedAt, lost, slipped, strays, crashes>>
  BY TodoFacts DEF Reconcile, Working, schedule, host, memory
<1>2. runs \in Seq(Run) /\ r \in Run /\ DOMAIN runs = 1 .. Len(runs)
  BY <1>1, TypeFacts
<1>3. r.tab => r.attempts > 0 /\ r.begun
  BY <1>1 DEF RowInv, RowOK
<1>4. free \in Run /\ other \in Run /\ held \in Run /\ both \in Run
  BY <1>2 DEF Run
<1>5. Holds(r, free) /\ Holds(r, other) /\ Holds(r, held) /\ Holds(r, both)
      /\ ~free.reserved /\ held.reserved /\ ~both.reserved /\ other.reserved = r.reserved
  BY <1>2 DEF Holds, Ident, Tried, Run
<1>6. /\ Prepared(r, other) /\ (other.tab => other.attempts > 0)
      /\ Prepared(r, both) /\ (both.tab => both.attempts > 0)
  BY <1>2, <1>3 DEF Prepared, Ident, Tried, Bound, Run
<1>7. /\ [runs EXCEPT ![n].reserved = FALSE] = [runs EXCEPT ![n] = free]
      /\ [runs EXCEPT ![n].recovery = "other"] = [runs EXCEPT ![n] = other]
      /\ [runs EXCEPT ![n].reserved = TRUE, ![n].recovery = "other"] = [runs EXCEPT ![n] = held]
      /\ [[runs EXCEPT ![n].reserved = FALSE] EXCEPT ![n].recovery = "other"]
            = [runs EXCEPT ![n] = both]
  BY <1>1, <1>2
<1>8. \/ SkipsReconcile(n) /\ runs' = runs /\ UNCHANGED proc
      \/ /\ ~SkipsReconcile(n) /\ r.recovery = "resuming"
         /\ proc' = [proc EXCEPT ![n] = IF @ = "attached" THEN "gone" ELSE @]
         /\ runs' = FailRun([runs EXCEPT ![n] = other], n)
      \/ /\ ~SkipsReconcile(n) /\ proc[n] = "attached" /\ UNCHANGED proc
         /\ runs' = [runs EXCEPT ![n] = free]
      \/ /\ ~SkipsReconcile(n) /\ proc[n] \in Outlived \cup {"none"} /\ UNCHANGED proc
         /\ runs' = [runs EXCEPT ![n] = held]
      \/ /\ ~SkipsReconcile(n) /\ proc[n] = "gone" /\ UNCHANGED proc
         /\ r.status \in Final /\ runs' = [runs EXCEPT ![n] = free]
      \/ /\ ~SkipsReconcile(n) /\ proc[n] = "gone" /\ UNCHANGED proc
         /\ r.status \notin Final /\ runs' = FailRun([runs EXCEPT ![n] = both], n)
  BY <1>7 DEF Reconcile, Save, Fail, Settle
<1>9. ~SkipsReconcile(n) => ~r.taken
  BY DEF SkipsReconcile
<1> HIDE DEF free, other, both, held
<1>10. CASE SkipsReconcile(n) /\ runs' = runs /\ UNCHANGED proc
  BY <1>1, <1>2, <1>10 DEF Touched
<1>11. CASE /\ ~SkipsReconcile(n) /\ r.recovery = "resuming"
            /\ proc' = [proc EXCEPT ![n] = IF @ = "attached" THEN "gone" ELSE @]
            /\ runs' = FailRun([runs EXCEPT ![n] = other], n)
  <2>1. /\ Touched(runs, runs', n) /\ runs'[n].reserved = r.reserved
        /\ runs'[n] = other \/ Closes(r, runs'[n]) \/ Retries(r, runs'[n])
    <3> HIDE DEF n
    <3>1. /\ runs \in Seq(Run) /\ n \in DOMAIN runs /\ other \in Run /\ Prepared(runs[n], other)
          /\ (other.tab => other.attempts > 0)
          /\ (runs[n].tab => runs[n].attempts > 0 /\ runs[n].begun)
          /\ runs' = FailRun([runs EXCEPT ![n] = other], n)
      BY <1>1, <1>2, <1>3, <1>4, <1>6, <1>11
    <3> QED
      BY <1>5, <3>1, FailFacts
  <2> QED
    BY <1>1, <1>5, <1>11, <2>1
<1>12. CASE /\ ~SkipsReconcile(n) /\ proc[n] \in {"attached", "gone"} /\ UNCHANGED proc
            /\ runs' = [runs EXCEPT ![n] = free]
  <2>1. Touched(runs, runs', n) /\ runs'[n] = free
    BY <1>1, <1>2, <1>4, <1>12, PutFacts
  <2> QED
    BY <1>1, <1>5, <1>12, <2>1
<1>13. CASE /\ ~SkipsReconcile(n) /\ proc[n] \in Outlived \cup {"none"} /\ UNCHANGED proc
            /\ runs' = [runs EXCEPT ![n] = held]
  <2>1. Touched(runs, runs', n) /\ runs'[n] = held
    BY <1>1, <1>2, <1>4, <1>13, PutFacts
  <2> QED
    BY <1>1, <1>5, <1>13, <2>1
<1>14. CASE /\ ~SkipsReconcile(n) /\ proc[n] = "gone" /\ UNCHANGED proc
            /\ r.status \notin Final /\ runs' = FailRun([runs EXCEPT ![n] = both], n)
  <2>1. /\ Touched(runs, runs', n) /\ runs'[n].reserved = both.reserved
        /\ \/ (r.status \in Final \/ r.taken) /\ runs'[n] = both
           \/ Closes(r, runs'[n]) \/ Retries(r, runs'[n])
    <3> HIDE DEF n
    <3>1. /\ runs \in Seq(Run) /\ n \in DOMAIN runs /\ both \in Run /\ Prepared(runs[n], both)
          /\ (both.tab => both.attempts > 0)
          /\ (runs[n].tab => runs[n].attempts > 0 /\ runs[n].begun)
          /\ runs' = FailRun([runs EXCEPT ![n] = both], n)
      BY <1>1, <1>2, <1>3, <1>4, <1>6, <1>14
    <3> QED
      BY <3>1, FailFacts
  <2> QED
    BY <1>1, <1>5, <1>9, <1>14, <2>1
<1> QED
  BY <1>8, <1>10, <1>11, <1>12, <1>13, <1>14

\* decide_overlap: only older pending runs are replaced, and a run that may
\* proceed finds every older one ended or replaced.
LEMMA DecideFacts ==
  ASSUME TypeInv, NEW n \in DOMAIN runs, NEW policy \in Policies
  PROVE  LET overlap == DecideOverlap(policy, n) IN
         /\ \A k \in overlap.superseded : k \in Pending /\ k < n
         /\ overlap.decision \in {"Proceed", "Wait"} \cup Skipped
         /\ overlap.decision = "Proceed" /\ policy # "ForceParallel" =>
               \A k \in DOMAIN runs : k < n => runs[k].status \in Final \/ k \in overlap.superseded
<1> DEFINE others  == ActiveRuns \ {n}
           older   == {m \in others \cap Pending : m < n}
           newer   == {m \in others \cap Pending : m > n}
           running == others \ Pending
           overlap == DecideOverlap(policy, n)
<1>1. \A k \in DOMAIN runs : k < n => runs[k].status \in Final \/ k \in running \cup older
  BY TypeFacts DEF ActiveRuns
<1>2. \A k \in older : k \in Pending /\ k < n
  OBVIOUS
<1>3. \A k \in others : runs[k].status \notin Final /\ k \in DOMAIN runs
  BY DEF ActiveRuns
<1>4. CASE policy = "ForceParallel"
  <2>1. overlap.decision = "Proceed" /\ overlap.superseded = {}
    BY <1>4 DEF DecideOverlap
  <2> QED
    BY <1>4, <2>1
<1>5. CASE policy = "Skip"
  <2>1. overlap.superseded = {} /\ overlap.decision = IF others # {} THEN "OverlapSkipped" ELSE "Proceed"
    BY <1>5 DEF DecideOverlap
  <2> QED
    BY <1>1, <2>1 DEF Skipped
<1>6. CASE policy = "RunLatestOnce"
  <2>1. CASE newer # {}
    <3>1. overlap.superseded = {} /\ overlap.decision = "OverlapSkipped"
      BY <1>6, <2>1 DEF DecideOverlap
    <3> QED
      BY <3>1 DEF Skipped
  <2>2. CASE newer = {}
    <3>1. overlap.superseded = older /\ overlap.decision = IF running # {} THEN "Wait" ELSE "Proceed"
      BY <1>6, <2>2 DEF DecideOverlap
    <3> QED
      BY <1>1, <1>2, <3>1
  <2> QED
    BY <2>1, <2>2
<1>7. CASE policy = "Queue"
  <2>1. Cardinality(older) \in Nat /\ QueueCap \in Nat
    <3>1. IsFiniteSet(DOMAIN runs) /\ conf \in Configs
      BY TypeFacts, FS_Interval DEF TypeInv
    <3>2. older \in SUBSET DOMAIN runs
      BY DEF Pending
    <3>3. IsFiniteSet(older)
      BY <3>1, <3>2, FS_Subset
    <3> QED
      BY <3>1, <3>3, FS_CardinalityType, ConfFacts
  <2>2. /\ overlap.superseded = {}
        /\ overlap.decision = CASE Cardinality(older) >= QueueCap -> "QueueLimitSkipped"
             [] running \cup older # {} /\ Cardinality(older) < QueueCap -> "Wait"
             [] OTHER -> "Proceed"
    BY <1>7 DEF DecideOverlap
  <2> HIDE DEF older, running
  <2>3. \/ overlap.decision = "QueueLimitSkipped"
        \/ overlap.decision = "Wait"
        \/ overlap.decision = "Proceed" /\ running \cup older = {}
    BY <2>1, <2>2
  <2> QED
    BY <1>1, <2>2, <2>3 DEF Skipped
<1> QED
  BY <1>4, <1>5, <1>6, <1>7 DEF Policies

\* The run starts a precheck or an attempt only if the older ones have ended,
\* unless its policy lets it run beside them.
Cleared(n) ==
  runs[n].policy # "ForceParallel" => \A k \in DOMAIN runs : k < n => runs'[k].status \in Final

LEMMA StartRunFacts ==
  ASSUME TypeInv, RowInv, ActorInv, StartRun
  PROVE  LET n == actor.run IN
         /\ actor.phase = "start" /\ n \in DOMAIN runs
         /\ runs[n].status = "Pending" /\ ~runs[n].tab /\ ~runs[n].reserved
         /\ UNCHANGED <<now, cursor, claimed, proc, mail, conf, startedAt, lost, slipped, strays, crashes>>
         /\ runs' \in Seq(Run) /\ DOMAIN runs' = DOMAIN runs
         /\ \A k \in DOMAIN runs \ {n} :
               \/ runs'[k] = runs[k]
               \/ k < n /\ runs[k].status = "Pending" /\ Closes(runs[k], runs'[k])
         /\ \/ /\ n \in jobs \/ TargetReserved(n)
               /\ Touched(runs, runs', n) /\ (runs'[n] = runs[n] \/ Marks(runs[n], runs'[n]))
               /\ Return /\ UNCHANGED jobs
            \/ /\ \/ Marks(runs[n], runs'[n]) \/ Closes(runs[n], runs'[n])
                  \/ Retries(runs[n], runs'[n]) \/ Parks(runs[n], runs'[n])
               /\ Return /\ UNCHANGED jobs
            \/ /\ ~TargetReserved(n) /\ Cleared(n)
               /\ Checks(runs[n], runs'[n]) /\ HasPrecheck
               /\ Return /\ jobs' = jobs \cup {n}
            \/ /\ ~TargetReserved(n) /\ Cleared(n)
               /\ Begins(runs[n], runs'[n])
               /\ actor' = [actor EXCEPT !.phase = "launch", !.run = n, !.back = actor.back]
               /\ UNCHANGED jobs
<1> DEFINE n == actor.run
           r == runs[n]
           overlap == DecideOverlap(r.policy, n)
           rest == Superseded([runs EXCEPT ![n].recovery = "none"], overlap.superseded)
           b == [r EXCEPT !.recovery = "none"]
           noted == [r EXCEPT !.recovery = "other", !.retry = TRUE]
<1>1. /\ actor.phase = "start" /\ n \in DOMAIN runs /\ r.status = "Pending" /\ ~r.tab
      /\ UNCHANGED <<now, cursor, claimed, proc, mail, conf, startedAt, lost, slipped, strays, crashes>>
  BY DEF StartRun, ActorInv, schedule, host, memory
<1>2. runs \in Seq(Run) /\ r \in Run /\ DOMAIN runs = 1 .. Len(runs) /\ conf \in Configs
      /\ DOMAIN runs \subseteq Nat
  BY <1>1, TypeFacts DEF TypeInv
<1>3. ~r.reserved /\ r.recovery # "resuming"
  BY <1>1 DEF RowInv, RowOK
<1>4. r.policy \in Policies /\ r.recovery \in {"none", "waiting", "resuming", "other"}
  BY <1>1, <1>2, RowFacts
<1>5. /\ \A k \in overlap.superseded : k \in Pending /\ k < n
      /\ overlap.decision \in {"Proceed", "Wait"} \cup Skipped
      /\ overlap.decision = "Proceed" /\ r.policy # "ForceParallel" =>
            \A k \in DOMAIN runs : k < n => runs[k].status \in Final \/ k \in overlap.superseded
  BY <1>1, <1>4, DecideFacts
<1>6. overlap.superseded \subseteq Pending /\ n \notin overlap.superseded
  BY <1>1, <1>2, <1>5
<1>0. rest = Superseded([runs EXCEPT ![n].recovery = "none"], overlap.superseded)
  OBVIOUS
<1> HIDE DEF overlap, n, rest
<1>7. /\ rest \in Seq(Run) /\ DOMAIN rest = DOMAIN runs /\ rest[n] = b
      /\ \A k \in DOMAIN runs \ {n} :
            /\ k \in overlap.superseded => Closes(runs[k], rest[k])
            /\ k \notin overlap.superseded => rest[k] = runs[k]
  <2> DEFINE gone == overlap.superseded
  <2>1. /\ gone \in SUBSET Pending /\ n \notin gone /\ n \in DOMAIN runs
        /\ rest = Superseded([runs EXCEPT ![n] = b], gone)
        /\ b = Forgotten(runs[n])
    BY <1>0, <1>1, <1>6 DEF Forgotten
  <2> HIDE DEF gone, r, b
  <2>2. /\ rest \in Seq(Run) /\ DOMAIN rest = DOMAIN runs
        /\ rest[n] = b
        /\ \A k \in DOMAIN runs \ {n} :
              /\ k \in gone => Closes(runs[k], rest[k])
              /\ k \notin gone => rest[k] = runs[k]
    <3>1. rest \in Seq(Run) /\ DOMAIN rest = DOMAIN runs
      BY <2>1, RestFacts
    <3>2. rest[n] = b
      BY <2>1, RestFacts
    <3>3. \A k \in DOMAIN runs \ {n} : k \in gone => Closes(runs[k], rest[k])
      BY <2>1, RestFacts
    <3>4. \A k \in DOMAIN runs \ {n} : k \notin gone => rest[k] = runs[k]
      BY <2>1, RestFacts
    <3> QED
      BY <3>1, <3>2, <3>3, <3>4
  <2> QED
    BY <2>2 DEF gone
<1>8. \A k \in DOMAIN runs \ {n} :
         \/ rest[k] = runs[k]
         \/ k < n /\ runs[k].status = "Pending" /\ Closes(runs[k], rest[k])
  BY <1>5, <1>7 DEF Pending
<1>9. ASSUME overlap.decision = "Proceed", r.policy # "ForceParallel"
      PROVE  \A k \in DOMAIN runs : k < n => rest[k].status \in Final
  <2> SUFFICES ASSUME NEW k \in DOMAIN runs, k < n
               PROVE  rest[k].status \in Final
    OBVIOUS
  <2>1. k # n /\ (runs[k].status \in Final \/ k \in overlap.superseded)
    BY <1>1, <1>2, <1>5, <1>9
  <2>2. Closes(runs[k], rest[k]) \/ (rest[k] = runs[k] /\ runs[k].status \in Final)
    BY <1>7, <2>1
  <2> QED
    BY <2>2 DEF Closes
<1>10. Prepared(r, b) /\ Marks(r, b) /\ Marks(r, noted) /\ noted \in Run /\ b \in Run
       /\ b.status = "Pending" /\ ~b.tab /\ b.recovery = "none" /\ b.reserved = r.reserved /\ b.tab = r.tab
       /\ b.precheck = r.precheck
  BY <1>1, <1>2 DEF Prepared, Marks, Ident, Tried, Bound, Run
<1>11. [runs EXCEPT ![n].recovery = "other", ![n].retry = TRUE] = [runs EXCEPT ![n] = noted]
  BY <1>1, <1>2
<1>12. \/ n \in jobs /\ runs' = runs /\ Return /\ UNCHANGED jobs
       \/ TargetReserved(n) /\ runs' = [runs EXCEPT ![n] = noted] /\ Return /\ UNCHANGED jobs
       \/ ~TargetReserved(n) /\ runs' = rest /\ Return /\ UNCHANGED jobs
       \/ /\ ~TargetReserved(n) /\ overlap.decision \in Skipped
          /\ runs' = WithStatus(rest, n, overlap.decision) /\ Return /\ UNCHANGED jobs
       \/ /\ ~TargetReserved(n) /\ overlap.decision = "Proceed"
          /\ \/ runs' = WithStatus(rest, n, "Blocked") /\ Return /\ UNCHANGED jobs
             \/ HasPrecheck /\ rest[n].precheck /\ StartPrecheck(rest, n)
             \/ DispatchPrechecked(rest, n, actor.back) /\ UNCHANGED jobs
       \/ runs' = WithStatus(runs, n, "Blocked") /\ Return /\ UNCHANGED jobs
  BY <1>5, <1>11 DEF StartRun, Save, Block, n, overlap, rest
<1> HIDE DEF b, noted
<1>13. CASE n \in jobs /\ runs' = runs /\ Return /\ UNCHANGED jobs
  BY <1>1, <1>2, <1>3, <1>13 DEF Touched, n
<1>14. CASE TargetReserved(n) /\ runs' = [runs EXCEPT ![n] = noted] /\ Return /\ UNCHANGED jobs
  <2>1. Touched(runs, runs', n) /\ runs'[n] = noted
    BY <1>1, <1>2, <1>10, <1>14, PutFacts
  <2> QED
    BY <1>1, <1>3, <1>10, <1>14, <2>1 DEF Touched, n
<1>15. CASE ~TargetReserved(n) /\ runs' = rest /\ Return /\ UNCHANGED jobs
  BY <1>1, <1>3, <1>7, <1>8, <1>10, <1>15 DEF n
\* Every other row is as in rest.
<1>16. ASSUME Touched(rest, runs', n)
       PROVE  /\ runs' \in Seq(Run) /\ DOMAIN runs' = DOMAIN runs
              /\ \A k \in DOMAIN runs \ {n} : 
                    \/ runs'[k] = runs[k]
                    \/ k < n /\ runs[k].status = "Pending" /\ Closes(runs[k], runs'[k])
              /\ overlap.decision = "Proceed" => Cleared(n)
  <2>1. \A k \in DOMAIN runs \ {n} : runs'[k] = rest[k]
    BY <1>7, <1>16 DEF Touched
  <2>2. \A k \in DOMAIN runs : k < n => k # n
    BY <1>1, <1>2
  <2> QED
    BY <1>7, <1>8, <1>9, <1>16, <2>1, <2>2 DEF Touched, Cleared
<1>17. CASE /\ ~TargetReserved(n) /\ overlap.decision \in Skipped
            /\ runs' = WithStatus(rest, n, overlap.decision) /\ Return /\ UNCHANGED jobs
  <2>1. Touched(rest, runs', n) /\ (rest[n].status \in Final \/ Closes(rest[n], runs'[n]))
    BY <1>1, <1>7, <1>17, EndFacts DEF Final
  <2>2. Closes(r, runs'[n])
    BY <1>7, <1>10, <1>1, <2>1, PreparedMoves DEF Final, Skipped
  <2> QED
    BY <1>1, <1>3, <1>16, <1>17, <2>1, <2>2 DEF n
<1>18. CASE /\ ~TargetReserved(n) /\ overlap.decision = "Proceed"
            /\ runs' = WithStatus(rest, n, "Blocked") /\ Return /\ UNCHANGED jobs
  <2>1. Touched(rest, runs', n) /\ (rest[n].status \in Final \/ Closes(rest[n], runs'[n]))
    BY <1>1, <1>7, <1>18, EndFacts DEF Final
  <2>2. Closes(r, runs'[n])
    BY <1>7, <1>10, <1>1, <2>1, PreparedMoves DEF Final, Skipped
  <2> QED
    BY <1>1, <1>3, <1>16, <1>18, <2>1, <2>2 DEF n
<1>19. CASE /\ ~TargetReserved(n) /\ overlap.decision = "Proceed"
            /\ HasPrecheck /\ rest[n].precheck /\ StartPrecheck(rest, n)
  <2> DEFINE s == [b EXCEPT !.status = "Dispatching", !.begun = FALSE, !.retry = FALSE]
  <2>1. s \in Run
    BY <1>10 DEF Run, InFlight
  <2>2. Checks(b, s)
    BY <1>7, <1>10, <1>19 DEF Checks, Ident, Run
  <2>3. runs' = [rest EXCEPT ![n] = s] /\ Return /\ jobs' = jobs \cup {n}
    BY <1>7, <1>1, <1>19 DEF StartPrecheck, Save
  <2> HIDE DEF s
  <2>4. Touched(rest, runs', n) /\ runs'[n] = s
    BY <1>1, <1>7, <2>1, <2>3, PutFacts
  <2>5. Checks(r, s)
    BY <1>1, <1>10, <2>2, PreparedMoves
  <2> QED
    BY <1>1, <1>3, <1>16, <1>19, <2>3, <2>4, <2>5 DEF n
<1>20. CASE /\ ~TargetReserved(n) /\ overlap.decision = "Proceed"
            /\ DispatchPrechecked(rest, n, actor.back) /\ UNCHANGED jobs
  <2>1. ~rest[n].tab /\ rest[n].recovery # "resuming" /\ rest[n].status \notin Final
    BY <1>7, <1>10 DEF Final, Skipped
  <2>2. /\ Touched(rest, runs', n)
        /\ \/ /\ Begins(b, runs'[n])
              /\ actor' = [actor EXCEPT !.phase = "launch", !.run = n, !.back = actor.back]
           \/ /\ runs' = rest \/ Closes(b, runs'[n]) \/ Retries(b, runs'[n]) \/ Parks(b, runs'[n])
              /\ Return
    <3>1. /\ Touched(rest, runs', n)
          /\ \/ /\ Begins(rest[n], runs'[n])
                /\ actor' = [actor EXCEPT !.phase = "launch", !.run = n, !.back = actor.back]
             \/ /\ \/ runs' = rest \/ Closes(rest[n], runs'[n]) \/ Retries(rest[n], runs'[n])
                   \/ Parks(rest[n], runs'[n])
                /\ Return
      <4>1. n \in DOMAIN rest /\ rest \in Seq(Run)
        BY <1>1, <1>7
      <4> QED
        BY <1>2, <1>20, <2>1, <4>1, DispatchFacts
    <3> QED
      BY <1>7, <3>1
  <2>3. /\ Begins(b, runs'[n]) => Begins(r, runs'[n])
        /\ Closes(b, runs'[n]) => Closes(r, runs'[n])
        /\ Retries(b, runs'[n]) => Retries(r, runs'[n])
        /\ Parks(b, runs'[n]) => Parks(r, runs'[n])
        /\ runs' = rest => Marks(r, runs'[n])
    BY <1>1, <1>3, <1>7, <1>10, PreparedMoves
  <2> QED
    BY <1>1, <1>3, <1>16, <1>20, <2>2, <2>3 DEF n
<1>21. CASE runs' = WithStatus(runs, n, "Blocked") /\ Return /\ UNCHANGED jobs
  <2>1. Touched(runs, runs', n) /\ (r.status \in Final \/ Closes(r, runs'[n]))
    BY <1>1, <1>2, <1>21, EndFacts DEF Final
  <2>2. r.status \notin Final
    BY <1>1 DEF Final, Skipped
  <2> QED
    BY <1>1, <1>3, <1>21, <2>1, <2>2 DEF n, Touched
<1> QED
  BY <1>12, <1>13, <1>14, <1>15, <1>17, <1>18, <1>19, <1>20, <1>21

LEMMA LaunchFacts ==
  ASSUME TypeInv, ActorInv, Launch
  PROVE  LET n == actor.run IN
         /\ actor.phase = "launch" /\ n \in DOMAIN runs
         /\ Touched(runs, runs', n) /\ Return
         /\ UNCHANGED <<now, cursor, claimed, jobs, mail, conf, startedAt, lost, slipped, strays, crashes>>
         /\ \/ Opens(runs[n], runs'[n]) /\ proc' = [proc EXCEPT ![n] = "attached"]
            \/ /\ UNCHANGED proc /\ ~runs'[n].reserved
               /\ Closes(runs[n], runs'[n]) \/ Retries(runs[n], runs'[n])
<1> DEFINE n == actor.run
           r == runs[n]
           o == [r EXCEPT !.status = "Dispatched", !.tab = TRUE]
<1>1. /\ actor.phase = "launch" /\ n \in DOMAIN runs /\ r.status = "Dispatching"
      /\ r.begun /\ r.attempts > 0 /\ ~r.reserved /\ ~r.taken
      /\ Return /\ UNCHANGED <<now, cursor, claimed, jobs, mail, conf, startedAt, lost, slipped, strays, crashes>>
  BY DEF Launch, ActorInv, schedule, host, memory
<1>2. runs \in Seq(Run) /\ r \in Run
  BY <1>1, TypeFacts
<1>3. o \in Run /\ Opens(r, o)
  BY <1>1, <1>2 DEF Run, InFlight, Opens, Ident, Tried
<1>4. [runs EXCEPT ![n].status = "Dispatched", ![n].tab = TRUE] = [runs EXCEPT ![n] = o]
  BY <1>1, <1>2
<1>5. r.status \notin Final
  BY <1>1 DEF Final, Skipped
<1>6. \/ runs' = [runs EXCEPT ![n] = o] /\ proc' = [proc EXCEPT ![n] = "attached"]
      \/ \E bound \in {r.tab, TRUE} :
            runs' = FailRun([runs EXCEPT ![n].tab = bound], n) /\ UNCHANGED proc
      \/ runs' = WithStatus(runs, n, "Blocked") /\ UNCHANGED proc
  BY <1>4 DEF Launch, Save, Fail, Settle, Block
<1> HIDE DEF o
<1>7. CASE runs' = [runs EXCEPT ![n] = o] /\ proc' = [proc EXCEPT ![n] = "attached"]
  <2>1. Touched(runs, runs', n) /\ runs'[n] = o
    BY <1>1, <1>2, <1>3, <1>7, PutFacts
  <2> QED
    BY <1>1, <1>3, <1>7, <2>1
<1>8. ASSUME NEW bound \in {r.tab, TRUE}, UNCHANGED proc,
             runs' = FailRun([runs EXCEPT ![n].tab = bound], n)
      PROVE  /\ Touched(runs, runs', n) /\ ~runs'[n].reserved
             /\ Closes(runs[n], runs'[n]) \/ Retries(runs[n], runs'[n])
  <2> DEFINE b == [r EXCEPT !.tab = bound]
  <2>1. b \in Run
    BY <1>2 DEF Run
  <2>2. Prepared(r, b) /\ (b.tab => b.attempts > 0) /\ ~b.reserved
    BY <1>1, <1>2 DEF Prepared, Ident, Tried, Bound, Run
  <2>3. runs' = FailRun([runs EXCEPT ![n] = b], n)
    BY <1>1, <1>2, <1>8
  <2> HIDE DEF b, n
  <2>4. /\ runs \in Seq(Run) /\ n \in DOMAIN runs /\ Prepared(runs[n], b)
        /\ (runs[n].tab => runs[n].attempts > 0 /\ runs[n].begun)
    BY <1>1, <1>2, <2>2
  <2>5. /\ Touched(runs, runs', n) /\ runs'[n].reserved = b.reserved
        /\ \/ (runs[n].status \in Final \/ runs[n].taken) /\ runs'[n] = b
           \/ Closes(runs[n], runs'[n]) \/ Retries(runs[n], runs'[n])
    BY <2>1, <2>2, <2>3, <2>4, FailFacts
  <2> QED
    BY <1>1, <1>5, <2>2, <2>5
<1>9. CASE runs' = WithStatus(runs, n, "Blocked") /\ UNCHANGED proc
  <2>1. /\ Touched(runs, runs', n)
        /\ r.status \in Final \/ (Closes(r, runs'[n]) /\ runs'[n].reserved = r.reserved)
    BY <1>1, <1>2, <1>9, EndFacts DEF Final
  <2> QED
    BY <1>1, <1>5, <1>9, <2>1
<1> QED
  BY <1>1, <1>6, <1>7, <1>8, <1>9

LEMMA FinishPrecheckFacts ==
  ASSUME TypeInv, RowInv, ActorInv, PrecheckInv, NEW n \in Number, FinishPrecheck(n)
  PROVE  /\ actor.phase = "idle" /\ actor = Idle /\ n \in jobs /\ jobs' = jobs \ {n}
         /\ n \in DOMAIN runs /\ Touched(runs, runs', n)
         /\ UNCHANGED <<now, cursor, claimed, proc, mail, conf, startedAt, lost, slipped, strays, crashes>>
         /\ \/ runs' = runs /\ actor' = Idle
            \/ /\ ~runs[n].tab /\ ~runs[n].reserved /\ runs[n].status \in InFlight
               /\ \/ /\ \/ Waits(runs[n], runs'[n]) \/ Closes(runs[n], runs'[n])
                        \/ Retries(runs[n], runs'[n]) \/ Parks(runs[n], runs'[n])
                     /\ actor' = Idle
                  \/ /\ Begins(runs[n], runs'[n])
                     /\ actor' = [actor EXCEPT !.phase = "launch", !.run = n, !.back = "idle"]
<1> DEFINE r == runs[n]
<1>1. /\ actor.phase = "idle" /\ actor = Idle /\ n \in jobs /\ jobs' = jobs \ {n}
      /\ UNCHANGED <<now, cursor, claimed, proc, mail, conf, startedAt, lost, slipped, strays, crashes>>
  BY DEF FinishPrecheck, AtRest, ActorInv, schedule, host, memory
<1>2. n \in DOMAIN runs
  BY <1>1 DEF TypeInv, TypeOK
<1>3. runs \in Seq(Run) /\ r \in Run /\ conf \in Configs
  BY <1>2, TypeFacts DEF TypeInv
<1>4. Return => actor' = Idle
  BY <1>1 DEF Return, Idle
<1>5. CASE runs' = runs /\ UNCHANGED actor
  BY <1>1, <1>2, <1>3, <1>5 DEF Touched
<1>6. ASSUME r.status \in {"Dispatching", "WaitingForUser"}
      PROVE  r.status \notin Final /\ ~r.tab /\ ~r.reserved /\ r.recovery # "resuming"
             /\ r.status \in InFlight
  <2>1. r.status \notin Final
    BY <1>6 DEF Final, Skipped
  <2>2. Unanswered(r)
    BY <1>1, <2>1 DEF PrecheckInv
  <2>3. RowOK(r, proc[n], mail[n])
    BY <1>2 DEF RowInv
  <2> QED
    BY <1>6, <2>1, <2>2, <2>3 DEF Unanswered, RowOK, InFlight
<1>7. CASE /\ r.status \in {"Dispatching", "WaitingForUser"}
           /\ runs' = WithStatus(runs, n, "WaitingForUser") /\ UNCHANGED actor
  <2>1. Touched(runs, runs', n) /\ (r.status \in Final \/ Waits(r, runs'[n]))
    BY <1>2, <1>3, <1>7, WaitFacts
  <2> QED
    BY <1>1, <1>2, <1>6, <1>7, <2>1
<1>8. CASE /\ r.status \in {"Dispatching", "WaitingForUser"}
           /\ \/ runs' = WithStatus(runs, n, "Cancelled")
              \/ runs' = WithStatus(runs, n, "PrecheckSkipped")
           /\ UNCHANGED actor
  <2>1. Touched(runs, runs', n) /\ (r.status \in Final \/ Closes(r, runs'[n]))
    BY <1>2, <1>3, <1>8, EndFacts DEF Final, Skipped
  <2> QED
    BY <1>1, <1>2, <1>6, <1>8, <2>1
<1>9. CASE r.status \in {"Dispatching", "WaitingForUser"} /\ DispatchPrechecked(runs, n, "idle")
  <2>1. /\ Touched(runs, runs', n)
        /\ \/ /\ Begins(runs[n], runs'[n])
              /\ actor' = [actor EXCEPT !.phase = "launch", !.run = n, !.back = "idle"]
           \/ /\ \/ runs' = runs \/ Closes(runs[n], runs'[n]) \/ Retries(runs[n], runs'[n])
                 \/ Parks(runs[n], runs'[n])
              /\ Return
    BY <1>2, <1>3, <1>6, <1>9, DispatchFacts
  <2> QED
    BY <1>1, <1>2, <1>4, <1>6, <1>9, <2>1
<1> QED
  BY <1>5, <1>7, <1>8, <1>9 DEF FinishPrecheck, Save

LEMMA ResumeFacts ==
  ASSUME TypeInv, RowInv, ActorInv, Resume
  PROVE  LET n == Next1 IN
         /\ n \in actor.todo /\ n \in DOMAIN runs /\ actor.phase = "resume"
         /\ \A k \in actor.todo : n <= k
         /\ runs[n].status = "Pending" /\ Touched(runs, runs', n)
         /\ UNCHANGED <<now, cursor, claimed, proc, jobs, mail, conf, startedAt, lost, slipped, strays, crashes>>
         /\ \/ /\ runs' = runs /\ ~runs[n].tab
               /\ actor' = [actor EXCEPT !.todo = actor.todo \ {n}, !.phase = "start", !.run = n,
                                         !.back = "resume"]
            \/ /\ \/ runs' = runs \/ Closes(runs[n], runs'[n])
                  \/ Retries(runs[n], runs'[n]) /\ runs'[n].reserved = runs[n].reserved
               /\ actor' = [actor EXCEPT !.todo = actor.todo \ {n}]
            \/ /\ Begins(runs[n], runs'[n]) /\ runs[n].tab /\ proc[n] # "attached"
               /\ actor' = [actor EXCEPT !.todo = actor.todo \ {n}, !.phase = "launch", !.run = n,
                                         !.back = "resume"]
<1> DEFINE n == Next1
           r == runs[n]
<1>1. /\ n \in actor.todo /\ n \in DOMAIN runs /\ actor.phase = "resume"
      /\ \A k \in actor.todo : n <= k
      /\ UNCHANGED <<now, cursor, claimed, proc, jobs, mail, conf, startedAt, lost, slipped, strays, crashes>>
  BY TodoFacts DEF Resume, Working, schedule, host, memory
<1>2. r.status = "Pending"
  BY <1>1 DEF ActorInv, Resuming
<1>3. runs \in Seq(Run) /\ r \in Run /\ conf \in Configs /\ r.attempts \in Nat
  BY <1>1, TypeFacts, RowFacts DEF TypeInv
<1>4. RowOK(r, proc[n], mail[n])
  BY <1>1 DEF RowInv
<1>5. /\ ~Interrupted(r) => ~r.tab
      /\ Interrupted(r) => r.tab /\ r.attempts > 0
      /\ r.tab => r.attempts > 0 /\ r.begun
  BY <1>2, <1>4 DEF Interrupted, RowOK
<1>6. /\ Done = [actor EXCEPT !.todo = actor.todo \ {n}]
      /\ [Done EXCEPT !.phase = "start", !.run = n, !.back = "resume"]
           = [actor EXCEPT !.todo = actor.todo \ {n}, !.phase = "start", !.run = n,
                           !.back = "resume"]
      /\ [Done EXCEPT !.phase = "launch", !.run = n, !.back = "resume"]
           = [actor EXCEPT !.todo = actor.todo \ {n}, !.phase = "launch", !.run = n,
                           !.back = "resume"]
  BY <1>1, TodoFacts
<1>7. \/ runs' = runs /\ ~Interrupted(r)
         /\ actor' = [Done EXCEPT !.phase = "start", !.run = n, !.back = "resume"]
      \/ runs' = runs /\ actor' = Done
      \/ runs' = WithStatus(runs, n, "Blocked") /\ actor' = Done
      \/ /\ Interrupted(r) /\ proc[n] # "attached" /\ CanBegin(r)
         /\ \E how \in {"resuming", "other"} :
               runs' = Begin([runs EXCEPT ![n].recovery = how], n)
         /\ actor' = [Done EXCEPT !.phase = "launch", !.run = n, !.back = "resume"]
      \/ runs' = FailRun(runs, n) /\ actor' = Done
  BY DEF Resume, Save, Block, Fail, Settle
<1>8. CASE runs' = runs /\ ~Interrupted(r)
           /\ actor' = [Done EXCEPT !.phase = "start", !.run = n, !.back = "resume"]
  BY <1>1, <1>2, <1>3, <1>5, <1>6, <1>8 DEF Touched
<1>9. CASE runs' = runs /\ actor' = Done
  BY <1>1, <1>2, <1>3, <1>6, <1>9 DEF Touched
<1>10. CASE runs' = WithStatus(runs, n, "Blocked") /\ actor' = Done
  <2>1. Touched(runs, runs', n) /\ (r.status \in Final \/ Closes(r, runs'[n]))
    BY <1>1, <1>3, <1>10, EndFacts DEF Final
  <2> QED
    BY <1>1, <1>2, <1>6, <1>10, <2>1 DEF Final, Skipped
<1>11. CASE /\ Interrupted(r) /\ proc[n] # "attached" /\ CanBegin(r)
            /\ \E how \in {"resuming", "other"} :
                  runs' = Begin([runs EXCEPT ![n].recovery = how], n)
            /\ actor' = [Done EXCEPT !.phase = "launch", !.run = n, !.back = "resume"]
  <2>1. PICK how \in {"resuming", "other"} : runs' = Begin([runs EXCEPT ![n].recovery = how], n)
    BY <1>11
  <2> DEFINE b == [r EXCEPT !.recovery = how]
             bs == [runs EXCEPT ![n] = b]
  <2>2. b \in Run /\ Ident(r, b) /\ Tried(r, b) /\ b.tab = r.tab /\ b.status = r.status
        /\ b.reserved = r.reserved /\ b.taken = r.taken /\ b.cancel = r.cancel
        /\ b.overdue = r.overdue
    BY <1>3 DEF Run, Ident, Tried
  <2>3. runs' = Begin(bs, n)
    BY <1>1, <1>3, <2>1
  <2> HIDE DEF b, n
  <2>4. Touched(runs, bs, n) /\ bs[n] = b
    BY <1>1, <1>3, <2>2, PutFacts
  <2>5. bs \in Seq(Run) /\ n \in DOMAIN bs
    BY <1>1, <2>4 DEF Touched
  <2> HIDE DEF bs
  <2>6. CanBegin(bs[n]) /\ (bs[n].tab /\ bs[n].attempts > 0)
    BY <1>5, <1>11, <2>2, <2>4 DEF CanBegin, MayRetry, Tried
  <2>7. Touched(bs, runs', n) /\ Begins(b, runs'[n])
    BY <1>3, <2>3, <2>4, <2>5, <2>6, BeginFacts
  <2>8. Touched(runs, runs', n)
    BY <2>4, <2>7, TouchedTwice
  <2>9. Begins(r, runs'[n])
    BY <2>2, <2>7 DEF Begins, Ident, Tried
  <2> QED
    BY <1>1, <1>2, <1>5, <1>6, <1>11, <2>8, <2>9 DEF n
<1>12. CASE runs' = FailRun(runs, n) /\ actor' = Done
  <2>1. /\ Touched(runs, runs', n) /\ runs'[n].reserved = r.reserved
        /\ runs' = runs \/ Closes(r, runs'[n]) \/ Retries(r, runs'[n])
    BY <1>1, <1>3, <1>5, <1>12, FailRunFacts
  <2> QED
    BY <1>1, <1>2, <1>6, <1>12, <2>1
<1> QED
  BY <1>7, <1>8, <1>9, <1>10, <1>11, <1>12

LEMMA ExpireFacts ==
  ASSUME TypeInv, Expire
  PROVE  LET n == Next1 IN
         /\ n \in actor.todo /\ n \in DOMAIN runs /\ actor.phase = "expire"
         /\ actor' = [actor EXCEPT !.todo = actor.todo \ {n}]
         /\ Touched(runs, runs', n)
         /\ UNCHANGED <<now, cursor, claimed, jobs, mail, conf, startedAt, lost, slipped, strays, crashes>>
         /\ \/ runs' = runs /\ UNCHANGED proc
            \/ /\ n \notin jobs /\ ~runs[n].begun /\ UNCHANGED proc
               /\ Waits(runs[n], runs'[n]) /\ runs'[n].status = "WaitingForUser"
               /\ runs[n].status \in InFlight
            \/ /\ n \notin jobs /\ ~runs[n].begun /\ UNCHANGED proc
               /\ Closes(runs[n], runs'[n]) /\ runs'[n].reserved = runs[n].reserved
            \/ /\ n \notin jobs
               /\ \/ runs' = runs
                  \/ Closes(runs[n], runs'[n]) /\ runs'[n].reserved = runs[n].reserved
               /\ \/ UNCHANGED proc
                  \/ proc[n] = "attached" /\ proc' = [proc EXCEPT ![n] = "gone"]
<1> DEFINE n == Next1
           r == runs[n]
<1>1. /\ n \in actor.todo /\ n \in DOMAIN runs /\ actor.phase = "expire"
      /\ actor' = [actor EXCEPT !.todo = actor.todo \ {n}]
      /\ UNCHANGED <<now, cursor, claimed, jobs, mail, conf, startedAt, lost, slipped, strays, crashes>>
  BY TodoFacts DEF Expire, Working, schedule, host, memory
<1>2. runs \in Seq(Run) /\ r \in Run
  BY <1>1, TypeFacts
<1>3. \/ runs' = runs /\ UNCHANGED proc
      \/ n \notin jobs /\ CutOff(r) /\ runs' = WithStatus(runs, n, "WaitingForUser") /\ UNCHANGED proc
      \/ /\ n \notin jobs /\ ~r.begun /\ UNCHANGED proc
         /\ runs' = WithStatus(runs, n, "Cancelled") \/ runs' = WithStatus(runs, n, "Blocked")
      \/ n \notin jobs /\ (EndOverdue(n, "Cancelled") \/ EndOverdue(n, "Timeout"))
  BY DEF Expire, Save, Block, CutOff
<1>4. CASE runs' = runs /\ UNCHANGED proc
  BY <1>1, <1>2, <1>4 DEF Touched
<1>5. CASE n \notin jobs /\ CutOff(r) /\ runs' = WithStatus(runs, n, "WaitingForUser") /\ UNCHANGED proc
  <2>1. /\ Touched(runs, runs', n)
        /\ r.status \in Final \/ (Waits(r, runs'[n]) /\ runs'[n].status = "WaitingForUser")
    BY <1>1, <1>2, <1>5, WaitFacts
  <2>2. r.status \notin Final /\ r.status \in InFlight /\ ~r.begun
    BY <1>5 DEF CutOff, Final, Skipped, InFlight
  <2> QED
    BY <1>1, <1>5, <2>1, <2>2
<1>6. CASE /\ n \notin jobs /\ ~r.begun /\ UNCHANGED proc
           /\ runs' = WithStatus(runs, n, "Cancelled") \/ runs' = WithStatus(runs, n, "Blocked")
  <2>1. /\ Touched(runs, runs', n)
        /\ runs' = runs \/ (Closes(r, runs'[n]) /\ runs'[n].reserved = r.reserved)
    BY <1>1, <1>2, <1>6, EndFacts DEF Final
  <2> QED
    BY <1>1, <1>6, <2>1
<1>7. CASE n \notin jobs /\ (EndOverdue(n, "Cancelled") \/ EndOverdue(n, "Timeout"))
  <2>1. /\ runs' = WithStatus(runs, n, "Cancelled") \/ runs' = WithStatus(runs, n, "Timeout")
        /\ \/ UNCHANGED proc
           \/ proc[n] = "attached" /\ proc' = [proc EXCEPT ![n] = "gone"]
    BY <1>7 DEF EndOverdue, Settle
  <2>2. /\ Touched(runs, runs', n)
        /\ runs' = runs \/ (Closes(r, runs'[n]) /\ runs'[n].reserved = r.reserved)
    BY <1>1, <1>2, <2>1, EndFacts DEF Final
  <2> QED
    BY <1>1, <1>7, <2>1, <2>2
<1> QED
  BY <1>3, <1>4, <1>5, <1>6, <1>7

\* prune_automation_runs: ended rows are marked.
LEMMA PruneFacts ==
  ASSUME NEW rs \in Seq(Run), NEW oldest, NEW ss, ss = PruneRuns(rs, oldest)
  PROVE  /\ ss \in Seq(Run) /\ DOMAIN ss = DOMAIN rs
         /\ \A k \in DOMAIN rs :
               /\ ss[k] \in {rs[k], [rs[k] EXCEPT !.pruned = TRUE]}
               /\ ss[k] = rs[k] \/ (rs[k].status \in Final /\ ss[k].pruned /\ Marks(rs[k], ss[k]))
<1>1. DOMAIN rs = 1 .. Len(rs) /\ Len(rs) \in Nat /\ \A k \in DOMAIN rs : rs[k] \in Run
  BY LenProperties
<1>2. ss = [k \in DOMAIN rs |-> IF k <= oldest /\ rs[k].status \in Final
                                THEN [rs[k] EXCEPT !.pruned = TRUE] ELSE rs[k]]
  BY DEF PruneRuns
<1>3. ASSUME NEW k \in DOMAIN rs
      PROVE  /\ ss[k] \in Run
             /\ ss[k] \in {rs[k], [rs[k] EXCEPT !.pruned = TRUE]}
             /\ ss[k] = rs[k] \/ (rs[k].status \in Final /\ ss[k].pruned /\ Marks(rs[k], ss[k]))
  <2>1. rs[k] \in Run
    BY <1>1
  <2>2. ss[k] = rs[k] \/ (rs[k].status \in Final /\ ss[k] = [rs[k] EXCEPT !.pruned = TRUE])
    BY <1>2
  <2>3. /\ [rs[k] EXCEPT !.pruned = TRUE] \in Run /\ [rs[k] EXCEPT !.pruned = TRUE].pruned
        /\ Marks(rs[k], [rs[k] EXCEPT !.pruned = TRUE])
    BY <2>1 DEF Marks, Ident, Tried, Run
  <2> QED
    BY <2>1, <2>2, <2>3
<1>4. ss \in [1 .. Len(rs) -> Run]
  BY <1>1, <1>2, <1>3
<1>5. ss \in Seq(Run)
  BY <1>1, <1>4, FunctionIsSeq
<1> QED
  BY <1>2, <1>3, <1>5

LEMMA DeliverFacts ==
  ASSUME TypeInv, RowInv, NEW n \in Number, DeliverReport(n)
  PROVE  /\ AtRest /\ mail[n] # {} /\ n \in DOMAIN runs /\ runs[n].tab
         /\ runs' \in Seq(Run) /\ DOMAIN runs' = DOMAIN runs /\ mail' = [mail EXCEPT ![n] = {}]
         /\ UNCHANGED <<now, cursor, claimed, proc, jobs, actor, conf, startedAt, lost, slipped, strays, crashes>>
         /\ \A k \in DOMAIN runs \ {n} : runs'[k] = runs[k] \/ Marks(runs[k], runs'[k])
         /\ runs'[n] = runs[n] \/ Waits(runs[n], runs'[n]) \/ Closes(runs[n], runs'[n])
         /\ runs'[n].reserved = runs[n].reserved
<1> DEFINE r == runs[n]
<1>1. PICK report \in mail[n] :
         LET current == report.attempt = r.attempts /\ r.status \notin Final
         IN  \/ /\ ~current
                /\ Save(runs)
             \/ /\ current /\ report.kind = "waiting"
                /\ Save(IF r.taken THEN runs ELSE WithStatus(runs, n, "WaitingForUser"))
             \/ /\ current /\ report.kind = "working"
                /\ Save(IF r.status = "WaitingForUser" THEN WithStatus(runs, n, "Dispatched")
                        ELSE runs)
             \/ /\ current /\ report.kind \notin {"waiting", "working"}
                /\ \E oldest \in Prunable : Complete(n, report.kind, oldest)
  BY DEF DeliverReport
<1>2. n \in DOMAIN runs /\ r.tab
  BY <1>1 DEF RowInv, RowOK
<1>3. runs \in Seq(Run) /\ report \in Mail /\ r \in Run
  BY <1>1, <1>2, TypeFacts DEF TypeInv
<1>4. /\ AtRest /\ mail' = [mail EXCEPT ![n] = {}]
      /\ UNCHANGED <<now, cursor, claimed, proc, jobs, actor, conf, startedAt, lost, slipped, strays, crashes>>
  BY DEF DeliverReport, schedule, host, memory
<1>5. ASSUME NEW oldest, Complete(n, report.kind, oldest), report.kind \notin {"waiting", "working"}
      PROVE  \E status \in Final : runs' = PruneRuns(WithStatus(runs, n, status), oldest)
  BY <1>3, <1>5 DEF Complete, Settle, Mail, Final
<1>6. \/ runs' = runs
      \/ r.status \notin Final /\ \E status \in {"WaitingForUser", "Dispatched"} :
            runs' = WithStatus(runs, n, status)
      \/ r.status \notin Final /\ \E status \in Final, oldest \in Prunable :
            runs' = PruneRuns(WithStatus(runs, n, status), oldest)
  BY <1>1, <1>5 DEF Save
<1>7. CASE runs' = runs
  BY <1>1, <1>2, <1>3, <1>4, <1>7
<1>8. ASSUME r.status \notin Final, NEW status \in {"WaitingForUser", "Dispatched"},
             runs' = WithStatus(runs, n, status)
      PROVE  /\ Touched(runs, runs', n) /\ Waits(runs[n], runs'[n])
             /\ runs'[n].reserved = runs[n].reserved
  <2>1. Touched(runs, runs', n) /\ Waits(runs[n], runs'[n])
    BY <1>2, <1>3, <1>8, WaitFacts
  <2> QED
    BY <2>1 DEF Waits
<1>9. ASSUME r.status \notin Final, NEW status \in Final, NEW oldest \in Prunable,
             runs' = PruneRuns(WithStatus(runs, n, status), oldest)
      PROVE  /\ runs' \in Seq(Run) /\ DOMAIN runs' = DOMAIN runs
             /\ \A k \in DOMAIN runs \ {n} : runs'[k] = runs[k] \/ Marks(runs[k], runs'[k])
             /\ Closes(runs[n], runs'[n]) /\ runs'[n].reserved = runs[n].reserved
  <2> DEFINE ended == WithStatus(runs, n, status)
  <2>1. /\ Touched(runs, ended, n) /\ Closes(runs[n], ended[n])
        /\ ended[n].reserved = runs[n].reserved
    BY <1>2, <1>3, <1>9, EndFacts
  <2>2. ended \in Seq(Run) /\ DOMAIN ended = DOMAIN runs /\ runs' = PruneRuns(ended, oldest)
    BY <1>9, <2>1 DEF Touched
  <2> HIDE DEF ended
  <2>3. /\ runs' \in Seq(Run) /\ DOMAIN runs' = DOMAIN runs
        /\ \A k \in DOMAIN runs :
              /\ runs'[k] \in {ended[k], [ended[k] EXCEPT !.pruned = TRUE]}
              /\ runs'[k] = ended[k] \/ Marks(ended[k], runs'[k])
    BY <2>2, PruneFacts
  <2>4. \A k \in DOMAIN runs \ {n} : runs'[k] = runs[k] \/ Marks(runs[k], runs'[k])
    BY <2>1, <2>3 DEF Touched
  <2>5. ended[n] \in Run
    BY <1>2, <2>2, LenProperties
  <2>6. /\ Closes(runs[n], [ended[n] EXCEPT !.pruned = TRUE])
        /\ [ended[n] EXCEPT !.pruned = TRUE].reserved = ended[n].reserved
    BY <2>1, <2>5 DEF Closes, Ident, Tried, Bound, Run
  <2> QED
    BY <1>2, <2>1, <2>3, <2>4, <2>6
<1>10. CASE \E status \in Final, oldest \in Prunable :
               r.status \notin Final /\ runs' = PruneRuns(WithStatus(runs, n, status), oldest)
  BY <1>1, <1>2, <1>4, <1>9, <1>10
<1>11. CASE \E status \in {"WaitingForUser", "Dispatched"} :
               r.status \notin Final /\ runs' = WithStatus(runs, n, status)
  BY <1>1, <1>2, <1>4, <1>8, <1>11 DEF Touched
<1> QED
  BY <1>6, <1>7, <1>10, <1>11

\* What people and the clock note on a run.
LEMMA MarkFacts ==
  ASSUME TypeInv, NEW n \in Number,
         \/ CancelRun(n) \/ TakeOver(n) \/ ExtendWaiting(n) \/ RetryDue(n) \/ DeadlinePasses(n)
  PROVE  /\ AtRest /\ n \in DOMAIN runs /\ Touched(runs, runs', n) /\ Marks(runs[n], runs'[n])
         /\ UNCHANGED <<now, state, circuit, cursor, claimed, proc, jobs, mail, actor, conf,
                        startedAt, lost, slipped, strays, crashes>>
<1> DEFINE r == runs[n]
<1>1. /\ AtRest /\ n \in DOMAIN runs
      /\ UNCHANGED <<now, state, circuit, cursor, claimed, proc, jobs, mail, actor, conf,
                     startedAt, lost, slipped, strays, crashes>>
  BY DEF CancelRun, TakeOver, ExtendWaiting, RetryDue, DeadlinePasses, Request, OpenRun, ActiveRuns,
         Save, definition, schedule, host, memory
<1>2. runs \in Seq(Run) /\ r \in Run
  BY <1>1, TypeFacts
<1>3. \/ runs' = [runs EXCEPT ![n].cancel = TRUE]
      \/ runs' = [runs EXCEPT ![n].taken = TRUE, ![n].retry = FALSE]
      \/ runs' = [runs EXCEPT ![n].overdue = FALSE]
      \/ runs' = [runs EXCEPT ![n].retry = FALSE]
      \/ runs' = [runs EXCEPT ![n].overdue = TRUE]
  BY DEF CancelRun, TakeOver, ExtendWaiting, RetryDue, DeadlinePasses, Save
<1>4. \E s \in Run : Marks(r, s) /\ runs' = [runs EXCEPT ![n] = s]
  <2>1. CASE runs' = [runs EXCEPT ![n].cancel = TRUE]
    <3>1. [r EXCEPT !.cancel = TRUE] \in Run /\ Marks(r, [r EXCEPT !.cancel = TRUE])
      BY <1>2 DEF Marks, Ident, Tried, Run
    <3>2. runs' = [runs EXCEPT ![n] = [r EXCEPT !.cancel = TRUE]]
      BY <1>1, <1>2, <2>1
    <3> QED
      BY <3>1, <3>2
  <2>2. CASE runs' = [runs EXCEPT ![n].taken = TRUE, ![n].retry = FALSE]
    <3>1. [r EXCEPT !.taken = TRUE, !.retry = FALSE] \in Run
          /\ Marks(r, [r EXCEPT !.taken = TRUE, !.retry = FALSE])
      BY <1>2 DEF Marks, Ident, Tried, Run
    <3>2. runs' = [runs EXCEPT ![n] = [r EXCEPT !.taken = TRUE, !.retry = FALSE]]
      BY <1>1, <1>2, <2>2
    <3> QED
      BY <3>1, <3>2
  <2>3. ASSUME NEW late \in BOOLEAN, runs' = [runs EXCEPT ![n].overdue = late]
        PROVE  \E s \in Run : Marks(r, s) /\ runs' = [runs EXCEPT ![n] = s]
    <3>1. [r EXCEPT !.overdue = late] \in Run /\ Marks(r, [r EXCEPT !.overdue = late])
      BY <1>2 DEF Marks, Ident, Tried, Run
    <3>2. runs' = [runs EXCEPT ![n] = [r EXCEPT !.overdue = late]]
      BY <1>1, <1>2, <2>3
    <3> QED
      BY <3>1, <3>2
  <2>4. CASE runs' = [runs EXCEPT ![n].retry = FALSE]
    <3>1. [r EXCEPT !.retry = FALSE] \in Run /\ Marks(r, [r EXCEPT !.retry = FALSE])
      BY <1>2 DEF Marks, Ident, Tried, Run
    <3>2. runs' = [runs EXCEPT ![n] = [r EXCEPT !.retry = FALSE]]
      BY <1>1, <1>2, <2>4
    <3> QED
      BY <3>1, <3>2
  <2> QED
    BY <1>3, <2>1, <2>2, <2>3, <2>4
<1>5. PICK s \in Run : Marks(r, s) /\ runs' = [runs EXCEPT ![n] = s]
  BY <1>4
<1>6. Touched(runs, runs', n) /\ runs'[n] = s
  BY <1>1, <1>2, <1>5, PutFacts
<1> QED
  BY <1>1, <1>5, <1>6

LEMMA StopWaitingFacts ==
  ASSUME TypeInv, NEW n \in Number, StopWaiting(n)
  PROVE  /\ AtRest /\ n \in DOMAIN runs /\ Touched(runs, runs', n) /\ Waits(runs[n], runs'[n])
         /\ runs[n].status = "WaitingForUser" /\ "wait" \in Requests
         /\ UNCHANGED <<now, state, circuit, cursor, claimed, proc, jobs, mail, actor, conf,
                        startedAt, lost, slipped, strays, crashes>>
<1> DEFINE r == runs[n]
           s == [r EXCEPT !.status = "Dispatched"]
<1>1. /\ AtRest /\ n \in DOMAIN runs /\ r.status = "WaitingForUser" /\ "wait" \in Requests
      /\ runs' = [runs EXCEPT ![n].status = "Dispatched"]
      /\ UNCHANGED <<now, state, circuit, cursor, claimed, proc, jobs, mail, actor, conf,
                     startedAt, lost, slipped, strays, crashes>>
  BY DEF StopWaiting, Request, OpenRun, ActiveRuns, Save, definition, schedule, host, memory
<1>2. runs \in Seq(Run) /\ r \in Run
  BY <1>1, TypeFacts
<1>3. s \in Run /\ Waits(r, s)
  BY <1>1, <1>2 DEF Run, Waits, Ident, Tried, InFlight, Final, Skipped
<1>4. runs' = [runs EXCEPT ![n] = s] /\ n \in DOMAIN runs
  BY <1>1, <1>2
<1> HIDE DEF s
<1>5. Touched(runs, runs', n) /\ runs'[n] = s
  BY <1>2, <1>3, <1>4, PutFacts
<1> QED
  BY <1>1, <1>3, <1>5

LEMMA PauseFacts ==
  ASSUME TypeInv, NEW cancelActive \in BOOLEAN, Pause(cancelActive)
  PROVE  /\ AtRest /\ runs' \in Seq(Run) /\ DOMAIN runs' = DOMAIN runs
         /\ \A k \in DOMAIN runs : runs'[k] = runs[k] \/ Marks(runs[k], runs'[k])
         /\ state' = "Paused"
         /\ UNCHANGED <<now, circuit, cursor, claimed, proc, jobs, mail, actor, conf,
                        startedAt, lost, slipped, strays, crashes>>
<1>1. /\ AtRest /\ state' = "Paused"
      /\ UNCHANGED <<now, circuit, cursor, claimed, proc, jobs, mail, actor, conf,
                     startedAt, lost, slipped, strays, crashes>>
      /\ runs' = [n \in DOMAIN runs |->
                    IF cancelActive /\ n \in ActiveRuns THEN [runs[n] EXCEPT !.cancel = TRUE]
                    ELSE runs[n]]
  BY DEF Pause, Request, schedule, host, memory
<1>2. runs \in Seq(Run) /\ DOMAIN runs = 1 .. Len(runs) /\ Len(runs) \in Nat
  BY TypeFacts
<1>3. ASSUME NEW k \in DOMAIN runs
      PROVE  /\ runs'[k] \in Run
             /\ runs'[k] = runs[k] \/ Marks(runs[k], runs'[k])
  <2>1. runs[k] \in Run
    BY TypeFacts
  <2>2. runs'[k] = runs[k] \/ runs'[k] = [runs[k] EXCEPT !.cancel = TRUE]
    BY <1>1
  <2>3. [runs[k] EXCEPT !.cancel = TRUE] \in Run /\ Marks(runs[k], [runs[k] EXCEPT !.cancel = TRUE])
    BY <2>1 DEF Marks, Ident, Tried, Run
  <2> QED
    BY <2>1, <2>2, <2>3
<1>4. runs' \in [1 .. Len(runs) -> Run]
  BY <1>1, <1>2, <1>3
<1>5. runs' \in Seq(Run)
  BY <1>2, <1>4, FunctionIsSeq
<1> QED
  BY <1>1, <1>3, <1>5

LEMMA HandleTickFacts ==
  ASSUME TypeInv, HandleTick
  PROVE  /\ AtRest /\ runs' \in Seq(Run) /\ DOMAIN runs' = DOMAIN runs
         /\ \A k \in DOMAIN runs : runs'[k] = runs[k] \/ Marks(runs[k], runs'[k])
         /\ \E todo \in SUBSET DOMAIN runs :
               actor' = [Idle EXCEPT !.phase = "reconcile", !.full = TRUE, !.todo = todo]
         /\ UNCHANGED <<now, cursor, claimed, proc, jobs, mail, conf, startedAt, lost, slipped, strays, crashes>>
<1>1. PICK oldest \in Prunable :
         /\ runs' = PruneRuns(runs, oldest)
         /\ actor' = [Idle EXCEPT !.phase = "reconcile", !.full = TRUE,
                                  !.todo = ActiveRuns \cup {n \in Reserved : ~runs'[n].pruned}]
  BY DEF HandleTick
<1>2. runs \in Seq(Run)
  BY TypeFacts
<1>3. /\ runs' \in Seq(Run) /\ DOMAIN runs' = DOMAIN runs
      /\ \A k \in DOMAIN runs : runs'[k] = runs[k] \/ Marks(runs[k], runs'[k])
  BY <1>1, <1>2, PruneFacts
<1>4. ActiveRuns \cup {n \in Reserved : ~runs'[n].pruned} \in SUBSET DOMAIN runs
  BY DEF ActiveRuns, Reserved
<1>5. /\ AtRest
      /\ UNCHANGED <<now, cursor, claimed, proc, jobs, mail, conf, startedAt, lost, slipped, strays, crashes>>
  BY DEF HandleTick, schedule, host, memory
<1> QED
  BY <1>1, <1>3, <1>4, <1>5

\* A crash: the row that is being launched may be bound, every agent that is not
\* gone has outlived the host, and the next host begins with the owners.
LEMMA DieFacts ==
  ASSUME TypeInv, RowInv, ActorInv, NEW reboot \in BOOLEAN, NEW survivors \in SUBSET Number,
         Dies(reboot, survivors)
  PROVE  /\ runs' \in Seq(Run) /\ DOMAIN runs' = DOMAIN runs
         /\ \A k \in DOMAIN runs :
               \/ runs'[k] = runs[k]
               \/ actor.phase = "launch" /\ k = actor.run /\ Binds(runs[k], runs'[k])
         /\ proc' \in [Number -> Procs]
         /\ \A k \in Number :
               \/ proc'[k] = proc[k] /\ proc[k] # "attached"
               \/ proc'[k] = "gone"
               \/ /\ proc'[k] = "detached" /\ proc[k] = "attached" /\ k \in DOMAIN runs
                  /\ k \in strays' \/ runs[k].status \notin Final \cup {"WaitingForUser"}
               \/ /\ actor.phase = "launch" /\ k = actor.run
                  /\ proc'[k] \in Outlived /\ Binds(runs[k], runs'[k])
         /\ \A k \in Number \ DOMAIN runs : proc'[k] = "none"
         /\ jobs' = {} /\ lost' = lost \cup jobs /\ mail' = [k \in Number |-> {}]
         /\ startedAt' = now /\ crashes' = crashes + 1 /\ slipped' = slipped \cup actor.missed
         /\ strays \subseteq strays' /\ strays' \subseteq strays \cup Number
         /\ actor' = [Idle EXCEPT !.phase = "reconcile", !.todo = ActiveRuns \cup Reserved]
         /\ UNCHANGED <<conf, now, state, circuit, cursor, claimed>>
<1>1. /\ runs \in Seq(Run) /\ DOMAIN runs = 1 .. Len(runs) /\ DOMAIN runs \subseteq Number
      /\ proc \in [Number -> Procs]
  BY TypeFacts DEF TypeInv, TypeOK, Procs
<1>2. ASSUME NEW rs \in Seq(Run), NEW ps \in [Number -> Procs], DOMAIN rs = DOMAIN runs,
             HostDies(reboot, survivors, rs, ps)
      PROVE  /\ runs' = rs /\ proc' \in [Number -> Procs]
             /\ \A k \in Number :
                   \/ proc'[k] = ps[k] /\ ps[k] # "attached"
                   \/ proc'[k] = "gone" /\ (ps[k] = "attached" \/ k \in DOMAIN runs)
                   \/ /\ proc'[k] = "detached" /\ ps[k] = "attached"
                      /\ k \in strays' \/ rs[k].status \notin Final \cup {"WaitingForUser"}
             /\ jobs' = {} /\ lost' = lost \cup jobs /\ mail' = [k \in Number |-> {}]
             /\ startedAt' = now /\ crashes' = crashes + 1 /\ slipped' = slipped \cup actor.missed
             /\ strays \subseteq strays' /\ strays' \subseteq strays \cup Number
             /\ actor' = [Idle EXCEPT !.phase = "reconcile", !.todo = ActiveRuns \cup Reserved]
             /\ UNCHANGED <<conf, now, state, circuit, cursor, claimed>>
  <2>1. /\ survivors \subseteq {k \in Number : ps[k] = "attached"}
        /\ proc' = [k \in Number |->
                      IF k \in survivors THEN "detached"
                      ELSE IF ps[k] = "attached" \/ (reboot /\ k \in DOMAIN rs /\ rs[k].attempts > 0)
                           THEN "gone" ELSE ps[k]]
        /\ strays' = strays \cup {k \in survivors : rs[k].status \in Final \cup {"WaitingForUser"}}
    BY <1>2 DEF HostDies
  <2>2. proc' \in [Number -> Procs]
    BY <1>2, <2>1 DEF Procs, Outlived
  <2>3. ASSUME NEW k \in Number
        PROVE  \/ proc'[k] = ps[k] /\ ps[k] # "attached"
               \/ proc'[k] = "gone" /\ (ps[k] = "attached" \/ k \in DOMAIN runs)
               \/ /\ proc'[k] = "detached" /\ ps[k] = "attached"
                  /\ k \in strays' \/ rs[k].status \notin Final \cup {"WaitingForUser"}
    BY <1>2, <2>1
  <2> QED
    BY <1>2, <2>1, <2>2, <2>3 DEF HostDies, definition, schedule
<1>3. \A k \in Number \ DOMAIN runs : proc[k] = "none"
  BY DEF RowInv
<1>4. CASE Crash(reboot, survivors)
  <2>1. HostDies(reboot, survivors, runs, proc)
    BY <1>4 DEF Crash
  <2>2. ASSUME NEW k \in Number
        PROVE  /\ \/ proc'[k] = proc[k] /\ proc[k] # "attached"
                  \/ proc'[k] = "gone" /\ (proc[k] = "attached" \/ k \in DOMAIN runs)
                  \/ /\ proc'[k] = "detached" /\ proc[k] = "attached" /\ k \in DOMAIN runs
                     /\ k \in strays' \/ runs[k].status \notin Final \cup {"WaitingForUser"}
               /\ k \notin DOMAIN runs => proc'[k] = "none"
    BY <1>1, <1>2, <1>3, <2>1
  <2> QED
    BY <1>1, <1>2, <2>1, <2>2
<1>5. ASSUME NEW left \in Outlived \cup {"gone"}, CrashInLaunch(reboot, survivors, left)
      PROVE  /\ runs' \in Seq(Run) /\ DOMAIN runs' = DOMAIN runs
             /\ \A k \in DOMAIN runs :
                   \/ runs'[k] = runs[k]
                   \/ actor.phase = "launch" /\ k = actor.run /\ Binds(runs[k], runs'[k])
             /\ proc' \in [Number -> Procs]
             /\ \A k \in Number :
                   \/ proc'[k] = proc[k] /\ proc[k] # "attached"
                   \/ proc'[k] = "gone"
                   \/ /\ proc'[k] = "detached" /\ proc[k] = "attached" /\ k \in DOMAIN runs
                      /\ k \in strays' \/ runs[k].status \notin Final \cup {"WaitingForUser"}
                   \/ /\ actor.phase = "launch" /\ k = actor.run
                      /\ proc'[k] \in Outlived /\ Binds(runs[k], runs'[k])
             /\ \A k \in Number \ DOMAIN runs : proc'[k] = "none"
             /\ jobs' = {} /\ lost' = lost \cup jobs /\ mail' = [k \in Number |-> {}]
             /\ startedAt' = now /\ crashes' = crashes + 1 /\ slipped' = slipped \cup actor.missed
             /\ strays \subseteq strays' /\ strays' \subseteq strays \cup Number
             /\ actor' = [Idle EXCEPT !.phase = "reconcile", !.todo = ActiveRuns \cup Reserved]
             /\ UNCHANGED <<conf, now, state, circuit, cursor, claimed>>
  <2> DEFINE n == actor.run
             s == [runs[n] EXCEPT !.tab = TRUE]
             rs == [runs EXCEPT ![n] = s]
             ps == [proc EXCEPT ![n] = left]
  <2>1. /\ actor.phase = "launch" /\ n \in DOMAIN runs /\ runs[n].status = "Dispatching"
        /\ runs[n].begun /\ runs[n].attempts > 0
    BY <1>5 DEF CrashInLaunch, ActorInv
  <2>2. runs[n] \in Run
    BY <2>1, TypeFacts
  <2>3. s \in Run /\ Binds(runs[n], s)
    BY <2>1, <2>2 DEF Binds, Ident, Tried, Run
  <2>4. HostDies(reboot, survivors, rs, ps)
    BY <1>1, <1>5, <2>1, <2>2 DEF CrashInLaunch
  <2> HIDE DEF s
  <2>5. Touched(runs, rs, n) /\ rs[n] = s
    BY <1>1, <2>1, <2>3, PutFacts
  <2>6. /\ ps \in [Number -> Procs] /\ ps[n] = left /\ left # "attached"
        /\ \A k \in Number \ {n} : ps[k] = proc[k]
    BY <1>1, <2>1 DEF Procs, Outlived
  <2> HIDE DEF rs, ps
  <2>7. rs \in Seq(Run) /\ DOMAIN rs = DOMAIN runs /\ \A k \in DOMAIN runs \ {n} : rs[k] = runs[k]
    BY <2>5 DEF Touched
  <2>8. /\ runs' = rs /\ proc' \in [Number -> Procs]
        /\ \A k \in Number :
              \/ proc'[k] = ps[k] /\ ps[k] # "attached"
              \/ proc'[k] = "gone" /\ (ps[k] = "attached" \/ k \in DOMAIN runs)
              \/ /\ proc'[k] = "detached" /\ ps[k] = "attached"
                 /\ k \in strays' \/ rs[k].status \notin Final \cup {"WaitingForUser"}
    BY <1>2, <2>4, <2>6, <2>7
  <2>9. ASSUME NEW k \in Number, k # n
        PROVE  /\ \/ proc'[k] = proc[k] /\ proc[k] # "attached"
                  \/ proc'[k] = "gone"
                  \/ /\ proc'[k] = "detached" /\ proc[k] = "attached" /\ k \in DOMAIN runs
                     /\ k \in strays' \/ runs[k].status \notin Final \cup {"WaitingForUser"}
               /\ k \notin DOMAIN runs => proc'[k] = "none"
    BY <1>3, <2>6, <2>7, <2>8, <2>9
  <2>10. proc'[n] = "gone" \/ (proc'[n] \in Outlived /\ Binds(runs[n], runs'[n]))
    <3>1. proc'[n] \in {"gone", left}
      BY <1>1, <2>1, <2>6, <2>8
    <3> QED
      BY <2>3, <2>5, <2>8, <3>1
  <2>11. \A k \in DOMAIN runs : runs'[k] = runs[k] \/ (k = n /\ Binds(runs[k], runs'[k]))
    BY <2>3, <2>5, <2>7, <2>8
  <2>12. /\ jobs' = {} /\ lost' = lost \cup jobs /\ mail' = [k \in Number |-> {}]
         /\ startedAt' = now /\ crashes' = crashes + 1 /\ slipped' = slipped \cup actor.missed
         /\ strays \subseteq strays' /\ strays' \subseteq strays \cup Number
         /\ actor' = [Idle EXCEPT !.phase = "reconcile", !.todo = ActiveRuns \cup Reserved]
         /\ UNCHANGED <<conf, now, state, circuit, cursor, claimed>>
    BY <1>2, <2>4, <2>6, <2>7
  <2> QED
    BY <2>1, <2>7, <2>8, <2>9, <2>10, <2>11, <2>12
<1> QED
  BY <1>4, <1>5 DEF Dies

\* A new row is added at the end, for an occurrence or by a person.
Added(r) ==
  /\ runs' \in Seq(Run) /\ DOMAIN runs' = DOMAIN runs \cup {Len(runs) + 1}
  /\ \A k \in DOMAIN runs : runs'[k] = runs[k]
  /\ runs'[Len(runs) + 1] = r

LEMMA AddFacts ==
  ASSUME TypeInv, NEW trigger \in {"Scheduled", "Manual"}, NEW at \in 0 .. Horizon,
         NEW policy \in ManualPolicies \cup {OverlapPolicy}, NEW precheck \in BOOLEAN,
         runs' = Append(runs, NewRun(trigger, at, policy, precheck))
  PROVE  Added(NewRun(trigger, at, policy, precheck)) /\ Len(runs) + 1 \notin DOMAIN runs
<1> DEFINE r == NewRun(trigger, at, policy, precheck)
<1>1. runs \in Seq(Run) /\ Len(runs) \in Nat /\ DOMAIN runs = 1 .. Len(runs)
  BY TypeFacts
<1>2. r \in Run
  BY ConfFacts DEF NewRun, Run, TypeInv
<1> HIDE DEF r
<1>3. runs' = Append(runs, r)
  BY DEF r
<1>4. /\ Append(runs, r) \in Seq(Run) /\ Len(Append(runs, r)) = Len(runs) + 1
      /\ \A k \in 1 .. Len(runs) : Append(runs, r)[k] = runs[k]
      /\ Append(runs, r)[Len(runs) + 1] = r
  BY <1>1, <1>2, AppendProperties
<1>5. DOMAIN Append(runs, r) = 1 .. Len(runs) + 1
  BY <1>4, LenProperties
<1>6. 1 .. Len(runs) + 1 = DOMAIN runs \cup {Len(runs) + 1} /\ Len(runs) + 1 \notin DOMAIN runs
  BY <1>1
<1>7. Added(r)
  BY <1>1, <1>3, <1>4, <1>5, <1>6 DEF Added
<1> QED
  BY <1>6, <1>7 DEF r

-----------------------------------------------------------------------------
(***************************************************************************)
(* The steps, grouped by what they write in the run table.                 *)
(***************************************************************************)
Passes == AdmitRun /\ actor.at + 1 \in claimed

\* A run is admitted, whether its target is bound or not.
Admits == (AdmitRun /\ actor.at + 1 \notin claimed) \/ BindFails

\* An occurrence is passed over.
Slips == CountFails \/ AdmitFails

\* The evaluation ends.
Leaves == EndEvaluate \/ ClaimFails

\* No row is written.
Quiet ==
  \/ EndReconcile \/ MissOccurrence \/ ReachLimit \/ Passes \/ Slips \/ Leaves
  \/ EndResume \/ EndTick \/ Clock \/ ResumeSchedule \/ Trash \/ Restore
  \/ \E n \in Number : AgentExits(n) \/ \E kind \in Reports : Report(n, kind)
  \/ UNCHANGED vars

Notes ==
  \/ \E n \in Number :
        CancelRun(n) \/ TakeOver(n) \/ ExtendWaiting(n) \/ RetryDue(n) \/ DeadlinePasses(n)
  \/ \E cancelActive \in BOOLEAN : Pause(cancelActive)

Asks ==
  \E policy \in ManualPolicies \cup {OverlapPolicy}, precheck \in BOOLEAN : RunNow(policy, precheck)

LEMMA NextCases ==
  ASSUME [Next]_vars
  PROVE  \/ Quiet \/ Notes \/ HandleTick
         \/ Reconcile \/ StartRun \/ Launch \/ Resume \/ Expire \/ Admits \/ Asks
         \/ \E n \in Number : FinishPrecheck(n) \/ DeliverReport(n) \/ StopWaiting(n)
         \/ \E reboot \in BOOLEAN, survivors \in SUBSET Number : Dies(reboot, survivors)
<1>1. TickStep => Quiet \/ Reconcile \/ StartRun \/ Launch \/ Resume \/ Expire \/ Admits
  BY DEF TickStep, Quiet, Passes, Admits, Slips, Leaves
<1>2. People => Quiet \/ Notes \/ Asks \/ \E n \in Number : StopWaiting(n)
  BY DEF People, Quiet, Notes, Asks
<1> QED
  BY <1>1, <1>2 DEF Next, Quiet, Notes, Dies

LEMMA QuietFacts ==
  ASSUME Quiet
  PROVE  runs' = runs
<1>1. EndReconcile \/ MissOccurrence \/ ReachLimit \/ Passes \/ Slips \/ Leaves
      \/ EndResume \/ EndTick \/ Clock \/ ResumeSchedule \/ Trash \/ Restore \/ UNCHANGED vars
      => runs' = runs
  BY DEF EndReconcile, MissOccurrence, ReachLimit, Passes, AdmitRun, Slips, CountFails, AdmitFails,
         Leaves, EndEvaluate, ClaimFails, EndResume, EndTick, Clock, ResumeSchedule, Trash, Restore,
         vars
<1>2. ASSUME NEW n \in Number, AgentExits(n) \/ \E kind \in Reports : Report(n, kind)
      PROVE  runs' = runs
  BY <1>2 DEF AgentExits, Report
<1> QED
  BY <1>1, <1>2 DEF Quiet

LEMMA AdmitFacts ==
  ASSUME TypeInv, Admits
  PROVE  LET at == actor.at + 1 IN
         /\ actor.phase = "evaluate" /\ at \in 1 .. now /\ at \notin claimed /\ ~LimitReached
         /\ Added(NewRun("Scheduled", at, OverlapPolicy, HasPrecheck))
         /\ Len(runs) + 1 \notin DOMAIN runs
         /\ claimed' = claimed \cup {at}
         /\ \/ actor' = [actor EXCEPT !.phase = "start", !.run = Len(runs) + 1, !.at = at,
                                      !.back = "evaluate", !.spent = TRUE]
            \/ actor' = [actor EXCEPT !.at = at, !.spent = TRUE]
         /\ UNCHANGED <<now, state, circuit, cursor, proc, jobs, mail, conf, startedAt, lost, slipped, strays, crashes>>
<1> DEFINE at == actor.at + 1
<1>1. /\ actor.phase = "evaluate" /\ at <= now /\ at \notin claimed /\ ~LimitReached
      /\ claimed' = claimed \cup {at}
      /\ runs' = Append(runs, NewRun("Scheduled", at, OverlapPolicy, HasPrecheck))
      /\ \/ actor' = [actor EXCEPT !.phase = "start", !.run = Len(runs) + 1, !.at = at,
                                   !.back = "evaluate", !.spent = TRUE]
         \/ actor' = [actor EXCEPT !.at = at, !.spent = TRUE]
      /\ UNCHANGED <<now, state, circuit, cursor, proc, jobs, mail, conf, startedAt, lost, slipped, strays, crashes>>
  <2>1. CASE AdmitRun /\ at \notin claimed
    BY <2>1 DEF AdmitRun, Due, definition, host, memory
  <2>2. CASE BindFails
    <3>1. actor' = [actor EXCEPT !.at = at, !.spent = TRUE]
      BY <2>2, TypeFacts DEF BindFails, PassOver, Actor
    <3> QED
      BY <2>2, <3>1 DEF BindFails, Due, definition, memory
  <2> QED
    BY <2>1, <2>2 DEF Admits
<1>2. at \in 1 .. now /\ at \in 0 .. Horizon
  <2>1. actor.at \in Nat /\ now \in Nat /\ now <= Horizon
    BY TypeFacts
  <2>2. Horizon \in Nat
    BY ConfFacts DEF TypeInv
  <2> QED
    BY <1>1, <2>1, <2>2
<1>3. HasPrecheck \in BOOLEAN /\ OverlapPolicy \in ManualPolicies \cup {OverlapPolicy}
  BY ConfFacts DEF TypeInv
<1>4. /\ Added(NewRun("Scheduled", at, OverlapPolicy, HasPrecheck))
      /\ Len(runs) + 1 \notin DOMAIN runs
  <2> HIDE DEF at
  <2> QED
    BY <1>1, <1>2, <1>3, AddFacts
<1> QED
  BY <1>1, <1>2, <1>4

LEMMA AskFacts ==
  ASSUME TypeInv, Asks
  PROVE  /\ AtRest /\ Cardinality(DOMAIN runs \ Scheduled(runs)) < MaxManual
         /\ \E policy \in ManualPolicies \cup {OverlapPolicy}, precheck \in BOOLEAN :
               Added(NewRun("Manual", now, policy, precheck))
         /\ Len(runs) + 1 \notin DOMAIN runs
         /\ actor' = [actor EXCEPT !.phase = "start", !.run = Len(runs) + 1]
         /\ UNCHANGED <<now, state, circuit, cursor, claimed, proc, jobs, mail, conf, startedAt,
                        lost, slipped, strays, crashes>>
<1>1. PICK policy \in ManualPolicies \cup {OverlapPolicy}, precheck \in BOOLEAN :
         RunNow(policy, precheck)
  BY DEF Asks
<1>2. /\ AtRest /\ Cardinality(DOMAIN runs \ Scheduled(runs)) < MaxManual
      /\ runs' = Append(runs, NewRun("Manual", now, policy, precheck))
      /\ actor' = [actor EXCEPT !.phase = "start", !.run = Len(runs) + 1]
      /\ UNCHANGED <<now, state, circuit, cursor, claimed, proc, jobs, mail, conf, startedAt,
                     lost, slipped, strays, crashes>>
  BY <1>1 DEF RunNow, definition, schedule, host, memory
<1>3. now \in 0 .. Horizon
  BY DEF TypeInv, TypeOK
<1>4. Added(NewRun("Manual", now, policy, precheck)) /\ Len(runs) + 1 \notin DOMAIN runs
  BY <1>2, <1>3, AddFacts
<1> QED
  BY <1>2, <1>4

\* An occurrence is passed over: the limit is reached, it is claimed, or the store fails.
LEMMA PassFacts ==
  ASSUME TypeInv, ReachLimit \/ Passes \/ Slips
  PROVE  /\ actor.phase = "evaluate" /\ actor.at + 1 <= now /\ ~SkipsMisfire(actor.at + 1)
         /\ actor' = [actor EXCEPT !.at = actor.at + 1, !.spent = TRUE]
         /\ \/ UNCHANGED slipped /\ (actor.at + 1 \in claimed \/ LimitReached)
            \/ slipped' = slipped \cup {actor.at + 1}
         /\ UNCHANGED <<now, cursor, claimed, runs, proc, jobs, mail, conf, startedAt, lost,
                        strays, crashes>>
<1>1. actor \in Actor
  BY TypeFacts
<1>2. PassOver => actor' = [actor EXCEPT !.at = actor.at + 1, !.spent = TRUE]
  BY <1>1 DEF PassOver, Actor
<1>3. CASE ReachLimit
  BY <1>2, <1>3 DEF ReachLimit, Due, schedule, host, memory
<1>4. CASE Passes
  BY <1>2, <1>4 DEF Passes, AdmitRun, Due, host, memory
<1>5. CASE Slips
  BY <1>2, <1>5 DEF Slips, CountFails, AdmitFails, Due, schedule, memory
<1> QED
  BY <1>3, <1>4, <1>5

LEMMA LeaveFacts ==
  ASSUME Leaves
  PROVE  /\ actor.phase = "evaluate"
         /\ actor' = [actor EXCEPT !.phase = "resume", !.todo = Resumable, !.at = 0,
                                   !.missed = {}, !.spent = FALSE]
         /\ \/ claimed' = claimed \cup actor.missed /\ UNCHANGED slipped
            \/ UNCHANGED claimed /\ slipped' = slipped \cup actor.missed
         /\ UNCHANGED <<now, cursor, runs, proc, jobs, mail, conf, startedAt, lost, strays, crashes>>
BY DEF Leaves, EndEvaluate, ClaimFails, LeaveLoop, schedule, host, memory

\* Steps that add no row keep the identity of every run and its end.
KeepsRows ==
  /\ runs' \in Seq(Run) /\ DOMAIN runs' = DOMAIN runs
  /\ \A k \in DOMAIN runs : Firm(runs[k], runs'[k])

LEMMA TouchKeepsRows ==
  ASSUME TypeInv, NEW n \in DOMAIN runs, Touched(runs, runs', n),
         \/ runs'[n] = runs[n] \/ Marks(runs[n], runs'[n]) \/ Holds(runs[n], runs'[n])
         \/ Closes(runs[n], runs'[n]) \/ Retries(runs[n], runs'[n]) \/ Begins(runs[n], runs'[n])
         \/ Checks(runs[n], runs'[n]) \/ Parks(runs[n], runs'[n]) \/ Opens(runs[n], runs'[n])
         \/ Waits(runs[n], runs'[n])
  PROVE  KeepsRows
<1>1. Firm(runs[n], runs'[n])
  BY FirmMoves
<1>2. \A k \in DOMAIN runs \ {n} : Firm(runs[k], runs'[k])
  BY FirmMoves DEF Touched
<1> QED
  BY <1>1, <1>2 DEF KeepsRows, Touched

LEMMA NextRows ==
  ASSUME IInv, [Next]_vars
  PROVE  KeepsRows \/ Admits \/ Asks
<1> USE DEF IInv
<1>1. CASE Quiet
  <2>1. runs' = runs /\ runs \in Seq(Run)
    BY <1>1, QuietFacts, TypeFacts
  <2> QED
    BY <2>1, FirmMoves DEF KeepsRows
<1>2. CASE Notes
  <2>1. ASSUME NEW n \in Number,
               CancelRun(n) \/ TakeOver(n) \/ ExtendWaiting(n) \/ RetryDue(n) \/ DeadlinePasses(n)
        PROVE  KeepsRows
    <3>1. n \in DOMAIN runs /\ Touched(runs, runs', n) /\ Marks(runs[n], runs'[n])
      BY <2>1, MarkFacts
    <3> QED
      BY <3>1, TouchKeepsRows
  <2>2. ASSUME NEW cancelActive \in BOOLEAN, Pause(cancelActive)
        PROVE  KeepsRows
    <3>1. /\ runs' \in Seq(Run) /\ DOMAIN runs' = DOMAIN runs
          /\ \A k \in DOMAIN runs : runs'[k] = runs[k] \/ Marks(runs[k], runs'[k])
      BY <2>2, PauseFacts
    <3> QED
      BY <3>1, FirmMoves DEF KeepsRows
  <2> QED
    BY <1>2, <2>1, <2>2 DEF Notes
<1>3. CASE Reconcile
  BY <1>3, ReconcileFacts, TouchKeepsRows
<1>4. CASE StartRun
  <2> DEFINE n == actor.run
  <2>1. /\ n \in DOMAIN runs /\ runs' \in Seq(Run) /\ DOMAIN runs' = DOMAIN runs
        /\ \A k \in DOMAIN runs \ {n} : runs'[k] = runs[k] \/ Closes(runs[k], runs'[k])
        /\ \/ runs'[n] = runs[n] \/ Marks(runs[n], runs'[n]) \/ Closes(runs[n], runs'[n])
           \/ Retries(runs[n], runs'[n]) \/ Parks(runs[n], runs'[n]) \/ Checks(runs[n], runs'[n])
           \/ Begins(runs[n], runs'[n])
    BY <1>4, StartRunFacts
  <2>2. Firm(runs[n], runs'[n])
    BY <2>1, FirmMoves
  <2>3. \A k \in DOMAIN runs \ {n} : Firm(runs[k], runs'[k])
    BY <2>1, FirmMoves
  <2> QED
    BY <2>1, <2>2, <2>3 DEF KeepsRows
<1>5. CASE Launch
  BY <1>5, LaunchFacts, TouchKeepsRows
<1>6. CASE Resume
  BY <1>6, ResumeFacts, TouchKeepsRows
<1>7. CASE Expire
  BY <1>7, ExpireFacts, TouchKeepsRows
<1>8. ASSUME NEW n \in Number, FinishPrecheck(n)
      PROVE  KeepsRows
  BY <1>8, FinishPrecheckFacts, TouchKeepsRows
<1>9. ASSUME NEW n \in Number, DeliverReport(n)
      PROVE  KeepsRows
  BY <1>9, DeliverFacts, FirmMoves DEF KeepsRows
<1>10. ASSUME NEW n \in Number, StopWaiting(n)
       PROVE  KeepsRows
  BY <1>10, StopWaitingFacts, TouchKeepsRows
<1>11. CASE HandleTick
  BY <1>11, HandleTickFacts, FirmMoves DEF KeepsRows
<1>12. ASSUME NEW reboot \in BOOLEAN, NEW survivors \in SUBSET Number, Dies(reboot, survivors)
       PROVE  KeepsRows
  BY <1>12, DieFacts, FirmMoves DEF KeepsRows
<1> QED
  BY <1>1, <1>2, <1>3, <1>4, <1>5, <1>6, <1>7, <1>8, <1>9, <1>10, <1>11, <1>12, NextCases

-----------------------------------------------------------------------------
(***************************************************************************)
(* The type invariant.                                                     *)
(***************************************************************************)
LEMMA InitHolds ==
  ASSUME Init
  PROVE  IInv
<1>1. conf \in Configs /\ runs = <<>> /\ DOMAIN runs = {} /\ Len(runs) = 0
  BY DEF Init
<1>2. Horizon \in Nat /\ MaxManual \in Nat /\ MaxScheduled \in Nat
  BY <1>1, ConfFacts
<1>3. Scheduled(runs) = {} /\ DOMAIN runs \ Scheduled(runs) = {}
  BY <1>1 DEF Scheduled
<1>4. Cardinality({}) = 0
  BY FS_EmptySet
<1>5. actor \in Actor /\ actor.phase = "idle" /\ actor.missed = {} /\ actor.at = 0
      /\ actor.todo = {} /\ actor = Idle
  BY DEF Init, Idle, Actor, Phases
<1>6. TypeOK
  <2>1. runs \in Seq(Run)
    BY <1>1
  <2>2. /\ now \in 0 .. Horizon /\ cursor \in 0 .. now /\ startedAt \in 0 .. now
        /\ claimed \subseteq 1 .. now /\ state = "Active"
    BY <1>2 DEF Init
  <2>6. circuit \in BOOLEAN
    BY DEF Init
  <2>3. proc \in [Number -> {"none", "attached", "gone"} \cup Outlived]
    BY DEF Init
  <2>4. \A n \in Number : Cardinality(mail[n]) <= 1
    <3>1. \A n \in Number : mail[n] = {}
      BY DEF Init
    <3> QED
      BY <1>4, <3>1
  <2>5. jobs = {} /\ lost = {} /\ slipped = {} /\ strays = {} /\ before = "none"
    BY DEF Init
  <2> QED
    BY <1>1, <2>1, <2>2, <2>3, <2>4, <2>5, <2>6 DEF TypeOK
<1>7. TypeInv
  <2>1. mail \in [Number -> SUBSET Mail] /\ crashes \in Nat /\ errors \in Nat
    BY DEF Init
  <2>2. Cardinality(Scheduled(runs)) = 0 /\ Cardinality(DOMAIN runs \ Scheduled(runs)) = 0
    BY <1>3, <1>4
  <2>3. Cardinality(claimed) = 0 /\ now = 0
    BY <1>4 DEF Init
  <2> QED
    BY <1>1, <1>2, <1>5, <1>6, <2>1, <2>2, <2>3 DEF TypeInv
<1>8. RowInv
  BY <1>1 DEF RowInv, Init
<1>9. ActorInv
  BY <1>5 DEF ActorInv, Resuming
<1>10. OverlapInv /\ OwnerInv
  BY <1>1 DEF OverlapInv, OwnerInv
<1>11. PrecheckInv
  BY DEF PrecheckInv, Init
<1>12. OccurrenceInv
  BY <1>3, <1>5 DEF OccurrenceInv, Evaluating, Init
<1>13. LimitHolds
  <2> DEFINE S == {n \in Retained(runs) : runs[n].status \notin Skipped}
  <2>1. S = {}
    BY <1>3 DEF Retained
  <2>2. Cardinality(S) = 0
    BY <1>4, <2>1
  <2>3. Cardinality(S) <= MaxScheduled
    <3> HIDE DEF S
    <3> QED
      BY <1>2, <2>2
  <2> QED
    BY <2>3 DEF LimitHolds
<1> QED
  BY <1>7, <1>8, <1>9, <1>10, <1>11, <1>12, <1>13 DEF IInv

LEMMA TimeTyped ==
  ASSUME TypeInv, [Next]_vars
  PROVE  /\ now' \in 0 .. Horizon /\ cursor' \in 0 .. now' /\ startedAt' \in 0 .. now'
         /\ claimed' \subseteq 1 .. now' /\ now <= now' /\ claimed \subseteq claimed'
<1>1. /\ now \in Nat /\ cursor \in 0 .. now /\ startedAt \in 0 .. now /\ claimed \subseteq 1 .. now
      /\ now <= Horizon /\ Horizon \in Nat
  BY TypeFacts, ConfFacts DEF TypeInv, TypeOK
<1>2. CASE UNCHANGED <<now, cursor, claimed, startedAt>>
  BY <1>1, <1>2
<1>3. CASE Admits
  <2>1. /\ UNCHANGED <<now, cursor, startedAt>>
        /\ \E at \in 1 .. now : claimed' = claimed \cup {at}
    BY <1>3, AdmitFacts
  <2>2. claimed' \subseteq 1 .. now
    BY <1>1, <2>1
  <2> QED
    BY <1>1, <2>1, <2>2
<1>4. CASE EndEvaluate
  <2>1. UNCHANGED <<now, cursor, startedAt>> /\ claimed' = claimed \cup actor.missed
    BY <1>4 DEF EndEvaluate, host, memory
  <2>2. actor.missed \subseteq 1 .. now
    BY DEF TypeInv
  <2>3. claimed' \subseteq 1 .. now
    BY <1>1, <2>1, <2>2
  <2> QED
    BY <1>1, <2>1, <2>3
<1>5. CASE ResumeSchedule
  <2>1. UNCHANGED <<now, claimed, startedAt>> /\ cursor' = now
    BY <1>5 DEF ResumeSchedule, host, memory
  <2> QED
    BY <1>1, <2>1
<1>6. CASE Clock
  <2>1. UNCHANGED <<cursor, claimed, startedAt>> /\ now' = now + 1 /\ now < Horizon
    BY <1>6 DEF Clock, schedule, host, memory
  <2> QED
    BY <1>1, <2>1
<1>7. ASSUME NEW reboot \in BOOLEAN, NEW survivors \in SUBSET Number, Dies(reboot, survivors)
      PROVE  UNCHANGED <<now, cursor, claimed>> /\ startedAt' = now
  BY <1>7 DEF Dies, Crash, CrashInLaunch, HostDies, schedule
<1>8. TickStep => UNCHANGED <<now, cursor, claimed, startedAt>> \/ Admits \/ EndEvaluate
  BY DEF TickStep, Reconcile, EndReconcile, MissOccurrence, ReachLimit, AdmitRun, Admits, StartRun,
         CountFails, AdmitFails, ClaimFails,
         Launch, Resume, EndResume, Expire, EndTick, schedule, host, memory
<1>9. People => UNCHANGED <<now, cursor, claimed, startedAt>> \/ ResumeSchedule
  BY DEF People, RunNow, CancelRun, TakeOver, StopWaiting, ExtendWaiting, Pause, Trash, Restore,
         schedule, host, memory
<1>10. ASSUME NEW n \in Number,
              FinishPrecheck(n) \/ DeliverReport(n) \/ RetryDue(n) \/ DeadlinePasses(n)
              \/ AgentExits(n) \/ \E kind \in Reports : Report(n, kind)
       PROVE  UNCHANGED <<now, cursor, claimed, startedAt>>
  BY <1>10 DEF FinishPrecheck, DeliverReport, RetryDue, DeadlinePasses, AgentExits, Report,
               schedule, host, memory
<1>11. HandleTick \/ UNCHANGED vars => UNCHANGED <<now, cursor, claimed, startedAt>>
  BY DEF HandleTick, schedule, host, memory, vars
<1>12. CASE UNCHANGED <<now, cursor, claimed>> /\ startedAt' = now
  BY <1>1, <1>12
<1> QED
  BY <1>2, <1>3, <1>4, <1>5, <1>6, <1>7, <1>8, <1>9, <1>10, <1>11, <1>12 DEF Next, Dies

\* The variables that only note what went wrong.
NotesTyped ==
  /\ errors' \in Nat /\ slipped' \subseteq 1 .. now' /\ strays' \subseteq Number
  /\ before' \in {"none", "Active", "Paused", "Blocked", "Archived"}

LEMMA NotesAreTyped ==
  ASSUME TypeInv, [Next]_vars
  PROVE  NotesTyped
<1> DEFINE same == UNCHANGED <<errors, slipped, strays, before>>
<1>1. /\ errors \in Nat /\ slipped \subseteq 1 .. now /\ strays \subseteq Number
      /\ before \in {"none", "Active", "Paused", "Blocked", "Archived"}
      /\ state \in {"Active", "Paused", "Blocked", "Archived", "Trashed"}
      /\ actor.missed \subseteq 1 .. now /\ actor.at \in Nat
  BY TypeFacts DEF TypeInv, TypeOK
<1>2. now \in Nat /\ now' \in Nat /\ now <= now'
  BY TypeFacts, TimeTyped
<1>3. slipped \subseteq 1 .. now' /\ actor.missed \subseteq 1 .. now'
  BY <1>1, <1>2
<1>4. CASE same
  BY <1>1, <1>3, <1>4 DEF NotesTyped
<1>5. CASE Slips
  <2>1. /\ actor.at + 1 <= now /\ errors' = errors + 1 /\ slipped' = slipped \cup {actor.at + 1}
        /\ UNCHANGED <<strays, before>>
    BY <1>5 DEF Slips, CountFails, AdmitFails, StoreFails, Due, memory
  <2>2. actor.at + 1 \in 1 .. now'
    BY <1>1, <1>2, <2>1
  <2>3. slipped' \subseteq 1 .. now'
    BY <1>3, <2>1, <2>2
  <2> QED
    BY <1>1, <2>1, <2>3 DEF NotesTyped
<1>6. CASE ClaimFails
  <2>1. errors' = errors + 1 /\ slipped' = slipped \cup actor.missed /\ UNCHANGED <<strays, before>>
    BY <1>6 DEF ClaimFails, StoreFails, memory
  <2>2. slipped' \subseteq 1 .. now'
    BY <1>3, <2>1
  <2> QED
    BY <1>1, <2>1, <2>2 DEF NotesTyped
<1>7. CASE BindFails
  <2>1. errors' = errors + 1 /\ UNCHANGED <<slipped, strays, before>>
    BY <1>7 DEF BindFails, StoreFails, memory
  <2> QED
    BY <1>1, <1>3, <2>1 DEF NotesTyped
<1>8. CASE Trash \/ Restore
  <2>1. /\ before' = "none" \/ (before' = state /\ state # "Trashed")
        /\ UNCHANGED <<errors, slipped, strays>>
    BY <1>8 DEF Trash, Restore, memory
  <2> QED
    BY <1>1, <1>3, <2>1 DEF NotesTyped
<1>9. ASSUME NEW reboot \in BOOLEAN, NEW survivors \in SUBSET Number, Dies(reboot, survivors)
      PROVE  NotesTyped
  <2>1. \E rs, ps : HostDies(reboot, survivors, rs, ps)
    BY <1>9 DEF Dies, Crash, CrashInLaunch
  <2>2. PICK rs, ps : HostDies(reboot, survivors, rs, ps)
    BY <2>1
  <2>3. /\ slipped' = slipped \cup actor.missed /\ UNCHANGED <<errors, before>>
        /\ strays' = strays \cup {n \in survivors : rs[n].status \in Final \cup {"WaitingForUser"}}
    BY <2>2 DEF HostDies
  <2> QED
    BY <1>1, <1>3, <2>3 DEF NotesTyped
<1>10. TickStep => same \/ Slips \/ ClaimFails \/ BindFails
  BY DEF TickStep, Slips, Reconcile, EndReconcile, MissOccurrence, ReachLimit, AdmitRun, EndEvaluate,
         StartRun, Launch, Resume, EndResume, Expire, EndTick, host, memory
<1>11. People => same \/ Trash \/ Restore
  BY DEF People, RunNow, CancelRun, TakeOver, StopWaiting, ExtendWaiting, Pause, ResumeSchedule,
         host, memory
<1>12. ASSUME NEW n \in Number,
              FinishPrecheck(n) \/ DeliverReport(n) \/ RetryDue(n) \/ DeadlinePasses(n)
              \/ AgentExits(n) \/ \E kind \in Reports : Report(n, kind)
       PROVE  same
  BY <1>12 DEF FinishPrecheck, DeliverReport, RetryDue, DeadlinePasses, AgentExits, Report,
               host, memory
<1>13. HandleTick \/ Clock \/ UNCHANGED vars => same
  BY DEF HandleTick, Clock, host, memory, vars
<1> QED
  BY <1>4, <1>5, <1>6, <1>7, <1>8, <1>9, <1>10, <1>11, <1>12, <1>13 DEF Next, Dies

States == {"Active", "Paused", "Blocked", "Archived", "Trashed"}

DefinitionTyped == state' \in States /\ circuit' \in BOOLEAN

LEMMA DefinitionMoves ==
  ASSUME state \in States, circuit \in BOOLEAN
  PROVE  /\ \A rs : Save(rs) => DefinitionTyped
         /\ \A rs, n : Settle(rs, n) => DefinitionTyped
         /\ \A rs, n : Fail(rs, n) => DefinitionTyped
         /\ \A rs, n : Block(rs, n) => DefinitionTyped
         /\ CircuitResets => DefinitionTyped
<1>1. ASSUME NEW rs, NEW n, Settle(rs, n)
      PROVE  DefinitionTyped
  <2> DEFINE opens == /\ rs[n].trigger = "Scheduled"
                      /\ runs[n].status \notin Final /\ rs[n].status \in Failing
                      /\ FailureStreak(rs)
  <2>1. /\ circuit' = (circuit \/ opens)
        /\ state' = IF opens /\ state = "Active" THEN "Blocked" ELSE state
    BY <1>1 DEF Settle
  <2> HIDE DEF opens
  <2>2. circuit' \in BOOLEAN
    BY <2>1
  <2>3. state' \in States
    BY <2>1 DEF States
  <2> QED
    BY <2>2, <2>3 DEF DefinitionTyped
<1>2. ASSUME NEW rs, NEW n, Fail(rs, n)
      PROVE  DefinitionTyped
  BY <1>1, <1>2 DEF Fail
<1>3. ASSUME NEW rs, NEW n, Block(rs, n)
      PROVE  DefinitionTyped
  BY <1>3 DEF Block, DefinitionTyped, States
<1>4. \A rs : Save(rs) => DefinitionTyped
  BY DEF Save, definition, DefinitionTyped
<1>5. CircuitResets => DefinitionTyped
  BY DEF CircuitResets, DefinitionTyped, States
<1> QED
  BY <1>1, <1>2, <1>3, <1>4, <1>5

LEMMA StateTyped ==
  ASSUME TypeInv, RowInv, [Next]_vars
  PROVE  DefinitionTyped
<1>1. state \in States /\ circuit \in BOOLEAN
  BY DEF TypeInv, TypeOK, States
<1>2. UNCHANGED definition => DefinitionTyped
  BY <1>1 DEF definition, DefinitionTyped
<1>3. HandleTick => DefinitionTyped
  BY <1>1, <1>2, DefinitionMoves DEF HandleTick
<1>4. Reconcile => DefinitionTyped
  BY <1>1, DefinitionMoves DEF Reconcile
<1>5. EndReconcile \/ MissOccurrence \/ AdmitRun \/ EndEvaluate \/ AdmitFails \/ BindFails
      \/ ClaimFails \/ EndResume \/ EndTick => DefinitionTyped
  BY <1>2 DEF EndReconcile, MissOccurrence, AdmitRun, EndEvaluate, AdmitFails, BindFails, ClaimFails,
              EndResume, EndTick
<1>6. ReachLimit \/ CountFails => DefinitionTyped
  BY <1>1 DEF ReachLimit, CountFails, Archives, DefinitionTyped, States
<1>7. \A rs, n, back : BeginAttempt(rs, n, back) => DefinitionTyped
  BY <1>1, DefinitionMoves DEF BeginAttempt
<1>8. \A rs, n, back : DispatchPrechecked(rs, n, back) => DefinitionTyped
  BY <1>1, <1>7, DefinitionMoves DEF DispatchPrechecked
<1>9. StartRun => DefinitionTyped
  BY <1>1, <1>8, DefinitionMoves DEF StartRun, StartPrecheck
<1>10. Launch => DefinitionTyped
  BY <1>1, DefinitionMoves DEF Launch
<1>11. Resume => DefinitionTyped
  BY <1>1, DefinitionMoves DEF Resume
<1>12. Expire => DefinitionTyped
  BY <1>1, DefinitionMoves DEF Expire, EndOverdue
<1>13. ASSUME NEW n \in Number, FinishPrecheck(n)
       PROVE  DefinitionTyped
  BY <1>1, <1>8, <1>13, DefinitionMoves DEF FinishPrecheck
<1>14. ASSUME NEW n \in Number, DeliverReport(n)
       PROVE  DefinitionTyped
  <2>1. PICK report \in mail[n] :
           \/ \E rs : Save(rs)
           \/ /\ report.kind \notin {"waiting", "working"}
              /\ \E oldest \in Prunable : Complete(n, report.kind, oldest)
    BY <1>14 DEF DeliverReport
  <2>2. CASE \E rs : Save(rs)
    BY <1>1, <2>2, DefinitionMoves
  <2>3. ASSUME report.kind \notin {"waiting", "working"}, NEW oldest, Complete(n, report.kind, oldest)
        PROVE  DefinitionTyped
    <3>1. report.kind \in {"Success", "Failure", "Blocked"}
      BY <2>3 DEF TypeInv, Mail
    <3>2. CASE report.kind = "Failure"
      BY <1>1, <2>3, <3>2, DefinitionMoves DEF Complete
    <3>3. CASE report.kind = "Success"
      BY <1>1, <1>2, <2>3, <3>3, DefinitionMoves DEF Complete
    <3>4. CASE report.kind = "Blocked"
      <4>1. (state' = IF state = "Active" THEN "Blocked" ELSE state) /\ circuit' = circuit
        BY <2>3, <3>4 DEF Complete
      <4> QED
        BY <1>1, <4>1 DEF DefinitionTyped, States
    <3> QED
      BY <3>1, <3>2, <3>3, <3>4
  <2> QED
    BY <2>1, <2>2, <2>3
<1>15. People => DefinitionTyped
  <2>1. ASSUME NEW n \in Number, CancelRun(n) \/ TakeOver(n) \/ StopWaiting(n) \/ ExtendWaiting(n)
        PROVE  DefinitionTyped
    BY <1>1, <2>1, DefinitionMoves DEF CancelRun, TakeOver, StopWaiting, ExtendWaiting
  <2>2. ASSUME NEW policy, NEW precheck, RunNow(policy, precheck)
        PROVE  DefinitionTyped
    BY <1>2, <2>2 DEF RunNow
  <2>3. (\E cancelActive \in BOOLEAN : Pause(cancelActive)) \/ ResumeSchedule \/ Trash \/ Restore
        => DefinitionTyped
    BY <1>1 DEF Pause, ResumeSchedule, Trash, Restore, DefinitionTyped, States
  <2> QED
    BY <2>1, <2>2, <2>3 DEF People
<1>16. ASSUME NEW n \in Number,
              RetryDue(n) \/ DeadlinePasses(n) \/ AgentExits(n) \/ \E kind \in Reports : Report(n, kind)
       PROVE  DefinitionTyped
  BY <1>1, <1>2, <1>16, DefinitionMoves DEF RetryDue, DeadlinePasses, AgentExits, Report
<1>17. Clock \/ UNCHANGED vars => DefinitionTyped
  BY <1>1, <1>2 DEF Clock, vars, definition
<1>18. ASSUME NEW reboot \in BOOLEAN, NEW survivors \in SUBSET Number, Dies(reboot, survivors)
       PROVE  DefinitionTyped
  BY <1>2, <1>18 DEF Dies, Crash, CrashInLaunch, HostDies
<1>19. TickStep => DefinitionTyped
  BY <1>4, <1>5, <1>6, <1>9, <1>10, <1>11, <1>12 DEF TickStep
<1> QED
  BY <1>3, <1>13, <1>14, <1>15, <1>16, <1>17, <1>18, <1>19 DEF Next, Dies

LEMMA IntervalFacts ==
  ASSUME NEW n \in Nat
  PROVE  IsFiniteSet(1 .. n) /\ Cardinality(1 .. n) = n
BY FS_Interval

LEMMA CountedBelow ==
  ASSUME NEW L \in Nat, NEW S \in SUBSET (1 .. L), NEW a \in Nat, NEW b \in Nat,
         Cardinality(S) <= a, Cardinality((1 .. L) \ S) <= b
  PROVE  L <= a + b
<1>1. IsFiniteSet(1 .. L) /\ Cardinality(1 .. L) = L
  BY FS_Interval
<1>2. IsFiniteSet(S) /\ IsFiniteSet((1 .. L) \ S)
  BY <1>1, FS_Subset
<1>3. S \cup ((1 .. L) \ S) = 1 .. L /\ S \cap ((1 .. L) \ S) = {}
  OBVIOUS
<1> DEFINE T == (1 .. L) \ S
<1>4. Cardinality(S \cup T) = Cardinality(S) + Cardinality(T) - Cardinality(S \cap T)
  BY <1>2, FS_Union
<1>5. Cardinality(S \cap T) = 0
  BY <1>3, FS_EmptySet
<1>6. Cardinality(S) \in Nat /\ Cardinality(T) \in Nat
  BY <1>2, FS_CardinalityType
<1>7. Cardinality(S \cup T) = L
  BY <1>1, <1>3
<1> HIDE DEF T
<1>8. Cardinality(T) <= b
  BY DEF T
<1> QED
  BY <1>4, <1>5, <1>6, <1>7, <1>8

RowsTyped ==
  /\ runs' \in Seq(Run) /\ DOMAIN runs' \subseteq Number
  /\ Cardinality(Scheduled(runs')) <= Cardinality(claimed')
  /\ Cardinality(DOMAIN runs' \ Scheduled(runs')) <= MaxManual

LEMMA ScheduledFacts ==
  ASSUME TypeInv
  PROVE  /\ Scheduled(runs) \in SUBSET DOMAIN runs
         /\ IsFiniteSet(DOMAIN runs) /\ IsFiniteSet(Scheduled(runs)) /\ IsFiniteSet(claimed)
         /\ IsFiniteSet(DOMAIN runs \ Scheduled(runs))
         /\ Cardinality(Scheduled(runs)) \in Nat /\ Cardinality(claimed) \in Nat
         /\ Cardinality(DOMAIN runs \ Scheduled(runs)) \in Nat
<1>1. Scheduled(runs) \in SUBSET DOMAIN runs
  BY DEF Scheduled
<1>2. IsFiniteSet(DOMAIN runs)
  BY TypeFacts, IntervalFacts
<1>3. IsFiniteSet(claimed)
  <2>1. now \in Nat /\ claimed \in SUBSET (1 .. now)
    BY TypeFacts DEF TypeInv, TypeOK
  <2>2. IsFiniteSet(1 .. now)
    BY <2>1, FS_Interval
  <2> QED
    BY <2>1, <2>2, FS_Subset
<1>4. IsFiniteSet(Scheduled(runs)) /\ IsFiniteSet(DOMAIN runs \ Scheduled(runs))
  BY <1>1, <1>2, FS_Subset
<1> QED
  BY <1>1, <1>2, <1>3, <1>4, FS_CardinalityType

LEMMA RowsAreTyped ==
  ASSUME IInv, [Next]_vars
  PROVE  RowsTyped
<1>1. TypeInv /\ Horizon \in Nat /\ MaxManual \in Nat
  BY ConfFacts DEF IInv, TypeInv
<1>2. /\ now' \in 0 .. Horizon /\ claimed' \in SUBSET (1 .. now') /\ claimed \in SUBSET claimed'
  BY <1>1, TimeTyped
<1>3. /\ Cardinality(Scheduled(runs)) <= Cardinality(claimed)
      /\ Cardinality(DOMAIN runs \ Scheduled(runs)) <= MaxManual
      /\ DOMAIN runs \subseteq Number /\ DOMAIN runs = 1 .. Len(runs) /\ Len(runs) \in Nat
  BY <1>1, TypeFacts DEF TypeInv, TypeOK
<1>4. IsFiniteSet(1 .. now') /\ Cardinality(1 .. now') <= Horizon
  <2>1. now' \in Nat /\ now' <= Horizon
    BY <1>1, <1>2
  <2> QED
    BY <2>1, IntervalFacts
<1>5. /\ IsFiniteSet(claimed') /\ Cardinality(claimed') <= Cardinality(1 .. now')
      /\ Cardinality(claimed') \in Nat
  BY <1>2, <1>4, FS_Subset, FS_CardinalityType
<1>6. Cardinality(claimed) <= Cardinality(claimed')
  BY <1>2, <1>5, FS_Subset
<1>7. Cardinality(1 .. now') \in Nat
  BY <1>4, FS_CardinalityType
<1>8. Cardinality(claimed') <= Horizon
  BY <1>1, <1>4, <1>5, <1>7
<1>9. CASE KeepsRows
  <2>1. Scheduled(runs') = Scheduled(runs) /\ DOMAIN runs' = DOMAIN runs
    BY <1>9 DEF KeepsRows, Firm, Ident, Scheduled
  <2>2. Cardinality(Scheduled(runs)) <= Cardinality(claimed')
    BY <1>1, <1>3, <1>5, <1>6, ScheduledFacts
  <2> QED
    BY <1>3, <1>9, <2>1, <2>2 DEF RowsTyped, KeepsRows
<1>10. ASSUME NEW r, Added(r), Len(runs) + 1 \notin DOMAIN runs,
              Cardinality(Scheduled(runs')) <= Cardinality(claimed'),
              Cardinality(DOMAIN runs' \ Scheduled(runs')) <= MaxManual
       PROVE  RowsTyped
  <2> DEFINE L == Len(runs) + 1
             S == Scheduled(runs')
  <2>1. DOMAIN runs' = 1 .. L /\ L \in Nat
    BY <1>3, <1>10 DEF Added
  <2>2. S \in SUBSET (1 .. L)
    BY <2>1 DEF Scheduled
  <2>3. IsFiniteSet(S)
    <3>1. IsFiniteSet(1 .. L)
      BY <2>1, IntervalFacts
    <3> QED
      BY <2>2, <3>1, FS_Subset
  <2>4. Cardinality(S) \in Nat /\ Cardinality(S) <= Horizon
    BY <1>1, <1>5, <1>8, <1>10, <2>3, FS_CardinalityType
  <2>5. Cardinality((1 .. L) \ S) <= MaxManual
    BY <1>10, <2>1
  <2>6. L <= Horizon + MaxManual
    <3> HIDE DEF L, S
    <3> QED
      BY <1>1, <2>1, <2>2, <2>4, <2>5, CountedBelow
  <2>7. 1 .. L \subseteq Number
    BY <1>1, <2>1, <2>6 DEF Number
  <2> QED
    BY <1>10, <2>1, <2>7 DEF RowsTyped, Added
<1>11. CASE Admits
  <2> DEFINE at == actor.at + 1
             L == Len(runs) + 1
             r == NewRun("Scheduled", at, OverlapPolicy, HasPrecheck)
  <2>1. Added(r) /\ L \notin DOMAIN runs /\ claimed' = claimed \cup {at} /\ at \notin claimed
    BY <1>1, <1>11, AdmitFacts
  <2>2. r.trigger = "Scheduled"
    BY DEF NewRun
  <2> HIDE DEF r, L, at
  <2>3. Scheduled(runs') = Scheduled(runs) \cup {L}
        /\ DOMAIN runs' \ Scheduled(runs') = DOMAIN runs \ Scheduled(runs) /\ L \notin Scheduled(runs)
    BY <2>1, <2>2 DEF Added, Scheduled, L
  <2>4. Cardinality(Scheduled(runs')) = Cardinality(Scheduled(runs)) + 1
    BY <1>1, <2>3, ScheduledFacts, FS_AddElement
  <2>5. Cardinality(claimed') = Cardinality(claimed) + 1
    BY <1>1, <2>1, ScheduledFacts, FS_AddElement
  <2>6. Cardinality(Scheduled(runs')) <= Cardinality(claimed')
    BY <1>1, <1>3, <2>4, <2>5, ScheduledFacts
  <2>7. Cardinality(DOMAIN runs' \ Scheduled(runs')) <= MaxManual
    BY <1>3, <2>3
  <2> QED
    BY <1>10, <2>1, <2>6, <2>7 DEF L
<1>12. CASE Asks
  <2> DEFINE L == Len(runs) + 1
             M == DOMAIN runs \ Scheduled(runs)
  <2>1. PICK policy \in ManualPolicies \cup {OverlapPolicy}, precheck \in BOOLEAN :
           Added(NewRun("Manual", now, policy, precheck))
    BY <1>1, <1>12, AskFacts
  <2>2. L \notin DOMAIN runs /\ Cardinality(M) < MaxManual
    BY <1>1, <1>12, AskFacts
  <2> DEFINE r == NewRun("Manual", now, policy, precheck)
  <2>3. Added(r) /\ r.trigger = "Manual"
    BY <2>1 DEF NewRun
  <2> HIDE DEF r, L
  <2>4. /\ Scheduled(runs') = Scheduled(runs) /\ L \notin M
        /\ DOMAIN runs' \ Scheduled(runs') = M \cup {L}
    BY <2>2, <2>3 DEF Added, Scheduled, L
  <2>5. Cardinality(M \cup {L}) = Cardinality(M) + 1 /\ Cardinality(M) \in Nat
    BY <1>1, <2>4, ScheduledFacts, FS_AddElement
  <2>6. Cardinality(DOMAIN runs' \ Scheduled(runs')) <= MaxManual
    <3>1. Cardinality(DOMAIN runs' \ Scheduled(runs')) = Cardinality(M \cup {L})
      BY <2>4, Zenon
    <3> HIDE DEF M
    <3> QED
      BY <1>1, <2>2, <2>5, <3>1
  <2>7. Cardinality(Scheduled(runs')) <= Cardinality(claimed')
    BY <1>1, <1>3, <1>5, <1>6, <2>4, ScheduledFacts
  <2> QED
    BY <1>10, <2>2, <2>3, <2>6, <2>7 DEF L
<1> QED
  BY <1>9, <1>11, <1>12, NextRows

HostTyped ==
  /\ proc' \in [Number -> Procs]
  /\ jobs' \subseteq DOMAIN runs' /\ lost' \subseteq DOMAIN runs'
  /\ mail' \in [Number -> SUBSET Mail] /\ \A n \in Number : Cardinality(mail'[n]) <= 1
  /\ crashes' \in Nat

LEMMA RowsGrow ==
  ASSUME IInv, [Next]_vars
  PROVE  DOMAIN runs \subseteq DOMAIN runs'
<1>1. KeepsRows => DOMAIN runs \subseteq DOMAIN runs'
  BY DEF KeepsRows
<1>2. Admits => DOMAIN runs \subseteq DOMAIN runs'
  BY AdmitFacts DEF Added, IInv
<1>3. Asks => DOMAIN runs \subseteq DOMAIN runs'
  <2> SUFFICES ASSUME Asks PROVE DOMAIN runs \subseteq DOMAIN runs'
    OBVIOUS
  <2>1. \E r : Added(r)
    BY AskFacts DEF IInv
  <2> QED
    BY <2>1 DEF Added
<1> QED
  BY <1>1, <1>2, <1>3, NextRows

LEMMA HostIsTyped ==
  ASSUME IInv, [Next]_vars
  PROVE  HostTyped
<1> USE DEF IInv
<1>1. /\ proc \in [Number -> Procs] /\ jobs \subseteq DOMAIN runs /\ lost \subseteq DOMAIN runs
      /\ mail \in [Number -> SUBSET Mail] /\ (\A n \in Number : Cardinality(mail[n]) <= 1)
      /\ crashes \in Nat /\ DOMAIN runs \subseteq Number
  BY DEF TypeInv, TypeOK, Procs
<1>2. DOMAIN runs \subseteq DOMAIN runs'
  BY RowsGrow
<1>3. CASE UNCHANGED <<proc, jobs, lost, mail, crashes>>
  BY <1>1, <1>2, <1>3 DEF HostTyped
<1>4. ASSUME proc' \in [Number -> Procs], UNCHANGED <<jobs, lost, mail, crashes>>
      PROVE  HostTyped
  BY <1>1, <1>2, <1>4 DEF HostTyped
<1>5. ASSUME jobs' \subseteq DOMAIN runs', UNCHANGED <<proc, lost, mail, crashes>>
      PROVE  HostTyped
  BY <1>1, <1>2, <1>5 DEF HostTyped
<1>6. CASE Reconcile
  <2>1. /\ UNCHANGED <<jobs, lost, mail, crashes>>
        /\ \/ UNCHANGED proc
           \/ proc' = [proc EXCEPT ![Next1] = IF @ = "attached" THEN "gone" ELSE @]
    BY <1>6, ReconcileFacts
  <2>2. proc' \in [Number -> Procs]
    BY <1>1, <2>1 DEF Procs
  <2> QED
    BY <1>4, <2>1, <2>2
<1>7. CASE StartRun
  <2>1. /\ UNCHANGED <<proc, lost, mail, crashes>>
        /\ jobs' = jobs \/ jobs' = jobs \cup {actor.run}
        /\ actor.run \in DOMAIN runs
    <3>1. StartRun => UNCHANGED <<proc, lost, mail, crashes>>
      BY DEF StartRun, host, memory
    <3> QED
      BY <1>7, <3>1, StartRunFacts
  <2> QED
    BY <1>1, <1>2, <1>5, <2>1
<1>8. CASE Launch
  <2>1. /\ UNCHANGED <<jobs, lost, mail, crashes>>
        /\ UNCHANGED proc \/ proc' = [proc EXCEPT ![actor.run] = "attached"]
    BY <1>8, LaunchFacts
  <2>2. proc' \in [Number -> Procs]
    BY <1>1, <2>1 DEF Procs
  <2> QED
    BY <1>4, <2>1, <2>2
<1>9. CASE Resume
  BY <1>3, <1>9, ResumeFacts
<1>10. CASE Expire
  <2>1. /\ UNCHANGED <<jobs, lost, mail, crashes>>
        /\ \/ UNCHANGED proc
           \/ proc' = [proc EXCEPT ![Next1] = "gone"]
    BY <1>10, ExpireFacts
  <2>2. proc' \in [Number -> Procs]
    BY <1>1, <2>1 DEF Procs
  <2> QED
    BY <1>4, <2>1, <2>2
<1>11. CASE Admits
  BY <1>3, <1>11, AdmitFacts
<1>12. CASE Asks
  BY <1>3, <1>12, AskFacts
<1>13. ASSUME NEW n \in Number, FinishPrecheck(n)
       PROVE  HostTyped
  <2>1. UNCHANGED <<proc, lost, mail, crashes>> /\ jobs' = jobs \ {n}
    BY <1>13, FinishPrecheckFacts
  <2> QED
    BY <1>1, <1>2, <1>5, <2>1
<1>14. ASSUME NEW n \in Number, DeliverReport(n)
       PROVE  HostTyped
  <2>1. UNCHANGED <<proc, jobs, lost, crashes>> /\ mail' = [mail EXCEPT ![n] = {}]
    BY <1>14, DeliverFacts
  <2>2. mail' \in [Number -> SUBSET Mail]
    BY <1>1, <2>1
  <2>3. \A k \in Number : mail'[k] = mail[k] \/ mail'[k] = {}
    BY <1>1, <2>1
  <2>4. \A k \in Number : Cardinality(mail'[k]) <= 1
    <3> TAKE k \in Number
    <3>1. Cardinality(mail[k]) <= 1
      BY <1>1
    <3>2. CASE mail'[k] = {}
      BY <3>2, FS_EmptySet
    <3>3. CASE mail'[k] = mail[k]
      BY <3>1, <3>3
    <3> QED
      BY <2>3, <3>2, <3>3
  <2> QED
    BY <1>1, <1>2, <2>1, <2>2, <2>4 DEF HostTyped
<1>15. ASSUME NEW n \in Number, StopWaiting(n)
       PROVE  HostTyped
  BY <1>3, <1>15, StopWaitingFacts
<1>16. CASE Notes
  <2>1. ASSUME NEW n \in Number,
               CancelRun(n) \/ TakeOver(n) \/ ExtendWaiting(n) \/ RetryDue(n) \/ DeadlinePasses(n)
        PROVE  UNCHANGED <<proc, jobs, lost, mail, crashes>>
    BY <2>1, MarkFacts
  <2>2. ASSUME NEW cancelActive \in BOOLEAN, Pause(cancelActive)
        PROVE  UNCHANGED <<proc, jobs, lost, mail, crashes>>
    BY <2>2, PauseFacts
  <2> QED
    BY <1>3, <1>16, <2>1, <2>2 DEF Notes
<1>17. CASE Quiet
  <2>1. EndReconcile \/ MissOccurrence \/ ReachLimit \/ Passes \/ Slips \/ Leaves
        \/ EndResume \/ EndTick \/ Clock \/ ResumeSchedule \/ Trash \/ Restore \/ UNCHANGED vars
        => UNCHANGED <<proc, jobs, lost, mail, crashes>>
    BY DEF EndReconcile, MissOccurrence, ReachLimit, Passes, AdmitRun, Slips, CountFails, AdmitFails,
           Leaves, EndEvaluate, ClaimFails, EndResume, EndTick, Clock, ResumeSchedule, Trash, Restore,
           vars, host, memory
  <2>2. ASSUME NEW n \in Number, AgentExits(n)
        PROVE  HostTyped
    <3>1. UNCHANGED <<jobs, lost, mail, crashes>> /\ proc' = [proc EXCEPT ![n] = "gone"]
      BY <2>2 DEF AgentExits, host, memory
    <3>2. proc' \in [Number -> Procs]
      BY <1>1, <3>1 DEF Procs
    <3> QED
      BY <1>4, <3>1, <3>2
  <2>3. ASSUME NEW n \in Number, NEW kind \in Reports, Report(n, kind)
        PROVE  HostTyped
    <3> DEFINE report == [kind |-> kind, attempt |-> runs[n].attempts]
    <3>1. /\ UNCHANGED <<proc, jobs, lost, crashes>> /\ mail' = [mail EXCEPT ![n] = {report}]
          /\ n \in DOMAIN runs
      BY <2>3 DEF Report, host, memory
    <3>2. report \in Mail
      <4>1. conf \in Configs /\ runs \in Seq(Run)
        BY TypeFacts DEF TypeInv
      <4>2. runs[n].attempts \in Nat
        BY <3>1, <4>1, RowFacts
      <4> QED
        BY <4>1, <4>2, ConfFacts DEF Mail
    <3> HIDE DEF report
    <3>3. mail' \in [Number -> SUBSET Mail]
      BY <1>1, <3>1, <3>2
    <3>4. \A k \in Number : mail'[k] = mail[k] \/ mail'[k] = {report}
      BY <1>1, <3>1
    <3>5. Cardinality({report}) = 1
      BY FS_Singleton
    <3>6. \A k \in Number : Cardinality(mail'[k]) <= 1
      BY <1>1, <3>4, <3>5
    <3> QED
      BY <1>1, <1>2, <3>1, <3>3, <3>6 DEF HostTyped
  <2> QED
    BY <1>3, <1>17, <2>1, <2>2, <2>3 DEF Quiet
<1>18. CASE HandleTick
  BY <1>3, <1>18, HandleTickFacts
<1>19. ASSUME NEW reboot \in BOOLEAN, NEW survivors \in SUBSET Number, Dies(reboot, survivors)
       PROVE  HostTyped
  <2>1. /\ jobs' = {} /\ lost' = lost \cup jobs /\ crashes' = crashes + 1
        /\ mail' = [n \in Number |-> {}] /\ proc' \in [Number -> Procs]
    BY <1>19, DieFacts
  <2>2. mail' \in [Number -> SUBSET Mail]
    BY <2>1
  <2>3. \A k \in Number : mail'[k] = {}
    BY <2>1
  <2>4. \A k \in Number : Cardinality(mail'[k]) <= 1
    BY <2>3, FS_EmptySet
  <2> QED
    BY <1>1, <1>2, <2>1, <2>2, <2>4 DEF HostTyped
<1> QED
  BY <1>6, <1>7, <1>8, <1>9, <1>10, <1>11, <1>12, <1>13, <1>14, <1>15, <1>16, <1>17, <1>18, <1>19,
     NextCases

ActorTyped ==
  /\ actor' \in Actor /\ actor'.todo \subseteq DOMAIN runs'
  /\ actor'.at <= now' /\ actor'.missed \subseteq 1 .. now'

LEMMA IdleFacts ==
  /\ Idle \in Actor /\ Idle.phase = "idle" /\ Idle.todo = {} /\ Idle.at = 0 /\ Idle.missed = {}
  /\ Idle.back = "idle" /\ Idle.run = 0
BY DEF Idle, Actor, Phases

\* The command goes on where the start of a run was called from.
LEMMA ReturnFacts ==
  ASSUME TypeInv, Return
  PROVE  \/ actor.back = "idle" /\ actor' = Idle
         \/ /\ actor.back \in {"evaluate", "resume"} /\ actor' \in Actor
            /\ actor'.phase = actor.back /\ actor'.todo = actor.todo /\ actor'.at = actor.at
            /\ actor'.missed = actor.missed /\ actor'.back = actor.back
<1>1. actor \in Actor
  BY TypeFacts
<1>2. actor.back \in {"idle", "evaluate", "resume"}
  BY <1>1 DEF Actor
<1>3. CASE actor.back = "idle"
  BY <1>3 DEF Return
<1>4. CASE actor.back \in {"evaluate", "resume"}
  <2>1. actor' = [actor EXCEPT !.phase = actor.back, !.run = 0]
    BY <1>4 DEF Return
  <2> QED
    BY <1>1, <1>4, <2>1 DEF Actor, Phases
<1> QED
  BY <1>2, <1>3, <1>4

LEMMA CursorFacts ==
  ASSUME TypeInv
  PROVE  /\ ScheduleCursor \in Nat /\ ScheduleCursor <= now
         /\ ScheduleCursor \in claimed \cup {0, cursor}
         /\ \A c \in claimed \cup {cursor} : c <= ScheduleCursor
<1> DEFINE S == claimed \cup {0, cursor}
<1>1. now \in Nat /\ cursor \in 0 .. now /\ claimed \subseteq 1 .. now
  BY TypeFacts DEF TypeInv, TypeOK
<1>2. S \subseteq 0 .. now /\ S # {}
  BY <1>1
<1>3. Max(S) \in S /\ \A y \in S : y <= Max(S)
  <2> HIDE DEF S
  <2> QED
    BY <1>1, <1>2, MaxFacts
<1>4. ScheduleCursor = Max(S)
  BY DEF ScheduleCursor
<1> HIDE DEF S
<1>5. ScheduleCursor \in 0 .. now
  BY <1>2, <1>3, <1>4
<1>6. ScheduleCursor \in S /\ \A y \in S : y <= ScheduleCursor
  BY <1>3, <1>4
<1> QED
  BY <1>1, <1>5, <1>6 DEF S

LEMMA ActorIsTyped ==
  ASSUME IInv, [Next]_vars
  PROVE  ActorTyped
<1> USE DEF IInv
<1>1. /\ actor \in Actor /\ actor.todo \subseteq DOMAIN runs /\ actor.at \in Nat
      /\ actor.at <= now /\ actor.missed \subseteq 1 .. now
      /\ DOMAIN runs \subseteq Number /\ now \in Nat /\ Len(runs) \in Nat
  BY TypeFacts DEF TypeInv
<1>2. DOMAIN runs \subseteq DOMAIN runs'
  BY RowsGrow
<1>3. now' \in Nat /\ now <= now' /\ Horizon \in Nat
  BY TimeTyped, ConfFacts DEF TypeInv
<1>4. 1 .. now \subseteq 1 .. now'
  BY <1>1, <1>3
\* A new actor whose fields are in order.
<1>5. ASSUME actor' \in Actor, actor'.todo \subseteq DOMAIN runs, actor'.at <= now,
             actor'.missed \subseteq 1 .. now
      PROVE  ActorTyped
  <2>1. actor'.at \in Nat
    BY <1>5 DEF Actor
  <2>2. actor'.at <= now'
    BY <1>1, <1>3, <1>5, <2>1
  <2> QED
    BY <1>2, <1>4, <1>5, <2>2 DEF ActorTyped
<1>6. CASE UNCHANGED actor
  BY <1>1, <1>5, <1>6
<1>7. CASE actor' = Idle
  BY <1>1, <1>5, <1>7, IdleFacts
<1>8. CASE Return
  BY <1>1, <1>5, <1>7, <1>8, ReturnFacts
<1>9. ASSUME NEW ns, ns \subseteq DOMAIN runs, NEW phase \in Phases, NEW full \in BOOLEAN,
             actor' = [Idle EXCEPT !.phase = phase, !.full = full, !.todo = ns]
      PROVE  ActorTyped
  <2>1. actor' \in Actor /\ actor'.todo = ns /\ actor'.at = 0 /\ actor'.missed = {}
    BY <1>1, <1>9, IdleFacts DEF Actor
  <2> QED
    BY <1>1, <1>5, <1>9, <2>1
<1>11. actor.run \in Nat /\ actor.back \in {"idle", "evaluate", "resume"}
  BY <1>1 DEF Actor
<1>12. ActiveRuns \subseteq DOMAIN runs /\ Reserved \subseteq DOMAIN runs /\ Resumable \subseteq DOMAIN runs
  BY DEF ActiveRuns, Reserved, Resumable, Pending
<1>13. ASSUME NEW ns, ns \subseteq DOMAIN runs, actor' = [actor EXCEPT !.todo = ns]
       PROVE  ActorTyped
  <2>1. actor' \in Actor /\ actor'.todo = ns /\ actor'.at = actor.at /\ actor'.missed = actor.missed
    BY <1>1, <1>13 DEF Actor
  <2> QED
    BY <1>1, <1>5, <1>13, <2>1
<1>14. CASE Reconcile
  <2>1. actor' = [actor EXCEPT !.todo = actor.todo \ {Next1}]
    BY <1>14, ReconcileFacts
  <2> QED
    BY <1>1, <1>13, <2>1
<1>15. CASE Expire
  <2>1. actor' = [actor EXCEPT !.todo = actor.todo \ {Next1}]
    BY <1>15, ExpireFacts
  <2> QED
    BY <1>1, <1>13, <2>1
<1>16. ASSUME NEW n \in Nat, NEW back \in {"idle", "evaluate", "resume"},
              actor' = [actor EXCEPT !.phase = "launch", !.run = n, !.back = back]
       PROVE  ActorTyped
  <2>1. actor' \in Actor /\ actor'.todo = actor.todo /\ actor'.at = actor.at
        /\ actor'.missed = actor.missed
    BY <1>1, <1>16 DEF Actor, Phases
  <2> QED
    BY <1>1, <1>5, <2>1
<1>17. CASE StartRun
  <2>1. Return \/ actor' = [actor EXCEPT !.phase = "launch", !.run = actor.run, !.back = actor.back]
    BY <1>17, StartRunFacts
  <2> QED
    BY <1>8, <1>11, <1>16, <2>1
<1>18. CASE Launch
  BY <1>8, <1>18, LaunchFacts
<1>19. CASE Resume
  <2> DEFINE n == Next1
  <2>1. /\ n \in DOMAIN runs
        /\ \/ actor' = [actor EXCEPT !.todo = actor.todo \ {n}]
           \/ \E phase \in {"start", "launch"} :
                 actor' = [actor EXCEPT !.todo = actor.todo \ {n}, !.phase = phase, !.run = n,
                                        !.back = "resume"]
    BY <1>19, ResumeFacts
  <2> HIDE DEF n
  <2>2. CASE actor' = [actor EXCEPT !.todo = actor.todo \ {n}]
    BY <1>1, <1>13, <2>2
  <2>3. ASSUME NEW phase \in {"start", "launch"},
               actor' = [actor EXCEPT !.todo = actor.todo \ {n}, !.phase = phase, !.run = n,
                                      !.back = "resume"]
        PROVE  ActorTyped
    <3>1. n \in Nat /\ actor.todo \ {n} \subseteq DOMAIN runs /\ actor.todo \ {n} \subseteq Number
      BY <1>1, <2>1, TypeFacts
    <3>2. actor' \in Actor /\ actor'.todo = actor.todo \ {n} /\ actor'.at = actor.at
          /\ actor'.missed = actor.missed
      BY <1>1, <2>3, <3>1 DEF Actor, Phases
    <3> QED
      BY <1>1, <1>5, <3>1, <3>2
  <2> QED
    BY <2>1, <2>2, <2>3
<1>20. CASE Admits
  <2> DEFINE at == actor.at + 1
  <2>1. /\ at \in 1 .. now
        /\ \/ actor' = [actor EXCEPT !.phase = "start", !.run = Len(runs) + 1, !.at = at,
                                     !.back = "evaluate", !.spent = TRUE]
           \/ actor' = [actor EXCEPT !.at = at, !.spent = TRUE]
    BY <1>20, AdmitFacts
  <2> HIDE DEF at
  <2>0. Len(runs) + 1 \in Nat /\ at \in Nat /\ at <= now
    BY <1>1, <2>1
  <2>2. CASE actor' = [actor EXCEPT !.phase = "start", !.run = Len(runs) + 1, !.at = at,
                                    !.back = "evaluate", !.spent = TRUE]
    <3>1. actor' \in Actor /\ actor'.todo = actor.todo /\ actor'.at = at
          /\ actor'.missed = actor.missed
      BY <1>1, <2>0, <2>2 DEF Actor, Phases
    <3> QED
      BY <1>1, <1>5, <2>0, <3>1
  <2>3. CASE actor' = [actor EXCEPT !.at = at, !.spent = TRUE]
    <3>1. actor' \in Actor /\ actor'.todo = actor.todo /\ actor'.at = at
          /\ actor'.missed = actor.missed
      BY <1>1, <2>0, <2>3 DEF Actor
    <3> QED
      BY <1>1, <1>5, <2>0, <3>1
  <2> QED
    BY <2>1, <2>2, <2>3
<1>21. CASE Asks
  <2>1. actor' = [actor EXCEPT !.phase = "start", !.run = Len(runs) + 1]
    BY <1>21, AskFacts
  <2>0. Len(runs) + 1 \in Nat
    BY <1>1
  <2>2. actor' \in Actor /\ actor'.todo = actor.todo /\ actor'.at = actor.at
        /\ actor'.missed = actor.missed
    BY <1>1, <2>0, <2>1 DEF Actor, Phases
  <2> QED
    BY <1>1, <1>5, <2>2
<1>22. ASSUME NEW n \in Number, FinishPrecheck(n) \/ DeliverReport(n) \/ StopWaiting(n)
       PROVE  ActorTyped
  <2>1. n \in Nat
    BY TypeFacts
  <2>2. CASE FinishPrecheck(n)
    <3>1. actor' = Idle \/ actor' = [actor EXCEPT !.phase = "launch", !.run = n, !.back = "idle"]
      BY <2>2, FinishPrecheckFacts
    <3> QED
      BY <1>7, <1>16, <2>1, <3>1
  <2>3. CASE DeliverReport(n)
    BY <1>6, <2>3, DeliverFacts
  <2>4. CASE StopWaiting(n)
    BY <1>6, <2>4, StopWaitingFacts
  <2> QED
    BY <1>22, <2>2, <2>3, <2>4
<1>23. CASE Notes
  <2>1. ASSUME NEW n \in Number,
               CancelRun(n) \/ TakeOver(n) \/ ExtendWaiting(n) \/ RetryDue(n) \/ DeadlinePasses(n)
        PROVE  UNCHANGED actor
    BY <2>1, MarkFacts
  <2>2. ASSUME NEW cancelActive \in BOOLEAN, Pause(cancelActive)
        PROVE  UNCHANGED actor
    BY <2>2, PauseFacts
  <2> QED
    BY <1>6, <1>23, <2>1, <2>2 DEF Notes
<1>24. CASE Quiet
  <2>1. Clock \/ ResumeSchedule \/ Trash \/ Restore \/ UNCHANGED vars => UNCHANGED actor
    BY DEF Clock, ResumeSchedule, Trash, Restore, vars
  <2>2. ASSUME NEW n \in Number, AgentExits(n) \/ \E kind \in Reports : Report(n, kind)
        PROVE  UNCHANGED actor
    BY <2>2 DEF AgentExits, Report
  <2>5. CASE EndReconcile
    <3>1. CASE actor' = Idle
      BY <1>7, <3>1
    <3>2. CASE actor' # Idle
      <4>1. PICK phase \in Phases, at \in {ScheduleCursor, 0}, ns \in {{}, ActiveRuns, Resumable} :
               actor' = [actor EXCEPT !.phase = phase, !.at = at, !.todo = ns]
        BY <2>5, <3>2 DEF EndReconcile, Phases
      <4>2. at \in Nat /\ at <= now
        BY <1>1, <4>1, CursorFacts
      <4>3. ns \subseteq DOMAIN runs /\ ns \subseteq Number
        BY <1>1, <1>12, <4>1
      <4>4. actor' \in Actor /\ actor'.todo = ns /\ actor'.at = at /\ actor'.missed = actor.missed
        BY <1>1, <4>1, <4>2, <4>3 DEF Actor
      <4> QED
        BY <1>1, <1>5, <4>2, <4>3, <4>4
    <3> QED
      BY <3>1, <3>2
  <2>6. CASE MissOccurrence
    <3> DEFINE at == actor.at + 1
               missed == actor.missed \cup {at}
    <3>1. at <= now /\ actor' = [actor EXCEPT !.at = at, !.missed = missed, !.spent = TRUE]
      BY <1>1, <2>6 DEF MissOccurrence, Due, Actor
    <3>2. at \in 1 .. now /\ at \in Nat
      BY <1>1, <3>1
    <3> HIDE DEF at
    <3>3. missed \subseteq 1 .. now /\ missed \subseteq Nat
      BY <1>1, <3>2
    <3> HIDE DEF missed
    <3>4. actor' \in Actor /\ actor'.todo = actor.todo /\ actor'.at = at /\ actor'.missed = missed
      BY <1>1, <3>1, <3>2, <3>3 DEF Actor
    <3> QED
      BY <1>1, <1>5, <3>1, <3>3, <3>4
  <2>7. CASE ReachLimit \/ Passes \/ Slips
    <3> DEFINE at == actor.at + 1
    <3>1. at <= now /\ actor' = [actor EXCEPT !.at = at, !.spent = TRUE]
      BY <2>7, PassFacts
    <3>2. at \in Nat
      BY <1>1
    <3> HIDE DEF at
    <3>3. actor' \in Actor /\ actor'.todo = actor.todo /\ actor'.at = at
          /\ actor'.missed = actor.missed
      BY <1>1, <3>1, <3>2 DEF Actor
    <3> QED
      BY <1>1, <1>5, <3>1, <3>3
  <2>8. CASE Leaves
    <3>1. actor' = [actor EXCEPT !.phase = "resume", !.todo = Resumable, !.at = 0,
                                 !.missed = {}, !.spent = FALSE]
      BY <2>8, LeaveFacts
    <3>2. Resumable \subseteq Number
      BY <1>1, <1>12
    <3>3. actor' \in Actor /\ actor'.todo = Resumable /\ actor'.at = 0 /\ actor'.missed = {}
      BY <1>1, <3>1, <3>2 DEF Actor, Phases
    <3> QED
      BY <1>1, <1>5, <1>12, <3>3
  <2>9. CASE EndResume
    <3>1. actor' = [actor EXCEPT !.phase = "expire", !.todo = ActiveRuns]
      BY <2>9 DEF EndResume
    <3>2. ActiveRuns \subseteq Number
      BY <1>1, <1>12
    <3>3. actor' \in Actor /\ actor'.todo = ActiveRuns /\ actor'.at = actor.at
          /\ actor'.missed = actor.missed
      BY <1>1, <3>1, <3>2 DEF Actor, Phases
    <3> QED
      BY <1>1, <1>5, <1>12, <3>3
  <2>10. CASE EndTick
    BY <1>7, <2>10 DEF EndTick
  <2> QED
    BY <1>6, <1>24, <2>1, <2>2, <2>5, <2>6, <2>7, <2>8, <2>9, <2>10 DEF Quiet
<1>25. CASE HandleTick
  BY <1>9, <1>25, HandleTickFacts DEF Phases
<1>26. ASSUME NEW reboot \in BOOLEAN, NEW survivors \in SUBSET Number, Dies(reboot, survivors)
       PROVE  ActorTyped
  <2>1. actor' = [Idle EXCEPT !.phase = "reconcile", !.todo = ActiveRuns \cup Reserved]
    BY <1>26, DieFacts
  <2>2. ActiveRuns \cup Reserved \subseteq Number
    BY <1>1, <1>12
  <2>3. actor' \in Actor /\ actor'.todo = ActiveRuns \cup Reserved /\ actor'.at = 0
        /\ actor'.missed = {}
    BY <2>1, <2>2, IdleFacts DEF Actor, Phases
  <2> QED
    BY <1>1, <1>5, <1>12, <2>3
<1> QED
  BY <1>14, <1>15, <1>17, <1>18, <1>19, <1>20, <1>21, <1>22, <1>23, <1>24, <1>25, <1>26, NextCases

LEMMA TypeInvStep ==
  ASSUME IInv, [Next]_vars
  PROVE  TypeInv'
<1>1. conf \in Configs /\ UNCHANGED conf
  BY NextKeepsConf DEF IInv, TypeInv
<1>2. Horizon' = Horizon /\ MaxManual' = MaxManual /\ Number' = Number /\ Run' = Run /\ Actor' = Actor
  BY <1>1, ConfStays
<1>3. /\ now' \in 0 .. Horizon /\ cursor' \in 0 .. now' /\ startedAt' \in 0 .. now'
      /\ claimed' \subseteq 1 .. now'
  BY TimeTyped DEF IInv
<1>4. DefinitionTyped /\ RowsTyped /\ HostTyped /\ ActorTyped /\ NotesTyped
  BY StateTyped, RowsAreTyped, HostIsTyped, ActorIsTyped, NotesAreTyped DEF IInv
<1>5. TypeOK'
  BY <1>2, <1>3, <1>4 DEF TypeOK, DefinitionTyped, RowsTyped, HostTyped, NotesTyped, States, Procs
<1> QED
  BY <1>1, <1>2, <1>4, <1>5 DEF TypeInv, RowsTyped, HostTyped, ActorTyped, NotesTyped

-----------------------------------------------------------------------------
(***************************************************************************)
(* The limit of scheduled runs.                                            *)
(***************************************************************************)
Counting(rs) == {n \in Retained(rs) : rs[n].status \notin Skipped}

LEMMA LimitStep ==
  ASSUME IInv, [Next]_vars
  PROVE  LimitHolds'
<1>1. TypeInv /\ UNCHANGED conf /\ MaxScheduled \in Nat /\ MaxScheduled' = MaxScheduled
  BY NextKeepsConf, ConfStays, ConfFacts DEF IInv, TypeInv
<1>2. MaxScheduled > 0 => Cardinality(Counting(runs)) <= MaxScheduled
  BY DEF IInv, LimitHolds, Counting
<1>3. IsFiniteSet(Counting(runs)) /\ Cardinality(Counting(runs)) \in Nat
  <2>1. Counting(runs) \in SUBSET Scheduled(runs)
    BY DEF Counting, Retained
  <2> QED
    BY <1>1, <2>1, ScheduledFacts, FS_Subset, FS_CardinalityType
<1>4. SUFFICES MaxScheduled > 0 => Cardinality(Counting(runs')) <= MaxScheduled
  BY <1>1 DEF LimitHolds, Counting
<1>5. ASSUME Counting(runs') \in SUBSET Counting(runs)
      PROVE  MaxScheduled > 0 => Cardinality(Counting(runs')) <= MaxScheduled
  <2>1. Cardinality(Counting(runs')) <= Cardinality(Counting(runs)) /\ IsFiniteSet(Counting(runs'))
    BY <1>3, <1>5, FS_Subset
  <2>2. Cardinality(Counting(runs')) \in Nat
    BY <2>1, FS_CardinalityType
  <2> QED
    BY <1>1, <1>2, <1>3, <2>1, <2>2
<1>6. CASE KeepsRows
  <2>1. Counting(runs') \in SUBSET Counting(runs)
    BY <1>6 DEF KeepsRows, Firm, Ident, Scheduled, Retained, Counting, Final
  <2> QED
    BY <1>5, <2>1
<1>7. CASE Admits
  <2> DEFINE r == NewRun("Scheduled", actor.at + 1, OverlapPolicy, HasPrecheck)
             L == Len(runs) + 1
  <2>1. Added(r) /\ L \notin DOMAIN runs /\ ~LimitReached
    BY <1>1, <1>7, AdmitFacts
  <2>2. r.trigger = "Scheduled" /\ ~r.pruned /\ r.status \notin Skipped
    BY DEF NewRun, Skipped
  <2> HIDE DEF r, L
  <2>3. Counting(runs') = Counting(runs) \cup {L} /\ L \notin Counting(runs)
    BY <2>1, <2>2 DEF Added, Scheduled, Retained, Counting, L
  <2>4. Cardinality(Counting(runs) \cup {L}) = Cardinality(Counting(runs)) + 1
    BY <1>3, <2>3, FS_AddElement
  <2>5. Cardinality(Counting(runs')) = Cardinality(Counting(runs)) + 1
    BY <2>3, <2>4
  <2>6. MaxScheduled > 0 => ~(Cardinality(Counting(runs)) >= MaxScheduled)
    BY <2>1 DEF LimitReached, Executions, Counting
  <2> QED
    BY <1>1, <1>3, <2>5, <2>6
<1>8. CASE Asks
  <2> DEFINE L == Len(runs) + 1
  <2>1. PICK policy \in ManualPolicies \cup {OverlapPolicy}, precheck \in BOOLEAN :
           Added(NewRun("Manual", now, policy, precheck))
    BY <1>1, <1>8, AskFacts
  <2> DEFINE r == NewRun("Manual", now, policy, precheck)
  <2>2. r.trigger = "Manual" /\ Added(r)
    BY <2>1 DEF NewRun
  <2> HIDE DEF r
  <2>3. Counting(runs') \in SUBSET Counting(runs)
    BY <2>2 DEF Added, Scheduled, Retained, Counting
  <2> QED
    BY <1>5, <2>3
<1> QED
  BY <1>6, <1>7, <1>8, NextRows

-----------------------------------------------------------------------------
(***************************************************************************)
(* Overlap.                                                                *)
(***************************************************************************)
\* Steps that let no run through.
CalmRows ==
  /\ DOMAIN runs' = DOMAIN runs
  /\ \A k \in DOMAIN runs : Calm(runs[k], runs'[k])

LEMMA TouchIsCalm ==
  ASSUME TypeInv, NEW n \in DOMAIN runs, Touched(runs, runs', n),
         \/ runs'[n] = runs[n] \/ Marks(runs[n], runs'[n]) \/ Holds(runs[n], runs'[n])
         \/ Closes(runs[n], runs'[n]) \/ Retries(runs[n], runs'[n]) \/ Parks(runs[n], runs'[n])
         \/ (Begins(runs[n], runs'[n]) /\ Passed(runs[n])) \/ Opens(runs[n], runs'[n])
         \/ (Waits(runs[n], runs'[n]) /\ Passed(runs[n]))
  PROVE  CalmRows
<1>1. \A k \in DOMAIN runs : runs[k].attempts \in Nat
  BY TypeFacts, RowFacts DEF TypeInv
<1>2. Calm(runs[n], runs'[n])
  BY <1>1, CalmMoves
<1>3. \A k \in DOMAIN runs \ {n} : Calm(runs[k], runs'[k])
  BY <1>1, CalmMoves DEF Touched
<1> QED
  BY <1>2, <1>3 DEF CalmRows, Touched

LEMMA OverlapStep ==
  ASSUME IInv, [Next]_vars
  PROVE  OverlapInv'
<1> USE DEF IInv
<1>1. DOMAIN runs \subseteq Nat
  BY TypeFacts
<1>2. OverlapInv <=> \A m, n \in DOMAIN runs :
        m < n /\ runs[n].policy # "ForceParallel" /\ Passed(runs[n]) => runs[m].status \in Final
  BY DEF OverlapInv, Passed
<1>3. SUFFICES \A m, n \in DOMAIN runs' :
        m < n /\ runs'[n].policy # "ForceParallel" /\ Passed(runs'[n]) => runs'[m].status \in Final
  BY DEF OverlapInv, Passed
<1>4. CASE CalmRows
  <2> SUFFICES ASSUME NEW m \in DOMAIN runs, NEW n \in DOMAIN runs,
                      m < n, runs'[n].policy # "ForceParallel", Passed(runs'[n])
               PROVE  runs'[m].status \in Final
    BY <1>4 DEF CalmRows
  <2>1. Calm(runs[m], runs'[m]) /\ Calm(runs[n], runs'[n])
    BY <1>4 DEF CalmRows
  <2>2. runs[n].policy # "ForceParallel" /\ Passed(runs[n])
    BY <2>1 DEF Calm, Firm, Ident
  <2>3. runs[m].status \in Final
    BY <1>2, <2>2
  <2> QED
    BY <2>1, <2>3 DEF Calm, Firm
<1>5. ASSUME NEW r, Added(r), ~Passed(r), Len(runs) + 1 \notin DOMAIN runs
      PROVE  OverlapInv'
  <2> DEFINE L == Len(runs) + 1
  <2>1. /\ DOMAIN runs' = DOMAIN runs \cup {L} /\ runs'[L] = r
        /\ \A k \in DOMAIN runs : runs'[k] = runs[k]
    BY <1>5 DEF Added
  <2>2. \A k \in DOMAIN runs : k < L
    BY TypeFacts
  <2> SUFFICES ASSUME NEW m \in DOMAIN runs', NEW n \in DOMAIN runs',
                      m < n, runs'[n].policy # "ForceParallel", Passed(runs'[n])
               PROVE  runs'[m].status \in Final
    BY DEF OverlapInv, Passed
  <2>3. n # L
    BY <1>5, <2>1
  <2>4. n \in DOMAIN runs
    BY <2>1, <2>3
  <2>5. m # L
    <3>1. n < L /\ n \in Nat /\ L \in Nat
      BY <1>1, <2>2, <2>4, TypeFacts
    <3> HIDE DEF L
    <3> QED
      BY <3>1
  <2> HIDE DEF L
  <2> QED
    BY <1>2, <2>1, <2>4, <2>5
<1>6. CASE StartRun
  <2> DEFINE n == actor.run
  <2>1. /\ n \in DOMAIN runs /\ runs[n].status = "Pending" /\ DOMAIN runs' = DOMAIN runs
        /\ \A k \in DOMAIN runs \ {n} : runs'[k] = runs[k] \/ Closes(runs[k], runs'[k])
        /\ \/ /\ \/ runs'[n] = runs[n] \/ Marks(runs[n], runs'[n]) \/ Closes(runs[n], runs'[n])
                 \/ Retries(runs[n], runs'[n]) \/ Parks(runs[n], runs'[n])
           \/ Cleared(n) /\ (Checks(runs[n], runs'[n]) \/ Begins(runs[n], runs'[n]))
    BY <1>6, StartRunFacts
  <2>2. \A k \in DOMAIN runs : runs[k].attempts \in Nat
    BY TypeFacts, RowFacts DEF TypeInv
  <2> HIDE DEF n
  <2>3. \A k \in DOMAIN runs \ {n} : Calm(runs[k], runs'[k])
    BY <2>1, <2>2, CalmMoves
  <2>4. Firm(runs[n], runs'[n])
    BY <2>1, FirmMoves
  <2>5. Calm(runs[n], runs'[n]) \/ Cleared(n)
    BY <2>1, <2>2, CalmMoves
  <2>6. CASE Calm(runs[n], runs'[n])
    BY <1>4, <2>1, <2>3, <2>6 DEF CalmRows, OverlapInv, Passed
  <2>7. CASE Cleared(n)
    <3> SUFFICES ASSUME NEW m \in DOMAIN runs, NEW k \in DOMAIN runs,
                        m < k, runs'[k].policy # "ForceParallel", Passed(runs'[k])
                 PROVE  runs'[m].status \in Final
      BY <2>1 DEF OverlapInv, Passed
    <3>1. CASE k = n
      <4>1. runs[n].policy # "ForceParallel"
        BY <2>4, <3>1 DEF Firm, Ident
      <4> QED
        BY <2>7, <3>1, <4>1 DEF Cleared
    <3>2. CASE k # n
      <4>1. Calm(runs[k], runs'[k]) /\ Firm(runs[m], runs'[m])
        BY <2>3, <2>4, <3>2 DEF Calm
      <4>2. runs[k].policy # "ForceParallel" /\ Passed(runs[k])
        BY <4>1 DEF Calm, Firm, Ident
      <4>3. runs[m].status \in Final
        BY <1>2, <4>2
      <4> QED
        BY <4>1, <4>3 DEF Firm
    <3> QED
      BY <3>1, <3>2
  <2> QED
    BY <2>5, <2>6, <2>7
<1>7. CASE Quiet
  <2>1. runs' = runs
    BY <1>7, QuietFacts
  <2>2. \A k \in DOMAIN runs : runs[k].attempts \in Nat
    BY TypeFacts, RowFacts DEF TypeInv
  <2>3. CalmRows
    BY <2>1, <2>2, CalmMoves DEF CalmRows
  <2> QED
    BY <1>4, <2>3 DEF OverlapInv, Passed
<1>8. CASE Notes
  <2>1. ASSUME NEW n \in Number,
               CancelRun(n) \/ TakeOver(n) \/ ExtendWaiting(n) \/ RetryDue(n) \/ DeadlinePasses(n)
        PROVE  CalmRows
    BY <2>1, MarkFacts, TouchIsCalm
  <2>2. ASSUME NEW cancelActive \in BOOLEAN, Pause(cancelActive)
        PROVE  CalmRows
    <3>1. \A k \in DOMAIN runs : runs[k].attempts \in Nat
      BY TypeFacts, RowFacts DEF TypeInv
    <3>2. /\ DOMAIN runs' = DOMAIN runs
          /\ \A k \in DOMAIN runs : runs'[k] = runs[k] \/ Marks(runs[k], runs'[k])
      BY <2>2, PauseFacts
    <3> QED
      BY <3>1, <3>2, CalmMoves DEF CalmRows
  <2> QED
    BY <1>4, <1>8, <2>1, <2>2 DEF Notes, OverlapInv, Passed
<1>9. Reconcile => CalmRows
  BY ReconcileFacts, TouchIsCalm
<1>10. Launch => CalmRows
  BY LaunchFacts, TouchIsCalm
<1>11. Resume => CalmRows
  <2> SUFFICES ASSUME Resume PROVE CalmRows
    OBVIOUS
  <2> DEFINE n == Next1
  <2>1. /\ n \in DOMAIN runs /\ Touched(runs, runs', n)
        /\ \/ runs'[n] = runs[n] \/ Closes(runs[n], runs'[n]) \/ Retries(runs[n], runs'[n])
           \/ Begins(runs[n], runs'[n]) /\ runs[n].tab
    BY ResumeFacts
  <2>2. runs[n].tab => Passed(runs[n])
    BY <2>1 DEF RowInv, RowOK, Passed
  <2> QED
    BY <2>1, <2>2, TouchIsCalm
<1>12. Expire => CalmRows
  <2> SUFFICES ASSUME Expire PROVE CalmRows
    OBVIOUS
  <2> DEFINE n == Next1
  <2>1. /\ n \in DOMAIN runs /\ Touched(runs, runs', n)
        /\ \/ runs'[n] = runs[n] \/ Closes(runs[n], runs'[n])
           \/ Waits(runs[n], runs'[n]) /\ runs[n].status \in InFlight
    BY ExpireFacts
  <2> QED
    BY <2>1, TouchIsCalm DEF Passed
<1>13. ASSUME NEW n \in Number, FinishPrecheck(n)
       PROVE  CalmRows
  <2>1. /\ n \in DOMAIN runs /\ Touched(runs, runs', n)
        /\ \/ runs'[n] = runs[n]
           \/ /\ runs[n].status \in InFlight
              /\ \/ Waits(runs[n], runs'[n]) \/ Closes(runs[n], runs'[n]) \/ Retries(runs[n], runs'[n])
                 \/ Parks(runs[n], runs'[n]) \/ Begins(runs[n], runs'[n])
    BY <1>13, FinishPrecheckFacts
  <2> QED
    BY <2>1, TouchIsCalm DEF Passed
<1>14. ASSUME NEW n \in Number, DeliverReport(n)
       PROVE  CalmRows
  <2>1. /\ n \in DOMAIN runs /\ DOMAIN runs' = DOMAIN runs /\ runs[n].tab
        /\ \A k \in DOMAIN runs \ {n} : runs'[k] = runs[k] \/ Marks(runs[k], runs'[k])
        /\ runs'[n] = runs[n] \/ Waits(runs[n], runs'[n]) \/ Closes(runs[n], runs'[n])
    BY <1>14, DeliverFacts
  <2>2. Passed(runs[n])
    BY <2>1 DEF RowInv, RowOK, Passed
  <2>3. \A k \in DOMAIN runs : runs[k].attempts \in Nat
    BY TypeFacts, RowFacts DEF TypeInv
  <2>4. Calm(runs[n], runs'[n])
    BY <2>1, <2>2, <2>3, CalmMoves
  <2>5. \A k \in DOMAIN runs \ {n} : Calm(runs[k], runs'[k])
    BY <2>1, <2>3, CalmMoves
  <2> QED
    BY <2>1, <2>4, <2>5 DEF CalmRows
<1>15. ASSUME NEW n \in Number, StopWaiting(n)
       PROVE  CalmRows
  <2>1. /\ n \in DOMAIN runs /\ Touched(runs, runs', n) /\ Waits(runs[n], runs'[n])
        /\ runs[n].status = "WaitingForUser"
    BY <1>15, StopWaitingFacts
  <2> QED
    BY <2>1, TouchIsCalm DEF Passed, InFlight
<1>16. CASE Admits
  <2> DEFINE r == NewRun("Scheduled", actor.at + 1, OverlapPolicy, HasPrecheck)
  <2>1. Added(r) /\ Len(runs) + 1 \notin DOMAIN runs
    BY <1>16, AdmitFacts
  <2>2. ~Passed(r)
    BY DEF NewRun, Passed, InFlight
  <2> HIDE DEF r
  <2> QED
    BY <1>5, <2>1, <2>2 DEF OverlapInv, Passed
<1>17. CASE Asks
  <2>1. PICK policy \in ManualPolicies \cup {OverlapPolicy}, precheck \in BOOLEAN :
           Added(NewRun("Manual", now, policy, precheck))
    BY <1>17, AskFacts
  <2> DEFINE r == NewRun("Manual", now, policy, precheck)
  <2>2. ~Passed(r) /\ Added(r) /\ Len(runs) + 1 \notin DOMAIN runs
    BY <1>17, <2>1, AskFacts DEF NewRun, Passed, InFlight
  <2> HIDE DEF r
  <2> QED
    BY <1>5, <2>2 DEF OverlapInv, Passed
<1>18. HandleTick => CalmRows
  <2>1. \A k \in DOMAIN runs : runs[k].attempts \in Nat
    BY TypeFacts, RowFacts DEF TypeInv
  <2> QED
    BY <2>1, HandleTickFacts, CalmMoves DEF CalmRows
<1>19. ASSUME NEW reboot \in BOOLEAN, NEW survivors \in SUBSET Number, Dies(reboot, survivors)
       PROVE  CalmRows
  <2>1. \A k \in DOMAIN runs : runs[k].attempts \in Nat
    BY TypeFacts, RowFacts DEF TypeInv
  <2> QED
    BY <1>19, <2>1, DieFacts, CalmMoves DEF CalmRows
<1> QED
  BY <1>4, <1>6, <1>7, <1>8, <1>9, <1>10, <1>11, <1>12, <1>13, <1>14, <1>15, <1>16, <1>17, <1>18,
     <1>19, NextCases

-----------------------------------------------------------------------------
(***************************************************************************)
(* Rows and their agents.                                                  *)
(***************************************************************************)
LEMMA RowFrame ==
  ASSUME RowInv, UNCHANGED conf, NEW n \in DOMAIN runs, DOMAIN runs \subseteq Number,
         Touched(runs, runs', n),
         \A k \in Number \ {n} : proc'[k] = proc[k] /\ mail'[k] = mail[k],
         RowOK(runs'[n], proc'[n], mail'[n])
  PROVE  RowInv'
<1>1. Number' = Number
  BY ConfStays
<1>2. \A k \in DOMAIN runs \ {n} : RowOK(runs'[k], proc'[k], mail'[k])
  BY DEF RowInv, Touched
<1> QED
  BY <1>1, <1>2 DEF RowInv, Touched

LEMMA RowStep ==
  ASSUME IInv, [Next]_vars
  PROVE  RowInv'
<1> USE DEF IInv
<1>1. /\ UNCHANGED conf /\ DOMAIN runs \subseteq Number /\ Number' = Number
      /\ proc \in [Number -> Procs] /\ mail \in [Number -> SUBSET Mail]
  BY NextKeepsConf, ConfStays DEF TypeInv, TypeOK, Procs
<1>2. \A k \in DOMAIN runs : RowOK(runs[k], proc[k], mail[k]) /\ runs[k].attempts \in Nat
  BY TypeFacts, RowFacts DEF RowInv, TypeInv
\* Steps that leave processes and mail alone.
<1>3. ASSUME NEW n \in DOMAIN runs, Touched(runs, runs', n), UNCHANGED <<proc, mail>>,
             RowOK(runs'[n], proc[n], mail[n])
      PROVE  RowInv'
  BY <1>1, <1>3, RowFrame
<1>4. CASE Reconcile
  <2> DEFINE n == Next1
             r == runs[n]
             s == runs'[n]
  <2>1. /\ n \in DOMAIN runs /\ Touched(runs, runs', n) /\ UNCHANGED mail
        /\ \/ s = r /\ UNCHANGED proc
           \/ /\ ~SkipsReconcile(n) /\ r.recovery = "resuming" /\ s.reserved = r.reserved
              /\ proc' = [proc EXCEPT ![n] = IF @ = "attached" THEN "gone" ELSE @]
              /\ Holds(r, s) \/ Closes(r, s) \/ Retries(r, s)
           \/ UNCHANGED proc /\ Holds(r, s) /\ ~s.reserved
           \/ /\ ~SkipsReconcile(n) /\ UNCHANGED proc
              /\ Holds(r, s) /\ s.reserved /\ proc[n] \in Outlived \cup {"none"}
           \/ /\ UNCHANGED proc /\ proc[n] = "gone" /\ ~s.reserved
              /\ Closes(r, s) \/ Retries(r, s)
    BY <1>4, ReconcileFacts
  <2>2. RowOK(r, proc[n], mail[n]) /\ n \in Number
    BY <1>1, <1>2, <2>1
  <2> HIDE DEF n, s
  <2>3. CASE s = r /\ UNCHANGED proc
    BY <1>3, <2>1, <2>2, <2>3 DEF s
  <2>4. CASE UNCHANGED proc /\ Holds(r, s) /\ ~s.reserved
    BY <1>3, <2>1, <2>2, <2>4, RowOKHolds DEF s
  <2>5. CASE /\ ~SkipsReconcile(n) /\ UNCHANGED proc
             /\ Holds(r, s) /\ s.reserved /\ proc[n] \in Outlived \cup {"none"}
    <3>1. r.status = "Pending" => r.tab
      BY <2>2, <2>5 DEF SkipsReconcile, RowOK
    <3>2. RowOK(s, proc[n], mail[n])
      BY <2>2, <2>5, <3>1, RowOKHolds DEF Outlived
    <3> QED
      BY <1>3, <2>1, <2>5, <3>2 DEF s
  <2>6. CASE /\ UNCHANGED proc /\ proc[n] = "gone" /\ ~s.reserved
             /\ Closes(r, s) \/ Retries(r, s)
    <3>1. RowOK(s, proc[n], mail[n])
      BY <2>2, <2>6, RowOKCloses, RowOKRetries DEF Outlived
    <3> QED
      BY <1>3, <2>1, <2>6, <3>1 DEF s
  <2>7. CASE /\ ~SkipsReconcile(n) /\ r.recovery = "resuming" /\ s.reserved = r.reserved
             /\ proc' = [proc EXCEPT ![n] = IF @ = "attached" THEN "gone" ELSE @]
             /\ Holds(r, s) \/ Closes(r, s) \/ Retries(r, s)
    <3> DEFINE q == IF proc[n] = "attached" THEN "gone" ELSE proc[n]
    <3>1. proc'[n] = q /\ \A k \in Number \ {n} : proc'[k] = proc[k]
      BY <1>1, <2>2, <2>7
    <3>2. RowOK(r, q, mail[n]) /\ q # "attached"
      BY <2>2, RowOKGone
    <3>3. r.tab /\ r.attempts > 1
      BY <2>2, <2>7 DEF RowOK
    <3> HIDE DEF q
    <3>4. CASE Holds(r, s)
      <4>1. RowOK(s, q, mail[n])
        BY <3>2, <3>3, <3>4, RowOKHolds
      <4> QED
        BY <1>1, <2>1, <3>1, <4>1, RowFrame DEF s
    <3>5. CASE Closes(r, s)
      <4>1. RowOK(s, q, mail[n])
        BY <3>2, <3>5, RowOKCloses
      <4> QED
        BY <1>1, <2>1, <3>1, <4>1, RowFrame DEF s
    <3>6. CASE Retries(r, s)
      <4>1. s.tab
        BY <3>3, <3>6 DEF Retries, Bound
      <4>2. RowOK(s, q, mail[n])
        BY <3>2, <3>3, <3>6, <4>1, RowOKRetries
      <4> QED
        BY <1>1, <2>1, <3>1, <4>2, RowFrame DEF s
    <3> QED
      BY <2>7, <3>4, <3>5, <3>6
  <2> QED
    BY <2>1, <2>3, <2>4, <2>5, <2>6, <2>7
<1>5. CASE StartRun
  <2> DEFINE n == actor.run
             r == runs[n]
             s == runs'[n]
  <2>1. /\ n \in DOMAIN runs /\ r.status = "Pending" /\ ~r.tab /\ ~r.reserved
        /\ UNCHANGED <<proc, mail>> /\ DOMAIN runs' = DOMAIN runs
        /\ \A k \in DOMAIN runs \ {n} : runs'[k] = runs[k] \/ Closes(runs[k], runs'[k])
        /\ \/ s = r \/ Marks(r, s) \/ Closes(r, s) \/ Retries(r, s) \/ Parks(r, s)
           \/ Checks(r, s) \/ Begins(r, s)
    BY <1>5, StartRunFacts
  <2>2. RowOK(r, proc[n], mail[n]) /\ r.attempts \in Nat
    BY <1>2, <2>1
  <2>3. proc[n] # "attached" /\ proc[n] \notin Outlived
    BY <2>1, <2>2 DEF RowOK
  <2> HIDE DEF n, s
  <2>4. Retries(r, s) => RowOK(s, proc[n], mail[n])
    BY <2>1, <2>2, <2>3, RowOKRetries DEF Retries
  <2>5. RowOK(s, proc[n], mail[n])
    BY <2>1, <2>2, <2>4, RowOKMarks, RowOKCloses, RowOKParks, RowOKChecks, RowOKBegins
  <2>6. \A k \in DOMAIN runs \ {n} : RowOK(runs'[k], proc[k], mail[k])
    BY <1>2, <2>1, RowOKCloses
  <2>7. \A k \in DOMAIN runs : RowOK(runs'[k], proc[k], mail[k])
    BY <2>5, <2>6 DEF s
  <2> QED
    BY <1>1, <2>1, <2>7 DEF RowInv
<1>6. CASE Launch
  <2> DEFINE n == actor.run
             r == runs[n]
             s == runs'[n]
  <2>1. /\ actor.phase = "launch" /\ n \in DOMAIN runs /\ Touched(runs, runs', n) /\ UNCHANGED mail
        /\ \/ Opens(r, s) /\ proc' = [proc EXCEPT ![n] = "attached"]
           \/ UNCHANGED proc /\ ~s.reserved /\ (Closes(r, s) \/ Retries(r, s))
    BY <1>6, LaunchFacts
  <2>2. RowOK(r, proc[n], mail[n]) /\ n \in Number
    BY <1>1, <1>2, <2>1
  <2>3. /\ r.attempts > 0 /\ r.begun /\ ~r.reserved /\ proc[n] # "attached"
        /\ proc[n] \in Outlived => r.attempts > 2
    BY <2>1 DEF ActorInv
  <2> HIDE DEF n, s
  <2>4. CASE Opens(r, s) /\ proc' = [proc EXCEPT ![n] = "attached"]
    <3>1. proc'[n] = "attached" /\ \A k \in Number \ {n} : proc'[k] = proc[k]
      BY <1>1, <2>2, <2>4
    <3>2. RowOK(s, "attached", mail[n])
      BY <2>2, <2>3, <2>4, RowOKOpens
    <3> QED
      BY <1>1, <2>1, <3>1, <3>2, RowFrame DEF s
  <2>5. CASE UNCHANGED proc /\ ~s.reserved /\ Closes(r, s)
    BY <1>3, <2>1, <2>2, <2>5, RowOKCloses DEF s
  <2>6. CASE UNCHANGED proc /\ ~s.reserved /\ Retries(r, s)
    <3>1. proc[n] \in Outlived => r.attempts > 1
      BY <1>2, <2>1, <2>3
    <3>2. RowOK(s, proc[n], mail[n])
      BY <2>2, <2>3, <2>6, <3>1, RowOKRetries
    <3> QED
      BY <1>3, <2>1, <2>6, <3>2 DEF s
  <2> QED
    BY <2>1, <2>4, <2>5, <2>6
<1>7. CASE Resume
  <2> DEFINE n == Next1
             r == runs[n]
             s == runs'[n]
  <2>1. /\ n \in DOMAIN runs /\ Touched(runs, runs', n) /\ UNCHANGED <<proc, mail>>
        /\ r.status = "Pending"
        /\ \/ s = r \/ Closes(r, s) \/ (Retries(r, s) /\ s.reserved = r.reserved) \/ Begins(r, s)
    BY <1>7, ResumeFacts
  <2>2. RowOK(r, proc[n], mail[n]) /\ r.attempts \in Nat
    BY <1>2, <2>1
  <2> HIDE DEF n, s
  <2>3. Retries(r, s) /\ s.reserved = r.reserved => RowOK(s, proc[n], mail[n])
    <3> SUFFICES ASSUME Retries(r, s), s.reserved = r.reserved PROVE RowOK(s, proc[n], mail[n])
      OBVIOUS
    <3>1. proc[n] # "attached" /\ (proc[n] \in Outlived => r.attempts > 1) /\ (s.reserved => s.tab)
      BY <2>1, <2>2 DEF RowOK, Retries, Bound
    <3> QED
      BY <2>2, <3>1, RowOKRetries
  <2>4. RowOK(s, proc[n], mail[n])
    BY <2>1, <2>2, <2>3, RowOKCloses, RowOKBegins
  <2> QED
    BY <1>3, <2>1, <2>4 DEF s
<1>8. CASE Expire
  <2> DEFINE n == Next1
             r == runs[n]
             s == runs'[n]
             q == proc'[n]
  <2>1. /\ n \in DOMAIN runs /\ Touched(runs, runs', n) /\ UNCHANGED mail
        /\ s = r \/ Waits(r, s) \/ Closes(r, s)
        /\ \/ UNCHANGED proc
           \/ proc' = [proc EXCEPT ![n] = "gone"]
    BY <1>8, ExpireFacts
  <2>2. RowOK(r, proc[n], mail[n]) /\ n \in Number
    BY <1>1, <1>2, <2>1
  <2>3. q \in {proc[n], "gone"} /\ \A k \in Number \ {n} : proc'[k] = proc[k]
    BY <1>1, <2>1, <2>2
  <2> HIDE DEF n, s, q
  <2>4. RowOK(r, q, mail[n])
    BY <2>2, <2>3, RowOKGone
  <2>5. RowOK(s, q, mail[n])
    BY <2>1, <2>4, RowOKWaits, RowOKCloses
  <2> QED
    BY <1>1, <2>1, <2>3, <2>5, RowFrame DEF s, q
<1>9. ASSUME NEW n \in Number, FinishPrecheck(n)
      PROVE  RowInv'
  <2> DEFINE r == runs[n]
             s == runs'[n]
  <2>1. /\ n \in DOMAIN runs /\ Touched(runs, runs', n) /\ UNCHANGED <<proc, mail>>
        /\ \/ s = r
           \/ /\ ~r.tab /\ ~r.reserved
              /\ Waits(r, s) \/ Closes(r, s) \/ Retries(r, s) \/ Parks(r, s) \/ Begins(r, s)
    BY <1>9, FinishPrecheckFacts
  <2>2. RowOK(r, proc[n], mail[n]) /\ r.attempts \in Nat
    BY <1>2, <2>1
  <2> HIDE DEF s
  <2>3. ~r.tab /\ ~r.reserved /\ Retries(r, s) => RowOK(s, proc[n], mail[n])
    <3> SUFFICES ASSUME ~r.tab, ~r.reserved, Retries(r, s) PROVE RowOK(s, proc[n], mail[n])
      OBVIOUS
    <3>1. proc[n] # "attached" /\ proc[n] \notin Outlived /\ ~s.reserved
      BY <2>2 DEF RowOK, Retries
    <3> QED
      BY <2>2, <3>1, RowOKRetries
  <2>4. RowOK(s, proc[n], mail[n])
    BY <2>1, <2>2, <2>3, RowOKWaits, RowOKCloses, RowOKParks, RowOKBegins
  <2> QED
    BY <1>3, <2>1, <2>4 DEF s
<1>10. ASSUME NEW n \in Number, DeliverReport(n)
       PROVE  RowInv'
  <2> DEFINE r == runs[n]
             s == runs'[n]
  <2>1. /\ n \in DOMAIN runs /\ DOMAIN runs' = DOMAIN runs /\ UNCHANGED proc
        /\ mail' = [mail EXCEPT ![n] = {}]
        /\ \A k \in DOMAIN runs \ {n} : runs'[k] = runs[k] \/ Marks(runs[k], runs'[k])
        /\ s = r \/ Waits(r, s) \/ Closes(r, s)
    BY <1>10, DeliverFacts
  <2>2. RowOK(r, proc[n], {})
    BY <1>2, <2>1, RowOKGone
  <2>3. mail'[n] = {} /\ \A k \in Number \ {n} : mail'[k] = mail[k]
    BY <1>1, <2>1
  <2> HIDE DEF s
  <2>4. RowOK(s, proc[n], {})
    BY <2>1, <2>2, RowOKWaits, RowOKCloses
  <2>5. \A k \in DOMAIN runs \ {n} : RowOK(runs'[k], proc[k], mail[k])
    BY <1>2, <2>1, RowOKMarks
  <2>6. \A k \in DOMAIN runs : RowOK(runs'[k], proc'[k], mail'[k])
    BY <1>1, <2>1, <2>3, <2>4, <2>5 DEF s
  <2> QED
    BY <1>1, <2>1, <2>3, <2>6 DEF RowInv
<1>11. ASSUME NEW n \in Number, StopWaiting(n)
       PROVE  RowInv'
  BY <1>2, <1>3, <1>11, StopWaitingFacts, RowOKWaits
<1>12. CASE Notes
  <2>1. ASSUME NEW n \in Number,
               CancelRun(n) \/ TakeOver(n) \/ ExtendWaiting(n) \/ RetryDue(n) \/ DeadlinePasses(n)
        PROVE  RowInv'
    BY <1>2, <1>3, <2>1, MarkFacts, RowOKMarks
  <2>2. ASSUME NEW cancelActive \in BOOLEAN, Pause(cancelActive)
        PROVE  RowInv'
    <3>1. /\ DOMAIN runs' = DOMAIN runs /\ UNCHANGED <<proc, mail>>
          /\ \A k \in DOMAIN runs : runs'[k] = runs[k] \/ Marks(runs[k], runs'[k])
      BY <2>2, PauseFacts
    <3>2. \A k \in DOMAIN runs : RowOK(runs'[k], proc[k], mail[k])
      BY <1>2, <3>1, RowOKMarks
    <3> QED
      BY <1>1, <3>1, <3>2 DEF RowInv
  <2> QED
    BY <1>12, <2>1, <2>2 DEF Notes
<1>13. ASSUME NEW r, Added(r), UNCHANGED <<proc, mail>>, Len(runs) + 1 \notin DOMAIN runs,
              ~r.tab, ~r.reserved, r.recovery = "none", DOMAIN runs' \subseteq Number
       PROVE  RowInv'
  <2> DEFINE L == Len(runs) + 1
  <2>1. /\ DOMAIN runs' = DOMAIN runs \cup {L} /\ runs'[L] = r
        /\ \A k \in DOMAIN runs : runs'[k] = runs[k]
    BY <1>13 DEF Added
  <2> HIDE DEF L
  <2>2. proc[L] = "none" /\ mail[L] = {}
    BY <1>13, <2>1 DEF RowInv, L
  <2>3. RowOK(r, proc[L], mail[L])
    BY <1>13, <2>2 DEF RowOK, Outlived
  <2>4. \A k \in DOMAIN runs' : RowOK(runs'[k], proc[k], mail[k])
    BY <1>2, <2>1, <2>3
  <2> QED
    BY <1>1, <1>13, <2>1, <2>4 DEF RowInv
<1>14. CASE Admits
  <2> DEFINE r == NewRun("Scheduled", actor.at + 1, OverlapPolicy, HasPrecheck)
  <2>1. Added(r) /\ Len(runs) + 1 \notin DOMAIN runs /\ UNCHANGED <<proc, mail>>
    BY <1>14, AdmitFacts
  <2>2. ~r.tab /\ ~r.reserved /\ r.recovery = "none"
    BY DEF NewRun
  <2> HIDE DEF r
  <2> QED
    BY <1>13, <2>1, <2>2, RowsAreTyped DEF RowsTyped
<1>15. CASE Asks
  <2>1. PICK policy \in ManualPolicies \cup {OverlapPolicy}, precheck \in BOOLEAN :
           Added(NewRun("Manual", now, policy, precheck))
    BY <1>15, AskFacts
  <2> DEFINE r == NewRun("Manual", now, policy, precheck)
  <2>2. Added(r) /\ Len(runs) + 1 \notin DOMAIN runs /\ UNCHANGED <<proc, mail>>
    BY <1>15, <2>1, AskFacts
  <2>3. ~r.tab /\ ~r.reserved /\ r.recovery = "none"
    BY DEF NewRun
  <2> HIDE DEF r
  <2> QED
    BY <1>13, <2>2, <2>3, RowsAreTyped DEF RowsTyped
<1>16. CASE Quiet
  <2>1. runs' = runs
    BY <1>16, QuietFacts
  <2>2. CASE UNCHANGED <<proc, mail>>
    BY <1>1, <2>1, <2>2 DEF RowInv
  <2>3. EndReconcile \/ MissOccurrence \/ ReachLimit \/ Passes \/ Slips \/ Leaves
        \/ EndResume \/ EndTick \/ Clock \/ ResumeSchedule \/ Trash \/ Restore \/ UNCHANGED vars
        => UNCHANGED <<proc, mail>>
    BY PassFacts, LeaveFacts
       DEF EndReconcile, MissOccurrence, EndResume, EndTick, Clock, ResumeSchedule, Trash, Restore, vars
  <2>4. ASSUME NEW n \in Number, AgentExits(n)
        PROVE  RowInv'
    <3>1. n \in DOMAIN runs /\ UNCHANGED mail /\ proc' = [proc EXCEPT ![n] = "gone"]
      BY <2>4 DEF AgentExits
    <3>2. \A k \in DOMAIN runs : proc'[k] = proc[k] \/ proc'[k] = "gone"
      BY <1>1, <3>1
    <3>3. \A k \in DOMAIN runs : RowOK(runs[k], proc'[k], mail[k])
      BY <1>2, <3>2, RowOKGone
    <3>4. \A k \in Number \ DOMAIN runs : proc'[k] = proc[k]
      BY <1>1, <3>1
    <3> QED
      BY <1>1, <2>1, <3>1, <3>3, <3>4 DEF RowInv
  <2>5. ASSUME NEW n \in Number, NEW kind \in Reports, Report(n, kind)
        PROVE  RowInv'
    <3>1. /\ n \in DOMAIN runs /\ UNCHANGED proc /\ (proc[n] = "attached" \/ proc[n] \in Outlived)
          /\ \E m : mail' = [mail EXCEPT ![n] = m]
      BY <2>5 DEF Report, Live, Outlived
    <3>2. \A k \in Number \ {n} : mail'[k] = mail[k]
      BY <1>1, <3>1
    <3>3. RowOK(runs[n], proc[n], mail[n])
      BY <1>2, <3>1
    <3>4. RowOK(runs[n], proc[n], mail'[n])
      BY <3>1, <3>3 DEF RowOK
    <3>5. Touched(runs, runs', n)
      BY <2>1, TypeFacts DEF Touched
    <3> QED
      BY <1>1, <2>1, <3>1, <3>2, <3>4, <3>5, RowFrame
  <2> QED
    BY <1>16, <2>2, <2>3, <2>4, <2>5 DEF Quiet
<1>17. CASE HandleTick
  <2>1. /\ DOMAIN runs' = DOMAIN runs /\ UNCHANGED <<proc, mail>>
        /\ \A k \in DOMAIN runs : runs'[k] = runs[k] \/ Marks(runs[k], runs'[k])
    BY <1>17, HandleTickFacts
  <2>2. \A k \in DOMAIN runs : RowOK(runs'[k], proc[k], mail[k])
    BY <1>2, <2>1, RowOKMarks
  <2> QED
    BY <1>1, <2>1, <2>2 DEF RowInv
<1>18. ASSUME NEW reboot \in BOOLEAN, NEW survivors \in SUBSET Number, Dies(reboot, survivors)
       PROVE  RowInv'
  <2>1. /\ DOMAIN runs' = DOMAIN runs /\ mail' = [k \in Number |-> {}]
        /\ \A k \in Number \ DOMAIN runs : proc'[k] = "none"
    BY <1>18, DieFacts
  <2>2. ASSUME NEW k \in DOMAIN runs
        PROVE  RowOK(runs'[k], proc'[k], {})
    <3>1. RowOK(runs[k], proc[k], mail[k]) /\ k \in Number
      BY <1>1, <1>2
    <3>2. proc'[k] # "attached"
      BY <1>18, <3>1, DieFacts DEF Outlived
    <3>3. CASE Binds(runs[k], runs'[k])
      BY <3>1, <3>2, <3>3, RowOKBinds
    <3>4. CASE ~Binds(runs[k], runs'[k])
      <4>1. /\ runs'[k] = runs[k]
            /\ \/ proc'[k] = proc[k] \/ proc'[k] = "gone"
               \/ proc'[k] = "detached" /\ proc[k] = "attached"
        BY <1>18, <3>1, <3>4, DieFacts
      <4>2. CASE proc'[k] = proc[k] \/ proc'[k] = "gone"
        <5>1. RowOK(runs[k], proc'[k], mail[k])
          BY <3>1, <4>2, RowOKGone
        <5> QED
          BY <4>1, <5>1, RowOKGone
      <4>3. CASE proc'[k] = "detached" /\ proc[k] = "attached"
        BY <3>1, <4>1, <4>3 DEF RowOK
      <4> QED
        BY <4>1, <4>2, <4>3
    <3> QED
      BY <3>3, <3>4
  <2>3. \A k \in Number : mail'[k] = {}
    BY <2>1
  <2> QED
    BY <1>1, <2>1, <2>2, <2>3 DEF RowInv
<1> QED
  BY <1>4, <1>5, <1>6, <1>7, <1>8, <1>9, <1>10, <1>11, <1>12, <1>14, <1>15, <1>16, <1>17, <1>18,
     NextCases

-----------------------------------------------------------------------------
(***************************************************************************)
(* What the actor is about to do.                                          *)
(***************************************************************************)
LEMMA ActorAtEase ==
  ASSUME actor' = Idle \/ actor'.phase \in {"reconcile", "evaluate", "expire"}
  PROVE  ActorInv'
BY IdleFacts DEF ActorInv, Resuming

LEMMA ActorResumes ==
  ASSUME actor'.phase = "resume", \A k \in actor'.todo : runs'[k].status = "Pending"
  PROVE  ActorInv'
BY DEF ActorInv, Resuming

\* A command that has ended, or the loop that goes on with the runs it has left.
LEMMA ActorReturns ==
  ASSUME TypeInv, ActorInv, Return, actor.phase \in {"start", "launch"},
         \A k \in DOMAIN runs : k > actor.run => runs'[k].status = runs[k].status,
         actor.run \in Nat
  PROVE  ActorInv'
<1>1. \/ actor' = Idle
      \/ actor.back = "evaluate" /\ actor'.phase = "evaluate"
      \/ actor.back = "resume" /\ actor'.phase = "resume" /\ actor'.todo = actor.todo
  BY ReturnFacts
<1>2. CASE actor.back = "resume" /\ actor'.phase = "resume" /\ actor'.todo = actor.todo
  <2>1. \A k \in actor.todo : runs[k].status = "Pending" /\ actor.run < k /\ k \in DOMAIN runs
    BY <1>2, TypeFacts DEF ActorInv, Resuming
  <2>2. \A k \in actor'.todo : runs'[k].status = "Pending"
    BY <1>2, <2>1, TypeFacts
  <2> QED
    BY <1>2, <2>2, ActorResumes
<1> QED
  BY <1>1, <1>2, ActorAtEase

LEMMA ActorStep ==
  ASSUME IInv, [Next]_vars
  PROVE  ActorInv'
<1> USE DEF IInv
<1>1. /\ \A k \in DOMAIN runs : RowOK(runs[k], proc[k], mail[k]) /\ runs[k].attempts \in Nat
      /\ \A k \in DOMAIN runs : k \in Nat
      /\ actor \in Actor /\ actor.todo \subseteq DOMAIN runs
  BY TypeFacts, RowFacts DEF RowInv, TypeInv
<1>2. AtRest => actor = Idle
  BY DEF AtRest, ActorInv
<1>3. CASE Quiet
  <2>1. CASE MissOccurrence
    <3>1. actor'.phase = "evaluate"
      BY <1>1, <2>1 DEF MissOccurrence, Due, Actor
    <3> QED
      BY <3>1, ActorAtEase
  <2>2. CASE ReachLimit \/ Passes \/ Slips
    <3>1. actor'.phase = "evaluate"
      BY <1>1, <2>2, PassFacts DEF Actor
    <3> QED
      BY <3>1, ActorAtEase
  <2>3. CASE EndResume \/ EndTick
    <3>1. actor' = Idle \/ actor'.phase = "expire"
      BY <1>1, <2>3 DEF EndResume, EndTick, Actor
    <3> QED
      BY <3>1, ActorAtEase
  <2>4. CASE \/ Clock \/ ResumeSchedule \/ Trash \/ Restore
             \/ \E n \in Number : AgentExits(n) \/ \E kind \in Reports : Report(n, kind)
    <3>1. actor' = Idle
      BY <1>2, <2>4 DEF Clock, ResumeSchedule, Trash, Restore, AgentExits, Report, Request
    <3> QED
      BY <3>1, ActorAtEase
  <2>5. CASE UNCHANGED vars
    BY <2>5 DEF vars, ActorInv, Resuming, Idle
  <2>6. CASE Leaves
    <3>1. actor'.phase = "resume" /\ actor'.todo = Resumable /\ runs' = runs
      BY <1>1, <2>6, LeaveFacts DEF Actor
    <3> QED
      BY <3>1, ActorResumes DEF Resumable, Pending
  <2>7. CASE EndReconcile
    <3>1. runs' = runs
      BY <2>7 DEF EndReconcile
    <3>2. \/ actor' = Idle \/ actor'.phase \in {"evaluate", "expire"}
          \/ actor'.phase = "resume" /\ actor'.todo = Resumable
      BY <1>1, <2>7 DEF EndReconcile, Actor
    <3> QED
      BY <3>1, <3>2, ActorAtEase, ActorResumes DEF Resumable, Pending
  <2> QED
    BY <1>3, <2>1, <2>2, <2>3, <2>4, <2>5, <2>6, <2>7 DEF Quiet
<1>4. CASE Notes
  <2>1. actor' = Idle
    BY <1>2, <1>4, MarkFacts, PauseFacts DEF Notes
  <2> QED
    BY <2>1, ActorAtEase
<1>5. CASE Reconcile
  <2>1. actor'.phase = "reconcile"
    BY <1>1, <1>5, ReconcileFacts DEF Actor
  <2> QED
    BY <2>1, ActorAtEase
<1>6. CASE Expire
  <2>1. actor'.phase = "expire"
    BY <1>1, <1>6, ExpireFacts DEF Actor
  <2> QED
    BY <2>1, ActorAtEase
<1>7. CASE Launch
  <2> DEFINE n == actor.run
  <2>1. actor.phase = "launch" /\ n \in DOMAIN runs /\ Touched(runs, runs', n) /\ Return
    BY <1>7, LaunchFacts
  <2>2. \A k \in DOMAIN runs : k > n => runs'[k].status = runs[k].status
    BY <1>1, <2>1 DEF Touched
  <2> QED
    BY <1>1, <2>1, <2>2, ActorReturns
<1>8. CASE Asks
  <2>1. /\ actor = Idle /\ actor' = [actor EXCEPT !.phase = "start", !.run = Len(runs) + 1]
        /\ \E policy, precheck : Added(NewRun("Manual", now, policy, precheck))
    BY <1>2, <1>8, AskFacts
  <2>2. actor'.phase = "start" /\ actor'.run = Len(runs) + 1 /\ actor'.back = "idle"
    BY <2>1 DEF Idle
  <2>3. /\ actor'.run \in DOMAIN runs' /\ runs'[actor'.run].status = "Pending"
        /\ ~runs'[actor'.run].tab
    BY <2>1, <2>2 DEF Added, NewRun
  <2> QED
    BY <2>2, <2>3 DEF ActorInv, Resuming
<1>9. CASE Admits
  <2>1. /\ \/ actor' = [actor EXCEPT !.phase = "start", !.run = Len(runs) + 1, !.at = actor.at + 1,
                                     !.back = "evaluate", !.spent = TRUE]
           \/ actor' = [actor EXCEPT !.at = actor.at + 1, !.spent = TRUE]
        /\ actor.phase = "evaluate"
        /\ Added(NewRun("Scheduled", actor.at + 1, OverlapPolicy, HasPrecheck))
    BY <1>9, AdmitFacts
  <2>2. \/ actor'.phase = "start" /\ actor'.run = Len(runs) + 1 /\ actor'.back = "evaluate"
        \/ actor'.phase = "evaluate"
    BY <1>1, <2>1 DEF Actor
  <2>3. CASE actor'.phase = "start" /\ actor'.run = Len(runs) + 1 /\ actor'.back = "evaluate"
    <3>1. /\ actor'.run \in DOMAIN runs' /\ runs'[actor'.run].status = "Pending"
          /\ ~runs'[actor'.run].tab
      BY <2>1, <2>3 DEF Added, NewRun
    <3> QED
      BY <2>3, <3>1 DEF ActorInv, Resuming
  <2> QED
    BY <2>2, <2>3, ActorAtEase
<1>10. ASSUME NEW n \in Number, DeliverReport(n) \/ StopWaiting(n)
       PROVE  ActorInv'
  <2>1. actor' = Idle
    BY <1>2, <1>10, DeliverFacts, StopWaitingFacts
  <2> QED
    BY <2>1, ActorAtEase
<1>11. ASSUME NEW n \in Number, FinishPrecheck(n)
       PROVE  ActorInv'
  <2>1. /\ n \in DOMAIN runs /\ Touched(runs, runs', n) /\ UNCHANGED proc /\ actor = Idle
        /\ \/ actor' = Idle
           \/ /\ Begins(runs[n], runs'[n]) /\ ~runs[n].tab
              /\ actor' = [actor EXCEPT !.phase = "launch", !.run = n, !.back = "idle"]
    BY <1>11, FinishPrecheckFacts
  <2>2. CASE /\ Begins(runs[n], runs'[n]) /\ ~runs[n].tab
             /\ actor' = [actor EXCEPT !.phase = "launch", !.run = n, !.back = "idle"]
    <3>1. actor'.phase = "launch" /\ actor'.run = n /\ actor'.back = "idle"
      BY <2>1, <2>2 DEF Idle
    <3>2. proc[n] # "attached" /\ proc[n] \notin Outlived
      BY <1>1, <2>1, <2>2 DEF RowOK
    <3>3. /\ n \in DOMAIN runs' /\ runs'[n].status = "Dispatching" /\ runs'[n].begun
          /\ runs'[n].attempts > 0
          /\ ~runs'[n].reserved /\ ~runs'[n].cancel /\ ~runs'[n].taken
      BY <1>1, <2>1, <2>2 DEF Begins, Touched
    <3> QED
      BY <2>1, <3>1, <3>2, <3>3 DEF ActorInv, Resuming
  <2> QED
    BY <2>1, <2>2, ActorAtEase
<1>12. CASE StartRun
  <2> DEFINE n == actor.run
  <2>1. /\ actor.phase = "start" /\ n \in DOMAIN runs /\ ~runs[n].tab /\ UNCHANGED proc
        /\ DOMAIN runs' = DOMAIN runs
        /\ \A k \in DOMAIN runs \ {n} : runs'[k] = runs[k] \/ k < n
        /\ \/ Return
           \/ /\ Begins(runs[n], runs'[n])
              /\ actor' = [actor EXCEPT !.phase = "launch", !.run = n, !.back = actor.back]
    BY <1>12, StartRunFacts
  <2>2. \A k \in DOMAIN runs : k > n => runs'[k] = runs[k]
    BY <1>1, <2>1
  <2>3. CASE Return
    BY <1>1, <2>1, <2>2, <2>3, ActorReturns
  <2>4. CASE /\ Begins(runs[n], runs'[n])
             /\ actor' = [actor EXCEPT !.phase = "launch", !.run = n, !.back = actor.back]
    <3>1. /\ actor'.phase = "launch" /\ actor'.run = n /\ actor'.back = actor.back
          /\ actor'.todo = actor.todo
      BY <1>1, <2>4 DEF Actor
    <3>2. proc[n] # "attached" /\ proc[n] \notin Outlived
      BY <1>1, <2>1 DEF RowOK
    <3>3. /\ n \in DOMAIN runs' /\ runs'[n].status = "Dispatching" /\ runs'[n].begun
          /\ runs'[n].attempts > 0
          /\ ~runs'[n].reserved /\ ~runs'[n].cancel /\ ~runs'[n].taken
      BY <1>1, <2>1, <2>4 DEF Begins
    <3>4. actor.back = "resume" => \A k \in actor.todo :
             runs[k].status = "Pending" /\ n < k /\ k \in DOMAIN runs
      BY <1>1, <2>1 DEF ActorInv, Resuming
    <3>5. actor.back = "resume" => \A k \in actor'.todo : runs'[k].status = "Pending" /\ n < k
      BY <1>1, <2>2, <3>1, <3>4
    <3> HIDE DEF n
    <3> QED
      BY <2>1, <3>1, <3>2, <3>3, <3>5 DEF ActorInv, Resuming
  <2> QED
    BY <2>1, <2>3, <2>4
<1>13. CASE Resume
  <2> DEFINE n == Next1
  <2>1. /\ n \in actor.todo /\ n \in DOMAIN runs /\ actor.phase = "resume"
        /\ \A k \in actor.todo : n <= k
        /\ runs[n].status = "Pending" /\ Touched(runs, runs', n) /\ UNCHANGED proc
        /\ \/ /\ runs' = runs /\ ~runs[n].tab
              /\ actor' = [actor EXCEPT !.todo = actor.todo \ {n}, !.phase = "start", !.run = n,
                                        !.back = "resume"]
           \/ actor' = [actor EXCEPT !.todo = actor.todo \ {n}]
           \/ /\ Begins(runs[n], runs'[n]) /\ runs[n].tab /\ proc[n] # "attached"
              /\ actor' = [actor EXCEPT !.todo = actor.todo \ {n}, !.phase = "launch", !.run = n,
                                        !.back = "resume"]
    BY <1>13, ResumeFacts
  <2> HIDE DEF n
  <2>2. actor'.todo = actor.todo \ {n}
    BY <1>1, <2>1 DEF Actor
  <2>3. \A k \in actor'.todo : runs'[k].status = "Pending" /\ n < k
    <3>1. \A k \in actor.todo : runs[k].status = "Pending"
      BY <2>1 DEF ActorInv, Resuming
    <3> QED
      BY <1>1, <2>1, <2>2, <3>1 DEF Touched
  <2>4. CASE /\ runs' = runs /\ ~runs[n].tab
             /\ actor' = [actor EXCEPT !.todo = actor.todo \ {n}, !.phase = "start", !.run = n,
                                       !.back = "resume"]
    <3>1. actor'.phase = "start" /\ actor'.run = n
      BY <1>1, <2>4 DEF Actor
    <3> QED
      BY <2>1, <2>3, <2>4, <3>1 DEF ActorInv, Resuming
  <2>5. CASE actor' = [actor EXCEPT !.todo = actor.todo \ {n}]
    <3>1. actor'.phase = "resume"
      BY <1>1, <2>1, <2>5 DEF Actor
    <3> QED
      BY <2>3, <3>1, ActorResumes
  <2>6. CASE /\ Begins(runs[n], runs'[n]) /\ runs[n].tab /\ proc[n] # "attached"
             /\ actor' = [actor EXCEPT !.todo = actor.todo \ {n}, !.phase = "launch", !.run = n,
                                       !.back = "resume"]
    <3>1. actor'.phase = "launch" /\ actor'.run = n
      BY <1>1, <2>6 DEF Actor
    <3>2. proc[n] \in Outlived => runs[n].attempts > 1
      BY <1>1, <2>1 DEF RowOK
    <3>3. /\ n \in DOMAIN runs' /\ runs'[n].status = "Dispatching" /\ runs'[n].begun
          /\ runs'[n].attempts = runs[n].attempts + 1
          /\ ~runs'[n].reserved /\ ~runs'[n].cancel /\ ~runs'[n].taken
      BY <2>1, <2>6 DEF Begins, Touched
    <3>4. runs'[n].attempts > 0 /\ (proc[n] \in Outlived => runs'[n].attempts > 2)
      BY <1>1, <2>1, <3>2, <3>3
    <3> QED
      BY <2>1, <2>3, <2>6, <3>1, <3>3, <3>4 DEF ActorInv, Resuming
  <2> QED
    BY <2>1, <2>4, <2>5, <2>6
<1>14. CASE \/ HandleTick
            \/ \E reboot \in BOOLEAN, survivors \in SUBSET Number : Dies(reboot, survivors)
  <2>1. actor'.phase = "reconcile"
    BY <1>14, HandleTickFacts, DieFacts DEF Idle
  <2> QED
    BY <2>1, ActorAtEase
<1> QED
  BY <1>3, <1>4, <1>5, <1>6, <1>7, <1>8, <1>9, <1>10, <1>11, <1>12, <1>13, <1>14, NextCases

-----------------------------------------------------------------------------
(***************************************************************************)
(* Prechecks.                                                              *)
(***************************************************************************)
Parked(r) == r.status \in Final \/ Unanswered(r)

LEMMA ParkedFacts ==
  ASSUME PrecheckInv
  PROVE  /\ \A k \in jobs : Parked(runs[k])
         /\ "wait" \notin Requests => jobs \cap lost = {} /\ \A k \in lost : Parked(runs[k])
BY DEF PrecheckInv, Parked

LEMMA ParkedMoves ==
  ASSUME NEW r, NEW s, Parked(r),
         \/ s = r \/ Marks(r, s) \/ Closes(r, s)
         \/ r.status \in Final /\ Firm(r, s)
         \/ Waits(r, s) /\ ("wait" \in Requests \/ s.status = "WaitingForUser")
  PROVE  Parked(s)
<1>1. CASE r.status \in Final
  BY <1>1, FirmMoves DEF Parked, Firm
<1>2. CASE Closes(r, s)
  BY <1>2 DEF Closes, Parked
<1>3. CASE r.status \notin Final /\ (s = r \/ Marks(r, s))
  BY <1>3 DEF Marks, Tried, Parked, Unanswered
<1>4. CASE r.status \notin Final /\ Waits(r, s) /\ ("wait" \in Requests \/ s.status = "WaitingForUser")
  BY <1>4 DEF Waits, Tried, Parked, Unanswered, InFlight
<1> QED
  BY <1>1, <1>2, <1>3, <1>4

LEMMA PrecheckFrame ==
  ASSUME UNCHANGED conf, \A k \in jobs' : Parked(runs'[k]),
         "wait" \notin Requests => jobs' \cap lost' = {} /\ \A k \in lost' : Parked(runs'[k])
  PROVE  PrecheckInv'
<1>1. Requests' = Requests /\ HasPrecheck' = HasPrecheck
  BY ConfStays
<1> QED
  BY <1>1 DEF PrecheckInv, Parked, Unanswered

\* One row is written, and the jobs are not.
LEMMA PrecheckTouch ==
  ASSUME TypeInv, PrecheckInv, UNCHANGED <<conf, jobs, lost>>, NEW n \in DOMAIN runs,
         Touched(runs, runs', n),
         n \in jobs => Parked(runs'[n]),
         "wait" \notin Requests /\ n \in lost => Parked(runs'[n])
  PROVE  PrecheckInv'
<1>1. jobs \subseteq DOMAIN runs /\ lost \subseteq DOMAIN runs
  BY DEF TypeInv, TypeOK
<1>2. \A k \in DOMAIN runs \ {n} : runs'[k] = runs[k]
  BY DEF Touched
<1>3. \A k \in jobs' : Parked(runs'[k])
  BY <1>1, <1>2, ParkedFacts
<1>4. "wait" \notin Requests => jobs' \cap lost' = {} /\ \A k \in lost' : Parked(runs'[k])
  BY <1>1, <1>2, ParkedFacts
<1> QED
  BY <1>3, <1>4, PrecheckFrame

LEMMA PrecheckStep ==
  ASSUME IInv, [Next]_vars
  PROVE  PrecheckInv'
<1> USE DEF IInv
<1>1. jobs \subseteq DOMAIN runs /\ lost \subseteq DOMAIN runs
  BY DEF TypeInv, TypeOK
<1>2. UNCHANGED conf
  BY NextKeepsConf
<1>3. CASE Quiet
  <2>1. runs' = runs
    BY <1>3, QuietFacts
  <2>2. UNCHANGED <<jobs, lost>>
    BY <1>3, PassFacts, LeaveFacts
       DEF Quiet, EndReconcile, MissOccurrence, EndResume, EndTick, Clock, ResumeSchedule, Trash,
           Restore, AgentExits, Report, vars, host, memory
  <2> QED
    BY <1>2, <2>1, <2>2, ParkedFacts, PrecheckFrame
<1>4. CASE Notes
  <2>1. UNCHANGED <<jobs, lost>>
    BY <1>4, MarkFacts, PauseFacts DEF Notes
  <2>2. \A k \in DOMAIN runs : runs'[k] = runs[k] \/ Marks(runs[k], runs'[k])
    BY <1>4, MarkFacts, PauseFacts DEF Notes, Touched
  <2>3. \A k \in DOMAIN runs : Parked(runs[k]) => Parked(runs'[k])
    BY <2>2, ParkedMoves
  <2> QED
    BY <1>1, <1>2, <2>1, <2>3, ParkedFacts, PrecheckFrame
<1>5. CASE Reconcile
  <2> DEFINE n == Next1
  <2>1. /\ n \in DOMAIN runs /\ Touched(runs, runs', n) /\ UNCHANGED <<jobs, lost>>
        /\ SkipsReconcile(n) => runs' = runs
        /\ \/ runs' = runs \/ Holds(runs[n], runs'[n])
           \/ Closes(runs[n], runs'[n]) \/ Retries(runs[n], runs'[n])
    BY <1>5, ReconcileFacts
  <2>2. Firm(runs[n], runs'[n])
    BY <2>1, FirmMoves
  <2>3. n \in jobs => SkipsReconcile(n)
    BY DEF SkipsReconcile
  <2>4. "wait" \notin Requests /\ Unanswered(runs[n]) => SkipsReconcile(n)
    BY DEF SkipsReconcile, Unanswered, InFlight
  <2> HIDE DEF n
  <2>5. n \in jobs => Parked(runs'[n])
    BY <2>1, <2>3, ParkedFacts
  <2>6. "wait" \notin Requests /\ n \in lost => Parked(runs'[n])
    <3> SUFFICES ASSUME "wait" \notin Requests, n \in lost PROVE Parked(runs'[n])
      OBVIOUS
    <3>1. Parked(runs[n])
      BY ParkedFacts
    <3>2. CASE runs[n].status \in Final
      BY <2>2, <3>1, <3>2, ParkedMoves
    <3>3. CASE Unanswered(runs[n])
      BY <2>1, <2>4, <3>1, <3>3
    <3> QED
      BY <3>1, <3>2, <3>3 DEF Parked
  <2> QED
    BY <1>2, <2>1, <2>5, <2>6, PrecheckTouch
<1>6. CASE Launch
  <2> DEFINE n == actor.run
  <2>1. /\ n \in DOMAIN runs /\ Touched(runs, runs', n) /\ UNCHANGED <<jobs, lost>>
        /\ runs[n].status = "Dispatching" /\ runs[n].begun
    BY <1>6, LaunchFacts DEF ActorInv
  <2>2. ~Parked(runs[n])
    BY <2>1 DEF Parked, Unanswered, Final, Skipped
  <2> HIDE DEF n
  <2> QED
    BY <1>2, <2>1, <2>2, ParkedFacts, PrecheckTouch
<1>7. CASE Resume
  <2> DEFINE n == Next1
  <2>1. /\ n \in DOMAIN runs /\ Touched(runs, runs', n) /\ UNCHANGED <<jobs, lost>>
        /\ runs[n].status = "Pending"
    BY <1>7, ResumeFacts
  <2>2. ~Parked(runs[n])
    BY <2>1 DEF Parked, Unanswered, Final, Skipped, InFlight
  <2> HIDE DEF n
  <2> QED
    BY <1>2, <2>1, <2>2, ParkedFacts, PrecheckTouch
<1>8. CASE Expire
  <2> DEFINE n == Next1
  <2>1. /\ n \in DOMAIN runs /\ Touched(runs, runs', n) /\ UNCHANGED <<jobs, lost>>
        /\ \/ runs' = runs
           \/ /\ n \notin jobs
              /\ \/ Closes(runs[n], runs'[n])
                 \/ Waits(runs[n], runs'[n]) /\ runs'[n].status = "WaitingForUser"
    BY <1>8, ExpireFacts
  <2> HIDE DEF n
  <2>2. Parked(runs[n]) => Parked(runs'[n])
    BY <2>1, ParkedMoves
  <2> QED
    BY <1>2, <2>1, <2>2, ParkedFacts, PrecheckTouch
<1>9. CASE Admits \/ Asks
  <2>1. UNCHANGED <<jobs, lost>> /\ \A k \in DOMAIN runs : runs'[k] = runs[k]
    BY <1>9, AdmitFacts, AskFacts DEF Added
  <2> QED
    BY <1>1, <1>2, <2>1, ParkedFacts, PrecheckFrame
<1>10. ASSUME NEW n \in Number, DeliverReport(n) \/ StopWaiting(n)
       PROVE  PrecheckInv'
  <2>1. /\ n \in DOMAIN runs /\ UNCHANGED <<jobs, lost>>
        /\ \A k \in DOMAIN runs \ {n} : runs'[k] = runs[k] \/ Marks(runs[k], runs'[k])
        /\ \/ runs'[n] = runs[n] \/ Closes(runs[n], runs'[n])
           \/ Waits(runs[n], runs'[n]) /\ (runs[n].tab \/ "wait" \in Requests)
    BY <1>10, DeliverFacts, StopWaitingFacts DEF Touched
  <2>2. Waits(runs[n], runs'[n]) /\ runs[n].tab => ~Parked(runs[n])
    BY DEF Waits, Parked, Unanswered
  <2>3. Parked(runs[n]) => Parked(runs'[n])
    BY <2>1, <2>2, ParkedMoves
  <2>4. \A k \in DOMAIN runs \ {n} : Parked(runs[k]) => Parked(runs'[k])
    BY <2>1, ParkedMoves
  <2>5. \A k \in DOMAIN runs : Parked(runs[k]) => Parked(runs'[k])
    BY <2>3, <2>4
  <2> QED
    BY <1>1, <1>2, <2>1, <2>5, ParkedFacts, PrecheckFrame
<1>11. ASSUME NEW n \in Number, FinishPrecheck(n)
       PROVE  PrecheckInv'
  <2>1. /\ n \in jobs /\ jobs' = jobs \ {n} /\ lost' = lost /\ Touched(runs, runs', n)
    BY <1>11, FinishPrecheckFacts
  <2>2. \A k \in DOMAIN runs \ {n} : runs'[k] = runs[k]
    BY <2>1 DEF Touched
  <2>3. "wait" \notin Requests => n \notin lost
    BY <2>1, ParkedFacts
  <2>4. \A k \in jobs' : Parked(runs'[k])
    BY <1>1, <2>1, <2>2, ParkedFacts
  <2>5. "wait" \notin Requests => jobs' \cap lost' = {} /\ \A k \in lost' : Parked(runs'[k])
    BY <1>1, <2>1, <2>2, <2>3, ParkedFacts
  <2> QED
    BY <1>2, <2>4, <2>5, PrecheckFrame
<1>12. CASE StartRun
  <2> DEFINE n == actor.run
  <2>1. /\ n \in DOMAIN runs /\ runs[n].status = "Pending" /\ lost' = lost
        /\ ~runs[n].tab /\ ~runs[n].reserved
        /\ \A k \in DOMAIN runs \ {n} : runs'[k] = runs[k] \/ Closes(runs[k], runs'[k])
        /\ \/ UNCHANGED jobs
           \/ /\ Checks(runs[n], runs'[n]) /\ HasPrecheck
              /\ jobs' = jobs \cup {n}
    BY <1>12, StartRunFacts
  <2>2. ~Parked(runs[n])
    BY <2>1 DEF Parked, Unanswered, Final, Skipped, InFlight
  <2> HIDE DEF n
  <2>3. n \notin jobs /\ ("wait" \notin Requests => n \notin lost)
    BY <2>2, ParkedFacts
  <2>4. \A k \in DOMAIN runs \ {n} : Parked(runs[k]) => Parked(runs'[k])
    BY <2>1, ParkedMoves
  <2>5. "wait" \notin Requests => \A k \in lost' : Parked(runs'[k])
    BY <1>1, <2>1, <2>3, <2>4, ParkedFacts
  <2>6. \A k \in jobs : Parked(runs'[k])
    BY <1>1, <2>3, <2>4, ParkedFacts
  <2>7. Checks(runs[n], runs'[n]) /\ HasPrecheck => Parked(runs'[n])
    BY <2>1 DEF Checks, Parked, Unanswered, InFlight
  <2>8. \A k \in jobs' : Parked(runs'[k])
    BY <2>1, <2>6, <2>7
  <2>9. "wait" \notin Requests => jobs' \cap lost' = {}
    BY <2>1, <2>3, ParkedFacts
  <2> QED
    BY <1>2, <2>5, <2>8, <2>9, PrecheckFrame
<1>13. CASE HandleTick
  <2>1. /\ UNCHANGED <<jobs, lost>>
        /\ \A k \in DOMAIN runs : runs'[k] = runs[k] \/ Marks(runs[k], runs'[k])
    BY <1>13, HandleTickFacts
  <2>2. \A k \in DOMAIN runs : Parked(runs[k]) => Parked(runs'[k])
    BY <2>1, ParkedMoves
  <2> QED
    BY <1>1, <1>2, <2>1, <2>2, ParkedFacts, PrecheckFrame
<1>14. ASSUME NEW reboot \in BOOLEAN, NEW survivors \in SUBSET Number, Dies(reboot, survivors)
       PROVE  PrecheckInv'
  <2>1. /\ jobs' = {} /\ lost' = lost \cup jobs
        /\ \A k \in DOMAIN runs : runs'[k] = runs[k] \/ Binds(runs[k], runs'[k])
    BY <1>14, DieFacts
  <2>2. \A k \in DOMAIN runs : Binds(runs[k], runs'[k]) => ~Parked(runs[k])
    BY DEF Binds, Parked, Unanswered, Final, Skipped
  <2>3. \A k \in DOMAIN runs : Parked(runs[k]) => Parked(runs'[k])
    BY <2>1, <2>2
  <2> QED
    BY <1>1, <1>2, <2>1, <2>3, ParkedFacts, PrecheckFrame
<1> QED
  BY <1>3, <1>4, <1>5, <1>6, <1>7, <1>8, <1>9, <1>10, <1>11, <1>12, <1>13, <1>14, NextCases

-----------------------------------------------------------------------------
(***************************************************************************)
(* Occurrences.                                                            *)
(***************************************************************************)
Claims == \A n \in Scheduled(runs) : runs[n].at \in claimed

Ordered == \A m, n \in Scheduled(runs) : m < n => runs[m].at < runs[n].at

LEMMA ClaimsStep ==
  ASSUME IInv, [Next]_vars
  PROVE  Claims' /\ Ordered'
<1> USE DEF IInv
<1>1. Claims /\ Ordered
  BY DEF OccurrenceInv, Claims, Ordered
<1>2. claimed \subseteq claimed'
  BY TimeTyped
<1>3. DOMAIN runs = 1 .. Len(runs) /\ Len(runs) \in Nat /\ claimed \subseteq Nat
      /\ actor.at \in Nat
  BY TypeFacts
<1>4. CASE KeepsRows
  <2>1. Scheduled(runs') = Scheduled(runs)
    BY <1>4 DEF KeepsRows, Firm, Ident, Scheduled
  <2>2. \A n \in Scheduled(runs) : runs'[n].at = runs[n].at
    BY <1>4 DEF KeepsRows, Firm, Ident, Scheduled
  <2> QED
    BY <1>1, <1>2, <2>1, <2>2 DEF Claims, Ordered
<1>5. CASE Asks
  <2>1. /\ \A k \in DOMAIN runs : runs'[k] = runs[k]
        /\ DOMAIN runs' = DOMAIN runs \cup {Len(runs) + 1}
        /\ runs'[Len(runs) + 1].trigger = "Manual"
    <3>1. PICK policy, precheck : Added(NewRun("Manual", now, policy, precheck))
      BY <1>5, AskFacts
    <3>2. NewRun("Manual", now, policy, precheck).trigger = "Manual"
      BY DEF NewRun
    <3> QED
      BY <3>1, <3>2 DEF Added
  <2>2. Scheduled(runs') = Scheduled(runs) /\ \A n \in Scheduled(runs) : runs'[n] = runs[n]
    BY <2>1 DEF Scheduled
  <2> QED
    BY <1>1, <1>2, <2>2 DEF Claims, Ordered
<1>6. CASE Admits
  <2> DEFINE new == Len(runs) + 1
  <2>1. /\ \A k \in DOMAIN runs : runs'[k] = runs[k]
        /\ DOMAIN runs' = DOMAIN runs \cup {new}
        /\ runs'[new].trigger = "Scheduled" /\ runs'[new].at = actor.at + 1
        /\ actor.phase = "evaluate" /\ claimed' = claimed \cup {actor.at + 1}
    BY <1>6, AdmitFacts DEF Added, NewRun
  <2>2. /\ Scheduled(runs') = Scheduled(runs) \cup {new}
        /\ \A n \in Scheduled(runs) : runs'[n] = runs[n] /\ n \in 1 .. Len(runs)
    BY <1>3, <2>1 DEF Scheduled
  <2>3. \A c \in claimed : c <= actor.at
    BY <2>1 DEF OccurrenceInv, Evaluating
  <2>4. Claims'
    BY <1>1, <2>1, <2>2 DEF Claims
  <2>5. ASSUME NEW m \in Scheduled(runs'), NEW n \in Scheduled(runs'), m < n
        PROVE  runs'[m].at < runs'[n].at
    <3>1. m \in Scheduled(runs)
      BY <1>3, <2>2, <2>5
    <3>2. CASE n = new
      <4>1. runs[m].at \in claimed
        BY <1>1, <3>1 DEF Claims
      <4>2. runs[m].at <= actor.at /\ runs[m].at \in Nat
        BY <1>3, <2>3, <4>1
      <4>3. runs'[m].at = runs[m].at /\ runs'[n].at = actor.at + 1
        BY <2>1, <2>2, <3>1, <3>2
      <4> QED
        BY <1>3, <4>2, <4>3
    <3>3. CASE n \in Scheduled(runs)
      BY <1>1, <2>2, <2>5, <3>1, <3>3 DEF Ordered
    <3> QED
      BY <2>2, <3>2, <3>3
  <2> QED
    BY <2>4, <2>5 DEF Ordered
<1> QED
  BY <1>4, <1>5, <1>6, NextRows

\* What the loop over the occurrences leaves behind.
Cursors ==
  /\ Evaluating => \A c \in claimed : c <= actor.at
  /\ ~Evaluating => actor.missed = {}
  /\ \A c \in claimed \cup actor.missed : \A a \in 1 .. c : Accounted(a)
  /\ Evaluating => \A a \in 1 .. actor.at :
        \/ Accounted(a)
        \/ actor.phase = "evaluate" /\ LimitReached /\ ~SkipsMisfire(a)

\* A step outside the loop.
LEMMA CursorsOutside ==
  ASSUME Cursors, ~Evaluating, ~Evaluating', actor'.missed = {}, claimed' = claimed,
         \A a \in Nat : a <= cursor => a <= cursor', slipped \subseteq slipped',
         claimed \subseteq Nat
  PROVE  Cursors'
<1>1. \A c \in claimed : \A a \in 1 .. c : a \in claimed \cup slipped \/ a <= cursor
  BY DEF Cursors, Accounted
<1>2. ASSUME NEW c \in claimed, NEW a \in 1 .. c, a \in claimed \cup slipped \/ a <= cursor
      PROVE  a \in claimed \cup slipped' \/ a <= cursor'
  BY <1>2
<1> QED
  BY <1>1, <1>2 DEF Cursors, Accounted

\* A step of a run that the loop has started.
LEMMA CursorsInside ==
  ASSUME Cursors, Evaluating, Evaluating', actor.phase # "evaluate",
         UNCHANGED <<claimed, cursor, slipped>>, actor'.at = actor.at, actor'.missed = actor.missed
  PROVE  Cursors'
<1>1. \A a : Accounted(a)' <=> Accounted(a)
  BY DEF Accounted
<1> QED
  BY <1>1 DEF Cursors, Accounted

\* A late occurrence makes every earlier one late.
LEMMA MisfiresAreEarly ==
  ASSUME TypeInv, NEW a \in Nat, NEW b \in Nat, a <= b, SkipsMisfire(b)
  PROVE  SkipsMisfire(a)
<1>1. now \in Nat /\ startedAt \in Nat /\ Grace \in Nat
      /\ MisfirePolicy \in {"Skip", "RunLatestOnce", "Queue"}
  BY TypeFacts, ConfFacts DEF TypeInv
<1>2. \A x \in Nat : SkipsMisfire(x) <=>
         \/ MisfirePolicy = "Skip" /\ (x < startedAt \/ now - x > Grace)
         \/ MisfirePolicy = "RunLatestOnce" /\ (x < startedAt \/ now - x > Grace) /\ x + 1 <= now
  BY <1>1 DEF SkipsMisfire
<1>3. b < startedAt \/ now - b > Grace => a < startedAt \/ now - a > Grace
  BY <1>1
<1>4. b + 1 <= now => a + 1 <= now
  BY <1>1
<1> QED
  BY <1>2, <1>3, <1>4

LEMMA CursorsReturn ==
  ASSUME TypeInv, Cursors, actor.phase \in {"start", "launch"},
         UNCHANGED <<claimed, cursor, slipped>>,
         \/ Return
         \/ actor' = [actor EXCEPT !.phase = "launch", !.run = actor.run, !.back = actor.back]
  PROVE  Cursors'
<1>1. actor \in Actor /\ claimed \subseteq Nat
  BY TypeFacts
<1>2. CASE actor.back = "evaluate"
  <2>1. Evaluating /\ actor.phase # "evaluate"
    BY <1>2 DEF Evaluating
  <2>2. /\ actor'.phase = "evaluate" \/ (actor'.phase = "launch" /\ actor'.back = "evaluate")
        /\ actor'.at = actor.at /\ actor'.missed = actor.missed
    BY <1>1, <1>2, ReturnFacts DEF Actor
  <2>3. Evaluating'
    BY <2>2 DEF Evaluating
  <2> QED
    BY <2>1, <2>2, <2>3, CursorsInside
<1>3. CASE actor.back # "evaluate"
  <2>1. ~Evaluating
    BY <1>3 DEF Evaluating
  <2>2. /\ \/ actor' = Idle \/ actor'.phase = "resume"
           \/ actor'.phase = "launch" /\ actor'.back # "evaluate"
        /\ actor' = Idle \/ actor'.missed = actor.missed
    BY <1>1, <1>3, ReturnFacts DEF Actor
  <2>3. ~Evaluating' /\ actor'.missed = {}
    BY <2>1, <2>2, IdleFacts DEF Evaluating, Cursors
  <2> QED
    BY <1>1, <2>1, <2>3, CursorsOutside
<1> QED
  BY <1>2, <1>3

LEMMA CursorsStep ==
  ASSUME IInv, [Next]_vars
  PROVE  Cursors'
<1> USE DEF IInv
<1>1. Cursors
  BY DEF OccurrenceInv, Cursors
<1>2. /\ actor \in Actor /\ claimed \subseteq Nat /\ cursor \in Nat /\ now \in Nat
      /\ cursor <= now /\ actor.at \in Nat /\ actor.missed \subseteq Nat
  BY TypeFacts
<1>3. AtRest => actor = Idle
  BY DEF AtRest, ActorInv
\* The usual step: outside the loop, and nothing of the schedule is written.
<1>4. ASSUME ~Evaluating, ~Evaluating', actor'.missed = {}, UNCHANGED <<claimed, cursor, slipped>>
      PROVE  Cursors'
  BY <1>1, <1>2, <1>4, CursorsOutside
<1>5. ASSUME AtRest, actor' = Idle, UNCHANGED <<claimed, cursor, slipped>>
      PROVE  Cursors'
  <2>1. ~Evaluating /\ ~Evaluating' /\ actor'.missed = {}
    BY <1>3, <1>5, IdleFacts DEF Evaluating
  <2> QED
    BY <1>4, <1>5, <2>1
<1>6. CASE Notes \/ Clock \/ Trash \/ Restore
           \/ \E n \in Number : \/ AgentExits(n) \/ DeliverReport(n) \/ StopWaiting(n)
                                \/ \E kind \in Reports : Report(n, kind)
  <2>1. Notes => AtRest /\ UNCHANGED <<actor, claimed, cursor, slipped>>
    BY MarkFacts, PauseFacts DEF Notes
  <2>2. Clock \/ Trash \/ Restore => AtRest /\ UNCHANGED <<actor, claimed, cursor, slipped>>
    BY DEF Clock, Trash, Restore, Request, schedule, host, memory
  <2>3. ASSUME NEW n \in Number, \/ AgentExits(n) \/ DeliverReport(n) \/ StopWaiting(n)
                                 \/ \E kind \in Reports : Report(n, kind)
        PROVE  AtRest /\ UNCHANGED <<actor, claimed, cursor, slipped>>
    BY <2>3, DeliverFacts, StopWaitingFacts DEF AgentExits, Report, schedule, host, memory
  <2> QED
    BY <1>3, <1>5, <1>6, <2>1, <2>2, <2>3
<1>7. CASE HandleTick
  <2>1. /\ actor = Idle /\ actor'.phase = "reconcile" /\ actor'.missed = {}
        /\ UNCHANGED <<claimed, cursor, slipped>>
    BY <1>3, <1>7, HandleTickFacts DEF Idle
  <2> QED
    BY <1>4, <2>1, IdleFacts DEF Evaluating
<1>8. CASE ResumeSchedule
  <2>1. actor = Idle /\ actor' = Idle /\ cursor' = now /\ UNCHANGED <<claimed, slipped>>
    BY <1>3, <1>8 DEF ResumeSchedule, Request, host, memory
  <2>2. ~Evaluating /\ ~Evaluating' /\ actor'.missed = {}
    BY <2>1, IdleFacts DEF Evaluating
  <2>3. \A a \in Nat : a <= cursor => a <= cursor'
    BY <1>2, <2>1
  <2> QED
    BY <1>1, <1>2, <2>1, <2>2, <2>3, CursorsOutside
<1>9. ASSUME NEW reboot \in BOOLEAN, NEW survivors \in SUBSET Number, Dies(reboot, survivors)
      PROVE  Cursors'
  <2>1. /\ actor'.phase = "reconcile" /\ actor'.missed = {}
        /\ slipped' = slipped \cup actor.missed /\ UNCHANGED <<claimed, cursor>>
    BY <1>9, DieFacts DEF Idle
  <2>2. ~Evaluating'
    BY <2>1 DEF Evaluating
  <2>3. \A a : Accounted(a) => Accounted(a)'
    BY <2>1 DEF Accounted
  <2> QED
    BY <1>1, <2>1, <2>2, <2>3 DEF Cursors
<1>10. CASE UNCHANGED vars
  <2>1. /\ Evaluating' = Evaluating /\ LimitReached' = LimitReached
        /\ \A a : SkipsMisfire(a)' <=> SkipsMisfire(a)
    BY <1>10 DEF vars, Evaluating, SkipsMisfire, LimitReached, MisfirePolicy, Grace, MaxScheduled,
                 Executions, Retained, Scheduled
  <2>2. \A a : Accounted(a)' <=> Accounted(a)
    BY <1>10 DEF vars, Accounted
  <2>3. UNCHANGED <<actor, claimed>>
    BY <1>10 DEF vars
  <2> QED
    BY <1>1, <2>1, <2>2, <2>3 DEF Cursors
<1>11. CASE EndResume \/ EndTick \/ Reconcile \/ Expire
  <2>1. /\ actor.phase \in {"resume", "expire", "reconcile"}
        /\ UNCHANGED <<claimed, cursor, slipped>>
    BY <1>11, ReconcileFacts, ExpireFacts DEF EndResume, EndTick, schedule, host, memory
  <2>2. /\ actor' = Idle
           \/ (actor'.phase \in {"expire", "reconcile"} /\ actor'.missed = actor.missed)
    BY <1>2, <1>11, ReconcileFacts, ExpireFacts DEF EndResume, EndTick, Actor
  <2>3. ~Evaluating /\ ~Evaluating' /\ actor'.missed = {}
    BY <1>1, <2>1, <2>2, IdleFacts DEF Evaluating, Cursors
  <2> QED
    BY <1>4, <2>1, <2>3
<1>12. CASE Resume
  <2>1. actor.phase = "resume" /\ UNCHANGED <<claimed, cursor, slipped>>
    BY <1>12, ResumeFacts
  <2>2. /\ actor'.phase = "resume" \/ (actor'.phase \in {"start", "launch"} /\ actor'.back = "resume")
        /\ actor'.missed = actor.missed
    BY <1>2, <1>12, ResumeFacts DEF Actor
  <2>3. ~Evaluating /\ ~Evaluating' /\ actor'.missed = {}
    BY <1>1, <2>1, <2>2 DEF Evaluating, Cursors
  <2> QED
    BY <1>4, <2>1, <2>3
<1>13. CASE StartRun
  <2>1. /\ actor.phase = "start" /\ UNCHANGED <<claimed, cursor, slipped>>
        /\ \/ Return
           \/ actor' = [actor EXCEPT !.phase = "launch", !.run = actor.run, !.back = actor.back]
    BY <1>13, StartRunFacts
  <2> QED
    BY <1>1, <2>1, CursorsReturn
<1>14. CASE Launch
  <2>1. actor.phase = "launch" /\ UNCHANGED <<claimed, cursor, slipped>> /\ Return
    BY <1>14, LaunchFacts
  <2> QED
    BY <1>1, <2>1, CursorsReturn
<1>15. CASE Asks
  <2>1. /\ AtRest /\ actor' = [actor EXCEPT !.phase = "start", !.run = Len(runs) + 1]
        /\ UNCHANGED <<claimed, cursor, slipped>>
    BY <1>15, AskFacts
  <2>2. actor'.phase = "start" /\ actor'.back = "idle" /\ actor'.missed = {} /\ actor = Idle
    BY <1>3, <2>1 DEF Idle
  <2>3. ~Evaluating /\ ~Evaluating'
    BY <2>2, IdleFacts DEF Evaluating
  <2> QED
    BY <1>4, <2>1, <2>2, <2>3
<1>16. ASSUME NEW n \in Number, FinishPrecheck(n)
       PROVE  Cursors'
  <2>1. /\ actor = Idle /\ UNCHANGED <<claimed, cursor, slipped>>
        /\ \/ actor' = Idle
           \/ actor' = [actor EXCEPT !.phase = "launch", !.run = n, !.back = "idle"]
    BY <1>16, FinishPrecheckFacts
  <2>2. actor' = Idle \/ (actor'.phase = "launch" /\ actor'.back = "idle" /\ actor'.missed = {})
    BY <2>1 DEF Idle
  <2>3. ~Evaluating /\ ~Evaluating' /\ actor'.missed = {}
    BY <2>1, <2>2, IdleFacts DEF Evaluating
  <2> QED
    BY <1>4, <2>1, <2>3
\* The loop.
<1>17. CASE EndReconcile
  <2>1. /\ actor.phase = "reconcile" /\ UNCHANGED <<claimed, cursor, slipped>>
    BY <1>17 DEF EndReconcile, schedule, host, memory
  <2>2. ~Evaluating /\ actor.missed = {}
    BY <1>1, <2>1 DEF Evaluating, Cursors
  <2>3. /\ \/ actor' = Idle \/ actor'.phase \in {"expire", "resume"}
           \/ actor'.phase = "evaluate" /\ actor'.at = ScheduleCursor
        /\ actor' = Idle \/ actor'.missed = actor.missed
    BY <1>2, <1>17 DEF EndReconcile, Actor
  <2>4. actor'.missed = {}
    BY <2>2, <2>3, IdleFacts
  <2>5. CASE actor' = Idle \/ actor'.phase \in {"expire", "resume"}
    <3>1. ~Evaluating'
      BY <2>5, IdleFacts DEF Evaluating
    <3> QED
      BY <1>4, <2>1, <2>2, <2>4, <3>1
  <2>6. CASE actor'.phase = "evaluate" /\ actor'.at = ScheduleCursor
    <3>1. Evaluating' /\ \A c \in claimed : c <= actor'.at
      BY <2>6, CursorFacts DEF Evaluating
    <3>2. \A a : Accounted(a)' <=> Accounted(a)
      BY <2>1, <2>2, <2>4 DEF Accounted
    <3>3. \A c \in claimed : \A a \in 1 .. c : Accounted(a)
      BY <1>1 DEF Cursors
    <3>4. ASSUME NEW a \in 1 .. ScheduleCursor PROVE Accounted(a)
      <4>1. ScheduleCursor \in claimed \cup {0, cursor}
        BY CursorFacts
      <4>2. CASE ScheduleCursor \in claimed
        BY <3>3, <3>4, <4>2
      <4>3. CASE ScheduleCursor = cursor
        BY <1>2, <4>3 DEF Accounted
      <4>4. CASE ScheduleCursor = 0
        BY <4>4
      <4> QED
        BY <4>1, <4>2, <4>3, <4>4
    <3>5. /\ \A c \in claimed' \cup actor'.missed : \A a \in 1 .. c : Accounted(a)'
          /\ \A a \in 1 .. actor'.at : Accounted(a)'
      BY <2>1, <2>4, <2>6, <3>2, <3>3, <3>4
    <3> QED
      BY <2>1, <2>4, <3>1, <3>5 DEF Cursors, Accounted
  <2> QED
    BY <2>3, <2>5, <2>6
<1>18. CASE MissOccurrence
  <2> DEFINE b == actor.at + 1
  <2>1. /\ actor.phase = "evaluate" /\ SkipsMisfire(b)
        /\ UNCHANGED <<claimed, cursor, slipped>>
    BY <1>18 DEF MissOccurrence, Due, schedule, host, memory
  <2>2. actor'.phase = "evaluate" /\ actor'.at = b /\ actor'.missed = actor.missed \cup {b}
    BY <1>2, <1>18 DEF MissOccurrence, Due, Actor
  <2>3. Evaluating /\ Evaluating'
    BY <2>1, <2>2 DEF Evaluating
  <2>4. \A c \in claimed : c <= b
    BY <1>1, <1>2, <2>3 DEF Cursors
  <2>5. ASSUME NEW a \in 1 .. actor.at PROVE Accounted(a)
    <3>1. SkipsMisfire(a)
      BY <1>2, <2>1, MisfiresAreEarly
    <3> QED
      BY <1>1, <2>3, <2>5, <3>1 DEF Cursors
  <2>6. ASSUME NEW a \in 1 .. b
        PROVE  a \in claimed \cup slipped \cup actor'.missed \/ a <= cursor
    <3>1. a \in 1 .. actor.at \/ a = b
      BY <1>2
    <3> QED
      BY <2>2, <2>5, <2>6, <3>1 DEF Accounted
  <2>7. ASSUME NEW c \in claimed \cup actor'.missed, NEW a \in 1 .. c
        PROVE  a \in claimed \cup slipped \cup actor'.missed \/ a <= cursor
    <3>1. CASE c = b
      BY <2>6, <2>7, <3>1
    <3>2. CASE c \in claimed \cup actor.missed
      <4>1. a \in claimed \cup slipped \cup actor.missed \/ a <= cursor
        BY <1>1, <2>7, <3>2 DEF Cursors, Accounted
      <4> QED
        BY <2>2, <4>1
    <3> QED
      BY <2>2, <2>7, <3>1, <3>2
  <2> QED
    BY <2>1, <2>2, <2>3, <2>4, <2>6, <2>7 DEF Cursors, Accounted
<1>19. CASE ReachLimit \/ Passes \/ Slips
  <2> DEFINE b == actor.at + 1
  <2>1. /\ actor.phase = "evaluate" /\ ~SkipsMisfire(b)
        /\ UNCHANGED <<claimed, cursor, now, runs, conf, startedAt>>
        /\ \/ UNCHANGED slipped /\ (b \in claimed \/ LimitReached)
           \/ slipped' = slipped \cup {b}
    BY <1>19, PassFacts
  <2>2. actor'.phase = "evaluate" /\ actor'.at = b /\ actor'.missed = actor.missed
    BY <1>2, <1>19, PassFacts DEF Actor
  <2>3. Evaluating /\ Evaluating'
    BY <2>1, <2>2 DEF Evaluating
  <2>4. \A c \in claimed : c <= b
    BY <1>1, <1>2, <2>3 DEF Cursors
  <2>5. LimitReached' = LimitReached /\ \A a : SkipsMisfire(a)' <=> SkipsMisfire(a)
    BY <2>1 DEF LimitReached, MaxScheduled, Executions, Retained, Scheduled, SkipsMisfire,
                MisfirePolicy, Grace
  <2>6. \A a : Accounted(a) => Accounted(a)'
    BY <2>1, <2>2 DEF Accounted
  <2>7. ASSUME NEW a \in 1 .. b
        PROVE  Accounted(a)' \/ (LimitReached /\ ~SkipsMisfire(a))
    <3>1. a \in 1 .. actor.at \/ a = b
      BY <1>2
    <3>2. CASE a = b
      BY <2>1, <3>2 DEF Accounted
    <3>3. CASE a \in 1 .. actor.at
      BY <1>1, <2>3, <2>6, <3>3 DEF Cursors
    <3> QED
      BY <3>1, <3>2, <3>3
  <2>8. \A a \in 1 .. actor'.at :
           Accounted(a)' \/ (actor'.phase = "evaluate" /\ LimitReached' /\ ~SkipsMisfire(a)')
    BY <2>2, <2>5, <2>7
  <2>9. \A c \in claimed' \cup actor'.missed : \A a \in 1 .. c : Accounted(a)'
    BY <1>1, <2>1, <2>2, <2>6 DEF Cursors
  <2> QED
    BY <2>1, <2>2, <2>3, <2>4, <2>8, <2>9 DEF Cursors
<1>20. CASE Admits
  <2> DEFINE b == actor.at + 1
  <2>1. /\ actor.phase = "evaluate" /\ ~LimitReached /\ claimed' = claimed \cup {b}
        /\ UNCHANGED <<cursor, slipped>>
    BY <1>20, AdmitFacts
  <2>2. /\ actor'.phase = "evaluate" \/ (actor'.phase = "start" /\ actor'.back = "evaluate")
        /\ actor'.at = b /\ actor'.missed = actor.missed
    BY <1>2, <1>20, AdmitFacts DEF Actor
  <2>3. Evaluating /\ Evaluating'
    BY <2>1, <2>2 DEF Evaluating
  <2>4. \A c \in claimed' : c <= b
    <3>1. \A c \in claimed : c <= actor.at
      BY <1>1, <2>3 DEF Cursors
    <3>2. \A c \in claimed : c <= b
      BY <1>2, <3>1
    <3>3. b <= b
      BY <1>2
    <3> HIDE DEF b
    <3> QED
      BY <2>1, <3>2, <3>3
  <2>5. ASSUME NEW a \in 1 .. b
        PROVE  a \in claimed' \cup slipped \cup actor'.missed \/ a <= cursor
    <3>1. a \in 1 .. actor.at \/ a = b
      BY <1>2
    <3> QED
      BY <1>1, <2>1, <2>2, <2>3, <2>5, <3>1 DEF Cursors, Accounted
  <2>6. ASSUME NEW c \in claimed' \cup actor'.missed, NEW a \in 1 .. c
        PROVE  a \in claimed' \cup slipped \cup actor'.missed \/ a <= cursor
    <3>1. CASE c = b
      BY <2>5, <2>6, <3>1
    <3>2. CASE c \in claimed \cup actor.missed
      <4>1. a \in claimed \cup slipped \cup actor.missed \/ a <= cursor
        BY <1>1, <2>6, <3>2 DEF Cursors, Accounted
      <4> QED
        BY <2>1, <2>2, <4>1
    <3> QED
      BY <2>1, <2>2, <2>6, <3>1, <3>2
  <2> QED
    BY <2>1, <2>2, <2>3, <2>4, <2>5, <2>6 DEF Cursors, Accounted
<1>21. CASE Leaves
  <2>1. /\ actor.phase = "evaluate" /\ UNCHANGED cursor
        /\ \/ claimed' = claimed \cup actor.missed /\ UNCHANGED slipped
           \/ UNCHANGED claimed /\ slipped' = slipped \cup actor.missed
    BY <1>21, LeaveFacts
  <2>2. actor'.phase = "resume" /\ actor'.missed = {}
    BY <1>2, <1>21, LeaveFacts DEF Actor
  <2>3. ~Evaluating'
    BY <2>2 DEF Evaluating
  <2>4. \A a : Accounted(a) => Accounted(a)'
    BY <2>1, <2>2 DEF Accounted
  <2>5. claimed' \subseteq claimed \cup actor.missed
    BY <2>1
  <2> QED
    BY <1>1, <2>2, <2>3, <2>4, <2>5 DEF Cursors
<1> QED
  BY <1>6, <1>7, <1>8, <1>9, <1>10, <1>11, <1>12, <1>13, <1>14, <1>15, <1>16, <1>17, <1>18, <1>19,
     <1>20, <1>21, NextCases DEF Quiet

LEMMA OccurrenceStep ==
  ASSUME IInv, [Next]_vars
  PROVE  OccurrenceInv'
BY ClaimsStep, CursorsStep DEF OccurrenceInv, Claims, Ordered, Cursors

-----------------------------------------------------------------------------
(***************************************************************************)
(* Agents that outlived their host.                                        *)
(***************************************************************************)
\* The row does not become the row of an orphan, and keeps its reservation if
\* it is one.
QuietRow(r, p, s, q) ==
  OrphanRow(s, q) => OrphanRow(r, p) /\ (r.reserved => s.reserved)

LEMMA OwnerFacts ==
  ASSUME IInv, NEW n \in DOMAIN runs
  PROVE  /\ RowOK(runs[n], proc[n], mail[n]) /\ runs[n].attempts \in Nat /\ n \in Number
         /\ Orphan(n) =>
              /\ Held(n) /\ jobs = {} /\ runs[n].status # "Pending" /\ ~SkipsReconcile(n)
              /\ actor.phase = "launch" => runs[actor.run].tab
<1>1. RowOK(runs[n], proc[n], mail[n])
  BY DEF IInv, RowInv
<1>2. runs[n].attempts \in Nat /\ n \in Number
  BY TypeFacts, RowFacts DEF IInv, TypeInv
<1>3. ASSUME Orphan(n)
      PROVE  Held(n) /\ jobs = {} /\ (actor.phase = "launch" => runs[actor.run].tab)
  BY <1>3 DEF IInv, OwnerInv
<1>4. ASSUME Orphan(n)
      PROVE  runs[n].status # "Pending" /\ ~SkipsReconcile(n)
  <2>1. runs[n].tab /\ runs[n].begun /\ runs[n].status # "Pending" /\ ~runs[n].taken
    BY <1>1, <1>2, <1>4 DEF RowOK, Orphan, OrphanRow
  <2>2. runs[n].reserved \/ runs[n].status # "WaitingForUser"
    BY <1>3, <1>4 DEF Held
  <2> QED
    BY <1>3, <1>4, <2>1, <2>2 DEF SkipsReconcile
<1> QED
  BY <1>1, <1>2, <1>3, <1>4

LEMMA OwnerMoves ==
  ASSUME NEW r, NEW s, NEW p, NEW q, NEW m, r.attempts \in Nat, RowOK(r, p, m),
         \/ s = r /\ q = p
         \/ Marks(r, s) /\ q = p
         \/ Waits(r, s) /\ q = p
         \/ Closes(r, s) /\ s.reserved = r.reserved /\ q = p
         \/ /\ r.status = "Pending" \/ ~r.tab
            /\ \/ Closes(r, s) \/ Retries(r, s) \/ Parks(r, s) \/ Checks(r, s) \/ Begins(r, s)
            /\ q = p
         \/ /\ p \in Outlived => r.attempts > 2
            /\ Closes(r, s) \/ Retries(r, s)
            /\ q = p
         \/ q \in {"attached", "gone"}
  PROVE  QuietRow(r, p, s, q)
<1> USE DEF QuietRow
<1>1. CASE s = r /\ q = p
  BY <1>1
<1>2. CASE Marks(r, s) /\ q = p
  BY <1>2 DEF Marks, Ident, Tried, OrphanRow
<1>3. CASE Waits(r, s) /\ q = p
  BY <1>3 DEF Waits, Ident, Tried, OrphanRow
<1>4. CASE Closes(r, s) /\ s.reserved = r.reserved /\ q = p
  BY <1>4 DEF Closes, Ident, Tried, OrphanRow
<1>5. CASE /\ r.status = "Pending" \/ ~r.tab
           /\ \/ Closes(r, s) \/ Retries(r, s) \/ Parks(r, s) \/ Checks(r, s) \/ Begins(r, s)
           /\ q = p
  <2>1. p \in Outlived => r.attempts > 1
    BY <1>5 DEF RowOK
  <2>2. s.attempts = r.attempts \/ s.attempts = r.attempts + 1
    BY <1>5 DEF Closes, Retries, Parks, Checks, Begins, Tried
  <2> QED
    BY <1>5, <2>1, <2>2 DEF OrphanRow
<1>6. CASE /\ p \in Outlived => r.attempts > 2
           /\ Closes(r, s) \/ Retries(r, s)
           /\ q = p
  <2>1. s.attempts = r.attempts
    BY <1>6 DEF Closes, Retries, Tried
  <2> QED
    BY <1>6, <2>1 DEF OrphanRow
<1>7. CASE q \in {"attached", "gone"}
  BY <1>7 DEF OrphanRow, Outlived
<1> QED
  BY <1>1, <1>2, <1>3, <1>4, <1>5, <1>6, <1>7

\* A step outside reconciliation.
LEMMA OwnerFrame ==
  ASSUME IInv, actor.phase # "reconcile" \/ actor.todo = {}, UNCHANGED strays,
         \A k \in DOMAIN runs : QuietRow(runs[k], proc[k], runs'[k], proc'[k]),
         \A k \in DOMAIN runs' \ DOMAIN runs : proc'[k] = "none",
         (\E k \in DOMAIN runs : Orphan(k)) =>
            jobs' \subseteq jobs /\ (actor'.phase = "launch" => runs'[actor'.run].tab)
  PROVE  OwnerInv'
<1>1. ASSUME NEW n \in DOMAIN runs', n \notin DOMAIN runs
      PROVE  ~OrphanRow(runs'[n], proc'[n])
  BY <1>1 DEF OrphanRow, Outlived
<1>2. ASSUME NEW n \in DOMAIN runs, OrphanRow(runs'[n], proc'[n]), n \notin strays
      PROVE  /\ runs'[n].reserved /\ jobs' = {}
             /\ actor'.phase = "launch" => runs'[actor'.run].tab
  <2>1. Orphan(n) /\ (runs[n].reserved => runs'[n].reserved)
    BY <1>2 DEF QuietRow, Orphan
  <2>2. runs[n].reserved /\ jobs = {}
    BY <2>1, OwnerFacts DEF Held
  <2> QED
    BY <2>1, <2>2
<1> QED
  BY <1>1, <1>2 DEF OwnerInv, Orphan, Held

\* One row is written.
LEMMA OwnerTouch ==
  ASSUME IInv, actor.phase # "reconcile", UNCHANGED strays, NEW n \in DOMAIN runs,
         Touched(runs, runs', n), \A k \in Number \ {n} : proc'[k] = proc[k],
         QuietRow(runs[n], proc[n], runs'[n], proc'[n]),
         (\E k \in DOMAIN runs : Orphan(k)) =>
            jobs' \subseteq jobs /\ (actor'.phase = "launch" => runs'[actor'.run].tab)
  PROVE  OwnerInv'
<1>1. ASSUME NEW k \in DOMAIN runs, k # n
      PROVE  QuietRow(runs[k], proc[k], runs'[k], proc'[k])
  <2>1. runs'[k] = runs[k] /\ proc'[k] = proc[k]
    BY <1>1, OwnerFacts DEF Touched
  <2> QED
    BY <2>1 DEF QuietRow
<1>2. DOMAIN runs' = DOMAIN runs
  BY DEF Touched
<1>3. \A k \in DOMAIN runs : QuietRow(runs[k], proc[k], runs'[k], proc'[k])
  BY <1>1
<1> QED
  BY <1>2, <1>3, OwnerFrame

\* After a crash every run that may have left an agent behind is reserved, or
\* among the runs that are reconciled first.
LEMMA OwnerDies ==
  ASSUME IInv, NEW reboot \in BOOLEAN, NEW survivors \in SUBSET Number, Dies(reboot, survivors)
  PROVE  OwnerInv'
<1> USE DEF IInv
<1>1. /\ jobs' = {} /\ actor'.phase = "reconcile" /\ actor'.todo = ActiveRuns \cup Reserved
      /\ DOMAIN runs' = DOMAIN runs /\ strays \subseteq strays' /\ DOMAIN runs \subseteq Number
  BY DieFacts, TypeFacts DEF Idle
<1>2. ASSUME NEW k \in DOMAIN runs, OrphanRow(runs'[k], proc'[k]), k \notin strays'
      PROVE  /\ runs'[k].status = runs[k].status /\ runs'[k].reserved = runs[k].reserved
             /\ \/ runs[k].reserved
                \/ runs[k].status \notin Final \cup {"WaitingForUser"}
  <2>1. \/ runs'[k] = runs[k]
        \/ actor.phase = "launch" /\ k = actor.run /\ Binds(runs[k], runs'[k])
    BY DieFacts
  <2>2. runs'[k].status = runs[k].status /\ runs'[k].reserved = runs[k].reserved
    BY <2>1 DEF Binds
  <2>3. "Dispatching" \notin Final \cup {"WaitingForUser"}
    BY DEF Final, Skipped
  <2>4. CASE actor.phase = "launch" /\ k = actor.run /\ Binds(runs[k], runs'[k])
    BY <2>2, <2>3, <2>4 DEF Binds
  <2>5. CASE runs'[k] = runs[k] /\ ~(actor.phase = "launch" /\ k = actor.run
                                      /\ Binds(runs[k], runs'[k]))
    <3>1. \/ proc'[k] = proc[k]
          \/ proc'[k] = "gone"
          \/ runs[k].status \notin Final \cup {"WaitingForUser"}
      BY <1>1, <1>2, <2>5, DieFacts
    <3>2. CASE proc'[k] = proc[k]
      <4>1. Orphan(k)
        BY <1>1, <1>2, <2>5, <3>2 DEF Orphan
      <4>2. Held(k)
        BY <4>1, OwnerFacts
      <4> QED
        BY <2>2, <4>2 DEF Held
    <3>3. CASE proc'[k] = "gone"
      BY <1>2, <3>3 DEF OrphanRow, Outlived
    <3> QED
      BY <2>2, <3>1, <3>2, <3>3
  <2> QED
    BY <2>1, <2>4, <2>5
<1>3. ASSUME NEW k \in DOMAIN runs', Orphan(k)'
      PROVE  Held(k)'
  <2>1. /\ runs'[k].status = runs[k].status /\ runs'[k].reserved = runs[k].reserved
        /\ \/ runs[k].reserved
           \/ runs[k].status \notin Final \cup {"WaitingForUser"}
    BY <1>1, <1>2, <1>3 DEF Orphan
  <2>2. runs[k].status \notin Final => k \in actor'.todo
    BY <1>1 DEF ActiveRuns
  <2> QED
    BY <1>1, <2>1, <2>2 DEF Held
<1> QED
  BY <1>1, <1>3 DEF OwnerInv

\* A run that was reconciled is reserved if it is an orphan, and no other run
\* is taken off the list.
LEMMA OwnerReconciles ==
  ASSUME IInv, Reconcile
  PROVE  OwnerInv'
<1> USE DEF IInv
<1> DEFINE n == Next1
           r == runs[n]
           s == runs'[n]
<1>1. /\ n \in DOMAIN runs /\ actor.phase = "reconcile"
      /\ actor' = [actor EXCEPT !.todo = actor.todo \ {n}]
      /\ Touched(runs, runs', n) /\ UNCHANGED <<jobs, strays>>
      /\ proc \in [Number -> Procs] /\ DOMAIN runs \subseteq Number /\ actor \in Actor
  BY ReconcileFacts, TypeFacts DEF TypeInv, TypeOK, Procs
<1>2. \/ s = r /\ UNCHANGED proc /\ SkipsReconcile(n)
      \/ /\ r.recovery = "resuming"
         /\ proc' = [proc EXCEPT ![n] = IF @ = "attached" THEN "gone" ELSE @]
         /\ Holds(r, s) \/ Closes(r, s) \/ Retries(r, s)
      \/ /\ UNCHANGED proc
         /\ Holds(r, s) /\ (s.reserved \/ proc[n] \in {"attached", "gone"})
      \/ /\ UNCHANGED proc /\ proc[n] = "gone"
         /\ Closes(r, s) \/ Retries(r, s)
  BY ReconcileFacts
<1>3. actor'.phase = "reconcile" /\ actor'.todo = actor.todo \ {n}
  BY <1>1 DEF Actor
<1>4. RowOK(r, proc[n], mail[n]) /\ r.attempts \in Nat /\ (Orphan(n) => ~SkipsReconcile(n))
  BY <1>1, OwnerFacts
<1>5. /\ DOMAIN runs' = DOMAIN runs
      /\ \A k \in DOMAIN runs \ {n} : runs'[k] = runs[k] /\ proc'[k] = proc[k]
  BY <1>1, <1>2 DEF Touched
<1> HIDE DEF n, s
<1>6. ASSUME OrphanRow(s, proc'[n]), n \notin strays
      PROVE  s.reserved /\ Orphan(n)
  <2>1. CASE s = r /\ UNCHANGED proc /\ SkipsReconcile(n)
    BY <1>4, <1>6, <2>1 DEF Orphan
  <2>2. CASE r.recovery = "resuming" /\ (Holds(r, s) \/ Closes(r, s) \/ Retries(r, s))
    <3>1. r.attempts > 1 /\ s.attempts = r.attempts
      BY <1>4, <2>2 DEF RowOK, Holds, Closes, Retries, Tried
    <3> QED
      BY <1>4, <1>6, <3>1 DEF OrphanRow
  <2>3. CASE UNCHANGED proc /\ Holds(r, s) /\ (s.reserved \/ proc[n] \in {"attached", "gone"})
    <3>1. s.attempts = r.attempts /\ s.taken = r.taken /\ (r.pruned => s.pruned)
      BY <2>3 DEF Holds, Ident, Tried
    <3> QED
      BY <1>6, <2>3, <3>1 DEF Orphan, OrphanRow, Outlived
  <2>4. CASE UNCHANGED proc /\ proc[n] = "gone"
    BY <1>6, <2>4 DEF OrphanRow, Outlived
  <2> QED
    BY <1>2, <2>1, <2>2, <2>3, <2>4
<1>7. ASSUME NEW k \in DOMAIN runs', Orphan(k)'
      PROVE  Held(k)' /\ jobs' = {}
  <2>1. CASE k = n
    <3>1. OrphanRow(s, proc'[n]) /\ n \notin strays
      BY <1>1, <1>7, <2>1 DEF Orphan, s
    <3>2. s.reserved /\ Orphan(n)
      BY <1>6, <3>1
    <3> QED
      BY <1>1, <2>1, <3>2, OwnerFacts DEF Held, s
  <2>2. CASE k # n
    <3>1. runs'[k] = runs[k] /\ proc'[k] = proc[k] /\ k \in DOMAIN runs
      BY <1>5, <2>2
    <3>2. Orphan(k)
      BY <1>1, <1>7, <3>1 DEF Orphan
    <3>3. Held(k) /\ jobs = {}
      BY <3>1, <3>2, OwnerFacts
    <3>4. k \in actor.todo => k \in actor'.todo
      BY <1>3, <2>2
    <3> QED
      BY <1>1, <1>3, <3>1, <3>3, <3>4 DEF Held
  <2> QED
    BY <2>1, <2>2
<1> QED
  BY <1>3, <1>7 DEF OwnerInv

LEMMA OwnerStep ==
  ASSUME IInv, [Next]_vars
  PROVE  OwnerInv'
<1> USE DEF IInv
<1>1. UNCHANGED conf /\ Number' = Number
  BY NextKeepsConf, ConfStays
<1>2. /\ proc \in [Number -> Procs] /\ DOMAIN runs \subseteq Number /\ actor \in Actor
  BY TypeFacts DEF TypeInv, TypeOK, Procs
<1>3. AtRest => actor.phase = "idle"
  BY DEF AtRest
\* No row and no process is written.
<1>4. ASSUME actor.phase # "reconcile" \/ actor.todo = {}, UNCHANGED <<runs, proc, jobs, strays>>,
             actor'.phase # "launch"
      PROVE  OwnerInv'
  <2>1. \A k \in DOMAIN runs : QuietRow(runs[k], proc[k], runs'[k], proc'[k])
    BY <1>4 DEF QuietRow
  <2> QED
    BY <1>4, <2>1, OwnerFrame
<1>5. CASE UNCHANGED vars
  BY <1>5 DEF vars, OwnerInv, Orphan, Held
<1>6. CASE EndReconcile \/ MissOccurrence \/ ReachLimit \/ Passes \/ Slips \/ Leaves
           \/ EndResume \/ EndTick
  <2>1. CASE ReachLimit \/ Passes \/ Slips
    <3>1. /\ actor.phase = "evaluate" /\ UNCHANGED <<runs, proc, jobs, strays>>
          /\ actor'.phase = "evaluate"
      BY <1>2, <2>1, PassFacts DEF Actor
    <3> QED
      BY <1>4, <3>1
  <2>2. CASE Leaves
    <3>1. /\ actor.phase = "evaluate" /\ UNCHANGED <<runs, proc, jobs, strays>>
          /\ actor'.phase = "resume"
      BY <1>2, <2>2, LeaveFacts DEF Actor
    <3> QED
      BY <1>4, <3>1
  <2>3. CASE EndReconcile
    <3>1. actor.todo = {} /\ UNCHANGED <<runs, proc, jobs, strays>> /\ actor'.phase # "launch"
      BY <1>2, <2>3 DEF EndReconcile, Idle, Actor, host, memory
    <3> QED
      BY <1>4, <3>1
  <2>4. CASE MissOccurrence \/ EndResume \/ EndTick
    <3>1. UNCHANGED <<runs, proc, jobs, strays>> /\ actor.phase # "reconcile"
      BY <2>4 DEF MissOccurrence, Due, EndResume, EndTick, host, memory
    <3>2. actor'.phase # "launch"
      BY <1>2, <2>4, IdleFacts DEF MissOccurrence, Due, EndResume, EndTick, Actor
    <3> QED
      BY <1>4, <3>1, <3>2
  <2> QED
    BY <1>6, <2>1, <2>2, <2>3, <2>4
<1>7. CASE Clock \/ ResumeSchedule \/ Trash \/ Restore
           \/ \E n \in Number : \E kind \in Reports : Report(n, kind)
  <2>1. AtRest /\ UNCHANGED <<actor, runs, proc, jobs, strays>>
    BY <1>7 DEF Clock, ResumeSchedule, Trash, Restore, Report, Request, host, memory
  <2> QED
    BY <1>3, <1>4, <2>1
<1>8. ASSUME NEW n \in Number, AgentExits(n)
      PROVE  OwnerInv'
  <2>1. /\ AtRest /\ n \in DOMAIN runs /\ UNCHANGED <<runs, jobs, actor, strays>>
        /\ proc' = [proc EXCEPT ![n] = "gone"]
    BY <1>8 DEF AgentExits, host, memory
  <2>2. \A k \in DOMAIN runs : proc'[k] \in {proc[k], "gone"}
    BY <1>2, <2>1
  <2>3. \A k \in DOMAIN runs : QuietRow(runs[k], proc[k], runs'[k], proc'[k])
    BY <2>1, <2>2 DEF QuietRow, OrphanRow, Outlived
  <2> QED
    BY <1>3, <2>1, <2>3, OwnerFrame
<1>9. ASSUME NEW n \in Number, DeliverReport(n)
      PROVE  OwnerInv'
  <2>1. /\ AtRest /\ n \in DOMAIN runs /\ DOMAIN runs' = DOMAIN runs
        /\ UNCHANGED <<proc, jobs, actor, strays>>
        /\ \A k \in DOMAIN runs \ {n} : runs'[k] = runs[k] \/ Marks(runs[k], runs'[k])
        /\ runs'[n] = runs[n] \/ Waits(runs[n], runs'[n]) \/ Closes(runs[n], runs'[n])
        /\ runs'[n].reserved = runs[n].reserved
    BY <1>9, DeliverFacts
  <2>2. ASSUME NEW k \in DOMAIN runs
        PROVE  QuietRow(runs[k], proc[k], runs'[k], proc'[k])
    BY <2>1, OwnerFacts, OwnerMoves
  <2> QED
    BY <1>3, <2>1, <2>2, OwnerFrame
<1>10. CASE Notes
  <2>1. /\ AtRest /\ UNCHANGED <<proc, jobs, actor, strays>> /\ DOMAIN runs' = DOMAIN runs
        /\ \A k \in DOMAIN runs : runs'[k] = runs[k] \/ Marks(runs[k], runs'[k])
    BY <1>10, MarkFacts, PauseFacts DEF Notes, Touched
  <2>2. ASSUME NEW k \in DOMAIN runs
        PROVE  QuietRow(runs[k], proc[k], runs'[k], proc'[k])
    BY <2>1, OwnerFacts, OwnerMoves
  <2> QED
    BY <1>3, <2>1, <2>2, OwnerFrame
<1>11. CASE HandleTick
  <2>1. /\ AtRest /\ UNCHANGED <<proc, jobs, strays>> /\ DOMAIN runs' = DOMAIN runs
        /\ \A k \in DOMAIN runs : runs'[k] = runs[k] \/ Marks(runs[k], runs'[k])
        /\ actor'.phase = "reconcile"
    BY <1>11, HandleTickFacts DEF Idle
  <2>2. ASSUME NEW k \in DOMAIN runs
        PROVE  QuietRow(runs[k], proc[k], runs'[k], proc'[k])
    BY <2>1, OwnerFacts, OwnerMoves
  <2> QED
    BY <1>3, <2>1, <2>2, OwnerFrame
<1>12. CASE Admits \/ Asks
  <2> DEFINE new == Len(runs) + 1
  <2>1. /\ actor.phase # "reconcile" /\ UNCHANGED <<proc, jobs, strays>>
        /\ DOMAIN runs' = DOMAIN runs \cup {new} /\ new \notin DOMAIN runs
        /\ \A k \in DOMAIN runs : runs'[k] = runs[k]
    BY <1>3, <1>12, AdmitFacts, AskFacts DEF Added
  <2>2. actor'.phase \in {"start", "evaluate"}
    <3>1. CASE Admits
      BY <1>2, <3>1, AdmitFacts DEF Actor
    <3>2. CASE Asks
      BY <1>2, <3>2, AskFacts DEF Actor
    <3> QED
      BY <1>12, <3>1, <3>2
  <2>3. new \in Number
    BY <1>1, <2>1, TypeInvStep DEF TypeInv, TypeOK
  <2>4. proc[new] = "none"
    BY <2>1, <2>3 DEF RowInv
  <2>5. \A k \in DOMAIN runs : QuietRow(runs[k], proc[k], runs'[k], proc'[k])
    BY <2>1 DEF QuietRow
  <2> HIDE DEF new
  <2> QED
    BY <2>1, <2>2, <2>4, <2>5, OwnerFrame
<1>13. ASSUME NEW n \in Number, StopWaiting(n)
       PROVE  OwnerInv'
  <2>1. /\ AtRest /\ n \in DOMAIN runs /\ Touched(runs, runs', n) /\ Waits(runs[n], runs'[n])
        /\ UNCHANGED <<proc, jobs, actor, strays>>
    BY <1>13, StopWaitingFacts
  <2>2. QuietRow(runs[n], proc[n], runs'[n], proc'[n])
    BY <2>1, OwnerFacts, OwnerMoves
  <2> QED
    BY <1>3, <2>1, <2>2, OwnerTouch
<1>14. ASSUME NEW n \in Number, FinishPrecheck(n)
       PROVE  OwnerInv'
  <2>1. /\ actor.phase = "idle" /\ n \in jobs /\ n \in DOMAIN runs /\ Touched(runs, runs', n)
        /\ UNCHANGED <<proc, strays>>
        /\ \/ runs' = runs
           \/ /\ ~runs[n].tab
              /\ \/ Waits(runs[n], runs'[n]) \/ Closes(runs[n], runs'[n])
                 \/ Retries(runs[n], runs'[n]) \/ Parks(runs[n], runs'[n])
                 \/ Begins(runs[n], runs'[n])
    BY <1>14, FinishPrecheckFacts
  <2>2. QuietRow(runs[n], proc[n], runs'[n], proc'[n])
    BY <2>1, OwnerFacts, OwnerMoves
  <2>3. ~ \E k \in DOMAIN runs : Orphan(k)
    BY <2>1, OwnerFacts
  <2> QED
    BY <2>1, <2>2, <2>3, OwnerTouch
<1>15. CASE Launch
  <2> DEFINE n == actor.run
  <2>1. /\ actor.phase = "launch" /\ n \in DOMAIN runs /\ Touched(runs, runs', n) /\ Return
        /\ UNCHANGED <<jobs, strays>>
        /\ \/ proc' = [proc EXCEPT ![n] = "attached"]
           \/ /\ UNCHANGED proc
              /\ Closes(runs[n], runs'[n]) \/ Retries(runs[n], runs'[n])
    BY <1>15, LaunchFacts
  <2>2. proc[n] \in Outlived => runs[n].attempts > 2
    BY <2>1 DEF ActorInv
  <2>3. actor'.phase # "launch"
    BY <2>1, ReturnFacts, IdleFacts
  <2> HIDE DEF n
  <2>4. /\ \A k \in Number \ {n} : proc'[k] = proc[k]
        /\ \/ proc'[n] = "attached"
           \/ /\ proc'[n] = proc[n]
              /\ Closes(runs[n], runs'[n]) \/ Retries(runs[n], runs'[n])
    BY <1>2, <2>1
  <2>5. QuietRow(runs[n], proc[n], runs'[n], proc'[n])
    BY <2>1, <2>2, <2>4, OwnerFacts, OwnerMoves
  <2> QED
    BY <2>1, <2>3, <2>4, <2>5, OwnerTouch
<1>16. CASE Resume
  <2> DEFINE n == Next1
  <2>1. /\ n \in DOMAIN runs /\ actor.phase = "resume" /\ runs[n].status = "Pending"
        /\ Touched(runs, runs', n) /\ UNCHANGED <<proc, jobs, strays>>
        /\ \/ runs' = runs \/ Closes(runs[n], runs'[n]) \/ Retries(runs[n], runs'[n])
           \/ Begins(runs[n], runs'[n])
    BY <1>16, ResumeFacts
  <2>2. actor'.phase = "launch" => runs'[actor'.run].tab
    BY <1>2, <1>16, ResumeFacts DEF Actor, Begins
  <2> HIDE DEF n
  <2>3. QuietRow(runs[n], proc[n], runs'[n], proc'[n])
    BY <2>1, OwnerFacts, OwnerMoves
  <2> QED
    BY <2>1, <2>2, <2>3, OwnerTouch
<1>17. CASE Expire
  <2> DEFINE n == Next1
  <2>1. /\ n \in DOMAIN runs /\ actor.phase = "expire"
        /\ actor' = [actor EXCEPT !.todo = actor.todo \ {n}]
        /\ Touched(runs, runs', n) /\ UNCHANGED <<jobs, strays>>
        /\ \/ runs' = runs \/ Waits(runs[n], runs'[n])
           \/ Closes(runs[n], runs'[n]) /\ runs'[n].reserved = runs[n].reserved
        /\ UNCHANGED proc \/ proc' = [proc EXCEPT ![n] = "gone"]
    BY <1>17, ExpireFacts
  <2>2. actor'.phase = "expire"
    BY <1>2, <2>1 DEF Actor
  <2> HIDE DEF n
  <2>3. /\ \A k \in Number \ {n} : proc'[k] = proc[k]
        /\ proc'[n] \in {proc[n], "gone"}
    BY <1>2, <2>1
  <2>4. QuietRow(runs[n], proc[n], runs'[n], proc'[n])
    BY <2>1, <2>3, OwnerFacts, OwnerMoves
  <2> QED
    BY <2>1, <2>2, <2>3, <2>4, OwnerTouch
<1>18. CASE StartRun
  <2> DEFINE n == actor.run
  <2>1. /\ actor.phase = "start" /\ n \in DOMAIN runs /\ runs[n].status = "Pending"
        /\ UNCHANGED <<proc, strays>> /\ DOMAIN runs' = DOMAIN runs
        /\ \A k \in DOMAIN runs \ {n} :
              runs'[k] = runs[k] \/ (runs[k].status = "Pending" /\ Closes(runs[k], runs'[k]))
        /\ \/ runs'[n] = runs[n] \/ Marks(runs[n], runs'[n]) \/ Closes(runs[n], runs'[n])
           \/ Retries(runs[n], runs'[n]) \/ Parks(runs[n], runs'[n]) \/ Checks(runs[n], runs'[n])
           \/ Begins(runs[n], runs'[n])
        /\ \/ ~TargetReserved(n)
           \/ Return /\ UNCHANGED jobs
    BY <1>18, StartRunFacts DEF Touched
  <2>2. Return => actor'.phase # "launch"
    BY ReturnFacts, IdleFacts
  <2> HIDE DEF n
  <2>3. ASSUME NEW k \in DOMAIN runs, k # n
        PROVE  QuietRow(runs[k], proc[k], runs'[k], proc'[k])
    BY <2>1, <2>3, OwnerFacts, OwnerMoves
  <2>4. QuietRow(runs[n], proc[n], runs'[n], proc'[n])
    BY <2>1, OwnerFacts, OwnerMoves
  <2>5. ASSUME NEW k \in DOMAIN runs, Orphan(k)
        PROVE  TargetReserved(n)
    <3>1. Held(k) /\ k # n /\ ~runs[k].taken /\ ~runs[k].pruned
      BY <2>1, <2>5, OwnerFacts DEF Orphan, OrphanRow
    <3>2. runs[k].reserved
      BY <2>1, <3>1 DEF Held
    <3> QED
      BY <3>1, <3>2 DEF TargetReserved, Reserved
  <2> QED
    BY <2>1, <2>2, <2>3, <2>4, <2>5, OwnerFrame
<1> QED
  BY <1>5, <1>6, <1>7, <1>8, <1>9, <1>10, <1>11, <1>12, <1>13, <1>14, <1>15, <1>16, <1>17, <1>18,
     OwnerDies, OwnerReconciles, NextCases DEF Quiet

-----------------------------------------------------------------------------
(***************************************************************************)
(* The theorems.                                                           *)
(***************************************************************************)
LEMMA InductiveStep ==
  ASSUME IInv, [Next]_vars
  PROVE  IInv'
<1>1. TypeInv' /\ RowInv' /\ ActorInv' /\ OverlapInv'
  BY TypeInvStep, RowStep, ActorStep, OverlapStep
<1>2. PrecheckInv' /\ OccurrenceInv' /\ LimitHolds' /\ OwnerInv'
  BY PrecheckStep, OccurrenceStep, LimitStep, OwnerStep
<1> QED
  BY <1>1, <1>2 DEF IInv

LEMMA Invariance == Spec => []IInv
<1>1. Init => IInv
  BY InitHolds
<1>2. IInv /\ [Next]_vars => IInv'
  BY InductiveStep
<1> QED
  BY <1>1, <1>2, PTL DEF Spec

\* Type correctness, for every configuration: among the rest, no run is ever
\* attempted more often than its policy permits, and there is a run row for each
\* occurrence at most.
THEOREM AutomationTypeCorrect == Spec => []TypeOK
<1>1. IInv => TypeOK
  BY DEF IInv, TypeInv
<1> QED
  BY <1>1, Invariance, PTL

\* decide_overlap: whatever is queued, superseded, retried, parked, checked first
\* or resumed after a crash, two runs are in flight together only if one of them
\* was started with the policy that allows it.
THEOREM RunsDoNotOverlap == Spec => []OneRunInFlight
<1>1. IInv => OneRunInFlight
  <2> SUFFICES ASSUME IInv, NEW m \in DOMAIN runs, NEW n \in DOMAIN runs, m # n,
                      {runs[m].status, runs[n].status} \subseteq InFlight,
                      runs[m].policy # "ForceParallel", runs[n].policy # "ForceParallel"
               PROVE  FALSE
    BY DEF OneRunInFlight
  <2>1. m \in Nat /\ n \in Nat
    BY TypeFacts DEF IInv
  <2>2. InFlight \cap Final = {}
    BY DEF InFlight, Final, Skipped
  <2>3. CASE m < n
    BY <2>2, <2>3 DEF IInv, OverlapInv
  <2>4. CASE n < m
    BY <2>2, <2>4 DEF IInv, OverlapInv
  <2> QED
    BY <2>1, <2>3, <2>4
<1> QED
  BY <1>1, Invariance, PTL

\* admit_scheduled_automation_run_with, record_skipped_misfires: every occurrence
\* makes at most one run, the runs come in the order of their occurrences, and the
\* schedule passes over an unclaimed one only if its admission failed in the store,
\* or if it is a misfire whose claim failed or was cut off by a crash.
THEOREM OccurrencesAreInOrder == Spec => []OccurrencesInOrder
<1>1. IInv => OccurrencesInOrder
  <2> SUFFICES ASSUME IInv PROVE OccurrencesInOrder
    OBVIOUS
  <2> USE DEF IInv
  <2>1. /\ \A n \in Scheduled(runs) : runs[n].at \in claimed
        /\ \A m, n \in Scheduled(runs) : m < n => runs[m].at < runs[n].at
    BY DEF OccurrenceInv
  <2>2. ASSUME AtRest, NEW a \in 1 .. ScheduleCursor
        PROVE  a \in claimed \cup slipped \/ a <= cursor
    <3>1. ~Evaluating
      BY <2>2 DEF AtRest, Evaluating
    <3>2. actor.missed = {}
      BY <3>1 DEF OccurrenceInv
    <3>3. \A c \in claimed : \A x \in 1 .. c : x \in claimed \cup slipped \/ x <= cursor
      BY <3>2 DEF OccurrenceInv, Accounted
    <3>4. ScheduleCursor \in claimed \cup {0, cursor} /\ cursor \in Nat
      BY CursorFacts, TypeFacts
    <3>5. CASE ScheduleCursor \in claimed
      BY <2>2, <3>3, <3>5
    <3>6. CASE ScheduleCursor = cursor
      BY <3>4, <3>6
    <3>7. CASE ScheduleCursor = 0
      BY <3>7
    <3> QED
      BY <3>4, <3>5, <3>6, <3>7
  <2> QED
    BY <2>1, <2>2 DEF OccurrencesInOrder
<1> QED
  BY <1>1, Invariance, PTL

\* expire_automation_runs: a precheck command whose outcome a crash has lost is
\* not run again, unless a person ends the wait for it.
THEOREM LostPrechecksStayLost == Spec => []LostPrecheckNotRepeated
<1>1. IInv => LostPrecheckNotRepeated
  BY DEF IInv, PrecheckInv, LostPrecheckNotRepeated
<1> QED
  BY <1>1, Invariance, PTL

\* The limit of scheduled runs bounds the runs of the retained history, in whatever
\* order runs are admitted, superseded, skipped, ended and pruned.
THEOREM ScheduleLimitHolds == Spec => []LimitHolds
<1>1. IInv => LimitHolds
  BY DEF IInv
<1> QED
  BY <1>1, Invariance, PTL

\* A process is attached by a launch only.
LEMMA OnlyLaunchAttaches ==
  ASSUME IInv, [Next]_vars, NEW n \in DOMAIN runs, proc'[n] = "attached", proc[n] # "attached"
  PROVE  actor.phase = "launch" /\ actor.run = n
<1> USE DEF IInv
<1>1. proc \in [Number -> Procs] /\ DOMAIN runs \subseteq Number
  BY DEF TypeInv, TypeOK, Procs
<1>2. UNCHANGED proc => FALSE
  OBVIOUS
<1>3. CASE Reconcile
  <2>1. /\ Next1 \in DOMAIN runs
        /\ \/ UNCHANGED proc
           \/ proc' = [proc EXCEPT ![Next1] = IF @ = "attached" THEN "gone" ELSE @]
    BY <1>3, ReconcileFacts
  <2> QED
    BY <1>1, <2>1
<1>4. CASE Expire
  <2>1. /\ Next1 \in DOMAIN runs
        /\ \/ UNCHANGED proc
           \/ proc' = [proc EXCEPT ![Next1] = "gone"]
    BY <1>4, ExpireFacts
  <2> QED
    BY <1>1, <2>1
<1>5. CASE Launch
  <2>1. /\ actor.phase = "launch" /\ actor.run \in DOMAIN runs
        /\ UNCHANGED proc \/ proc' = [proc EXCEPT ![actor.run] = "attached"]
    BY <1>5, LaunchFacts
  <2> QED
    BY <1>1, <2>1
<1>6. StartRun \/ Resume \/ Admits \/ Asks \/ Notes \/ HandleTick => UNCHANGED proc
  BY StartRunFacts, ResumeFacts, AdmitFacts, AskFacts, MarkFacts, PauseFacts, HandleTickFacts
     DEF Notes
<1>7. ASSUME NEW k \in Number, FinishPrecheck(k) \/ DeliverReport(k) \/ StopWaiting(k)
      PROVE  UNCHANGED proc
  BY <1>7, FinishPrecheckFacts, DeliverFacts, StopWaitingFacts
<1>8. CASE Quiet
  <2>1. ASSUME NEW k \in Number, AgentExits(k)
        PROVE  FALSE
    BY <1>1, <2>1 DEF AgentExits
  <2>2. ASSUME \/ EndReconcile \/ MissOccurrence \/ EndResume \/ EndTick \/ Clock
               \/ ResumeSchedule \/ Trash \/ Restore \/ UNCHANGED vars
               \/ \E k \in Number : \E kind \in Reports : Report(k, kind)
        PROVE  UNCHANGED proc
    BY <2>2 DEF EndReconcile, MissOccurrence, EndResume, EndTick, Clock, ResumeSchedule, Trash,
                Restore, Report, vars
  <2>3. ReachLimit \/ Passes \/ Slips \/ Leaves => UNCHANGED proc
    BY PassFacts, LeaveFacts
  <2> QED
    BY <1>2, <1>8, <2>1, <2>2, <2>3 DEF Quiet
<1>9. ASSUME NEW reboot \in BOOLEAN, NEW survivors \in SUBSET Number, Dies(reboot, survivors)
      PROVE  FALSE
  BY <1>1, <1>9, DieFacts DEF Outlived
<1> QED
  BY <1>2, <1>3, <1>4, <1>5, <1>6, <1>7, <1>8, <1>9, NextCases

\* begin_automation_attempt: an agent is started only for a run that is still
\* open, that nobody cancelled or took over, and whose earlier agent is gone,
\* but for the resumed conversation that was given up without looking.
THEOREM AgentsStartSafely == Spec => LaunchesAreSafe
<1> DEFINE Safe == \A n \in DOMAIN runs :
             (proc'[n] = "attached" /\ proc[n] # "attached")
                 => /\ proc[n] \in {"none", "gone"} \/ runs[n].attempts > 2
                    /\ runs[n].status = "Dispatching" /\ ~runs[n].reserved
                    /\ ~runs[n].cancel /\ ~runs[n].taken
<1>1. IInv /\ [Next]_vars => Safe
  <2> SUFFICES ASSUME IInv, [Next]_vars, NEW n \in DOMAIN runs,
                      proc'[n] = "attached", proc[n] # "attached"
               PROVE  /\ proc[n] \in {"none", "gone"} \/ runs[n].attempts > 2
                      /\ runs[n].status = "Dispatching" /\ ~runs[n].reserved
                      /\ ~runs[n].cancel /\ ~runs[n].taken
    OBVIOUS
  <2>1. actor.phase = "launch" /\ actor.run = n
    BY OnlyLaunchAttaches
  <2>2. proc[n] \in {"none", "gone"} \cup Outlived
    BY DEF IInv, TypeInv, TypeOK
  <2> QED
    BY <2>1, <2>2 DEF IInv, ActorInv
<1>2. Spec => [][Safe]_vars
  BY <1>1, Invariance, PTL DEF Spec
<1> QED
  BY <1>2 DEF LaunchesAreSafe

\* reconcile_automation_runs, target_reserved: no agent is started for a run without
\* a terminal of its own while the first agent of another run may still be alive
\* outside the host, recorded or not, unless that run was taken over or pruned, or
\* waited or had ended when its host died.
THEOREM OwnersHoldTheirTargets == Spec => OwnersKeepTargets
<1> DEFINE Kept == \A n \in DOMAIN runs :
             (~runs[n].tab /\ proc'[n] = "attached" /\ proc[n] # "attached")
                 => \A m \in DOMAIN runs \ {n} :
                       proc[m] \in Outlived /\ runs[m].attempts = 1
                           => runs[m].taken \/ runs[m].pruned \/ m \in strays
<1>1. IInv /\ [Next]_vars => Kept
  <2> SUFFICES ASSUME IInv, [Next]_vars, NEW n \in DOMAIN runs, ~runs[n].tab,
                      proc'[n] = "attached", proc[n] # "attached",
                      NEW m \in DOMAIN runs \ {n}, proc[m] \in Outlived, runs[m].attempts = 1
               PROVE  runs[m].taken \/ runs[m].pruned \/ m \in strays
    OBVIOUS
  <2>1. actor.phase = "launch" /\ actor.run = n
    BY OnlyLaunchAttaches
  <2>2. ~Orphan(m)
    BY <2>1 DEF IInv, OwnerInv
  <2> QED
    BY <2>2 DEF Orphan, OrphanRow
<1>2. Spec => [][Kept]_vars
  BY <1>1, Invariance, PTL DEF Spec
<1> QED
  BY <1>2 DEF OwnersKeepTargets
=============================================================================
