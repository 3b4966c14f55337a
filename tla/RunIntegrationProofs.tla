------------------------- MODULE RunIntegrationProofs -------------------------
(***************************************************************************)
(* What integration promises, for every set of tasks and every number of   *)
(* crashes, commands and edits: rows and branch explain each other, a      *)
(* person's work is kept, and the detailed protocol implements the serial  *)
(* log of IntegrationContract.  The invariant behind all three says what a *)
(* row, its receipt in Git and the job at work on it know of each other.   *)
(***************************************************************************)
EXTENDS RunIntegration, SequenceTheorems, TLAPS

-----------------------------------------------------------------------------
(* The inductive invariant.                                                *)

States == {"none", "integrated", "conflict", "cancelled"} \cup Open

(* Where the job is: past the reading of an open row, at a point that      *)
(* holds an answer about the receipt, past the record of the receipt, and  *)
(* inside the branch's lock.                                               *)
Reading   == {"reserve", "resume"}
Answered  == {"record", "settle"}
Applying  == {"recheck", "apply", "checkout", "move", "complete"}
Locked    == {"checkout", "move"}
Working   == Answered \cup Applying \cup {"prepare", "failed", "attend", "inspect"}

Pcs  == {"idle"} \cup Reading \cup Working
Jobs == [pc : Pcs, task : Tasks \cup {None}, seen : Commits \cup {None}]

(* The types of the rows, of Git and of the job.                           *)
TypeInv ==
  /\ status \in {"running", "paused", "cancelled"} /\ sha \in Commits
  /\ state \in [Tasks -> States]
  /\ expected \in [Tasks -> Commits]
  /\ recorded \in [Tasks -> Commits \cup {None}]
  /\ evidence \subseteq Tasks
  /\ ref \in [Tasks -> Commits \cup {None}]
  /\ head \in Commits
  /\ edited \in BOOLEAN /\ reflock \in BOOLEAN
  /\ edits \in Nat
  /\ job \in Jobs
  /\ job.pc # "idle" => job.task \in Tasks

(* A row that still holds the Run's one place for an integration.          *)
Held(t) == state[t] \in Open \cup {"cancelled"}

(* What the merge of a result onto the reserved commit is.                 *)
Merged(t) == IF t \in Empty THEN expected[t] ELSE Append(expected[t], t)

(* Rows and receipts.  A receipt is the merge onto the reserved commit, a  *)
(* row records no other, one row at a time is held, and it is based on the *)
(* Run's present integration SHA.                                          *)
RowInv ==
  /\ \A t \in Tasks :
       /\ ref[t] \in {None, Merged(t)}
       /\ recorded[t] \in {None, ref[t]}
       /\ state[t] = "none" => ref[t] = None
       /\ state[t] = "prepared" => recorded[t] # None
       /\ t \in evidence <=> state[t] = "integrated"
       /\ Held(t) => expected[t] = sha
  /\ \A t, u \in Tasks : Held(t) /\ Held(u) => t = u

(* t is in the commit c, and only once.                                    *)
Once(t, c) == \E i \in DOMAIN c : c[i] = t /\ \A j \in DOMAIN c : c[j] = t => j = i

(* The Run's SHA is made of the results with evidence, each of them once.  *)
ShaInv ==
  /\ \A i \in DOMAIN sha : sha[i] \in evidence
  /\ \A t \in evidence \ Empty : Once(t, sha)

(* What a person committed is in the branch.                               *)
Personal(c) == \E i \in DOMAIN c : c[i] = Person

(* The job and the row it works on.                                        *)
JobInv ==
  LET t == job.task IN
  /\ job.pc \in Working => state[t] \in Open
  /\ job.pc \in Answered => job.seen \in {None, ref[t]}
  /\ job.pc \in Applying => recorded[t] # None
  /\ job.pc \in Locked => reflock /\ head \in {expected[t], ref[t]}
  /\ job.pc = "complete" => /\ head = ref[t] \/ Personal(head)
                            /\ t \notin Empty => Once(t, head)

IInv == TypeInv /\ RowInv /\ ShaInv /\ JobInv /\ BranchIsExplained

-----------------------------------------------------------------------------
(* The actions that only move the job, and those that change no row.       *)

(* Steps of the job that leave rows and Git alone.                         *)
JobStep ==
  \/ ReserveFails \/ Resume \/ PrepareReplays \/ PrepareConflicts \/ PrepareFails
  \/ RecordRefused \/ Recheck \/ ApplyFails \/ Failed \/ Inspect \/ InspectFails
  \/ \E t \in Tasks : Reconcile(t) \/ StartIntegrate(t) \/ StartRetry(t)

(* Steps that change rows.                                                 *)
RowStep == Reserve \/ RecordPreparation \/ Complete \/ Attend \/ SettleCancelled \/ Cancel

(* Steps that change what Git holds.                                       *)
GitStep == \/ Prepare \/ ApplyBegins \/ Checkout \/ CheckoutFails \/ MoveBranch \/ MoveFails
           \/ PersonEdits \/ PersonCommits \/ PersonRestores \/ Crash

(* Steps that change none of the three.                                    *)
HostStep == Toggle \/ Start \/ RecoveryFinished \/ \E t \in Tasks : WorkerCompletes(t)

LEMMA NextSteps == Next => JobStep \/ RowStep \/ GitStep \/ HostStep
  BY DEF Next, Step, Reconciliation, Pass, Around, Boot, JobStep, RowStep, GitStep, HostStep

(* A step of the job changes only the job.                                 *)
LEMMA JobFrame == JobStep => UNCHANGED <<runVars, rowVars, gitVars, envVars>>
  BY DEF JobStep, JobOnly, ReserveFails, Resume, PrepareReplays, PrepareConflicts,
     PrepareFails, RecordRefused, Recheck, ApplyFails, Failed, Inspect, InspectFails,
     Reconcile, StartIntegrate, StartRetry

(* The host's own steps change neither rows nor Git nor the job.           *)
LEMMA HostFrame == HostStep => UNCHANGED <<sha, rowVars, gitVars, job, edits>>
  BY DEF HostStep, Toggle, Start, RecoveryFinished, WorkerCompletes, runVars, envVars

(* A step of Git changes no row.                                           *)
LEMMA GitFrame == GitStep => UNCHANGED <<runVars, rowVars>>
  BY DEF GitStep, GitOnly, Prepare, ApplyBegins, Checkout, CheckoutFails, MoveBranch,
     MoveFails, PersonEdits, PersonCommits, PersonRestores, Crash

(* A step of the rows changes nothing in Git.                              *)
LEMMA RowFrame == RowStep => UNCHANGED <<gitVars, edits>>
  BY DEF RowStep, RowOnly, Reserve, RecordPreparation, Complete, Attend, SettleCancelled,
     Cancel, envVars

-----------------------------------------------------------------------------
(* Types.                                                                  *)

LEMMA AppendCommit == \A c \in Commits, t \in Tasks \cup {Person} :
                        Append(c, t) \in Commits /\ Append(c, t) # None
  BY NoneAssumption DEF Commits

LEMMA TypeInit == Init => TypeInv
<1> SUFFICES ASSUME Init PROVE TypeInv
  OBVIOUS
<1>1. <<>> \in Commits
  BY DEF Commits
<1>2. job \in Jobs /\ job.pc = "idle"
  BY DEF Init, Jobs, Pcs
<1> QED
  BY <1>1, <1>2 DEF Init, TypeInv, States, Open

(* What the operators that move the job do to its fields.                  *)
LEMMA GotoFields ==
  ASSUME TypeInv
  PROVE  \A pc \in Pcs, c \in Commits \cup {None} :
           GotoWith(pc, c) => /\ job' \in Jobs
                              /\ job'.pc = pc /\ job'.task = job.task /\ job'.seen = c
  BY DEF TypeInv, Jobs, GotoWith

LEMMA FinishFields ==
  Finish => job' \in Jobs /\ job'.pc = "idle" /\ job'.task = None /\ job'.seen = None
  BY DEF Finish, Jobs, Pcs

LEMMA BeginFields ==
  \A t \in Tasks, pc \in Pcs :
    Begin(t, pc) => /\ job' \in Jobs /\ job.pc = "idle"
                    /\ job'.pc = pc /\ job'.task = t /\ job'.seen = None
  BY DEF Begin, Jobs, At

LEMMA JobTypes ==
  ASSUME TypeInv, JobStep
  PROVE  job' \in Jobs /\ (job'.pc # "idle" => job'.task \in Tasks)
  BY GotoFields, FinishFields, BeginFields DEF TypeInv, JobStep, Jobs, Pcs, Reading, Working,
     Answered, Applying, Goto, At,
     ReserveFails, Resume, PrepareReplays, PrepareConflicts,
     PrepareFails, RecordRefused, Recheck, ApplyFails, Failed, Inspect, InspectFails,
     Reconcile, StartIntegrate, StartRetry

(* Every step keeps the types.  That the branch never moves to a receipt   *)
(* that is not there rests on what job and row know of each other.         *)
LEMMA TypeStep ==
  ASSUME TypeInv, RowInv, JobInv, [Next]_vars
  PROVE  TypeInv'
<1> USE DEF Pcs, Reading, Working, Answered, Applying
<1>1. CASE JobStep
  BY <1>1, JobTypes, JobFrame DEF TypeInv, runVars, rowVars, gitVars, treeVars, envVars
<1>2. CASE HostStep
  <2>1. status' \in {"running", "paused", "cancelled"}
    BY <1>2 DEF TypeInv, HostStep, Toggle, Start, RecoveryFinished, WorkerCompletes, runVars
  <2> QED
    BY <1>2, <2>1, HostFrame DEF TypeInv, rowVars, gitVars, treeVars
<1>3. CASE RowStep
  <2>1. UNCHANGED <<ref, head, edited, reflock, edits>>
    BY <1>3, RowFrame DEF gitVars, treeVars
  <2>2. CASE Reserve
    BY <2>1, <2>2, GotoFields DEF TypeInv, Jobs, States, Open, Reserve, Goto, At, RowOnly, runVars
  <2>3. CASE RecordPreparation
    BY <2>1, <2>3, GotoFields, FinishFields DEF TypeInv, Jobs, States, Open, RecordPreparation,
       Goto, At, RowOnly, runVars
  <2>4. CASE Complete
    <3>1. state[job.task] = "prepared" => recorded[job.task] \in Commits
      BY <2>4 DEF TypeInv, RowInv, Complete, At
    <3> QED
      BY <2>1, <2>4, <3>1, GotoFields, FinishFields DEF TypeInv, Jobs, States, Open, Complete, Goto, At
  <2>5. CASE Attend
    BY <2>1, <2>5, FinishFields DEF TypeInv, Jobs, States, Open, Attend, At, RowOnly, runVars
  <2>6. CASE SettleCancelled
    BY <2>1, <2>6, GotoFields, FinishFields DEF TypeInv, Jobs, States, Open, SettleCancelled,
       Goto, At, RowOnly, runVars
  <2>7. CASE Cancel
    BY <2>1, <2>7 DEF TypeInv, States, Open, Cancel
  <2> QED
    BY <1>3, <2>2, <2>3, <2>4, <2>5, <2>6, <2>7 DEF RowStep
<1>4. CASE GitStep
  <2>1. UNCHANGED <<status, sha, state, expected, recorded, evidence>>
    BY <1>4, GitFrame DEF runVars, rowVars
  <2>2. CASE Prepare
    BY <2>1, <2>2, GotoFields, AppendCommit DEF TypeInv, Jobs, Prepare, At, GitOnly, treeVars, envVars
  <2>3. CASE ApplyBegins
    BY <2>1, <2>3, GotoFields DEF TypeInv, Jobs, ApplyBegins, Goto, At, GitOnly, envVars
  <2>4. CASE Checkout \/ CheckoutFails \/ MoveFails
    BY <2>1, <2>4, GotoFields DEF TypeInv, Jobs, Checkout, CheckoutFails, MoveFails, Goto, At,
       GitOnly, envVars, treeVars
  <2>5. CASE MoveBranch
    <3>1. ref[job.task] \in Commits
      BY <2>5 DEF TypeInv, RowInv, JobInv, MoveBranch, At
    <3> QED
      BY <2>1, <2>5, <3>1, GotoFields DEF TypeInv, Jobs, MoveBranch, Goto, At, GitOnly, envVars, treeVars
  <2>6. CASE PersonEdits \/ PersonCommits \/ PersonRestores
    <3>1. head' \in Commits /\ edited' \in BOOLEAN /\ reflock' \in BOOLEAN
      BY <2>1, <2>6, AppendCommit DEF TypeInv, PersonEdits, PersonCommits, PersonRestores
    <3>2. edits' \in Nat /\ UNCHANGED <<ref, job>>
      BY <2>6 DEF TypeInv, PersonEdits, PersonCommits, PersonRestores, Edit
    <3> QED
      BY <2>1, <3>1, <3>2 DEF TypeInv
  <2>7. CASE Crash
    BY <2>1, <2>7, FinishFields DEF TypeInv, Jobs, Crash, treeVars
  <2> QED
    BY <1>4, <2>2, <2>3, <2>4, <2>5, <2>6, <2>7 DEF GitStep
<1>5. CASE UNCHANGED vars
  BY <1>5 DEF TypeInv, vars, runVars, rowVars, gitVars, treeVars, envVars
<1> QED
  BY <1>1, <1>2, <1>3, <1>4, <1>5, NextSteps

-----------------------------------------------------------------------------
(* Rows and receipts.                                                      *)

(* The invariant of the rows speaks of rows, receipts and the SHA only.    *)
LEMMA RowInvFrame ==
  RowInv /\ UNCHANGED <<sha, state, expected, recorded, evidence, ref>> => RowInv'
  BY DEF RowInv, Merged, Held

LEMMA RowInvStep ==
  ASSUME TypeInv, RowInv, JobInv, [Next]_vars
  PROVE  RowInv'
<1> USE DEF Pcs, Reading, Working, Answered, Applying
<1>1. CASE JobStep
  BY <1>1, JobFrame, RowInvFrame DEF runVars, rowVars, gitVars
<1>2. CASE HostStep
  BY <1>2, HostFrame, RowInvFrame DEF rowVars, gitVars
<1>3. CASE RowStep
  <2>1. UNCHANGED ref
    BY <1>3, RowFrame DEF gitVars
  <2>2. CASE Reserve
    BY <2>1, <2>2 DEF TypeInv, RowInv, Held, Merged, Open, Reserve, At, RowOnly, runVars
  <2>3. CASE RecordPreparation
    BY <2>1, <2>3 DEF TypeInv, RowInv, JobInv, Held, Merged, Open, RecordPreparation,
       At, RowOnly, runVars
  <2>4. CASE Complete
    BY <2>1, <2>4 DEF TypeInv, RowInv, JobInv, Held, Merged, Open, Complete, At
  <2>5. CASE Attend
    BY <2>1, <2>5 DEF TypeInv, RowInv, JobInv, Held, Merged, Open, Attend, At, RowOnly, runVars
  <2>6. CASE SettleCancelled
    BY <2>1, <2>6 DEF TypeInv, RowInv, JobInv, Held, Merged, Open, SettleCancelled, At, RowOnly, runVars
  <2>7. CASE Cancel
    BY <2>1, <2>7 DEF TypeInv, RowInv, Held, Merged, Open, Cancel
  <2> QED
    BY <1>3, <2>2, <2>3, <2>4, <2>5, <2>6, <2>7 DEF RowStep
<1>4. CASE GitStep
  <2>1. UNCHANGED <<sha, state, expected, recorded, evidence>>
    BY <1>4, GitFrame DEF runVars, rowVars
  <2>2. CASE Prepare
    BY <2>1, <2>2, AppendCommit DEF TypeInv, RowInv, JobInv, Held, Merged, Open, Prepare, At
  <2>3. CASE ~Prepare
    BY <1>4, <2>1, <2>3, RowInvFrame DEF GitStep, ApplyBegins, Checkout, CheckoutFails, MoveBranch,
       MoveFails, PersonEdits, PersonCommits, PersonRestores, Crash
  <2> QED
    BY <2>2, <2>3
<1>5. CASE UNCHANGED vars
  BY <1>5, RowInvFrame DEF vars, runVars, rowVars, gitVars
<1> QED
  BY <1>1, <1>2, <1>3, <1>4, <1>5, NextSteps

-----------------------------------------------------------------------------
(* Commits as sequences of results.                                        *)

(* What appending does to the places of a sequence.                        *)
LEMMA AppendPlaces ==
  ASSUME NEW S, NEW c \in Seq(S), NEW x \in S
  PROVE  /\ DOMAIN Append(c, x) = DOMAIN c \cup {Len(c) + 1}
         /\ Len(c) + 1 \notin DOMAIN c
         /\ Append(c, x)[Len(c) + 1] = x
         /\ \A i \in DOMAIN c : Append(c, x)[i] = c[i]
  OBVIOUS

(* A result that is not in a commit is in it once after it was appended,   *)
(* and one that is in it once stays so when another is appended.           *)
LEMMA OnceAppended ==
  ASSUME NEW c \in Commits, NEW x \in Tasks \cup {Person}
  PROVE  /\ (\A i \in DOMAIN c : c[i] # x) => Once(x, Append(c, x))
         /\ \A t : t # x /\ Once(t, c) => Once(t, Append(c, x))
<1> DEFINE d == Append(c, x)
<1>1. /\ DOMAIN d = DOMAIN c \cup {Len(c) + 1} /\ Len(c) + 1 \notin DOMAIN c
      /\ d[Len(c) + 1] = x /\ \A i \in DOMAIN c : d[i] = c[i]
  BY AppendPlaces DEF Commits
<1> HIDE DEF d
<1>2. (\A i \in DOMAIN c : c[i] # x) => Once(x, d)
  BY <1>1 DEF Once
<1>3. ASSUME NEW t, t # x, Once(t, c) PROVE Once(t, d)
  <2>1. PICK i \in DOMAIN c : c[i] = t /\ \A j \in DOMAIN c : c[j] = t => j = i
    BY <1>3 DEF Once
  <2>2. i \in DOMAIN d /\ d[i] = t /\ \A j \in DOMAIN d : d[j] = t => j = i
    BY <1>1, <1>3, <2>1
  <2> QED
    BY <2>2 DEF Once
<1> QED
  BY <1>2, <1>3 DEF d

(* A person's commit makes the branch personal and nothing undoes that.    *)
LEMMA PersonalAppended ==
  ASSUME NEW c \in Commits, NEW x \in Tasks \cup {Person}
  PROVE  x = Person \/ Personal(c) => Personal(Append(c, x))
  BY AppendPlaces DEF Personal, Commits

-----------------------------------------------------------------------------
(* The Run's SHA.                                                          *)

LEMMA ShaInvStep ==
  ASSUME TypeInv, RowInv, JobInv, ShaInv, [Next]_vars
  PROVE  ShaInv'
<1> USE DEF Pcs, Reading, Working, Answered, Applying
<1>1. CASE UNCHANGED <<sha, evidence>>
  BY <1>1 DEF ShaInv, Once
<1>2. CASE Complete /\ ~UNCHANGED <<sha, evidence>>
  <2> DEFINE t == job.task
  <2>1. /\ t \in Tasks /\ state[t] = "prepared" /\ recorded[t] = ref[t] /\ expected[t] = sha
        /\ evidence' = evidence \cup {t} /\ sha' = recorded[t]
    BY <1>2 DEF Complete, At, TypeInv, RequireCurrent
  <2>2. sha' = Merged(t) /\ t \notin evidence
    BY <2>1 DEF RowInv
  <2>3. CASE t \in Empty
    BY <2>1, <2>2, <2>3 DEF ShaInv, Merged, Once
  <2>4. CASE t \notin Empty
    <3>1. sha' = Append(sha, t) /\ sha \in Commits /\ sha \in Seq(Tasks \cup {Person})
      BY <2>1, <2>2, <2>4 DEF Merged, TypeInv, Commits
    <3>2. \A i \in DOMAIN sha : sha[i] # t
      BY <2>2 DEF ShaInv
    <3>3. \A i \in DOMAIN sha' : sha'[i] \in evidence'
      BY <2>1, <3>1, AppendPlaces DEF ShaInv
    <3>4. ASSUME NEW u \in evidence' \ Empty PROVE Once(u, sha')
      BY <2>1, <2>2, <3>1, <3>2, <3>4, OnceAppended DEF ShaInv
    <3> QED
      BY <3>3, <3>4 DEF ShaInv, Once
  <2> QED
    BY <2>3, <2>4
<1>3. ~UNCHANGED <<sha, evidence>> => Complete
  <2>1. JobStep \/ HostStep \/ GitStep => UNCHANGED <<sha, evidence>>
    BY JobFrame, HostFrame, GitFrame DEF runVars, rowVars
  <2>2. RowStep /\ ~Complete => UNCHANGED <<sha, evidence>>
    BY DEF RowStep, Reserve, RecordPreparation, Attend, SettleCancelled, Cancel, RowOnly, runVars
  <2>3. UNCHANGED vars => UNCHANGED <<sha, evidence>>
    BY DEF vars, runVars, rowVars
  <2> QED
    BY <2>1, <2>2, <2>3, NextSteps
<1> QED
  BY <1>1, <1>2, <1>3

-----------------------------------------------------------------------------
(* The job and its row.                                                    *)

(* The Run's SHA and the merge onto it hold nothing of a person's.         *)
LEMMA NothingPersonal ==
  ASSUME TypeInv, RowInv, ShaInv
  PROVE  /\ ~Personal(sha)
         /\ \A t \in Tasks : Held(t) /\ ref[t] # None => ~Personal(ref[t])
<1>1. ~Personal(sha)
  BY TasksAssumption DEF Personal, ShaInv, TypeInv
<1>2. ASSUME NEW t \in Tasks, Held(t), ref[t] # None PROVE ~Personal(ref[t])
  <2>1. ref[t] = sha \/ ref[t] = Append(sha, t)
    BY <1>2 DEF RowInv, Merged
  <2>2. sha \in Seq(Tasks \cup {Person}) /\ t # Person
    BY TasksAssumption DEF TypeInv, Commits
  <2> QED
    BY <1>1, <2>1, <2>2, AppendPlaces DEF Personal
<1> QED
  BY <1>1, <1>2

(* A result is in its receipt once, unless it changes nothing.             *)
LEMMA ReceiptHasResult ==
  ASSUME TypeInv, RowInv, ShaInv
  PROVE  \A t \in Tasks \ Empty :
           Held(t) /\ t \notin evidence /\ ref[t] # None => Once(t, ref[t])
<1> SUFFICES ASSUME NEW t \in Tasks \ Empty, Held(t), t \notin evidence, ref[t] # None
             PROVE  Once(t, ref[t])
  OBVIOUS
<1>1. ref[t] = Append(sha, t)
  BY DEF RowInv, Merged
<1>2. \A i \in DOMAIN sha : sha[i] # t
  BY DEF ShaInv
<1> QED
  BY <1>1, <1>2, OnceAppended DEF TypeInv

LEMMA JobInvStep ==
  ASSUME TypeInv, RowInv, JobInv, ShaInv, [Next]_vars
  PROVE  JobInv'
<1> USE DEF Pcs, Reading, Working, Answered, Applying, Locked
<1>1. CASE JobStep
  <2>1. UNCHANGED <<sha, state, expected, recorded, ref, head, reflock>>
    BY <1>1, JobFrame DEF runVars, rowVars, gitVars
  <2>2. CASE ReserveFails \/ \E t \in Tasks : Reconcile(t) \/ StartIntegrate(t) \/ StartRetry(t)
    BY <2>1, <2>2, FinishFields, BeginFields DEF JobInv, ReserveFails, Reconcile, StartIntegrate, StartRetry
  <2>3. CASE Resume
    BY <2>1, <2>3, FinishFields, GotoFields DEF TypeInv, Jobs, JobInv, Resume, Goto, At
  <2>4. CASE PrepareReplays \/ PrepareConflicts \/ Inspect
    BY <2>1, <2>4, GotoFields DEF TypeInv, Jobs, JobInv, PrepareReplays, PrepareConflicts, Inspect, At
  <2>5. CASE PrepareFails \/ RecordRefused \/ ApplyFails \/ Failed \/ InspectFails
    BY <2>1, <2>5, GotoFields DEF TypeInv, Jobs, JobInv, PrepareFails, RecordRefused, ApplyFails,
       Failed, InspectFails, Goto, At
  <2>6. CASE Recheck
    BY <2>1, <2>6, GotoFields DEF TypeInv, Jobs, JobInv, Recheck, Goto, At
  <2> QED
    BY <1>1, <2>2, <2>3, <2>4, <2>5, <2>6 DEF JobStep
<1>2. CASE HostStep
  BY <1>2, HostFrame DEF JobInv, rowVars, gitVars, Once, Personal
<1>3. CASE RowStep
  <2>1. UNCHANGED <<ref, head, reflock>>
    BY <1>3, RowFrame DEF gitVars
  <2>2. CASE Reserve
    BY <2>1, <2>2, GotoFields DEF TypeInv, Jobs, JobInv, Reserve, Goto, At
  <2>3. CASE RecordPreparation
    BY <2>1, <2>3, GotoFields, FinishFields DEF TypeInv, Jobs, JobInv, Open, RecordPreparation, Goto, At
  <2>4. CASE Complete
    BY <2>1, <2>4, GotoFields, FinishFields DEF TypeInv, Jobs, JobInv, Complete, Goto, At
  <2>5. CASE Attend
    BY <2>1, <2>5, FinishFields DEF JobInv, Attend
  <2>6. CASE SettleCancelled
    BY <2>1, <2>6, GotoFields, FinishFields DEF TypeInv, Jobs, JobInv, SettleCancelled, Goto, At
  <2>7. CASE Cancel
    BY <2>1, <2>7 DEF TypeInv, Jobs, JobInv, Open, Cancel, Once, Personal
  <2> QED
    BY <1>3, <2>2, <2>3, <2>4, <2>5, <2>6, <2>7 DEF RowStep
<1>4. CASE GitStep
  <2>1. UNCHANGED <<sha, state, expected, recorded, evidence>>
    BY <1>4, GitFrame DEF runVars, rowVars
  <2>2. CASE Prepare
    <3> DEFINE t == job.task
               m == IF t \in Empty THEN head ELSE Append(head, t)
    <3>1. t \in Tasks /\ state[t] \in Open /\ m \in Commits
      BY <2>2, AppendCommit DEF TypeInv, JobInv, Prepare, At
    <3>2. ref' = [ref EXCEPT ![t] = m] /\ GotoWith("record", m)
      BY <2>2 DEF Prepare
    <3> HIDE DEF m
    <3>3. job'.pc = "record" /\ job'.task = t /\ job'.seen = m
      BY <3>1, <3>2, GotoFields
    <3> QED
      BY <2>1, <3>1, <3>2, <3>3 DEF TypeInv, JobInv
  <2>3. CASE ApplyBegins
    BY <2>1, <2>3, GotoFields DEF TypeInv, Jobs, JobInv, ApplyBegins, Goto, At
  <2>4. CASE Checkout \/ CheckoutFails \/ MoveFails
    BY <2>1, <2>4, GotoFields DEF TypeInv, Jobs, JobInv, Checkout, CheckoutFails, MoveFails, Goto, At
  <2>5. CASE MoveBranch
    <3> DEFINE t == job.task
    <3>1. t \in Tasks /\ Held(t) /\ t \notin evidence /\ ref[t] # None /\ recorded[t] # None
      BY <2>5 DEF TypeInv, RowInv, JobInv, MoveBranch, At, Held, Open
    <3>2. t \notin Empty => Once(t, ref[t])
      BY <3>1, ReceiptHasResult
    <3>3. job'.pc = "complete" /\ job'.task = t /\ head' = ref[t] /\ UNCHANGED ref
      BY <2>5, GotoFields DEF TypeInv, Jobs, MoveBranch, Goto
    <3> QED
      BY <2>1, <2>5, <3>1, <3>2, <3>3 DEF JobInv, MoveBranch, At, Once
  <2>6. CASE PersonEdits
    BY <2>1, <2>6 DEF JobInv, PersonEdits, Once, Personal
  <2>7. CASE PersonCommits
    <3>1. Personal(head') /\ (job.task \in Tasks /\ Once(job.task, head) => Once(job.task, head'))
      BY <2>7, PersonalAppended, OnceAppended, TasksAssumption DEF TypeInv, PersonCommits
    <3> QED
      BY <2>1, <2>7, <3>1 DEF TypeInv, JobInv, PersonCommits, Once, Personal
  <2>8. CASE PersonRestores
    BY <2>8 DEF JobInv, PersonRestores, At
  <2>9. CASE Crash
    BY <2>9, FinishFields DEF JobInv, Crash
  <2> QED
    BY <1>4, <2>2, <2>3, <2>4, <2>5, <2>6, <2>7, <2>8, <2>9 DEF GitStep
<1>5. CASE UNCHANGED vars
  BY <1>5 DEF JobInv, vars, runVars, rowVars, gitVars, Once, Personal
<1> QED
  BY <1>1, <1>2, <1>3, <1>4, <1>5, NextSteps

-----------------------------------------------------------------------------
(* The branch.                                                             *)

(* The explanation of the branch speaks of these variables only.           *)
LEMMA BranchFrame ==
  BranchIsExplained /\ UNCHANGED <<sha, state, expected, recorded, evidence, ref, head>>
    => BranchIsExplained'
  BY DEF BranchIsExplained, HeadIsExplained, EvidenceIsInBranch

LEMMA BranchStep ==
  ASSUME TypeInv, RowInv, JobInv, ShaInv, BranchIsExplained, [Next]_vars
  PROVE  BranchIsExplained'
<1> USE DEF Pcs, Reading, Working, Answered, Applying, Locked
<1>1. CASE JobStep \/ HostStep \/ UNCHANGED vars
  BY <1>1, JobFrame, HostFrame, BranchFrame DEF vars, runVars, rowVars, gitVars
<1>2. CASE RowStep
  <2>1. UNCHANGED <<ref, head>>
    BY <1>2, RowFrame DEF gitVars
  <2>2. CASE UNCHANGED <<sha, evidence>>
    <3>1. EvidenceIsInBranch'
      BY <2>1, <2>2 DEF BranchIsExplained, EvidenceIsInBranch
    <3>2. ASSUME NEW t \in Tasks, head = recorded[t], recorded[t] = ref[t], expected[t] = sha, Held(t)
          PROVE  recorded'[t] = recorded[t] /\ expected'[t] = sha /\ (Held(t))'
      <4>1. recorded[t] # None
        BY <3>2, NoneAssumption DEF TypeInv
      <4>2. CASE Reserve
        BY <3>2, <4>2 DEF TypeInv, Held, Open, Reserve, At
      <4>3. CASE RecordPreparation
        BY <3>2, <4>1, <4>3 DEF TypeInv, RowInv, JobInv, Held, Open, RecordPreparation, At
      <4>4. CASE Complete
        BY <2>2, <3>2, <4>4 DEF TypeInv, RowInv, Held, Complete, At
      <4>5. CASE Attend
        BY <3>2, <4>5 DEF TypeInv, Held, Open, Attend, At
      <4>6. CASE SettleCancelled
        BY <3>2, <4>1, <4>6 DEF TypeInv, RowInv, JobInv, Held, Open, SettleCancelled, At
      <4>7. CASE Cancel
        BY <3>2, <4>7 DEF TypeInv, Held, Open, Cancel
      <4> QED
        BY <1>2, <4>2, <4>3, <4>4, <4>5, <4>6, <4>7 DEF RowStep
    <3>3. HeadIsExplained'
      BY <2>1, <2>2, <3>2 DEF BranchIsExplained, HeadIsExplained, Held
    <3> QED
      BY <3>1, <3>3 DEF BranchIsExplained
  <2>3. CASE Complete /\ ~UNCHANGED <<sha, evidence>>
    <3> DEFINE t == job.task
    <3>1. /\ t \in Tasks /\ recorded[t] = ref[t] /\ evidence' = evidence \cup {t}
          /\ sha' = recorded[t] /\ job.pc = "complete"
      BY <2>3 DEF Complete, At, TypeInv
    <3>2. head' = sha' \/ Personal(head')
      BY <2>1, <3>1 DEF JobInv, Personal
    <3>3. t \notin Empty => Once(t, head)
      BY <3>1 DEF JobInv
    <3> QED
      BY <2>1, <3>1, <3>2, <3>3 DEF BranchIsExplained, HeadIsExplained, EvidenceIsInBranch, Once, Personal
  <2>4. ~UNCHANGED <<sha, evidence>> => Complete
    BY <1>2 DEF RowStep, Reserve, RecordPreparation, Attend, SettleCancelled, Cancel, RowOnly, runVars
  <2> QED
    BY <2>2, <2>3, <2>4
<1>3. CASE GitStep
  <2>1. UNCHANGED <<sha, state, expected, recorded, evidence>>
    BY <1>3, GitFrame DEF runVars, rowVars
  <2>2. CASE Prepare
    <3>1. head \in Commits /\ UNCHANGED head /\ ref[job.task] = None /\ job.task \in Tasks
          /\ \A u \in Tasks \ {job.task} : ref'[u] = ref[u]
      BY <2>2 DEF TypeInv, Prepare, At
    <3> QED
      BY <2>1, <3>1, NoneAssumption DEF BranchIsExplained, HeadIsExplained, EvidenceIsInBranch
  <2>3. CASE MoveBranch
    <3> DEFINE t == job.task
    <3>1. /\ t \in Tasks /\ state[t] \in Open /\ recorded[t] = ref[t] /\ ref[t] # None
          /\ expected[t] = sha /\ head' = ref[t] /\ UNCHANGED ref /\ t \notin evidence
      BY <2>3 DEF TypeInv, RowInv, JobInv, MoveBranch, At, Held, Open
    <3>2. HeadIsExplained'
      BY <2>1, <3>1 DEF HeadIsExplained
    <3>3. ref[t] = sha \/ ref[t] = Append(sha, t)
      BY <3>1 DEF RowInv, Merged
    <3>4. ASSUME NEW u \in evidence \ Empty PROVE Once(u, head')
      <4>1. Once(u, sha) /\ u # t /\ sha \in Commits /\ t \in Tasks \cup {Person}
        BY <3>1, <3>4 DEF ShaInv, TypeInv
      <4>2. Once(u, Append(sha, t))
        BY <4>1, OnceAppended
      <4> QED
        BY <3>1, <3>3, <4>1, <4>2
    <3> QED
      BY <2>1, <3>2, <3>4 DEF BranchIsExplained, EvidenceIsInBranch, Once
  <2>4. CASE PersonCommits
    <3>1. Personal(head') /\ \A u \in evidence : Once(u, head) => Once(u, head')
      BY <2>4, PersonalAppended, OnceAppended, TasksAssumption DEF TypeInv, PersonCommits
    <3> QED
      BY <2>1, <3>1 DEF BranchIsExplained, HeadIsExplained, EvidenceIsInBranch, Once, Personal
  <2>5. CASE PersonRestores
    BY <2>1, <2>5 DEF PersonRestores, ShaInv, BranchIsExplained, HeadIsExplained, EvidenceIsInBranch, Once
  <2>6. CASE ApplyBegins \/ Checkout \/ CheckoutFails \/ MoveFails \/ PersonEdits \/ Crash
    BY <2>1, <2>6, BranchFrame DEF ApplyBegins, Checkout, CheckoutFails, MoveFails, PersonEdits, Crash
  <2> QED
    BY <1>3, <2>2, <2>3, <2>4, <2>5, <2>6 DEF GitStep
<1> QED
  BY <1>1, <1>2, <1>3, NextSteps

-----------------------------------------------------------------------------
(* The results.                                                            *)

LEMMA InvInit == Init => IInv
<1> SUFFICES ASSUME Init PROVE IInv
  OBVIOUS
<1>1. RowInv
  BY DEF Init, RowInv, Held, Open
<1>2. ShaInv /\ BranchIsExplained
  BY DEF Init, ShaInv, BranchIsExplained, HeadIsExplained, EvidenceIsInBranch
<1>3. JobInv
  BY DEF Init, JobInv, Working, Answered, Applying, Locked
<1> QED
  BY <1>1, <1>2, <1>3, TypeInit DEF IInv

(* The invariant holds of every behaviour, whoever edits and crashes.      *)
LEMMA Invariance == Spec => []IInv
<1>1. IInv /\ [Next]_vars => IInv'
  BY TypeStep, RowInvStep, ShaInvStep, JobInvStep, BranchStep DEF IInv
<1> QED
  BY <1>1, InvInit, PTL DEF Spec

(* Every commit on the integration branch is explained by a row or a       *)
(* person, and every piece of evidence is a result in the branch.          *)
THEOREM BranchAndRowsAgree == Spec => []BranchIsExplained
<1>1. IInv => BranchIsExplained
  BY DEF IInv
<1> QED
  BY <1>1, Invariance, PTL

(* The host takes no commit of a person's off the branch and checks        *)
(* nothing out over the tree of one.                                       *)
THEOREM PersonsWorkIsKept == Spec => PersonalWorkIsPreserved
<1> DEFINE Kept == edits' = edits /\ (\E i \in DOMAIN head : head[i] = Person)
                     => head' = head /\ tree' = tree
<1>1. ASSUME IInv, [Next]_vars PROVE Kept
  <2> USE DEF Pcs, Reading, Working, Answered, Applying, Locked
  <2>1. CASE JobStep \/ HostStep \/ RowStep \/ UNCHANGED vars
    BY <2>1, JobFrame, HostFrame, RowFrame DEF vars, gitVars, treeVars
  <2>2. CASE MoveBranch \/ Checkout
    <3>1. job.task \in Tasks /\ Held(job.task) /\ ref[job.task] # None /\ head \in {sha, ref[job.task]}
      BY <1>1, <2>2 DEF IInv, TypeInv, RowInv, JobInv, MoveBranch, Checkout, At, Held, Open
    <3>2. ~Personal(head)
      BY <1>1, <3>1, NothingPersonal DEF IInv
    <3> QED
      BY <3>2 DEF Personal
  <2>3. CASE Prepare \/ ApplyBegins \/ CheckoutFails \/ MoveFails \/ Crash
    BY <2>3 DEF Prepare, ApplyBegins, CheckoutFails, MoveFails, Crash, treeVars
  <2>4. CASE PersonEdits \/ PersonCommits \/ PersonRestores
    BY <1>1, <2>4 DEF PersonEdits, PersonCommits, PersonRestores, Edit, IInv, TypeInv
  <2> QED
    BY <1>1, <2>1, <2>2, <2>3, <2>4, NextSteps DEF GitStep
<1> QED
  BY <1>1, Invariance, PTL DEF Spec, PersonalWorkIsPreserved

-----------------------------------------------------------------------------
(* The refinement.                                                         *)

LEMMA PhaseValues ==
  /\ Phase("none") = "none" /\ Phase("integrated") = "integrated"
  /\ Phase("conflict") = "refused" /\ Phase("cancelled") = "refused"
  /\ \A st \in Open : Phase(st) = "open"
  BY DEF Phase, Open

(* When one row changes, one phase does.                                   *)
LEMMA PhaseChange ==
  ASSUME TypeInv
  PROVE  \A t \in Tasks, st \in States :
           state' = [state EXCEPT ![t] = st] => Phases' = [Phases EXCEPT ![t] = Phase(st)]
  BY DEF TypeInv, Phases

(* What the contract sees.                                                 *)
Seen == <<sha, Phases, (status = "cancelled")>>

(* Every step is a step of the contract or leaves what it sees alone.      *)
LEMMA ContractStep ==
  ASSUME IInv, [Next]_vars
  PROVE  Contract!Next \/ UNCHANGED Seen
<1> USE DEF IInv, Pcs, Reading, Working, Answered, Applying
<1>1. CASE UNCHANGED <<sha, state, status>>
  BY <1>1 DEF Seen, Phases
<1>2. CASE JobStep \/ GitStep \/ UNCHANGED vars
  BY <1>1, <1>2, JobFrame, GitFrame DEF vars, runVars, rowVars
<1>3. CASE HostStep
  <2>1. UNCHANGED <<sha, state>> /\ (status' = "cancelled" <=> status = "cancelled")
    BY <1>3, HostFrame DEF HostStep, Toggle, Start, RecoveryFinished, WorkerCompletes, runVars, rowVars
  <2> QED
    BY <2>1 DEF Seen, Phases
<1>4. CASE Reserve
  <2> DEFINE t == job.task
  <2>1. t \in Tasks /\ UNCHANGED <<sha, status>>
    BY <1>4 DEF Reserve, RowOnly, runVars, At, TypeInv
  <2>2. CASE state[t] # "none"
    BY <1>1, <1>4, <2>1, <2>2 DEF Reserve
  <2>3. CASE state[t] = "none"
    <3>1. /\ status # "cancelled" /\ \A u \in Tasks : state[u] \notin Open
          /\ state' = [state EXCEPT ![t] = "pending"]
      BY <1>4, <2>3 DEF Reserve
    <3>2. Phases[t] = "none" /\ \A u \in Tasks : Phases[u] # "open"
      BY <2>1, <2>3, <3>1, PhaseValues DEF Phases, TypeInv, States
    <3>3. Phases' = [Phases EXCEPT ![t] = "open"]
      <4>1. "pending" \in States /\ Phase("pending") = "open"
        BY PhaseValues DEF States, Open
      <4>2. Phases' = [Phases EXCEPT ![t] = Phase("pending")]
        BY <2>1, <3>1, <4>1, PhaseChange
      <4> QED
        BY <4>1, <4>2
    <3>4. Contract!Open(t)
      BY <2>1, <3>1, <3>2, <3>3 DEF Contract!Open
    <3> QED
      BY <2>1, <3>4 DEF Contract!Next
  <2> QED
    BY <2>2, <2>3
<1>5. CASE Complete
  <2> DEFINE t == job.task
  <2>1. t \in Tasks /\ UNCHANGED status
    BY <1>5 DEF Complete, At, TypeInv
  <2>2. CASE recorded[t] = ref[t] /\ state[t] = "prepared" /\ RequireCurrent(t)
    <3>1. /\ status # "cancelled" /\ sha' = Merged(t) /\ expected[t] = sha
          /\ state' = [state EXCEPT ![t] = "integrated"]
      BY <1>5, <2>1, <2>2 DEF Complete, RequireCurrent, RowInv
    <3>2. sha' \in {sha, Append(sha, t)}
      BY <3>1 DEF Merged
    <3>3. Phases[t] = "open" /\ Phases' = [Phases EXCEPT ![t] = "integrated"]
      <4>1. "integrated" \in States /\ Phase("integrated") = "integrated"
        BY PhaseValues DEF States, Open
      <4>2. Phases' = [Phases EXCEPT ![t] = Phase("integrated")]
        BY <2>1, <3>1, <4>1, PhaseChange
      <4>3. Phases[t] = "open"
        BY <2>1, <2>2, PhaseValues DEF Open, Phases
      <4> QED
        BY <4>1, <4>2, <4>3
    <3>4. Contract!Integrate(t)
      BY <2>1, <3>1, <3>2, <3>3 DEF Contract!Integrate
    <3> QED
      BY <2>1, <3>4 DEF Contract!Next
  <2>3. CASE ~(recorded[t] = ref[t] /\ state[t] = "prepared" /\ RequireCurrent(t))
    BY <1>1, <1>5, <2>1, <2>3 DEF Complete
  <2> QED
    BY <2>2, <2>3
<1>6. CASE RecordPreparation \/ Attend \/ SettleCancelled
  <2> DEFINE t == job.task
  <2>1. /\ t \in Tasks /\ UNCHANGED <<sha, status>> /\ state[t] \in Open
        /\ \E st \in Open \cup {"conflict", "cancelled"} : state' = [state EXCEPT ![t] = st]
    BY <1>6 DEF RecordPreparation, Attend, SettleCancelled, At, RowOnly, runVars, TypeInv, JobInv,
       States, Open
  <2>2. PICK st \in Open \cup {"conflict", "cancelled"} : state' = [state EXCEPT ![t] = st]
    BY <2>1
  <2>3. Phases[t] = "open" /\ Phases \in [Tasks -> {Phases[u] : u \in Tasks}]
    BY <2>1, PhaseValues DEF Phases
  <2>4. Phases' = [Phases EXCEPT ![t] = Phase(st)]
    BY <2>1, <2>2, PhaseChange DEF States
  <2>5. CASE st \in Open
    <3>1. Phases' = Phases
      BY <2>3, <2>4, <2>5, PhaseValues
    <3> QED
      BY <2>1, <3>1 DEF Seen
  <2>6. CASE st \in {"conflict", "cancelled"}
    <3>1. Contract!Refuse(t)
      BY <2>1, <2>3, <2>4, <2>6, PhaseValues DEF Contract!Refuse
    <3> QED
      BY <2>1, <3>1 DEF Contract!Next
  <2> QED
    BY <2>2, <2>5, <2>6
<1>7. CASE Cancel
  <2>1. \A t \in Tasks : Phase(state'[t]) = Phase(state[t])
    BY <1>7, PhaseValues DEF Cancel, Open, TypeInv
  <2>2. UNCHANGED <<sha, Phases>> /\ status' = "cancelled"
    BY <1>7, <2>1 DEF Cancel, Phases
  <2>3. CASE status = "cancelled"
    BY <2>2, <2>3 DEF Seen
  <2>4. CASE status # "cancelled"
    BY <2>2, <2>4 DEF Contract!Next, Contract!Cancel
  <2> QED
    BY <2>3, <2>4
<1> QED
  BY <1>2, <1>3, <1>4, <1>5, <1>6, <1>7, NextSteps DEF RowStep

(* The detailed integration, with its receipts, crashes, replays and       *)
(* people, implements the serial log of IntegrationContract.               *)
THEOREM IntegrationRefinesContract == Spec => ImplementsContract
<1>1. Init => Contract!Init
  BY PhaseValues DEF Init, Contract!Init, Phases
<1>2. IInv /\ [Next]_vars => [Contract!Next]_(Contract!vars)
  BY ContractStep DEF Seen, Contract!vars
<1> QED
  BY <1>1, <1>2, Invariance, PTL DEF Spec, ImplementsContract, Contract!Spec
=============================================================================
