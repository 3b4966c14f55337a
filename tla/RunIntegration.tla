---------------------------- MODULE RunIntegration ----------------------------
(***************************************************************************)
(* How a completed task's result reaches the integration branch of a Run   *)
(* (managed_workspace/run/integration.rs, git/run_integration.rs with its  *)
(* receipt and checkout, run_integration_store.rs).  Git and SQLite commit *)
(* separately, and a person may touch the checkout at any time: a receipt  *)
(* reference in Git bridges the two, and every step checks again what it   *)
(* is about to build on.  RunScheduler sees all of this as one step.       *)
(*                                                                         *)
(* A commit is the sequence of what was squashed onto the frozen source    *)
(* commit <<>>: results of tasks, and a person's own commits.  All jobs of *)
(* a Run hold the file lock of the integration workspace, so one job is in *)
(* flight at a time; a lane that finds the lock busy changes nothing here. *)
(***************************************************************************)
EXTENDS Integers, Sequences

CONSTANTS
  Tasks,         \* the tasks of the accepted plan
  Empty,         \* the tasks whose result changes no file
  Person,        \* stands for a commit made by a person
  None,          \* no receipt, no task
  MaxEdits,      \* bound: what a person does to the checkout
  MaxCommands,   \* bound: control commands
  MaxCrashes     \* bound: host crashes

ASSUME TasksAssumption == Person \notin Tasks /\ None \notin Tasks /\ Empty \subseteq Tasks
Commits == Seq(Tasks \cup {Person})
ASSUME NoneAssumption == None \notin Commits
ASSUME BoundAssumption == MaxEdits \in Nat /\ MaxCommands \in Nat /\ MaxCrashes \in Nat

VARIABLES
  status,     \* orchestrationCoordinatorRuns.status
  sha,        \* .integration_sha
  done,       \* tasks whose worker completed
  state,      \* runIntegrations.state of the task ("cancelled": cancelled=1)
  expected,   \* request.expected_sha of the row
  recorded,   \* the row's receipt: the prepared commit
  evidence,   \* tasks with a runTaskEvidence row
  ref,        \* Git: the commit that refs/alera/run-integrations/<id> names
  head,       \* Git: the integration branch
  tree,       \* Git: the commit whose tree is in index and worktree ...
  mixed,      \* ... unless a checkout was left half way ...
  edited,     \* ... or a person has changes of their own
  reflock,    \* Git: the branch's lock file exists
  job,        \* the job that holds the integration workspace's lock
  host, crashes, commands, edits

rowVars  == <<state, expected, recorded, evidence>>
runVars  == <<status, sha, done>>
treeVars == <<tree, mixed, edited>>
gitVars  == <<ref, head, treeVars, reflock>>
envVars  == <<host, crashes, commands, edits>>
vars == <<runVars, rowVars, gitVars, job, envVars>>

(* A row is open, or it is "integrated", "conflict" or "cancelled"; "none" *)
(* is a task without a row.                                                *)
Open == {"pending", "prepared", "attention"}

Init ==
  /\ status = "running" /\ sha = <<>> /\ done = {}
  /\ state = [t \in Tasks |-> "none"]
  /\ expected = [t \in Tasks |-> <<>>]
  /\ recorded = [t \in Tasks |-> None]
  /\ evidence = {}
  /\ ref = [t \in Tasks |-> None]
  /\ head = <<>> /\ tree = <<>> /\ mixed = FALSE /\ edited = FALSE /\ reflock = FALSE
  /\ job = [pc |-> "idle", task |-> None, seen |-> None]
  /\ host = "ready" /\ crashes = 0 /\ commands = 0 /\ edits = 0

-----------------------------------------------------------------------------
(* `seen' is what an inspection or a preparation answered.                 *)
At(pc) == job.pc = pc
GotoWith(pc, c) == job' = [job EXCEPT !.pc = pc, !.seen = c]
Goto(pc) == GotoWith(pc, job.seen)
Finish == job' = [pc |-> "idle", task |-> None, seen |-> None]
Begin(t, pc) == At("idle") /\ job' = [pc |-> pc, task |-> t, seen |-> None]

Clean == ~mixed /\ ~edited
Matches(c) == Clean /\ tree = c

(* require_current: the run, its integration SHA and the result are what   *)
(* the reservation captured.                                               *)
RequireCurrent(t) == status \in {"running", "paused"} /\ t \in done /\ expected[t] = sha

JobOnly == UNCHANGED <<runVars, rowVars, gitVars, envVars>>
RowOnly == UNCHANGED <<runVars, gitVars, envVars>>
GitOnly == UNCHANGED <<runVars, rowVars, envVars>>

-----------------------------------------------------------------------------
(* The lanes that start a job.                                             *)

(* The scheduler pass: nothing needs attention, the result is not in.      *)
StartIntegrate(t) ==
  /\ host = "ready" /\ status = "running"
  /\ t \in done /\ t \notin evidence /\ state[t] \in {"none", "pending", "prepared"}
  /\ \A u \in Tasks : state[u] \notin {"conflict", "attention"}
  /\ Begin(t, "reserve")
  /\ JobOnly

(* runs.retryIntegration.                                                  *)
StartRetry(t) ==
  /\ host \in {"recovering", "ready"} /\ status = "paused" /\ state[t] = "attention"
  /\ Begin(t, "resume")
  /\ JobOnly

(* Mutant of Reconcile: prepared rows are overlooked.                      *)
ReconcilePending(t) ==
  /\ state[t] = "pending"
  /\ host = "recovering" \/ (host = "ready" /\ status = "cancelled")
  /\ Begin(t, "resume")
  /\ JobOnly

(* reconcile on startup, and reconcile_cancelled beside the cancellation   *)
(* driver.                                                                 *)
Reconcile(t) ==
  /\ state[t] \in {"pending", "prepared"}
  /\ host = "recovering" \/ (host = "ready" /\ status = "cancelled")
  /\ Begin(t, "resume")
  /\ JobOnly

-----------------------------------------------------------------------------
(* The job.                                                                *)

(* reserve_workflow_integration.  The index runUnsettledIntegration admits *)
(* one open row per run, a cancelled one included.                         *)
Reserve ==
  /\ At("reserve")
  /\ LET t == job.task IN
       IF state[t] # "none"
       THEN Goto("resume") /\ UNCHANGED <<state, expected>>
       ELSE /\ t \notin evidence /\ status \in {"running", "paused"}
            /\ \A u \in Tasks : state[u] \notin Open \cup {"cancelled"}
            /\ state' = [state EXCEPT ![t] = "pending"]
            /\ expected' = [expected EXCEPT ![t] = sha]
            /\ Goto("resume")
  /\ RowOnly
  /\ UNCHANGED <<recorded, evidence>>

ReserveFails ==
  /\ At("reserve") /\ state[job.task] = "none"
  /\ \/ job.task \in evidence
     \/ status = "cancelled"
     \/ \E u \in Tasks : state[u] \in Open \cup {"cancelled"}
  /\ Finish
  /\ JobOnly

(* resume reads the row under the lock; a settled one is the answer.       *)
Resume ==
  /\ At("resume")
  /\ LET t == job.task IN
       IF state[t] \notin Open THEN Finish
       ELSE IF status = "cancelled" THEN Goto("inspect")
       ELSE IF RequireCurrent(t) THEN Goto("prepare")
       ELSE Goto("failed")
  /\ JobOnly

(* prepare_workflow_integration with an existing receipt: nothing is       *)
(* merged again.                                                           *)
PrepareReplays ==
  /\ At("prepare") /\ ref[job.task] # None
  /\ GotoWith("record", ref[job.task])
  /\ JobOnly

(* The merge happens in memory, and the receipt reference keeps its result *)
(* before the branch or the checkout is touched.                           *)
Prepare ==
  /\ At("prepare") /\ ref[job.task] = None
  /\ head = expected[job.task] /\ Matches(head)
  /\ LET t == job.task
         merged == IF t \in Empty THEN head ELSE Append(head, t)
     IN  /\ ref' = [ref EXCEPT ![t] = merged]
         /\ GotoWith("record", merged)
  /\ GitOnly
  /\ UNCHANGED <<head, treeVars, reflock>>

(* A merge conflict, or a refusal that is proven before anything is        *)
(* applied, is recorded as `conflict'.                                     *)
PrepareConflicts ==
  /\ At("prepare") /\ ref[job.task] = None
  /\ head = expected[job.task] /\ Matches(head)
  /\ GotoWith("record", None)
  /\ JobOnly

PrepareFails == At("prepare") /\ Goto("failed") /\ JobOnly

(* Mutant of RecordPreparation: the receipt is not stored.                 *)
RecordStateOnly ==
  /\ At("record") /\ job.seen # None /\ RequireCurrent(job.task)
  /\ state' = [state EXCEPT ![job.task] = "prepared"]
  /\ Goto("recheck")
  /\ RowOnly
  /\ UNCHANGED <<expected, recorded, evidence>>

(* record_workflow_integration_preparation.                                *)
RecordPreparation ==
  /\ At("record")
  /\ LET t == job.task IN
       IF state[t] \in {"integrated", "cancelled"}
       THEN UNCHANGED <<state, recorded>> /\ Goto("recheck")
       ELSE /\ RequireCurrent(t)
            /\ IF job.seen = None
               THEN /\ recorded[t] = None
                    /\ state' = [state EXCEPT ![t] = "conflict"]
                    /\ UNCHANGED recorded
                    /\ Finish
               ELSE /\ recorded[t] \in {None, job.seen}
                    /\ state' = [state EXCEPT ![t] = "prepared"]
                    /\ recorded' = [recorded EXCEPT ![t] = job.seen]
                    /\ Goto("recheck")
  /\ RowOnly
  /\ UNCHANGED <<expected, evidence>>

RecordRefused ==
  /\ At("record") /\ state[job.task] \in Open
  /\ \/ ~RequireCurrent(job.task)
     \/ recorded[job.task] \notin {None, job.seen}
  /\ Goto("failed")
  /\ JobOnly

(* require_workflow_integration_current, once more before Git is changed.  *)
Recheck ==
  /\ At("recheck")
  /\ IF state[job.task] \in Open /\ RequireCurrent(job.task)
     THEN Goto("apply")
     ELSE Goto("failed")
  /\ JobOnly

(* Mutant of ApplyBegins: the head is not compared.                        *)
ApplyBeginsAnywhere ==
  /\ At("apply") /\ ~reflock /\ ref[job.task] # None
  /\ reflock' = TRUE
  /\ IF Matches(ref[job.task])
     THEN Goto("move") /\ UNCHANGED mixed
     ELSE Goto("checkout") /\ mixed' = TRUE
  /\ GitOnly
  /\ UNCHANGED <<ref, head, tree, edited>>

(* checkout::apply locks the branch, accepts only the reserved or the      *)
(* prepared commit as head, and checks the tree out unless an earlier job  *)
(* did.                                                                    *)
ApplyBegins ==
  /\ At("apply") /\ ~reflock /\ ref[job.task] # None
  /\ head \in {expected[job.task], ref[job.task]}
  /\ reflock' = TRUE
  /\ IF Matches(ref[job.task])
     THEN Goto("move") /\ UNCHANGED mixed
     ELSE /\ head = expected[job.task] /\ Matches(head)
          /\ Goto("checkout") /\ mixed' = TRUE
  /\ GitOnly
  /\ UNCHANGED <<ref, head, tree, edited>>

ApplyFails == At("apply") /\ Goto("failed") /\ JobOnly

(* checkout_tree; the result is compared before the branch moves.          *)
Checkout ==
  /\ At("checkout")
  /\ tree' = ref[job.task] /\ mixed' = FALSE
  /\ IF edited THEN Goto("failed") /\ reflock' = FALSE
               ELSE Goto("move") /\ UNCHANGED reflock
  /\ GitOnly
  /\ UNCHANGED <<ref, head, edited>>

(* A safe checkout that refuses leaves the tree alone; an I/O error leaves *)
(* it half way.                                                            *)
CheckoutFails ==
  /\ At("checkout")
  /\ mixed' \in BOOLEAN
  /\ reflock' = FALSE
  /\ Goto("failed")
  /\ GitOnly
  /\ UNCHANGED <<ref, head, tree, edited>>

MoveBranch ==
  /\ At("move")
  /\ head' = ref[job.task]
  /\ reflock' = FALSE
  /\ Goto("complete")
  /\ GitOnly
  /\ UNCHANGED <<ref, treeVars>>

MoveFails ==
  /\ At("move")
  /\ reflock' = FALSE
  /\ Goto("failed")
  /\ GitOnly
  /\ UNCHANGED <<ref, head, treeVars>>

(* Mutant of Complete: the run is not checked again.                       *)
CompleteStale ==
  /\ At("complete")
  /\ evidence' = evidence \cup {job.task}
  /\ sha' = recorded[job.task]
  /\ state' = [state EXCEPT ![job.task] = "integrated"]
  /\ Finish
  /\ UNCHANGED <<status, done, expected, recorded, gitVars, envVars>>

(* complete_workflow_integration: evidence, the new integration SHA and    *)
(* the row's state in one transaction.                                     *)
Complete ==
  /\ At("complete")
  /\ LET t == job.task IN
       IF recorded[t] = ref[t] /\ state[t] = "prepared" /\ RequireCurrent(t)
       THEN /\ evidence' = evidence \cup {t}
            /\ sha' = recorded[t]
            /\ state' = [state EXCEPT ![t] = "integrated"]
            /\ Finish
       ELSE /\ IF recorded[t] = ref[t] /\ state[t] \in {"integrated", "cancelled"}
               THEN Finish ELSE Goto("failed")
            /\ UNCHANGED <<evidence, sha, state>>
  /\ UNCHANGED <<status, done, expected, recorded, gitVars, envVars>>

(* The error path of resume: a run that was cancelled meanwhile is         *)
(* inspected; otherwise the row is put in Attention, by a later statement. *)
Failed ==
  /\ At("failed")
  /\ IF status = "cancelled" THEN Goto("inspect") ELSE Goto("attend")
  /\ JobOnly

Attend ==
  /\ At("attend")
  /\ state' = [state EXCEPT ![job.task] = IF @ \in Open THEN "attention" ELSE @]
  /\ Finish
  /\ RowOnly
  /\ UNCHANGED <<expected, recorded, evidence>>

(* inspect_cancelled_workflow_integration: a clean checkout at the         *)
(* reserved or at the receipted commit, and nothing is prepared or applied.*)
Inspect ==
  /\ At("inspect") /\ Clean /\ tree = head
  /\ head \in {expected[job.task], ref[job.task]}
  /\ GotoWith("settle", ref[job.task])
  /\ JobOnly

InspectFails == At("inspect") /\ Goto("attend") /\ JobOnly

(* settle_cancelled_workflow_integration.                                  *)
SettleCancelled ==
  /\ At("settle")
  /\ LET t == job.task IN
       IF /\ state[t] \in Open /\ status = "cancelled"
          /\ recorded[t] \in {None, job.seen}
       THEN /\ state' = [state EXCEPT ![t] = "cancelled"]
            /\ recorded' = [recorded EXCEPT ![t] = job.seen]
            /\ Finish
       ELSE /\ IF state[t] = "cancelled" THEN Finish ELSE Goto("attend")
            /\ UNCHANGED <<state, recorded>>
  /\ RowOnly
  /\ UNCHANGED <<expected, evidence>>

-----------------------------------------------------------------------------
(* Around the job.                                                         *)

(* A worker's result is accepted (RunWorker).                              *)
WorkerCompletes(t) ==
  /\ host = "ready" /\ status \in {"running", "paused"} /\ t \notin done
  /\ done' = done \cup {t}
  /\ UNCHANGED <<status, sha, rowVars, gitVars, job, envVars>>

Command == host \in {"recovering", "ready"} /\ commands < MaxCommands /\ commands' = commands + 1

(* Pause and resume, by a person or by a pass that needs attention.        *)
Toggle ==
  /\ Command /\ status \in {"running", "paused"}
  /\ status' = IF status = "running" THEN "paused" ELSE "running"
  /\ UNCHANGED <<sha, done, rowVars, gitVars, job, host, crashes, edits>>

(* run_cancellation::cancel gives every row in Attention one more look.    *)
Cancel ==
  /\ Command
  /\ status = "cancelled" => \E t \in Tasks : state[t] = "attention"
  /\ status' = "cancelled"
  /\ state' = [t \in Tasks |-> IF state[t] # "attention" THEN state[t]
                               ELSE IF recorded[t] = None THEN "pending" ELSE "prepared"]
  /\ UNCHANGED <<sha, done, expected, recorded, evidence, gitVars, job, host, crashes, edits>>

Edit == edits < MaxEdits /\ edits' = edits + 1

(* A person works in the integration checkout ...                          *)
PersonEdits ==
  /\ Edit /\ ~edited
  /\ edited' = TRUE
  /\ UNCHANGED <<runVars, rowVars, ref, head, tree, mixed, reflock, job, host, crashes, commands>>

(* ... commits there, which the branch's lock excludes ...                 *)
PersonCommits ==
  /\ Edit /\ ~reflock
  /\ head' = Append(head, Person)
  /\ tree' = head' /\ mixed' = FALSE /\ edited' = FALSE
  /\ UNCHANGED <<runVars, rowVars, ref, reflock, job, host, crashes, commands>>

(* ... or puts the checkout back where the Run expects it.                 *)
PersonRestores ==
  /\ At("idle") /\ ~(head = sha /\ Matches(sha) /\ ~reflock)
  /\ Edit
  /\ head' = sha /\ tree' = sha
  /\ mixed' = FALSE /\ edited' = FALSE /\ reflock' = FALSE
  /\ UNCHANGED <<runVars, rowVars, ref, job, host, crashes, commands>>

(* The host dies: the file lock goes with it, the branch's lock file may   *)
(* stay behind.                                                            *)
Crash ==
  /\ host # "down" /\ crashes < MaxCrashes
  /\ host' = "down" /\ crashes' = crashes + 1
  /\ Finish
  /\ reflock' \in {FALSE, reflock}
  /\ UNCHANGED <<runVars, rowVars, ref, head, treeVars, commands, edits>>

Start ==
  /\ host = "down" /\ host' = "recovering"
  /\ UNCHANGED <<runVars, rowVars, gitVars, job, crashes, commands, edits>>

RecoveryFinished ==
  /\ host = "recovering" /\ At("idle")
  /\ \A t \in Tasks : state[t] \notin {"pending", "prepared"}
  /\ host' = "ready"
  /\ UNCHANGED <<runVars, rowVars, gitVars, job, crashes, commands, edits>>

-----------------------------------------------------------------------------
Step == \/ Reserve \/ ReserveFails \/ Resume
        \/ PrepareReplays \/ Prepare \/ PrepareConflicts \/ PrepareFails
        \/ RecordPreparation \/ RecordRefused \/ Recheck
        \/ ApplyBegins \/ ApplyFails \/ Checkout \/ CheckoutFails \/ MoveBranch \/ MoveFails
        \/ Complete \/ Failed \/ Attend \/ Inspect \/ InspectFails \/ SettleCancelled

Reconciliation == \E t \in Tasks : Reconcile(t)
Pass == \E t \in Tasks : StartIntegrate(t)

Around == \/ \E t \in Tasks : StartRetry(t) \/ WorkerCompletes(t)
          \/ Toggle \/ Cancel \/ PersonEdits \/ PersonCommits \/ PersonRestores \/ Crash

Boot == Start \/ RecoveryFinished

Next == Step \/ Reconciliation \/ Pass \/ Around \/ Boot

Spec == Init /\ [][Next]_vars

(* A job that holds the lock runs on, and the host's own lanes are taken:  *)
(* recovery, the pass of a running Run, the cancellation driver.           *)
FairSpec == /\ Spec /\ WF_vars(Step) /\ WF_vars(Reconciliation) /\ WF_vars(Pass)
            /\ WF_vars(Boot)

-----------------------------------------------------------------------------
(* The branch is where the database says, or at the recorded receipt of    *)
(* the one open or cancelled integration of that base, or a person put     *)
(* commits on top of either: the host leaves no commit that no row explains*)
HeadIsExplained ==
  \/ head = sha
  \/ \E t \in Tasks : /\ head = recorded[t] /\ recorded[t] = ref[t] /\ expected[t] = sha
                      /\ state[t] \in Open \cup {"cancelled"}
  \/ \E i \in DOMAIN head : head[i] = Person

(* Evidence that lets dependents start is true of the branch: the result   *)
(* is in it, exactly once, whatever crashed, was retried or was edited.    *)
EvidenceIsInBranch ==
  \A t \in evidence \ Empty : \E i \in DOMAIN head :
     head[i] = t /\ \A j \in DOMAIN head : head[j] = t => j = i

(* Rows and branch agree in both directions: no commit without a row that  *)
(* explains it and no evidence without its commit.                         *)
BranchIsExplained == HeadIsExplained /\ EvidenceIsInBranch

(* What a person committed is never overwritten by the host: only the      *)
(* person takes a commit of theirs off the branch, and nothing is checked  *)
(* out over the tree of one, however late the check before it was made.    *)
PersonalWorkIsPreserved ==
  [][edits' = edits /\ (\E i \in DOMAIN head : head[i] = Person)
       => head' = head /\ tree' = tree]_vars

(* The phase of an integration that the contract sees for the state of its *)
(* row.                                                                    *)
Phase(st) == CASE st = "none" -> "none"
               [] st \in Open -> "open"
               [] st = "integrated" -> "integrated"
               [] OTHER -> "refused"
Phases == [t \in Tasks |-> Phase(state[t])]

(* The detailed integration implements the serial log the scheduler and    *)
(* the dependents rely on (IntegrationContract).                           *)
Contract == INSTANCE IntegrationContract WITH
  log <- sha, phase <- Phases, cancelled <- (status = "cancelled")
ImplementsContract == Contract!Spec

(* Every reserved integration is settled or handed to a person.            *)
IntegrationSettles ==
  \A t \in Tasks : state[t] \in {"pending", "prepared"}
                     ~> state[t] \notin {"pending", "prepared"}
=============================================================================
