---------------------------- MODULE SharedRunProofs ----------------------------
(***************************************************************************)
(* Proofs about SharedRun, for every set of tasks, dependency relation,    *)
(* set of terminals, stall policy, limit and bound.                        *)
(*                                                                         *)
(* A step is first reduced to what it does to each task (Move): whatever   *)
(* the tick, the sweep, a worker or a person does, a task changes in one   *)
(* of fourteen ways.  What concerns one task alone then follows from its   *)
(* move; what relates two tasks (dependencies, terminals, the limit) is    *)
(* proved from the few actions that change it.                             *)
(***************************************************************************)
EXTENDS SharedRun, SequenceTheorems, FiniteSetTheorems, TLAPS

Statuses == {"none", "pending", "ready", "dispatched", "blocked", "stalled"} \cup Final
Closed == {"completed", "failed", "startup_failed", "cancelled"}
Dispatch == [h : Terms, st : Active \cup Closed]
Gate == [kind : {"decision", "stall"}, st : {"pending", "resolved", "timeout", "invalidated"},
         answer : Decisions \cup {"none", "answer", "resumed"}, about : Nat]
Pcs == {"idle", "messages", "schedule", "dispatch", "converge", "leases", "policy",
        "decisions", "cancel"}

(* The task tables.                                                        *)
TaskType ==
  /\ conf \in Configs
  /\ status \in [Tasks -> Statuses]
  /\ startups \in [Tasks -> Nat] /\ fails \in [Tasks -> Nat]
  /\ disp \in [Tasks -> Seq(Dispatch)]
  /\ \A t \in Tasks : Len(disp[t]) <= MaxDispatches
  /\ gates \in [Tasks -> Seq(Gate)]
  /\ silences \in [Tasks -> Nat]

(* The run, the terminals and the command in progress.                     *)
HostType ==
  /\ run \in {"running", "paused"} \cup Final /\ sequence \in Nat /\ loop \in BOOLEAN
  /\ inbox \subseteq [kind : {"escalation", "gate"}, job : Tasks \X Nat]
  /\ term \in [Terms -> {"gone", "idle", "busy"}] /\ work \in [Terms -> {NoJob} \cup (Tasks \X Nat)]
  /\ actor = [pc |-> actor.pc, todo |-> actor.todo, slots |-> actor.slots, free |-> actor.free]
  /\ actor.pc \in Pcs /\ actor.slots \in Nat /\ actor.free \subseteq Terms
  /\ commands \in Nat /\ exits \in Nat /\ crashes \in Nat

(* A task has one open dispatch at most, and its status says which.        *)
DispatchInv(t) ==
  /\ \A i, k \in ActiveAt(t) : i = k
  /\ \A i \in ActiveAt(t) : status[t] = IF disp[t][i].st = "stalled" THEN "stalled" ELSE "dispatched"

(* A task that has not been offered has no gates, a decision is pending    *)
(* only for a task that it blocks or that is settled, one at a time, and   *)
(* an answer is given once.                                                *)
GateInv(t) ==
  /\ status[t] \in {"none", "pending"} => gates[t] = <<>>
  /\ \A i \in DOMAIN gates[t] : gates[t][i].st = "pending" => gates[t][i].answer = "none"
  /\ \A i \in DOMAIN gates[t] : gates[t][i].st = "pending" /\ gates[t][i].kind = "decision" =>
       /\ status[t] \in {"blocked"} \cup Final
       /\ \A k \in DOMAIN gates[t] : gates[t][k].st = "pending" /\ gates[t][k].kind = "decision" => i = k

(* A terminal has one open dispatch at most.                               *)
TerminalInv ==
  \A t, u \in Tasks : \A i \in ActiveAt(t), k \in ActiveAt(u) :
    disp[t][i].h = disp[u][k].h => t = u /\ i = k

(* Dependencies are delegated first; work starts when they have completed; *)
(* a task waits only while they may still complete.                        *)
DepsInv ==
  \A t \in Tasks :
    /\ status[t] # "none" => \A d \in Deps[t] : status[d] # "none"
    /\ status[t] \in {"ready", "dispatched", "blocked", "stalled", "completed"} =>
         \A d \in Deps[t] : status[d] = "completed"
    /\ status[t] = "pending" => /\ \A d \in Deps[t] : status[d] \notin {"failed", "cancelled"}
                                /\ \E d \in Deps[t] : status[d] # "completed"

(* A stall is put to a person by the policy step of the sweep that saw it. *)
Put(t) == \E i \in DOMAIN gates[t] : \/ gates[t][i].st = "pending"
                                     \/ gates[t][i].kind = "stall" /\ gates[t][i].answer \in Decisions
AskInv(t) ==
  (StallPolicy = "ask" /\ crashes = 0 /\ status[t] = "stalled" /\ HasActive(t)) =>
    (actor.pc = "policy" /\ t \in actor.todo) \/ Put(t)

(* What the command in progress remembers.                                 *)
Running == {t \in Tasks : status[t] = "dispatched"}
ActorInv ==
  /\ actor.pc = "dispatch" => actor.todo \subseteq Tasks /\ Cardinality(Running) + actor.slots <= MaxConcurrent
  /\ actor.pc = "policy" => actor.todo \subseteq Tasks
  /\ actor.pc = "decisions" =>
       \A g \in actor.todo : /\ g \in Tasks \X Nat /\ g[2] \in DOMAIN gates[g[1]]
                             /\ gates[g[1]][g[2]].answer \in Decisions

TaskInv(t) == DispatchInv(t) /\ GateInv(t)
IInv ==
  /\ TaskType /\ HostType
  /\ \A t \in Tasks : TaskInv(t) /\ AskInv(t)
  /\ DispatchedHasWorker /\ BlockedHasItsGate
  /\ TerminalInv /\ DepsInv /\ ActorInv

-----------------------------------------------------------------------------
(* Sequences and tables.                                                   *)

LEMMA ConfFacts ==
  ASSUME conf \in Configs
  PROVE  /\ IsFiniteSet(Tasks)
         /\ \A t \in Tasks : Deps[t] \subseteq Tasks
         /\ StallPolicy \in {"ask", "auto-failover", "wait"}
         /\ MaxConcurrent \in Nat \ {0} /\ MaxDispatches \in Nat
  BY ConfigAssumption DEF Tasks, Deps, StallPolicy, MaxConcurrent, MaxDispatches, Bounds

(* A sequence is rewritten place by place.                                 *)
LEMMA Rewritten ==
  ASSUME NEW S, NEW T, NEW s \in Seq(S), NEW f,
         f = [i \in DOMAIN s |-> f[i]], \A i \in DOMAIN s : f[i] \in T
  PROVE  f \in Seq(T) /\ Len(f) = Len(s) /\ DOMAIN f = DOMAIN s
<1>1. Len(s) \in Nat /\ DOMAIN s = 1..Len(s)
  BY LenProperties
<1>2. f \in [1..Len(s) -> T]
  BY <1>1
<1>3. f \in Seq(T)
  BY <1>1, <1>2, IsASeq
<1>4. Len(f) \in Nat /\ DOMAIN f = 1..Len(f)
  BY <1>3, LenProperties
<1> QED
  BY <1>1, <1>2, <1>3, <1>4

LEMMA Unwritten ==
  ASSUME NEW S, NEW s \in Seq(S)
  PROVE  s = [i \in DOMAIN s |-> s[i]]
  BY LenProperties

(* A dispatch or a gate is added.                                          *)
LEMMA Added ==
  ASSUME NEW S, NEW s \in Seq(S), NEW e \in S
  PROVE  /\ Append(s, e) \in Seq(S) /\ Len(Append(s, e)) = Len(s) + 1 /\ Len(s) \in Nat
         /\ DOMAIN Append(s, e) = DOMAIN s \cup {Len(s) + 1} /\ Len(s) + 1 \notin DOMAIN s
         /\ Append(s, e)[Len(s) + 1] = e
         /\ \A i \in DOMAIN s : Append(s, e)[i] = s[i]
<1>1. Len(s) \in Nat /\ DOMAIN s = 1..Len(s)
  BY LenProperties
<1> QED
  BY <1>1, AppendProperties

(* The dispatches that a terminal holds.                                   *)
LEMMA Jobs ==
  ASSUME TaskType
  PROVE  \A h : \A j : j \in JobsOf(h) <=>
           /\ j = <<j[1], j[2]>> /\ j[1] \in Tasks /\ j[2] \in ActiveAt(j[1])
           /\ disp[j[1]][j[2]].h = h
<1>1. \A t \in Tasks : \A i \in ActiveAt(t) : i \in 1..MaxDispatches
  <2> SUFFICES ASSUME NEW t \in Tasks, NEW i \in ActiveAt(t) PROVE i \in 1..MaxDispatches
    OBVIOUS
  <2>1. disp[t] \in Seq(Dispatch) /\ Len(disp[t]) <= MaxDispatches /\ i \in DOMAIN disp[t]
    BY DEF TaskType, ActiveAt
  <2>2. Len(disp[t]) \in Nat /\ DOMAIN disp[t] = 1..Len(disp[t])
    BY <2>1, LenProperties
  <2> QED
    BY <2>1, <2>2, ConfFacts DEF TaskType
<1> QED
  BY <1>1 DEF JobsOf

-----------------------------------------------------------------------------
(* What the transactions of the store write.                               *)

LEMMA RowTypes ==
  ASSUME TaskType, NEW t \in Tasks
  PROVE  /\ disp[t] \in Seq(Dispatch) /\ gates[t] \in Seq(Gate)
         /\ \A i \in DOMAIN disp[t] : disp[t][i] \in Dispatch
         /\ \A i \in DOMAIN gates[t] : gates[t][i] \in Gate
<1>1. disp[t] \in Seq(Dispatch) /\ gates[t] \in Seq(Gate)
  BY DEF TaskType
<1> QED
  BY <1>1, LenProperties, ElementOfSeq

LEMMA CloseAllFacts ==
  ASSUME TaskType, NEW S, NEW st \in Closed
  PROVE  /\ CloseAll(S, st) \in [Tasks -> Seq(Dispatch)]
         /\ \A u \in Tasks :
              /\ Len(CloseAll(S, st)[u]) = Len(disp[u]) /\ DOMAIN CloseAll(S, st)[u] = DOMAIN disp[u]
              /\ u \notin S => CloseAll(S, st)[u] = disp[u]
              /\ \A i \in DOMAIN disp[u] :
                   /\ CloseAll(S, st)[u][i].h = disp[u][i].h
                   /\ CloseAll(S, st)[u][i].st = IF u \in S /\ disp[u][i].st \in Active THEN st
                                                                                       ELSE disp[u][i].st
<1> DEFINE c == CloseAll(S, st)
<1>1. c = [u \in Tasks |-> c[u]]
  BY DEF CloseAll
<1>2. ASSUME NEW u \in Tasks
      PROVE  /\ c[u] = [i \in DOMAIN disp[u] |-> c[u][i]]
             /\ \A i \in DOMAIN disp[u] :
                  /\ c[u][i] \in Dispatch /\ c[u][i].h = disp[u][i].h
                  /\ c[u][i].st = IF u \in S /\ disp[u][i].st \in Active THEN st ELSE disp[u][i].st
                  /\ u \notin S => c[u][i] = disp[u][i]
  BY RowTypes DEF CloseAll, Dispatch
<1> HIDE DEF c
<1>3. ASSUME NEW u \in Tasks
      PROVE  /\ c[u] \in Seq(Dispatch) /\ Len(c[u]) = Len(disp[u]) /\ DOMAIN c[u] = DOMAIN disp[u]
             /\ u \notin S => c[u] = disp[u]
  <2>1. disp[u] \in Seq(Dispatch)
    BY RowTypes
  <2>2. c[u] \in Seq(Dispatch) /\ Len(c[u]) = Len(disp[u]) /\ DOMAIN c[u] = DOMAIN disp[u]
    BY <1>2, <2>1, Rewritten
  <2>3. disp[u] = [i \in DOMAIN disp[u] |-> disp[u][i]]
    BY <2>1, Unwritten
  <2> QED
    BY <1>2, <2>2, <2>3
<1>4. c \in [Tasks -> Seq(Dispatch)]
  BY <1>1, <1>3
<1> QED
  BY <1>2, <1>3, <1>4 DEF c

LEMMA SetDispatchFacts ==
  ASSUME TaskType, NEW j, j[1] \in Tasks, j[2] \in DOMAIN disp[j[1]], NEW st \in Active \cup Closed,
         SetDispatch(j, st)
  PROVE  /\ disp' \in [Tasks -> Seq(Dispatch)]
         /\ \A u \in Tasks :
              /\ Len(disp'[u]) = Len(disp[u]) /\ DOMAIN disp'[u] = DOMAIN disp[u]
              /\ u # j[1] => disp'[u] = disp[u]
              /\ \A k \in DOMAIN disp[u] :
                   /\ disp'[u][k].h = disp[u][k].h
                   /\ disp'[u][k].st = IF u = j[1] /\ k = j[2] THEN st ELSE disp[u][k].st
<1> DEFINE t == j[1]  i == j[2]
<1>1. disp \in [Tasks -> Seq(Dispatch)] /\ disp[t] \in Seq(Dispatch)
      /\ \A k \in DOMAIN disp[t] : disp[t][k] \in Dispatch
  BY RowTypes DEF TaskType
<1> DEFINE s == [disp[t] EXCEPT ![i].st = st]
<1>2. disp' = [disp EXCEPT ![t] = s]
  BY DEF SetDispatch
<1>3. /\ s = [k \in DOMAIN disp[t] |-> s[k]]
      /\ \A k \in DOMAIN disp[t] :
           s[k] \in Dispatch /\ s[k].h = disp[t][k].h /\ s[k].st = IF k = i THEN st ELSE disp[t][k].st
  BY <1>1 DEF Dispatch
<1> HIDE DEF s
<1>4. s \in Seq(Dispatch) /\ Len(s) = Len(disp[t]) /\ DOMAIN s = DOMAIN disp[t]
  BY ZenonT(30), <1>1, <1>3, Rewritten
<1>5. disp' \in [Tasks -> Seq(Dispatch)]
  BY <1>1, <1>2, <1>4
<1>6. disp'[t] = s /\ \A u \in Tasks : u # t => disp'[u] = disp[u]
  BY <1>1, <1>2
<1> QED
  BY <1>3, <1>4, <1>5, <1>6

LEMMA NewDispatchFacts ==
  ASSUME TaskType, NEW t \in Tasks, NEW h \in Terms, NEW st \in Active \cup Closed,
         disp' = [disp EXCEPT ![t] = Append(@, [h |-> h, st |-> st])], Len(disp[t]) < MaxDispatches
  PROVE  /\ disp' \in [Tasks -> Seq(Dispatch)]
         /\ disp'[t] = Append(disp[t], [h |-> h, st |-> st])
         /\ \A u \in Tasks : Len(disp'[u]) <= MaxDispatches /\ (u # t => disp'[u] = disp[u])
<1>1. disp \in [Tasks -> Seq(Dispatch)] /\ disp[t] \in Seq(Dispatch) /\ [h |-> h, st |-> st] \in Dispatch
  BY DEF TaskType, Dispatch
<1>2. /\ Append(disp[t], [h |-> h, st |-> st]) \in Seq(Dispatch) /\ Len(disp[t]) \in Nat
      /\ Len(Append(disp[t], [h |-> h, st |-> st])) = Len(disp[t]) + 1
  BY <1>1, Added
<1>3. MaxDispatches \in Nat /\ \A u \in Tasks : Len(disp[u]) <= MaxDispatches
  BY ConfFacts DEF TaskType
<1> QED
  BY <1>1, <1>2, <1>3

(* Gates are rewritten place by place, too.                                *)
LEMMA GatesRewritten ==
  ASSUME TaskType, NEW g, g = [u \in Tasks |-> g[u]],
         \A u \in Tasks : g[u] = [i \in DOMAIN gates[u] |-> g[u][i]],
         \A u \in Tasks : \A i \in DOMAIN gates[u] : g[u][i] \in Gate
  PROVE  /\ g \in [Tasks -> Seq(Gate)]
         /\ \A u \in Tasks : /\ DOMAIN g[u] = DOMAIN gates[u]
                             /\ (\A i \in DOMAIN gates[u] : g[u][i] = gates[u][i]) => g[u] = gates[u]
<1>1. ASSUME NEW u \in Tasks
      PROVE  g[u] \in Seq(Gate) /\ DOMAIN g[u] = DOMAIN gates[u]
  BY RowTypes, Rewritten
<1>2. ASSUME NEW u \in Tasks, \A i \in DOMAIN gates[u] : g[u][i] = gates[u][i]
      PROVE  g[u] = gates[u]
  <2>1. gates[u] = [i \in DOMAIN gates[u] |-> gates[u][i]]
    BY RowTypes, Unwritten
  <2> QED
    BY <1>2, <2>1
<1> QED
  BY <1>1, <1>2

LEMMA NewGateFacts ==
  ASSUME TaskType, NEW t \in Tasks, NEW kind \in {"decision", "stall"},
         gates' = [gates EXCEPT ![t] = Append(@, NewGate(kind, t))]
  PROVE  /\ gates' \in [Tasks -> Seq(Gate)] /\ NewGate(kind, t) \in Gate
         /\ gates'[t] = Append(gates[t], NewGate(kind, t))
         /\ \A u \in Tasks : u # t => gates'[u] = gates[u]
<1>1. gates \in [Tasks -> Seq(Gate)] /\ gates[t] \in Seq(Gate) /\ NewGate(kind, t) \in Gate
  BY DEF TaskType, Gate, NewGate
<1>2. Append(gates[t], NewGate(kind, t)) \in Seq(Gate)
  BY <1>1, Added
<1> QED
  BY <1>1, <1>2

-----------------------------------------------------------------------------
(* What a step may do to one task: first to its dispatches and its gates.  *)

Closes(u) ==
  /\ DOMAIN disp'[u] = DOMAIN disp[u]
  /\ \A i \in DOMAIN disp[u] : disp'[u][i].h = disp[u][i].h /\ disp'[u][i].st \notin Active

Relabels(u, from, to) ==
  /\ DOMAIN disp'[u] = DOMAIN disp[u]
  /\ \A i \in DOMAIN disp[u] : /\ disp'[u][i].h = disp[u][i].h
                               /\ disp'[u][i].st = IF disp[u][i].st = from THEN to ELSE disp[u][i].st

Expires(u) ==
  /\ DOMAIN gates'[u] = DOMAIN gates[u]
  /\ \A i \in DOMAIN gates[u] :
       /\ gates'[u][i].kind = gates[u][i].kind /\ gates'[u][i].answer = gates[u][i].answer
       /\ gates'[u][i].st # "pending"

Resumes(u) ==
  /\ DOMAIN gates'[u] = DOMAIN gates[u]
  /\ \A i \in DOMAIN gates[u] :
       /\ gates'[u][i].kind = gates[u][i].kind
       /\ IF gates[u][i].kind = "stall" /\ gates[u][i].st = "pending"
          THEN gates'[u][i].st = "resolved" /\ gates'[u][i].answer = "resumed"
          ELSE gates'[u][i].st = gates[u][i].st /\ gates'[u][i].answer = gates[u][i].answer

Answers(u, i, a) ==
  /\ DOMAIN gates'[u] = DOMAIN gates[u] /\ i \in DOMAIN gates[u] /\ gates[u][i].st = "pending"
  /\ a \in IF gates[u][i].kind = "stall" THEN Decisions ELSE {"answer"}
  /\ \A k \in DOMAIN gates[u] :
       /\ gates'[u][k].kind = gates[u][k].kind
       /\ gates'[u][k].st = IF k = i THEN "resolved" ELSE gates[u][k].st
       /\ gates'[u][k].answer = IF k = i THEN a ELSE gates[u][k].answer

SameGates(u) == gates'[u] = gates[u]
SameDisp(u) == disp'[u] = disp[u]
From(u, S, to) == status[u] \in S /\ status'[u] \in to

(* Then to the statuses of all tasks, when one of them is settled.         *)
Settles(t, st) == status[t] \in {"dispatched", "stalled"} /\ status' = Settled(t, st)

Begun == {"pending", "ready", "dispatched", "blocked", "stalled"}

(* Who is cancelled with the tasks of S.                                   *)
Doomed(S) == S \cup UNION {Reached(t, {u \in Tasks : status[u] \in {"pending", "ready", "blocked", "stalled"}}) :
                             t \in S}

Cancels(S) ==
  /\ \A t \in S : status[t] \in Begun
  /\ status' = [t \in Tasks |-> IF t \in Doomed(S) THEN "cancelled" ELSE status[t]]
CancelsAll == status' = [t \in Tasks |-> IF status[t] \in Begun THEN "cancelled" ELSE status[t]]

(* The moves of a task, named for what happens to it.                      *)
Stays(u) == status'[u] = status[u] /\ SameDisp(u) /\ SameGates(u)
Enters(u) ==
  /\ From(u, {"none"}, {"pending", "ready", "failed", "cancelled"}) /\ SameDisp(u) /\ SameGates(u)
  /\ status' = [status EXCEPT ![u] = StatusForDeps(u)] /\ \A d \in Deps[u] : status[d] # "none"
EndsWait(u) ==
  /\ From(u, {"pending"}, {"ready", "failed"}) /\ SameDisp(u) /\ SameGates(u)
  /\ \E t \in Tasks, st \in {"completed", "failed"} : Settles(t, st)
IsHanded(u) ==
  /\ From(u, {"ready"}, {"dispatched"}) /\ SameGates(u)
  /\ \E h \in Terms : JobsOf(h) = {} /\ disp'[u] = Append(disp[u], [h |-> h, st |-> "awaiting"])
  /\ \A v \in Tasks \ {u} : SameDisp(v)
FailsToStart(u) ==
  /\ From(u, {"ready"}, {"ready", "stalled"}) /\ SameGates(u)
  /\ \E h \in Terms : disp'[u] = Append(disp[u], [h |-> h, st |-> "startup_failed"])
IsAccepted(u) == status'[u] = status[u] /\ Relabels(u, "awaiting", "dispatched") /\ SameGates(u)
IsRevived(u) ==
  /\ From(u, {"stalled"}, {"dispatched"}) /\ Relabels(u, "stalled", "dispatched")
  /\ \/ HasActive(u) /\ Resumes(u)
     \/ SameGates(u) /\ \E i \in DOMAIN gates[u] : gates[u][i].answer = "keepWaiting"
FallsSilent(u) ==
  /\ From(u, {"dispatched"}, {"stalled"}) /\ Relabels(u, "dispatched", "stalled") /\ SameGates(u)
  /\ HasActive(u) /\ (\A i \in ActiveAt(u) : disp[u][i].st = "dispatched")
  /\ actor'.pc = "policy" /\ u \in actor'.todo
IsReleased(u) ==
  /\ From(u, {"dispatched", "stalled"}, {"ready", "stalled", "completed", "failed"})
  /\ Closes(u) /\ (SameGates(u) \/ Resumes(u))
  /\ status'[u] \in {"completed", "failed"} => Settles(u, status'[u])
IsBlocked(u) ==
  /\ From(u, {"ready", "dispatched"}, {"blocked"}) /\ Closes(u)
  /\ \/ gates'[u] = Append(gates[u], NewGate("decision", u))
     \/ SameGates(u) /\ \E i \in DOMAIN gates[u] : gates[u][i].st = "pending"
IsCancelled(u) ==
  /\ From(u, Begun, {"cancelled"}) /\ Closes(u) /\ Expires(u)
  /\ CancelsAll \/ \E S \in SUBSET Tasks : Cancels(S)
IsInvalidated(u) == status[u] \in Final /\ status'[u] = status[u] /\ SameDisp(u) /\ Expires(u)
IsPutToPerson(u) ==
  From(u, {"stalled"}, {"stalled"}) /\ SameDisp(u) /\ gates'[u] = Append(gates[u], NewGate("stall", u))
IsAnswered(u) ==
  \E i \in DOMAIN gates[u], a \in Decisions \cup {"answer"} :
    /\ Answers(u, i, a) /\ SameDisp(u)
    /\ status'[u] = IF gates[u][i].kind = "decision" /\ status[u] = "blocked" THEN "ready" ELSE status[u]

Move(u) ==
  \/ Stays(u) \/ Enters(u) \/ EndsWait(u) \/ IsHanded(u) \/ FailsToStart(u) \/ IsAccepted(u)
  \/ IsRevived(u) \/ FallsSilent(u) \/ IsReleased(u) \/ IsBlocked(u) \/ IsCancelled(u)
  \/ IsInvalidated(u) \/ IsPutToPerson(u) \/ IsAnswered(u)

-----------------------------------------------------------------------------
(* What concerns one task follows from its move.                           *)

(* A sequence of dispatches or gates that has grown by one.                *)
LEMMA GrownDispatches ==
  ASSUME TaskType, NEW u \in Tasks, NEW h \in Terms, NEW st \in Active \cup Closed,
         disp'[u] = Append(disp[u], [h |-> h, st |-> st])
  PROVE  \E n : /\ n \notin DOMAIN disp[u] /\ DOMAIN disp'[u] = DOMAIN disp[u] \cup {n}
                /\ disp'[u][n].st = st /\ disp'[u][n].h = h
                /\ \A i \in DOMAIN disp[u] : disp'[u][i] = disp[u][i]
<1>1. disp[u] \in Seq(Dispatch) /\ [h |-> h, st |-> st] \in Dispatch
  BY RowTypes DEF Dispatch
<1> QED
  BY <1>1, Added

LEMMA GrownGates ==
  ASSUME TaskType, NEW u \in Tasks, NEW kind \in {"decision", "stall"},
         gates'[u] = Append(gates[u], NewGate(kind, u))
  PROVE  \E n : /\ n \notin DOMAIN gates[u] /\ DOMAIN gates'[u] = DOMAIN gates[u] \cup {n}
                /\ gates'[u][n].st = "pending" /\ gates'[u][n].kind = kind
                /\ gates'[u][n].answer = "none"
                /\ \A i \in DOMAIN gates[u] : gates'[u][i] = gates[u][i]
<1>1. gates[u] \in Seq(Gate) /\ NewGate(kind, u) \in Gate
  BY RowTypes DEF TaskType, Gate, NewGate
<1> QED
  BY <1>1, Added DEF NewGate

LEMMA DispatchMove ==
  ASSUME TaskType, NEW u \in Tasks, DispatchInv(u), Move(u)
  PROVE  DispatchInv(u)'
<1> USE DEF DispatchInv, ActiveAt, Active, From
<1>1. CASE Stays(u) \/ Enters(u) \/ EndsWait(u) \/ IsInvalidated(u) \/ IsPutToPerson(u) \/ IsAnswered(u)
  <2>1. SameDisp(u) /\ (HasActive(u) => status'[u] = status[u])
    BY <1>1 DEF Stays, Enters, EndsWait, IsInvalidated, IsPutToPerson, IsAnswered, HasActive
  <2> QED
    BY <2>1 DEF SameDisp, HasActive
<1>2. CASE IsHanded(u)
  BY <1>2, GrownDispatches DEF IsHanded
<1>3. CASE FailsToStart(u)
  <2>1. PICK h \in Terms : disp'[u] = Append(disp[u], [h |-> h, st |-> "startup_failed"])
    BY <1>3 DEF FailsToStart
  <2>2. "startup_failed" \in Closed /\ "startup_failed" \notin Active
    BY DEF Closed
  <2> QED
    BY <1>3, <2>1, <2>2, GrownDispatches DEF FailsToStart
<1>4. CASE IsAccepted(u)
  BY <1>4 DEF IsAccepted, Relabels
<1>5. CASE IsRevived(u)
  BY <1>5 DEF IsRevived, Relabels
<1>6. CASE FallsSilent(u)
  BY <1>6 DEF FallsSilent, Relabels
<1>7. CASE IsReleased(u) \/ IsBlocked(u) \/ IsCancelled(u)
  BY <1>7 DEF IsReleased, IsBlocked, IsCancelled, Closes
<1> QED
  BY <1>1, <1>2, <1>3, <1>4, <1>5, <1>6, <1>7 DEF Move

LEMMA GateMove ==
  ASSUME TaskType, NEW u \in Tasks, GateInv(u), Move(u)
  PROVE  GateInv(u)'
<1> USE DEF GateInv, From, Final, Begun
<1>1. CASE Stays(u) \/ Enters(u) \/ EndsWait(u) \/ IsHanded(u) \/ FailsToStart(u) \/ IsAccepted(u)
           \/ FallsSilent(u)
  <2>1. /\ SameGates(u)
        /\ status'[u] = status[u] \/ status[u] \notin {"blocked"} \cup Final
        /\ status'[u] \in {"none", "pending"} => status[u] \in {"none", "pending"}
    BY <1>1 DEF Stays, Enters, EndsWait, IsHanded, FailsToStart, IsAccepted, FallsSilent
  <2> QED
    BY <2>1 DEF SameGates
<1>2. CASE IsRevived(u) \/ IsReleased(u)
  <2>1. /\ SameGates(u) \/ Resumes(u)
        /\ status[u] \notin {"blocked"} \cup Final /\ status'[u] \notin {"none", "pending"}
    BY <1>2 DEF IsRevived, IsReleased
  <2> QED
    BY <2>1 DEF SameGates, Resumes
<1>3. CASE IsBlocked(u)
  <2>1. CASE SameGates(u)
    BY <1>3, <2>1 DEF IsBlocked, SameGates
  <2>2. CASE gates'[u] = Append(gates[u], NewGate("decision", u))
    BY <1>3, <2>2, GrownGates DEF IsBlocked
  <2> QED
    BY <1>3, <2>1, <2>2 DEF IsBlocked
<1>4. CASE IsCancelled(u)
  BY <1>4 DEF IsCancelled, Expires
<1>5. CASE IsInvalidated(u)
  BY <1>5 DEF IsInvalidated, Expires
<1>6. CASE IsPutToPerson(u)
  BY <1>6, GrownGates DEF IsPutToPerson
<1>7. CASE IsAnswered(u)
  <2>1. PICK i \in DOMAIN gates[u], a \in Decisions \cup {"answer"} :
          /\ Answers(u, i, a)
          /\ status'[u] = IF gates[u][i].kind = "decision" /\ status[u] = "blocked" THEN "ready" ELSE status[u]
    BY <1>7 DEF IsAnswered
  <2>2. gates[u] # <<>> /\ status[u] \notin {"none", "pending"}
    BY DEF GateInv
  <2>3. gates[u][i].kind \in {"decision", "stall"}
    BY RowTypes DEF Gate
  <2> QED
    BY <2>1, <2>2, <2>3 DEF Answers
<1> QED
  BY <1>1, <1>2, <1>3, <1>4, <1>5, <1>6, <1>7 DEF Move

Worked(u) == status[u] = "dispatched" =>
               HasActive(u) \/ \E i \in DOMAIN gates[u] : gates[u][i].answer = "keepWaiting"
Gated(u) == status[u] = "blocked" =>
              \E i \in DOMAIN gates[u] : gates[u][i].st = "pending" \/ gates[u][i].kind = "stall"

LEMMA WorkerMove ==
  ASSUME TaskType, NEW u \in Tasks, TaskInv(u), Worked(u), Move(u)
  PROVE  Worked(u)'
<1> USE DEF Worked, HasActive, ActiveAt, Active, From
<1>1. CASE status'[u] # "dispatched"
  BY <1>1
<1>2. CASE Stays(u)
  BY <1>2 DEF Stays, SameGates, SameDisp
<1>3. CASE IsHanded(u)
  BY <1>3, GrownDispatches DEF IsHanded
<1>4. CASE IsAccepted(u)
  BY <1>4 DEF IsAccepted, Relabels, SameGates
<1>5. CASE IsRevived(u)
  BY <1>5 DEF IsRevived, Relabels, SameGates
<1>6. CASE IsAnswered(u)
  BY <1>6 DEF IsAnswered, Answers, SameDisp, TaskInv, GateInv
<1>7. status'[u] = "dispatched" => Stays(u) \/ IsHanded(u) \/ IsAccepted(u) \/ IsRevived(u) \/ IsAnswered(u)
  BY DEF Move, Enters, EndsWait, FailsToStart, FallsSilent, IsReleased, IsBlocked, IsCancelled,
     IsInvalidated, IsPutToPerson, Final
<1> QED
  BY <1>1, <1>2, <1>3, <1>4, <1>5, <1>6, <1>7

LEMMA BlockedMove ==
  ASSUME TaskType, NEW u \in Tasks, TaskInv(u), Gated(u), Move(u)
  PROVE  Gated(u)'
<1> USE DEF Gated, From
<1>1. CASE status'[u] # "blocked"
  BY <1>1
<1>2. CASE Stays(u) \/ IsAccepted(u)
  BY <1>2 DEF Stays, IsAccepted, SameGates
<1>3. CASE IsBlocked(u)
  <2>1. CASE SameGates(u)
    BY <1>3, <2>1, GrownGates DEF IsBlocked, SameGates
  <2>2. CASE gates'[u] = Append(gates[u], NewGate("decision", u))
    BY <2>2, GrownGates
  <2> QED
    BY <1>3, <2>1, <2>2 DEF IsBlocked
<1>4. CASE IsAnswered(u)
  <2>1. \A i \in DOMAIN gates[u] : gates[u][i].kind \in {"decision", "stall"}
    BY RowTypes DEF Gate
  <2> QED
    BY <1>4, <2>1 DEF IsAnswered, Answers
<1>5. status'[u] = "blocked" => Stays(u) \/ IsAccepted(u) \/ IsBlocked(u) \/ IsAnswered(u)
  BY DEF Move, Enters, EndsWait, IsHanded, FailsToStart, IsRevived, FallsSilent, IsReleased,
     IsCancelled, IsInvalidated, IsPutToPerson, Final
<1> QED
  BY <1>1, <1>2, <1>3, <1>4, <1>5

(* A stall stays with the person, once put, until the task is revived,     *)
(* released or cancelled.                                                  *)
LEMMA AskMove ==
  ASSUME TaskType, NEW u \in Tasks, TaskInv(u), Move(u), status'[u] = "stalled", HasActive(u)'
  PROVE  \/ status[u] = "stalled" /\ HasActive(u) /\ (Put(u) => Put(u)')
         \/ actor'.pc = "policy" /\ u \in actor'.todo
<1> USE DEF HasActive, ActiveAt, Active, From
<1>1. CASE Stays(u)
  BY <1>1 DEF Stays, SameGates, SameDisp, Put
<1>2. CASE FailsToStart(u)
  <2>1. PICK h \in Terms : disp'[u] = Append(disp[u], [h |-> h, st |-> "startup_failed"])
    BY <1>2 DEF FailsToStart
  <2>2. "startup_failed" \in Closed /\ "startup_failed" \notin Active
    BY DEF Closed
  <2>3. ~HasActive(u)
    BY <1>2 DEF FailsToStart, TaskInv, DispatchInv
  <2>4. ~HasActive(u)'
    BY <2>1, <2>2, <2>3, GrownDispatches
  <2> QED
    BY <2>4
<1>3. CASE IsAccepted(u)
  BY <1>3 DEF IsAccepted, Relabels, SameGates, Put
<1>4. CASE FallsSilent(u)
  BY <1>4 DEF FallsSilent
<1>5. CASE IsReleased(u)
  BY <1>5 DEF IsReleased, Closes
<1>6. CASE IsPutToPerson(u)
  BY <1>6, GrownGates DEF IsPutToPerson, SameDisp, Put
<1>7. CASE IsAnswered(u)
  <2>1. PICK i \in DOMAIN gates[u], a \in Decisions \cup {"answer"} :
          /\ Answers(u, i, a) /\ SameDisp(u)
          /\ status'[u] = IF gates[u][i].kind = "decision" /\ status[u] = "blocked" THEN "ready" ELSE status[u]
    BY <1>7 DEF IsAnswered
  <2>2. status[u] = "stalled" /\ HasActive(u)
    BY <2>1 DEF SameDisp
  <2>3. gates[u][i].kind = "stall"
    BY <2>1, <2>2, RowTypes DEF Answers, TaskInv, GateInv, Gate, Final
  <2>4. Put(u)'
    BY <2>1, <2>3 DEF Answers, Put
  <2> QED
    BY <2>2, <2>4
<1>8. Stays(u) \/ FailsToStart(u) \/ IsAccepted(u) \/ FallsSilent(u) \/ IsReleased(u) \/ IsPutToPerson(u)
      \/ IsAnswered(u)
  BY DEF Move, Enters, EndsWait, IsHanded, IsRevived, IsBlocked, IsCancelled, IsInvalidated, Final
<1> QED
  BY <1>1, <1>2, <1>3, <1>4, <1>5, <1>6, <1>7, <1>8

LEMMA FinalMove ==
  ASSUME NEW u, Move(u), status[u] \in Final
  PROVE  status'[u] = status[u]
<1> USE DEF From, Final, Begun
<1>1. CASE Stays(u) \/ IsAccepted(u) \/ IsInvalidated(u) \/ IsAnswered(u)
  BY <1>1 DEF Stays, IsAccepted, IsInvalidated, IsAnswered
<1>2. ~(Enters(u) \/ EndsWait(u) \/ IsHanded(u) \/ FailsToStart(u) \/ IsRevived(u) \/ FallsSilent(u))
  BY DEF Enters, EndsWait, IsHanded, FailsToStart, IsRevived, FallsSilent
<1>3. ~(IsReleased(u) \/ IsBlocked(u) \/ IsCancelled(u) \/ IsPutToPerson(u))
  BY DEF IsReleased, IsBlocked, IsCancelled, IsPutToPerson
<1> QED
  BY <1>1, <1>2, <1>3 DEF Move

(* Answers that were given stay.                                           *)
LEMMA AnswersStay ==
  ASSUME TaskType, NEW u \in Tasks, GateInv(u), Move(u), NEW i \in DOMAIN gates[u],
         gates[u][i].answer \in Decisions
  PROVE  i \in DOMAIN gates'[u] /\ gates'[u][i].answer \in Decisions
<1>1. gates[u][i].st # "pending"
  BY DEF GateInv, Decisions
<1>2. \/ SameGates(u) \/ Resumes(u) \/ Expires(u) \/ (\E k, a : Answers(u, k, a))
      \/ \E kind \in {"decision", "stall"} : gates'[u] = Append(gates[u], NewGate(kind, u))
  BY DEF Move, Stays, Enters, EndsWait, IsHanded, FailsToStart, IsAccepted, IsRevived,
     FallsSilent, IsReleased, IsBlocked, IsCancelled, IsInvalidated, IsPutToPerson, IsAnswered
<1> QED
  BY <1>1, <1>2, GrownGates DEF SameGates, Resumes, Expires, Answers

-----------------------------------------------------------------------------
(* The moves that each transaction makes.                                  *)

RowsTyped ==
  /\ status' \in [Tasks -> Statuses] /\ disp' \in [Tasks -> Seq(Dispatch)]
  /\ \A u \in Tasks : Len(disp'[u]) <= MaxDispatches
GatesTyped == gates' \in [Tasks -> Seq(Gate)]

(* The rows of a task that was already settled, or not yet begun, have no  *)
(* open dispatch.                                                          *)
LEMMA ActiveStatus ==
  ASSUME NEW t \in Tasks, TaskInv(t), NEW i \in ActiveAt(t)
  PROVE  /\ status[t] \in {"dispatched", "stalled"} /\ \A k \in ActiveAt(t) : k = i
         /\ disp[t][i].st = "stalled" <=> status[t] = "stalled"
  BY DEF TaskInv, DispatchInv

LEMMA ReachedClosed ==
  ASSUME NEW t, NEW among
  PROVE  /\ Reached(t, among) \subseteq among
         /\ \A v \in among : (t \in Deps[v] \/ Deps[v] \cap Reached(t, among) # {}) => v \in Reached(t, among)
<1> DEFINE R == Reached(t, among)
           Shut(S) == \A v \in among : (t \in Deps[v] \/ Deps[v] \cap S # {}) => v \in S
<1>1. R \subseteq among /\ \A u \in among : u \in R <=> \A S \in SUBSET among : Shut(S) => u \in S
  BY DEF Reached
<1>2. ASSUME NEW v \in among, t \in Deps[v] \/ Deps[v] \cap R # {}, NEW S \in SUBSET among, Shut(S)
      PROVE  v \in S
  <2>1. R \subseteq S
    BY <1>1, <1>2
  <2> QED
    BY <1>2, <2>1
<1>3. ASSUME NEW v \in among, t \in Deps[v] \/ Deps[v] \cap R # {}
      PROVE  v \in R
  BY <1>1, <1>2, <1>3
<1> QED
  BY <1>1, <1>3

LEMMA SettledFacts ==
  ASSUME TaskType, NEW t \in Tasks, NEW st \in {"completed", "failed"}
  PROVE  /\ Settled(t, st) \in [Tasks -> Statuses] /\ Settled(t, st)[t] = st
         /\ \A u \in Tasks \ {t} : \/ Settled(t, st)[u] = status[u]
                                   \/ status[u] = "pending" /\ Settled(t, st)[u] \in {"ready", "failed"}
<1>1. Reached(t, {v \in Tasks : status[v] = "pending"}) \subseteq {v \in Tasks : status[v] = "pending"}
  BY ReachedClosed
<1>2. status \in [Tasks -> Statuses] /\ {"ready", "failed", "completed"} \subseteq Statuses
  BY DEF TaskType, Statuses, Final
<1> HIDE DEF Statuses
<1> QED
  BY <1>1, <1>2 DEF Settled

(* One dispatch is closed and its task moves on.                           *)
ClosesOne(t) ==
  /\ RowsTyped
  /\ From(t, {"dispatched", "stalled"}, {"ready", "completed", "failed"}) /\ Closes(t)
  /\ \A u \in Tasks \ {t} : SameDisp(u) /\ (status'[u] = status[u] \/ From(u, {"pending"}, {"ready", "failed"}))
  /\ \/ status'[t] = "ready" /\ \A u \in Tasks \ {t} : status'[u] = status[u]
     \/ status'[t] \in {"completed", "failed"} /\ Settles(t, status'[t])

LEMMA SetClosed ==
  ASSUME TaskType, NEW j, j[1] \in Tasks, TaskInv(j[1]), j[2] \in ActiveAt(j[1]), NEW st \in Closed,
         SetDispatch(j, st)
  PROVE  /\ Closes(j[1]) /\ \A u \in Tasks \ {j[1]} : SameDisp(u)
         /\ disp' \in [Tasks -> Seq(Dispatch)] /\ \A u \in Tasks : Len(disp'[u]) <= MaxDispatches
<1>1. j[2] \in DOMAIN disp[j[1]] /\ st \in Active \cup Closed /\ st \notin Active
  BY DEF ActiveAt, Active, Closed
<1>2. \A k \in DOMAIN disp[j[1]] : disp[j[1]][k].st \in Active => k = j[2]
  BY ActiveStatus DEF ActiveAt
<1>3. /\ disp' \in [Tasks -> Seq(Dispatch)]
      /\ \A u \in Tasks :
           /\ Len(disp'[u]) = Len(disp[u]) /\ DOMAIN disp'[u] = DOMAIN disp[u]
           /\ u # j[1] => disp'[u] = disp[u]
           /\ \A k \in DOMAIN disp[u] :
                /\ disp'[u][k].h = disp[u][k].h
                /\ disp'[u][k].st = IF u = j[1] /\ k = j[2] THEN st ELSE disp[u][k].st
  BY <1>1, SetDispatchFacts
<1>4. Closes(j[1])
  BY <1>1, <1>2, <1>3 DEF Closes
<1>5. \A u \in Tasks : Len(disp[u]) <= MaxDispatches
  BY DEF TaskType
<1> QED
  BY <1>3, <1>4, <1>5 DEF SameDisp

LEMMA FailDispatchMoves ==
  ASSUME TaskType, NEW j, j[1] \in Tasks, TaskInv(j[1]), j[2] \in ActiveAt(j[1]), FailDispatch(j)
  PROVE  ClosesOne(j[1]) /\ fails' \in [Tasks -> Nat]
<1> DEFINE t == j[1]
<1>1. "failed" \in Closed /\ SetDispatch(j, "failed")
  BY DEF FailDispatch, Closed
<1>2. status[t] \in {"dispatched", "stalled"}
  BY ActiveStatus
<1>3. /\ Closes(t) /\ \A u \in Tasks \ {t} : SameDisp(u)
      /\ disp' \in [Tasks -> Seq(Dispatch)] /\ \A u \in Tasks : Len(disp'[u]) <= MaxDispatches
  BY <1>1, SetClosed
<1>4. fails' \in [Tasks -> Nat]
  BY DEF FailDispatch, TaskType
<1>5. CASE status' = Settled(t, "failed")
  <2>1. /\ status' \in [Tasks -> Statuses] /\ status'[t] = "failed"
        /\ \A u \in Tasks \ {t} : status'[u] = status[u] \/ From(u, {"pending"}, {"ready", "failed"})
    BY <1>5, SettledFacts DEF From
  <2>2. From(t, {"dispatched", "stalled"}, {"ready", "completed", "failed"}) /\ Settles(t, status'[t])
    BY <1>2, <1>5, <2>1 DEF From, Settles
  <2> QED
    BY <1>3, <1>4, <2>1, <2>2 DEF ClosesOne, RowsTyped
<1>6. CASE status' = [status EXCEPT ![t] = "ready"]
  BY <1>2, <1>3, <1>4, <1>6 DEF ClosesOne, RowsTyped, From, TaskType, Statuses
<1> QED
  BY <1>5, <1>6 DEF FailDispatch

(* What becomes of the other tasks is a move, whatever the gates of t do.  *)
LEMMA ClosesOneMoves ==
  ASSUME NEW t \in Tasks, ClosesOne(t), SameGates(t) \/ Resumes(t), \A u \in Tasks \ {t} : SameGates(u)
  PROVE  \A u \in Tasks : Move(u)
  BY DEF ClosesOne, Move, IsReleased, Stays, EndsWait, From

LEMMA TouchedFacts ==
  ASSUME TaskType, NEW t \in Tasks, NEW st, gates' = TouchedGates(t, st)
  PROVE  GatesTyped /\ (SameGates(t) \/ Resumes(t)) /\ (st = "stalled" => Resumes(t))
         /\ \A u \in Tasks \ {t} : SameGates(u)
<1>1. \A i \in DOMAIN gates[t] : gates[t][i] \in Gate
  BY RowTypes
<1>2. gates' = [u \in Tasks |-> gates'[u]] /\ \A u \in Tasks \ {t} : gates'[u] = gates[u]
  BY DEF TouchedGates, TaskType
<1>3. /\ gates'[t] = [i \in DOMAIN gates[t] |-> gates'[t][i]]
      /\ \A i \in DOMAIN gates[t] :
           /\ gates'[t][i] \in Gate /\ gates'[t][i].kind = gates[t][i].kind
           /\ IF st = "stalled" /\ gates[t][i].kind = "stall" /\ gates[t][i].st = "pending"
              THEN gates'[t][i].st = "resolved" /\ gates'[t][i].answer = "resumed"
              ELSE gates'[t][i] = gates[t][i]
  BY <1>1 DEF TouchedGates, TaskType, Gate
<1>4. \A u \in Tasks \ {t} : /\ gates'[u] = [i \in DOMAIN gates[u] |-> gates'[u][i]]
                             /\ \A i \in DOMAIN gates[u] : gates'[u][i] \in Gate
  BY <1>2, RowTypes, Unwritten
<1>5. /\ gates' \in [Tasks -> Seq(Gate)]
      /\ \A u \in Tasks : /\ DOMAIN gates'[u] = DOMAIN gates[u]
                          /\ (\A i \in DOMAIN gates[u] : gates'[u][i] = gates[u][i]) => gates'[u] = gates[u]
  <2>1. \A u \in Tasks : gates'[u] = [i \in DOMAIN gates[u] |-> gates'[u][i]]
    BY <1>3, <1>4
  <2>2. \A u \in Tasks : \A i \in DOMAIN gates[u] : gates'[u][i] \in Gate
    BY <1>3, <1>4
  <2> QED
    BY <1>2, <2>1, <2>2, GatesRewritten
<1>6. CASE st = "stalled"
  BY <1>2, <1>3, <1>5, <1>6 DEF GatesTyped, SameGates, Resumes
<1>7. CASE st # "stalled"
  BY <1>2, <1>3, <1>5, <1>7 DEF GatesTyped, SameGates, Resumes
<1> QED
  BY <1>6, <1>7

(* One open dispatch gets another open status.                             *)
LEMMA SetActive ==
  ASSUME TaskType, NEW j, j[1] \in Tasks, TaskInv(j[1]), j[2] \in ActiveAt(j[1]), NEW st \in Active,
         SetDispatch(j, st)
  PROVE  /\ Relabels(j[1], disp[j[1]][j[2]].st, st) /\ \A u \in Tasks \ {j[1]} : SameDisp(u)
         /\ disp' \in [Tasks -> Seq(Dispatch)] /\ \A u \in Tasks : Len(disp'[u]) <= MaxDispatches
<1>1. j[2] \in DOMAIN disp[j[1]] /\ st \in Active \cup Closed /\ disp[j[1]][j[2]].st \in Active
  BY DEF ActiveAt
<1>2. \A k \in DOMAIN disp[j[1]] : disp[j[1]][k].st \in Active => k = j[2]
  BY ActiveStatus DEF ActiveAt
<1>3. /\ disp' \in [Tasks -> Seq(Dispatch)]
      /\ \A u \in Tasks :
           /\ Len(disp'[u]) = Len(disp[u]) /\ DOMAIN disp'[u] = DOMAIN disp[u]
           /\ u # j[1] => disp'[u] = disp[u]
           /\ \A k \in DOMAIN disp[u] :
                /\ disp'[u][k].h = disp[u][k].h
                /\ disp'[u][k].st = IF u = j[1] /\ k = j[2] THEN st ELSE disp[u][k].st
  BY <1>1, SetDispatchFacts
<1>4. Relabels(j[1], disp[j[1]][j[2]].st, st)
  BY <1>1, <1>2, <1>3 DEF Relabels
<1>5. \A u \in Tasks : Len(disp[u]) <= MaxDispatches
  BY DEF TaskType
<1> QED
  BY <1>3, <1>4, <1>5 DEF SameDisp

LEMMA RecordActivityMoves ==
  ASSUME TaskType, NEW j, j[1] \in Tasks, TaskInv(j[1]), j[2] \in ActiveAt(j[1]), RecordActivity(j)
  PROVE  RowsTyped /\ GatesTyped /\ UNCHANGED <<startups, fails>> /\ \A u \in Tasks : Move(u)
<1> DEFINE t == j[1]
<1>1. CASE DispatchOf(j).st # "stalled"
  BY <1>1 DEF RecordActivity, taskVars, TaskType, RowsTyped, GatesTyped, Move, Stays, SameDisp, SameGates
<1>2. CASE DispatchOf(j).st = "stalled"
  <2>1. disp[t][j[2]].st = "stalled" /\ status[t] = "stalled" /\ HasActive(t)
    BY <1>2, ActiveStatus DEF DispatchOf, HasActive
  <2>2. /\ SetDispatch(j, "dispatched") /\ UNCHANGED <<startups, fails>>
        /\ status' = [status EXCEPT ![t] = "dispatched"]
    BY <1>2, <2>1 DEF RecordActivity
  <2>3. gates' = TouchedGates(t, "stalled")
    BY <1>2 DEF RecordActivity, TouchedGates
  <2>4. GatesTyped /\ Resumes(t) /\ \A u \in Tasks \ {t} : SameGates(u)
    BY <2>3, TouchedFacts
  <2>5. /\ Relabels(t, "stalled", "dispatched") /\ \A u \in Tasks \ {t} : SameDisp(u)
        /\ disp' \in [Tasks -> Seq(Dispatch)] /\ \A u \in Tasks : Len(disp'[u]) <= MaxDispatches
    <3>1. "dispatched" \in Active
      BY DEF Active
    <3> QED
      BY <2>1, <2>2, <3>1, SetActive
  <2>6. RowsTyped /\ status'[t] = "dispatched" /\ \A u \in Tasks \ {t} : status'[u] = status[u]
    BY <2>2, <2>5 DEF RowsTyped, TaskType, Statuses
  <2>7. IsRevived(t) /\ \A u \in Tasks \ {t} : Stays(u)
    BY <2>1, <2>4, <2>5, <2>6 DEF IsRevived, Stays, From
  <2> QED
    BY <2>2, <2>4, <2>6, <2>7 DEF Move
<1> QED
  BY <1>1, <1>2

(* The dispatches of a set of tasks are closed.                            *)
LEMMA CloseAllMoves ==
  ASSUME TaskType, NEW S, NEW st \in Closed, disp' = CloseAll(S, st)
  PROVE  /\ disp' \in [Tasks -> Seq(Dispatch)] /\ \A u \in Tasks : Len(disp'[u]) <= MaxDispatches
         /\ \A u \in Tasks : IF u \in S THEN Closes(u) ELSE SameDisp(u)
<1>1. st \notin Active
  BY DEF Active, Closed
<1>2. \A u \in Tasks : Len(disp[u]) <= MaxDispatches
  BY DEF TaskType
<1> QED
  BY <1>1, <1>2, CloseAllFacts DEF Closes, SameDisp

Awaiting == {t \in Tasks : \E i \in ActiveAt(t) : disp[t][i].st = "awaiting"}

LEMMA FailStartupsMoves ==
  ASSUME TaskType, \A t \in Tasks : TaskInv(t), NEW S \in SUBSET Awaiting, FailStartups(S), UNCHANGED gates
  PROVE  RowsTyped /\ GatesTyped /\ startups' \in [Tasks -> Nat] /\ \A u \in Tasks : Move(u)
<1>1. /\ disp' \in [Tasks -> Seq(Dispatch)] /\ \A u \in Tasks : Len(disp'[u]) <= MaxDispatches
      /\ \A u \in Tasks : IF u \in S THEN Closes(u) ELSE SameDisp(u)
  <2>1. "startup_failed" \in Closed /\ disp' = CloseAll(S, "startup_failed")
    BY DEF FailStartups, Closed
  <2> QED
    BY <2>1, CloseAllMoves
<1>2. \A u \in S : u \in Tasks /\ status[u] = "dispatched"
  BY ActiveStatus DEF Awaiting
<1>3. /\ startups' \in [Tasks -> Nat] /\ status' \in [Tasks -> Statuses]
      /\ \A u \in Tasks : IF u \in S THEN status'[u] \in {"ready", "stalled"} ELSE status'[u] = status[u]
  BY DEF FailStartups, TaskType, Statuses
<1>4. \A u \in Tasks : IsReleased(u) \/ Stays(u)
  BY <1>1, <1>2, <1>3 DEF IsReleased, Stays, From, SameGates
<1> QED
  BY <1>1, <1>3, <1>4 DEF RowsTyped, GatesTyped, TaskType, Move

LEMMA MoveTasksFacts ==
  ASSUME TaskType, NEW S, NEW st \in Statuses, MoveTasks(S, st)
  PROVE  RowsTyped /\ \A u \in Tasks : IF u \in S THEN Closes(u) /\ status'[u] = st
                                                  ELSE SameDisp(u) /\ status'[u] = status[u]
<1>1. "failed" \in Closed /\ disp' = CloseAll(S, "failed")
  BY DEF MoveTasks, Closed
<1>2. status' = [t \in Tasks |-> IF t \in S THEN st ELSE status[t]]
  BY DEF MoveTasks
<1> QED
  BY <1>1, <1>2, CloseAllMoves DEF RowsTyped, TaskType

LEMMA CloseGatesMoves ==
  ASSUME TaskType, NEW S, NEW st \in {"timeout", "invalidated"}, gates' = CloseGates(S, st)
  PROVE  /\ GatesTyped /\ \A u \in Tasks : IF u \in S THEN Expires(u) ELSE SameGates(u)
         /\ \A u \in Tasks : DOMAIN gates[u] = {} => SameGates(u)
<1>1. gates' = [u \in Tasks |-> gates'[u]]
      /\ \A u \in Tasks : gates'[u] = [i \in DOMAIN gates[u] |-> gates'[u][i]]
  BY DEF CloseGates
<1>2. ASSUME NEW u \in Tasks, NEW i \in DOMAIN gates[u]
      PROVE  /\ gates'[u][i] \in Gate
             /\ gates'[u][i].kind = gates[u][i].kind /\ gates'[u][i].answer = gates[u][i].answer
             /\ u \in S => gates'[u][i].st # "pending"
             /\ u \notin S => gates'[u][i] = gates[u][i]
  <2>1. gates[u][i] \in Gate
    BY RowTypes
  <2>2. gates'[u][i] = IF u \in S /\ gates[u][i].st = "pending" THEN [gates[u][i] EXCEPT !.st = st]
                                                               ELSE gates[u][i]
    BY DEF CloseGates
  <2> QED
    BY <2>1, <2>2 DEF Gate
<1>3. /\ gates' \in [Tasks -> Seq(Gate)]
      /\ \A u \in Tasks : /\ DOMAIN gates'[u] = DOMAIN gates[u]
                          /\ (\A i \in DOMAIN gates[u] : gates'[u][i] = gates[u][i]) => gates'[u] = gates[u]
  BY <1>1, <1>2, GatesRewritten
<1> QED
  BY <1>2, <1>3 DEF GatesTyped, Expires, SameGates

LEMMA CancelTasksMoves ==
  ASSUME TaskType, NEW S \in SUBSET Tasks, \A t \in S : status[t] \in Begun, CancelTasks(S)
  PROVE  /\ RowsTyped /\ GatesTyped
         /\ \A u \in Tasks : IF u \in Doomed(S) THEN IsCancelled(u) ELSE Stays(u)
<1> DEFINE open == {u \in Tasks : status[u] \in {"pending", "ready", "blocked", "stalled"}}
<1>1. \A t : Reached(t, open) \subseteq open
  BY ReachedClosed
<1>2. Doomed(S) \subseteq Tasks /\ \A u \in Doomed(S) : status[u] \in Begun
  BY <1>1 DEF Doomed, Begun
<1>3. /\ status' = [t \in Tasks |-> IF t \in Doomed(S) /\ status[t] \notin Final THEN "cancelled" ELSE status[t]]
      /\ disp' = CloseAll(Doomed(S), "cancelled") /\ gates' = CloseGates(Doomed(S), "timeout")
  BY DEF CancelTasks, Doomed
<1>4. "cancelled" \in Closed /\ "timeout" \in {"timeout", "invalidated"}
  BY DEF Closed
<1>5. /\ disp' \in [Tasks -> Seq(Dispatch)] /\ \A u \in Tasks : Len(disp'[u]) <= MaxDispatches
      /\ \A u \in Tasks : IF u \in Doomed(S) THEN Closes(u) ELSE SameDisp(u)
  BY <1>3, <1>4, CloseAllMoves
<1>6. GatesTyped /\ \A u \in Tasks : IF u \in Doomed(S) THEN Expires(u) ELSE SameGates(u)
  BY <1>3, <1>4, CloseGatesMoves
<1>7. /\ status' \in [Tasks -> Statuses]
      /\ \A u \in Tasks : IF u \in Doomed(S) THEN status'[u] = "cancelled" ELSE status'[u] = status[u]
  BY <1>2, <1>3 DEF TaskType, Statuses, Final, Begun
<1>8. Cancels(S)
  BY <1>2, <1>3 DEF Cancels, Final, Begun
<1>9. \A u \in Tasks : IF u \in Doomed(S) THEN IsCancelled(u) ELSE Stays(u)
  BY <1>2, <1>5, <1>6, <1>7, <1>8 DEF IsCancelled, Stays, From
<1> QED
  BY <1>5, <1>6, <1>7, <1>9 DEF RowsTyped

-----------------------------------------------------------------------------
(* The moves that each action makes.                                       *)

Moves ==
  /\ RowsTyped /\ GatesTyped
  /\ startups' \in [Tasks -> Nat] /\ fails' \in [Tasks -> Nat] /\ silences' \in [Tasks -> Nat]
  /\ \A u \in Tasks : Move(u)

Rows == TaskType /\ \A t \in Tasks : TaskInv(t)

LEMMA QuietMoves ==
  ASSUME TaskType, UNCHANGED <<taskVars, silences>>
  PROVE  Moves
  BY DEF Moves, taskVars, TaskType, RowsTyped, GatesTyped, Move, Stays, SameDisp, SameGates

LEMMA DelegateMoves ==
  ASSUME Rows, NEW t \in Tasks, Delegate(t)
  PROVE  Moves
<1>1. StatusForDeps(t) \in {"pending", "ready", "failed", "cancelled"}
  BY DEF StatusForDeps
<1>2. /\ status' \in [Tasks -> Statuses] /\ From(t, {"none"}, {"pending", "ready", "failed", "cancelled"})
      /\ \A u \in Tasks \ {t} : status'[u] = status[u]
  BY <1>1 DEF Delegate, From, Rows, TaskType, Statuses, Final
<1>3. UNCHANGED <<startups, fails, disp, gates, silences>>
  BY DEF Delegate
<1>4. Enters(t) /\ \A u \in Tasks \ {t} : Stays(u)
  BY <1>2, <1>3 DEF Delegate, Enters, Stays, SameDisp, SameGates
<1> QED
  BY <1>2, <1>3, <1>4 DEF Moves, Move, RowsTyped, GatesTyped, Rows, TaskType

LEMMA DispatchedMoves ==
  ASSUME Rows, NEW t \in Tasks, NEW h \in Terms, Dispatchable(t, h), Dispatched(t, h), UNCHANGED silences
  PROVE  Moves
<1>1. /\ disp' \in [Tasks -> Seq(Dispatch)]
      /\ disp'[t] = Append(disp[t], [h |-> h, st |-> "awaiting"])
      /\ \A u \in Tasks : Len(disp'[u]) <= MaxDispatches /\ (u # t => disp'[u] = disp[u])
  <2>1. "awaiting" \in Active \cup Closed
    BY DEF Active
  <2> QED
    BY <2>1, NewDispatchFacts DEF Dispatchable, Dispatched, Rows
<1>2. /\ status' \in [Tasks -> Statuses] /\ From(t, {"ready"}, {"dispatched"})
      /\ \A u \in Tasks \ {t} : status'[u] = status[u]
  BY DEF Dispatchable, Dispatched, From, Rows, TaskType, Statuses
<1>3. UNCHANGED <<startups, fails, gates, silences>>
  BY DEF Dispatched
<1>4. IsHanded(t) /\ \A u \in Tasks \ {t} : Stays(u)
  BY <1>1, <1>2, <1>3 DEF IsHanded, Stays, SameDisp, SameGates, Dispatchable
<1> QED
  BY <1>1, <1>2, <1>3, <1>4 DEF Moves, Move, RowsTyped, GatesTyped, Rows, TaskType

LEMMA WorksAt ==
  ASSUME Rows, NEW h, Works(h)
  PROVE  work[h][1] \in Tasks /\ work[h][2] \in ActiveAt(work[h][1]) /\ TaskInv(work[h][1])
  BY Jobs DEF Works, Rows

LEMMA WorkerTouchesMoves ==
  ASSUME Rows, NEW h \in Terms, WorkerTouches(h)
  PROVE  Moves
<1> DEFINE j == work[h]
<1>1. j[1] \in Tasks /\ j[2] \in ActiveAt(j[1]) /\ TaskInv(j[1])
  BY WorksAt DEF WorkerTouches
<1>2. CASE DispatchOf(j).st = "awaiting"
  <2>1. SetDispatch(j, "dispatched") /\ UNCHANGED <<status, startups, fails, gates, silences>>
        /\ disp[j[1]][j[2]].st = "awaiting"
    BY <1>2 DEF WorkerTouches, DispatchOf
  <2>2. "dispatched" \in Active
    BY DEF Active
  <2>3. /\ Relabels(j[1], "awaiting", "dispatched") /\ \A u \in Tasks \ {j[1]} : SameDisp(u)
        /\ disp' \in [Tasks -> Seq(Dispatch)] /\ \A u \in Tasks : Len(disp'[u]) <= MaxDispatches
    BY <1>1, <2>1, <2>2, SetActive DEF Rows
  <2>4. IsAccepted(j[1]) /\ \A u \in Tasks \ {j[1]} : Stays(u)
    BY <2>1, <2>3 DEF IsAccepted, Stays, SameGates
  <2> QED
    BY <2>1, <2>3, <2>4 DEF Moves, Move, RowsTyped, GatesTyped, Rows, TaskType
<1>3. CASE DispatchOf(j).st # "awaiting"
  <2>1. RecordActivity(j) /\ UNCHANGED silences
    BY <1>3 DEF WorkerTouches
  <2>2. RowsTyped /\ GatesTyped /\ UNCHANGED <<startups, fails>> /\ \A u \in Tasks : Move(u)
    BY <1>1, <2>1, RecordActivityMoves DEF Rows
  <2> QED
    BY <2>1, <2>2 DEF Moves, Rows, TaskType
<1> QED
  BY <1>2, <1>3

LEMMA TerminalOutputMoves ==
  ASSUME Rows, NEW h \in Terms, TerminalOutput(h)
  PROVE  Moves
<1>1. PICK j \in JobsOf(h) : RecordActivity(j) /\ UNCHANGED silences
  BY DEF TerminalOutput
<1>2. j[1] \in Tasks /\ j[2] \in ActiveAt(j[1]) /\ TaskInv(j[1])
  BY Jobs DEF Rows
<1>3. RowsTyped /\ GatesTyped /\ UNCHANGED <<startups, fails>> /\ \A u \in Tasks : Move(u)
  BY <1>1, <1>2, RecordActivityMoves DEF Rows
<1> QED
  BY <1>1, <1>3 DEF Moves, Rows, TaskType

LEMMA WorkerCompletesMoves ==
  ASSUME Rows, NEW h \in Terms, WorkerCompletes(h)
  PROVE  Moves
<1> DEFINE j == work[h]
<1>1. j[1] \in Tasks /\ j[2] \in ActiveAt(j[1]) /\ TaskInv(j[1])
  BY WorksAt DEF WorkerCompletes
<1>2. /\ SetDispatch(j, "completed") /\ status' = Settled(j[1], "completed")
      /\ gates' = TouchedGates(j[1], DispatchOf(j).st) /\ UNCHANGED <<startups, fails, silences>>
  BY DEF WorkerCompletes
<1>3. status[j[1]] \in {"dispatched", "stalled"} /\ "completed" \in Closed
  BY <1>1, ActiveStatus DEF Closed
<1>4. /\ Closes(j[1]) /\ \A u \in Tasks \ {j[1]} : SameDisp(u)
      /\ disp' \in [Tasks -> Seq(Dispatch)] /\ \A u \in Tasks : Len(disp'[u]) <= MaxDispatches
  BY <1>1, <1>2, <1>3, SetClosed DEF Rows
<1>5. ClosesOne(j[1])
  <2>1. /\ status' \in [Tasks -> Statuses] /\ status'[j[1]] = "completed"
        /\ \A u \in Tasks \ {j[1]} : status'[u] = status[u] \/ From(u, {"pending"}, {"ready", "failed"})
    BY <1>1, <1>2, SettledFacts DEF From, Rows
  <2>2. From(j[1], {"dispatched", "stalled"}, {"ready", "completed", "failed"}) /\ Settles(j[1], status'[j[1]])
    BY <1>2, <1>3, <2>1 DEF From, Settles
  <2> QED
    BY <1>4, <2>1, <2>2 DEF ClosesOne, RowsTyped
<1>6. GatesTyped /\ (SameGates(j[1]) \/ Resumes(j[1])) /\ \A u \in Tasks \ {j[1]} : SameGates(u)
  BY <1>1, <1>2, TouchedFacts DEF Rows
<1>7. \A u \in Tasks : Move(u)
  BY <1>1, <1>5, <1>6, ClosesOneMoves
<1> QED
  BY <1>2, <1>5, <1>6, <1>7 DEF Moves, ClosesOne, Rows, TaskType

LEMMA WorkerFailsMoves ==
  ASSUME Rows, NEW h \in Terms, WorkerFails(h)
  PROVE  Moves
<1> DEFINE j == work[h]
<1>1. j[1] \in Tasks /\ j[2] \in ActiveAt(j[1]) /\ TaskInv(j[1])
  BY WorksAt DEF WorkerFails
<1>2. FailDispatch(j) /\ gates' = TouchedGates(j[1], DispatchOf(j).st) /\ UNCHANGED <<startups, silences>>
  BY DEF WorkerFails
<1>3. ClosesOne(j[1]) /\ fails' \in [Tasks -> Nat]
  BY <1>1, <1>2, FailDispatchMoves DEF Rows
<1>4. GatesTyped /\ (SameGates(j[1]) \/ Resumes(j[1])) /\ \A u \in Tasks \ {j[1]} : SameGates(u)
  BY <1>1, <1>2, TouchedFacts DEF Rows
<1>5. \A u \in Tasks : Move(u)
  BY <1>1, <1>3, <1>4, ClosesOneMoves
<1> QED
  BY <1>2, <1>3, <1>4, <1>5 DEF Moves, ClosesOne, Rows, TaskType

LEMMA FailedMoves ==
  ASSUME Rows, NEW j, j[1] \in Tasks, j[2] \in ActiveAt(j[1]), FailDispatch(j), UNCHANGED <<startups, gates, silences>>
  PROVE  Moves
<1>1. ClosesOne(j[1]) /\ fails' \in [Tasks -> Nat]
  BY FailDispatchMoves DEF Rows
<1>2. \A u \in Tasks : Move(u)
  BY <1>1, ClosesOneMoves DEF SameGates
<1> QED
  BY <1>1, <1>2 DEF Moves, ClosesOne, Rows, TaskType, GatesTyped

LEMMA TerminalExitsMoves ==
  ASSUME Rows, NEW h \in Terms, TerminalExits(h)
  PROVE  Moves
<1>1. CASE JobsOf(h) = {}
  BY <1>1, QuietMoves DEF TerminalExits, Rows
<1>2. CASE JobsOf(h) # {}
  <2>1. PICK j \in JobsOf(h) :
          \/ DispatchOf(j).st = "awaiting" /\ FailStartups({j[1]}) /\ UNCHANGED <<fails, gates>>
          \/ FailDispatch(j) /\ UNCHANGED <<startups, gates>>
    BY <1>2 DEF TerminalExits
  <2>2. j[1] \in Tasks /\ j[2] \in ActiveAt(j[1]) /\ UNCHANGED silences
    BY Jobs DEF Rows, TerminalExits
  <2>3. CASE DispatchOf(j).st = "awaiting" /\ FailStartups({j[1]}) /\ UNCHANGED <<fails, gates>>
    <3>1. {j[1]} \in SUBSET Awaiting
      BY <2>2, <2>3 DEF Awaiting, DispatchOf
    <3> QED
      BY <2>2, <2>3, <3>1, FailStartupsMoves DEF Moves, Rows, TaskType
  <2>4. CASE FailDispatch(j) /\ UNCHANGED <<startups, gates>>
    BY <2>2, <2>4, FailedMoves
  <2> QED
    BY <2>1, <2>3, <2>4
<1> QED
  BY <1>1, <1>2

(* A decision gate is opened and its task leaves its worker.               *)
Blocks(t) ==
  /\ status[t] \in {"ready", "dispatched"}
  /\ gates' = [gates EXCEPT ![t] = Append(@, NewGate("decision", t))]
  /\ disp' = CloseAll({t}, "completed")
  /\ status' = [status EXCEPT ![t] = "blocked"]
  /\ UNCHANGED <<startups, fails, silences>>

LEMMA BlocksMoves ==
  ASSUME Rows, NEW t \in Tasks, Blocks(t)
  PROVE  Moves
<1>1. /\ gates' \in [Tasks -> Seq(Gate)] /\ gates'[t] = Append(gates[t], NewGate("decision", t))
      /\ \A u \in Tasks : u # t => gates'[u] = gates[u]
  <2>1. "decision" \in {"decision", "stall"} /\ gates' = [gates EXCEPT ![t] = Append(@, NewGate("decision", t))]
    BY DEF Blocks
  <2> QED
    BY <2>1, NewGateFacts DEF Rows
<1>2. /\ disp' \in [Tasks -> Seq(Dispatch)] /\ \A u \in Tasks : Len(disp'[u]) <= MaxDispatches
      /\ Closes(t) /\ \A u \in Tasks \ {t} : SameDisp(u)
  <2>1. "completed" \in Closed /\ disp' = CloseAll({t}, "completed")
    BY DEF Blocks, Closed
  <2> QED
    BY <2>1, CloseAllMoves DEF Rows
<1>3. /\ status' \in [Tasks -> Statuses] /\ From(t, {"ready", "dispatched"}, {"blocked"})
      /\ \A u \in Tasks \ {t} : status'[u] = status[u]
  BY DEF Blocks, From, Rows, TaskType, Statuses
<1>4. IsBlocked(t) /\ \A u \in Tasks \ {t} : Stays(u)
  BY <1>1, <1>2, <1>3 DEF IsBlocked, Stays, SameGates
<1> QED
  BY <1>1, <1>2, <1>3, <1>4 DEF Moves, Move, RowsTyped, GatesTyped, Blocks, Rows, TaskType

LEMMA TickMessageMoves ==
  ASSUME Rows, HostType, TickMessage
  PROVE  Moves
<1>1. UNCHANGED silences
  BY DEF TickMessage, TickOnly
<1>2. PICK m \in inbox :
        \/ m.job[2] \in ActiveAt(m.job[1]) /\ FailDispatch(m.job) /\ UNCHANGED <<startups, gates>>
        \/ /\ status[m.job[1]] \in {"ready", "dispatched"}
           /\ gates' = [gates EXCEPT ![m.job[1]] = Append(@, NewGate("decision", m.job[1]))]
           /\ disp' = CloseAll({m.job[1]}, "completed")
           /\ status' = [status EXCEPT ![m.job[1]] = "blocked"]
           /\ UNCHANGED <<startups, fails>>
        \/ UNCHANGED taskVars
  BY DEF TickMessage
<1>3. m.job[1] \in Tasks
  BY DEF HostType
<1>4. CASE m.job[2] \in ActiveAt(m.job[1]) /\ FailDispatch(m.job) /\ UNCHANGED <<startups, gates>>
  BY <1>1, <1>3, <1>4, FailedMoves
<1>5. CASE UNCHANGED taskVars
  BY <1>1, <1>5, QuietMoves DEF Rows
<1>6. CASE Blocks(m.job[1])
  BY <1>3, <1>6, BlocksMoves
<1> QED
  BY <1>1, <1>2, <1>4, <1>5, <1>6 DEF Blocks

LEMMA TickGateBlocksMoves ==
  ASSUME Rows, TickGateBlocks
  PROVE  Moves
<1> DEFINE S == {t \in Tasks : /\ status[t] \in {"pending", "ready", "dispatched"}
                               /\ PendingGate(t, "decision") \/ PendingGate(t, "stall")}
<1>1. MoveTasks(S, "blocked") /\ UNCHANGED <<startups, fails, gates, silences>>
  BY DEF TickGateBlocks, TickOnly
<1>2. ASSUME NEW u \in S
      PROVE  status[u] \in {"ready", "dispatched"} /\ \E i \in DOMAIN gates[u] : gates[u][i].st = "pending"
  <2>1. u \in Tasks /\ \E i \in DOMAIN gates[u] : gates[u][i].st = "pending"
    BY DEF PendingGate
  <2>2. gates[u] # <<>>
    BY <2>1
  <2> QED
    BY <2>1, <2>2 DEF Rows, TaskInv, GateInv
<1> HIDE DEF S
<1>3. RowsTyped /\ \A u \in Tasks : IF u \in S THEN Closes(u) /\ status'[u] = "blocked"
                                               ELSE SameDisp(u) /\ status'[u] = status[u]
  <2>1. "blocked" \in Statuses
    BY DEF Statuses
  <2> QED
    BY <1>1, <2>1, MoveTasksFacts DEF Rows
<1>4. \A u \in Tasks : IsBlocked(u) \/ Stays(u)
  BY <1>1, <1>2, <1>3 DEF IsBlocked, Stays, From, SameGates
<1> QED
  BY <1>1, <1>3, <1>4 DEF Moves, Move, GatesTyped, Rows, TaskType

LEMMA TickDispatchMoves ==
  ASSUME Rows, HostType, ActorInv, TickDispatch
  PROVE  Moves
<1>1. PICK t \in actor.todo, h \in actor.free : Dispatchable(t, h) /\ Dispatched(t, h)
  BY DEF TickDispatch
<1>2. t \in Tasks /\ h \in Terms /\ UNCHANGED silences
  BY DEF TickDispatch, TickOnly, ActorInv, HostType
<1> QED
  BY <1>1, <1>2, DispatchedMoves

LEMMA TickDispatchFailsMoves ==
  ASSUME Rows, HostType, ActorInv, TickDispatchFails
  PROVE  Moves
<1>1. PICK t \in actor.todo, h \in actor.free :
        /\ Dispatchable(t, h) /\ startups' = [startups EXCEPT ![t] = @ + 1]
        /\ status' = [status EXCEPT ![t] = IF startups[t] + 1 >= StartupLimit THEN "stalled" ELSE "ready"]
        /\ disp' = [disp EXCEPT ![t] = Append(@, [h |-> h, st |-> "startup_failed"])]
  BY DEF TickDispatchFails
<1>2. t \in Tasks /\ h \in Terms /\ UNCHANGED <<fails, gates, silences>>
  BY DEF TickDispatchFails, TickOnly, ActorInv, HostType
<1>3. /\ disp' \in [Tasks -> Seq(Dispatch)]
      /\ disp'[t] = Append(disp[t], [h |-> h, st |-> "startup_failed"])
      /\ \A u \in Tasks : Len(disp'[u]) <= MaxDispatches /\ (u # t => disp'[u] = disp[u])
  <2>1. "startup_failed" \in Active \cup Closed
    BY DEF Closed
  <2> QED
    BY <1>1, <1>2, <2>1, NewDispatchFacts DEF Dispatchable, Rows
<1>4. /\ status' \in [Tasks -> Statuses] /\ From(t, {"ready"}, {"ready", "stalled"})
      /\ \A u \in Tasks \ {t} : status'[u] = status[u]
      /\ startups' \in [Tasks -> Nat]
  BY <1>1, <1>2 DEF Dispatchable, From, Rows, TaskType, Statuses
<1>5. FailsToStart(t) /\ \A u \in Tasks \ {t} : Stays(u)
  BY <1>2, <1>3, <1>4 DEF FailsToStart, Stays, SameDisp, SameGates
<1> QED
  BY <1>2, <1>3, <1>4, <1>5 DEF Moves, Move, RowsTyped, GatesTyped, Rows, TaskType

LEMMA SweepStartsMoves ==
  ASSUME Rows, SweepStarts
  PROVE  Moves
<1>1. PICK S \in SUBSET Awaiting : FailStartups(S)
  BY DEF SweepStarts, Awaiting
<1>2. UNCHANGED <<fails, gates, silences>>
  BY DEF SweepStarts
<1> QED
  BY <1>1, <1>2, FailStartupsMoves DEF Moves, Rows, TaskType

LEMMA SweepLeasesMoves ==
  ASSUME Rows, SweepLeases
  PROVE  Moves
<1>1. PICK S \in SUBSET {t \in Tasks : /\ silences[t] < MaxSilences
                                       /\ \E i \in ActiveAt(t) : disp[t][i].st = "dispatched"} :
        /\ status' = [t \in Tasks |-> IF t \in S THEN "stalled" ELSE status[t]]
        /\ disp' = [t \in Tasks |-> [i \in DOMAIN disp[t] |->
                      IF t \in S /\ disp[t][i].st = "dispatched"
                      THEN [disp[t][i] EXCEPT !.st = "stalled"] ELSE disp[t][i]]]
        /\ silences' = [t \in Tasks |-> IF t \in S THEN silences[t] + 1 ELSE silences[t]]
        /\ Goto("policy", S)
  BY DEF SweepLeases
<1>2. UNCHANGED <<startups, fails, gates>>
  BY DEF SweepLeases
<1>3. ASSUME NEW t \in Tasks, NEW i \in DOMAIN disp[t]
      PROVE  /\ disp'[t][i] \in Dispatch /\ disp'[t][i].h = disp[t][i].h
             /\ disp'[t][i].st = IF t \in S /\ disp[t][i].st = "dispatched" THEN "stalled" ELSE disp[t][i].st
             /\ t \notin S => disp'[t][i] = disp[t][i]
  <2>1. disp[t][i] \in Dispatch
    BY RowTypes DEF Rows
  <2>2. disp'[t][i] = IF t \in S /\ disp[t][i].st = "dispatched" THEN [disp[t][i] EXCEPT !.st = "stalled"]
                                                                ELSE disp[t][i]
    BY <1>1
  <2> QED
    BY <2>1, <2>2 DEF Dispatch, Active
<1>4. ASSUME NEW t \in Tasks
      PROVE  /\ disp'[t] \in Seq(Dispatch) /\ Len(disp'[t]) = Len(disp[t]) /\ DOMAIN disp'[t] = DOMAIN disp[t]
             /\ t \notin S => disp'[t] = disp[t]
  <2>1. disp'[t] = [i \in DOMAIN disp[t] |-> disp'[t][i]]
    BY <1>1
  <2>2. disp[t] \in Seq(Dispatch) /\ disp[t] = [i \in DOMAIN disp[t] |-> disp[t][i]]
    BY RowTypes, Unwritten DEF Rows
  <2>3. disp'[t] \in Seq(Dispatch) /\ Len(disp'[t]) = Len(disp[t]) /\ DOMAIN disp'[t] = DOMAIN disp[t]
    BY <1>3, <2>1, <2>2, Rewritten
  <2> QED
    BY <1>3, <2>1, <2>2, <2>3
<1>5. RowsTyped /\ silences' \in [Tasks -> Nat]
  <2>1. disp' \in [Tasks -> Seq(Dispatch)]
    BY <1>1, <1>4
  <2>2. status' \in [Tasks -> Statuses] /\ silences' \in [Tasks -> Nat]
    BY <1>1 DEF Rows, TaskType, Statuses
  <2>3. \A t \in Tasks : Len(disp[t]) <= MaxDispatches
    BY DEF Rows, TaskType
  <2> QED
    BY <1>4, <2>1, <2>2, <2>3 DEF RowsTyped
<1>6. ASSUME NEW t \in Tasks, t \in S PROVE FallsSilent(t)
  <2>1. PICK i \in ActiveAt(t) : disp[t][i].st = "dispatched"
    BY <1>6
  <2>2. status[t] = "dispatched" /\ \A k \in ActiveAt(t) : disp[t][k].st = "dispatched"
    BY <2>1, ActiveStatus DEF Rows
  <2>3. status'[t] = "stalled" /\ actor'.pc = "policy" /\ t \in actor'.todo
    BY <1>1, <1>6 DEF Goto
  <2>4. Relabels(t, "dispatched", "stalled")
    BY <1>3, <1>4, <1>6 DEF Relabels
  <2> QED
    BY <1>2, <2>1, <2>2, <2>3, <2>4 DEF FallsSilent, From, SameGates, HasActive
<1>7. ASSUME NEW t \in Tasks, t \notin S PROVE Stays(t)
  BY <1>1, <1>2, <1>4, <1>7 DEF Stays, SameDisp, SameGates
<1> QED
  BY <1>2, <1>5, <1>6, <1>7 DEF Moves, Move, GatesTyped, Rows, TaskType

LEMMA FailoverMoves ==
  ASSUME Rows, NEW t \in Tasks, Failover(t), UNCHANGED <<startups, fails, gates, silences>>
  PROVE  Moves
<1>1. CASE \E i \in ActiveAt(t) : disp[t][i].st = "stalled"
  <2>1. status[t] = "stalled" /\ MoveTasks({t}, "ready") /\ "ready" \in Statuses
    BY <1>1, ActiveStatus DEF Failover, Rows, Statuses
  <2>2. RowsTyped /\ \A u \in Tasks : IF u \in {t} THEN Closes(u) /\ status'[u] = "ready"
                                                  ELSE SameDisp(u) /\ status'[u] = status[u]
    BY <2>1, MoveTasksFacts DEF Rows
  <2>3. IsReleased(t) /\ \A u \in Tasks \ {t} : Stays(u)
    BY <2>1, <2>2 DEF IsReleased, Stays, From, SameGates
  <2> QED
    BY <2>2, <2>3 DEF Moves, Move, GatesTyped, Rows, TaskType
<1>2. CASE ~\E i \in ActiveAt(t) : disp[t][i].st = "stalled"
  BY <1>2, QuietMoves DEF Failover, taskVars, Rows
<1> QED
  BY <1>1, <1>2

LEMMA SweepPolicyMoves ==
  ASSUME Rows, ActorInv, SweepPolicy
  PROVE  Moves
<1>1. UNCHANGED <<startups, fails, silences>>
  BY DEF SweepPolicy
<1>2. PICK t \in actor.todo :
        \/ UNCHANGED <<status, disp, gates>>
        \/ Failover(t) /\ UNCHANGED gates
        \/ /\ status[t] = "stalled" /\ UNCHANGED <<status, disp>>
           /\ gates' = [gates EXCEPT ![t] = Append(@, NewGate("stall", t))]
  BY ConfFacts DEF SweepPolicy, Rows, TaskType
<1>3. t \in Tasks
  BY DEF SweepPolicy, ActorInv
<1>4. CASE UNCHANGED <<status, disp, gates>>
  BY <1>1, <1>4, QuietMoves DEF taskVars, Rows
<1>5. CASE Failover(t) /\ UNCHANGED gates
  BY <1>1, <1>3, <1>5, FailoverMoves
<1>6. CASE /\ status[t] = "stalled" /\ UNCHANGED <<status, disp>>
           /\ gates' = [gates EXCEPT ![t] = Append(@, NewGate("stall", t))]
  <2>1. /\ gates' \in [Tasks -> Seq(Gate)] /\ gates'[t] = Append(gates[t], NewGate("stall", t))
        /\ \A u \in Tasks : u # t => gates'[u] = gates[u]
    BY <1>3, <1>6, NewGateFacts DEF Rows
  <2>2. IsPutToPerson(t) /\ \A u \in Tasks \ {t} : Stays(u)
    BY <1>6, <2>1 DEF IsPutToPerson, Stays, From, SameDisp, SameGates
  <2> QED
    BY <1>1, <1>6, <2>1, <2>2 DEF Moves, Move, RowsTyped, GatesTyped, Rows, TaskType
<1> QED
  BY <1>2, <1>4, <1>5, <1>6

(* keepWaiting                                                             *)
LEMMA KeepWaitingMoves ==
  ASSUME Rows, NEW t \in Tasks, \E i \in DOMAIN gates[t] : gates[t][i].answer = "keepWaiting",
         status' = [status EXCEPT ![t] = IF @ = "stalled" THEN "dispatched" ELSE @],
         disp' = [disp EXCEPT ![t] = [i \in DOMAIN @ |->
                    IF @[i].st = "stalled" THEN [@[i] EXCEPT !.st = "dispatched"] ELSE @[i]]],
         UNCHANGED <<startups, fails, gates, silences>>
  PROVE  Moves
<1>1. \A i \in DOMAIN disp[t] :
        /\ disp'[t][i] \in Dispatch /\ disp'[t][i].h = disp[t][i].h
        /\ disp'[t][i].st = IF disp[t][i].st = "stalled" THEN "dispatched" ELSE disp[t][i].st
        /\ disp[t][i].st # "stalled" => disp'[t][i] = disp[t][i]
  <2> SUFFICES ASSUME NEW i \in DOMAIN disp[t]
               PROVE  /\ disp'[t][i] \in Dispatch /\ disp'[t][i].h = disp[t][i].h
                      /\ disp'[t][i].st = IF disp[t][i].st = "stalled" THEN "dispatched" ELSE disp[t][i].st
                      /\ disp[t][i].st # "stalled" => disp'[t][i] = disp[t][i]
    OBVIOUS
  <2>1. disp[t][i] \in Dispatch
    BY RowTypes DEF Rows
  <2>2. disp'[t][i] = IF disp[t][i].st = "stalled" THEN [disp[t][i] EXCEPT !.st = "dispatched"] ELSE disp[t][i]
    BY DEF Rows, TaskType
  <2> QED
    BY <2>1, <2>2 DEF Dispatch, Active
<1>2. /\ disp'[t] = [i \in DOMAIN disp[t] |-> disp'[t][i]] /\ disp' = [u \in Tasks |-> disp'[u]]
      /\ \A u \in Tasks \ {t} : disp'[u] = disp[u]
  BY DEF Rows, TaskType
<1>3. disp[t] \in Seq(Dispatch) /\ disp[t] = [i \in DOMAIN disp[t] |-> disp[t][i]]
  BY RowTypes, Unwritten DEF Rows
<1>4. disp'[t] \in Seq(Dispatch) /\ Len(disp'[t]) = Len(disp[t]) /\ DOMAIN disp'[t] = DOMAIN disp[t]
  BY ZenonT(30), <1>1, <1>2, <1>3, Rewritten
<1>5. disp' \in [Tasks -> Seq(Dispatch)] /\ \A u \in Tasks : Len(disp'[u]) <= MaxDispatches
  <2>1. \A u \in Tasks : disp[u] \in Seq(Dispatch) /\ Len(disp[u]) <= MaxDispatches
    BY DEF Rows, TaskType
  <2> QED
    BY <1>2, <1>4, <2>1
<1>6. status' \in [Tasks -> Statuses] /\ \A u \in Tasks \ {t} : status'[u] = status[u]
  BY DEF Rows, TaskType, Statuses
<1>7. \A u \in Tasks \ {t} : Stays(u)
  BY <1>2, <1>6 DEF Stays, SameDisp, SameGates
<1>8. CASE status[t] = "stalled"
  <2>1. Relabels(t, "stalled", "dispatched")
    BY <1>1, <1>4 DEF Relabels
  <2>2. status'[t] = "dispatched"
    BY <1>8 DEF Rows, TaskType
  <2>3. IsRevived(t)
    BY <1>8, <2>1, <2>2 DEF IsRevived, From, SameGates
  <2> QED
    BY <1>5, <1>6, <1>7, <2>3 DEF Moves, Move, RowsTyped, GatesTyped, Rows, TaskType
<1>9. CASE status[t] # "stalled"
  <2>1. \A i \in DOMAIN disp[t] : disp[t][i].st # "stalled"
    BY <1>9 DEF Rows, TaskInv, DispatchInv, ActiveAt, Active
  <2>2. disp'[t] = disp[t]
    BY <1>1, <1>2, <1>3, <2>1
  <2>3. status'[t] = status[t]
    BY <1>9 DEF Rows, TaskType
  <2>4. Stays(t)
    BY <2>2, <2>3 DEF Stays, SameDisp, SameGates
  <2> QED
    BY <1>5, <1>6, <1>7, <2>4 DEF Moves, Move, RowsTyped, GatesTyped, Rows, TaskType
<1> QED
  BY <1>8, <1>9

LEMMA CancelledMoves ==
  ASSUME Rows, NEW S \in SUBSET Tasks, \A t \in S : status[t] \in Begun, CancelTasks(S),
         UNCHANGED <<startups, fails, silences>>
  PROVE  Moves
<1>1. RowsTyped /\ GatesTyped /\ \A u \in Tasks : IF u \in Doomed(S) THEN IsCancelled(u) ELSE Stays(u)
  BY CancelTasksMoves DEF Rows
<1> QED
  BY <1>1 DEF Moves, Move, Rows, TaskType

LEMMA NotFinal ==
  ASSUME TaskType, NEW t \in Tasks, status[t] \notin Final \cup {"none"}
  PROVE  status[t] \in Begun
  BY DEF TaskType, Statuses, Begun

LEMMA SweepDecisionMoves ==
  ASSUME Rows, ActorInv, SweepDecision
  PROVE  Moves
<1>1. UNCHANGED <<startups, fails, silences>>
  BY DEF SweepDecision
<1>2. actor.pc = "decisions"
  BY DEF SweepDecision
<1>3. PICK g \in actor.todo :
        LET t == g[1]  answer == gates[t][g[2]].answer IN
          CASE answer = "killAndFailover" -> Failover(t) /\ UNCHANGED gates
            [] answer = "keepWaiting" ->
                 /\ status' = [status EXCEPT ![t] = IF @ = "stalled" THEN "dispatched" ELSE @]
                 /\ disp' = [disp EXCEPT ![t] = [i \in DOMAIN @ |->
                               IF @[i].st = "stalled" THEN [@[i] EXCEPT !.st = "dispatched"] ELSE @[i]]]
                 /\ UNCHANGED gates
            [] answer = "abortStage" ->
                 IF status[t] \in Final THEN UNCHANGED <<status, disp, gates>> ELSE CancelTasks({t})
  BY DEF SweepDecision
<1> DEFINE t == g[1]  answer == gates[t][g[2]].answer
<1>4. t \in Tasks /\ g[2] \in DOMAIN gates[t] /\ answer \in Decisions
  BY <1>2 DEF ActorInv
<1>5. CASE answer = "killAndFailover"
  <2>1. Failover(t) /\ UNCHANGED gates
    BY <1>3, <1>5
  <2> QED
    BY <1>1, <1>4, <2>1, FailoverMoves
<1>6. CASE answer = "keepWaiting"
  <2>1. /\ status' = [status EXCEPT ![t] = IF @ = "stalled" THEN "dispatched" ELSE @]
        /\ disp' = [disp EXCEPT ![t] = [i \in DOMAIN @ |->
                      IF @[i].st = "stalled" THEN [@[i] EXCEPT !.st = "dispatched"] ELSE @[i]]]
        /\ UNCHANGED gates
    BY <1>3, <1>6
  <2> QED
    BY <1>1, <1>4, <1>6, <2>1, KeepWaitingMoves
<1>7. CASE answer = "abortStage"
  <2>1. IF status[t] \in Final THEN UNCHANGED <<status, disp, gates>> ELSE CancelTasks({t})
    BY <1>3, <1>7
  <2>2. CASE status[t] \in Final
    BY <1>1, <2>1, <2>2, QuietMoves DEF taskVars, Rows
  <2>3. CASE status[t] \notin Final
    <3>1. status[t] # "none"
      BY <1>4 DEF Rows, TaskInv, GateInv
    <3>2. status[t] \in Begun /\ {t} \in SUBSET Tasks
      BY <1>4, <2>3, <3>1, NotFinal DEF Rows
    <3> QED
      BY <1>1, <2>1, <2>3, <3>2, CancelledMoves
  <2> QED
    BY <2>2, <2>3
<1> QED
  BY <1>4, <1>5, <1>6, <1>7 DEF Decisions

LEMMA ResolveGateMoves ==
  ASSUME Rows, NEW t \in Tasks, NEW a \in Decisions \cup {"answer"}, ResolveGate(t, a)
  PROVE  Moves
<1>1. PICK i \in DOMAIN gates[t] :
        /\ gates[t][i].st = "pending" /\ a \in IF gates[t][i].kind = "stall" THEN Decisions ELSE {"answer"}
        /\ gates' = [gates EXCEPT ![t][i].st = "resolved", ![t][i].answer = a]
        /\ status' = IF gates[t][i].kind = "decision" /\ status[t] = "blocked"
                     THEN [status EXCEPT ![t] = "ready"] ELSE status
  BY DEF ResolveGate
<1>2. UNCHANGED <<startups, fails, disp, silences>>
  BY DEF ResolveGate
<1>3. gates[t] \in Seq(Gate) /\ gates \in [Tasks -> Seq(Gate)] /\ gates[t][i] \in Gate
      /\ \A k \in DOMAIN gates[t] : gates[t][k] \in Gate
  BY RowTypes DEF Rows, TaskType
<1> DEFINE n == [gates[t][i] EXCEPT !.st = "resolved", !.answer = a]
           s == [gates[t] EXCEPT ![i] = n]
<1>4. n \in Gate /\ n.kind = gates[t][i].kind /\ n.st = "resolved" /\ n.answer = a
  BY <1>3 DEF Gate
<1>5. gates' = [gates EXCEPT ![t] = s]
  BY <1>1, <1>3
<1>6. gates'[t] = s /\ \A u \in Tasks : u # t => gates'[u] = gates[u]
  BY <1>3, <1>5
<1>7. s \in Seq(Gate) /\ DOMAIN s = DOMAIN gates[t] /\ s[i] = n /\ \A k \in DOMAIN gates[t] : k # i => s[k] = gates[t][k]
  <2> HIDE DEF n
  <2>1. s = [k \in DOMAIN gates[t] |-> s[k]] /\ \A k \in DOMAIN gates[t] : s[k] \in Gate
    BY <1>3, <1>4
  <2>2. s[i] = n /\ \A k \in DOMAIN gates[t] : k # i => s[k] = gates[t][k]
    BY <1>3
  <2> HIDE DEF s
  <2> QED
    BY <1>3, <2>1, <2>2, Rewritten
<1> HIDE DEF s, n
<1>8. gates' \in [Tasks -> Seq(Gate)]
  BY <1>3, <1>5, <1>7
<1>9. Answers(t, i, a)
  <2>1. gates[t][i].st = "pending" /\ a \in IF gates[t][i].kind = "stall" THEN Decisions ELSE {"answer"}
    BY <1>1
  <2>2. /\ DOMAIN gates'[t] = DOMAIN gates[t] /\ gates'[t][i] = n
        /\ \A k \in DOMAIN gates[t] : k # i => gates'[t][k] = gates[t][k]
    BY <1>6, <1>7
  <2> QED
    BY <1>4, <2>1, <2>2 DEF Answers
<1>10. /\ status' \in [Tasks -> Statuses] /\ \A u \in Tasks \ {t} : status'[u] = status[u]
       /\ status'[t] = IF gates[t][i].kind = "decision" /\ status[t] = "blocked" THEN "ready" ELSE status[t]
  BY <1>1 DEF Rows, TaskType, Statuses
<1>11. IsAnswered(t) /\ \A u \in Tasks \ {t} : Stays(u)
  BY <1>2, <1>6, <1>9, <1>10 DEF IsAnswered, Stays, SameDisp, SameGates
<1> QED
  BY <1>2, <1>8, <1>10, <1>11 DEF Moves, Move, RowsTyped, GatesTyped, Rows, TaskType

LEMMA RecoverTaskMoves ==
  ASSUME Rows, NEW t \in Tasks, NEW to \in {"ready", "failed"}, RecoverTask(t, to)
  PROVE  Moves
<1>1. status[t] = "stalled" /\ UNCHANGED <<startups, fails, gates, silences>>
  BY DEF RecoverTask
<1>2. CASE to = "ready"
  <2>1. MoveTasks({t}, "ready") /\ "ready" \in Statuses
    BY <1>2 DEF RecoverTask, Statuses
  <2>2. RowsTyped /\ \A u \in Tasks : IF u \in {t} THEN Closes(u) /\ status'[u] = "ready"
                                                  ELSE SameDisp(u) /\ status'[u] = status[u]
    BY <2>1, MoveTasksFacts DEF Rows
  <2>3. IsReleased(t) /\ \A u \in Tasks \ {t} : Stays(u)
    BY <1>1, <2>2 DEF IsReleased, Stays, From, SameGates
  <2> QED
    BY <1>1, <2>2, <2>3 DEF Moves, Move, GatesTyped, Rows, TaskType
<1>3. CASE to = "failed"
  <2>1. status' = Settled(t, "failed") /\ disp' = CloseAll({t}, "failed") /\ "failed" \in Closed
    BY <1>3 DEF RecoverTask, Closed
  <2>2. /\ disp' \in [Tasks -> Seq(Dispatch)] /\ \A u \in Tasks : Len(disp'[u]) <= MaxDispatches
        /\ Closes(t) /\ \A u \in Tasks \ {t} : SameDisp(u)
    BY <2>1, CloseAllMoves DEF Rows
  <2>3. ClosesOne(t)
    <3>1. /\ status' \in [Tasks -> Statuses] /\ status'[t] = "failed"
          /\ \A u \in Tasks \ {t} : status'[u] = status[u] \/ From(u, {"pending"}, {"ready", "failed"})
      BY <2>1, SettledFacts DEF From, Rows
    <3>2. From(t, {"dispatched", "stalled"}, {"ready", "completed", "failed"}) /\ Settles(t, status'[t])
      BY <1>1, <2>1, <3>1 DEF From, Settles
    <3> QED
      BY <2>2, <3>1, <3>2 DEF ClosesOne, RowsTyped
  <2>4. \A u \in Tasks : Move(u)
    BY <1>1, <2>3, ClosesOneMoves DEF SameGates
  <2> QED
    BY <1>1, <2>3, <2>4 DEF Moves, ClosesOne, GatesTyped, Rows, TaskType
<1> QED
  BY <1>2, <1>3

LEMMA InterruptedMoves ==
  ASSUME Rows, CancelTasks(Interrupted), UNCHANGED <<startups, fails, silences>>
  PROVE  Moves
<1>1. Interrupted \in SUBSET Tasks /\ \A t \in Interrupted : status[t] \in Begun
  BY DEF Interrupted, Begun
<1> QED
  BY <1>1, CancelledMoves

LEMMA CancelRunMoves ==
  ASSUME Rows, CancelRun
  PROVE  Moves
<1> DEFINE open == {t \in Tasks : status[t] \notin Final \cup {"none"}}
<1>1. /\ status' = [t \in Tasks |-> IF t \in open THEN "cancelled" ELSE status[t]]
      /\ disp' = CloseAll(open, "cancelled") /\ gates' = CloseGates(Tasks, "invalidated")
      /\ UNCHANGED <<startups, fails, silences>>
  BY DEF CancelRun, histVars
<1>2. \A u \in open : u \in Tasks /\ status[u] \in Begun
  BY NotFinal DEF Rows
<1>3. \A u \in Tasks : u \notin open => status[u] \in Final \/ (status[u] = "none" /\ gates[u] = <<>>)
  BY DEF Rows, TaskInv, GateInv
<1> HIDE DEF open
<1>4. /\ disp' \in [Tasks -> Seq(Dispatch)] /\ \A u \in Tasks : Len(disp'[u]) <= MaxDispatches
      /\ \A u \in Tasks : IF u \in open THEN Closes(u) ELSE SameDisp(u)
  <2>1. "cancelled" \in Closed
    BY DEF Closed
  <2> QED
    BY <1>1, <2>1, CloseAllMoves DEF Rows
<1>5. GatesTyped /\ \A u \in Tasks : Expires(u)
  BY <1>1, CloseGatesMoves DEF Rows
<1>6. /\ status' \in [Tasks -> Statuses]
      /\ \A u \in Tasks : IF u \in open THEN status'[u] = "cancelled" ELSE status'[u] = status[u]
  BY <1>1 DEF Rows, TaskType, Statuses, Final
<1>7. ASSUME NEW u \in Tasks, gates[u] = <<>> PROVE SameGates(u)
  <2>1. DOMAIN gates[u] = {}
    BY <1>7
  <2> QED
    BY <1>1, <2>1, CloseGatesMoves DEF Rows
<1>8. CancelsAll
  <2>1. \A u \in Tasks : u \in open <=> status[u] \in Begun
    BY <1>2, <1>3 DEF Begun, Final
  <2> QED
    BY <1>1, <2>1 DEF CancelsAll
<1>9. ASSUME NEW u \in Tasks PROVE Move(u)
  <2>1. CASE u \in open
    BY <1>2, <1>4, <1>5, <1>6, <1>8, <2>1 DEF Move, IsCancelled, From
  <2>2. CASE u \notin open /\ status[u] \in Final
    BY <1>4, <1>5, <1>6, <2>2 DEF Move, IsInvalidated
  <2>3. CASE u \notin open /\ gates[u] = <<>>
    BY <1>4, <1>6, <1>7, <2>3 DEF Move, Stays
  <2> QED
    BY <1>3, <2>1, <2>2, <2>3
<1> QED
  BY <1>1, <1>4, <1>5, <1>6, <1>9 DEF Moves, RowsTyped, Rows, TaskType

-----------------------------------------------------------------------------
(* All actions.                                                            *)

LEMMA TickMoves ==
  ASSUME Rows, HostType, ActorInv, Tick
  PROVE  Moves
<1>1. CASE TickStarts \/ TickSchedule \/ TickDispatched \/ TickConverge
  BY <1>1, QuietMoves DEF TickStarts, TickSchedule, TickDispatched, TickConverge, TickOnly, Rows
<1> QED
  BY <1>1, TickMessageMoves, TickGateBlocksMoves, TickDispatchMoves, TickDispatchFailsMoves DEF Tick

LEMMA SweepMoves ==
  ASSUME Rows, HostType, ActorInv, Sweep
  PROVE  Moves
<1>1. CASE SweepSettles \/ SweepEnds
  BY <1>1, QuietMoves DEF SweepSettles, SweepEnds, Rows
<1> QED
  BY <1>1, SweepStartsMoves, SweepLeasesMoves, SweepPolicyMoves, SweepDecisionMoves DEF Sweep

LEMMA WorkerMoves ==
  ASSUME Rows, NEW h \in Terms, Worker(h)
  PROVE  Moves
<1>1. CASE (\E kind \in {"escalation", "gate"} : WorkerWrites(h, kind)) \/ TurnBegins(h) \/ TurnEnds(h)
  BY <1>1, QuietMoves DEF WorkerWrites, TurnBegins, TurnEnds, Rows
<1> QED
  BY <1>1, WorkerTouchesMoves, WorkerCompletesMoves, WorkerFailsMoves, TerminalOutputMoves,
     TerminalExitsMoves DEF Worker

LEMMA PeopleMoves ==
  ASSUME Rows, People
  PROVE  Moves
<1>1. ASSUME NEW t \in Tasks, CreateGate(t) PROVE Moves
  BY <1>1, BlocksMoves DEF CreateGate, Blocks
<1>2. ASSUME NEW t \in Tasks, CancelTask(t) PROVE Moves
  <2>1. {t} \in SUBSET Tasks /\ status[t] \in Begun
    BY <1>2, NotFinal DEF CancelTask, Rows
  <2>2. CancelTasks({t}) /\ UNCHANGED <<startups, fails, silences>>
    BY <1>2 DEF CancelTask
  <2> QED
    BY <2>1, <2>2, CancelledMoves
<1>3. ASSUME NEW t \in Tasks, NEW h \in Terms, ManualDispatch(t, h) PROVE Moves
  BY <1>3, DispatchedMoves DEF ManualDispatch
<1>4. ASSUME NEW from, NEW to, Control(from, to) PROVE Moves
  BY <1>4, QuietMoves DEF Control, Rows
<1>5. ASSUME NEW seen, CancelRunInterrupts(seen) PROVE Moves
  BY <1>5, InterruptedMoves DEF CancelRunInterrupts
<1>6. CASE CancelRunRefused
  BY <1>6, QuietMoves DEF CancelRunRefused, Rows
<1>7. ASSUME NEW b \in BOOLEAN, StopRun(b) PROVE Moves
  <2>1. CASE b
    BY <1>7, <2>1, InterruptedMoves DEF StopRun
  <2>2. CASE ~b
    BY <1>7, <2>2, QuietMoves DEF StopRun, taskVars, Rows
  <2> QED
    BY <2>1, <2>2
<1> QED
  BY <1>1, <1>2, <1>3, <1>4, <1>5, <1>6, <1>7, DelegateMoves, ResolveGateMoves, RecoverTaskMoves,
     CancelRunMoves DEF People

LEMMA NextMoves ==
  ASSUME Rows, HostType, ActorInv, [Next]_vars
  PROVE  Moves
<1>1. CASE Crash \/ UNCHANGED vars
  BY <1>1, QuietMoves DEF Crash, vars, histVars, Rows
<1> QED
  BY <1>1, TickMoves, SweepMoves, WorkerMoves, PeopleMoves DEF Next

-----------------------------------------------------------------------------
(* What relates tasks to each other: terminals and dependencies.           *)

(* An open dispatch was open before, on the same terminal, unless its task *)
(* has just been handed out.                                               *)
LEMMA OpenBefore ==
  ASSUME Rows, NEW u \in Tasks, Move(u), ~IsHanded(u), NEW i \in DOMAIN disp'[u], disp'[u][i].st \in Active
  PROVE  i \in ActiveAt(u) /\ disp'[u][i].h = disp[u][i].h
<1> USE DEF ActiveAt
<1>1. CASE SameDisp(u)
  BY <1>1 DEF SameDisp
<1>2. CASE Closes(u)
  BY <1>2 DEF Closes
<1>3. CASE \E from \in Active : \E to : Relabels(u, from, to)
  BY <1>3 DEF Relabels
<1>4. CASE FailsToStart(u)
  <2>1. PICK h \in Terms : disp'[u] = Append(disp[u], [h |-> h, st |-> "startup_failed"])
    BY <1>4 DEF FailsToStart
  <2>2. "startup_failed" \in Closed /\ "startup_failed" \notin Active
    BY DEF Closed, Active
  <2> QED
    BY <2>1, <2>2, GrownDispatches DEF Rows
<1>5. SameDisp(u) \/ Closes(u) \/ FailsToStart(u) \/ \E from \in Active : \E to : Relabels(u, from, to)
  BY DEF Move, Stays, Enters, EndsWait, IsAccepted, IsRevived, FallsSilent, IsReleased, IsBlocked,
     IsCancelled, IsInvalidated, IsPutToPerson, IsAnswered, Active
<1> QED
  BY <1>1, <1>2, <1>3, <1>4, <1>5

LEMMA TerminalStep ==
  ASSUME Rows, TerminalInv, \A u \in Tasks : Move(u), Tasks' = Tasks
  PROVE  TerminalInv'
<1> SUFFICES ASSUME NEW t \in Tasks, NEW u \in Tasks, NEW i \in ActiveAt(t)', NEW k \in ActiveAt(u)',
                    disp'[t][i].h = disp'[u][k].h
             PROVE  t = u /\ i = k
  BY DEF TerminalInv
<1>1. /\ i \in DOMAIN disp'[t] /\ disp'[t][i].st \in Active
      /\ k \in DOMAIN disp'[u] /\ disp'[u][k].st \in Active
  BY DEF ActiveAt, Active
<1>2. CASE ~IsHanded(t) /\ ~IsHanded(u)
  BY <1>1, <1>2, OpenBefore DEF TerminalInv
<1>3. ASSUME NEW v \in Tasks, NEW w \in Tasks, IsHanded(v), NEW x \in DOMAIN disp'[v], NEW y \in DOMAIN disp'[w],
             disp'[v][x].st \in Active, disp'[w][y].st \in Active, disp'[v][x].h = disp'[w][y].h
      PROVE  v = w /\ x = y
  <2>1. PICK h \in Terms : JobsOf(h) = {} /\ disp'[v] = Append(disp[v], [h |-> h, st |-> "awaiting"])
    BY <1>3 DEF IsHanded
  <2>2. PICK n : /\ n \notin DOMAIN disp[v] /\ DOMAIN disp'[v] = DOMAIN disp[v] \cup {n}
                 /\ disp'[v][n].st = "awaiting" /\ disp'[v][n].h = h
                 /\ \A z \in DOMAIN disp[v] : disp'[v][z] = disp[v][z]
    BY <2>1, GrownDispatches DEF Rows, Active
  <2>3. \A z \in DOMAIN disp[v] : disp[v][z].st \notin Active
    BY <1>3 DEF IsHanded, From, Rows, TaskInv, DispatchInv, ActiveAt
  <2>4. x = n /\ (v = w => y = n)
    BY <1>3, <2>2, <2>3
  <2>5. CASE v # w
    <3>1. y \in ActiveAt(w) /\ disp[w][y].h = h
      BY <1>3, <2>2, <2>4, <2>5 DEF IsHanded, SameDisp, ActiveAt
    <3>2. <<w, y>> \in JobsOf(h)
      BY <3>1, Jobs DEF Rows
    <3> QED
      BY <2>1, <3>2
  <2> QED
    BY <2>4, <2>5
<1>4. CASE IsHanded(t)
  BY <1>1, <1>3, <1>4
<1>5. CASE IsHanded(u)
  BY <1>1, <1>3, <1>5
<1> QED
  BY <1>2, <1>4, <1>5

(* A task begins, ends or is cancelled with the tasks that wait for it.    *)
Held == {"ready", "dispatched", "blocked", "stalled"}

LEMMA HeldDeps ==
  ASSUME TaskType, DepsInv, \A u \in Tasks : status'[u] = status[u] \/ (status[u] \in Held /\ status'[u] \in Held),
         conf' = conf
  PROVE  DepsInv'
<1>1. Tasks' = Tasks /\ Deps' = Deps /\ \A t \in Tasks : Deps[t] \subseteq Tasks
  BY ConfFacts DEF Tasks, Deps, TaskType
<1> SUFFICES ASSUME NEW t \in Tasks
             PROVE  /\ status'[t] # "none" => \A d \in Deps[t] : status'[d] # "none"
                    /\ status'[t] \in Held \cup {"completed"} => \A d \in Deps[t] : status'[d] = "completed"
                    /\ status'[t] = "pending" => /\ \A d \in Deps[t] : status'[d] \notin {"failed", "cancelled"}
                                                 /\ \E d \in Deps[t] : status'[d] # "completed"
  BY <1>1 DEF DepsInv, Held
<1> QED
  BY <1>1 DEF DepsInv, Held

LEMMA EnterDeps ==
  ASSUME TaskType, DepsInv, NEW e \in Tasks, Enters(e), conf' = conf
  PROVE  DepsInv'
<1>1. Tasks' = Tasks /\ Deps' = Deps /\ \A t \in Tasks : Deps[t] \subseteq Tasks
  BY ConfFacts DEF Tasks, Deps, TaskType
<1>2. /\ status[e] = "none" /\ status'[e] = StatusForDeps(e) /\ \A u \in Tasks \ {e} : status'[u] = status[u]
      /\ \A d \in Deps[e] : status[d] # "none" /\ d # e
  BY DEF Enters, From, TaskType
<1>3. status'[e] \in {"pending", "ready", "failed", "cancelled"}
  BY DEF Enters, From
<1> SUFFICES ASSUME NEW t \in Tasks
             PROVE  /\ status'[t] # "none" => \A d \in Deps[t] : status'[d] # "none"
                    /\ status'[t] \in Held \cup {"completed"} => \A d \in Deps[t] : status'[d] = "completed"
                    /\ status'[t] = "pending" => /\ \A d \in Deps[t] : status'[d] \notin {"failed", "cancelled"}
                                                 /\ \E d \in Deps[t] : status'[d] # "completed"
  BY <1>1 DEF DepsInv, Held
<1>4. CASE t = e
  BY <1>1, <1>2, <1>3, <1>4 DEF StatusForDeps, Held
<1>5. CASE t # e
  <2>1. status[t] # "none" => e \notin Deps[t]
    BY <1>2 DEF DepsInv
  <2> QED
    BY <1>1, <1>2, <1>3, <1>5, <2>1 DEF DepsInv, Held
<1> QED
  BY <1>4, <1>5

LEMMA SettleDeps ==
  ASSUME TaskType, DepsInv, NEW e \in Tasks, NEW st \in {"completed", "failed"}, Settles(e, st), conf' = conf
  PROVE  DepsInv'
<1> DEFINE waiting == {v \in Tasks : status[v] = "pending"}
           R == Reached(e, waiting)
<1>1. Tasks' = Tasks /\ Deps' = Deps /\ \A t \in Tasks : Deps[t] \subseteq Tasks
  BY ConfFacts DEF Tasks, Deps, TaskType
<1>2. R \subseteq waiting /\ \A v \in waiting : (e \in Deps[v] \/ Deps[v] \cap R # {}) => v \in R
  BY ReachedClosed
<1>3. /\ status[e] \in {"dispatched", "stalled"}
      /\ status' = [u \in Tasks |->
           IF u = e THEN st
           ELSE IF /\ st = "completed" /\ status[u] = "pending" /\ e \in Deps[u]
                   /\ \A d \in Deps[u] \ {e} : status[d] = "completed"
             THEN "ready"
           ELSE IF st = "failed" /\ u \in R THEN "failed"
           ELSE status[u]]
  BY DEF Settles, Settled
<1> HIDE DEF R
<1> SUFFICES ASSUME NEW t \in Tasks
             PROVE  /\ status'[t] # "none" => \A d \in Deps[t] : status'[d] # "none"
                    /\ status'[t] \in Held \cup {"completed"} => \A d \in Deps[t] : status'[d] = "completed"
                    /\ status'[t] = "pending" => /\ \A d \in Deps[t] : status'[d] \notin {"failed", "cancelled"}
                                                 /\ \E d \in Deps[t] : status'[d] # "completed"
  BY <1>1 DEF DepsInv, Held
<1>4. \A u \in Tasks : /\ status[u] = "completed" => status'[u] = "completed"
                       /\ status[u] # "none" => status'[u] # "none"
  BY <1>2, <1>3
<1>5. status[t] # "none" => \A d \in Deps[t] : status[d] # "none"
  BY DEF DepsInv
<1>6. status[t] \in Held \cup {"completed"} => \A d \in Deps[t] : status[d] = "completed"
  BY DEF DepsInv, Held
<1>7. status[t] = "pending" => /\ \A d \in Deps[t] : status[d] \notin {"failed", "cancelled"}
                               /\ \E d \in Deps[t] : status[d] # "completed"
  BY DEF DepsInv
<1>8. CASE st = "completed"
  <2>1. \A u \in Tasks : status'[u] \in {"failed", "cancelled"} => status[u] = status'[u]
    BY <1>3, <1>8
  <2>2. \A u \in Tasks : status'[u] = "completed" => status[u] = "completed" \/ u = e
    BY <1>3, <1>8
  <2>3. status'[t] = "pending" =>
          /\ status[t] = "pending"
          /\ e \in Deps[t] => \E d \in Deps[t] \ {e} : status[d] # "completed"
    BY <1>3, <1>8
  <2>4. status'[t] \in Held \cup {"completed"} => \A d \in Deps[t] : status'[d] = "completed"
    <3>1. CASE status[t] \in Held \cup {"completed"}
      BY <1>1, <1>4, <1>6, <3>1
    <3>2. CASE status[t] \notin Held \cup {"completed"}
      <4>1. t # e
        BY <1>3, <3>2 DEF Held
      <4>2. status'[t] \in Held \cup {"completed"} => \A d \in Deps[t] \ {e} : status[d] = "completed"
        BY <1>3, <1>8, <3>2, <4>1
      <4> QED
        BY <1>1, <1>3, <1>4, <1>8, <4>2
    <3> QED
      BY <3>1, <3>2
  <2>5. status'[t] # "none" => \A d \in Deps[t] : status'[d] # "none"
    <3>1. status'[t] # "none" => status[t] # "none"
      BY <1>3, <1>8
    <3> QED
      BY <1>1, <1>4, <1>5, <3>1
  <2>6. status'[t] = "pending" => /\ \A d \in Deps[t] : status'[d] \notin {"failed", "cancelled"}
                                  /\ \E d \in Deps[t] : status'[d] # "completed"
    BY <1>1, <1>7, <2>1, <2>2, <2>3
  <2> QED
    BY <2>4, <2>5, <2>6
<1>9. CASE st = "failed"
  <2>1. \A u \in Tasks : u # e /\ u \notin R => status'[u] = status[u]
    BY <1>3, <1>9
  <2>2. \A u \in Tasks : u = e \/ u \in R => status'[u] = "failed" /\ status[u] # "completed"
    BY <1>2, <1>3, <1>9
  <2>3. CASE t = e \/ t \in R
    <3>1. status[t] # "none"
      BY <1>2, <1>3, <2>3
    <3>2. status'[t] = "failed"
      BY <2>2, <2>3
    <3> QED
      BY <1>1, <1>4, <1>5, <3>1, <3>2 DEF Held
  <2>4. CASE t # e /\ t \notin R
    <3>1. status'[t] = status[t]
      BY <2>1, <2>4
    <3>2. status[t] = "pending" => e \notin Deps[t] /\ Deps[t] \cap R = {}
      BY <1>2, <2>4
    <3>3. status[t] = "pending" => \A d \in Deps[t] : status'[d] = status[d]
      BY <1>1, <2>1, <3>2
    <3> QED
      BY <1>1, <1>4, <1>5, <1>6, <1>7, <3>1, <3>3
  <2> QED
    BY <2>3, <2>4
<1> QED
  BY <1>8, <1>9

LEMMA CancelDeps ==
  ASSUME TaskType, DepsInv, NEW S \in SUBSET Tasks, Cancels(S), conf' = conf
  PROVE  DepsInv'
<1> DEFINE open == {u \in Tasks : status[u] \in {"pending", "ready", "blocked", "stalled"}}
           D == Doomed(S)
<1>1. Tasks' = Tasks /\ Deps' = Deps /\ \A t \in Tasks : Deps[t] \subseteq Tasks
  BY ConfFacts DEF Tasks, Deps, TaskType
<1>2. \A t \in S : Reached(t, open) \subseteq open /\ Reached(t, open) \subseteq D
  BY ReachedClosed DEF Doomed
<1>3. D \subseteq Tasks /\ S \subseteq D /\ \A u \in D : u \in S \/ \E t \in S : u \in Reached(t, open)
  BY <1>2 DEF Doomed
<1>4. \A u \in D : status[u] \in Begun
  BY <1>2, <1>3 DEF Cancels, Begun
<1>5. ASSUME NEW v \in open, Deps[v] \cap D # {} PROVE v \in D
  <2>1. PICK d \in Deps[v] : d \in D
    BY <1>5
  <2>2. CASE d \in S
    <3>1. v \in Reached(d, open)
      BY <2>2, ReachedClosed
    <3> QED
      BY <1>2, <2>2, <3>1
  <2>3. CASE d \notin S
    <3>1. PICK t \in S : d \in Reached(t, open)
      BY <1>3, <2>1, <2>3
    <3>2. v \in Reached(t, open)
      BY <3>1, ReachedClosed
    <3> QED
      BY <1>2, <3>1, <3>2
  <2> QED
    BY <2>2, <2>3
<1>6. status' = [t \in Tasks |-> IF t \in D THEN "cancelled" ELSE status[t]]
  BY DEF Cancels
<1> HIDE DEF D
<1> SUFFICES ASSUME NEW t \in Tasks
             PROVE  /\ status'[t] # "none" => \A d \in Deps[t] : status'[d] # "none"
                    /\ status'[t] \in Held \cup {"completed"} => \A d \in Deps[t] : status'[d] = "completed"
                    /\ status'[t] = "pending" => /\ \A d \in Deps[t] : status'[d] \notin {"failed", "cancelled"}
                                                 /\ \E d \in Deps[t] : status'[d] # "completed"
  BY <1>1 DEF DepsInv, Held
<1>7. CASE t \in D
  BY <1>1, <1>4, <1>6, <1>7 DEF DepsInv, Held, Begun
<1>8. CASE t \notin D
  <2>1. status'[t] = status[t]
    BY <1>6, <1>8
  <2>2. status[t] = "pending" => \A d \in Deps[t] : status'[d] = status[d]
    BY <1>1, <1>5, <1>6, <1>8
  <2>3. \A u \in Tasks : /\ status[u] = "completed" => status'[u] = "completed"
                         /\ status[u] # "none" => status'[u] # "none"
    BY <1>4, <1>6 DEF Begun
  <2> QED
    BY <1>1, <2>1, <2>2, <2>3 DEF DepsInv, Held
<1> QED
  BY <1>7, <1>8

LEMMA CancelAllDeps ==
  ASSUME TaskType, DepsInv, CancelsAll, conf' = conf
  PROVE  DepsInv'
<1>1. Tasks' = Tasks /\ Deps' = Deps /\ \A t \in Tasks : Deps[t] \subseteq Tasks
  BY ConfFacts DEF Tasks, Deps, TaskType
<1>2. status' = [t \in Tasks |-> IF status[t] \in Begun THEN "cancelled" ELSE status[t]]
  BY DEF CancelsAll
<1> QED
  BY <1>1, <1>2 DEF DepsInv, Begun

LEMMA DepsStep ==
  ASSUME TaskType, DepsInv, \A u \in Tasks : Move(u), conf' = conf
  PROVE  DepsInv'
<1>1. ASSUME NEW u \in Tasks
      PROVE  \/ status'[u] = status[u] \/ (status[u] \in Held /\ status'[u] \in Held)
             \/ Enters(u) \/ CancelsAll \/ (\E S \in SUBSET Tasks : Cancels(S))
             \/ \E t \in Tasks, st \in {"completed", "failed"} : Settles(t, st)
  <2> USE DEF From, Held
  <2>1. CASE Stays(u) \/ Enters(u) \/ EndsWait(u) \/ IsHanded(u) \/ FailsToStart(u) \/ IsAccepted(u)
    BY <2>1 DEF Stays, EndsWait, IsHanded, FailsToStart, IsAccepted
  <2>2. CASE IsRevived(u) \/ FallsSilent(u) \/ IsBlocked(u) \/ IsInvalidated(u) \/ IsPutToPerson(u)
    BY <2>2 DEF IsRevived, FallsSilent, IsBlocked, IsInvalidated, IsPutToPerson
  <2>3. CASE IsReleased(u)
    BY <2>3 DEF IsReleased
  <2>4. CASE IsCancelled(u)
    BY <2>4 DEF IsCancelled
  <2>5. CASE IsAnswered(u)
    BY <2>5 DEF IsAnswered
  <2> QED
    BY <2>1, <2>2, <2>3, <2>4, <2>5 DEF Move
<1> QED
  BY <1>1, HeldDeps, EnterDeps, SettleDeps, CancelDeps, CancelAllDeps

-----------------------------------------------------------------------------
(* The host: the run, the terminals and the command in progress.           *)

LEMMA SameConf ==
  ASSUME [Next]_vars
  PROVE  /\ conf' = conf /\ Tasks' = Tasks /\ Terms' = Terms /\ Deps' = Deps /\ StallPolicy' = StallPolicy
         /\ MaxConcurrent' = MaxConcurrent /\ MaxDispatches' = MaxDispatches
<1>1. Tick => conf' = conf
  BY DEF Tick, TickStarts, TickMessage, TickGateBlocks, TickSchedule, TickDispatch, TickDispatchFails,
     TickDispatched, TickConverge, TickOnly
<1>2. Sweep => conf' = conf
  BY DEF Sweep, SweepStarts, SweepLeases, SweepPolicy, SweepSettles, SweepDecision, SweepEnds, SweepOnly
<1>3. ASSUME NEW h, Worker(h) PROVE conf' = conf
  BY <1>3 DEF Worker, WorkerTouches, WorkerCompletes, WorkerFails, WorkerWrites, TerminalOutput, TurnBegins,
     TurnEnds, TerminalExits, Works, Unasked, Command
<1>4. People => conf' = conf
  BY DEF People, Delegate, CreateGate, CancelTask, ManualDispatch, ResolveGate, RecoverTask, Control,
     CancelRunInterrupts, CancelRun, CancelRunRefused, StopRun, Asked, Unasked, Command, histVars
<1>5. Crash \/ UNCHANGED vars => conf' = conf
  BY DEF Crash, vars, histVars
<1>6. conf' = conf
  BY <1>1, <1>2, <1>3, <1>4, <1>5 DEF Next
<1> QED
  BY <1>6 DEF Tasks, Terms, Deps, StallPolicy, MaxConcurrent, MaxDispatches

LEMMA RowsStep ==
  ASSUME TaskType, Moves, conf' = conf
  PROVE  TaskType'
  BY DEF TaskType, Moves, RowsTyped, GatesTyped, Tasks, Terms, Dispatch, MaxDispatches

RunTyped == run \in {"running", "paused"} \cup Final /\ sequence \in Nat /\ loop \in BOOLEAN
InboxTyped == inbox \subseteq [kind : {"escalation", "gate"}, job : Tasks \X Nat]
TermTyped == term \in [Terms -> {"gone", "idle", "busy"}] /\ work \in [Terms -> {NoJob} \cup (Tasks \X Nat)]
ActorTyped ==
  /\ actor = [pc |-> actor.pc, todo |-> actor.todo, slots |-> actor.slots, free |-> actor.free]
  /\ actor.pc \in Pcs /\ actor.slots \in Nat /\ actor.free \subseteq Terms
CountsTyped == commands \in Nat /\ exits \in Nat /\ crashes \in Nat

LEMMA HostParts == HostType <=> RunTyped /\ InboxTyped /\ TermTyped /\ ActorTyped /\ CountsTyped
  BY DEF HostType, RunTyped, InboxTyped, TermTyped, ActorTyped, CountsTyped

LEMMA GotoTyped ==
  ASSUME NEW pc \in Pcs, NEW todo, Goto(pc, todo)
  PROVE  ActorTyped' /\ actor'.pc = pc /\ actor'.todo = todo
  BY DEF Goto, ActorTyped

LEMMA OccupiedFacts ==
  ASSUME TaskType
  PROVE  /\ Occupied \in Nat /\ Cardinality(Running) \in Nat /\ Cardinality(Running) <= Occupied
         /\ IsFiniteSet(Running)
<1> DEFINE O == {t \in Tasks : status[t] \in {"dispatched", "stalled"}}
<1>1. IsFiniteSet(Tasks) /\ O \subseteq Tasks /\ Running \subseteq O
  BY ConfFacts DEF Running, TaskType
<1>2. IsFiniteSet(O)
  BY <1>1, FS_Subset
<1>3. IsFiniteSet(Running) /\ Cardinality(Running) <= Cardinality(O)
  BY <1>1, <1>2, FS_Subset
<1> QED
  BY <1>2, <1>3, FS_CardinalityType DEF Occupied

LEMMA TookFacts ==
  ASSUME ActorTyped, NEW t, NEW h, NEW n \in {0, 1}, actor.slots > 0, Took(t, h, n), Terms' = Terms
  PROVE  /\ ActorTyped' /\ actor'.pc = actor.pc /\ actor'.todo = actor.todo \ {t}
         /\ actor'.slots = actor.slots - n
<1>1. actor = [pc |-> actor.pc, todo |-> actor.todo, slots |-> actor.slots, free |-> actor.free]
      /\ actor.pc \in Pcs /\ actor.slots \in Nat /\ actor.free \subseteq Terms
  BY DEF ActorTyped
<1> DEFINE p == actor.pc  o == actor.todo  s == actor.slots  f == actor.free
<1>2. actor' = [pc |-> p, todo |-> o \ {t}, slots |-> s - n, free |-> f \ {h}]
  BY <1>1 DEF Took
<1> HIDE DEF p, o, s, f
<1>3. actor'.pc = p /\ actor'.todo = o \ {t} /\ actor'.slots = s - n /\ actor'.free = f \ {h}
  BY <1>2
<1>4. s - n \in Nat /\ f \ {h} \subseteq Terms /\ p \in Pcs
  BY <1>1 DEF p, s, f
<1> QED
  BY <1>2, <1>3, <1>4 DEF ActorTyped, p, o, s

LEMMA ActorTypedStep ==
  ASSUME TaskType, ActorTyped, [Next]_vars
  PROVE  ActorTyped'
<1> USE DEF Pcs
<1>0. Terms' = Terms
  BY SameConf
<1>1. CASE UNCHANGED actor
  BY <1>0, <1>1 DEF ActorTyped
<1>2. CASE TickDispatch \/ TickDispatchFails
  BY <1>0, <1>2, TookFacts DEF TickDispatch, TickDispatchFails
<1>3. CASE TickSchedule
  <2>1. CASE \E pc \in Pcs : \E todo : Goto(pc, todo)
    BY <2>1, GotoTyped
  <2>2. CASE /\ Occupied < MaxConcurrent
             /\ \E ready : actor' = [pc |-> "dispatch", todo |-> ready,
                              slots |-> MaxConcurrent - Occupied, free |-> FreeTerms]
    <3>1. MaxConcurrent - Occupied \in Nat /\ FreeTerms \subseteq Terms
      BY <2>2, OccupiedFacts, ConfFacts DEF TaskType, FreeTerms
    <3> QED
      BY <1>0, <2>2, <3>1 DEF ActorTyped
  <2>3. Occupied \in Nat /\ MaxConcurrent \in Nat
    BY OccupiedFacts, ConfFacts DEF TaskType
  <2>4. \/ \E pc \in Pcs : \E todo : Goto(pc, todo)
        \/ /\ ~(Occupied >= MaxConcurrent)
           /\ \E ready : actor' = [pc |-> "dispatch", todo |-> ready,
                              slots |-> MaxConcurrent - Occupied, free |-> FreeTerms]
    BY <1>3 DEF TickSchedule, Done
  <2> QED
    BY <2>1, <2>2, <2>3, <2>4
<1>4. CASE \E pc \in Pcs : \E todo : Goto(pc, todo)
  BY <1>4, GotoTyped
<1>5. Tick => UNCHANGED actor \/ TickDispatch \/ TickDispatchFails \/ TickSchedule \/ \E pc \in Pcs : \E todo : Goto(pc, todo)
  BY DEF Tick, TickStarts, TickMessage, TickGateBlocks, TickDispatched, TickConverge, Done
<1>6. Sweep => \E pc \in Pcs : \E todo : Goto(pc, todo)
  BY DEF Sweep, SweepStarts, SweepLeases, SweepPolicy, SweepSettles, SweepDecision, SweepEnds, Done
<1>7. \A h \in Terms : Worker(h) => UNCHANGED actor
  BY DEF Worker, WorkerTouches, WorkerCompletes, WorkerFails, WorkerWrites, TerminalOutput, TurnBegins,
     TurnEnds, TerminalExits, Works, Unasked, Command
<1>8. People => UNCHANGED actor \/ \E pc \in Pcs : \E todo : Goto(pc, todo)
  BY DEF People, Delegate, CreateGate, CancelTask, ManualDispatch, ResolveGate, RecoverTask, Control,
     CancelRunInterrupts, CancelRun, CancelRunRefused, StopRun, Asked, Unasked, Command, Done
<1>9. Crash \/ UNCHANGED vars => UNCHANGED actor \/ \E pc \in Pcs : \E todo : Goto(pc, todo)
  BY DEF Crash, vars, Done
<1> QED
  BY <1>1, <1>2, <1>3, <1>4, <1>5, <1>6, <1>7, <1>8, <1>9 DEF Next

LEMMA RunTypedStep ==
  ASSUME RunTyped, [Next]_vars
  PROVE  RunTyped'
<1> USE DEF RunTyped, runVars
<1>1. Verdict \in Final
  BY DEF Verdict, Final
<1>2. CASE UNCHANGED runVars
  BY <1>2
<1>3. ASSUME Tick PROVE RunTyped'
  <2> USE DEF TickOnly
  <2>1. TickStarts \/ TickConverge => RunTyped'
    BY <1>1 DEF TickStarts, TickConverge, Final
  <2>2. TickMessage \/ TickGateBlocks \/ TickSchedule \/ TickDispatch \/ TickDispatchFails \/ TickDispatched => RunTyped'
    BY DEF TickMessage, TickGateBlocks, TickSchedule, TickDispatch, TickDispatchFails, TickDispatched
  <2> QED
    BY <1>3, <2>1, <2>2 DEF Tick
<1>4. Sweep => RunTyped'
  BY <1>1 DEF Sweep, SweepStarts, SweepLeases, SweepPolicy, SweepSettles, SweepDecision, SweepEnds, SweepOnly
<1>5. \A h \in Terms : Worker(h) => RunTyped'
  BY DEF Worker, WorkerTouches, WorkerCompletes, WorkerFails, WorkerWrites, TerminalOutput, TurnBegins,
     TurnEnds, TerminalExits
<1>6. ASSUME People PROVE RunTyped'
  <2>1. CASE Control("running", "paused") \/ Control("paused", "running")
    BY <2>1 DEF Control
  <2>2. CASE CancelRun \/ (\E b \in BOOLEAN : StopRun(b))
    <3>1. run' = "cancelled" /\ loop' = FALSE /\ sequence' \in {sequence, sequence + 1}
      BY <2>2 DEF CancelRun, StopRun
    <3>2. sequence' \in Nat
      BY <3>1
    <3>3. run' \in {"running", "paused"} \cup Final /\ loop' \in BOOLEAN
      BY <3>1 DEF Final
    <3> QED
      BY <3>2, <3>3
  <2> QED
    BY <1>6, <2>1, <2>2 DEF People, Delegate, CreateGate, CancelTask, ManualDispatch, ResolveGate, RecoverTask,
       CancelRunInterrupts, CancelRunRefused
<1>7. Crash \/ UNCHANGED vars => RunTyped'
  BY DEF Crash, vars
<1> QED
  BY <1>3, <1>4, <1>5, <1>6, <1>7 DEF Next

LEMMA InboxTypedStep ==
  ASSUME Rows, InboxTyped, [Next]_vars
  PROVE  InboxTyped'
<1>0. Tasks' = Tasks
  BY SameConf
<1>1. CASE inbox' \subseteq inbox
  BY <1>0, <1>1 DEF InboxTyped
<1>2. ASSUME NEW h \in Terms, NEW kind \in {"escalation", "gate"}, WorkerWrites(h, kind) PROVE InboxTyped'
  <2>1. work[h] \in Tasks \X Nat
    BY <1>2, ConfFacts DEF WorkerWrites, Works, JobsOf, Rows, TaskType
  <2> QED
    BY <1>0, <1>2, <2>1 DEF InboxTyped, WorkerWrites
<1>3. Tick \/ Sweep => inbox' \subseteq inbox
  BY DEF Tick, TickStarts, TickMessage, TickGateBlocks, TickSchedule, TickDispatch, TickDispatchFails,
     TickDispatched, TickConverge, Sweep, SweepStarts, SweepLeases, SweepPolicy, SweepSettles,
     SweepDecision, SweepEnds, SweepOnly
<1>4. ASSUME NEW h \in Terms, Worker(h)
      PROVE  inbox' \subseteq inbox \/ \E kind \in {"escalation", "gate"} : WorkerWrites(h, kind)
  BY <1>4 DEF Worker, WorkerTouches, WorkerCompletes, WorkerFails, TerminalOutput, TurnBegins, TurnEnds, TerminalExits
<1>5. People => inbox' = inbox
  BY DEF People, Delegate, CreateGate, CancelTask, ManualDispatch, ResolveGate, RecoverTask, Control,
     CancelRunInterrupts, CancelRun, CancelRunRefused, StopRun
<1>6. Crash \/ UNCHANGED vars => inbox' = inbox
  BY DEF Crash, vars
<1> QED
  BY <1>1, <1>2, <1>3, <1>4, <1>5, <1>6 DEF Next

LEMMA TermTypedStep ==
  ASSUME Rows, HostType, ActorInv, [Next]_vars
  PROVE  TermTyped'
<1>0. Tasks' = Tasks /\ Terms' = Terms /\ TermTyped
  BY SameConf, HostParts
<1>1. CASE UNCHANGED termVars
  BY <1>0, <1>1 DEF TermTyped, termVars
<1>2. ASSUME NEW t \in Tasks, NEW h \in Terms, Dispatched(t, h) PROVE TermTyped'
  <2>1. Len(disp[t]) + 1 \in Nat
    BY LenProperties, RowTypes DEF Rows
  <2>2. term' = [term EXCEPT ![h] = "busy"] /\ work' = [work EXCEPT ![h] = <<t, Len(disp[t]) + 1>>]
    BY <1>2 DEF Dispatched
  <2> QED
    BY <1>0, <2>1, <2>2 DEF TermTyped
<1>3. CASE TickDispatch
  BY <1>2, <1>3 DEF TickDispatch, ActorInv, HostType
<1>4. CASE TickSchedule
  BY <1>0, <1>4 DEF TickSchedule, TermTyped
<1>5. Tick => UNCHANGED termVars \/ TickDispatch \/ TickSchedule
  BY DEF Tick, TickStarts, TickMessage, TickGateBlocks, TickDispatchFails, TickDispatched, TickConverge
<1>6. Sweep => UNCHANGED termVars
  BY DEF Sweep, SweepStarts, SweepLeases, SweepPolicy, SweepSettles, SweepDecision, SweepEnds, SweepOnly
<1>7. ASSUME NEW h \in Terms, Worker(h) PROVE TermTyped'
  BY <1>0, <1>7 DEF TermTyped, termVars, Worker, WorkerTouches, WorkerCompletes, WorkerFails, WorkerWrites,
     TerminalOutput, TurnBegins, TurnEnds, TerminalExits
<1>8. ASSUME NEW t \in Tasks, NEW h \in Terms, ManualDispatch(t, h) PROVE TermTyped'
  BY <1>2, <1>8 DEF ManualDispatch
<1>9. People => UNCHANGED termVars \/ \E t \in Tasks, h \in Terms : ManualDispatch(t, h)
  BY DEF People, Delegate, CreateGate, CancelTask, ResolveGate, RecoverTask, Control,
     CancelRunInterrupts, CancelRun, CancelRunRefused, StopRun
<1>10. CASE Crash
  BY <1>0, <1>10 DEF Crash, TermTyped
<1>11. UNCHANGED vars => UNCHANGED termVars
  BY DEF vars
<1> QED
  BY <1>1, <1>3, <1>4, <1>5, <1>6, <1>7, <1>8, <1>9, <1>10, <1>11 DEF Next

LEMMA CountsTypedStep ==
  ASSUME CountsTyped, [Next]_vars
  PROVE  CountsTyped'
<1> USE DEF CountsTyped
<1>1. Tick \/ Sweep => UNCHANGED <<commands, exits, crashes>>
  BY DEF Tick, TickStarts, TickMessage, TickGateBlocks, TickSchedule, TickDispatch, TickDispatchFails,
     TickDispatched, TickConverge, TickOnly, Sweep, SweepStarts, SweepLeases, SweepPolicy, SweepSettles,
     SweepDecision, SweepEnds, SweepOnly
<1>2. ASSUME NEW h \in Terms, Worker(h) PROVE CountsTyped'
  BY <1>2 DEF Worker, WorkerTouches, WorkerCompletes, WorkerFails, WorkerWrites, TerminalOutput, TurnBegins,
     TurnEnds, TerminalExits, Works, Unasked, Command
<1>3. ASSUME People PROVE CountsTyped'
  <2>1. CASE Asked \/ Unasked
    BY <2>1 DEF Asked, Unasked, Command
  <2>2. CASE \E seen \in 0..sequence : CancelRunInterrupts(seen)
    BY <2>2 DEF CancelRunInterrupts
  <2>3. CASE CancelRun \/ CancelRunRefused
    BY <2>3 DEF CancelRun, CancelRunRefused, histVars
  <2> QED
    BY <1>3, <2>1, <2>2, <2>3 DEF People, Delegate, CreateGate, CancelTask, ManualDispatch, ResolveGate,
       RecoverTask, Control, StopRun
<1>4. Crash \/ UNCHANGED vars => CountsTyped'
  BY DEF Crash, vars, histVars
<1> QED
  BY <1>1, <1>2, <1>3, <1>4 DEF Next

(* Actions that run while a command of the actor is in progress.           *)
LEMMA InProgress ==
  ASSUME Next, actor.pc \in {"dispatch", "policy", "decisions"}
  PROVE  \/ Crash
         \/ actor.pc = "dispatch" /\ (TickDispatch \/ TickDispatchFails \/ TickDispatched)
         \/ actor.pc = "policy" /\ (SweepPolicy \/ SweepSettles)
         \/ actor.pc = "decisions" /\ (SweepDecision \/ SweepEnds)
<1>1. ~\E h \in Terms : Worker(h)
  BY DEF Worker, WorkerTouches, WorkerCompletes, WorkerFails, WorkerWrites, TerminalOutput, TurnBegins,
     TurnEnds, TerminalExits, Works, Unasked, Command, Idle
<1>2. ~People
  BY DEF People, Delegate, CreateGate, CancelTask, ManualDispatch, ResolveGate, RecoverTask, Control,
     CancelRunInterrupts, CancelRun, CancelRunRefused, StopRun, Asked, Unasked, Command, Idle
<1>3. Tick => actor.pc = "dispatch" /\ (TickDispatch \/ TickDispatchFails \/ TickDispatched)
  BY DEF Tick, TickStarts, TickMessage, TickGateBlocks, TickSchedule, TickDispatch, TickDispatchFails,
     TickDispatched, TickConverge, Idle
<1>4. Sweep => \/ actor.pc = "policy" /\ (SweepPolicy \/ SweepSettles)
               \/ actor.pc = "decisions" /\ (SweepDecision \/ SweepEnds)
  BY DEF Sweep, SweepStarts, SweepLeases, SweepPolicy, SweepSettles, SweepDecision, SweepEnds, Idle
<1> QED
  BY <1>1, <1>2, <1>3, <1>4 DEF Next

(* How a command in progress came to where it is.                          *)
LEMMA CameFrom ==
  ASSUME Next, ActorTyped, Terms' = Terms, actor'.pc \in {"dispatch", "policy", "decisions"}
  PROVE  \/ actor'.pc = "dispatch" /\ (TickSchedule \/ TickDispatch \/ TickDispatchFails)
         \/ actor'.pc = "policy" /\ (SweepLeases \/ SweepPolicy)
         \/ actor'.pc = "decisions" /\ (SweepSettles \/ SweepDecision)
<1>1. ASSUME NEW pc \in Pcs, NEW todo, Goto(pc, todo) PROVE actor'.pc = pc
  BY <1>1, GotoTyped
<1>2. ~\E h \in Terms : Worker(h)
  BY DEF Worker, WorkerTouches, WorkerCompletes, WorkerFails, WorkerWrites, TerminalOutput, TurnBegins,
     TurnEnds, TerminalExits, Works, Unasked, Command, Idle
<1>3. ~People
  <2>1. ~(Asked \/ Unasked)
    BY DEF Asked, Unasked, Command, Idle
  <2>2. ~(CancelRun \/ CancelRunRefused \/ \E seen \in 0..sequence : CancelRunInterrupts(seen))
    BY <1>1 DEF CancelRun, CancelRunRefused, CancelRunInterrupts, Done, Pcs
  <2> QED
    BY <2>1, <2>2 DEF People, Delegate, CreateGate, CancelTask, ManualDispatch, ResolveGate,
       RecoverTask, Control, StopRun
<1>4. ~Crash
  BY <1>1 DEF Crash, Done, Pcs
<1>5. ASSUME Tick PROVE actor'.pc = "dispatch" /\ (TickSchedule \/ TickDispatch \/ TickDispatchFails)
  <2>1. ~(TickStarts \/ TickMessage \/ TickGateBlocks \/ TickDispatched \/ TickConverge)
    BY <1>1 DEF TickStarts, TickMessage, TickGateBlocks, TickDispatched, TickConverge, Done, Pcs
  <2>2. TickSchedule => actor'.pc = "dispatch"
    BY <1>1 DEF TickSchedule, Done, Pcs
  <2>3. TickDispatch \/ TickDispatchFails => actor'.pc = "dispatch"
    BY TookFacts DEF TickDispatch, TickDispatchFails
  <2> QED
    BY <1>5, <2>1, <2>2, <2>3 DEF Tick
<1>6. Sweep => \/ actor'.pc = "policy" /\ (SweepLeases \/ SweepPolicy)
               \/ actor'.pc = "decisions" /\ (SweepSettles \/ SweepDecision)
  BY <1>1 DEF Sweep, SweepStarts, SweepLeases, SweepPolicy, SweepSettles, SweepDecision, SweepEnds, Done, Pcs
<1> QED
  BY <1>2, <1>3, <1>4, <1>5, <1>6 DEF Next

(* A dispatched task uses up one slot.                                     *)
LEMMA RunningAfterDispatch ==
  ASSUME TaskType, NEW t \in Tasks, status[t] = "ready", Tasks' = Tasks,
         status' = [status EXCEPT ![t] = "dispatched"]
  PROVE  Cardinality(Running') = Cardinality(Running) + 1
<1>1. Running' = Running \cup {t} /\ t \notin Running
  BY DEF Running, TaskType
<1>2. IsFiniteSet(Running)
  BY OccupiedFacts
<1> QED
  BY <1>1, <1>2, FS_AddElement

LEMMA LimitStep ==
  ASSUME TaskType, ActorTyped, ActorInv, [Next]_vars, actor'.pc = "dispatch"
  PROVE  actor'.todo \subseteq Tasks /\ Cardinality(Running') + actor'.slots <= MaxConcurrent
<1>0. Tasks' = Tasks /\ Terms' = Terms
  BY SameConf
<1>1. /\ MaxConcurrent \in Nat /\ Occupied \in Nat /\ Cardinality(Running) \in Nat
      /\ Cardinality(Running) <= Occupied /\ IsFiniteSet(Running) /\ actor.slots \in Nat
  BY ConfFacts, OccupiedFacts DEF TaskType, ActorTyped
<1>2. CASE UNCHANGED vars
  BY <1>2 DEF ActorInv, Running, Tasks, vars, histVars, taskVars
<1>3. CASE TickSchedule
  <2>1. UNCHANGED status
    BY <1>3 DEF TickSchedule, taskVars
  <2>2. \/ \E pc \in Pcs \ {"dispatch"} : \E todo : Goto(pc, todo)
        \/ actor' = [pc |-> "dispatch", todo |-> {t \in Tasks : status[t] = "ready"},
                     slots |-> MaxConcurrent - Occupied, free |-> FreeTerms]
    BY <1>3 DEF TickSchedule, Done, Pcs
  <2>3. actor'.todo \subseteq Tasks /\ actor'.slots = MaxConcurrent - Occupied
    BY <2>2, GotoTyped
  <2>4. Running' = Running
    BY <1>0, <2>1 DEF Running
  <2> QED
    BY <1>1, <2>3, <2>4
<1>4. CASE TickDispatch
  <2>1. PICK t \in actor.todo, h \in actor.free : Dispatchable(t, h) /\ Dispatched(t, h) /\ Took(t, h, 1)
    BY <1>4 DEF TickDispatch
  <2>2. /\ t \in Tasks /\ actor.slots > 0 /\ actor.todo \subseteq Tasks
        /\ Cardinality(Running) + actor.slots <= MaxConcurrent
    BY <1>4 DEF TickDispatch, ActorInv
  <2>3. actor'.todo = actor.todo \ {t} /\ actor'.slots = actor.slots - 1
    BY <1>0, <2>1, <2>2, TookFacts
  <2>4. Cardinality(Running') = Cardinality(Running) + 1
    BY <1>0, <2>1, <2>2, RunningAfterDispatch DEF Dispatchable, Dispatched
  <2> QED
    BY <1>1, <2>2, <2>3, <2>4
<1>5. CASE TickDispatchFails
  <2>1. PICK t \in actor.todo, h \in actor.free :
          /\ Dispatchable(t, h) /\ Took(t, h, 0)
          /\ status' = [status EXCEPT ![t] = IF startups[t] + 1 >= StartupLimit THEN "stalled" ELSE "ready"]
    BY <1>5 DEF TickDispatchFails
  <2>2. /\ t \in Tasks /\ actor.slots > 0 /\ actor.todo \subseteq Tasks
        /\ Cardinality(Running) + actor.slots <= MaxConcurrent
    BY <1>5 DEF TickDispatchFails, ActorInv
  <2>3. actor'.todo = actor.todo \ {t} /\ actor'.slots = actor.slots - 0
    BY <1>0, <2>1, <2>2, TookFacts
  <2>4. Running' = Running
    BY <1>0, <2>1, <2>2 DEF Dispatchable, Running, TaskType
  <2> QED
    BY <1>1, <2>2, <2>3, <2>4
<1> QED
  BY <1>0, <1>2, <1>3, <1>4, <1>5, CameFrom

LEMMA ActorInvStep ==
  ASSUME Rows, HostType, ActorInv, [Next]_vars, \A u \in Tasks : Move(u)
  PROVE  ActorInv'
<1>0. Tasks' = Tasks /\ Terms' = Terms /\ MaxConcurrent' = MaxConcurrent /\ ActorTyped
  BY SameConf, HostParts
<1>1. ASSUME actor'.pc = "dispatch"
      PROVE  actor'.todo \subseteq Tasks /\ Cardinality(Running') + actor'.slots <= MaxConcurrent
  BY <1>0, <1>1, LimitStep DEF Rows
<1>2. ASSUME actor'.pc = "policy" PROVE actor'.todo \subseteq Tasks
  <2>1. CASE UNCHANGED vars
    BY <1>2, <2>1 DEF vars, ActorInv
  <2>2. CASE SweepLeases
    <3>1. \E S \in SUBSET Tasks : Goto("policy", S)
      BY <2>2 DEF SweepLeases
    <3> QED
      BY <3>1, GotoTyped DEF Pcs
  <2>3. CASE SweepPolicy
    <3>1. \E t \in actor.todo : Goto("policy", actor.todo \ {t})
      BY <2>3 DEF SweepPolicy
    <3>2. actor.todo \subseteq Tasks
      BY <2>3 DEF SweepPolicy, ActorInv
    <3> QED
      BY <3>1, <3>2, GotoTyped DEF Pcs
  <2> QED
    BY <1>0, <1>2, <2>1, <2>2, <2>3, CameFrom
<1>3. ASSUME actor'.pc = "decisions", NEW g \in actor'.todo
      PROVE  /\ g \in Tasks \X Nat /\ g[2] \in DOMAIN gates'[g[1]]
             /\ gates'[g[1]][g[2]].answer \in Decisions
  <2>1. /\ g \in Tasks \X Nat /\ g[2] \in DOMAIN gates[g[1]]
        /\ gates[g[1]][g[2]].answer \in Decisions
    <3>1. CASE UNCHANGED vars
      BY <1>3, <3>1 DEF vars, ActorInv
    <3>2. CASE SweepSettles
      <4>1. Goto("decisions", ResolvedStallGates)
        BY <3>2 DEF SweepSettles
      <4>2. g \in ResolvedStallGates
        BY <1>3, <4>1, GotoTyped DEF Pcs
      <4>3. MaxGates \in Nat /\ MaxSilences \in Nat
        BY ConfigAssumption DEF Rows, TaskType, MaxGates, MaxSilences, Bounds
      <4> QED
        BY <4>2, <4>3 DEF ResolvedStallGates
    <3>3. CASE SweepDecision
      <4>1. \E o \in actor.todo : Goto("decisions", actor.todo \ {o})
        BY <3>3 DEF SweepDecision
      <4>2. g \in actor.todo /\ actor.pc = "decisions"
        BY <1>3, <3>3, <4>1, GotoTyped DEF Pcs, SweepDecision
      <4> QED
        BY <4>2 DEF ActorInv
    <3> QED
      BY <1>0, <1>3, <3>1, <3>2, <3>3, CameFrom
  <2> QED
    BY <2>1, AnswersStay DEF Rows, TaskInv
<1> QED
  BY <1>0, <1>1, <1>2, <1>3 DEF ActorInv

(* The policy step puts the stall to a person before the sweep goes on.    *)
LEMMA PolicyAsks ==
  ASSUME Rows, ActorInv, ActorTyped, [Next]_vars, CountsTyped, NEW u \in Tasks, status[u] = "stalled",
         StallPolicy = "ask", actor.pc = "policy", u \in actor.todo, crashes' = 0
  PROVE  (actor'.pc = "policy" /\ u \in actor'.todo) \/ Put(u)'
<1>1. CASE UNCHANGED vars
  BY <1>1 DEF vars
<1>2. CASE SweepPolicy
  <2>1. PICK t \in actor.todo :
          /\ Goto("policy", actor.todo \ {t})
          /\ gates' = IF status[t] # "stalled" \/ PendingGate(t, "decision") \/ PendingGate(t, "stall")
                      THEN gates ELSE [gates EXCEPT ![t] = Append(@, NewGate("stall", t))]
    BY <1>2 DEF SweepPolicy
  <2>2. actor'.pc = "policy" /\ actor'.todo = actor.todo \ {t}
    BY <2>1, GotoTyped DEF Pcs
  <2>3. CASE t = u
    <3>1. CASE PendingGate(u, "decision") \/ PendingGate(u, "stall")
      BY <2>1, <2>3, <3>1 DEF PendingGate, Put
    <3>2. CASE ~(PendingGate(u, "decision") \/ PendingGate(u, "stall"))
      <4>1. gates'[u] = Append(gates[u], NewGate("stall", u))
        BY <2>1, <2>3, <3>2 DEF Rows, TaskType
      <4> QED
        BY <4>1, GrownGates DEF Put, Rows
    <3> QED
      BY <3>1, <3>2
  <2> QED
    BY <2>2, <2>3
<1>3. ~Crash /\ ~SweepSettles
  BY DEF Crash, SweepSettles, CountsTyped
<1> QED
  BY <1>1, <1>2, <1>3, InProgress

LEMMA AskStep ==
  ASSUME Rows, HostType, ActorInv, [Next]_vars, NEW u \in Tasks, AskInv(u), Move(u)
  PROVE  AskInv(u)'
<1>0. StallPolicy' = StallPolicy /\ ActorTyped /\ CountsTyped
  BY SameConf, HostParts
<1> SUFFICES ASSUME StallPolicy = "ask", crashes' = 0, status'[u] = "stalled", HasActive(u)'
             PROVE  (actor'.pc = "policy" /\ u \in actor'.todo) \/ Put(u)'
  BY <1>0 DEF AskInv
<1>1. crashes = 0
  <2>1. crashes' = crashes \/ crashes' = crashes + 1
    <3>1. Tick \/ Sweep \/ UNCHANGED vars => crashes' = crashes
      BY DEF Tick, TickStarts, TickMessage, TickGateBlocks, TickSchedule, TickDispatch, TickDispatchFails,
         TickDispatched, TickConverge, TickOnly, Sweep, SweepStarts, SweepLeases, SweepPolicy, SweepSettles,
         SweepDecision, SweepEnds, SweepOnly, vars, histVars
    <3>2. \A h \in Terms : Worker(h) => crashes' = crashes
      BY DEF Worker, WorkerTouches, WorkerCompletes, WorkerFails, WorkerWrites, TerminalOutput, TurnBegins,
         TurnEnds, TerminalExits, Works, Unasked, Command
    <3>3. People => crashes' = crashes
      BY DEF People, Delegate, CreateGate, CancelTask, ManualDispatch, ResolveGate, RecoverTask, Control,
         CancelRunInterrupts, CancelRun, CancelRunRefused, StopRun, Asked, Unasked, Command, histVars
    <3> QED
      BY <3>1, <3>2, <3>3 DEF Next, Crash
  <2> QED
    BY <1>0, <2>1 DEF CountsTyped
<1>2. CASE actor'.pc = "policy" /\ u \in actor'.todo
  BY <1>2
<1>3. CASE status[u] = "stalled" /\ HasActive(u) /\ (Put(u) => Put(u)')
  <2>1. (actor.pc = "policy" /\ u \in actor.todo) \/ Put(u)
    BY <1>1, <1>3 DEF AskInv
  <2> QED
    BY <1>0, <1>3, <2>1, PolicyAsks
<1> QED
  BY <1>2, <1>3, AskMove DEF Rows

-----------------------------------------------------------------------------
(* The invariant, and what follows from it.                                *)

LEMMA InvInit == Init => IInv
<1> SUFFICES ASSUME Init PROVE IInv
  OBVIOUS
<1>1. conf \in Configs /\ \A t \in Tasks : disp[t] = <<>> /\ gates[t] = <<>> /\ status[t] = "none"
  BY DEF Init
<1>2. <<>> \in Seq(Dispatch) /\ <<>> \in Seq(Gate) /\ Len(<<>>) = 0 /\ DOMAIN <<>> = {}
  OBVIOUS
<1>3. TaskType
  <2>1. MaxDispatches \in Nat
    BY <1>1, ConfFacts
  <2> QED
    BY <1>1, <1>2, <2>1 DEF Init, TaskType, Statuses
<1>4. HostType
  BY DEF Init, HostType, Pcs, Final
<1>5. \A t \in Tasks : ActiveAt(t) = {}
  BY <1>1, <1>2 DEF ActiveAt
<1>6. \A t \in Tasks : TaskInv(t) /\ AskInv(t)
  BY <1>1, <1>2, <1>5 DEF TaskInv, DispatchInv, GateInv, AskInv
<1>7. DispatchedHasWorker /\ BlockedHasItsGate /\ TerminalInv
  BY <1>1, <1>5 DEF DispatchedHasWorker, BlockedHasItsGate, TerminalInv
<1>8. DepsInv
  <2>1. \A t \in Tasks : status[t] = "none" /\ Deps[t] \subseteq Tasks
    BY <1>1, ConfFacts
  <2> QED
    BY <2>1 DEF DepsInv
<1>9. ActorInv
  BY DEF Init, ActorInv
<1> QED
  BY <1>3, <1>4, <1>6, <1>7, <1>8, <1>9 DEF IInv

LEMMA InvStep ==
  ASSUME IInv, [Next]_vars
  PROVE  IInv'
<1>1. /\ conf' = conf /\ Tasks' = Tasks
      /\ Rows /\ HostType /\ ActorInv /\ TerminalInv /\ DepsInv /\ \A t \in Tasks : AskInv(t)
  BY SameConf DEF IInv, Rows
<1>2. Moves /\ \A u \in Tasks : Move(u)
  BY <1>1, NextMoves DEF Moves
<1>3. TaskType'
  BY <1>1, <1>2, RowsStep DEF Rows
<1>4. HostType'
  <2>1. (RunTyped /\ InboxTyped /\ TermTyped /\ ActorTyped /\ CountsTyped)'
    BY <1>1, HostParts, RunTypedStep, InboxTypedStep, TermTypedStep, ActorTypedStep, CountsTypedStep DEF Rows
  <2> QED
    BY <2>1 DEF HostType, RunTyped, InboxTyped, TermTyped, ActorTyped, CountsTyped
<1>5. \A t \in Tasks : TaskInv(t)'
  BY <1>1, <1>2, DispatchMove, GateMove DEF Rows, TaskInv
<1>6. \A t \in Tasks : AskInv(t)'
  BY <1>1, <1>2, AskStep
<1>7. \A t \in Tasks : Worked(t)' /\ Gated(t)'
  <2>1. \A t \in Tasks : Worked(t) /\ Gated(t)
    BY DEF IInv, DispatchedHasWorker, BlockedHasItsGate, Worked, Gated
  <2> QED
    BY <1>1, <1>2, <2>1, WorkerMove, BlockedMove DEF Rows
<1>8. DispatchedHasWorker' /\ BlockedHasItsGate'
  BY <1>1, <1>7 DEF DispatchedHasWorker, BlockedHasItsGate, Worked, Gated
<1>9. TerminalInv' /\ DepsInv' /\ ActorInv'
  BY <1>1, <1>2, TerminalStep, DepsStep, ActorInvStep DEF Rows
<1> QED
  BY <1>1, <1>3, <1>4, <1>5, <1>6, <1>8, <1>9 DEF IInv

(* The invariant holds of every behaviour.                                 *)
LEMMA Invariance == Spec => []IInv
<1>1. IInv /\ [Next]_vars => IInv'
  BY InvStep
<1> QED
  BY <1>1, InvInit, PTL DEF Spec

(* A task is worked on by one terminal, a terminal works on one task, and  *)
(* the status of a task is that of its dispatch, whichever of the tick,    *)
(* the sweep, the workers and the people wrote last.                       *)
THEOREM OneWorkerEach == Spec => []OneActiveDispatch
<1>1. ASSUME IInv PROVE OneActiveDispatch
  <2>1. ASSUME NEW t \in Tasks, HasActive(t)
        PROVE  /\ Cardinality(ActiveAt(t)) = 1
               /\ \A i \in ActiveAt(t) : status[t] = IF disp[t][i].st = "stalled" THEN "stalled" ELSE "dispatched"
    <3>1. DispatchInv(t)
      BY <1>1 DEF IInv, TaskInv
    <3>2. PICK i : ActiveAt(t) = {i}
      BY <2>1, <3>1 DEF HasActive, DispatchInv
    <3> QED
      BY <3>1, <3>2, FS_Singleton DEF DispatchInv
  <2>2. ASSUME NEW h \in Terms PROVE Cardinality(JobsOf(h)) <= 1
    <3>1. \A j, k \in JobsOf(h) : j = k
      BY <1>1, Jobs DEF IInv, TerminalInv
    <3>2. CASE JobsOf(h) = {}
      BY <3>2, FS_EmptySet
    <3>3. CASE JobsOf(h) # {}
      <4>1. PICK j : JobsOf(h) = {j}
        BY <3>1, <3>3
      <4> QED
        BY <4>1, FS_Singleton
    <3> QED
      BY <3>2, <3>3
  <2> QED
    BY <2>1, <2>2 DEF OneActiveDispatch
<1> QED
  BY <1>1, Invariance, PTL

(* Work is offered only when everything it depends on has completed, and a *)
(* waiting task waits for something that can still complete.               *)
THEOREM DependenciesAreKept == Spec => []WaitsOnlyForOpenDependencies
<1>1. ASSUME IInv PROVE WaitsOnlyForOpenDependencies
  <2>1. DepsInv /\ TaskType /\ \A t \in Tasks : Deps[t] \subseteq Tasks
    BY <1>1, ConfFacts DEF IInv, TaskType
  <2> QED
    BY <2>1 DEF DepsInv, WaitsOnlyForOpenDependencies, Final
<1> QED
  BY <1>1, Invariance, PTL

(* A task believed to be running has a worker, unless keepWaiting was      *)
(* answered for it.                                                        *)
THEOREM RunningTasksHaveWorkers == Spec => []DispatchedHasWorker
<1>1. IInv => DispatchedHasWorker
  BY DEF IInv
<1> QED
  BY <1>1, Invariance, PTL

(* A blocked task has a gate that a person can answer, or had a stall.     *)
THEOREM BlockedTasksHaveGates == Spec => []BlockedHasItsGate
<1>1. IInv => BlockedHasItsGate
  BY DEF IInv
<1> QED
  BY <1>1, Invariance, PTL

(* Without a crash every stall that is left to a person reaches a person.  *)
THEOREM StallsReachAPerson == Spec => []StallIsPutToAPerson
<1>1. IInv => StallIsPutToAPerson
  BY DEF IInv, AskInv, Put, StallIsPutToAPerson, Idle
<1> QED
  BY <1>1, Invariance, PTL

(* A settled task is never reopened.                                       *)
THEOREM SettledForGood == Spec => SettledStays
<1>1. ASSUME IInv, [Next]_vars
      PROVE  \A t \in Tasks : status[t] \in Final => status'[t] = status[t]
  <2>1. \A t \in Tasks : Move(t)
    BY <1>1, NextMoves DEF Moves, IInv, Rows
  <2> QED
    BY <2>1, FinalMove
<1> QED
  BY <1>1, Invariance, PTL DEF Spec, SettledStays

(* The tick hands out no more work than max_concurrent.                    *)
THEOREM LimitIsKept == Spec => TickKeepsLimit
<1> DEFINE Kept == actor.pc = "dispatch" =>
             \A t \in Tasks : status'[t] = "dispatched" /\ status[t] # "dispatched" =>
               Cardinality({u \in Tasks : status'[u] = "dispatched"}) <= MaxConcurrent
<1>1. ASSUME IInv, [Next]_vars PROVE Kept
  <2> SUFFICES ASSUME actor.pc = "dispatch", NEW t \in Tasks, status'[t] = "dispatched", status[t] # "dispatched"
               PROVE  Cardinality({u \in Tasks : status'[u] = "dispatched"}) <= MaxConcurrent
    OBVIOUS
  <2>1. TaskType /\ ActorTyped /\ ActorInv /\ Tasks' = Tasks /\ Terms' = Terms
    BY <1>1, SameConf, HostParts DEF IInv
  <2>2. ~(Crash \/ TickDispatched \/ UNCHANGED vars)
    BY DEF Crash, TickDispatched, vars, taskVars
  <2>3. TickDispatch \/ TickDispatchFails
    BY <1>1, <2>2, InProgress
  <2>4. actor'.pc = "dispatch" /\ ActorTyped'
    BY <2>1, <2>3, TookFacts DEF TickDispatch, TickDispatchFails
  <2>5. Cardinality(Running') + actor'.slots <= MaxConcurrent
    BY <1>1, <2>1, <2>4, LimitStep
  <2>6. Running' = {u \in Tasks : status'[u] = "dispatched"} /\ actor'.slots \in Nat
    BY <2>1, <2>4 DEF Running, ActorTyped
  <2>7. Cardinality(Running') \in Nat /\ MaxConcurrent \in Nat
    <3>1. IsFiniteSet(Tasks) /\ Running' \subseteq Tasks
      BY <2>1, <2>6, ConfFacts DEF TaskType
    <3> QED
      BY <2>1, <3>1, FS_Subset, FS_CardinalityType, ConfFacts DEF TaskType
  <2> QED
    BY <2>5, <2>6, <2>7
<1> QED
  BY <1>1, Invariance, PTL DEF Spec, TickKeepsLimit
================================================================================
