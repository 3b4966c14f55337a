-------------------------- MODULE SchedulerPumpProofs --------------------------
(***************************************************************************)
(* No wake of the scheduler pump is lost, for any number of runs, targets  *)
(* and changes and any page size.  The inductive invariant says of every   *)
(* run that could take a step why it will be looked at: a change is yet to *)
(* be announced, the pump is dirty, or the pass in flight has the run      *)
(* still ahead of it.                                                      *)
(***************************************************************************)
EXTENDS SchedulerPump, FiniteSetTheorems, TLAPS

-----------------------------------------------------------------------------
(* What the actor's operators do to the fields of the pump.                *)

(* A wake of the cancellation lane.                                        *)
LEMMA WakeCancellationFields ==
  ASSUME NEW p \in PumpState
  PROVE  LET q == WakeCancellation(p) IN
         /\ q \in PumpState
         /\ q.ready = p.ready /\ q.busy = p.busy /\ q.dirty = p.dirty /\ q.cursor = p.cursor
         /\ q.cancelling
         /\ q.cancellationDirty <=> p.cancellationDirty \/ p.cancelling
  BY DEF WakeCancellation, PumpState

(* A wake of the execution lane.                                           *)
LEMMA WakeFields ==
  ASSUME NEW p \in PumpState
  PROVE  LET q == Wake(p) IN
         /\ q \in PumpState
         /\ q.ready = p.ready /\ q.cursor = p.cursor
         /\ q.busy <=> p.busy \/ p.ready
         /\ q.dirty <=> p.dirty \/ (p.ready /\ p.busy)
         /\ q.cancelling <=> p.cancelling \/ p.ready
         /\ q.cancellationDirty <=> p.cancellationDirty \/ (p.ready /\ p.cancelling)
<1>1. CASE p.ready
  <2> DEFINE q == WakeCancellation(p)
  <2>1. /\ q \in PumpState
        /\ q.ready = p.ready /\ q.busy = p.busy /\ q.dirty = p.dirty /\ q.cursor = p.cursor
        /\ q.cancelling
        /\ q.cancellationDirty <=> p.cancellationDirty \/ p.cancelling
    BY WakeCancellationFields
  <2>2. Wake(p) = IF q.busy THEN [q EXCEPT !.dirty = TRUE] ELSE [q EXCEPT !.busy = TRUE]
    BY <1>1 DEF Wake
  <2> HIDE DEF q
  <2> QED
    BY <1>1, <2>1, <2>2 DEF PumpState
<1>2. CASE ~p.ready
  BY <1>2 DEF Wake, PumpState
<1> QED
  BY <1>1, <1>2

(* The board's news wake the lanes.                                        *)
LEMMA BroadcastFields ==
  ASSUME NEW p \in PumpState, NEW news \in BOOLEAN
  PROVE  LET q == Broadcast(p, news) IN
         /\ q \in PumpState
         /\ q.ready = p.ready /\ q.cursor = p.cursor
         /\ q.busy <=> p.busy \/ (news /\ p.ready)
         /\ q.dirty <=> p.dirty \/ (news /\ p.ready /\ p.busy)
         /\ q.cancelling <=> p.cancelling \/ (news /\ p.ready)
         /\ q.cancellationDirty <=> p.cancellationDirty \/ (news /\ p.ready /\ p.cancelling)
<1>1. CASE news
  BY <1>1, WakeFields DEF Broadcast
<1>2. CASE ~news
  BY <1>2 DEF Broadcast, PumpState
<1> QED
  BY <1>1, <1>2

(* The lanes a command leaves behind.                                      *)
LEMMA EndCommandFields ==
  ASSUME NEW p \in PumpState, NEW e \in PassState, NEW s \in SweepState,
         EndCommand(p, e, s)
  PROVE  /\ pump' \in PumpState /\ pass' \in PassState /\ sweep' \in SweepState
         /\ pump'.ready = p.ready /\ pump'.busy = p.busy /\ pump'.dirty = p.dirty
         /\ pump'.cancelling = p.cancelling
         /\ pump'.cancellationDirty = p.cancellationDirty
         /\ IF p.busy /\ e.pc = "none"
            THEN /\ pump'.cursor = Start /\ pass'.pc = "read" /\ pass'.from = p.cursor
                 /\ pass'.failed = FALSE
            ELSE pump'.cursor = p.cursor /\ pass' = e
         /\ IF p.cancelling /\ s.pc = "none"
            THEN sweep'.pc = "read" /\ sweep'.page = 0
            ELSE sweep' = s
<1>1. /\ pump' \in PumpState
      /\ pump'.ready = p.ready /\ pump'.busy = p.busy /\ pump'.dirty = p.dirty
      /\ pump'.cancelling = p.cancelling
      /\ pump'.cancellationDirty = p.cancellationDirty
      /\ pump'.cursor = IF p.busy /\ e.pc = "none" THEN Start ELSE p.cursor
  BY DEF EndCommand, PumpState, Cursors
<1>2. /\ pass' \in PassState
      /\ IF p.busy /\ e.pc = "none"
         THEN pass'.pc = "read" /\ pass'.from = p.cursor /\ pass'.failed = FALSE
         ELSE pass' = e
  <2>1. CASE p.busy /\ e.pc = "none"
    <3>1. pass' = [NoPass EXCEPT !.pc = "read", !.from = p.cursor]
      BY <2>1 DEF EndCommand
    <3>2. p.cursor \in Cursors /\ Start \in Cursors
      BY DEF PumpState, Cursors
    <3> QED
      BY <2>1, <3>1, <3>2 DEF PassState, NoPass
  <2>2. CASE ~(p.busy /\ e.pc = "none")
    BY <2>2 DEF EndCommand
  <2> QED
    BY <2>1, <2>2
<1>3. /\ sweep' \in SweepState
      /\ IF p.cancelling /\ s.pc = "none"
         THEN sweep'.pc = "read" /\ sweep'.page = 0
         ELSE sweep' = s
  <2>1. CASE p.cancelling /\ s.pc = "none"
    <3>1. sweep' = [NoSweep EXCEPT !.pc = "read"]
      BY <2>1 DEF EndCommand
    <3>2. 0 \in 0..PageSize
      BY PumpAssumption
    <3> QED
      BY <2>1, <3>1, <3>2 DEF SweepState, NoSweep
  <2>2. CASE ~(p.cancelling /\ s.pc = "none")
    BY <2>2 DEF EndCommand
  <2> QED
    BY <2>1, <2>2
<1> QED
  BY <1>1, <1>2, <1>3

-----------------------------------------------------------------------------
(* The inductive invariant.                                                *)

(* A lane's flag is set exactly while its pass is in flight, and a flag    *)
(* that asks for another pass is set only while there is one.              *)
LaneInv ==
  /\ pump.busy <=> pass.pc # "none"
  /\ pump.cancelling <=> sweep.pc # "none"
  /\ pump.busy => pump.ready
  /\ pump.dirty => pump.busy
  /\ pump.cancellationDirty => pump.cancelling
  /\ pump.cursor = Start

(* What a finished pass answers, and that a change under a pass is known.  *)
PassInv ==
  /\ pass.pc = "done" /\ ~pass.again => pass.cursor = Start
  /\ pass.failed => \/ pass.pc = "none"
                    \/ pass.pc = "done" /\ pass.cursor = Start /\ ~pass.again
  /\ pass.pc = "scan" /\ stale # {} => changed \/ pump.dirty

(* The pass in flight has run r still ahead of it.                         *)
Ahead(r) ==
  \/ pass.pc = "read" /\ r > pass.from
  \/ pass.pc = "scan" /\ (r \in pass.page \/ (pass.full /\ r > pass.last))
  \/ pass.pc = "done" /\ pass.again /\ r > pass.cursor

(* Why a run that could take a step will be looked at.                     *)
CoverInv ==
  \A r \in Runs : Actionable(r) =>
    changed \/ ~pump.ready \/ pass.failed \/ pump.dirty \/ Ahead(r)

(* Why a pending target will be looked at.                                 *)
SweepInv ==
  /\ pump.ready /\ targets > 0 => pump.cancelling
  /\ sweep.pc \in {"settle", "done"} /\ targets > 0
       => sweep.progress \/ sweep.failed \/ pump.cancellationDirty
  /\ sweep.page <= targets
  /\ sweep.pc # "settle" => sweep.page = 0

IInv == TypeOK /\ LaneInv /\ PassInv /\ CoverInv /\ SweepInv

(* The initial states.                                                     *)
LEMMA InitIInv == Init => IInv
<1> SUFFICES ASSUME Init PROVE IInv
  OBVIOUS
<1>1. 0 \in 0..PageSize /\ Start \in Cursors
  BY PumpAssumption DEF Cursors
<1>2. pump \in PumpState
  BY <1>1 DEF Init, PumpState
<1>3. pass \in PassState
  BY <1>1 DEF Init, PassState, NoPass
<1>4. sweep \in SweepState
  BY <1>1 DEF Init, SweepState, NoSweep
<1>5. TypeOK
  BY <1>2, <1>3, <1>4 DEF Init, TypeOK
<1>6. LaneInv /\ PassInv /\ CoverInv /\ SweepInv
  BY DEF Init, NoPass, NoSweep, LaneInv, PassInv, CoverInv, SweepInv, Start
<1> QED
  BY <1>5, <1>6 DEF IInv

-----------------------------------------------------------------------------
(* The commands of the actor.                                              *)

(* A command that leaves the pump p to the lanes as they are: nothing of   *)
(* the lanes moves but what a wake starts.                                 *)
LEMMA CommandLanes ==
  ASSUME IInv, NEW p \in PumpState, EndCommand(p, pass, sweep),
         p.cursor = Start, pump.ready => p.ready,
         pump.busy => p.busy, p.busy => p.ready, p.dirty => p.busy,
         pump.cancelling => p.cancelling, p.cancellationDirty => p.cancelling
  PROVE  /\ pump' \in PumpState /\ pass' \in PassState /\ sweep' \in SweepState
         /\ LaneInv'
         /\ pump'.ready = p.ready /\ pump'.dirty = p.dirty
         /\ pump'.cancelling = p.cancelling
         /\ pump'.cancellationDirty = p.cancellationDirty
         /\ IF p.busy /\ ~pump.busy
            THEN pass'.pc = "read" /\ pass'.from = Start /\ ~pass'.failed
            ELSE pass' = pass
         /\ IF p.cancelling /\ ~pump.cancelling
            THEN sweep'.pc = "read" /\ sweep'.page = 0
            ELSE sweep' = sweep
<1>1. pass \in PassState /\ sweep \in SweepState
  BY DEF IInv, TypeOK
<1>2. (pump.busy <=> pass.pc # "none") /\ (pump.cancelling <=> sweep.pc # "none")
  BY DEF IInv, LaneInv
<1>3. /\ pump' \in PumpState /\ pass' \in PassState /\ sweep' \in SweepState
      /\ pump'.ready = p.ready /\ pump'.busy = p.busy /\ pump'.dirty = p.dirty
      /\ pump'.cancelling = p.cancelling
      /\ pump'.cancellationDirty = p.cancellationDirty
      /\ IF p.busy /\ pass.pc = "none"
         THEN /\ pump'.cursor = Start /\ pass'.pc = "read" /\ pass'.from = p.cursor
              /\ pass'.failed = FALSE
         ELSE pump'.cursor = p.cursor /\ pass' = pass
      /\ IF p.cancelling /\ sweep.pc = "none"
         THEN sweep'.pc = "read" /\ sweep'.page = 0
         ELSE sweep' = sweep
  BY <1>1, EndCommandFields
<1> QED
  BY <1>2, <1>3 DEF LaneInv

(* A wake looks at every run again: when the lane is idle from the start,  *)
(* and otherwise through the dirty flag.                                   *)
LEMMA WokenCovers ==
  ASSUME NEW p, p.ready, p.busy, pump.busy => p.dirty,
         pump'.dirty = p.dirty,
         IF p.busy /\ ~pump.busy
         THEN pass'.pc = "read" /\ pass'.from = Start /\ ~pass'.failed
         ELSE pass' = pass
  PROVE  CoverInv'
  BY DEF CoverInv, Ahead, Runs, Start

(* A durable change keeps the types of the store's state.                  *)
LEMMA ChangeRunTypes ==
  ASSUME TypeOK, NEW r \in Runs, ChangeRun(r)
  PROVE  /\ work' \in [Runs -> 0..MaxWork] /\ running' \subseteq Runs
         /\ targets' = targets /\ targets' \in 0..MaxTargets
         /\ stale' \subseteq Runs /\ changes' \in Nat /\ errors' \in Nat
<1>1. work' \in [Runs -> 0..MaxWork]
  BY DEF TypeOK, ChangeRun
<1>2. running' \subseteq Runs
  BY DEF TypeOK, ChangeRun
<1>3. targets' = targets /\ targets' \in 0..MaxTargets
  BY DEF TypeOK, ChangeRun
<1>4. stale' \subseteq Runs
  BY DEF TypeOK, ChangeRun
<1>5. changes' \in Nat /\ errors' \in Nat
  BY DEF TypeOK, ChangeRun
<1> QED
  BY <1>1, <1>2, <1>3, <1>4, <1>5

(* A command of the actor from outside of the lanes.                       *)
LEMMA ActorChangesIInv ==
  ASSUME IInv, NEW r \in Runs, ActorChanges(r)
  PROVE  IInv'
<1> DEFINE p == Broadcast(pump, TRUE)
<1>1. pump \in PumpState /\ EndCommand(p, pass, sweep)
  BY DEF IInv, TypeOK, ActorChanges
<1>2. /\ p \in PumpState
      /\ p.ready = pump.ready /\ p.cursor = pump.cursor
      /\ p.busy <=> pump.busy \/ (pump.ready)
      /\ p.dirty <=> pump.dirty \/ (pump.ready /\ pump.busy)
      /\ p.cancelling <=> pump.cancelling \/ (pump.ready)
      /\ p.cancellationDirty <=> pump.cancellationDirty \/ (pump.ready /\ pump.cancelling)
  BY <1>1, BroadcastFields
<1>3. LaneInv
  BY DEF IInv
<1> HIDE DEF p
<1>4. /\ pump' \in PumpState /\ pass' \in PassState /\ sweep' \in SweepState
      /\ LaneInv'
      /\ pump'.ready = p.ready /\ pump'.dirty = p.dirty
      /\ pump'.cancelling = p.cancelling
      /\ pump'.cancellationDirty = p.cancellationDirty
      /\ IF p.busy /\ ~pump.busy
         THEN pass'.pc = "read" /\ pass'.from = Start /\ ~pass'.failed
         ELSE pass' = pass
      /\ IF p.cancelling /\ ~pump.cancelling
         THEN sweep'.pc = "read" /\ sweep'.page = 0
         ELSE sweep' = sweep
  BY <1>1, <1>2, <1>3, CommandLanes DEF LaneInv
<1>5. TypeOK'
  BY <1>4, ChangeRunTypes DEF IInv, TypeOK, ActorChanges
<1>6. CoverInv'
  <2>1. CASE pump.ready
    BY <2>1, <1>2, <1>4, WokenCovers
  <2>2. CASE ~pump.ready
    BY <2>2, <1>2, <1>4 DEF CoverInv
  <2> QED
    BY <2>1, <2>2
<1>7. PassInv'
  BY <1>2, <1>3, <1>4 DEF IInv, PassInv, LaneInv
<1>8. SweepInv'
  <2>1. targets' = targets
    BY ChangeRunTypes DEF IInv, ActorChanges
  <2>2. targets \in 0..MaxTargets
    BY DEF IInv, TypeOK
  <2> QED
    BY <2>1, <2>2, <1>2, <1>4, PumpAssumption DEF IInv, SweepInv
<1> QED
  BY <1>4, <1>5, <1>6, <1>7, <1>8 DEF IInv

(* The end of a retry job.                                                 *)
LEMMA JobFinishesIInv ==
  ASSUME IInv, JobFinishes
  PROVE  IInv'
<1> DEFINE p == Broadcast(pump, changed)
<1>1. pump \in PumpState /\ changed \in BOOLEAN /\ EndCommand(p, pass, sweep)
  BY DEF IInv, TypeOK, JobFinishes
<1>2. /\ p \in PumpState
      /\ p.ready = pump.ready /\ p.cursor = pump.cursor
      /\ p.busy <=> pump.busy \/ (changed /\ pump.ready)
      /\ p.dirty <=> pump.dirty \/ (changed /\ pump.ready /\ pump.busy)
      /\ p.cancelling <=> pump.cancelling \/ (changed /\ pump.ready)
      /\ p.cancellationDirty <=> pump.cancellationDirty \/ (changed /\ pump.ready /\ pump.cancelling)
  BY <1>1, BroadcastFields
<1>3. LaneInv
  BY DEF IInv
<1> HIDE DEF p
<1>4. /\ pump' \in PumpState /\ pass' \in PassState /\ sweep' \in SweepState
      /\ LaneInv'
      /\ pump'.ready = p.ready /\ pump'.dirty = p.dirty
      /\ pump'.cancelling = p.cancelling
      /\ pump'.cancellationDirty = p.cancellationDirty
      /\ IF p.busy /\ ~pump.busy
         THEN pass'.pc = "read" /\ pass'.from = Start /\ ~pass'.failed
         ELSE pass' = pass
      /\ IF p.cancelling /\ ~pump.cancelling
         THEN sweep'.pc = "read" /\ sweep'.page = 0
         ELSE sweep' = sweep
  BY <1>1, <1>2, <1>3, CommandLanes DEF LaneInv
<1>5. TypeOK'
  BY <1>4 DEF IInv, TypeOK, JobFinishes
<1>6. CoverInv'
  <2>1. CASE changed /\ pump.ready
    BY <2>1, <1>2, <1>4, WokenCovers
  <2>2. CASE ~pump.ready
    BY <2>2, <1>2, <1>4 DEF CoverInv
  <2>3. CASE ~changed
    <3>1. pass' = pass /\ (pump'.dirty <=> pump.dirty) /\ pump'.ready = pump.ready
      BY <2>3, <1>2, <1>4
    <3> QED
      BY <3>1, <2>3 DEF IInv, CoverInv, Ahead, Actionable, JobFinishes
  <2> QED
    BY <2>1, <2>2, <2>3
<1>7. PassInv'
  BY <1>2, <1>3, <1>4 DEF IInv, PassInv, LaneInv, JobFinishes
<1>8. SweepInv'
  <2>1. targets' = targets /\ targets \in 0..MaxTargets
    BY DEF IInv, TypeOK, JobFinishes
  <2> QED
    BY <2>1, <1>2, <1>4, PumpAssumption DEF IInv, SweepInv
<1> QED
  BY <1>4, <1>5, <1>6, <1>7, <1>8 DEF IInv

(* A cancelled run.                                                        *)
LEMMA CancelRunIInv ==
  ASSUME IInv, NEW r \in Runs, NEW n \in 0..MaxTargets, CancelRun(r, n)
  PROVE  IInv'
<1> DEFINE a == Wake(pump)
           b == WakeCancellation(a)
           p == Broadcast(b, TRUE)
<1>1. pump \in PumpState /\ EndCommand(p, pass, sweep)
  BY DEF IInv, TypeOK, CancelRun
<1>2. /\ a \in PumpState
      /\ a.ready = pump.ready /\ a.cursor = pump.cursor
      /\ a.busy <=> pump.busy \/ (pump.ready)
      /\ a.dirty <=> pump.dirty \/ (pump.ready /\ pump.busy)
      /\ a.cancelling <=> pump.cancelling \/ (pump.ready)
      /\ a.cancellationDirty <=> pump.cancellationDirty \/ (pump.ready /\ pump.cancelling)
  BY <1>1, WakeFields
<1> HIDE DEF a
<1>3. /\ b \in PumpState
      /\ b.ready = a.ready /\ b.busy = a.busy /\ b.dirty = a.dirty /\ b.cursor = a.cursor
      /\ b.cancelling
      /\ b.cancellationDirty <=> a.cancellationDirty \/ a.cancelling
  BY <1>2, WakeCancellationFields
<1> HIDE DEF b
<1>4. /\ p \in PumpState
      /\ p.ready = b.ready /\ p.cursor = b.cursor
      /\ p.busy <=> b.busy \/ (b.ready)
      /\ p.dirty <=> b.dirty \/ (b.ready /\ b.busy)
      /\ p.cancelling <=> b.cancelling \/ (b.ready)
      /\ p.cancellationDirty <=> b.cancellationDirty \/ (b.ready /\ b.cancelling)
  BY <1>3, BroadcastFields
<1> HIDE DEF p
<1>5. LaneInv
  BY DEF IInv
<1>6. /\ pump' \in PumpState /\ pass' \in PassState /\ sweep' \in SweepState
      /\ LaneInv'
      /\ pump'.ready = p.ready /\ pump'.dirty = p.dirty
      /\ pump'.cancelling = p.cancelling
      /\ pump'.cancellationDirty = p.cancellationDirty
      /\ IF p.busy /\ ~pump.busy
         THEN pass'.pc = "read" /\ pass'.from = Start /\ ~pass'.failed
         ELSE pass' = pass
      /\ IF p.cancelling /\ ~pump.cancelling
         THEN sweep'.pc = "read" /\ sweep'.page = 0
         ELSE sweep' = sweep
  BY <1>1, <1>2, <1>3, <1>4, <1>5, CommandLanes DEF LaneInv
<1>7. targets \in 0..MaxTargets /\ targets' = targets + n /\ targets' <= MaxTargets
  BY DEF IInv, TypeOK, CancelRun
<1>8. TypeOK'
  <2>1. targets' \in 0..MaxTargets
    BY <1>7, PumpAssumption
  <2>2. running' \subseteq Runs /\ stale' \subseteq Runs /\ changes' \in Nat
    BY DEF IInv, TypeOK, CancelRun
  <2> QED
    BY <2>1, <2>2, <1>6 DEF IInv, TypeOK, CancelRun
<1>9. CoverInv'
  <2>1. CASE pump.ready
    BY <2>1, <1>2, <1>3, <1>4, <1>6, WokenCovers
  <2>2. CASE ~pump.ready
    BY <2>2, <1>2, <1>3, <1>4, <1>6 DEF CoverInv
  <2> QED
    BY <2>1, <2>2
<1>10. PassInv'
  BY <1>2, <1>3, <1>4, <1>5, <1>6 DEF IInv, PassInv, LaneInv
<1>11. SweepInv'
  <2>1. p.cancelling /\ (pump.cancelling => p.cancellationDirty)
    BY <1>2, <1>3, <1>4
  <2>2. sweep.page <= targets /\ sweep.page \in Nat /\ (sweep.pc # "settle" => sweep.page = 0)
    BY DEF IInv, SweepInv, TypeOK, SweepState
  <2>3. sweep'.page <= targets'
    BY <1>6, <1>7, <2>2, PumpAssumption
  <2> QED
    BY <1>6, <2>1, <2>2, <2>3 DEF SweepInv
<1> QED
  BY <1>6, <1>8, <1>9, <1>10, <1>11 DEF IInv

(* The end of the host's recovery.                                         *)
LEMMA RecoveryFinishedIInv ==
  ASSUME IInv, RecoveryFinished
  PROVE  IInv'
<1> DEFINE o == [pump EXCEPT !.ready = TRUE]
           a == Wake(o)
           p == Broadcast(a, changed)
<1>1. /\ pump \in PumpState /\ changed \in BOOLEAN /\ EndCommand(p, pass, sweep)
      /\ ~pump.ready
  BY DEF IInv, TypeOK, RecoveryFinished
<1>2. /\ o \in PumpState
      /\ o.ready /\ o.busy = pump.busy /\ o.dirty = pump.dirty /\ o.cursor = pump.cursor
      /\ o.cancelling = pump.cancelling /\ o.cancellationDirty = pump.cancellationDirty
  BY <1>1 DEF PumpState
<1> HIDE DEF o
<1>3. /\ a \in PumpState
      /\ a.ready = o.ready /\ a.cursor = o.cursor
      /\ a.busy <=> o.busy \/ (o.ready)
      /\ a.dirty <=> o.dirty \/ (o.ready /\ o.busy)
      /\ a.cancelling <=> o.cancelling \/ (o.ready)
      /\ a.cancellationDirty <=> o.cancellationDirty \/ (o.ready /\ o.cancelling)
  BY <1>2, WakeFields
<1> HIDE DEF a
<1>4. /\ p \in PumpState
      /\ p.ready = a.ready /\ p.cursor = a.cursor
      /\ p.busy <=> a.busy \/ (changed /\ a.ready)
      /\ p.dirty <=> a.dirty \/ (changed /\ a.ready /\ a.busy)
      /\ p.cancelling <=> a.cancelling \/ (changed /\ a.ready)
      /\ p.cancellationDirty <=> a.cancellationDirty \/ (changed /\ a.ready /\ a.cancelling)
  BY <1>1, <1>3, BroadcastFields
<1> HIDE DEF p
<1>5. LaneInv
  BY DEF IInv
<1>6. /\ pump' \in PumpState /\ pass' \in PassState /\ sweep' \in SweepState
      /\ LaneInv'
      /\ pump'.ready = p.ready /\ pump'.dirty = p.dirty
      /\ pump'.cancelling = p.cancelling
      /\ pump'.cancellationDirty = p.cancellationDirty
      /\ IF p.busy /\ ~pump.busy
         THEN pass'.pc = "read" /\ pass'.from = Start /\ ~pass'.failed
         ELSE pass' = pass
      /\ IF p.cancelling /\ ~pump.cancelling
         THEN sweep'.pc = "read" /\ sweep'.page = 0
         ELSE sweep' = sweep
  BY <1>1, <1>2, <1>3, <1>4, <1>5, CommandLanes DEF LaneInv
<1>7. TypeOK'
  BY <1>6 DEF IInv, TypeOK, RecoveryFinished
<1>8. CoverInv'
  BY <1>1, <1>2, <1>3, <1>4, <1>5, <1>6, WokenCovers DEF LaneInv
<1>9. PassInv'
  BY <1>1, <1>2, <1>3, <1>4, <1>5, <1>6 DEF IInv, PassInv, LaneInv
<1>10. SweepInv'
  <2>1. targets' = targets /\ targets \in 0..MaxTargets
    BY DEF IInv, TypeOK, RecoveryFinished
  <2> QED
    BY <2>1, <1>2, <1>3, <1>4, <1>6, PumpAssumption DEF IInv, SweepInv
<1> QED
  BY <1>6, <1>7, <1>8, <1>9, <1>10 DEF IInv

-----------------------------------------------------------------------------
(* The results of the lanes.                                               *)

(* The end of an execution pass: the one command that answers for a page,  *)
(* so that a run the page did not reach is covered by the next page or by  *)
(* the dirty flag, which a page in the middle does not spend.              *)
LEMMA FinishPassIInv ==
  ASSUME IInv, FinishPass
  PROVE  IInv'
<1> DEFINE settled == SettlePage(pump, pass.cursor, pass.again)
           o == settled.pump
           a == Broadcast(o, changed)
           p == IF settled.wake THEN Wake(a) ELSE a
           e == [NoPass EXCEPT !.failed = pass.failed]
<1>1. /\ pump \in PumpState /\ pass \in PassState /\ sweep \in SweepState
      /\ changed \in BOOLEAN /\ EndCommand(p, e, sweep) /\ pass.pc = "done"
  BY DEF IInv, TypeOK, FinishPass
<1>2. LaneInv /\ PassInv
  BY DEF IInv
<1>3. /\ o \in PumpState
      /\ o.ready = pump.ready /\ ~o.busy /\ o.cursor = pass.cursor
      /\ o.dirty <=> pump.dirty /\ pass.cursor # Start
      /\ o.cancelling = pump.cancelling /\ o.cancellationDirty = pump.cancellationDirty
  BY <1>1 DEF SettlePage, PumpState, PassState
<1>4. settled.wake <=> pass.again \/ (pass.cursor = Start /\ pump.dirty)
  BY DEF SettlePage
<1>5. e \in PassState /\ e.pc = "none" /\ e.failed = pass.failed
  BY <1>1 DEF PassState, NoPass, Cursors
<1> HIDE DEF settled, o, e
<1>6. /\ a \in PumpState
      /\ a.ready = o.ready /\ a.cursor = o.cursor
      /\ a.busy <=> o.busy \/ (changed /\ o.ready)
      /\ a.dirty <=> o.dirty \/ (changed /\ o.ready /\ o.busy)
      /\ a.cancelling <=> o.cancelling \/ (changed /\ o.ready)
      /\ a.cancellationDirty <=> o.cancellationDirty \/ (changed /\ o.ready /\ o.cancelling)
  BY <1>1, <1>3, BroadcastFields
<1> HIDE DEF a
<1>7. /\ p \in PumpState
      /\ p.ready = a.ready /\ p.cursor = a.cursor
      /\ p.busy <=> a.busy \/ (settled.wake /\ a.ready)
      /\ p.dirty <=> a.dirty \/ (settled.wake /\ a.ready /\ a.busy)
      /\ p.cancelling <=> a.cancelling \/ (settled.wake /\ a.ready)
      /\ p.cancellationDirty <=> a.cancellationDirty \/ (settled.wake /\ a.ready /\ a.cancelling)
  <2>1. CASE settled.wake
    BY <2>1, <1>6, WakeFields
  <2>2. CASE ~settled.wake
    BY <2>2, <1>6 DEF PumpState
  <2> QED
    BY <2>1, <2>2
<1> HIDE DEF p
<1>8. /\ pump' \in PumpState /\ pass' \in PassState /\ sweep' \in SweepState
      /\ pump'.ready = p.ready /\ pump'.busy = p.busy /\ pump'.dirty = p.dirty
      /\ pump'.cancelling = p.cancelling
      /\ pump'.cancellationDirty = p.cancellationDirty
      /\ IF p.busy /\ e.pc = "none"
         THEN /\ pump'.cursor = Start /\ pass'.pc = "read" /\ pass'.from = p.cursor
              /\ pass'.failed = FALSE
         ELSE pump'.cursor = p.cursor /\ pass' = e
      /\ IF p.cancelling /\ sweep.pc = "none"
         THEN sweep'.pc = "read" /\ sweep'.page = 0
         ELSE sweep' = sweep
  BY <1>1, <1>5, <1>7, EndCommandFields
<1>9. pump.ready /\ pump.busy /\ p.ready /\ p.cursor = pass.cursor
  BY <1>1, <1>2, <1>3, <1>6, <1>7 DEF LaneInv
<1>10. p.busy <=> changed \/ settled.wake
  BY <1>3, <1>6, <1>7, <1>9
<1>11. p.dirty <=> (pump.dirty /\ pass.cursor # Start) \/ (changed /\ settled.wake)
  BY <1>3, <1>6, <1>7, <1>9
<1>12. TypeOK'
  BY <1>8 DEF IInv, TypeOK, FinishPass
<1>13. LaneInv'
  <2>1. ~p.busy => p.cursor = Start /\ ~p.dirty
    BY <1>1, <1>2, <1>4, <1>9, <1>10, <1>11 DEF PassInv
  <2>2. pump'.cursor = Start /\ (pump'.busy <=> pass'.pc # "none") /\ (pump'.dirty => pump'.busy)
    BY <2>1, <1>5, <1>8
  <2>3. pump'.ready
    BY <1>8, <1>9
  <2>4. /\ pump'.cancelling <=> sweep'.pc # "none"
        /\ pump'.cancellationDirty => pump'.cancelling
    BY <1>2, <1>3, <1>6, <1>7, <1>8 DEF LaneInv
  <2> QED
    BY <2>2, <2>3, <2>4 DEF LaneInv
<1>14. PassInv'
  BY <1>5, <1>8 DEF PassInv
<1>15. CoverInv'
  <2> SUFFICES ASSUME NEW r \in Runs, Actionable(r)', ~pump'.dirty, ~pass'.failed
               PROVE  Ahead(r)'
    BY DEF CoverInv
  <2>1. Actionable(r)
    BY DEF FinishPass, Actionable
  <2>2. changed \/ pass.failed \/ pump.dirty \/ Ahead(r)
    BY <2>1, <1>9 DEF IInv, CoverInv
  <2>3. r > Start
    BY DEF Runs, Start
  <2>4. p.busy => pass'.pc = "read" /\ pass'.from = pass.cursor
    BY <1>5, <1>8, <1>9
  <2>5. ~p.busy => pass'.failed = pass.failed
    BY <1>5, <1>8
  <2>6. ~p.dirty
    BY <1>8
  <2>7. p.busy /\ r > pass.cursor
    <3>1. CASE changed
      BY <3>1, <2>3, <2>6, <1>1, <1>2, <1>4, <1>10, <1>11 DEF PassInv
    <3>2. CASE pass.failed
      BY <3>2, <2>3, <2>5, <1>1, <1>2 DEF PassInv
    <3>3. CASE pump.dirty
      BY <3>3, <2>3, <2>6, <1>4, <1>10, <1>11
    <3>4. CASE Ahead(r)
      BY <3>4, <1>1, <1>4, <1>10 DEF Ahead
    <3> QED
      BY <2>2, <3>1, <3>2, <3>3, <3>4
  <2> QED
    BY <2>4, <2>7 DEF Ahead
<1>16. SweepInv'
  <2>1. targets' = targets /\ targets \in 0..MaxTargets
    BY DEF IInv, TypeOK, FinishPass
  <2>2. /\ p.ready = pump.ready /\ (pump.cancelling => p.cancelling)
        /\ pump.cancellationDirty => p.cancellationDirty
    BY <1>3, <1>6, <1>7
  <2> QED
    BY <2>1, <2>2, <1>8, PumpAssumption DEF IInv, SweepInv
<1> QED
  BY <1>12, <1>13, <1>14, <1>15, <1>16 DEF IInv

(* The end of a cancellation pass: what it saw of the targets decides      *)
(* whether there is another.                                               *)
LEMMA FinishSweepIInv ==
  ASSUME IInv, FinishSweep
  PROVE  IInv'
<1> DEFINE o == [pump EXCEPT !.cancelling = FALSE,
                             !.cancellationDirty = @ /\ sweep.failed]
           a == Broadcast(o, changed)
           again == sweep.failed \/ sweep.progress \/ pump.cancellationDirty
           p == IF again THEN WakeCancellation(a) ELSE a
<1>1. /\ pump \in PumpState /\ pass \in PassState /\ sweep \in SweepState
      /\ changed \in BOOLEAN /\ EndCommand(p, pass, NoSweep) /\ sweep.pc = "done"
  BY DEF IInv, TypeOK, FinishSweep
<1>2. LaneInv /\ PassInv /\ SweepInv
  BY DEF IInv
<1>3. /\ o \in PumpState
      /\ o.ready = pump.ready /\ o.busy = pump.busy /\ o.cursor = pump.cursor
      /\ o.dirty = pump.dirty
      /\ ~o.cancelling /\ (o.cancellationDirty <=> pump.cancellationDirty /\ sweep.failed)
  BY <1>1 DEF PumpState, SweepState
<1>4. NoSweep \in SweepState /\ NoSweep.pc = "none" /\ NoSweep.page = 0
  BY PumpAssumption DEF SweepState, NoSweep
<1> HIDE DEF o
<1>5. /\ a \in PumpState
      /\ a.ready = o.ready /\ a.cursor = o.cursor
      /\ a.busy <=> o.busy \/ (changed /\ o.ready)
      /\ a.dirty <=> o.dirty \/ (changed /\ o.ready /\ o.busy)
      /\ a.cancelling <=> o.cancelling \/ (changed /\ o.ready)
      /\ a.cancellationDirty <=> o.cancellationDirty \/ (changed /\ o.ready /\ o.cancelling)
  BY <1>1, <1>3, BroadcastFields
<1> HIDE DEF a
<1>6. /\ p \in PumpState
      /\ p.ready = a.ready /\ p.busy = a.busy /\ p.dirty = a.dirty /\ p.cursor = a.cursor
      /\ p.cancelling <=> a.cancelling \/ again
      /\ p.cancellationDirty <=> a.cancellationDirty \/ (again /\ a.cancelling)
  <2>1. CASE again
    BY <2>1, <1>5, WakeCancellationFields
  <2>2. CASE ~again
    BY <2>2, <1>5 DEF PumpState
  <2> QED
    BY <2>1, <2>2
<1>7. again <=> sweep.failed \/ sweep.progress \/ pump.cancellationDirty
  OBVIOUS
<1> HIDE DEF p, again
<1>8. /\ pump' \in PumpState /\ pass' \in PassState /\ sweep' \in SweepState
      /\ pump'.ready = p.ready /\ pump'.busy = p.busy /\ pump'.dirty = p.dirty
      /\ pump'.cancelling = p.cancelling
      /\ pump'.cancellationDirty = p.cancellationDirty
      /\ IF p.busy /\ pass.pc = "none"
         THEN /\ pump'.cursor = Start /\ pass'.pc = "read" /\ pass'.from = p.cursor
              /\ pass'.failed = FALSE
         ELSE pump'.cursor = p.cursor /\ pass' = pass
      /\ IF p.cancelling /\ NoSweep.pc = "none"
         THEN sweep'.pc = "read" /\ sweep'.page = 0
         ELSE sweep' = NoSweep
  BY <1>1, <1>4, <1>6, EndCommandFields
<1>9. /\ p.ready = pump.ready /\ p.cursor = Start
      /\ p.busy <=> pump.busy \/ (changed /\ pump.ready)
      /\ p.dirty <=> pump.dirty \/ (changed /\ pump.ready /\ pump.busy)
  BY <1>2, <1>3, <1>5, <1>6 DEF LaneInv
<1>10. TypeOK'
  BY <1>8 DEF IInv, TypeOK, FinishSweep
<1>11. LaneInv'
  <2>1. pump'.cursor = Start /\ (pump'.busy <=> pass'.pc # "none")
    BY <1>2, <1>8, <1>9 DEF LaneInv
  <2>2. (pump'.dirty => pump'.busy) /\ (pump'.busy => pump'.ready)
    BY <1>2, <1>8, <1>9 DEF LaneInv
  <2>3. pump'.cancelling <=> sweep'.pc # "none"
    BY <1>4, <1>8
  <2>4. pump'.cancellationDirty => pump'.cancelling
    BY <1>3, <1>5, <1>6, <1>7, <1>8
  <2> QED
    BY <2>1, <2>2, <2>3, <2>4 DEF LaneInv
<1>12. PassInv'
  BY <1>2, <1>8, <1>9 DEF PassInv, LaneInv, FinishSweep
<1>13. CoverInv'
  <2>1. CASE changed /\ pump.ready
    BY <2>1, <1>2, <1>8, <1>9, WokenCovers DEF LaneInv
  <2>2. CASE ~pump.ready
    BY <2>2, <1>8, <1>9 DEF CoverInv
  <2>3. CASE ~changed
    <3>1. pass' = pass /\ (pump'.dirty <=> pump.dirty) /\ pump'.ready = pump.ready
      BY <2>3, <1>2, <1>8, <1>9 DEF LaneInv
    <3> QED
      BY <3>1, <2>3 DEF IInv, CoverInv, Ahead, Actionable, FinishSweep
  <2> QED
    BY <2>1, <2>2, <2>3
<1>14. SweepInv'
  <2>1. targets' = targets /\ targets \in 0..MaxTargets
    BY DEF IInv, TypeOK, FinishSweep
  <2>2. sweep'.pc \in {"none", "read"} /\ sweep'.page = 0
    BY <1>4, <1>8
  <2>3. targets > 0 => again
    BY <1>1, <1>2, <1>7 DEF SweepInv
  <2> QED
    BY <2>1, <2>2, <2>3, <1>6, <1>8, PumpAssumption DEF SweepInv
<1> QED
  BY <1>10, <1>11, <1>12, <1>13, <1>14 DEF IInv

-----------------------------------------------------------------------------
(* The lanes, off the actor.                                               *)

(* A page holds the first runs after the cursor: a run behind a full page  *)
(* has an id above its last.                                               *)
LEMMA ReadPageIInv ==
  ASSUME IInv, ReadPage
  PROVE  IInv'
<1> DEFINE listed == {r \in running : r > pass.from}
<1>1. PICK page \in SUBSET listed, last \in Runs \cup {Start} :
        /\ page # listed => Cardinality(page) = PageSize
        /\ \A x \in page, y \in listed \ page : x < y
        /\ IF page = {} THEN last = Start ELSE last \in page /\ \A x \in page : x <= last
        /\ pass' = [pass EXCEPT !.pc = "scan", !.page = page, !.last = last,
                                !.full = (Cardinality(page) = PageSize)]
  BY DEF ReadPage
<1>2. pass \in PassState /\ running \subseteq Runs /\ pass.pc = "read"
  BY DEF IInv, TypeOK, ReadPage
<1>3. page \subseteq Runs /\ last \in Cursors
  BY <1>2 DEF Cursors
<1>4. /\ pass' \in PassState
      /\ pass'.pc = "scan" /\ pass'.page = page /\ pass'.last = last
      /\ pass'.full <=> Cardinality(page) = PageSize
      /\ pass'.failed = pass.failed
  BY <1>1, <1>2, <1>3 DEF PassState
<1>5. /\ UNCHANGED <<targets, job, pump, sweep, changes, work, running, changed, errors>>
      /\ stale' = {}
  BY DEF ReadPage, PassOnly
<1>6. TypeOK'
  BY <1>4, <1>5 DEF IInv, TypeOK
<1>7. LaneInv'
  BY <1>2, <1>4, <1>5 DEF IInv, LaneInv
<1>8. PassInv'
  BY <1>2, <1>4, <1>5 DEF IInv, PassInv
<1>9. CoverInv'
  <2> SUFFICES ASSUME NEW r \in Runs, Actionable(r)',
                      ~changed', pump'.ready, ~pass'.failed, ~pump'.dirty
               PROVE  Ahead(r)'
    BY DEF CoverInv
  <2>1. Actionable(r) /\ ~changed /\ pump.ready /\ ~pass.failed /\ ~pump.dirty
    BY <1>4, <1>5 DEF Actionable
  <2>2. r \in listed
    BY <2>1, <1>2 DEF IInv, CoverInv, Ahead, Actionable
  <2>3. CASE r \in page
    BY <2>3, <1>4 DEF Ahead
  <2>4. CASE r \notin page
    <3>1. Cardinality(page) = PageSize
      BY <2>2, <2>4, <1>1
    <3>2. page # {}
      BY <3>1, FS_EmptySet, PumpAssumption
    <3>3. last < r
      BY <3>2, <2>2, <2>4, <1>1
    <3>4. last \in Int /\ r \in Int
      BY <1>3 DEF Cursors, Runs, Start
    <3>5. r > last
      BY <3>3, <3>4
    <3> QED
      BY <3>1, <3>5, <1>4 DEF Ahead
  <2> QED
    BY <2>3, <2>4
<1>10. SweepInv'
  BY <1>5 DEF IInv, SweepInv
<1> QED
  BY <1>6, <1>7, <1>8, <1>9, <1>10 DEF IInv

(* A waiting run is passed over.                                           *)
LEMMA PassSkipsIInv ==
  ASSUME IInv, NEW r \in Runs, PassSkips(r)
  PROVE  IInv'
<1>1. pass \in PassState /\ pass.pc = "scan" /\ ~Actionable(r)
  BY DEF IInv, TypeOK, PassSkips, Head
<1>2. /\ pass' \in PassState
      /\ pass'.pc = "scan" /\ pass'.page = pass.page \ {r} /\ pass'.last = pass.last
      /\ pass'.full = pass.full /\ pass'.failed = pass.failed
  BY <1>1 DEF PassSkips, PassState
<1>3. UNCHANGED <<targets, job, pump, sweep, changes, work, running, changed, stale, errors>>
  BY DEF PassSkips, PassOnly
<1>4. TypeOK'
  BY <1>2, <1>3 DEF IInv, TypeOK
<1>5. LaneInv'
  BY <1>1, <1>2, <1>3 DEF IInv, LaneInv
<1>6. PassInv'
  BY <1>1, <1>2, <1>3 DEF IInv, PassInv
<1>7. CoverInv'
  <2> SUFFICES ASSUME NEW q \in Runs, Actionable(q)',
                      ~changed', pump'.ready, ~pass'.failed, ~pump'.dirty
               PROVE  Ahead(q)'
    BY DEF CoverInv
  <2>1. Actionable(q) /\ ~changed /\ pump.ready /\ ~pass.failed /\ ~pump.dirty
    BY <1>2, <1>3 DEF Actionable
  <2>2. Ahead(q) /\ q # r
    BY <2>1, <1>1 DEF IInv, CoverInv
  <2> QED
    BY <2>2, <1>1, <1>2 DEF Ahead
<1>8. SweepInv'
  BY <1>3 DEF IInv, SweepInv
<1> QED
  BY <1>4, <1>5, <1>6, <1>7, <1>8 DEF IInv

(* A pass that answers: what it has not looked at is covered by the page   *)
(* it asks for, by the change it made, or by the dirty flag.               *)
LEMMA PassDoneIInv ==
  ASSUME IInv, NEW cursor \in Cursors, NEW again \in BOOLEAN,
         pass.pc = "scan", PassDone(cursor, again),
         again \/ cursor = Start,
         work' \in [Runs -> 0..MaxWork], running' \subseteq Runs, changed' \in BOOLEAN,
         UNCHANGED <<targets, job, pump, stale, sweep, changes, errors>>,
         \/ changed'
         \/ pump.dirty
         \/ /\ UNCHANGED <<work, running, changed>>
            /\ \A r \in Runs : Actionable(r) /\ Ahead(r) => again /\ r > cursor
  PROVE  IInv'
<1>1. pass \in PassState
  BY DEF IInv, TypeOK
<1>2. /\ pass' \in PassState
      /\ pass'.pc = "done" /\ pass'.cursor = cursor /\ pass'.again = again
      /\ pass'.failed = pass.failed
  BY <1>1 DEF PassDone, PassState
<1>3. ~pass.failed
  BY DEF IInv, PassInv
<1>4. TypeOK'
  BY <1>2 DEF IInv, TypeOK
<1>5. LaneInv'
  BY <1>2 DEF IInv, LaneInv
<1>6. PassInv'
  BY <1>2, <1>3 DEF PassInv
<1>7. CoverInv'
  <2>1. CASE changed' \/ pump.dirty
    BY <2>1 DEF CoverInv
  <2>2. CASE /\ UNCHANGED <<work, running, changed>>
             /\ \A r \in Runs : Actionable(r) /\ Ahead(r) => again /\ r > cursor
    <3> SUFFICES ASSUME NEW q \in Runs, Actionable(q)',
                        ~changed', pump'.ready, ~pass'.failed, ~pump'.dirty
                 PROVE  Ahead(q)'
      BY DEF CoverInv
    <3>1. Actionable(q) /\ ~changed /\ pump.ready /\ ~pass.failed /\ ~pump.dirty
      BY <1>2, <2>2 DEF Actionable
    <3>2. Ahead(q)
      BY <3>1 DEF IInv, CoverInv
    <3> QED
      BY <3>1, <3>2, <2>2, <1>2 DEF Ahead
  <2> QED
    BY <2>1, <2>2
<1>8. SweepInv'
  BY DEF IInv, SweepInv
<1> QED
  BY <1>4, <1>5, <1>6, <1>7, <1>8 DEF IInv

(* The steps of the execution pass.                                        *)
LEMMA PassStepIInv ==
  ASSUME IInv, PassStep
  PROVE  IInv'
<1>1. CASE ReadPage
  BY <1>1, ReadPageIInv
<1>2. ASSUME NEW r \in Runs, PassSkips(r) PROVE IInv'
  BY <1>2, PassSkipsIInv
<1>3. ASSUME NEW r \in Runs, PassSteps(r) PROVE IInv'
  <2>1. r \in Cursors /\ pass.pc = "scan" /\ PassDone(r, TRUE)
    BY <1>3 DEF PassSteps, Head, Cursors
  <2>2. work' \in [Runs -> 0..MaxWork]
    <3>1. CASE work' = work
      BY <3>1 DEF IInv, TypeOK
    <3>2. CASE work' = [work EXCEPT ![r] = @ - 1]
      <4>1. work[r] \in 0..MaxWork /\ work[r] > 0
        BY <1>3 DEF IInv, TypeOK, PassSteps, Actionable
      <4>2. work[r] - 1 \in 0..MaxWork
        BY <4>1, PumpAssumption
      <4> QED
        BY <3>2, <4>2 DEF IInv, TypeOK
    <3> QED
      BY <1>3, <3>1, <3>2 DEF PassSteps
  <2>3. running' \subseteq Runs /\ changed' = TRUE
    BY <1>3 DEF PassSteps, IInv, TypeOK
  <2>4. UNCHANGED <<targets, job, pump, stale, sweep, changes, errors>>
    BY <1>3 DEF PassSteps, PassOnly
  <2> QED
    BY <2>1, <2>2, <2>3, <2>4, PassDoneIInv
<1>4. ASSUME NEW r \in Runs, PassDrops(r) PROVE IInv'
  <2>1. r \in Cursors /\ pass.pc = "scan" /\ PassDone(r, TRUE) /\ stale # {}
    BY <1>4 DEF PassDrops, Head, Cursors
  <2>2. UNCHANGED <<targets, job, pump, stale, sweep, changes, errors, work, running, changed>>
    BY <1>4 DEF PassDrops, PassOnly
  <2>3. changed \/ pump.dirty
    BY <2>1 DEF IInv, PassInv
  <2>4. work \in [Runs -> 0..MaxWork] /\ running \subseteq Runs /\ changed \in BOOLEAN
    BY DEF IInv, TypeOK
  <2> QED
    BY <2>1, <2>2, <2>3, <2>4, PassDoneIInv
<1>5. CASE PassEnds
  <2> DEFINE cursor == IF pass.full THEN pass.last ELSE Start
  <2>1. pass.pc = "scan" /\ pass.page = {} /\ PassDone(cursor, pass.full)
    BY <1>5 DEF PassEnds
  <2>2. UNCHANGED <<targets, job, pump, stale, sweep, changes, errors, work, running, changed>>
    BY <1>5 DEF PassEnds, PassOnly
  <2>3. work \in [Runs -> 0..MaxWork] /\ running \subseteq Runs /\ changed \in BOOLEAN
    BY DEF IInv, TypeOK
  <2>4. cursor \in Cursors /\ pass.full \in BOOLEAN /\ (pass.full \/ cursor = Start)
    BY DEF IInv, TypeOK, PassState, Cursors
  <2>5. \A r \in Runs : Actionable(r) /\ Ahead(r) => pass.full /\ r > cursor
    BY <2>1 DEF Ahead
  <2> HIDE DEF cursor
  <2> QED
    BY <2>1, <2>2, <2>3, <2>4, <2>5, PassDoneIInv
<1>6. CASE PassFails
  <2>1. /\ pass' \in PassState
        /\ pass'.pc = "done" /\ pass'.cursor = Start /\ pass'.again = FALSE /\ pass'.failed
    BY <1>6 DEF PassFails, IInv, TypeOK, PassState, Cursors
  <2>2. UNCHANGED <<targets, job, pump, stale, sweep, changes, work, running, changed>>
    BY <1>6 DEF PassFails, PassOnly
  <2>3. TypeOK'
    BY <1>6, <2>1, <2>2 DEF PassFails, IInv, TypeOK
  <2>4. LaneInv'
    BY <1>6, <2>1, <2>2 DEF PassFails, IInv, LaneInv
  <2>5. PassInv' /\ CoverInv'
    BY <2>1 DEF PassInv, CoverInv
  <2>6. SweepInv'
    BY <2>2 DEF IInv, SweepInv
  <2> QED
    BY <2>3, <2>4, <2>5, <2>6 DEF IInv
<1> QED
  BY <1>1, <1>2, <1>3, <1>4, <1>5, <1>6 DEF PassStep

(* The steps of the cancellation pass leave the execution lane alone.      *)
LEMMA SweepKeepsPass ==
  ASSUME IInv, UNCHANGED <<work, running, pump, pass, stale>>, changed => changed'
  PROVE  PassInv' /\ CoverInv'
<1>1. PassInv'
  BY DEF IInv, PassInv
<1>2. CoverInv'
  BY DEF IInv, CoverInv, Ahead, Actionable
<1> QED
  BY <1>1, <1>2

(* The steps of the cancellation pass.                                     *)
LEMMA SweepStepIInv ==
  ASSUME IInv, SweepStep
  PROVE  IInv'
<1>1. UNCHANGED <<work, running, job, pump, pass, stale, changes>> /\ (changed => changed')
  BY DEF SweepStep, SweepReads, SweepSettles, SweepCannotSettle, SweepFails, SweepEnds, SweepOnly
<1>2. PassInv' /\ CoverInv'
  BY <1>1, SweepKeepsPass
<1>3. /\ sweep \in SweepState /\ targets \in Nat /\ targets <= MaxTargets
      /\ sweep.page \in Nat /\ sweep.page <= PageSize /\ errors \in Nat /\ changed \in BOOLEAN
  BY PumpAssumption DEF IInv, TypeOK, SweepState
<1>4. /\ pump.cancelling <=> sweep.pc # "none"
      /\ sweep.page <= targets
      /\ sweep.pc # "settle" => sweep.page = 0
      /\ sweep.pc \in {"settle", "done"} /\ targets > 0
           => sweep.progress \/ sweep.failed \/ pump.cancellationDirty
  BY DEF IInv, LaneInv, SweepInv
<1>5. ASSUME sweep' \in SweepState, sweep'.pc # "none", pump.cancelling,
             targets' \in Nat, targets' <= targets, changed' \in BOOLEAN, errors' \in Nat,
             sweep'.page <= targets', sweep'.pc # "settle" => sweep'.page = 0,
             targets' > 0 => sweep'.progress \/ sweep'.failed \/ pump.cancellationDirty
      PROVE  IInv'
  <2>1. targets' \in 0..MaxTargets
    BY <1>3, <1>5, PumpAssumption
  <2>2. TypeOK'
    BY <1>1, <1>5, <2>1 DEF IInv, TypeOK
  <2>3. LaneInv'
    BY <1>1, <1>5 DEF IInv, LaneInv
  <2>4. SweepInv'
    BY <1>1, <1>5 DEF SweepInv
  <2> QED
    BY <1>2, <2>2, <2>3, <2>4 DEF IInv
<1>6. CASE SweepReads
  <2> DEFINE page == IF targets < PageSize THEN targets ELSE PageSize
             some == page > 0
  <2>1. /\ sweep.pc = "read" /\ UNCHANGED <<targets, changed, errors>>
        /\ sweep' = [sweep EXCEPT !.pc = "settle", !.page = page, !.progress = some]
    BY <1>6 DEF SweepReads
  <2>2. page \in 0..PageSize /\ page <= targets /\ (targets > 0 => some)
    BY <1>3, PumpAssumption
  <2>3. some \in BOOLEAN
    OBVIOUS
  <2> HIDE DEF page, some
  <2>4. /\ sweep' \in SweepState /\ sweep'.pc = "settle" /\ sweep'.page = page
        /\ sweep'.progress = some
    BY <1>3, <2>1, <2>2, <2>3 DEF SweepState
  <2> QED
    BY <1>3, <1>4, <1>5, <2>1, <2>2, <2>4
<1>7. CASE SweepSettles
  <2>1. /\ sweep.pc = "settle" /\ sweep.page > 0 /\ errors' = errors
        /\ sweep' = [sweep EXCEPT !.page = @ - 1]
        /\ targets' = targets - 1 /\ changed' = TRUE
    BY <1>7 DEF SweepSettles
  <2>2. sweep.page - 1 \in 0..PageSize
    BY <1>3, <2>1, PumpAssumption
  <2>3. /\ sweep' \in SweepState /\ sweep'.pc = "settle" /\ sweep'.page = sweep.page - 1
        /\ sweep'.progress = sweep.progress /\ sweep'.failed = sweep.failed
    BY <1>3, <2>1, <2>2 DEF SweepState
  <2>4. targets > 0
    BY <1>3, <1>4, <2>1
  <2>5. targets' \in Nat /\ targets' <= targets /\ sweep'.page <= targets'
    BY <1>3, <1>4, <2>1, <2>3, <2>4
  <2> QED
    BY <1>3, <1>4, <1>5, <2>1, <2>3, <2>4, <2>5
<1>8. CASE SweepCannotSettle
  <2>1. /\ sweep.pc = "settle" /\ sweep.page > 0 /\ errors' = errors + 1
        /\ sweep' = [sweep EXCEPT !.page = @ - 1, !.failed = TRUE]
        /\ UNCHANGED <<targets, changed>>
    BY <1>8 DEF SweepCannotSettle
  <2>2. sweep.page - 1 \in 0..PageSize
    BY <1>3, <2>1, PumpAssumption
  <2>3. /\ sweep' \in SweepState /\ sweep'.pc = "settle" /\ sweep'.page = sweep.page - 1
        /\ sweep'.failed
    BY <1>3, <2>1, <2>2 DEF SweepState
  <2>4. sweep'.page <= targets'
    BY <1>3, <1>4, <2>1, <2>3
  <2> QED
    BY <1>3, <1>4, <1>5, <2>1, <2>3, <2>4
<1>9. CASE SweepFails
  <2>1. /\ sweep.pc \in {"read", "settle"} /\ sweep.page = 0 /\ errors' = errors + 1
        /\ sweep' = [sweep EXCEPT !.pc = "done", !.failed = TRUE]
        /\ UNCHANGED <<targets, changed>>
    BY <1>9 DEF SweepFails
  <2>2. sweep' \in SweepState /\ sweep'.pc = "done" /\ sweep'.page = 0 /\ sweep'.failed
    BY <1>3, <2>1 DEF SweepState
  <2> QED
    BY <1>3, <1>4, <1>5, <2>1, <2>2
<1>10. CASE SweepEnds
  <2>1. /\ sweep.pc = "settle" /\ sweep.page = 0
        /\ sweep' = [sweep EXCEPT !.pc = "done"]
        /\ UNCHANGED <<targets, changed, errors>>
    BY <1>10 DEF SweepEnds
  <2>2. /\ sweep' \in SweepState /\ sweep'.pc = "done" /\ sweep'.page = 0
        /\ sweep'.progress = sweep.progress /\ sweep'.failed = sweep.failed
    BY <1>3, <2>1 DEF SweepState
  <2> QED
    BY <1>3, <1>4, <1>5, <2>1, <2>2
<1> QED
  BY <1>6, <1>7, <1>8, <1>9, <1>10 DEF SweepStep

(* The writes of a retry job are unannounced until it ends.                *)
LEMMA JobWritesIInv ==
  ASSUME IInv, NEW r \in Runs, JobWrites(r)
  PROVE  IInv'
<1>1. UNCHANGED <<job, pump, pass, sweep>> /\ changed' = TRUE
  BY DEF JobWrites
<1>2. /\ work' \in [Runs -> 0..MaxWork] /\ running' \subseteq Runs
      /\ targets' = targets /\ targets' \in 0..MaxTargets
      /\ stale' \subseteq Runs /\ changes' \in Nat /\ errors' \in Nat
  BY ChangeRunTypes DEF IInv, JobWrites
<1>3. TypeOK' /\ LaneInv'
  BY <1>1, <1>2 DEF IInv, TypeOK, LaneInv
<1>4. PassInv' /\ CoverInv'
  BY <1>1 DEF IInv, PassInv, CoverInv
<1>5. SweepInv'
  BY <1>1, <1>2 DEF IInv, SweepInv
<1> QED
  BY <1>3, <1>4, <1>5 DEF IInv

-----------------------------------------------------------------------------
(* Every step keeps the inductive invariant.                               *)
LEMMA NextIInv ==
  ASSUME IInv, [Next]_vars
  PROVE  IInv'
<1>1. ASSUME NEW r \in Runs, ActorChanges(r) PROVE IInv'
  BY <1>1, ActorChangesIInv
<1>2. ASSUME NEW r \in Runs, JobWrites(r) PROVE IInv'
  BY <1>2, JobWritesIInv
<1>3. ASSUME NEW r \in Runs, NEW n \in 0..MaxTargets, CancelRun(r, n) PROVE IInv'
  BY <1>3, CancelRunIInv
<1>4. CASE JobStarts
  BY <1>4 DEF JobStarts, IInv, TypeOK, LaneInv, PassInv, CoverInv, Ahead, Actionable, SweepInv
<1>5. CASE JobFinishes
  BY <1>5, JobFinishesIInv
<1>6. CASE RecoveryFinished
  BY <1>6, RecoveryFinishedIInv
<1>7. CASE PassStep
  BY <1>7, PassStepIInv
<1>8. CASE FinishPass
  BY <1>8, FinishPassIInv
<1>9. CASE SweepStep
  BY <1>9, SweepStepIInv
<1>10. CASE FinishSweep
  BY <1>10, FinishSweepIInv
<1>11. CASE UNCHANGED vars
  BY <1>11 DEF vars, IInv, TypeOK, LaneInv, PassInv, CoverInv, Ahead, Actionable, SweepInv
<1> QED
  BY <1>1, <1>2, <1>3, <1>4, <1>5, <1>6, <1>7, <1>8, <1>9, <1>10, <1>11 DEF Next, Outside

(* The invariant holds in every reachable state.                           *)
THEOREM PumpInvariant == Spec => []IInv
  BY InitIInv, NextIInv, PTL DEF Spec

(* The pump and its lanes keep their types: the cursor and a page hold     *)
(* runs, and no pass settles more targets than are pending.                *)
THEOREM PumpTypeCorrect == Spec => []TypeOK
<1>1. IInv => TypeOK
  BY DEF IInv
<1> QED
  BY <1>1, PumpInvariant, PTL

(* wake_workflow_execution and settle_page lose no wake: an idle execution *)
(* lane of a recovered host leaves no run behind that could take a step.   *)
THEOREM WakeupsAreKept == Spec => []NoLostWakeup
<1>1. IInv => NoLostWakeup
  <2> SUFFICES ASSUME IInv, pump.ready, ~pump.busy, ~changed, ~pass.failed, NEW r \in Runs
               PROVE  ~Actionable(r)
    BY DEF NoLostWakeup
  <2>1. pass.pc = "none" /\ ~pump.dirty
    BY DEF IInv, LaneInv
  <2> QED
    BY <2>1 DEF IInv, CoverInv, Ahead
<1> QED
  BY <1>1, PumpInvariant, PTL

(* finish_workflow_cancellation never leaves a pending target behind: a    *)
(* recovered host with one has a cancellation pass in flight.              *)
THEOREM CancellationsAreKept == Spec => []NoLostCancellation
<1>1. IInv => NoLostCancellation
  BY DEF IInv, SweepInv, NoLostCancellation
<1> QED
  BY <1>1, PumpInvariant, PTL

=============================================================================
