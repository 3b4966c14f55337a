-------------------------- MODULE IntegrationContract --------------------------
(***************************************************************************)
(* What the scheduler and the dependents of a task rely on when results    *)
(* are integrated: the Run has one serial log of results.  An integration  *)
(* is opened, at most one at a time, and ends by entering the log or by    *)
(* being refused; a cancelled Run adds nothing.  RunIntegration shows how  *)
(* Git, SQLite, crashes and people come out as this.                       *)
(***************************************************************************)
EXTENDS Sequences

CONSTANT Tasks

VARIABLES log, phase, cancelled
vars == <<log, phase, cancelled>>

Init == log = <<>> /\ phase = [t \in Tasks |-> "none"] /\ cancelled = FALSE

Open(t) ==
  /\ ~cancelled /\ phase[t] = "none" /\ \A u \in Tasks : phase[u] # "open"
  /\ phase' = [phase EXCEPT ![t] = "open"]
  /\ UNCHANGED <<log, cancelled>>

(* A result without changes is integrated and leaves the log as it is.     *)
Integrate(t) ==
  /\ ~cancelled /\ phase[t] = "open"
  /\ log' \in {log, Append(log, t)}
  /\ phase' = [phase EXCEPT ![t] = "integrated"]
  /\ UNCHANGED cancelled

Refuse(t) ==
  /\ phase[t] = "open"
  /\ phase' = [phase EXCEPT ![t] = "refused"]
  /\ UNCHANGED <<log, cancelled>>

Cancel == ~cancelled /\ cancelled' = TRUE /\ UNCHANGED <<log, phase>>

Next == Cancel \/ \E t \in Tasks : Open(t) \/ Integrate(t) \/ Refuse(t)

Spec == Init /\ [][Next]_vars
=============================================================================
