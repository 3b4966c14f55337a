------------------------------ MODULE MCSharedRun ------------------------------
(* Instances of SharedRun.                                                 *)
EXTENDS SharedRun, TLC

CONSTANTS first, second, h1, h2

Both == {first, second}

Bound(tries, stalls, decisions, asks, gone, deaths) ==
  [dispatches |-> tries, silences |-> stalls, gates |-> decisions,
   commands |-> asks, exits |-> gone, crashes |-> deaths]

(* `second' waits for `first', and stalled workers are replaced.           *)
Chain == [tasks |-> Both, deps |-> (first :> {} @@ second :> {first}), terms |-> {h1, h2},
          policy |-> "auto-failover", limit |-> 1, bound |-> Bound(2, 1, 1, 1, 1, 1)]

(* Two tasks that do not wait for each other, and a person is not asked.   *)
Apart == [tasks |-> Both, deps |-> (first :> {} @@ second :> {}), terms |-> {h1, h2},
          policy |-> "wait", limit |-> 1, bound |-> Bound(2, 1, 0, 0, 0, 0)]

(* One task whose stalls are put to a person, again and again.             *)
Ask == [tasks |-> {first}, deps |-> (first :> {}), terms |-> {h1},
        policy |-> "ask", limit |-> 1, bound |-> Bound(3, 2, 1, 2, 0, 1)]

(* The chain with one terminal, left alone by people.                      *)
Alone == [Chain EXCEPT !.terms = {h1}, !.bound = Bound(5, 1, 0, 0, 1, 0)]

(* A person whose screen is stale.                                         *)
Stale == [Ask EXCEPT !.bound = Bound(2, 1, 1, 2, 0, 0)]

Safe == {Chain, Apart, Ask}
Live == {Alone}
Late == {Stale}

(* Terminals are interchangeable: permuting them maps a behaviour of a     *)
(* configuration with both to one of the same configuration, and the       *)
(* states of a configuration with one terminal are alike only if equal.    *)
TerminalSymmetry == Permutations({h1, h2})
================================================================================
