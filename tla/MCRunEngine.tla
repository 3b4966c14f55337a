----------------------------- MODULE MCRunEngine -----------------------------
(* Small instances of RunEngine: one task, and three tasks of which the    *)
(* second depends on the first while the third depends on none.            *)
EXTENDS RunEngine

CONSTANTS t1, t2, t3

NoDeps == [t \in Tasks |-> {}]
Fork   == [t \in Tasks |-> IF t = t2 THEN {t1} ELSE {}]
=============================================================================
