---------------------------- MODULE MCAtomicWrite ----------------------------
(***************************************************************************)
(* Model-checking atomic_write: two threads, in two processes that have the *)
(* same id.                                                                 *)
(***************************************************************************)
EXTENDS AtomicWrite

CONSTANTS t1, t2, p1, p2, id

OneEach == [t \in {t1, t2} |-> IF t = t1 THEN p1 ELSE p2]
OnePid == [p \in {p1, p2} |-> id]
=============================================================================
