------------------------------ MODULE MCRWLock ------------------------------
(* Three threads, three permits: two writers can race for the permits while a *)
(* reader holds one and another is waiting.                                   *)
EXTENDS RWLock

CONSTANTS t1, t2, t3

MCThreads == {t1, t2, t3}
=============================================================================
