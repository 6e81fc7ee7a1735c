----------------------------- MODULE MCSleepLock -----------------------------
(* Three threads on one lock: a holder, a thread asleep on the channel and a  *)
(* third that takes the lock ahead of the one being woken.  One of them nests *)
(* its acquires.                                                              *)
EXTENDS SleepLock

CONSTANTS t1, t2, t3

MCThreads == {t1, t2, t3}
MCNesting == {t3}
=============================================================================
