----------------------------- MODULE MCSemaphore -----------------------------
(* Three threads on one semaphore: the least number for which a thread can   *)
(* sleep while two others pass through P and V around it.                    *)
EXTENDS Semaphore

CONSTANTS t1, t2, t3

MCThreads == {t1, t2, t3}
=============================================================================
