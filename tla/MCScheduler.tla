---------------------------- MODULE MCScheduler ----------------------------
(* Two CPUs; t1 and t2 are their boot threads, the others interchangeable. *)
EXTENDS Scheduler

CONSTANTS t1, t2, t3, t4

MCBootThread == [c \in Cpus |-> IF c = 0 THEN t1 ELSE t2]
Symmetry == Permutations({t3, t4})
=============================================================================
