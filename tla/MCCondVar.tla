------------------------------ MODULE MCCondVar ------------------------------
(* Four threads of cvtest, on one CPU and on a CPU each. *)
EXTENDS CondVar

MCUniprocessor == [t \in Threads |-> 0]
MCMultiprocessor == [t \in Threads |-> t]
=============================================================================
