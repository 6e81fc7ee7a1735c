-------------------------- MODULE AbstractSemaphore --------------------------
(***************************************************************************)
(* What include/synch.h promises of a counting semaphore: "Operations     *)
(* (both atomic): P (proberen): decrement count. If the count is 0, block  *)
(* until the count is 1 again before decrementing. V (verhogen): increment *)
(* count."  A call is outstanding from its invocation to its return, and   *)
(* takes effect in one step between the two.                               *)
(***************************************************************************)
EXTENDS Naturals

CONSTANTS Threads,       \* the threads that use the semaphore
          InitialCount   \* sem_create's argument

VARIABLES count,         \* sem_count
          call           \* call[t]: the call thread t has outstanding

absVars == <<count, call>>

Calls == {"none", "P", "V", "returning"}

Init == /\ count = InitialCount
        /\ call = [t \in Threads |-> "none"]

Invoke(t, op) == /\ call[t] = "none"
                 /\ call' = [call EXCEPT ![t] = op]
                 /\ UNCHANGED count

P(t) == /\ call[t] = "P"
        /\ count > 0
        /\ count' = count - 1
        /\ call' = [call EXCEPT ![t] = "returning"]

V(t) == /\ call[t] = "V"
        /\ count' = count + 1
        /\ call' = [call EXCEPT ![t] = "returning"]

Return(t) == /\ call[t] = "returning"
             /\ call' = [call EXCEPT ![t] = "none"]
             /\ UNCHANGED count

Next == \E t \in Threads : \/ \E op \in {"P", "V"} : Invoke(t, op)
                           \/ P(t) \/ V(t) \/ Return(t)

\* Every V and every return happens; while the count stays positive and some
\* thread waits in P, some P is carried out (no promise is made to one thread:
\* the comment in P says that ordering is not FIFO).
Fairness == /\ \A t \in Threads : WF_absVars(V(t)) /\ WF_absVars(Return(t))
            /\ WF_absVars(\E t \in Threads : P(t))

AtomicSpec == Init /\ [][Next]_absVars

Spec == AtomicSpec /\ Fairness
=============================================================================
