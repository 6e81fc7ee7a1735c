---------------------------- MODULE AbstractLock ----------------------------
(***************************************************************************)
(* What include/synch.h promises of a lock: "lock_acquire - Get the lock.  *)
(* Only one thread can hold the lock at the same time. lock_release - Free *)
(* the lock. Only the thread holding the lock may do this. [...] These     *)
(* operations must be atomic."  An acquire by the holder and a release by  *)
(* anyone else, of which synch.h says nothing, change nothing.             *)
(***************************************************************************)
CONSTANTS Threads, Nobody

VARIABLES holder,   \* the thread that holds the lock, or Nobody
          call      \* call[t]: the call thread t has outstanding

absVars == <<holder, call>>

Init == /\ holder = Nobody
        /\ call = [t \in Threads |-> "none"]

CallAcquire(t) == /\ call[t] = "none"
                  /\ call' = [call EXCEPT ![t] = "acquire"]
                  /\ UNCHANGED holder

CallRelease(t) == /\ call[t] = "none"
                  /\ call' = [call EXCEPT ![t] = "release"]
                  /\ UNCHANGED holder

Acquire(t) == /\ call[t] = "acquire"
              /\ holder = Nobody
              /\ holder' = t
              /\ call' = [call EXCEPT ![t] = "returning"]

Release(t) == /\ call[t] = "release"
              /\ holder = t
              /\ holder' = Nobody
              /\ call' = [call EXCEPT ![t] = "returning"]

\* A nested acquire, or a release by a thread that is not the holder.
ReturnAtOnce(t) == /\ \/ call[t] = "acquire" /\ holder = t
                      \/ call[t] = "release" /\ holder # t
                   /\ call' = [call EXCEPT ![t] = "none"]
                   /\ UNCHANGED holder

Return(t) == /\ call[t] = "returning"
             /\ call' = [call EXCEPT ![t] = "none"]
             /\ UNCHANGED holder

Next == \E t \in Threads : \/ CallAcquire(t) \/ CallRelease(t)
                           \/ Acquire(t) \/ Release(t) \/ ReturnAtOnce(t) \/ Return(t)

\* Every release happens; a free lock that threads wait for goes to one of them.
Fairness == /\ \A t \in Threads : /\ WF_absVars(Release(t) \/ ReturnAtOnce(t))
                                   /\ WF_absVars(Return(t))
            /\ WF_absVars(\E t \in Threads : Acquire(t))

AtomicSpec == Init /\ [][Next]_absVars

Spec == AtomicSpec /\ Fairness
=============================================================================
