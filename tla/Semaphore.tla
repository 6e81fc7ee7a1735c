------------------------------ MODULE Semaphore ------------------------------
(***************************************************************************)
(* The kernel's counting semaphore (kern/thread/synch.c: P, V) together    *)
(* with the wait channel it sleeps on (kern/thread/thread.c: wchan_lock,   *)
(* wchan_sleep, wchan_wakeone and the S_SLEEP branch of thread_switch).    *)
(*                                                                         *)
(* One step is what runs between two accesses to shared state: taking a    *)
(* spinlock, reading or writing sem_count, moving a thread on or off the   *)
(* wait channel.  Every thread may run on a CPU of its own, so the steps   *)
(* of different threads interleave freely; spinlock_acquire waits while    *)
(* another thread holds the spinlock.                                      *)
(***************************************************************************)
EXTENDS Naturals, Sequences, FiniteSets

CONSTANTS Threads,       \* the threads that use the semaphore
          InitialCount,  \* sem_create's initial_count
          MaxV,          \* bound: calls of V in a behaviour
          Nobody         \* no holder (lk_holder == NULL), no thread

ASSUME SemAssumption == /\ IsFiniteSet(Threads)
                        /\ Nobody \notin Threads
                        /\ InitialCount \in Nat
                        /\ MaxV \in Nat

VARIABLES sem_count,     \* sem->sem_count
          sem_lock,      \* holder of sem->sem_lock
          wc_lock,       \* holder of sem->sem_wchan->wc_lock
          wc_threads,    \* the sleeping threads, in the order of wc_threads
          target,        \* target[t]: the local variable of wchan_wakeone
          pc,            \* where each thread is
          vcalls         \* calls of V so far (bounded by MaxV)

vars == <<sem_count, sem_lock, wc_lock, wc_threads, target, pc, vcalls>>

\* Where a thread is inside P ...
InP == {"p_acquire", "p_test", "p_dec", "p_bridge", "p_sleep", "p_asleep"}
\* ... inside V before and after its increment ...
InV == {"v_acquire", "v_inc", "v_wake", "v_ready"}
Labels == {"idle", "release"} \union InP \union InV

Init == /\ sem_count = InitialCount
        /\ sem_lock = Nobody
        /\ wc_lock = Nobody
        /\ wc_threads = <<>>
        /\ target = [t \in Threads |-> Nobody]
        /\ pc = [t \in Threads |-> "idle"]
        /\ vcalls = 0

Goto(t, l) == pc' = [pc EXCEPT ![t] = l]

-----------------------------------------------------------------------------
(* P *)

\* A thread calls P (or returns from wchan_sleep) and tries for the spinlock.
P_call(t) == /\ pc[t] = "idle"
             /\ Goto(t, "p_acquire")
             /\ UNCHANGED <<sem_count, sem_lock, wc_lock, wc_threads, target, vcalls>>

\* spinlock_acquire(&sem->sem_lock), on entry and after each sleep.
P_acquire(t) == /\ pc[t] = "p_acquire"
                /\ sem_lock = Nobody
                /\ sem_lock' = t
                /\ Goto(t, "p_test")
                /\ UNCHANGED <<sem_count, wc_lock, wc_threads, target, vcalls>>

\* while (sem->sem_count == 0), left when the count is positive.
P_test(t) == /\ pc[t] = "p_test"
             /\ sem_count # 0
             /\ Goto(t, "p_dec")
             /\ UNCHANGED <<sem_count, sem_lock, wc_lock, wc_threads, target, vcalls>>

\* Mutant: the bridge is missing, sem_lock is released with the channel unlocked.
P_wchan_lock_dropped(t) == /\ pc[t] = "p_test"
                           /\ sem_count = 0
                           /\ Goto(t, "p_bridge")
                           /\ UNCHANGED <<sem_count, sem_lock, wc_lock, wc_threads, target, vcalls>>

\* The loop's body: wchan_lock while sem_lock is still held ...
P_wchan_lock(t) == /\ pc[t] = "p_test"
                   /\ sem_count = 0
                   /\ wc_lock = Nobody
                   /\ wc_lock' = t
                   /\ Goto(t, "p_bridge")
                   /\ UNCHANGED <<sem_count, sem_lock, wc_threads, target, vcalls>>

\* ... then spinlock_release(&sem->sem_lock) ...
P_unlock(t) == /\ pc[t] = "p_bridge"
               /\ sem_lock' = Nobody
               /\ Goto(t, "p_sleep")
               /\ UNCHANGED <<sem_count, wc_lock, wc_threads, target, vcalls>>

\* ... then wchan_sleep: thread_switch(S_SLEEP) puts the thread at the tail of
\* the channel and only then unlocks the channel.
P_sleep(t) == /\ pc[t] = "p_sleep"
              /\ wc_threads' = Append(wc_threads, t)
              /\ wc_lock' = Nobody
              /\ Goto(t, "p_asleep")
              /\ UNCHANGED <<sem_count, sem_lock, target, vcalls>>

\* KASSERT(sem->sem_count > 0); sem->sem_count--.
P_dec(t) == /\ pc[t] = "p_dec"
            /\ sem_count' = sem_count - 1
            /\ Goto(t, "release")
            /\ UNCHANGED <<sem_lock, wc_lock, wc_threads, target, vcalls>>

\* The last line of P and of V: spinlock_release(&sem->sem_lock).
Release(t) == /\ pc[t] = "release"
              /\ sem_lock' = Nobody
              /\ Goto(t, "idle")
              /\ UNCHANGED <<sem_count, wc_lock, wc_threads, target, vcalls>>

-----------------------------------------------------------------------------
(* V *)

V_call(t) == /\ pc[t] = "idle"
             /\ vcalls < MaxV
             /\ vcalls' = vcalls + 1
             /\ Goto(t, "v_acquire")
             /\ UNCHANGED <<sem_count, sem_lock, wc_lock, wc_threads, target>>

V_acquire(t) == /\ pc[t] = "v_acquire"
                /\ sem_lock = Nobody
                /\ sem_lock' = t
                /\ Goto(t, "v_inc")
                /\ UNCHANGED <<sem_count, wc_lock, wc_threads, target, vcalls>>

\* Mutant: V increments and forgets wchan_wakeone.
V_inc_no_wake(t) == /\ pc[t] = "v_inc"
                    /\ sem_count' = sem_count + 1
                    /\ Goto(t, "release")
                    /\ UNCHANGED <<sem_lock, wc_lock, wc_threads, target, vcalls>>

\* sem->sem_count++.
V_inc(t) == /\ pc[t] = "v_inc"
            /\ sem_count' = sem_count + 1
            /\ Goto(t, "v_wake")
            /\ UNCHANGED <<sem_lock, wc_lock, wc_threads, target, vcalls>>

\* Mutant: wchan_wakeone looks at the head of the list without removing it.
V_wakeone_peek(t) ==
  /\ pc[t] = "v_wake"
  /\ wc_lock = Nobody
  /\ \/ /\ wc_threads = <<>>
        /\ Goto(t, "release")
        /\ UNCHANGED target
     \/ /\ wc_threads # <<>>
        /\ target' = [target EXCEPT ![t] = Head(wc_threads)]
        /\ Goto(t, "v_ready")
  /\ UNCHANGED <<sem_count, sem_lock, wc_lock, wc_threads, vcalls>>

\* wchan_wakeone up to its spinlock_release: with the channel locked, take the
\* head of the list; an empty channel ends the call.
V_wakeone(t) ==
  /\ pc[t] = "v_wake"
  /\ wc_lock = Nobody
  /\ \/ /\ wc_threads = <<>>
        /\ Goto(t, "release")
        /\ UNCHANGED <<wc_threads, target>>
     \/ /\ wc_threads # <<>>
        /\ target' = [target EXCEPT ![t] = Head(wc_threads)]
        /\ wc_threads' = Tail(wc_threads)
        /\ Goto(t, "v_ready")
  /\ UNCHANGED <<sem_count, sem_lock, wc_lock, vcalls>>

\* thread_make_runnable(target): the thread will come back from wchan_sleep
\* and try for the spinlock again.
V_make_runnable(t) ==
  /\ pc[t] = "v_ready"
  /\ pc' = [pc EXCEPT ![t] = "release", ![target[t]] = "p_acquire"]
  /\ target' = [target EXCEPT ![t] = Nobody]
  /\ UNCHANGED <<sem_count, sem_lock, wc_lock, wc_threads, vcalls>>

-----------------------------------------------------------------------------
Step(t) == \/ P_acquire(t) \/ P_test(t) \/ P_wchan_lock(t) \/ P_unlock(t)
           \/ P_sleep(t) \/ P_dec(t) \/ Release(t)
           \/ V_acquire(t) \/ V_inc(t) \/ V_wakeone(t) \/ V_make_runnable(t)

Next == \E t \in Threads : P_call(t) \/ V_call(t) \/ Step(t)

\* A thread inside P or V that can take a step takes it: the run queues are
\* served round robin and hardclock preempts, and a critical section under a
\* spinlock never blocks.
Fairness == \A t \in Threads : WF_vars(Step(t))

Spec == Init /\ [][Next]_vars /\ Fairness
-----------------------------------------------------------------------------
(* Properties *)

Sleepers == {wc_threads[i] : i \in 1..Len(wc_threads)}

\* Every variable has the type of the field it stands for.
TypeOK == /\ sem_count \in Nat
          /\ sem_lock \in Threads \union {Nobody}
          /\ wc_lock \in Threads \union {Nobody}
          /\ wc_threads \in Seq(Threads)
          /\ target \in [Threads -> Threads \union {Nobody}]
          /\ pc \in [Threads -> Labels]
          /\ vcalls \in Nat

\* The KASSERT of P: a thread that left the while loop of P still finds a
\* positive count when it decrements, whoever ran between its test and its
\* decrement.
P_KASSERT == \A t \in Threads : pc[t] = "p_dec" => sem_count > 0

\* A sleeping thread is on the wait channel once, or it is off the channel and
\* exactly one V is about to make it runnable; nobody else is on either.  (In
\* wchan_wakeone: "Nobody else can wake up this thread now".)
SleepersAccountedFor ==
  /\ \A i, j \in 1..Len(wc_threads) : wc_threads[i] = wc_threads[j] => i = j
  /\ \A s \in Threads :
       LET wakers == {t \in Threads : pc[t] = "v_ready" /\ target[t] = s}
       IN  /\ (pc[s] = "p_asleep") <=> (s \in Sleepers \/ wakers # {})
           /\ s \in Sleepers => wakers = {}
           /\ \A t, u \in wakers : t = u

\* The threads that will look at the count, or wake a thread that will.
Responsible == {t \in Threads : pc[t] \in {"p_acquire", "p_test", "p_dec", "v_wake", "v_ready"}}

\* No lost wakeup: while a thread sleeps (or has committed itself to sleep),
\* each unit of the count is matched by a thread that is going to look at the
\* count or is going to wake a sleeper.  In particular the count is never
\* positive with every thread in P asleep and no V under way.
NoLostWakeup ==
  (wc_threads # <<>> \/ \E t \in Threads : pc[t] = "p_sleep")
     => sem_count =< Cardinality(Responsible)

\* The outstanding call of a thread, as the abstract semaphore sees it: P takes
\* effect at its decrement, V at its increment.
CallOf(t) == IF pc[t] = "idle" THEN "none"
             ELSE IF pc[t] \in InP THEN "P"
             ELSE IF pc[t] \in {"v_acquire", "v_inc"} THEN "V"
             ELSE "returning"

Abstract == INSTANCE AbstractSemaphore
              WITH count <- sem_count, call <- [t \in Threads |-> CallOf(t)]

\* P and V are atomic (synch.h: "Operations (both atomic)"), every V completes,
\* and a positive count with threads waiting in P always ends in some thread
\* getting through P.
ImplementsSemaphore == Abstract!Spec
=============================================================================
