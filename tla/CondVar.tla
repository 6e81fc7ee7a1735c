------------------------------- MODULE CondVar -------------------------------
(***************************************************************************)
(* The kernel's condition variable (kern/thread/synch.c: cv_wait,          *)
(* cv_broadcast) under the client the kernel tests it with                 *)
(* (kern/test/synchtest.c: cvtest, cvtestthread): thread num waits until   *)
(* testval1 is num, passes testval1 on to num - 1 and broadcasts.          *)
(*                                                                         *)
(* The lock is the abstract lock of module AbstractLock, whose operations  *)
(* are atomic (theorem RefinesAtomicLock).  cv_wait releases it before it  *)
(* locks the wait channel, with only cv_spinlock in between, and           *)
(* cv_broadcast does not take cv_spinlock.  What cv_spinlock does is       *)
(* disable interrupts on the CPU of its holder (spinlock_acquire calls     *)
(* splraise), so which CPU a thread runs on matters here: CpuOf.           *)
(***************************************************************************)
EXTENDS Naturals, Sequences

CONSTANTS NTHREADS,   \* threads of the test
          NCVLOOPS,   \* turns each of them takes
          CpuOf,      \* CpuOf[t]: the CPU thread t runs on
          Nobody

Threads == 0..(NTHREADS - 1)

ASSUME CvAssumption == /\ NTHREADS \in Nat \ {0}
                       /\ NCVLOOPS \in Nat \ {0}
                       /\ DOMAIN CpuOf = Threads
                       /\ Nobody \notin Threads

VARIABLES testval1,     \* whose turn it is
          holder,       \* the holder of testlock
          cv_spinlock,  \* holder of testcv->cv_spinlock
          wc_lock,      \* holder of testcv->cv_wchan->wc_lock
          wc_threads,   \* threads asleep on testcv->cv_wchan
          loops,        \* loops[t]: turns t has taken
          pc            \* where each thread is

vars == <<testval1, holder, cv_spinlock, wc_lock, wc_threads, loops, pc>>

Labels == {"lock_acquire", "test", "cw_spin", "cw_release", "cw_wchan_lock", "cw_unspin",
           "cw_sleep", "asleep", "broadcast", "lock_release", "done"}

Init == /\ testval1 = NTHREADS - 1
        /\ holder = Nobody
        /\ cv_spinlock = Nobody
        /\ wc_lock = Nobody
        /\ wc_threads = <<>>
        /\ loops = [t \in Threads |-> 0]
        /\ pc = [t \in Threads |-> "lock_acquire"]

\* A CPU runs nothing else while one of its threads holds a spinlock.
MayRun(t) == \A u \in Threads \ {t} : CpuOf[u] = CpuOf[t] => u \notin {cv_spinlock, wc_lock}

At(t, l) == pc[t] = l /\ MayRun(t)
Goto(t, l) == pc' = [pc EXCEPT ![t] = l]

-----------------------------------------------------------------------------
(* cvtestthread *)

\* lock_acquire(testlock), on entry to a turn and at the end of cv_wait.
LockAcquire(t) == /\ At(t, "lock_acquire")
                  /\ holder = Nobody
                  /\ holder' = t
                  /\ Goto(t, "test")
                  /\ UNCHANGED <<testval1, cv_spinlock, wc_lock, wc_threads, loops>>

\* while (testval1 != num): call cv_wait.
NotMyTurn(t) == /\ At(t, "test")
                /\ testval1 # t
                /\ Goto(t, "cw_spin")
                /\ UNCHANGED <<testval1, holder, cv_spinlock, wc_lock, wc_threads, loops>>

\* testval1 = (testval1 + NTHREADS - 1) % NTHREADS.
MyTurn(t) == /\ At(t, "test")
             /\ testval1 = t
             /\ testval1' = (testval1 + NTHREADS - 1) % NTHREADS
             /\ Goto(t, "broadcast")
             /\ UNCHANGED <<holder, cv_spinlock, wc_lock, wc_threads, loops>>

LockRelease(t) == /\ At(t, "lock_release")
                  /\ holder' = Nobody
                  /\ loops' = [loops EXCEPT ![t] = @ + 1]
                  /\ Goto(t, IF loops[t] + 1 < NCVLOOPS THEN "lock_acquire" ELSE "done")
                  /\ UNCHANGED <<testval1, cv_spinlock, wc_lock, wc_threads>>

-----------------------------------------------------------------------------
(* cv_wait and cv_broadcast *)

\* Mutant: cv_wait does without cv_spinlock.
Cw_spin_omitted(t) == /\ At(t, "cw_spin")
                      /\ Goto(t, "cw_release")
                      /\ UNCHANGED <<testval1, holder, cv_spinlock, wc_lock, wc_threads, loops>>

\* spinlock_acquire(&mycv->cv_spinlock) ...
Cw_spin(t) == /\ At(t, "cw_spin")
              /\ cv_spinlock = Nobody
              /\ cv_spinlock' = t
              /\ Goto(t, "cw_release")
              /\ UNCHANGED <<testval1, holder, wc_lock, wc_threads, loops>>

\* ... lock_release(mylock) ...
Cw_release(t) == /\ At(t, "cw_release")
                 /\ holder' = Nobody
                 /\ Goto(t, "cw_wchan_lock")
                 /\ UNCHANGED <<testval1, cv_spinlock, wc_lock, wc_threads, loops>>

\* ... wchan_lock(mycv->cv_wchan) ...
Cw_wchan_lock(t) == /\ At(t, "cw_wchan_lock")
                    /\ wc_lock = Nobody
                    /\ wc_lock' = t
                    /\ Goto(t, "cw_unspin")
                    /\ UNCHANGED <<testval1, holder, cv_spinlock, wc_threads, loops>>

\* ... spinlock_release(&mycv->cv_spinlock) ...
Cw_unspin(t) == /\ At(t, "cw_unspin")
                /\ cv_spinlock' = Nobody
                /\ Goto(t, "cw_sleep")
                /\ UNCHANGED <<testval1, holder, wc_lock, wc_threads, loops>>

\* ... wchan_sleep(mycv->cv_wchan), which unlocks the channel.
Cw_sleep(t) == /\ At(t, "cw_sleep")
               /\ wc_threads' = Append(wc_threads, t)
               /\ wc_lock' = Nobody
               /\ Goto(t, "asleep")
               /\ UNCHANGED <<testval1, holder, cv_spinlock, loops>>

Woken == {wc_threads[i] : i \in 1..Len(wc_threads)}

\* Mutant: wchan_wakeone in place of wchan_wakeall.
Broadcast_one(t) == /\ At(t, "broadcast")
                    /\ wc_lock = Nobody
                    /\ wc_threads' = IF wc_threads = <<>> THEN <<>> ELSE Tail(wc_threads)
                    /\ pc' = [u \in Threads |-> IF u \in Woken \ {wc_threads'[i] : i \in 1..Len(wc_threads')}
                                                THEN "lock_acquire"
                                                ELSE IF u = t THEN "lock_release" ELSE pc[u]]
                    /\ UNCHANGED <<testval1, holder, cv_spinlock, wc_lock, loops>>

\* cv_broadcast is wchan_wakeall: with the channel locked, take every thread off
\* it, and make each of them runnable; they continue with lock_acquire.
Broadcast(t) == /\ At(t, "broadcast")
                /\ wc_lock = Nobody
                /\ wc_threads' = <<>>
                /\ pc' = [u \in Threads |-> IF u \in Woken THEN "lock_acquire"
                                            ELSE IF u = t THEN "lock_release" ELSE pc[u]]
                /\ UNCHANGED <<testval1, holder, cv_spinlock, wc_lock, loops>>

-----------------------------------------------------------------------------
Step(t) == \/ LockAcquire(t) \/ NotMyTurn(t) \/ MyTurn(t) \/ LockRelease(t)
           \/ Cw_spin(t) \/ Cw_release(t) \/ Cw_wchan_lock(t) \/ Cw_unspin(t) \/ Cw_sleep(t)
           \/ Broadcast(t)

Next == \E t \in Threads : Step(t)

\* Every thread that can run gets to run: round robin run queues, preemption.
Fairness == \A t \in Threads : WF_vars(Step(t))

Spec == Init /\ [][Next]_vars /\ Fairness

-----------------------------------------------------------------------------
(* Properties *)

\* Every variable has the type of what it stands for; the turn is a thread's.
TypeOK == /\ testval1 \in Threads
          /\ {holder, cv_spinlock, wc_lock} \subseteq Threads \union {Nobody}
          /\ wc_threads \in Seq(Threads)
          /\ loops \in [Threads -> 0..NCVLOOPS]
          /\ pc \in [Threads -> Labels]

\* cv_wait returns with the lock re-acquired (synch.h), whatever the number of
\* threads a broadcast releases at once: the code between lock_acquire and
\* lock_release, the parts before and after cv_wait included, runs in one
\* thread at a time.
MonitorExclusion ==
  \A t \in Threads : pc[t] \in {"test", "cw_spin", "cw_release", "broadcast", "lock_release"} => holder = t

\* synch.h: cv_wait releases the lock and goes to sleep atomically ("These
\* operations must be atomic").  So the thread whose turn it is does not sleep,
\* except while the thread that gave it the turn has its broadcast to make.
NoLostBroadcast ==
  pc[testval1] = "asleep" => \E t \in Threads : pc[t] = "broadcast"

\* cvtest comes to its end: every thread takes all its turns.
CvtestCompletes == <>(\A t \in Threads : pc[t] = "done")
=============================================================================
