------------------------------ MODULE SleepLock ------------------------------
(***************************************************************************)
(* The kernel's sleep lock (kern/thread/synch.c: lock_acquire,             *)
(* lock_release) and the wait channel under it.  The owner is tested once  *)
(* before any spinlock is taken, in both functions: lock_acquire returns   *)
(* at once when the caller owns the lock, lock_release when it does not.   *)
(* Steps interleave as in module Semaphore.                                *)
(***************************************************************************)
EXTENDS Naturals, Sequences

CONSTANTS Threads,    \* the threads that use the lock
          Nesting,    \* those whose code may acquire the lock while they have it
          MaxDepth,   \* bound: lock_acquire calls of such a thread not yet matched
                      \* by a lock_release
          Nobody      \* owner_thread == NULL, no holder of a spinlock

ASSUME LockAssumption == /\ Nobody \notin Threads
                         /\ Nesting \subseteq Threads
                         /\ MaxDepth \in Nat \ {0}

\* How many acquires thread t may have outstanding.
DepthOf(t) == IF t \in Nesting THEN MaxDepth ELSE 1

VARIABLES owner_thread,  \* mylock->owner_thread
          lk_spinlock,   \* holder of mylock->lk_spinlock
          wc_lock,       \* holder of mylock->lk_wchan->wc_lock
          wc_threads,    \* threads asleep on mylock->lk_wchan
          target,        \* target[t]: local variable of wchan_wakeone
          depth,         \* depth[t]: acquires t has returned from, less its releases
          pc             \* where each thread is

vars == <<owner_thread, lk_spinlock, wc_lock, wc_threads, target, depth, pc>>

\* Inside lock_acquire before the lock is taken, and inside lock_release before
\* it is given up; "run" is the caller's own code.
Acquiring == {"la_check", "la_spin", "la_test", "la_set", "la_bridge", "la_sleep", "la_asleep"}
Releasing == {"lr_check", "lr_spin", "lr_clear"}
Labels == {"run", "la_done", "lr_wake", "lr_ready", "lr_done"} \union Acquiring \union Releasing

Init == /\ owner_thread = Nobody
        /\ lk_spinlock = Nobody
        /\ wc_lock = Nobody
        /\ wc_threads = <<>>
        /\ target = [t \in Threads |-> Nobody]
        /\ depth = [t \in Threads |-> 0]
        /\ pc = [t \in Threads |-> "run"]

Goto(t, l) == pc' = [pc EXCEPT ![t] = l]

\* The two spinlocks, and the wait channel's list with what wakers took off it.
Locks == <<lk_spinlock, wc_lock>>
Channel == <<wc_threads, target>>

-----------------------------------------------------------------------------
(* lock_acquire *)

La_call(t) == /\ pc[t] = "run"
              /\ depth[t] < DepthOf(t)
              /\ Goto(t, "la_check")
              /\ UNCHANGED <<owner_thread, Locks, Channel, depth>>

\* if (curthread == mylock->owner_thread) return;
La_already_mine(t) == /\ pc[t] = "la_check"
                      /\ owner_thread = t
                      /\ depth' = [depth EXCEPT ![t] = @ + 1]
                      /\ Goto(t, "run")
                      /\ UNCHANGED <<owner_thread, Locks, Channel>>

La_not_mine(t) == /\ pc[t] = "la_check"
                  /\ owner_thread # t
                  /\ Goto(t, "la_spin")
                  /\ UNCHANGED <<owner_thread, Locks, Channel, depth>>

\* spinlock_acquire, before the loop and after each sleep.
La_spin(t) == /\ pc[t] = "la_spin"
              /\ lk_spinlock = Nobody
              /\ lk_spinlock' = t
              /\ Goto(t, "la_test")
              /\ UNCHANGED <<owner_thread, wc_lock, Channel, depth>>

\* Mutant: the while loop of lock_acquire is missing.
La_free_no_test(t) == /\ pc[t] = "la_test"
                      /\ Goto(t, "la_set")
                      /\ UNCHANGED <<owner_thread, Locks, Channel, depth>>

\* while (mylock->owner_thread != NULL), left when the lock is free.
La_free(t) == /\ pc[t] = "la_test"
              /\ owner_thread = Nobody
              /\ Goto(t, "la_set")
              /\ UNCHANGED <<owner_thread, Locks, Channel, depth>>

\* Mutant: the spinlock is given up with the channel unlocked.
La_wchan_lock_dropped(t) == /\ pc[t] = "la_test"
                            /\ owner_thread # Nobody
                            /\ Goto(t, "la_bridge")
                            /\ UNCHANGED <<owner_thread, Locks, Channel, depth>>

\* The loop's body: wchan_lock ...
La_wchan_lock(t) == /\ pc[t] = "la_test"
                    /\ owner_thread # Nobody
                    /\ wc_lock = Nobody
                    /\ wc_lock' = t
                    /\ Goto(t, "la_bridge")
                    /\ UNCHANGED <<owner_thread, lk_spinlock, Channel, depth>>

\* ... spinlock_release ...
La_unlock(t) == /\ pc[t] = "la_bridge"
                /\ lk_spinlock' = Nobody
                /\ Goto(t, "la_sleep")
                /\ UNCHANGED <<owner_thread, wc_lock, Channel, depth>>

\* ... wchan_sleep, which unlocks the channel once the thread is on it.
La_sleep(t) == /\ pc[t] = "la_sleep"
               /\ wc_threads' = Append(wc_threads, t)
               /\ wc_lock' = Nobody
               /\ Goto(t, "la_asleep")
               /\ UNCHANGED <<owner_thread, lk_spinlock, target, depth>>

\* mylock->owner_thread = curthread.
La_set(t) == /\ pc[t] = "la_set"
             /\ owner_thread' = t
             /\ Goto(t, "la_done")
             /\ UNCHANGED <<Locks, Channel, depth>>

La_return(t) == /\ pc[t] = "la_done"
                /\ lk_spinlock' = Nobody
                /\ depth' = [depth EXCEPT ![t] = @ + 1]
                /\ Goto(t, "run")
                /\ UNCHANGED <<owner_thread, wc_lock, Channel>>

-----------------------------------------------------------------------------
(* lock_release *)

Lr_call(t) == /\ pc[t] = "run"
              /\ depth[t] > 0
              /\ depth' = [depth EXCEPT ![t] = @ - 1]
              /\ Goto(t, "lr_check")
              /\ UNCHANGED <<owner_thread, Locks, Channel>>

\* Mutant: a lock_release by a thread that is not the owner goes ahead.
Lr_not_mine_ignored(t) == /\ pc[t] = "lr_check"
                          /\ owner_thread # t
                          /\ Goto(t, "lr_spin")
                          /\ UNCHANGED <<owner_thread, Locks, Channel, depth>>

\* if (curthread != mylock->owner_thread) return;
Lr_not_mine(t) == /\ pc[t] = "lr_check"
                  /\ owner_thread # t
                  /\ Goto(t, "run")
                  /\ UNCHANGED <<owner_thread, Locks, Channel, depth>>

Lr_mine(t) == /\ pc[t] = "lr_check"
              /\ owner_thread = t
              /\ Goto(t, "lr_spin")
              /\ UNCHANGED <<owner_thread, Locks, Channel, depth>>

Lr_spin(t) == /\ pc[t] = "lr_spin"
              /\ lk_spinlock = Nobody
              /\ lk_spinlock' = t
              /\ Goto(t, "lr_clear")
              /\ UNCHANGED <<owner_thread, wc_lock, Channel, depth>>

\* Mutant: lock_release forgets wchan_wakeone.
Lr_clear_no_wake(t) == /\ pc[t] = "lr_clear"
                       /\ owner_thread' = Nobody
                       /\ Goto(t, "lr_done")
                       /\ UNCHANGED <<Locks, Channel, depth>>

\* mylock->owner_thread = NULL.
Lr_clear(t) == /\ pc[t] = "lr_clear"
               /\ owner_thread' = Nobody
               /\ Goto(t, "lr_wake")
               /\ UNCHANGED <<Locks, Channel, depth>>

\* wchan_wakeone: with the channel locked, take the first sleeping thread.
Lr_wakeone(t) ==
  /\ pc[t] = "lr_wake"
  /\ wc_lock = Nobody
  /\ \/ /\ wc_threads = <<>>
        /\ Goto(t, "lr_done")
        /\ UNCHANGED Channel
     \/ /\ wc_threads # <<>>
        /\ target' = [target EXCEPT ![t] = Head(wc_threads)]
        /\ wc_threads' = Tail(wc_threads)
        /\ Goto(t, "lr_ready")
  /\ UNCHANGED <<owner_thread, Locks, depth>>

\* Mutant: a woken thread takes the lock without testing the owner again.
Lr_make_runnable_no_retest(t) ==
  /\ pc[t] = "lr_ready"
  /\ pc' = [pc EXCEPT ![t] = "lr_done", ![target[t]] = "la_set"]
  /\ target' = [target EXCEPT ![t] = Nobody]
  /\ UNCHANGED <<owner_thread, Locks, wc_threads, depth>>

\* thread_make_runnable(target).
Lr_make_runnable(t) ==
  /\ pc[t] = "lr_ready"
  /\ pc' = [pc EXCEPT ![t] = "lr_done", ![target[t]] = "la_spin"]
  /\ target' = [target EXCEPT ![t] = Nobody]
  /\ UNCHANGED <<owner_thread, Locks, wc_threads, depth>>

Lr_return(t) == /\ pc[t] = "lr_done"
                /\ lk_spinlock' = Nobody
                /\ Goto(t, "run")
                /\ UNCHANGED <<owner_thread, wc_lock, Channel, depth>>

-----------------------------------------------------------------------------
AcquireStep(t) == \/ La_already_mine(t) \/ La_not_mine(t) \/ La_spin(t) \/ La_free(t)
                  \/ La_wchan_lock(t) \/ La_unlock(t) \/ La_sleep(t) \/ La_set(t) \/ La_return(t)

ReleaseStep(t) == \/ Lr_not_mine(t) \/ Lr_mine(t) \/ Lr_spin(t) \/ Lr_clear(t)
                  \/ Lr_wakeone(t) \/ Lr_make_runnable(t) \/ Lr_return(t)

Next == \E t \in Threads : La_call(t) \/ Lr_call(t) \/ AcquireStep(t) \/ ReleaseStep(t)

\* A thread inside lock_acquire or lock_release that can take a step takes it.
\* Nothing obliges a thread to call either.
Fairness == \A t \in Threads : WF_vars(AcquireStep(t)) /\ WF_vars(ReleaseStep(t))

Spec == Init /\ [][Next]_vars /\ Fairness

-----------------------------------------------------------------------------
(* Properties *)

\* Every variable has the type of the field it stands for.
TypeOK == /\ owner_thread \in Threads \union {Nobody}
          /\ lk_spinlock \in Threads \union {Nobody}
          /\ wc_lock \in Threads \union {Nobody}
          /\ wc_threads \in Seq(Threads)
          /\ target \in [Threads -> Threads \union {Nobody}]
          /\ depth \in [Threads -> Nat]
          /\ \A t \in Threads : depth[t] =< DepthOf(t)
          /\ pc \in [Threads -> Labels]

\* synch.h: "Only one thread can hold the lock at the same time."  A thread
\* holds the lock from the return of lock_acquire to its call of lock_release.
\* A nested acquire is not counted, so that the inner release frees the lock
\* under the outer section; threads that do not nest still exclude each other,
\* whatever the releases of those that do.
MutualExclusion == \A t, u \in Threads \ Nesting : depth[t] > 0 /\ depth[u] > 0 => t = u

\* The owner is read before the spinlock is taken and acted upon after it: what
\* the two unlocked tests found is still so when the thread writes owner_thread.
UnlockedTestStillHolds ==
  \A t \in Threads : /\ pc[t] \in {"lr_spin", "lr_clear"} => owner_thread = t
                     /\ pc[t] \in Acquiring \ {"la_check"} => owner_thread # t

\* The threads that will test a free lock, or wake a thread that will.
Responsible == {t \in Threads : pc[t] \in {"la_spin", "la_test", "la_set", "lr_wake", "lr_ready"}}

\* No lost wakeup: the lock is never free with a thread asleep (or committed to
\* sleep) on its channel unless some thread is going to test it or wake one.
NoLostWakeup ==
  (/\ owner_thread = Nobody
   /\ wc_threads # <<>> \/ \E t \in Threads : pc[t] = "la_sleep") => Responsible # {}

\* The outstanding call of a thread, as the abstract lock sees it.
CallOf(t) == IF pc[t] = "run" THEN "none"
             ELSE IF pc[t] \in Acquiring THEN "acquire"
             ELSE IF pc[t] \in Releasing THEN "release"
             ELSE "returning"

Abstract == INSTANCE AbstractLock
              WITH holder <- owner_thread, call <- [t \in Threads |-> CallOf(t)]

\* lock_acquire and lock_release are atomic, a nested acquire and a release by
\* another thread than the owner change nothing, every release completes, and a
\* free lock with threads waiting in lock_acquire is taken by one of them.
ImplementsLock == Abstract!Spec
=============================================================================
