--------------------------- MODULE SleepLockProofs ---------------------------
(***************************************************************************)
(* Proofs about module SleepLock, for every set of threads, whichever of   *)
(* them nest their acquires and how deep.                                  *)
(***************************************************************************)
EXTENDS SleepLock, TLAPS, SequenceTheorems

-----------------------------------------------------------------------------
(* The inductive invariant *)

SpinHeld == \A t \in Threads :
  (lk_spinlock = t) <=> pc[t] \in {"la_test", "la_set", "la_bridge", "la_done", "lr_clear", "lr_wake", "lr_ready", "lr_done"}

WcLockHeld == \A t \in Threads : (wc_lock = t) <=> pc[t] \in {"la_bridge", "la_sleep"}

\* A target is a thread that sleeps in lock_acquire.
TargetAsleep == \A t \in Threads : pc[t] = "lr_ready" => target[t] \in Threads /\ pc[target[t]] = "la_asleep"

\* The threads on the channel sleep in lock_acquire.
ListedAsleep == \A i \in 1..Len(wc_threads) : pc[wc_threads[i]] = "la_asleep"

NoDuplicates == \A i, j \in 1..Len(wc_threads) : wc_threads[i] = wc_threads[j] => i = j

\* The target of a waker is off the channel.
TargetUnlisted == \A t \in Threads : \A i \in 1..Len(wc_threads) : pc[t] = "lr_ready" => target[t] # wc_threads[i]

\* The owner is read without the spinlock, but only its owner takes a thread out
\* of owner_thread; with the spinlock held, nobody does.
OwnerInv == \A t \in Threads :
  /\ pc[t] \in {"lr_spin", "lr_clear", "la_done"} => owner_thread = t
  /\ pc[t] \in Acquiring \ {"la_check"} => owner_thread # t
  /\ pc[t] \in {"la_set", "lr_wake", "lr_ready", "lr_done"} => owner_thread = Nobody
  /\ pc[t] = "la_bridge" => owner_thread # Nobody

\* A thread inside lock_acquire has room for one more in depth.
DepthInv == \A t \in Threads : pc[t] \in Acquiring \union {"la_done"} => depth[t] < DepthOf(t)

\* A thread that does not nest owns the lock exactly inside its section and on
\* the way out of it.
SectionInv ==
  \A t \in Threads \ Nesting :
    /\ depth[t] > 0 => pc[t] = "run"
    /\ (owner_thread = t) <=> (pc[t] \in {"la_done", "lr_check", "lr_spin", "lr_clear"} \/ depth[t] > 0)

LockInv == TypeOK /\ SpinHeld /\ WcLockHeld

QueueInv == TargetAsleep /\ ListedAsleep /\ NoDuplicates /\ TargetUnlisted

IInv == LockInv /\ QueueInv /\ OwnerInv /\ DepthInv /\ SectionInv /\ NoLostWakeup

-----------------------------------------------------------------------------
(* Types and spinlocks *)

LEMMA StepLock == IInv /\ [Next]_vars => LockInv'
  <1> SUFFICES ASSUME IInv, [Next]_vars PROVE LockInv'
    OBVIOUS
  <1> USE LockAssumption DEF IInv, LockInv, TypeOK, SpinHeld, WcLockHeld, DepthInv, Acquiring, Releasing, Labels, Goto,
          Locks, Channel
  <1>0. ASSUME NEW t \in Threads
        PROVE  /\ depth[t] < DepthOf(t) => depth[t] + 1 \in Nat /\ depth[t] + 1 =< DepthOf(t)
               /\ depth[t] > 0 => depth[t] - 1 \in Nat /\ depth[t] - 1 =< DepthOf(t)
    BY DEF DepthOf
  <1>1. ASSUME NEW t \in Threads, La_call(t) \/ La_not_mine(t) \/ La_free(t) PROVE LockInv'
    BY <1>1, SMTT(30) DEF La_call, La_not_mine, La_free
  <1>1a. ASSUME NEW t \in Threads, La_already_mine(t) PROVE LockInv'
    BY <1>1a, <1>0 DEF La_already_mine
  <1>2. ASSUME NEW t \in Threads, La_spin(t) \/ La_wchan_lock(t) \/ La_unlock(t) PROVE LockInv'
    <2>1. CASE La_spin(t) BY <2>1 DEF La_spin
    <2>2. CASE La_wchan_lock(t) BY <2>2 DEF La_wchan_lock
    <2>3. CASE La_unlock(t) BY <2>3 DEF La_unlock
    <2> QED BY <1>2, <2>1, <2>2, <2>3
  <1>3. ASSUME NEW t \in Threads, La_sleep(t) PROVE LockInv'
    BY <1>3 DEF La_sleep
  <1>4. ASSUME NEW t \in Threads, La_set(t) PROVE LockInv'
    BY <1>4 DEF La_set
  <1>4a. ASSUME NEW t \in Threads, La_return(t) PROVE LockInv'
    BY <1>4a, <1>0 DEF La_return
  <1>5. ASSUME NEW t \in Threads, Lr_not_mine(t) \/ Lr_mine(t) PROVE LockInv'
    BY <1>5 DEF Lr_not_mine, Lr_mine
  <1>5a. ASSUME NEW t \in Threads, Lr_call(t) PROVE LockInv'
    BY <1>5a, <1>0 DEF Lr_call
  <1>6. ASSUME NEW t \in Threads, Lr_spin(t) \/ Lr_clear(t) \/ Lr_return(t) PROVE LockInv'
    <2>1. CASE Lr_spin(t) BY <2>1 DEF Lr_spin
    <2>2. CASE Lr_clear(t) BY <2>2 DEF Lr_clear
    <2>3. CASE Lr_return(t) BY <2>3 DEF Lr_return
    <2> QED BY <1>6, <2>1, <2>2, <2>3
  <1>7. ASSUME NEW t \in Threads, Lr_wakeone(t) PROVE LockInv'
    <2>1. CASE wc_threads = <<>>
      BY <1>7, <2>1 DEF Lr_wakeone
    <2>2. CASE wc_threads # <<>>
      <3>1. Head(wc_threads) \in Threads /\ Tail(wc_threads) \in Seq(Threads)
        BY <2>2
      <3>1a. wc_threads' = Tail(wc_threads) /\ target' = [target EXCEPT ![t] = Head(wc_threads)]
        BY <1>7, <2>2 DEF Lr_wakeone
      <3>1b. UNCHANGED <<owner_thread, lk_spinlock, wc_lock, depth>> /\ pc' = [pc EXCEPT ![t] = "lr_ready"]
        BY <1>7, <2>2 DEF Lr_wakeone
      <3>2. TypeOK'
        <4> HIDE DEF SpinHeld, WcLockHeld, DepthInv, IInv
        <4>1. TypeOK
          BY DEF IInv
        <4> QED BY <3>1, <3>1a, <3>1b, <4>1
      <3>3. pc[t] = "lr_wake" /\ pc \in [Threads -> Labels]
        BY <1>7 DEF Lr_wakeone
      <3>4. SpinHeld' /\ WcLockHeld'
        BY <3>1b, <3>3
      <3> QED BY <3>2, <3>4
    <2> QED BY <2>1, <2>2
  <1>8. ASSUME NEW t \in Threads, Lr_make_runnable(t) PROVE LockInv'
    BY <1>8 DEF Lr_make_runnable, QueueInv, TargetAsleep
  <1>9. CASE UNCHANGED vars
    BY <1>9 DEF vars
  <1> QED BY <1>1, <1>1a, <1>2, <1>3, <1>4, <1>4a, <1>5, <1>5a, <1>6, <1>7, <1>8, <1>9 DEF Next, AcquireStep, ReleaseStep

-----------------------------------------------------------------------------
(* Who owns the lock *)

LEMMA StepOwner == IInv /\ [Next]_vars => (OwnerInv /\ DepthInv /\ SectionInv)'
  <1> SUFFICES ASSUME IInv, [Next]_vars PROVE (OwnerInv /\ DepthInv /\ SectionInv)'
    OBVIOUS
  <1> USE LockAssumption DEF IInv, LockInv, TypeOK, SpinHeld, OwnerInv, DepthInv, SectionInv, Acquiring, Goto, Locks, Channel
  <1>1. ASSUME NEW t \in Threads, La_call(t) \/ La_already_mine(t) \/ La_not_mine(t) \/ La_free(t)
        PROVE  (OwnerInv /\ DepthInv /\ SectionInv)'
    BY <1>1 DEF La_call, La_already_mine, La_not_mine, La_free, DepthOf
  <1>2. ASSUME NEW t \in Threads, La_spin(t) \/ La_wchan_lock(t) \/ La_unlock(t) \/ La_sleep(t)
        PROVE  (OwnerInv /\ DepthInv /\ SectionInv)'
    BY <1>2 DEF La_spin, La_wchan_lock, La_unlock, La_sleep
  <1>3. ASSUME NEW t \in Threads, La_set(t) PROVE (OwnerInv /\ DepthInv /\ SectionInv)'
    BY <1>3 DEF La_set
  <1>4. ASSUME NEW t \in Threads, La_return(t) PROVE (OwnerInv /\ DepthInv /\ SectionInv)'
    BY <1>4 DEF La_return
  <1>5. ASSUME NEW t \in Threads, Lr_not_mine(t) \/ Lr_mine(t)
        PROVE  (OwnerInv /\ DepthInv /\ SectionInv)'
    BY <1>5 DEF Lr_not_mine, Lr_mine
  <1>5a. ASSUME NEW t \in Threads, Lr_call(t) PROVE (OwnerInv /\ DepthInv /\ SectionInv)'
    <2>1. depth[t] \in Nat /\ (t \notin Nesting => depth[t] =< 1)
      BY DEF DepthOf
    <2>2. OwnerInv' /\ DepthInv'
      BY <1>5a, <2>1 DEF Lr_call
    <2>3. SectionInv'
      BY <1>5a, <2>1 DEF Lr_call
    <2> QED BY <2>2, <2>3
  <1>6. ASSUME NEW t \in Threads, Lr_spin(t) \/ Lr_clear(t) \/ Lr_return(t)
        PROVE  (OwnerInv /\ DepthInv /\ SectionInv)'
    BY <1>6 DEF Lr_spin, Lr_clear, Lr_return
  <1>7. ASSUME NEW t \in Threads, Lr_wakeone(t) PROVE (OwnerInv /\ DepthInv /\ SectionInv)'
    BY <1>7 DEF Lr_wakeone
  <1>8. ASSUME NEW t \in Threads, Lr_make_runnable(t) PROVE (OwnerInv /\ DepthInv /\ SectionInv)'
    BY <1>8 DEF Lr_make_runnable, QueueInv, TargetAsleep
  <1>9. CASE UNCHANGED vars
    BY <1>9 DEF vars
  <1> QED BY <1>1, <1>2, <1>3, <1>4, <1>5, <1>5a, <1>6, <1>7, <1>8, <1>9 DEF Next, AcquireStep, ReleaseStep

-----------------------------------------------------------------------------
(* The wait channel *)

LEMMA QueueUntouched ==
  ASSUME LockInv, QueueInv, UNCHANGED Channel,
         \A s \in Threads : pc[s] = "la_asleep" => pc'[s] = "la_asleep",
         \A s \in Threads : pc'[s] = "lr_ready" => pc[s] = "lr_ready"
  PROVE  QueueInv'
  BY DEF Channel, QueueInv, TargetAsleep, ListedAsleep, NoDuplicates, TargetUnlisted, LockInv, TypeOK

LEMMA QueueSleep ==
  ASSUME LockInv, QueueInv, NEW t \in Threads, La_sleep(t)
  PROVE  QueueInv'
  <1> USE DEF LockInv, TypeOK, La_sleep, Goto, QueueInv
  <1>1. /\ Len(wc_threads) \in Nat
        /\ Len(wc_threads') = Len(wc_threads) + 1
        /\ \A i \in 1..Len(wc_threads) : wc_threads'[i] = wc_threads[i] /\ wc_threads[i] \in Threads
        /\ wc_threads'[Len(wc_threads) + 1] = t
    OBVIOUS
  <1>2. \A i \in 1..Len(wc_threads) : wc_threads[i] # t
    BY DEF ListedAsleep
  <1>3. TargetAsleep'
    BY DEF TargetAsleep
  <1>4. ListedAsleep'
    BY <1>1 DEF ListedAsleep
  <1>5. NoDuplicates'
    BY <1>1, <1>2 DEF NoDuplicates
  <1>6. TargetUnlisted'
    BY <1>1 DEF TargetUnlisted, TargetAsleep
  <1> QED BY <1>3, <1>4, <1>5, <1>6

LEMMA QueueWakeone ==
  ASSUME LockInv, QueueInv, NEW t \in Threads, Lr_wakeone(t), wc_threads # <<>>
  PROVE  QueueInv'
  <1> USE DEF LockInv, TypeOK, Lr_wakeone, Goto, QueueInv
  <1> DEFINE h == Head(wc_threads)
  <1>1. /\ Len(wc_threads) \in Nat \ {0}
        /\ Len(wc_threads') = Len(wc_threads) - 1
        /\ \A i \in 1..(Len(wc_threads) - 1) : wc_threads'[i] = wc_threads[i + 1]
        /\ \A i \in 1..Len(wc_threads) : wc_threads[i] \in Threads
        /\ h = wc_threads[1] /\ h \in Threads
    <2>1. Len(wc_threads) \in Nat \ {0}
      BY EmptySeq, LenProperties
    <2>2. wc_threads' = Tail(wc_threads)
      OBVIOUS
    <2>3. h = wc_threads[1] /\ h \in Threads
      BY <2>1
    <2> QED BY <2>1, <2>2, <2>3
  <1>2. pc[h] = "la_asleep" /\ h # t
    BY <1>1 DEF ListedAsleep
  <1>3. \A u \in Threads : pc[u] # "lr_ready"
    BY LockAssumption DEF SpinHeld
  <1>4. pc' = [pc EXCEPT ![t] = "lr_ready"] /\ target' = [target EXCEPT ![t] = h]
    OBVIOUS
  <1>5. TargetAsleep'
    BY <1>1, <1>2, <1>3, <1>4 DEF TargetAsleep
  <1>6. ListedAsleep'
    <2> SUFFICES ASSUME NEW i \in 1..(Len(wc_threads) - 1) PROVE pc'[wc_threads'[i]] = "la_asleep"
      BY <1>1 DEF ListedAsleep
    <2>1. i + 1 \in 1..Len(wc_threads) /\ wc_threads'[i] = wc_threads[i + 1]
      BY <1>1
    <2> QED BY <2>1, <1>1, <1>4 DEF ListedAsleep
  <1>7. \A i \in 1..(Len(wc_threads) - 1) : i + 1 \in 1..Len(wc_threads) /\ 1 \in 1..Len(wc_threads) /\ i + 1 # 1
    BY <1>1
  <1>8. NoDuplicates'
    <2> SUFFICES ASSUME NEW i \in 1..(Len(wc_threads) - 1), NEW j \in 1..(Len(wc_threads) - 1),
                        wc_threads'[i] = wc_threads'[j]
                 PROVE  i = j
      BY <1>1 DEF NoDuplicates
    <2>1. wc_threads[i + 1] = wc_threads[j + 1]
      BY <1>1
    <2>2. i + 1 = j + 1
      BY <2>1, <1>7 DEF NoDuplicates
    <2> QED BY <2>2, <1>1
  <1>9. TargetUnlisted'
    <2> SUFFICES ASSUME NEW i \in 1..(Len(wc_threads) - 1) PROVE h # wc_threads'[i]
      BY <1>1, <1>3, <1>4 DEF TargetUnlisted
    <2> QED BY <1>1, <1>7 DEF NoDuplicates
  <1> QED BY <1>5, <1>6, <1>8, <1>9

LEMMA QueueMakeRunnable ==
  ASSUME LockInv, QueueInv, NEW t \in Threads, Lr_make_runnable(t)
  PROVE  QueueInv'
  <1> USE DEF LockInv, TypeOK, Lr_make_runnable, QueueInv
  <1>1. target[t] \in Threads /\ pc[target[t]] = "la_asleep" /\ target[t] # t
    BY DEF TargetAsleep
  <1>2. \A u \in Threads : pc'[u] # "lr_ready"
    BY <1>1, LockAssumption DEF SpinHeld
  <1>3. TargetAsleep' /\ TargetUnlisted' /\ NoDuplicates'
    BY <1>2 DEF TargetAsleep, TargetUnlisted, NoDuplicates
  <1>4. ListedAsleep'
    BY <1>1 DEF ListedAsleep, TargetUnlisted
  <1> QED BY <1>3, <1>4

LEMMA StepQueue == LockInv /\ QueueInv /\ [Next]_vars => QueueInv'
  <1> SUFFICES ASSUME LockInv, QueueInv, [Next]_vars PROVE QueueInv'
    OBVIOUS
  <1> USE DEF LockInv, TypeOK, Goto
  <1>1. ASSUME NEW t \in Threads, La_call(t) \/ La_already_mine(t) \/ La_not_mine(t) \/ La_free(t) PROVE QueueInv'
    BY <1>1, QueueUntouched DEF La_call, La_already_mine, La_not_mine, La_free, DepthOf
  <1>2. ASSUME NEW t \in Threads, La_spin(t) \/ La_wchan_lock(t) \/ La_unlock(t) \/ La_set(t) \/ La_return(t)
        PROVE  QueueInv'
    BY <1>2, QueueUntouched DEF La_spin, La_wchan_lock, La_unlock, La_set, La_return
  <1>3. ASSUME NEW t \in Threads, Lr_call(t) \/ Lr_not_mine(t) \/ Lr_mine(t) PROVE QueueInv'
    BY <1>3, QueueUntouched DEF Lr_call, Lr_not_mine, Lr_mine
  <1>4. ASSUME NEW t \in Threads, Lr_spin(t) \/ Lr_clear(t) \/ Lr_return(t) PROVE QueueInv'
    BY <1>4, QueueUntouched DEF Lr_spin, Lr_clear, Lr_return
  <1>5. ASSUME NEW t \in Threads, Lr_wakeone(t) PROVE QueueInv'
    <2>1. CASE wc_threads = <<>>
      BY <1>5, <2>1, QueueUntouched DEF Lr_wakeone
    <2> QED BY <1>5, <2>1, QueueWakeone
  <1>6. CASE UNCHANGED vars
    BY <1>6, QueueUntouched DEF vars, Channel
  <1> QED BY <1>1, <1>2, <1>3, <1>4, <1>5, <1>6, QueueSleep, QueueMakeRunnable DEF Next, AcquireStep, ReleaseStep

-----------------------------------------------------------------------------
(* No lost wakeup *)

LEMMA StepWakeup == IInv /\ [Next]_vars => NoLostWakeup'
  <1> SUFFICES ASSUME IInv, [Next]_vars PROVE NoLostWakeup'
    OBVIOUS
  <1> USE LockAssumption DEF IInv, LockInv, TypeOK, Goto, Locks, Channel, Responsible, NoLostWakeup
  <1>1. ASSUME NEW t \in Threads, La_call(t) \/ La_already_mine(t) \/ La_not_mine(t) \/ La_free(t) PROVE NoLostWakeup'
    BY <1>1 DEF La_call, La_already_mine, La_not_mine, La_free, DepthOf
  <1>2. ASSUME NEW t \in Threads, La_spin(t) \/ La_sleep(t) PROVE NoLostWakeup'
    BY <1>2 DEF La_spin, La_sleep
  <1>3. ASSUME NEW t \in Threads, La_wchan_lock(t) \/ La_unlock(t) PROVE NoLostWakeup'
    BY <1>3 DEF La_wchan_lock, La_unlock, OwnerInv
  <1>4. ASSUME NEW t \in Threads, La_set(t) PROVE NoLostWakeup'
    BY <1>4 DEF La_set
  <1>5. ASSUME NEW t \in Threads, La_return(t) PROVE NoLostWakeup'
    BY <1>5 DEF La_return
  <1>6. ASSUME NEW t \in Threads, Lr_call(t) \/ Lr_not_mine(t) \/ Lr_mine(t) PROVE NoLostWakeup'
    BY <1>6 DEF Lr_call, Lr_not_mine, Lr_mine
  <1>7. ASSUME NEW t \in Threads, Lr_spin(t) \/ Lr_clear(t) \/ Lr_return(t) PROVE NoLostWakeup'
    BY <1>7 DEF Lr_spin, Lr_clear, Lr_return
  <1>8. ASSUME NEW t \in Threads, Lr_wakeone(t) PROVE NoLostWakeup'
    <2>1. \A u \in Threads : pc[u] # "la_sleep"
      BY <1>8 DEF Lr_wakeone, WcLockHeld
    <2> QED BY <1>8, <2>1 DEF Lr_wakeone
  <1>9. ASSUME NEW t \in Threads, Lr_make_runnable(t) PROVE NoLostWakeup'
    <2>1. target[t] \in Threads /\ target[t] # t /\ pc'[target[t]] = "la_spin"
      BY <1>9 DEF Lr_make_runnable, QueueInv, TargetAsleep
    <2> QED BY <2>1
  <1>10. CASE UNCHANGED vars
    BY <1>10 DEF vars
  <1> QED BY <1>1, <1>2, <1>3, <1>4, <1>5, <1>6, <1>7, <1>8, <1>9, <1>10 DEF Next, AcquireStep, ReleaseStep

-----------------------------------------------------------------------------
(* The theorems *)

LEMMA InitIInv == Init => IInv
  <1> SUFFICES ASSUME Init PROVE IInv
    OBVIOUS
  <1> USE LockAssumption DEF Init
  <1>1. LockInv
    BY DEF LockInv, TypeOK, SpinHeld, WcLockHeld, Labels, DepthOf
  <1>2. QueueInv
    BY DEF QueueInv, TargetAsleep, ListedAsleep, NoDuplicates, TargetUnlisted
  <1>3. OwnerInv /\ DepthInv /\ SectionInv /\ NoLostWakeup
    BY DEF OwnerInv, DepthInv, SectionInv, NoLostWakeup, Acquiring
  <1> QED BY <1>1, <1>2, <1>3 DEF IInv

LEMMA Invariance == Spec => []IInv
  <1>1. IInv /\ [Next]_vars => IInv'
    BY StepLock, StepOwner, StepQueue, StepWakeup DEF IInv
  <1> QED BY <1>1, InitIInv, PTL DEF Spec

\* The fields of the lock keep their types.
THEOREM TypeCorrect == Spec => []TypeOK
  <1>1. IInv => TypeOK
    BY DEF IInv, LockInv
  <1> QED BY <1>1, Invariance, PTL

\* Of the threads that do not nest their acquires only one holds the lock at a
\* time, whatever lock_acquire and lock_release calls the others make.
THEOREM Exclusion == Spec => []MutualExclusion
  <1>1. IInv => MutualExclusion
    BY DEF IInv, SectionInv, MutualExclusion
  <1> QED BY <1>1, Invariance, PTL

\* The owner tests made without the spinlock stay true until they are used.
THEOREM UnlockedTestsSound == Spec => []UnlockedTestStillHolds
  <1>1. IInv => UnlockedTestStillHolds
    BY DEF IInv, OwnerInv, UnlockedTestStillHolds
  <1> QED BY <1>1, Invariance, PTL

\* No release is lost on a thread that has decided to sleep.
THEOREM WakeupsNotLost == Spec => []NoLostWakeup
  <1>1. IInv => NoLostWakeup
    BY DEF IInv
  <1> QED BY <1>1, Invariance, PTL

-----------------------------------------------------------------------------
(* Refinement *)

LEMMA RefinesStep == IInv /\ [Next]_vars => [Abstract!Next]_(Abstract!absVars)
  <1> SUFFICES ASSUME IInv, [Next]_vars PROVE [Abstract!Next]_(Abstract!absVars)
    OBVIOUS
  <1> USE DEF IInv, LockInv, TypeOK, Goto, CallOf, Acquiring, Releasing, Labels, Locks, Channel,
              Abstract!Next, Abstract!absVars
  <1>1. ASSUME NEW t \in Threads, La_call(t) PROVE Abstract!CallAcquire(t)
    BY <1>1 DEF La_call, Abstract!CallAcquire
  <1>2. ASSUME NEW t \in Threads, Lr_call(t) PROVE Abstract!CallRelease(t)
    BY <1>2 DEF Lr_call, Abstract!CallRelease
  <1>3. ASSUME NEW t \in Threads, La_set(t) PROVE Abstract!Acquire(t)
    BY <1>3 DEF La_set, Abstract!Acquire, OwnerInv
  <1>4. ASSUME NEW t \in Threads, Lr_clear(t) PROVE Abstract!Release(t)
    BY <1>4 DEF Lr_clear, Abstract!Release, OwnerInv
  <1>5. ASSUME NEW t \in Threads, La_return(t) \/ Lr_return(t) PROVE Abstract!Return(t)
    BY <1>5 DEF La_return, Lr_return, Abstract!Return
  <1>6. ASSUME NEW t \in Threads, La_already_mine(t) \/ Lr_not_mine(t) PROVE Abstract!ReturnAtOnce(t)
    BY <1>6 DEF La_already_mine, Lr_not_mine, Abstract!ReturnAtOnce
  <1>7. ASSUME NEW t \in Threads, La_not_mine(t) \/ La_spin(t) \/ La_free(t) \/ La_wchan_lock(t) \/ La_unlock(t) \/ La_sleep(t)
        PROVE  UNCHANGED Abstract!absVars
    BY <1>7 DEF La_not_mine, La_spin, La_free, La_wchan_lock, La_unlock, La_sleep
  <1>8. ASSUME NEW t \in Threads, Lr_mine(t) \/ Lr_spin(t) \/ Lr_wakeone(t) PROVE UNCHANGED Abstract!absVars
    BY <1>8 DEF Lr_mine, Lr_spin, Lr_wakeone
  <1>9. ASSUME NEW t \in Threads, Lr_make_runnable(t) PROVE UNCHANGED Abstract!absVars
    BY <1>9 DEF Lr_make_runnable, QueueInv, TargetAsleep
  <1>10. CASE UNCHANGED vars
    BY <1>10 DEF vars
  <1> QED BY <1>1, <1>2, <1>3, <1>4, <1>5, <1>6, <1>7, <1>8, <1>9, <1>10 DEF Next, AcquireStep, ReleaseStep

\* lock_acquire and lock_release are atomic: every behaviour of the code is a
\* behaviour of the abstract lock (its safety part), nested calls included.
THEOREM RefinesAtomicLock == Spec => Abstract!AtomicSpec
  <1>1. Init => Abstract!Init
    BY DEF Init, Abstract!Init, CallOf
  <1>2. IInv /\ [Next]_vars => [Abstract!Next]_(Abstract!absVars)
    BY RefinesStep
  <1> QED BY <1>1, <1>2, Invariance, PTL DEF Spec, Abstract!AtomicSpec
=============================================================================
