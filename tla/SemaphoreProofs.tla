--------------------------- MODULE SemaphoreProofs ---------------------------
(***************************************************************************)
(* Proofs about module Semaphore, for every finite set of threads, every   *)
(* initial count and any number of V calls.                                *)
(***************************************************************************)
EXTENDS Semaphore, TLAPS, FiniteSetTheorems, SequenceTheorems

-----------------------------------------------------------------------------
(* The inductive invariant *)

\* sem_lock is held exactly inside the critical sections of P and V.
SemLockHeld ==
  \A t \in Threads :
    (sem_lock = t) <=> pc[t] \in {"p_test", "p_dec", "p_bridge", "v_inc", "v_wake", "v_ready", "release"}

\* wc_lock outlives sem_lock in P: it is held from the bridge to the sleep.
WcLockHeld == \A t \in Threads : (wc_lock = t) <=> pc[t] \in {"p_bridge", "p_sleep"}

\* A thread that gives up sem_lock in order to sleep has seen the count at zero.
BridgeAtZero == \A t \in Threads : pc[t] = "p_bridge" => sem_count = 0

Listed(s) == \E i \in 1..Len(wc_threads) : wc_threads[i] = s
Targeted(s) == \E t \in Threads : pc[t] = "v_ready" /\ target[t] = s

\* Each thread on the channel is there once.
NoDuplicates == \A i, j \in 1..Len(wc_threads) : wc_threads[i] = wc_threads[j] => i = j

\* The sleeping threads are those on the channel and those V has taken off it.
AsleepIffQueued == \A s \in Threads : (pc[s] = "p_asleep") <=> (Listed(s) \/ Targeted(s))

\* A thread taken off the channel is off the channel.
ListedNotTargeted == \A s \in Threads : ~(Listed(s) /\ Targeted(s))

TargetIsThread == \A t \in Threads : pc[t] = "v_ready" => target[t] \in Threads

LockInv == TypeOK /\ SemLockHeld /\ WcLockHeld

QueueInv == NoDuplicates /\ AsleepIffQueued /\ ListedNotTargeted /\ TargetIsThread

IInv == LockInv /\ P_KASSERT /\ BridgeAtZero /\ QueueInv /\ NoLostWakeup

-----------------------------------------------------------------------------
(* Locks and types *)

LEMMA InitLock == Init => LockInv
  BY SemAssumption DEF Init, LockInv, TypeOK, SemLockHeld, WcLockHeld, Labels, InP, InV

LEMMA StepLock == LockInv /\ TargetIsThread /\ AsleepIffQueued /\ BridgeAtZero /\ P_KASSERT /\ [Next]_vars => LockInv'
  <1> SUFFICES ASSUME LockInv, TargetIsThread, AsleepIffQueued, BridgeAtZero, P_KASSERT, [Next]_vars
               PROVE  LockInv'
    OBVIOUS
  <1> USE SemAssumption DEF LockInv, TypeOK, SemLockHeld, WcLockHeld, Labels, InP, InV, Goto
  <1>1. ASSUME NEW t \in Threads, P_call(t) PROVE LockInv'
    BY <1>1 DEF P_call
  <1>2. ASSUME NEW t \in Threads, P_acquire(t) PROVE LockInv'
    BY <1>2 DEF P_acquire
  <1>3. ASSUME NEW t \in Threads, P_test(t) PROVE LockInv'
    BY <1>3 DEF P_test
  <1>4. ASSUME NEW t \in Threads, P_wchan_lock(t) PROVE LockInv'
    BY <1>4 DEF P_wchan_lock
  <1>5. ASSUME NEW t \in Threads, P_unlock(t) PROVE LockInv'
    BY <1>5 DEF P_unlock
  <1>6. ASSUME NEW t \in Threads, P_sleep(t) PROVE LockInv'
    BY <1>6 DEF P_sleep
  <1>7. ASSUME NEW t \in Threads, P_dec(t) PROVE LockInv'
    BY <1>7 DEF P_dec, P_KASSERT
  <1>8. ASSUME NEW t \in Threads, Release(t) PROVE LockInv'
    BY <1>8 DEF Release
  <1>9. ASSUME NEW t \in Threads, V_call(t) PROVE LockInv'
    BY <1>9 DEF V_call
  <1>10. ASSUME NEW t \in Threads, V_acquire(t) PROVE LockInv'
    BY <1>10 DEF V_acquire
  <1>11. ASSUME NEW t \in Threads, V_inc(t) PROVE LockInv'
    BY <1>11 DEF V_inc
  <1>12. ASSUME NEW t \in Threads, V_wakeone(t) PROVE LockInv'
    <2>1. CASE wc_threads = <<>>
      BY <1>12, <2>1 DEF V_wakeone
    <2>2. CASE wc_threads # <<>>
      <3>1. Head(wc_threads) \in Threads /\ Tail(wc_threads) \in Seq(Threads)
        BY <2>2
      <3> QED BY <1>12, <2>2, <3>1 DEF V_wakeone
    <2> QED BY <2>1, <2>2
  <1>13. ASSUME NEW t \in Threads, V_make_runnable(t) PROVE LockInv'
    <2>1. target[t] \in Threads /\ pc[target[t]] = "p_asleep"
      BY <1>13 DEF V_make_runnable, TargetIsThread, AsleepIffQueued, Targeted
    <2> QED BY <1>13, <2>1 DEF V_make_runnable
  <1>14. CASE UNCHANGED vars
    BY <1>14 DEF vars
  <1> QED BY <1>1, <1>2, <1>3, <1>4, <1>5, <1>6, <1>7, <1>8, <1>9, <1>10, <1>11, <1>12, <1>13, <1>14 DEF Next, Step

-----------------------------------------------------------------------------
(* The count, as far as the critical sections protect it *)

LEMMA StepCount == LockInv /\ P_KASSERT /\ BridgeAtZero /\ QueueInv /\ [Next]_vars => (P_KASSERT /\ BridgeAtZero)'
  <1> SUFFICES ASSUME LockInv, P_KASSERT, BridgeAtZero, QueueInv, [Next]_vars
               PROVE  (P_KASSERT /\ BridgeAtZero)'
    OBVIOUS
  <1> USE SemAssumption DEF LockInv, TypeOK, SemLockHeld, P_KASSERT, BridgeAtZero, Goto
  <1>1. ASSUME NEW t \in Threads, P_call(t) \/ P_acquire(t) \/ P_test(t) \/ P_wchan_lock(t) \/ P_unlock(t) \/ P_sleep(t)
        PROVE  (P_KASSERT /\ BridgeAtZero)'
    BY <1>1 DEF P_call, P_acquire, P_test, P_wchan_lock, P_unlock, P_sleep
  <1>2. ASSUME NEW t \in Threads, P_dec(t) \/ Release(t) \/ V_call(t) \/ V_acquire(t) \/ V_inc(t)
        PROVE  (P_KASSERT /\ BridgeAtZero)'
    BY <1>2 DEF P_dec, Release, V_call, V_acquire, V_inc
  <1>3. ASSUME NEW t \in Threads, V_wakeone(t)
        PROVE  (P_KASSERT /\ BridgeAtZero)'
    BY <1>3 DEF V_wakeone
  <1>4. ASSUME NEW t \in Threads, V_make_runnable(t)
        PROVE  (P_KASSERT /\ BridgeAtZero)'
    <2>1. target[t] \in Threads /\ pc[target[t]] = "p_asleep"
      BY <1>4 DEF V_make_runnable, QueueInv, TargetIsThread, AsleepIffQueued, Targeted
    <2> QED BY <1>4, <2>1 DEF V_make_runnable
  <1>5. CASE UNCHANGED vars
    BY <1>5 DEF vars
  <1> QED BY <1>1, <1>2, <1>3, <1>4, <1>5 DEF Next, Step

-----------------------------------------------------------------------------
(* The wait channel *)

\* At most one thread is in wchan_wakeone: it holds sem_lock.
LEMMA OneWaker ==
  ASSUME LockInv, NEW t \in Threads, NEW u \in Threads, pc[t] = "v_ready", pc[u] = "v_ready"
  PROVE  t = u
  BY SemAssumption DEF LockInv, SemLockHeld

\* Actions that leave the channel, the targets and the set of sleeping threads alone.
LEMMA QueueUntouched ==
  ASSUME QueueInv, UNCHANGED <<wc_threads, target>>,
         \A s \in Threads : (pc'[s] = "p_asleep") <=> (pc[s] = "p_asleep"),
         \A s \in Threads : (pc'[s] = "v_ready") <=> (pc[s] = "v_ready")
  PROVE  QueueInv'
  BY DEF QueueInv, NoDuplicates, AsleepIffQueued, ListedNotTargeted, TargetIsThread, Listed, Targeted

LEMMA QueueSleep ==
  ASSUME LockInv, QueueInv, NEW t \in Threads, P_sleep(t)
  PROVE  QueueInv'
  <1> USE DEF LockInv, TypeOK, P_sleep, Goto
  <1>1. /\ Len(wc_threads') = Len(wc_threads) + 1
        /\ Len(wc_threads) \in Nat
        /\ \A i \in 1..Len(wc_threads) : wc_threads'[i] = wc_threads[i]
        /\ wc_threads'[Len(wc_threads) + 1] = t
    OBVIOUS
  <1>2. ~Listed(t) /\ ~Targeted(t)
    BY DEF QueueInv, AsleepIffQueued
  <1>3. \A s \in Threads : Listed(s)' <=> (Listed(s) \/ s = t)
    BY <1>1 DEF Listed
  <1>4. \A s \in Threads : Targeted(s)' <=> Targeted(s)
    BY DEF Targeted
  <1>5. NoDuplicates'
    BY <1>1, <1>2 DEF NoDuplicates, QueueInv, Listed
  <1>6. AsleepIffQueued'
    BY <1>3, <1>4 DEF QueueInv, AsleepIffQueued
  <1>7. ListedNotTargeted'
    BY <1>2, <1>3, <1>4 DEF QueueInv, ListedNotTargeted
  <1>8. TargetIsThread'
    BY DEF QueueInv, TargetIsThread
  <1> QED BY <1>5, <1>6, <1>7, <1>8 DEF QueueInv

LEMMA QueueWakeone ==
  ASSUME LockInv, QueueInv, NEW t \in Threads, V_wakeone(t), wc_threads # <<>>
  PROVE  QueueInv'
  <1> USE DEF LockInv, TypeOK, V_wakeone, Goto
  <1> DEFINE h == Head(wc_threads)
  <1>1. /\ Len(wc_threads) \in Nat \ {0}
        /\ Len(wc_threads') = Len(wc_threads) - 1
        /\ \A i \in 1..(Len(wc_threads) - 1) : wc_threads'[i] = wc_threads[i + 1]
        /\ h = wc_threads[1] /\ h \in Threads
    <2>1. Len(wc_threads) \in Nat \ {0}
      BY EmptySeq, LenProperties
    <2>2. wc_threads' = Tail(wc_threads)
      OBVIOUS
    <2>3. h = wc_threads[1] /\ h \in Threads
      BY <2>1
    <2> QED BY <2>1, <2>2, <2>3
  <1>2. \A u \in Threads : pc[u] # "v_ready"
    BY SemAssumption DEF SemLockHeld
  <1>3. pc' = [pc EXCEPT ![t] = "v_ready"] /\ target' = [target EXCEPT ![t] = h]
    OBVIOUS
  <1>4. \A s \in Threads : Targeted(s)' <=> s = h
    BY <1>2, <1>3 DEF Targeted
  <1>5. \A s \in Threads : Listed(s)' <=> (Listed(s) /\ s # h)
    <2> SUFFICES ASSUME NEW s \in Threads PROVE Listed(s)' <=> (Listed(s) /\ s # h)
      OBVIOUS
    <2>1. ASSUME Listed(s)' PROVE Listed(s) /\ s # h
      <3>1. PICK i \in 1..(Len(wc_threads) - 1) : wc_threads'[i] = s
        BY <2>1, <1>1 DEF Listed
      <3>2. i + 1 \in 1..Len(wc_threads) /\ wc_threads[i + 1] = s /\ 1 \in 1..Len(wc_threads) /\ i + 1 # 1
        BY <3>1, <1>1
      <3> QED BY <3>2, <1>1 DEF Listed, QueueInv, NoDuplicates
    <2>2. ASSUME Listed(s), s # h PROVE Listed(s)'
      <3>1. PICK i \in 1..Len(wc_threads) : wc_threads[i] = s
        BY <2>2 DEF Listed
      <3>2. i - 1 \in 1..(Len(wc_threads) - 1) /\ wc_threads'[i - 1] = s
        BY <3>1, <2>2, <1>1
      <3> QED BY <3>2, <1>1 DEF Listed
    <2> QED BY <2>1, <2>2
  <1>6. Listed(h)
    BY <1>1 DEF Listed
  <1>7. NoDuplicates'
    <2> SUFFICES ASSUME NEW i \in 1..(Len(wc_threads) - 1), NEW j \in 1..(Len(wc_threads) - 1),
                        wc_threads'[i] = wc_threads'[j]
                 PROVE  i = j
      BY <1>1 DEF NoDuplicates
    <2>1. i + 1 \in 1..Len(wc_threads) /\ j + 1 \in 1..Len(wc_threads) /\ wc_threads[i + 1] = wc_threads[j + 1]
      BY <1>1
    <2>2. i + 1 = j + 1
      BY <2>1 DEF QueueInv, NoDuplicates
    <2> QED BY <2>2, <1>1
  <1>8. \A s \in Threads : ~Targeted(s)
    BY <1>2 DEF Targeted
  <1>9. AsleepIffQueued'
    BY <1>1, <1>3, <1>4, <1>5, <1>6, <1>8 DEF QueueInv, AsleepIffQueued
  <1>10. ListedNotTargeted'
    BY <1>4, <1>5 DEF ListedNotTargeted
  <1>11. TargetIsThread'
    BY <1>1, <1>2, <1>3 DEF TargetIsThread
  <1> QED BY <1>7, <1>9, <1>10, <1>11 DEF QueueInv

LEMMA QueueMakeRunnable ==
  ASSUME LockInv, QueueInv, NEW t \in Threads, V_make_runnable(t)
  PROVE  QueueInv'
  <1> USE DEF LockInv, TypeOK, V_make_runnable
  <1>1. target[t] \in Threads /\ pc[target[t]] = "p_asleep" /\ target[t] # t
    BY DEF QueueInv, TargetIsThread, AsleepIffQueued, Targeted
  <1>2. \A u \in Threads : pc[u] = "v_ready" => u = t
    BY OneWaker
  <1>3. \A s \in Threads : ~Targeted(s)'
    BY <1>1, <1>2 DEF Targeted
  <1>4. \A s \in Threads : Targeted(s) <=> s = target[t]
    BY <1>2 DEF Targeted
  <1>5. \A s \in Threads : Listed(s)' <=> Listed(s)
    BY DEF Listed
  <1>6. AsleepIffQueued'
    BY <1>1, <1>3, <1>4, <1>5 DEF QueueInv, AsleepIffQueued, ListedNotTargeted
  <1>7. NoDuplicates' /\ ListedNotTargeted' /\ TargetIsThread'
    BY <1>1, <1>2, <1>3 DEF QueueInv, NoDuplicates, ListedNotTargeted, TargetIsThread
  <1> QED BY <1>6, <1>7 DEF QueueInv

LEMMA StepQueue == LockInv /\ QueueInv /\ [Next]_vars => QueueInv'
  <1> SUFFICES ASSUME LockInv, QueueInv, [Next]_vars PROVE QueueInv'
    OBVIOUS
  <1> USE DEF LockInv, TypeOK, Goto
  <1>1. ASSUME NEW t \in Threads, P_call(t) \/ P_acquire(t) \/ P_test(t) \/ P_wchan_lock(t) \/ P_unlock(t) \/ P_dec(t)
        PROVE  QueueInv'
    BY <1>1, QueueUntouched DEF P_call, P_acquire, P_test, P_wchan_lock, P_unlock, P_dec
  <1>2. ASSUME NEW t \in Threads, Release(t) \/ V_call(t) \/ V_acquire(t) \/ V_inc(t)
        PROVE  QueueInv'
    BY <1>2, QueueUntouched DEF Release, V_call, V_acquire, V_inc
  <1>3. ASSUME NEW t \in Threads, V_wakeone(t) PROVE QueueInv'
    <2>1. CASE wc_threads = <<>>
      BY <1>3, <2>1, QueueUntouched DEF V_wakeone
    <2> QED BY <1>3, <2>1, QueueWakeone
  <1>4. CASE UNCHANGED vars
    BY <1>4, QueueUntouched DEF vars
  <1> QED BY <1>1, <1>2, <1>3, <1>4, QueueSleep, QueueMakeRunnable DEF Next, Step

-----------------------------------------------------------------------------
(* No lost wakeup *)

Waiting == wc_threads # <<>> \/ \E t \in Threads : pc[t] = "p_sleep"

LEMMA ResponsibleFinite == IsFiniteSet(Responsible) /\ Cardinality(Responsible) \in Nat
  <1>1. Responsible \in SUBSET Threads
    BY DEF Responsible
  <1>2. IsFiniteSet(Responsible)
    BY <1>1, FS_Subset, SemAssumption
  <1> QED BY <1>2, FS_CardinalityType

\* A step that adds no unit, takes no thread off duty and starts no wait.
LEMMA WakeupKept ==
  ASSUME NoLostWakeup, LockInv, sem_count' = sem_count, Waiting' => Waiting,
         \/ Responsible' = Responsible
         \/ \E t \in Threads : Responsible' = Responsible \union {t}
  PROVE  NoLostWakeup'
  <1>1. sem_count \in Nat
    BY DEF LockInv, TypeOK
  <1>2. Waiting => sem_count =< Cardinality(Responsible)
    BY DEF NoLostWakeup, Waiting
  <1>3. Cardinality(Responsible) =< Cardinality(Responsible')
    <2>1. CASE Responsible' = Responsible
      BY <2>1, ResponsibleFinite
    <2>2. ASSUME NEW t \in Threads, Responsible' = Responsible \union {t}
          PROVE  Cardinality(Responsible) =< Cardinality(Responsible')
      BY <2>2, ResponsibleFinite, FS_AddElement
    <2> QED BY <2>1, <2>2
  <1>4. Cardinality(Responsible') \in Nat
    BY ResponsibleFinite, FS_AddElement
  <1>5. Waiting' => sem_count' =< Cardinality(Responsible')
    BY <1>1, <1>2, <1>3, <1>4, ResponsibleFinite
  <1> QED BY <1>5 DEF NoLostWakeup, Waiting

LEMMA StepWakeup == IInv /\ [Next]_vars => NoLostWakeup'
  <1> SUFFICES ASSUME IInv, [Next]_vars PROVE NoLostWakeup'
    OBVIOUS
  <1> USE DEF IInv, LockInv, TypeOK, Goto
  <1>1. ASSUME NEW t \in Threads, P_call(t) PROVE NoLostWakeup'
    <2>1. Responsible' = Responsible \union {t} /\ (Waiting' => Waiting)
      BY <1>1 DEF P_call, Responsible, Waiting
    <2> QED BY <1>1, <2>1, WakeupKept DEF P_call
  <1>2. ASSUME NEW t \in Threads, P_acquire(t) \/ P_test(t) \/ P_sleep(t) PROVE NoLostWakeup'
    <2>1. Responsible' = Responsible /\ (Waiting' => Waiting)
      BY <1>2 DEF P_acquire, P_test, P_sleep, Responsible, Waiting
    <2> QED BY <1>2, <2>1, WakeupKept DEF P_acquire, P_test, P_sleep
  <1>3. ASSUME NEW t \in Threads, Release(t) \/ V_call(t) \/ V_acquire(t) PROVE NoLostWakeup'
    <2>1. Responsible' = Responsible /\ (Waiting' => Waiting)
      BY <1>3 DEF Release, V_call, V_acquire, Responsible, Waiting
    <2> QED BY <1>3, <2>1, WakeupKept DEF Release, V_call, V_acquire
  <1>4. ASSUME NEW t \in Threads, P_wchan_lock(t) \/ P_unlock(t) PROVE NoLostWakeup'
    <2>1. sem_count' = 0
      BY <1>4 DEF P_wchan_lock, P_unlock, BridgeAtZero
    <2>2. Responsible' = Responsible \ {t}
      BY <1>4 DEF P_wchan_lock, P_unlock, Responsible
    <2>3. Cardinality(Responsible') \in Nat
      BY <2>2, ResponsibleFinite, FS_RemoveElement, FS_CardinalityType
    <2> QED BY <2>1, <2>3 DEF NoLostWakeup
  <1>5. ASSUME NEW t \in Threads, P_dec(t) PROVE NoLostWakeup'
    <2>1. Responsible' = Responsible \ {t} /\ t \in Responsible
      BY <1>5 DEF P_dec, Responsible
    <2>2. Cardinality(Responsible') = Cardinality(Responsible) - 1
      BY <2>1, ResponsibleFinite, FS_RemoveElement
    <2>3. Waiting' => Waiting
      BY <1>5 DEF P_dec, Waiting
    <2>4. sem_count' = sem_count - 1
      BY <1>5 DEF P_dec
    <2>5. Waiting' => sem_count' =< Cardinality(Responsible')
      BY <2>2, <2>3, <2>4, ResponsibleFinite DEF NoLostWakeup, Waiting
    <2> QED BY <2>5 DEF NoLostWakeup, Waiting
  <1>6. ASSUME NEW t \in Threads, V_inc(t) PROVE NoLostWakeup'
    <2>1. Responsible' = Responsible \union {t} /\ t \notin Responsible
      BY <1>6 DEF V_inc, Responsible
    <2>2. Cardinality(Responsible') = Cardinality(Responsible) + 1
      BY <2>1, ResponsibleFinite, FS_AddElement
    <2>3. Waiting' => Waiting
      BY <1>6 DEF V_inc, Waiting
    <2>4. sem_count' = sem_count + 1
      BY <1>6 DEF V_inc
    <2>5. Waiting' => sem_count' =< Cardinality(Responsible')
      BY <2>2, <2>3, <2>4, ResponsibleFinite DEF NoLostWakeup, Waiting
    <2> QED BY <2>5 DEF NoLostWakeup, Waiting
  <1>7. ASSUME NEW t \in Threads, V_wakeone(t) PROVE NoLostWakeup'
    <2>1. CASE wc_threads = <<>>
      <3>1. ~Waiting'
        BY <1>7, <2>1, SemAssumption DEF V_wakeone, Waiting, WcLockHeld
      <3> QED BY <3>1 DEF NoLostWakeup, Waiting
    <2>2. CASE wc_threads # <<>>
      <3>1. Responsible' = Responsible /\ (Waiting' => Waiting)
        BY <1>7, <2>2 DEF V_wakeone, Responsible, Waiting
      <3> QED BY <1>7, <3>1, WakeupKept DEF V_wakeone
    <2> QED BY <2>1, <2>2
  <1>8. ASSUME NEW t \in Threads, V_make_runnable(t) PROVE NoLostWakeup'
    <2> DEFINE u == target[t]
    <2>1. u \in Threads /\ pc[u] = "p_asleep" /\ u # t
      BY <1>8 DEF V_make_runnable, QueueInv, TargetIsThread, AsleepIffQueued, Targeted
    <2>2. Responsible' = (Responsible \ {t}) \union {u} /\ t \in Responsible /\ u \notin Responsible
      BY <1>8, <2>1 DEF V_make_runnable, Responsible
    <2>3. Cardinality(Responsible') = Cardinality(Responsible)
      <3> DEFINE R == Responsible \ {t}
      <3>1. IsFiniteSet(R) /\ Cardinality(R) = Cardinality(Responsible) - 1 /\ u \notin R
        BY <2>2, ResponsibleFinite, FS_RemoveElement
      <3> HIDE DEF R
      <3>2. Cardinality(R \union {u}) = Cardinality(R) + 1
        BY <3>1, FS_AddElement
      <3> QED BY <2>2, <3>1, <3>2, ResponsibleFinite DEF R
    <2>4. (Waiting' => Waiting) /\ sem_count' = sem_count
      BY <1>8, <2>1 DEF V_make_runnable, Waiting
    <2>5. Waiting' => sem_count' =< Cardinality(Responsible')
      BY <2>3, <2>4 DEF NoLostWakeup, Waiting
    <2> QED BY <2>5 DEF NoLostWakeup, Waiting
  <1>9. CASE UNCHANGED vars
    <2>1. Responsible' = Responsible /\ (Waiting' => Waiting) /\ sem_count' = sem_count
      BY <1>9 DEF vars, Responsible, Waiting
    <2> QED BY <2>1, WakeupKept
  <1> QED BY <1>1, <1>2, <1>3, <1>4, <1>5, <1>6, <1>7, <1>8, <1>9 DEF Next, Step

-----------------------------------------------------------------------------
(* The theorems *)

LEMMA InitIInv == Init => IInv
  <1> SUFFICES ASSUME Init PROVE IInv
    OBVIOUS
  <1>1. P_KASSERT /\ BridgeAtZero /\ TargetIsThread
    BY DEF Init, P_KASSERT, BridgeAtZero, TargetIsThread
  <1>2. NoDuplicates /\ AsleepIffQueued /\ ListedNotTargeted
    BY DEF Init, NoDuplicates, AsleepIffQueued, ListedNotTargeted, Listed, Targeted
  <1>3. NoLostWakeup
    BY DEF Init, NoLostWakeup
  <1> QED BY <1>1, <1>2, <1>3, InitLock DEF IInv, QueueInv

LEMMA StepIInv == IInv /\ [Next]_vars => IInv'
  BY StepLock, StepCount, StepQueue, StepWakeup DEF IInv, QueueInv

LEMMA Invariance == Spec => []IInv
  BY InitIInv, StepIInv, PTL DEF Spec

\* The fields keep their types; in particular sem_count, unsigned in the code,
\* is never decremented below zero.
THEOREM TypeCorrect == Spec => []TypeOK
  <1>1. IInv => TypeOK
    BY DEF IInv, LockInv
  <1> QED BY <1>1, Invariance, PTL

\* The KASSERT of P never fails.
THEOREM KassertHolds == Spec => []P_KASSERT
  <1>1. IInv => P_KASSERT
    BY DEF IInv
  <1> QED BY <1>1, Invariance, PTL

\* No interleaving of P and V loses or duplicates a sleeping thread.
THEOREM SleepersSafe == Spec => []SleepersAccountedFor
  <1>1. IInv => SleepersAccountedFor
    <2> SUFFICES ASSUME IInv PROVE SleepersAccountedFor
      OBVIOUS
    <2>1. \A s : s \in Sleepers <=> Listed(s)
      BY DEF Sleepers, Listed
    <2> QED BY <2>1, OneWaker DEF SleepersAccountedFor, IInv, QueueInv, NoDuplicates, AsleepIffQueued,
                                  ListedNotTargeted, Targeted
  <1> QED BY <1>1, Invariance, PTL

\* No V is lost on a thread that has decided to sleep, for any number of threads.
THEOREM WakeupsNotLost == Spec => []NoLostWakeup
  <1>1. IInv => NoLostWakeup
    BY DEF IInv
  <1> QED BY <1>1, Invariance, PTL

-----------------------------------------------------------------------------
(* Refinement *)

LEMMA RefinesInit == Init => Abstract!Init
  BY DEF Init, Abstract!Init, CallOf

LEMMA RefinesStep == IInv /\ [Next]_vars => [Abstract!Next]_(Abstract!absVars)
  <1> SUFFICES ASSUME IInv, [Next]_vars PROVE [Abstract!Next]_(Abstract!absVars)
    OBVIOUS
  <1> USE DEF IInv, LockInv, TypeOK, Goto, CallOf, InP, InV, Labels, Abstract!Next, Abstract!absVars
  <1>1. ASSUME NEW t \in Threads, P_call(t) PROVE Abstract!Invoke(t, "P")
    BY <1>1 DEF P_call, Abstract!Invoke
  <1>2. ASSUME NEW t \in Threads, V_call(t) PROVE Abstract!Invoke(t, "V")
    BY <1>2 DEF V_call, Abstract!Invoke
  <1>3. ASSUME NEW t \in Threads, P_dec(t) PROVE Abstract!P(t)
    BY <1>3 DEF P_dec, Abstract!P, P_KASSERT
  <1>4. ASSUME NEW t \in Threads, V_inc(t) PROVE Abstract!V(t)
    BY <1>4 DEF V_inc, Abstract!V
  <1>5. ASSUME NEW t \in Threads, Release(t) PROVE Abstract!Return(t)
    BY <1>5 DEF Release, Abstract!Return
  <1>6. ASSUME NEW t \in Threads, P_acquire(t) \/ P_test(t) \/ P_wchan_lock(t) \/ P_unlock(t) \/ P_sleep(t) \/ V_acquire(t)
        PROVE  UNCHANGED Abstract!absVars
    BY <1>6 DEF P_acquire, P_test, P_wchan_lock, P_unlock, P_sleep, V_acquire
  <1>7. ASSUME NEW t \in Threads, V_wakeone(t) PROVE UNCHANGED Abstract!absVars
    BY <1>7 DEF V_wakeone
  <1>8. ASSUME NEW t \in Threads, V_make_runnable(t) PROVE UNCHANGED Abstract!absVars
    <2>1. target[t] \in Threads /\ pc[target[t]] = "p_asleep" /\ target[t] # t
      BY <1>8 DEF V_make_runnable, QueueInv, TargetIsThread, AsleepIffQueued, Targeted
    <2> QED BY <1>8, <2>1 DEF V_make_runnable
  <1>9. CASE UNCHANGED vars
    BY <1>9 DEF vars
  <1> QED BY <1>1, <1>2, <1>3, <1>4, <1>5, <1>6, <1>7, <1>8, <1>9 DEF Next, Step

\* P and V are atomic: every behaviour of the spinlock-and-wait-channel code is
\* a behaviour of the abstract semaphore (its safety part).
THEOREM RefinesAtomicSemaphore == Spec => Abstract!AtomicSpec
  BY RefinesInit, RefinesStep, Invariance, PTL DEF Spec, Abstract!AtomicSpec
=============================================================================
