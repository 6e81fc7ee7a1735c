----------------------------- MODULE SynchProofs -----------------------------
(***************************************************************************)
(* Proofs about the kernel's condition variable (module CondVar) and its   *)
(* reader-writer lock (module RWLock), for every number of threads, of     *)
(* turns and of permits.                                                   *)
(*                                                                         *)
(* What the monitor's lock gives holds on any CPUs; that no broadcast is   *)
(* lost needs one CPU (the run on several shows it lost).                  *)
(*                                                                         *)
(* The permits of the reader-writer lock that are in use are counted as    *)
(* the pairs <<t, i>> of a thread and the number, from 1 up, of a permit   *)
(* it has.                                                                 *)
(***************************************************************************)
EXTENDS CondVar, RWLock, TLAPS, SequenceTheorems, FiniteSetTheorems

\* All the threads of the test run on one CPU.
OneCpu == \A t, u \in Threads : CpuOf[t] = CpuOf[u]

-----------------------------------------------------------------------------
(* The inductive invariant *)

SpinHeld == \A t \in Threads :
  (cv_spinlock = t) <=> pc[t] \in {"cw_release", "cw_wchan_lock", "cw_unspin"}

WcLockHeld == \A t \in Threads : (wc_lock = t) <=> pc[t] \in {"cw_unspin", "cw_sleep"}

LockHeld == \A t \in Threads :
  (holder = t) <=> pc[t] \in {"test", "cw_spin", "cw_release", "broadcast", "lock_release"}

TurnsLeft == \A t \in Threads : pc[t] # "done" => loops[t] < NCVLOOPS

\* The threads asleep in cv_wait are the ones on the channel.
Asleep == {t \in Threads : pc[t] = "asleep"}
ListedAsleep == Asleep = Woken

BaseInv == TypeOK /\ SpinHeld /\ WcLockHeld /\ LockHeld /\ TurnsLeft /\ ListedAsleep

\* A thread on its way from the test to the channel still has it before it that
\* somebody else's number is in testval1: it holds the lock, and then, up to the
\* channel, spinlocks that keep all others off the CPU.
StillNotMyTurn == \A t \in Threads :
  pc[t] \in {"cw_spin", "cw_release", "cw_wchan_lock", "cw_unspin", "cw_sleep"} => testval1 # t

-----------------------------------------------------------------------------
LEMMA TurnInRange == \A v \in Threads : (v + NTHREADS - 1) % NTHREADS \in Threads
  <1> SUFFICES ASSUME NEW v \in Threads PROVE (v + NTHREADS - 1) % NTHREADS \in Threads
    OBVIOUS
  <1>1. NTHREADS \in Nat \ {0} /\ v + NTHREADS - 1 \in Int
    BY CvAssumption DEF Threads
  <1> QED BY <1>1 DEF Threads

LEMMA InitBase == Init => BaseInv
  <1> SUFFICES ASSUME Init PROVE BaseInv
    OBVIOUS
  <1>1. NTHREADS - 1 \in Threads
    BY CvAssumption DEF Threads
  <1>2. Woken = {} /\ Asleep = {}
    BY DEF Init, Woken, Asleep
  <1>3. TypeOK
    BY <1>1, CvAssumption DEF Init, TypeOK, Labels
  <1> QED BY <1>2, <1>3, CvAssumption DEF Init, BaseInv, SpinHeld, WcLockHeld, LockHeld, TurnsLeft, ListedAsleep

\* Steps of threads that are not asleep leave the channel's threads alone.
LEMMA ListedKeep ==
  ASSUME TypeOK, ListedAsleep, UNCHANGED wc_threads, NEW t \in Threads, pc[t] # "asleep",
         NEW l, l # "asleep", pc' = [pc EXCEPT ![t] = l]
  PROVE  ListedAsleep'
  <1>1. Asleep' = Asleep
    BY DEF TypeOK, Asleep
  <1>2. Woken' = Woken
    BY DEF Woken
  <1> QED BY <1>1, <1>2 DEF ListedAsleep

LEMMA StepBase == BaseInv /\ [Next]_vars => BaseInv'
  <1> SUFFICES ASSUME BaseInv, [Next]_vars PROVE BaseInv'
    OBVIOUS
  <1> DEFINE Locks == SpinHeld /\ WcLockHeld /\ LockHeld /\ TurnsLeft
  <1>0. Nobody \notin Threads /\ NCVLOOPS \in Nat \ {0}
    BY CvAssumption
  <1>1. ASSUME NEW t \in Threads, LockAcquire(t) \/ NotMyTurn(t) PROVE BaseInv'
    <2>1. TypeOK'
      BY <1>1 DEF BaseInv, LockAcquire, NotMyTurn, At, Goto, TypeOK, Labels
    <2>2. Locks'
      <3> USE <1>0 DEF BaseInv, At, Goto, TypeOK, SpinHeld, WcLockHeld, LockHeld, TurnsLeft
      <3>1. CASE LockAcquire(t) BY <3>1 DEF LockAcquire
      <3>2. CASE NotMyTurn(t) BY <3>2 DEF NotMyTurn
      <3> QED BY <1>1, <3>1, <3>2
    <2>3. ListedAsleep'
      BY <1>1, ListedKeep DEF BaseInv, LockAcquire, NotMyTurn, At, Goto
    <2> QED BY <2>1, <2>2, <2>3 DEF BaseInv
  <1>2. ASSUME NEW t \in Threads, MyTurn(t) PROVE BaseInv'
    <2>1. TypeOK'
      BY <1>2, TurnInRange DEF BaseInv, MyTurn, At, Goto, TypeOK, Labels
    <2>2. Locks'
      BY <1>0, <1>2 DEF BaseInv, MyTurn, At, Goto, TypeOK, SpinHeld, WcLockHeld, LockHeld, TurnsLeft
    <2>3. ListedAsleep'
      BY <1>2, ListedKeep DEF BaseInv, MyTurn, At, Goto
    <2> QED BY <2>1, <2>2, <2>3 DEF BaseInv
  <1>3. ASSUME NEW t \in Threads, LockRelease(t) PROVE BaseInv'
    <2>0. loops[t] \in Nat /\ loops[t] < NCVLOOPS
      BY <1>0, <1>3 DEF BaseInv, LockRelease, At, TypeOK, TurnsLeft
    <2>1. TypeOK'
      BY <1>0, <1>3, <2>0 DEF BaseInv, LockRelease, At, Goto, TypeOK, Labels
    <2>2. Locks'
      BY <1>0, <1>3, <2>0 DEF BaseInv, LockRelease, At, Goto, TypeOK, SpinHeld, WcLockHeld, LockHeld, TurnsLeft
    <2>3. ListedAsleep'
      <3>1. PICK l \in {"lock_acquire", "done"} : pc' = [pc EXCEPT ![t] = l]
        BY <1>3 DEF LockRelease, Goto
      <3> QED BY <1>3, <3>1, ListedKeep DEF BaseInv, LockRelease, At
    <2> QED BY <2>1, <2>2, <2>3 DEF BaseInv
  <1>4. ASSUME NEW t \in Threads, Cw_spin(t) \/ Cw_release(t) \/ Cw_wchan_lock(t) \/ Cw_unspin(t) PROVE BaseInv'
    <2>1. TypeOK'
      <3> USE DEF BaseInv, At, Goto, TypeOK, Labels
      <3>1. CASE Cw_spin(t) BY <3>1 DEF Cw_spin
      <3>2. CASE Cw_release(t) BY <3>2 DEF Cw_release
      <3>3. CASE Cw_wchan_lock(t) BY <3>3 DEF Cw_wchan_lock
      <3>4. CASE Cw_unspin(t) BY <3>4 DEF Cw_unspin
      <3> QED BY <1>4, <3>1, <3>2, <3>3, <3>4
    <2>2. Locks'
      <3> USE <1>0 DEF BaseInv, At, Goto, TypeOK, SpinHeld, WcLockHeld, LockHeld, TurnsLeft
      <3>1. CASE Cw_spin(t) BY <3>1 DEF Cw_spin
      <3>2. CASE Cw_release(t) BY <3>2 DEF Cw_release
      <3>3. CASE Cw_wchan_lock(t) BY <3>3 DEF Cw_wchan_lock
      <3>4. CASE Cw_unspin(t) BY <3>4 DEF Cw_unspin
      <3> QED BY <1>4, <3>1, <3>2, <3>3, <3>4
    <2>3. ListedAsleep'
      BY <1>4, ListedKeep DEF BaseInv, Cw_spin, Cw_release, Cw_wchan_lock, Cw_unspin, At, Goto
    <2> QED BY <2>1, <2>2, <2>3 DEF BaseInv
  <1>5. ASSUME NEW t \in Threads, Cw_sleep(t) PROVE BaseInv'
    <2>0. wc_threads \in Seq(Threads) /\ wc_threads' = Append(wc_threads, t)
      BY <1>5 DEF BaseInv, Cw_sleep, TypeOK
    <2>1. TypeOK'
      BY <1>5, <2>0 DEF BaseInv, Cw_sleep, At, Goto, TypeOK, Labels
    <2>2. Locks'
      BY <1>0, <1>5 DEF BaseInv, Cw_sleep, At, Goto, TypeOK, SpinHeld, WcLockHeld, LockHeld, TurnsLeft
    <2>3. Woken' = Woken \union {t}
      <3>1. /\ Len(wc_threads) \in Nat /\ Len(wc_threads') = Len(wc_threads) + 1
            /\ wc_threads'[Len(wc_threads) + 1] = t
            /\ \A i \in 1..Len(wc_threads) : wc_threads'[i] = wc_threads[i]
        BY <2>0
      <3>2. \A i : i \in 1..(Len(wc_threads) + 1) <=> i \in 1..Len(wc_threads) \/ i = Len(wc_threads) + 1
        BY <3>1
      <3>3. ASSUME NEW u PROVE u \in Woken' <=> u \in Woken \union {t}
        BY <3>1, <3>2 DEF Woken
      <3> QED BY <3>3
    <2>4. ListedAsleep'
      BY <1>5, <2>3 DEF BaseInv, Cw_sleep, At, Goto, TypeOK, ListedAsleep, Asleep
    <2> QED BY <2>1, <2>2, <2>4 DEF BaseInv
  <1>6. ASSUME NEW t \in Threads, Broadcast(t) PROVE BaseInv'
    <2>0. Woken \subseteq Threads /\ \A u \in Woken : pc[u] = "asleep"
      BY DEF BaseInv, ListedAsleep, Asleep
    <2>1. TypeOK'
      BY <1>6 DEF BaseInv, Broadcast, At, TypeOK, Labels
    <2>2. Locks'
      BY <1>0, <1>6, <2>0 DEF BaseInv, Broadcast, At, TypeOK, SpinHeld, WcLockHeld, LockHeld, TurnsLeft
    <2>3. Woken' = {}
      BY <1>6 DEF Broadcast, Woken
    <2>4. Asleep' = {}
      BY <1>6 DEF Broadcast, BaseInv, ListedAsleep, Asleep
    <2> QED BY <2>1, <2>2, <2>3, <2>4 DEF BaseInv, ListedAsleep
  <1>7. CASE UNCHANGED vars
    BY <1>7 DEF vars, BaseInv, TypeOK, SpinHeld, WcLockHeld, LockHeld, TurnsLeft, ListedAsleep, Asleep, Woken
  <1> QED BY <1>1, <1>2, <1>3, <1>4, <1>5, <1>6, <1>7 DEF Next, Step

LEMMA BaseInvariance == Spec => []BaseInv
  BY InitBase, StepBase, PTL DEF Spec

-----------------------------------------------------------------------------
(* The theorems *)

\* The variables of cvtest and of the condition variable keep their types; no
\* thread takes more than NCVLOOPS turns.
THEOREM TypeCorrect == Spec => []TypeOK
  <1>1. BaseInv => TypeOK
    BY DEF BaseInv
  <1> QED BY <1>1, BaseInvariance, PTL

\* The code between lock_acquire and lock_release runs in one thread at a time,
\* before and after cv_wait and however many threads cv_broadcast wakes, on any
\* assignment of threads to CPUs.
THEOREM MonitorExcludes == Spec => []MonitorExclusion
  <1>1. BaseInv => MonitorExclusion
    BY DEF BaseInv, LockHeld, MonitorExclusion
  <1> QED BY <1>1, BaseInvariance, PTL

\* A thread whose CPU everybody shares steps alone while spinlocks are held.
LEMMA AloneWithSpinlock ==
  ASSUME OneCpu, NEW t \in Threads, MayRun(t), NEW u \in Threads, u \in {cv_spinlock, wc_lock}
  PROVE  u = t
  BY DEF OneCpu, MayRun

LEMMA StepNoneLost ==
  ASSUME OneCpu, BaseInv, StillNotMyTurn, NoLostBroadcast, [Next]_vars
  PROVE  (StillNotMyTurn /\ NoLostBroadcast)'
  <1> DEFINE Goal == StillNotMyTurn /\ NoLostBroadcast
  <1>0. Nobody \notin Threads /\ TypeOK /\ testval1 \in Threads
    BY CvAssumption DEF BaseInv, TypeOK
  <1>1. ASSUME NEW t \in Threads, LockAcquire(t) \/ NotMyTurn(t) \/ LockRelease(t) PROVE Goal'
    BY <1>0, <1>1 DEF LockAcquire, NotMyTurn, LockRelease, At, Goto, TypeOK, StillNotMyTurn, NoLostBroadcast
  <1>2. ASSUME NEW t \in Threads, MyTurn(t) PROVE Goal'
    <2>1. holder = t /\ MayRun(t) /\ pc[t] = "test"
      BY <1>2 DEF BaseInv, LockHeld, MyTurn, At
    <2>2. ASSUME NEW u \in Threads, u # t
          PROVE  pc[u] \notin {"cw_spin", "cw_release", "cw_wchan_lock", "cw_unspin", "cw_sleep"}
      <3>1. pc[u] \notin {"cw_spin", "cw_release"}
        BY <2>1, <2>2 DEF BaseInv, LockHeld
      <3>2. u \notin {cv_spinlock, wc_lock}
        BY <2>1, <2>2, AloneWithSpinlock
      <3> QED BY <3>1, <3>2 DEF BaseInv, SpinHeld, WcLockHeld
    <2>3. pc'[t] = "broadcast" /\ \A u \in Threads : u # t => pc'[u] = pc[u]
      BY <1>0, <1>2 DEF MyTurn, Goto, TypeOK
    <2> QED BY <2>2, <2>3 DEF StillNotMyTurn, NoLostBroadcast
  <1>3. ASSUME NEW t \in Threads, Cw_spin(t) \/ Cw_release(t) \/ Cw_wchan_lock(t) \/ Cw_unspin(t) PROVE Goal'
    BY <1>0, <1>3 DEF Cw_spin, Cw_release, Cw_wchan_lock, Cw_unspin, At, Goto, TypeOK, StillNotMyTurn, NoLostBroadcast
  <1>4. ASSUME NEW t \in Threads, Cw_sleep(t) PROVE Goal'
    BY <1>0, <1>4 DEF Cw_sleep, At, Goto, TypeOK, StillNotMyTurn, NoLostBroadcast
  <1>5. ASSUME NEW t \in Threads, Broadcast(t) PROVE Goal'
    <2>1. \A u \in Threads : pc'[u] # "asleep"
      BY <1>5 DEF BaseInv, ListedAsleep, Asleep, Broadcast
    <2>2. StillNotMyTurn'
      BY <1>5 DEF Broadcast, StillNotMyTurn
    <2> QED BY <1>0, <1>5, <2>1, <2>2 DEF Broadcast, NoLostBroadcast
  <1>6. CASE UNCHANGED vars
    BY <1>6 DEF vars, StillNotMyTurn, NoLostBroadcast
  <1> QED BY <1>1, <1>2, <1>3, <1>4, <1>5, <1>6 DEF Next, Step

\* On one CPU cv_wait is atomic for its clients, for any number of threads: the
\* thread whose turn it is sleeps only while its broadcast is still to come.
\* The gap between lock_release and wchan_lock in cv_wait is closed by
\* spinlock_acquire, which keeps interrupts off.
THEOREM NoneLostOnOneCpu == ASSUME OneCpu PROVE Spec => []NoLostBroadcast
  <1>1. Init => StillNotMyTurn /\ NoLostBroadcast
    <2>1. NTHREADS - 1 \in Threads
      BY CvAssumption DEF Threads
    <2> QED BY <2>1 DEF Init, StillNotMyTurn, NoLostBroadcast
  <1>2. BaseInv /\ (StillNotMyTurn /\ NoLostBroadcast) /\ [Next]_vars => (StillNotMyTurn /\ NoLostBroadcast)'
    BY StepNoneLost
  <1> QED BY <1>1, <1>2, BaseInvariance, PTL DEF Spec

-----------------------------------------------------------------------------
(* The reader-writer lock *)

AllPairs == RWThreads \X (1..max_readers)

Permits == {p \in AllPairs : p[2] =< got[p[1]]}

-----------------------------------------------------------------------------
(* Its inductive invariant *)

\* Every permit is free or with a thread.
PermitsConserved == sem_resource + Cardinality(Permits) = max_readers

\* How many permits a thread has at each point of its operation.
GotByPc ==
  \A t \in RWThreads :
    /\ rwpc[t] \in {"idle", "ar_lock", "ar_P", "aw_lock"} => got[t] = 0
    /\ rwpc[t] \in {"ar_unlock", "reading"} => got[t] = 1
    /\ rwpc[t] = "aw_P" => got[t] < max_readers
    /\ rwpc[t] \in {"aw_unlock", "writing"} => got[t] = max_readers
    /\ rwpc[t] = "rw_V" => got[t] > 0

RWInv == RWTypeOK /\ PermitsConserved /\ GotByPc

-----------------------------------------------------------------------------
(* The permits as a finite set of pairs *)

LEMMA PairsFinite ==
  IsFiniteSet(AllPairs) /\ (\A S \in SUBSET AllPairs : IsFiniteSet(S) /\ Cardinality(S) \in Nat)
  <1>1. IsFiniteSet(1..max_readers) /\ IsFiniteSet(RWThreads)
    <2>1. IsFiniteSet(RWThreads)
      BY RWAssumption
    <2> QED BY <2>1, FS_Interval, RWAssumption
  <1>2. IsFiniteSet(AllPairs)
    BY <1>1, FS_Product DEF AllPairs
  <1> QED BY <1>2, FS_Subset, FS_CardinalityType

\* A thread that takes a permit adds one pair, a thread that returns one
\* removes one.
LEMMA PermitTaken ==
  ASSUME RWTypeOK, NEW t \in RWThreads, got[t] < max_readers, got' = [got EXCEPT ![t] = @ + 1]
  PROVE  Cardinality(Permits') = Cardinality(Permits) + 1
  <1> DEFINE new == <<t, got[t] + 1>>
  <1>1. new \in AllPairs /\ new \notin Permits
    BY RWAssumption DEF RWTypeOK, AllPairs, Permits
  <1>2. Permits' = Permits \union {new}
    <2>1. ASSUME NEW p \in AllPairs PROVE p[2] =< got'[p[1]] <=> (p[2] =< got[p[1]] \/ p = new)
      <3>1. PICK u \in RWThreads, i \in 1..max_readers : p = <<u, i>>
        BY DEF AllPairs
      <3>2. CASE u = t
        BY <3>1, <3>2, RWAssumption DEF RWTypeOK
      <3>3. CASE u # t
        BY <3>1, <3>3, RWAssumption DEF RWTypeOK
      <3> QED BY <3>2, <3>3
    <2> QED BY <2>1, <1>1 DEF Permits
  <1>3. IsFiniteSet(Permits)
    BY PairsFinite DEF Permits
  <1> HIDE DEF new
  <1> QED BY <1>1, <1>2, <1>3, FS_AddElement

LEMMA PermitReturned ==
  ASSUME RWTypeOK, NEW t \in RWThreads, got[t] > 0, got' = [got EXCEPT ![t] = @ - 1]
  PROVE  Cardinality(Permits') = Cardinality(Permits) - 1
  <1> DEFINE old == <<t, got[t]>>
  <1>1. old \in Permits
    BY RWAssumption DEF RWTypeOK, AllPairs, Permits
  <1>2. Permits' = Permits \ {old}
    <2>1. ASSUME NEW p \in AllPairs PROVE p[2] =< got'[p[1]] <=> (p[2] =< got[p[1]] /\ p # old)
      <3>1. PICK u \in RWThreads, i \in 1..max_readers : p = <<u, i>>
        BY DEF AllPairs
      <3>2. CASE u = t
        BY <3>1, <3>2, RWAssumption DEF RWTypeOK
      <3>3. CASE u # t
        BY <3>1, <3>3, RWAssumption DEF RWTypeOK
      <3> QED BY <3>2, <3>3
    <2> QED BY <2>1 DEF Permits
  <1>3. IsFiniteSet(Permits)
    BY PairsFinite DEF Permits
  <1> HIDE DEF old
  <1> QED BY <1>1, <1>2, <1>3, FS_RemoveElement

\* A thread with every permit leaves none to others.
LEMMA WriterHasAll ==
  ASSUME RWInv, NEW t \in RWThreads, got[t] = max_readers
  PROVE  sem_resource = 0 /\ (\A u \in RWThreads : u # t => got[u] = 0)
  <1> DEFINE mine == {t} \X (1..max_readers)
  <1>1. IsFiniteSet(mine) /\ Cardinality(mine) = max_readers
    <2>1. IsFiniteSet(1..max_readers) /\ Cardinality(1..max_readers) = max_readers
      BY FS_Interval, RWAssumption
    <2>2. IsFiniteSet({t}) /\ Cardinality({t}) = 1
      BY FS_Singleton
    <2> QED BY <2>1, <2>2, FS_Product, RWAssumption
  <1>2. mine \in SUBSET Permits
    BY RWAssumption DEF Permits, AllPairs, RWInv, RWTypeOK
  <1>3. IsFiniteSet(Permits) /\ Cardinality(Permits) \in Nat
    BY PairsFinite DEF Permits
  <1> HIDE DEF mine
  <1>4. /\ Cardinality(mine) =< Cardinality(Permits)
        /\ Cardinality(mine) = Cardinality(Permits) => mine = Permits
    BY <1>2, <1>3, FS_Subset
  <1>5. sem_resource = 0 /\ mine = Permits
    BY <1>1, <1>3, <1>4, RWAssumption DEF RWInv, RWTypeOK, PermitsConserved
  <1>6. ASSUME NEW u \in RWThreads, u # t, got[u] # 0 PROVE FALSE
    <2>1. <<u, 1>> \in Permits
      BY <1>6, RWAssumption DEF Permits, AllPairs, RWInv, RWTypeOK
    <2> QED BY <2>1, <1>5, <1>6 DEF mine
  <1> QED BY <1>5, <1>6

-----------------------------------------------------------------------------
LEMMA InitRW == RWInit => RWInv
  <1> SUFFICES ASSUME RWInit PROVE RWInv
    OBVIOUS
  <1>1. Permits = {}
    BY RWAssumption DEF RWInit, Permits, AllPairs
  <1>2. PermitsConserved
    BY <1>1, FS_EmptySet, RWAssumption DEF RWInit, PermitsConserved
  <1> QED BY <1>2, RWAssumption DEF RWInit, RWInv, RWTypeOK, GotByPc, RWLabels

LEMMA StepRW == RWInv /\ [RWNext]_rwvars => RWInv'
  <1> SUFFICES ASSUME RWInv, [RWNext]_rwvars PROVE RWInv'
    OBVIOUS
  <1> USE RWAssumption DEF RWInv, RWTypeOK, GotByPc, RWLabels, RWGoto
  <1>0. Cardinality(Permits) \in Nat
    BY PairsFinite DEF Permits
  <1>1. ASSUME NEW t \in RWThreads, Call(t) PROVE RWInv'
    BY <1>1 DEF Call, PermitsConserved, Permits, AllPairs
  <1>2. ASSUME NEW t \in RWThreads, Ar_lock(t) \/ Ar_unlock(t) \/ Aw_lock(t) \/ Aw_unlock(t) PROVE RWInv'
    <2>1. PermitsConserved'
      BY <1>2 DEF Ar_lock, Ar_unlock, Aw_lock, Aw_unlock, PermitsConserved, Permits, AllPairs
    <2>2. CASE Ar_lock(t)
      BY <2>1, <2>2 DEF Ar_lock
    <2>3. CASE Ar_unlock(t)
      BY <2>1, <2>3 DEF Ar_unlock
    <2>4. CASE Aw_lock(t)
      BY <2>1, <2>4 DEF Aw_lock
    <2>5. CASE Aw_unlock(t)
      BY <2>1, <2>5 DEF Aw_unlock
    <2> QED BY <1>2, <2>2, <2>3, <2>4, <2>5
  <1>3. ASSUME NEW t \in RWThreads, Ar_P(t) \/ Aw_P(t) PROVE RWInv'
    <2>1. got[t] < max_readers /\ P(t)
      BY <1>3 DEF Ar_P, Aw_P
    <2>2. Cardinality(Permits') = Cardinality(Permits) + 1
      BY <2>1, PermitTaken DEF P
    <2>3. PermitsConserved'
      BY <1>0, <2>1, <2>2 DEF P, PermitsConserved
    <2>4. RWTypeOK' /\ GotByPc'
      BY <1>3, <2>1 DEF P, Ar_P, Aw_P
    <2> QED BY <2>3, <2>4
  <1>4. ASSUME NEW t \in RWThreads, ReleaseRead(t) \/ ReleaseWrite(t) PROVE RWInv'
    <2>1. got[t] > 0 /\ V(t)
      BY <1>4 DEF ReleaseRead, ReleaseWrite
    <2>2. Cardinality(Permits') = Cardinality(Permits) - 1
      BY <2>1, PermitReturned DEF V
    <2>2a. Cardinality(Permits) > 0
      <3>1. <<t, 1>> \in Permits
        BY <2>1 DEF Permits, AllPairs
      <3>2. IsFiniteSet(Permits)
        BY PairsFinite DEF Permits
      <3> QED BY <3>1, <3>2, <1>0, FS_EmptySet
    <2>3. PermitsConserved'
      BY <1>0, <2>1, <2>2 DEF V, PermitsConserved
    <2>4. sem_resource' \in 0..max_readers
      BY <1>0, <2>1, <2>2a DEF V, PermitsConserved
    <2>5. CASE ReleaseRead(t)
      BY <2>3, <2>4, <2>5 DEF V, ReleaseRead
    <2>6. CASE ReleaseWrite(t)
      <3>1. CASE got[t] > 1
        BY <2>3, <2>4, <2>6, <3>1 DEF V, ReleaseWrite
      <3>2. CASE got[t] = 1
        BY <2>3, <2>4, <2>6, <3>2 DEF V, ReleaseWrite
      <3> QED BY <2>1, <3>1, <3>2
    <2> QED BY <1>4, <2>5, <2>6
  <1>5. CASE UNCHANGED rwvars
    BY <1>5 DEF rwvars, PermitsConserved, Permits, AllPairs
  <1> QED BY <1>1, <1>2, <1>3, <1>4, <1>5 DEF RWNext, RWStep

LEMMA RWInvariance == RWSpec => []RWInv
  BY InitRW, StepRW, PTL DEF RWSpec

-----------------------------------------------------------------------------
(* Its theorems *)

\* Every variable of rwlock_acquire_* and rwlock_release_* keeps its type; the
\* semaphore's count never exceeds max_readers.
THEOREM RWTypeCorrect == RWSpec => []RWTypeOK
  <1>1. RWInv => RWTypeOK
    BY DEF RWInv
  <1> QED BY <1>1, RWInvariance, PTL

\* rwlock_acquire_write excludes every reader and every other writer until
\* rwlock_release_write begins, for every number of threads and permits.
THEOREM WriterIsAlone == RWSpec => []WriterExcludesAll
  <1>1. RWInv => WriterExcludesAll
    <2> SUFFICES ASSUME RWInv, NEW t \in RWThreads, NEW u \in RWThreads,
                        rwpc[t] = "writing", rwpc[u] \in {"reading", "writing"}, t # u
                 PROVE  FALSE
      BY DEF WriterExcludesAll
    <2>1. got[t] = max_readers /\ got[u] # 0
      BY RWAssumption DEF RWInv, GotByPc
    <2> QED BY <2>1, WriterHasAll
  <1> QED BY <1>1, RWInvariance, PTL

\* Partial acquisitions and releases lose no permit and invent none: when no
\* thread is inside the lock's functions or sections, all permits are free.
THEOREM PermitsComeBack == RWSpec => []AllPermitsBack
  <1>1. RWInv => AllPermitsBack
    <2> SUFFICES ASSUME RWInv, \A t \in RWThreads : rwpc[t] = "idle" PROVE sem_resource = max_readers
      BY DEF AllPermitsBack
    <2>1. Permits = {}
      BY RWAssumption DEF RWInv, GotByPc, Permits, AllPairs
    <2> QED BY <2>1, FS_EmptySet, RWAssumption DEF RWInv, PermitsConserved, RWTypeOK
  <1> QED BY <1>1, RWInvariance, PTL
==============================================================================
