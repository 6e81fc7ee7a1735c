------------------------------- MODULE RWLock -------------------------------
(***************************************************************************)
(* The reader-writer lock of kern/thread/synch.c: a semaphore of          *)
(* max_readers permits, one for a reader, all of them for a writer,        *)
(* taken and given back one at a time; lk_read and lk_write let one thread *)
(* at a time collect permits for reading and for writing.  Locks and       *)
(* semaphore are the atomic ones of AbstractLock and AbstractSemaphore.    *)
(* Names shared with the other primitives of synch.c begin with RW here,   *)
(* so that SynchProofs can extend this module and CondVar.                 *)
(***************************************************************************)
EXTENDS Naturals, FiniteSets

CONSTANTS RWThreads,    \* the threads that use the lock
          max_readers,  \* 30 in rwlock_create
          MaxRounds,    \* bound: times a thread takes the lock
          NoThread

ASSUME RWAssumption == /\ max_readers \in Nat \ {0}
                       /\ MaxRounds \in Nat
                       /\ NoThread \notin RWThreads
                       /\ IsFiniteSet(RWThreads)

VARIABLES sem_resource,  \* free permits
          lk_read,       \* holder of lk_read
          lk_write,      \* holder of lk_write
          got,           \* got[t]: permits t has, the loop counter of the write operations
          rounds,        \* rounds[t]: acquisitions t has begun
          rwpc           \* where each thread is

rwvars == <<sem_resource, lk_read, lk_write, got, rounds, rwpc>>

RWLabels == {"idle", "ar_lock", "ar_P", "ar_unlock", "reading",
             "aw_lock", "aw_P", "aw_unlock", "writing", "rw_V"}

RWInit == /\ sem_resource = max_readers
          /\ lk_read = NoThread
          /\ lk_write = NoThread
          /\ got = [t \in RWThreads |-> 0]
          /\ rounds = [t \in RWThreads |-> 0]
          /\ rwpc = [t \in RWThreads |-> "idle"]

RWGoto(t, l) == rwpc' = [rwpc EXCEPT ![t] = l]

P(t) == /\ sem_resource > 0
        /\ sem_resource' = sem_resource - 1
        /\ got' = [got EXCEPT ![t] = @ + 1]

V(t) == /\ sem_resource' = sem_resource + 1
        /\ got' = [got EXCEPT ![t] = @ - 1]

\* A thread calls rwlock_acquire_read or rwlock_acquire_write.
Call(t) == /\ rwpc[t] = "idle"
           /\ rounds[t] < MaxRounds
           /\ rounds' = [rounds EXCEPT ![t] = @ + 1]
           /\ RWGoto(t, "ar_lock") \/ RWGoto(t, "aw_lock")
           /\ UNCHANGED <<sem_resource, lk_read, lk_write, got>>

-----------------------------------------------------------------------------
(* rwlock_acquire_read, rwlock_release_read *)

Ar_lock(t) == /\ rwpc[t] = "ar_lock"
              /\ lk_read = NoThread
              /\ lk_read' = t
              /\ RWGoto(t, "ar_P")
              /\ UNCHANGED <<sem_resource, lk_write, got, rounds>>

Ar_P(t) == /\ rwpc[t] = "ar_P"
           /\ P(t)
           /\ RWGoto(t, "ar_unlock")
           /\ UNCHANGED <<lk_read, lk_write, rounds>>

Ar_unlock(t) == /\ rwpc[t] = "ar_unlock"
                /\ lk_read' = NoThread
                /\ RWGoto(t, "reading")
                /\ UNCHANGED <<sem_resource, lk_write, got, rounds>>

ReleaseRead(t) == /\ rwpc[t] = "reading"
                  /\ V(t)
                  /\ RWGoto(t, "idle")
                  /\ UNCHANGED <<lk_read, lk_write, rounds>>

-----------------------------------------------------------------------------
(* rwlock_acquire_write, rwlock_release_write *)

\* Mutant: writers collect permits without taking lk_write.
Aw_lock_omitted(t) == /\ rwpc[t] = "aw_lock"
                      /\ RWGoto(t, "aw_P")
                      /\ UNCHANGED <<sem_resource, lk_read, lk_write, got, rounds>>

Aw_lock(t) == /\ rwpc[t] = "aw_lock"
              /\ lk_write = NoThread
              /\ lk_write' = t
              /\ RWGoto(t, "aw_P")
              /\ UNCHANGED <<sem_resource, lk_read, got, rounds>>

\* Mutant: a writer is content with one permit less.
Aw_P_one_less(t) == /\ rwpc[t] = "aw_P"
                    /\ P(t)
                    /\ RWGoto(t, IF got[t] + 1 < max_readers - 1 THEN "aw_P" ELSE "aw_unlock")
                    /\ UNCHANGED <<lk_read, lk_write, rounds>>

\* for (i = 0; i < max_readers; i++) P(sem_resource): one iteration.
Aw_P(t) == /\ rwpc[t] = "aw_P"
           /\ P(t)
           /\ RWGoto(t, IF got[t] + 1 < max_readers THEN "aw_P" ELSE "aw_unlock")
           /\ UNCHANGED <<lk_read, lk_write, rounds>>

Aw_unlock(t) == /\ rwpc[t] = "aw_unlock"
                /\ lk_write' = NoThread
                /\ RWGoto(t, "writing")
                /\ UNCHANGED <<sem_resource, lk_read, got, rounds>>

\* for (i = 0; i < max_readers; i++) V(sem_resource): one iteration; the first
\* one ends the section.
ReleaseWrite(t) == /\ rwpc[t] \in {"writing", "rw_V"}
                   /\ V(t)
                   /\ RWGoto(t, IF got[t] > 1 THEN "rw_V" ELSE "idle")
                   /\ UNCHANGED <<lk_read, lk_write, rounds>>

-----------------------------------------------------------------------------
RWStep(t) == \/ Ar_lock(t) \/ Ar_P(t) \/ Ar_unlock(t) \/ ReleaseRead(t)
             \/ Aw_lock(t) \/ Aw_P(t) \/ Aw_unlock(t) \/ ReleaseWrite(t)

RWNext == \E t \in RWThreads : Call(t) \/ RWStep(t)

\* RWThreads inside the lock's functions are scheduled, and sections end.
RWFairness == \A t \in RWThreads : WF_rwvars(RWStep(t))

RWSpec == RWInit /\ [][RWNext]_rwvars /\ RWFairness

-----------------------------------------------------------------------------
(* Properties *)

\* Every variable has its type; no more permits exist than were created.
RWTypeOK == /\ sem_resource \in 0..max_readers
            /\ {lk_read, lk_write} \subseteq RWThreads \union {NoThread}
            /\ got \in [RWThreads -> 0..max_readers]
            /\ rounds \in [RWThreads -> 0..MaxRounds]
            /\ rwpc \in [RWThreads -> RWLabels]

\* A writer shares its section with nobody, although permits are collected and
\* returned one by one and another writer may already be collecting.
WriterExcludesAll ==
  \A t, u \in RWThreads : rwpc[t] = "writing" /\ rwpc[u] \in {"reading", "writing"} => t = u

\* Permits are neither lost nor invented across partial acquisitions and
\* releases: when nobody uses the lock, all of them are back.
AllPermitsBack == (\A t \in RWThreads : rwpc[t] = "idle") => sem_resource = max_readers

\* Two collectors never hold each other up: whoever asks for the lock gets it,
\* when every section ends and threads ask for it finitely often.
EveryCallServed ==
  \A t \in RWThreads : /\ (rwpc[t] = "ar_lock") ~> (rwpc[t] = "reading")
                       /\ (rwpc[t] = "aw_lock") ~> (rwpc[t] = "writing")
=============================================================================
