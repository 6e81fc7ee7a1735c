------------------------------ MODULE Scheduler ------------------------------
(***************************************************************************)
(* The multiprocessor thread system of OS/161 (kern/thread/thread.c,       *)
(* clock.c, threadlist.c): the run queue of each CPU, thread_switch with   *)
(* its idle loop, wait channels, zombies and exorcise, the timer           *)
(* interrupt with thread_consider_migration, and the interprocessor        *)
(* interrupt that ends a CPU's idling.                                     *)
(*                                                                         *)
(* A CPU always runs on the stack of its curthread: an idle one, and the   *)
(* interrupt handlers it takes, on the stack of a thread that has already  *)
(* gone to sleep, died, or been put back on a run queue.  One step is what *)
(* happens under one hold of a spinlock; "pick" is the long hold of        *)
(* c_runqueue_lock, from placing curthread to choosing the next one.       *)
(***************************************************************************)
EXTENDS Integers, Sequences, FiniteSets, SequencesExt

CONSTANTS NumCpus,   \* cpuarray_num(&allcpus)
          Threads,   \* thread structures
          BootThread \* the thread cpu_create makes for each CPU

Cpus == 0 .. NumCpus - 1

ASSUME SchedulerAssumption ==
    /\ NumCpus \in Nat \ {0}
    /\ BootThread \in [Cpus -> Threads]
    /\ \A i, j \in Cpus : i # j => BootThread[i] # BootThread[j]

VARIABLES c_runqueue,  \* run queue of each CPU
          c_curthread, \* the thread whose stack the CPU is on
          c_isidle,    \* as in struct cpu
          c_zombies,   \* dead threads of each CPU
          c_ipi,       \* IPI_UNIDLE is pending
          mode,        \* what the CPU is doing
          wc_threads,  \* threads asleep on a wait channel
          t_state,     \* t_state, or "none" for a structure not in use
          t_cpu,       \* the CPU a thread belongs to
          held,        \* threads taken off the channel by code on this stack
          mig          \* locals of thread_consider_migration on each CPU

vars == <<c_runqueue, c_curthread, c_isidle, c_zombies, c_ipi, mode,
          wc_threads, t_state, t_cpu, held, mig>>

\* run: a thread, interrupts on; irq: a device interrupt of an idle CPU;
\* count, give: thread_consider_migration; yield: the timer interrupt about
\* to call thread_yield.
Modes == {"run", "pick", "exorcise", "idle", "irq", "count", "give", "yield"}

NoMig == [i |-> 0, my_count |-> 0, total |-> 0, share |-> 0, to_send |-> 0,
          victims |-> <<>>]

TypeOK ==
    /\ c_runqueue \in [Cpus -> Seq(Threads)]
    /\ c_curthread \in [Cpus -> Threads]
    /\ c_isidle \in [Cpus -> BOOLEAN] /\ c_ipi \in [Cpus -> BOOLEAN]
    /\ c_zombies \in [Cpus -> SUBSET Threads]
    /\ mode \in [Cpus -> Modes]
    /\ wc_threads \in Seq(Threads)
    /\ t_state \in [Threads -> {"none", "S_READY", "S_RUN", "S_SLEEP", "S_ZOMBIE"}]
    /\ t_cpu \in [Threads -> Cpus]
    /\ held \in [Threads -> Seq(Threads)]
    /\ mig \in [Cpus -> [i: 0 .. NumCpus, my_count: Nat, total: Nat, share: Nat,
                         to_send: Nat, victims: Seq(Threads)]]

\* The secondary CPUs have been started and run their boot threads.
Init ==
    /\ c_runqueue = [c \in Cpus |-> <<>>]
    /\ c_curthread = BootThread
    /\ c_isidle = [c \in Cpus |-> FALSE] /\ c_ipi = [c \in Cpus |-> FALSE]
    /\ c_zombies = [c \in Cpus |-> {}]
    /\ mode = [c \in Cpus |-> "run"]
    /\ wc_threads = <<>>
    /\ t_state = [t \in Threads |->
          IF \E c \in Cpus : BootThread[c] = t THEN "S_RUN" ELSE "none"]
    /\ t_cpu = [t \in Threads |->
          IF \E c \in Cpus : BootThread[c] = t
          THEN CHOOSE c \in Cpus : BootThread[c] = t ELSE 0]
    /\ held = [t \in Threads |-> <<>>]
    /\ mig = [c \in Cpus |-> NoMig]

----------------------------------------------------------------------------
Cur(c) == c_curthread[c]

\* c_runqueue_lock of c is free.
Unlocked(c) == mode[c] # "pick"

Go(c, m) == mode' = [mode EXCEPT ![c] = m]

----------------------------------------------------------------------------
(* thread_make_runnable.  Its caller on c holds the queue lock, or the     *)
(* lock is free.  An idle CPU is sent IPI_UNIDLE.                          *)

\* Mutant: the idle CPU is not interrupted.
MakeRunnableNoIpi(tc, t) ==
    /\ c_runqueue' = [c_runqueue EXCEPT ![tc] = Append(@, t)]
    /\ UNCHANGED c_ipi

MakeRunnable(tc, t) ==
    /\ c_runqueue' = [c_runqueue EXCEPT ![tc] = Append(@, t)]
    /\ c_ipi' = [c_ipi EXCEPT ![tc] = @ \/ c_isidle[tc]]

\* The second half of a wakeup: the target goes to the queue of its CPU.
thread_make_runnable(c) ==
    LET me == Cur(c)
        t  == Head(held[me])
    IN  /\ mode[c] \in {"run", "irq"} /\ held[me] # <<>>
        /\ Unlocked(t_cpu[t])
        /\ MakeRunnable(t_cpu[t], t)
        /\ held' = [held EXCEPT ![me] = Tail(@)]
        /\ UNCHANGED <<c_curthread, c_isidle, c_zombies, mode, wc_threads,
                       t_state, t_cpu, mig>>

\* thread_fork: the new thread starts on the CPU of its parent.
thread_fork(c) ==
    /\ mode[c] = "run" /\ held[Cur(c)] = <<>>
    /\ \E t \in Threads :
          /\ t_state[t] = "none"
          /\ t_state' = [t_state EXCEPT ![t] = "S_READY"]
          /\ t_cpu' = [t_cpu EXCEPT ![t] = c]
          /\ MakeRunnable(c, t)
    /\ UNCHANGED <<c_curthread, c_isidle, c_zombies, mode, wc_threads, held, mig>>

----------------------------------------------------------------------------
(* thread_switch.                                                          *)

\* curthread has been placed; the CPU counts as idle while it looks for
\* another.
Leave(c, state) ==
    /\ t_state' = [t_state EXCEPT ![Cur(c)] = state]
    /\ c_isidle' = [c_isidle EXCEPT ![c] = TRUE]
    /\ Go(c, "pick")

\* S_SLEEP: the channel is locked by the caller, and unlocked here.
wchan_sleep(c) ==
    /\ mode[c] = "run" /\ held[Cur(c)] = <<>>
    /\ wc_threads' = Append(wc_threads, Cur(c))
    /\ Leave(c, "S_SLEEP")
    /\ UNCHANGED <<c_runqueue, c_curthread, c_zombies, c_ipi, t_cpu, held, mig>>

\* S_ZOMBIE.  The thread that runs the menu never exits.
thread_exit(c) ==
    /\ mode[c] = "run" /\ held[Cur(c)] = <<>> /\ Cur(c) # BootThread[0]
    /\ c_zombies' = [c_zombies EXCEPT ![c] = @ \cup {Cur(c)}]
    /\ Leave(c, "S_ZOMBIE")
    /\ UNCHANGED <<c_runqueue, c_curthread, c_ipi, wc_threads, t_cpu, held, mig>>

\* Mutant: the timer switches threads on an idle CPU too.
thread_yieldWhenIdle(c) ==
    /\ mode[c] = "yield"
    /\ MakeRunnable(c, Cur(c))
    /\ Leave(c, "S_READY")
    /\ UNCHANGED <<c_curthread, c_zombies, wc_threads, t_cpu, held, mig>>

\* S_READY, at the end of hardclock.  On an idle CPU it returns at once, to
\* the idle loop, which takes the queue lock again; with nothing to run it
\* returns to the thread.
thread_yield(c) ==
    /\ mode[c] = "yield"
    /\ \/ /\ c_isidle[c]
          /\ Go(c, "pick")
          /\ UNCHANGED <<c_runqueue, c_ipi, c_isidle, t_state>>
       \/ /\ ~c_isidle[c] /\ c_runqueue[c] = <<>>
          /\ Go(c, "run")
          /\ UNCHANGED <<c_runqueue, c_ipi, c_isidle, t_state>>
       \/ /\ ~c_isidle[c] /\ c_runqueue[c] # <<>>
          /\ MakeRunnable(c, Cur(c))
          /\ Leave(c, "S_READY")
    /\ UNCHANGED <<c_curthread, c_zombies, wc_threads, t_cpu, held, mig>>

\* The next thread is chosen and switched to, and runs from the tail of
\* thread_switch, or in thread_startup; or the lock is released to idle.
PickNext(c) ==
    /\ mode[c] = "pick"
    /\ \/ /\ c_runqueue[c] = <<>>
          /\ Go(c, "idle")
          /\ UNCHANGED <<c_runqueue, c_curthread, c_isidle, t_state>>
       \/ /\ c_runqueue[c] # <<>>
          /\ LET next == Head(c_runqueue[c])
             IN  /\ c_curthread' = [c_curthread EXCEPT ![c] = next]
                 /\ t_state' = [t_state EXCEPT ![next] = "S_RUN"]
          /\ c_runqueue' = [c_runqueue EXCEPT ![c] = Tail(@)]
          /\ c_isidle' = [c_isidle EXCEPT ![c] = FALSE]
          /\ Go(c, "exorcise")
    /\ UNCHANGED <<c_zombies, c_ipi, wc_threads, t_cpu, held, mig>>

\* Interrupts are still off.
exorcise(c) ==
    /\ mode[c] = "exorcise"
    /\ t_state' = [t \in Threads |-> IF t \in c_zombies[c] THEN "none" ELSE t_state[t]]
    /\ c_zombies' = [c_zombies EXCEPT ![c] = {}]
    /\ Go(c, "run")
    /\ UNCHANGED <<c_runqueue, c_curthread, c_isidle, c_ipi, wc_threads,
                   t_cpu, held, mig>>

----------------------------------------------------------------------------
(* Wakeups: by the running thread, or by a device interrupt of an idle     *)
(* CPU.  The threads are off the channel before they are on a queue.       *)

Awaken(c, n) ==
    /\ wc_threads # <<>> /\ held[Cur(c)] = <<>>
    /\ \/ mode[c] = "run" /\ UNCHANGED mode
       \/ mode[c] = "idle" /\ Go(c, "irq")
    /\ held' = [held EXCEPT ![Cur(c)] = SubSeq(wc_threads, 1, n)]
    /\ wc_threads' = SubSeq(wc_threads, n + 1, Len(wc_threads))
    /\ UNCHANGED <<c_runqueue, c_curthread, c_isidle, c_zombies, c_ipi,
                   t_state, t_cpu, mig>>

wchan_wakeone(c) == Awaken(c, 1)
wchan_wakeall(c) == Awaken(c, Len(wc_threads))

\* The interrupt returns to the idle loop.
IrqReturn(c) ==
    /\ mode[c] = "irq" /\ held[Cur(c)] = <<>>
    /\ Go(c, "pick")
    /\ UNCHANGED <<c_runqueue, c_curthread, c_isidle, c_zombies, c_ipi,
                   wc_threads, t_state, t_cpu, held, mig>>

\* IPI_UNIDLE: the interrupt is all there is to it.
interprocessor_interrupt(c) ==
    /\ c_ipi[c]
    /\ \/ mode[c] = "run" /\ UNCHANGED mode
       \/ mode[c] = "idle" /\ Go(c, "pick")
    /\ c_ipi' = [c_ipi EXCEPT ![c] = FALSE]
    /\ UNCHANGED <<c_runqueue, c_curthread, c_isidle, c_zombies, wc_threads,
                   t_state, t_cpu, held, mig>>

----------------------------------------------------------------------------
(* hardclock: every MIGRATE_HARDCLOCKS ticks migration, then thread_yield. *)

hardclock(c) ==
    /\ mode[c] \in {"run", "idle"}
    /\ \E m \in {"count", "yield"} : Go(c, m)
    /\ UNCHANGED <<c_runqueue, c_curthread, c_isidle, c_zombies, c_ipi,
                   wc_threads, t_state, t_cpu, held, mig>>

DIVROUNDUP(a, b) == (a + b - 1) \div b

\* The queues are counted one after the other; the total may be out of date
\* when the last is.
MigrateCount(c) ==
    LET m == mig[c]
        n == Len(c_runqueue[m.i])
        counted == [m EXCEPT !.i = @ + 1, !.total = @ + n,
                             !.my_count = IF m.i = c THEN n ELSE @]
    IN  /\ mode[c] = "count" /\ m.i < NumCpus /\ Unlocked(m.i)
        /\ mig' = [mig EXCEPT ![c] = counted]
        /\ UNCHANGED <<c_runqueue, c_curthread, c_isidle, c_zombies, c_ipi,
                       mode, wc_threads, t_state, t_cpu, held>>

MigrateShare(m) == DIVROUNDUP(m.total, NumCpus)

\* The surplus leaves the tail of the CPU's own queue.
MigrateTake(c) ==
    LET m == mig[c]
        q == c_runqueue[c]
        share == MigrateShare(m)
        to_send == m.my_count - share
    IN  /\ mode[c] = "count" /\ m.i = NumCpus
        /\ \/ /\ m.my_count < share
              /\ mig' = [mig EXCEPT ![c] = NoMig]
              /\ Go(c, "yield")
              /\ UNCHANGED c_runqueue
           \/ /\ m.my_count >= share
              /\ mig' = [mig EXCEPT ![c] = [NoMig EXCEPT !.share = share,
                            !.to_send = to_send,
                            !.victims = SubSeq(q, Len(q) - to_send + 1, Len(q))]]
              /\ c_runqueue' = [c_runqueue EXCEPT ![c] =
                                   SubSeq(q, 1, Len(q) - to_send)]
              /\ Go(c, "give")
        /\ UNCHANGED <<c_curthread, c_isidle, c_zombies, c_ipi, wc_threads,
                       t_state, t_cpu, held>>

\* Mutant: curthread is migrated like any other thread.
NeverMeetsCur(c, j) == FALSE

\* curthread is among the first j victims ...
MeetsCur(c, j) == \E i \in 1 .. j : mig[c].victims[i] = Cur(c)

\* ... and is not sent with them but passed over, to the end of the list.
Sent(c, j) ==
    LET first == SubSeq(mig[c].victims, 1, j)
    IN  IF MeetsCur(c, j)
        THEN RemoveAt(first, CHOOSE i \in 1 .. j : first[i] = Cur(c)) ELSE first

Left(c, j) ==
    LET rest == SubSeq(mig[c].victims, j + 1, Len(mig[c].victims))
    IN  IF MeetsCur(c, j) THEN Append(rest, Cur(c)) ELSE rest

\* The inner loop ends after j victims: the queue of d has its share, or all
\* that were to be sent have been looked at.
LoopEnds(c, d, j) ==
    j = mig[c].to_send \/ Len(c_runqueue[d]) + Len(Sent(c, j)) >= mig[c].share

\* One turn of the outer loop.  The inner one, under the queue lock of d, goes
\* through j victims; it does not come to curthread again, since no more are
\* to be sent than there are in the list.
MigrateGive(c) ==
    LET m == mig[c]
        d == m.i
    IN  /\ mode[c] = "give" /\ d < NumCpus /\ m.to_send > 0
        /\ \/ /\ d = c
              /\ mig' = [mig EXCEPT ![c].i = @ + 1]
              /\ UNCHANGED <<c_runqueue, c_ipi, t_cpu>>
           \/ /\ d # c /\ Unlocked(d)
              /\ \E j \in 0 .. m.to_send :
                    /\ LoopEnds(c, d, j) /\ \A k \in 0 .. j - 1 : ~LoopEnds(c, d, k)
                    /\ c_runqueue' = [c_runqueue EXCEPT ![d] = @ \o Sent(c, j)]
                    /\ t_cpu' = [t \in Threads |->
                                    IF t \in Range(Sent(c, j)) THEN d ELSE t_cpu[t]]
                    /\ c_ipi' = [c_ipi EXCEPT ![d] = @ \/ (c_isidle[d] /\ Sent(c, j) # <<>>)]
                    /\ mig' = [mig EXCEPT ![c] = [m EXCEPT !.i = @ + 1, !.to_send = @ - j,
                                                          !.victims = Left(c, j)]]
        /\ UNCHANGED <<c_curthread, c_isidle, c_zombies, mode, wc_threads,
                       t_state, held>>

\* What is left goes back to the CPU's own queue.
MigrateBack(c) ==
    LET m == mig[c]
    IN  /\ mode[c] = "give" /\ (m.i = NumCpus \/ m.to_send = 0)
        /\ c_runqueue' = [c_runqueue EXCEPT ![c] = @ \o m.victims]
        /\ mig' = [mig EXCEPT ![c] = NoMig]
        /\ Go(c, "yield")
        /\ UNCHANGED <<c_curthread, c_isidle, c_zombies, c_ipi, wc_threads,
                       t_state, t_cpu, held>>

----------------------------------------------------------------------------
Next == \E c \in Cpus :
    \/ thread_make_runnable(c) \/ thread_fork(c)
    \/ wchan_sleep(c) \/ thread_exit(c) \/ thread_yield(c)
    \/ PickNext(c) \/ exorcise(c)
    \/ wchan_wakeone(c) \/ wchan_wakeall(c) \/ IrqReturn(c)
    \/ interprocessor_interrupt(c)
    \/ hardclock(c) \/ MigrateCount(c) \/ MigrateTake(c) \/ MigrateGive(c)
    \/ MigrateBack(c)

Spec == Init /\ [][Next]_vars

----------------------------------------------------------------------------
(* Properties.                                                             *)

\* No two CPUs are on the same stack, and none is on the stack of a thread
\* that exorcise has freed: what the comments in thread_consider_migration
\* (migrating curthread "can cause bad things to happen") and thread_destroy
\* ("freeing the stack you're actually using to run is ... inadvisable")
\* warn of.
StacksApart ==
    /\ \A c, d \in Cpus : c # d => Cur(c) # Cur(d)
    /\ \A c \in Cpus : t_state[Cur(c)] # "none"

\* The places a thread can be, and the threads that are in each.
Places == ({"cpu", "queue", "victims", "zombies"} \X Cpus)
            \cup ({"held"} \X Threads) \cup {<<"channel", "all">>}

At(place) ==
    LET x == place[2]
    IN  CASE place[1] = "cpu"     -> IF c_isidle[x] THEN {} ELSE {Cur(x)}
          [] place[1] = "queue"   -> Range(c_runqueue[x])
          [] place[1] = "victims" -> Range(mig[x].victims)
          [] place[1] = "zombies" -> c_zombies[x]
          [] place[1] = "held"    -> Range(held[x])
          [] OTHER                -> Range(wc_threads)

PlacesOf(t) == {p \in Places : t \in At(p)}

NoneQueuedTwice ==
    /\ \A c \in Cpus : IsInjective(c_runqueue[c]) /\ IsInjective(mig[c].victims)
    /\ \A t \in Threads : IsInjective(held[t])
    /\ IsInjective(wc_threads)

\* A thread is in exactly one place: running, on one run queue, among the
\* victims of one migration, on the wait channel, in the hands of one waker,
\* or a zombie; it is never lost and never queued twice.
EveryThreadInOnePlace ==
    /\ \A t \in Threads : Cardinality(PlacesOf(t)) = (IF t_state[t] = "none" THEN 0 ELSE 1)
    /\ NoneQueuedTwice

\* A CPU does not idle over a run queue with a thread in it, unless the
\* interrupt that will end that is pending.
NoThreadStranded ==
    \A c \in Cpus : mode[c] = "idle" /\ c_runqueue[c] # <<>> => c_ipi[c]
=============================================================================
