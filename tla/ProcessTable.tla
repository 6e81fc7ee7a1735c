---------------------------- MODULE ProcessTable ----------------------------
(***************************************************************************)
(* Processes: process_table, pid_counter, forkSem and execvSem of          *)
(* kern/syscall/process_syscalls.c, with the parts of thread_fork,         *)
(* thread_exit and exorcise (kern/thread/thread.c) that create and end     *)
(* processes, and the menu (kern/startup/menu.c: common_prog), which forks *)
(* programs from the kernel and waits for them.                            *)
(*                                                                         *)
(* Nothing but the two semaphores orders these functions: the table, the   *)
(* counter and the entries are read and written without a lock, with       *)
(* interrupts on, so a step is one access to one of them and threads       *)
(* interleave between steps.  P and V are atomic (AbstractSemaphore).      *)
(* A dereference of a NULL table entry is a kernel panic and ends the run. *)
(***************************************************************************)
EXTENDS Naturals, FiniteSets

CONSTANTS NThreads,     \* bound: threads ever created, the menu's included
          PROC_MAX,     \* __PROC_MAX, 100 in limits.h
          PID_MAX,      \* __PID_MAX, 32767 in limits.h
          ForkPermits,  \* initial count of forkSem, 8 in thread_bootstrap
          ExecPermits,  \* initial count of execvSem, 2 in thread_bootstrap
          MaxForks,     \* bound: calls of thread_fork
          MaxExecs,     \* bound: calls of sys_execv
          MaxForking,   \* bound: threads inside fork at one time
          NULL

\* struct process.
Entries == [pid : Nat, ppid : Nat, exitsem : Nat, exited : BOOLEAN]

ASSUME ProcAssumption == /\ {NThreads, PROC_MAX, PID_MAX} \subseteq Nat \ {0}
                         /\ {ForkPermits, ExecPermits, MaxForks, MaxExecs, MaxForking} \subseteq Nat
                         /\ NULL \notin Entries

Threads == 0..(NThreads - 1)
Menu == 0                        \* the boot thread; its pid is 0
Slots == 1..(PROC_MAX - 1)
NoSlot == 0

VARIABLES process_table,  \* process_table[i]: NULL or a struct process
          pid_counter,
          forkSem,        \* counts of the two semaphores
          execvSem,
          pid,            \* pid[t]: t->pid
          ptable_index,   \* ptable_index[t]: t->ptable_index
          child,          \* child[t]: newthread in a fork by t
          index,          \* index[t]: the table index a fork or waitpid by t works on
          reg,            \* reg[t]: the value t loaded for pid_counter++
          pc,
          programs,       \* history: programs the menu started, but for those not loaded
          forks, execs,   \* calls so far (MaxForks, MaxExecs)
          overlapped,     \* history: two threads were inside thread_fork at one time
          panicked        \* a NULL entry was dereferenced

vars == <<process_table, pid_counter, forkSem, execvSem, pid, ptable_index, child, index, reg, pc,
          programs, forks, execs, overlapped, panicked>>
sems == <<forkSem, execvSem>>
ids == <<pid, ptable_index>>
locals == <<child, index, reg>>
counts == <<programs, forks, execs, overlapped>>

ForkLabels == {"f_P", "f_scan", "f_load", "f_store", "f_pid", "f_init", "f_fields", "f_copy",
               "f_start", "f_ret", "f_undo"}
ExitLabels == {"x_execV", "x_exec2", "x_exited", "x_V"}
Labels == {"unborn", "new", "load", "run", "w_test", "w_P", "w_reap", "e_P", "e_V", "zombie", "freed"}
            \union ForkLabels \union ExitLabels

\* thread_bootstrap; the menu's thread is the only one.
Init == /\ process_table = [i \in Slots |-> NULL]
        /\ pid_counter = 0
        /\ forkSem = ForkPermits
        /\ execvSem = ExecPermits
        /\ pid = [t \in Threads |-> 0]
        /\ ptable_index = [t \in Threads |-> NoSlot]
        /\ child = [t \in Threads |-> t]
        /\ index = [t \in Threads |-> NoSlot]
        /\ reg = [t \in Threads |-> 0]
        /\ pc = [t \in Threads |-> IF t = Menu THEN "run" ELSE "unborn"]
        /\ programs = 0 /\ forks = 0 /\ execs = 0
        /\ overlapped = FALSE /\ panicked = FALSE

Goto(t, l) == pc' = [pc EXCEPT ![t] = l]

\* The local variables of t go out of scope.
Forget(t) == /\ child' = [child EXCEPT ![t] = t]
             /\ index' = [index EXCEPT ![t] = NoSlot]
             /\ reg' = [reg EXCEPT ![t] = 0]

\* A write to fields of process_table[i], or a panic.
Update(i, entry) == IF process_table[i] = NULL
                    THEN panicked' = TRUE /\ UNCHANGED process_table
                    ELSE process_table' = [process_table EXCEPT ![i] = entry] /\ UNCHANGED panicked

\* sem_destroy(process_table[i]->exitsem), kfree, process_table[i] = NULL.
destroy_process(i) == Update(i, NULL)

-----------------------------------------------------------------------------
(* sys_fork and thread_fork *)

\* sys_fork by a process, which begins with P(forkSem); thread_fork by the menu.
Fork_call(t) ==
  LET unborn == {u \in Threads : pc[u] = "unborn"} IN
  /\ pc[t] = "run"
  /\ unborn # {}
  /\ forks < MaxForks
  /\ Cardinality({u \in Threads : pc[u] \in ForkLabels}) < MaxForking
  /\ forks' = forks + 1
  /\ overlapped' = (overlapped \/ \E u \in Threads : pc[u] \in ForkLabels)
  /\ LET u == CHOOSE u \in unborn : \A v \in unborn : u =< v
     IN  /\ child' = [child EXCEPT ![t] = u]
         /\ pc' = [pc EXCEPT ![t] = IF t = Menu THEN "f_scan" ELSE "f_P", ![u] = "new"]
  /\ UNCHANGED <<process_table, pid_counter, sems, ids, index, reg, programs, execs, panicked>>

\* P(forkSem).
Fork_P(t) == /\ pc[t] = "f_P"
             /\ forkSem > 0
             /\ forkSem' = forkSem - 1
             /\ Goto(t, "f_scan")
             /\ UNCHANGED <<process_table, pid_counter, execvSem, ids, locals, counts, panicked>>

\* Mutant: with the table full, pid_alloc returns the last index.
Fork_scan_full(t) ==
  LET free == {i \in Slots : process_table[i] = NULL} \union {PROC_MAX - 1} IN
  /\ pc[t] = "f_scan"
  /\ \/ /\ Goto(t, "f_undo")
        /\ UNCHANGED index
     \/ /\ index' = [index EXCEPT ![t] = CHOOSE i \in free : \A j \in free : i =< j]
        /\ Goto(t, "f_load")
  /\ UNCHANGED <<process_table, pid_counter, sems, ids, child, reg, counts, panicked>>

\* The allocations before pid_alloc, any of which may fail; then the scan of
\* pid_alloc for a free index.
Fork_scan(t) ==
  LET free == {i \in Slots : process_table[i] = NULL} IN
  /\ pc[t] = "f_scan"
  /\ \/ /\ Goto(t, "f_undo")
        /\ UNCHANGED index
     \/ /\ free # {}
        /\ index' = [index EXCEPT ![t] = CHOOSE i \in free : \A j \in free : i =< j]
        /\ Goto(t, "f_load")
  /\ UNCHANGED <<process_table, pid_counter, sems, ids, child, reg, counts, panicked>>

\* pid_counter++ is a load ...
Fork_load(t) == /\ pc[t] = "f_load"
                /\ reg' = [reg EXCEPT ![t] = pid_counter]
                /\ Goto(t, "f_store")
                /\ UNCHANGED <<process_table, pid_counter, sems, ids, child, index, counts, panicked>>

\* ... and a store; if (pid_counter == __PID_MAX) the fork fails.
Fork_store(t) == /\ pc[t] = "f_store"
                 /\ pid_counter' = reg[t] + 1
                 /\ Goto(t, IF reg[t] + 1 = PID_MAX THEN "f_undo" ELSE "f_pid")
                 /\ UNCHANGED <<process_table, sems, ids, locals, counts, panicked>>

\* Mutant: the pid is taken before the counter moves on.
Fork_pid_old(t) == /\ pc[t] = "f_pid"
                   /\ pid' = [pid EXCEPT ![child[t]] = pid_counter - 1]
                   /\ ptable_index' = [ptable_index EXCEPT ![child[t]] = index[t]]
                   /\ Goto(t, "f_init")
                   /\ UNCHANGED <<process_table, pid_counter, sems, locals, counts, panicked>>

\* newthread->pid = pid_counter, read again; newthread->ptable_index.
Fork_pid(t) == /\ pc[t] = "f_pid"
               /\ pid' = [pid EXCEPT ![child[t]] = pid_counter]
               /\ ptable_index' = [ptable_index EXCEPT ![child[t]] = index[t]]
               /\ Goto(t, "f_init")
               /\ UNCHANGED <<process_table, pid_counter, sems, locals, counts, panicked>>

\* init_process: the entry is in the table before its pid and parent are; the
\* pid field holds what the freed block held, which is no pid (0xdeadbeef).
Fork_init(t) ==
  /\ pc[t] = "f_init"
  /\ \/ /\ process_table' = [process_table EXCEPT ![index[t]] =
                               [pid |-> PID_MAX, ppid |-> 0, exitsem |-> 0, exited |-> FALSE]]
        /\ Goto(t, "f_fields")
     \/ Goto(t, "f_undo") /\ UNCHANGED process_table
  /\ UNCHANGED <<pid_counter, sems, ids, locals, counts, panicked>>

\* process_table[...]->ppid = curthread->pid; ->pid = newthread->pid.
Fork_fields(t) ==
  /\ pc[t] = "f_fields"
  /\ Update(index[t], [process_table[index[t]] EXCEPT !.pid = pid[child[t]], !.ppid = pid[t]])
  /\ Goto(t, "f_copy")
  /\ UNCHANGED <<pid_counter, sems, ids, locals, counts>>

\* as_copy and the file table, or init_filetable for the menu; on failure the
\* entry is destroyed again.
Fork_copy(t) == /\ pc[t] = "f_copy"
                /\ \/ Goto(t, "f_start") /\ UNCHANGED <<process_table, panicked>>
                   \/ Goto(t, "f_undo") /\ destroy_process(index[t])
                /\ UNCHANGED <<pid_counter, sems, ids, locals, counts>>

\* thread_make_runnable(newthread); a thread forked by the menu has its program
\* to load first.
Fork_start(t) == /\ pc[t] = "f_start"
                 /\ pc' = [pc EXCEPT ![t] = "f_ret", ![child[t]] = IF t = Menu THEN "load" ELSE "run"]
                 /\ programs' = IF t = Menu THEN programs + 1 ELSE programs
                 /\ UNCHANGED <<process_table, pid_counter, sems, ids, locals, forks, execs, overlapped, panicked>>

\* *retval = child->pid.
Fork_ret(t) == /\ pc[t] = "f_ret"
               /\ Goto(t, "run")
               /\ Forget(t)
               /\ UNCHANGED <<process_table, pid_counter, sems, ids, counts, panicked>>

\* Mutant: an error return that keeps the permit.
Fork_undo_no_V(t) == /\ pc[t] = "f_undo"
                     /\ pc' = [pc EXCEPT ![t] = "run", ![child[t]] = "unborn"]
                     /\ Forget(t)
                     /\ UNCHANGED <<process_table, pid_counter, sems, ids, counts, panicked>>

\* The error returns: thread_destroy(newthread), and V(forkSem) in sys_fork.
Fork_undo(t) == /\ pc[t] = "f_undo"
                /\ forkSem' = IF t = Menu THEN forkSem ELSE forkSem + 1
                /\ pc' = [pc EXCEPT ![t] = "run", ![child[t]] = "unborn"]
                /\ Forget(t)
                /\ UNCHANGED <<process_table, pid_counter, execvSem, ids, counts, panicked>>

-----------------------------------------------------------------------------
(* sys__exit, and the end of a thread *)

\* V(forkSem).  The menu's thread does not exit.
Exit_call(t) == /\ pc[t] = "run" /\ t # Menu
                /\ forkSem' = forkSem + 1
                /\ Goto(t, "x_execV")
                /\ UNCHANGED <<process_table, pid_counter, execvSem, ids, locals, counts, panicked>>

\* V(execvSem).
Exit_execV(t) == /\ pc[t] = "x_execV"
                 /\ execvSem' = execvSem + 1
                 /\ Goto(t, "x_exec2")
                 /\ UNCHANGED <<process_table, pid_counter, forkSem, ids, locals, counts, panicked>>

\* execvSem->sem_count = 2, past the semaphore's own lock.
Exit_exec2(t) == /\ pc[t] = "x_exec2"
                 /\ execvSem' = ExecPermits
                 /\ Goto(t, "x_exited")
                 /\ UNCHANGED <<process_table, pid_counter, forkSem, ids, locals, counts, panicked>>

\* process_table[...]->exitcode = exitcode; ->exited = true.
Exit_exited(t) ==
  /\ pc[t] = "x_exited"
  /\ Update(ptable_index[t], [process_table[ptable_index[t]] EXCEPT !.exited = TRUE])
  /\ Goto(t, "x_V")
  /\ UNCHANGED <<pid_counter, sems, ids, locals, counts>>

\* Mutant: exitsem is left alone.
Exit_V_omitted(t) == /\ pc[t] = "x_V"
                     /\ Goto(t, "zombie")
                     /\ UNCHANGED <<process_table, pid_counter, sems, ids, locals, counts, panicked>>

\* V(process_table[...]->exitsem), then thread_exit.
Exit_V(t) == /\ pc[t] = "x_V"
             /\ Update(ptable_index[t], [process_table[ptable_index[t]] EXCEPT !.exitsem = @ + 1])
             /\ Goto(t, "zombie")
             /\ UNCHANGED <<pid_counter, sems, ids, locals, counts>>

\* cmd_progthread, in a thread the menu forked: the program is loaded and runs;
\* or runprogram fails and cmd_progthread returns, and thread_startup then calls
\* thread_exit, not sys__exit.
ProgramLoaded(t) == /\ pc[t] = "load"
                    /\ Goto(t, "run")
                    /\ UNCHANGED <<process_table, pid_counter, sems, ids, locals, counts, panicked>>

ProgramNotLoaded(t) == /\ pc[t] = "load"
                       /\ Goto(t, "zombie")
                       /\ programs' = programs - 1
                       /\ UNCHANGED <<process_table, pid_counter, sems, ids, locals, forks, execs, overlapped, panicked>>

\* exorcise: thread_destroy of a zombie.
Exorcise(t) == /\ pc[t] = "zombie"
               /\ Goto(t, "freed")
               /\ UNCHANGED <<process_table, pid_counter, sems, ids, locals, counts, panicked>>

-----------------------------------------------------------------------------
(* sys_waitpid *)

HasPid(i, p) == process_table[i] # NULL /\ process_table[i].pid = p

\* The range check, getptable_index and the ppid check, passed; a call that
\* fails one of them returns an error and changes nothing.
Wait_call(t) ==
  /\ pc[t] = "run"
  /\ \E i \in Slots :
       /\ process_table[i] # NULL
       /\ LET p == process_table[i].pid IN 1 =< p /\ p < PID_MAX /\ \A j \in 1..(i - 1) : ~HasPid(j, p)
       /\ process_table[i].ppid = pid[t]
       /\ index' = [index EXCEPT ![t] = i]
  /\ Goto(t, "w_test")
  /\ UNCHANGED <<process_table, pid_counter, sems, ids, child, reg, counts, panicked>>

\* ->exited: reap; or wait.
Wait_test(t) ==
  /\ pc[t] = "w_test"
  /\ panicked' = (process_table[index[t]] = NULL)
  /\ \/ panicked' /\ UNCHANGED pc
     \/ ~panicked' /\ Goto(t, IF process_table[index[t]].exited THEN "w_reap" ELSE "w_P")
  /\ UNCHANGED <<process_table, pid_counter, sems, ids, locals, counts>>

\* ->exited with WNOHANG: not so, return 0.
Wait_nohang(t) == /\ pc[t] = "w_test"
                  /\ process_table[index[t]] # NULL
                  /\ ~process_table[index[t]].exited
                  /\ Goto(t, "run")
                  /\ Forget(t)
                  /\ UNCHANGED <<process_table, pid_counter, sems, ids, counts, panicked>>

\* P(process_table[...]->exitsem).
Wait_P(t) ==
  /\ pc[t] = "w_P"
  /\ process_table[index[t]] # NULL => process_table[index[t]].exitsem > 0
  /\ Update(index[t], [process_table[index[t]] EXCEPT !.exitsem = @ - 1])
  /\ Goto(t, "w_reap")
  /\ UNCHANGED <<pid_counter, sems, ids, locals, counts>>

\* *status = the exit code; destroy_process.
Wait_reap(t) == /\ pc[t] = "w_reap"
                /\ destroy_process(index[t])
                /\ Goto(t, "run")
                /\ Forget(t)
                /\ UNCHANGED <<pid_counter, sems, ids, counts>>

-----------------------------------------------------------------------------
(* sys_execv, as far as execvSem goes *)

Exec_call(t) == /\ pc[t] = "run" /\ t # Menu
                /\ execs < MaxExecs
                /\ execs' = execs + 1
                /\ Goto(t, "e_P")
                /\ UNCHANGED <<process_table, pid_counter, sems, ids, locals, programs, forks, overlapped, panicked>>

\* P(execvSem); then the new program runs with the permit kept until its exit,
\* or execv fails.
Exec_P(t) == /\ pc[t] = "e_P"
             /\ execvSem > 0
             /\ execvSem' = execvSem - 1
             /\ Goto(t, "run") \/ Goto(t, "e_V")
             /\ UNCHANGED <<process_table, pid_counter, forkSem, ids, locals, counts, panicked>>

\* V(execvSem) of every error return.
Exec_V(t) == /\ pc[t] = "e_V"
             /\ execvSem' = execvSem + 1
             /\ Goto(t, "run")
             /\ UNCHANGED <<process_table, pid_counter, forkSem, ids, locals, counts, panicked>>

-----------------------------------------------------------------------------
ForkStep(t) == \/ Fork_P(t) \/ Fork_scan(t) \/ Fork_load(t) \/ Fork_store(t) \/ Fork_pid(t)
               \/ Fork_init(t) \/ Fork_fields(t) \/ Fork_copy(t) \/ Fork_start(t) \/ Fork_ret(t)
               \/ Fork_undo(t)
ExitStep(t) == ProgramLoaded(t) \/ ProgramNotLoaded(t) \/ Exit_execV(t) \/ Exit_exec2(t) \/ Exit_exited(t) \/ Exit_V(t) \/ Exorcise(t)
WaitStep(t) == Wait_test(t) \/ Wait_nohang(t) \/ Wait_P(t) \/ Wait_reap(t)
Step(t) == ~panicked /\ (ForkStep(t) \/ ExitStep(t) \/ WaitStep(t) \/ Exec_P(t) \/ Exec_V(t))

\* What a program does next is its own choice.
Call(t) == ~panicked /\ (Fork_call(t) \/ Exit_call(t) \/ Wait_call(t) \/ Exec_call(t))

Next == \E t \in Threads : Call(t) \/ Step(t)

\* A thread inside the kernel that can run gets to run; nothing is assumed of
\* the programs.
Fairness == \A t \in Threads : WF_vars(Step(t))

Spec == Init /\ [][Next]_vars /\ Fairness

-----------------------------------------------------------------------------
(* Properties *)

Started == {t \in Threads \ {Menu} : pc[t] \notin {"unborn", "new"}}

\* Every variable has the type of what it stands for.
TypeOK == /\ process_table \in [Slots -> Entries \union {NULL}]
          /\ {pid_counter, forkSem, execvSem, forks, execs} \subseteq Nat
          /\ {pid, reg} \subseteq [Threads -> Nat]
          /\ child \in [Threads -> Threads]
          /\ {ptable_index, index} \subseteq [Threads -> Slots \union {NoSlot}]
          /\ pc \in [Threads -> Labels]
          /\ {overlapped, panicked} \subseteq BOOLEAN

\* fork.html: the child "has a new, unique process id"; "The process id must be
\* greater than 0".
PidsUnique == /\ \A t \in Started : pid[t] > 0
              /\ \A t, u \in Started : pid[t] = pid[u] => t = u

\* While no two forks overlap, pids are unique and positive, whatever exits and
\* waitpids happen in the middle of a fork and however forks fail.
PidsUniqueUnlessOverlap == ~overlapped => PidsUnique

\* While no two forks overlap, the index that pid_alloc found free is still free
\* when init_process fills it in, and the entry is still the new process's when
\* it is started.
PickedSlotStillMine == ~overlapped =>
  \A t \in Threads :
    /\ pc[t] \in {"f_load", "f_store", "f_pid", "f_init"} => process_table[index[t]] = NULL
    /\ pc[t] \in {"f_copy", "f_start"} => HasPid(index[t], pid[child[t]])

\* forkSem bounds the processes made by fork, errors in fork included: a permit
\* is out for each fork under way and for each live process, except that a
\* program started from the menu takes none; it leaves one behind at its exit.
ForkPermitsAccounted ==
  LET live == {t \in Started : pc[t] \notin ExitLabels \union {"zombie", "freed"}}
      forking == {t \in Threads \ {Menu} : pc[t] \in ForkLabels \ {"f_P", "f_ret"}}
  IN  forkSem + Cardinality(live) + Cardinality(forking) = ForkPermits + programs

\* waitpid of a process that calls _exit does return, whichever of exited and
\* exitsem the parent sees first, unless the kernel panics or two forks have
\* fought over a table entry.
WaiterReturns ==
  \A t \in Threads :
    (/\ pc[t] \in {"w_test", "w_P"}
     /\ process_table[index[t]] # NULL
     /\ process_table[index[t]].exited) ~> (pc[t] = "run" \/ panicked \/ overlapped)
=============================================================================
