--------------------------- MODULE ProcessProofs ---------------------------
(***************************************************************************)
(* Proofs about a process's two halves.  Module ProcessTable: for every    *)
(* number of threads, slots, pids and permits and every number of forks,   *)
(* overlapping ones included.  Module AddrSpace, with Coremap: for every   *)
(* size of memory, of a page and of a page table, any processes, programs  *)
(* and kernel allocations.                                                 *)
(***************************************************************************)
EXTENDS ProcessTable, AddrSpace, TLAPS, FiniteSetTheorems, SequenceTheorems, WellFoundedInduction

-----------------------------------------------------------------------------
(* The process table: the inductive invariant *)

\* A fork that has its newthread and has not started it.
MidFork == ForkLabels \ {"f_ret"}
Waiting == {"w_test", "w_P", "w_reap"}
SlotPicked == {"f_load", "f_store", "f_pid", "f_init"}
PidTaken == {"f_init", "f_fields", "f_copy", "f_start"}
WithIndex == SlotPicked \union PidTaken \union Waiting

\* The menu forks and waits; it takes no permit and does not exit.
MenuInv == pid[Menu] = 0 /\ pc[Menu] \in {"run"} \union Waiting \union (ForkLabels \ {"f_P"})

\* A thread in fork has a newthread to itself, which does not run yet.
ChildInv ==
  \A t \in Threads : pc[t] \in MidFork =>
    /\ pc[child[t]] = "new"
    /\ \A u \in Threads : pc[u] \in MidFork /\ child[u] = child[t] => u = t

IndexInv == \A t \in Threads : pc[t] \in WithIndex => index[t] \in Slots

BaseInv == TypeOK /\ programs \in Int /\ MenuInv /\ ChildInv /\ IndexInv

OneForker == \A t, u \in Threads : pc[t] \in ForkLabels /\ pc[u] \in ForkLabels => t = u

\* The pids in use are at most pid_counter, and below it from the store on to
\* the start of the new thread.
PidsBelow ==
  /\ \A u \in Started : 0 < pid[u] /\ pid[u] =< pid_counter
  /\ \A t \in Threads :
       /\ pc[t] = "f_store" => reg[t] = pid_counter
       /\ pc[t] \in PidTaken \union {"f_pid"} => pid_counter > 0 /\ \A u \in Started : pid[u] < pid_counter
       /\ pc[t] \in PidTaken => pid[child[t]] = pid_counter

\* What is in the entry a fork or a waitpid works on.  The entry that is waited
\* for is the waiter's child's, so that no two threads wait for one.
SlotOf(t) ==
  /\ pc[t] \in SlotPicked => process_table[index[t]] = NULL
  /\ pc[t] \in {"f_fields", "f_copy", "f_start"} \union Waiting => process_table[index[t]] # NULL
  /\ pc[t] = "f_fields" => process_table[index[t]].pid = PID_MAX
  /\ pc[t] \in {"f_copy", "f_start"} => process_table[index[t]].pid = pid[child[t]]
  /\ pc[t] \in {"f_copy", "f_start"} \union Waiting => process_table[index[t]].ppid = pid[t]
  /\ pc[t] \in Waiting => process_table[index[t]].pid < PID_MAX

SlotInv == \A t \in Threads : SlotOf(t)

OneForkInv == ~overlapped => OneForker /\ PidsUnique /\ PidsBelow /\ SlotInv

-----------------------------------------------------------------------------
(* Facts about the operators *)

LEMMA LeastOf ==
  ASSUME NEW T, T \subseteq Nat, T # {}
  PROVE  \E x \in T : \A y \in T : x =< y
  <1>1. PICK R : R = OpToRel(<, Nat)
    OBVIOUS
  <1>2. IsWellFoundedOn(R, Nat)
    BY <1>1, NatLessThanWellFounded
  <1>3. PICK x \in T : \A y \in T : ~ (<<y, x>> \in R)
    BY <1>2, WFMin
  <1>4. \A y, z \in Nat : y < z => <<y, z>> \in R
    BY <1>1 DEF OpToRel
  <1>5. \A y \in T : x \in Nat /\ y \in Nat /\ ~(y < x)
    BY <1>3, <1>4
  <1>6. \A y \in T : x =< y
    BY <1>5
  <1> QED BY <1>6

LEMMA LeastChosen ==
  ASSUME NEW S \in SUBSET Nat, S # {}
  PROVE  (CHOOSE x \in S : \A y \in S : x =< y) \in S
  BY LeastOf

LEMMA MenuIsThread == Menu \in Threads /\ Threads \subseteq Nat /\ Slots \subseteq Nat \ {0} /\ NoSlot \notin Slots
  BY ProcAssumption DEF Menu, Threads, Slots, NoSlot

\* A write through an entry keeps the table's type.
LEMMA UpdateTyped ==
  ASSUME TypeOK, NEW i, NEW e, Update(i, e),
         i \in Slots /\ process_table[i] # NULL => e \in Entries \union {NULL}
  PROVE  process_table' \in [Slots -> Entries \union {NULL}] /\ panicked' \in BOOLEAN
  <1>1. CASE process_table[i] = NULL
    BY <1>1 DEF Update, TypeOK
  <1>2. CASE process_table[i] # NULL
    BY <1>2 DEF Update, TypeOK
  <1> QED BY <1>1, <1>2

\* A fork begins with a thread that was not there before.
LEMMA NewThread ==
  ASSUME TypeOK, NEW t \in Threads, Fork_call(t)
  PROVE  \E u \in Threads : /\ pc[u] = "unborn" /\ u # t
                            /\ child' = [child EXCEPT ![t] = u]
                            /\ pc' = [pc EXCEPT ![t] = IF t = Menu THEN "f_scan" ELSE "f_P", ![u] = "new"]
  <1> DEFINE unborn == {u \in Threads : pc[u] = "unborn"}
             u == CHOOSE x \in unborn : \A y \in unborn : x =< y
  <1>1. unborn # {} /\ unborn \in SUBSET Nat
    BY MenuIsThread DEF Fork_call
  <1>2. u \in unborn
    <2> HIDE DEF unborn
    <2> QED BY <1>1, LeastChosen
  <1>3. /\ pc[t] = "run"
        /\ child' = [child EXCEPT ![t] = u]
        /\ pc' = [pc EXCEPT ![t] = IF t = Menu THEN "f_scan" ELSE "f_P", ![u] = "new"]
    BY DEF Fork_call
  <1> HIDE DEF u
  <1> QED BY <1>2, <1>3

-----------------------------------------------------------------------------
(* Types *)

LEMMA StepTypes == BaseInv /\ [Next]_vars => (TypeOK /\ programs \in Int)'
  <1> SUFFICES ASSUME BaseInv, [Next]_vars PROVE (TypeOK /\ programs \in Int)'
    OBVIOUS
  <1> DEFINE Goal == TypeOK /\ programs \in Int
  <1>0. TypeOK /\ programs \in Int
    BY DEF BaseInv
  <1> USE <1>0 DEF sems, ids, locals, counts, Goto, Labels, ForkLabels, ExitLabels
  <1>1. ASSUME NEW t \in Threads, Fork_call(t) PROVE Goal'
    <2>1. PICK u \in Threads, l \in {"f_scan", "f_P"} :
            child' = [child EXCEPT ![t] = u] /\ pc' = [pc EXCEPT ![t] = l, ![u] = "new"]
      BY <1>1, NewThread
    <2>2. /\ UNCHANGED <<process_table, pid_counter, forkSem, execvSem, pid, ptable_index, index, reg, programs, execs,
                         panicked>>
          /\ forks' = forks + 1
      BY <1>1 DEF Fork_call
    <2>3. overlapped' \in BOOLEAN
      BY <1>1 DEF Fork_call, TypeOK
    <2> QED BY <2>1, <2>2, <2>3 DEF TypeOK
  <1>2. ASSUME NEW t \in Threads, Fork_P(t) \/ Fork_load(t) PROVE Goal'
    BY <1>2 DEF Fork_P, Fork_load, TypeOK
  <1>3. ASSUME NEW t \in Threads, Fork_scan(t) PROVE Goal'
    <2>1. index' \in [Threads -> Slots \union {NoSlot}]
      <3> DEFINE free == {i \in Slots : process_table[i] = NULL}
                 i0 == CHOOSE i \in free : \A j \in free : i =< j
      <3>1. free \in SUBSET Nat
        BY MenuIsThread
      <3>2. free # {} => i0 \in free
        <4> HIDE DEF free
        <4> QED BY <3>1, LeastChosen
      <3>3. index' = index \/ (free # {} /\ index' = [index EXCEPT ![t] = i0])
        BY <1>3 DEF Fork_scan
      <3>4. free \subseteq Slots
        OBVIOUS
      <3> HIDE DEF free, i0
      <3> QED BY <3>2, <3>3, <3>4 DEF TypeOK
    <2>2. pc' = [pc EXCEPT ![t] = "f_undo"] \/ pc' = [pc EXCEPT ![t] = "f_load"]
      BY <1>3 DEF Fork_scan
    <2>3. UNCHANGED <<process_table, pid_counter, forkSem, execvSem, pid, ptable_index, child, reg, programs, forks,
                      execs, overlapped, panicked>>
      BY <1>3 DEF Fork_scan
    <2> QED BY <2>1, <2>2, <2>3 DEF TypeOK
  <1>4. ASSUME NEW t \in Threads, Fork_store(t) \/ Fork_pid(t) PROVE Goal'
    BY <1>4 DEF Fork_store, Fork_pid, TypeOK
  <1>5. ASSUME NEW t \in Threads, Fork_init(t) PROVE Goal'
    <2>1. process_table' \in [Slots -> Entries \union {NULL}]
      <3> DEFINE e == [pid |-> PID_MAX, ppid |-> 0, exitsem |-> 0, exited |-> FALSE]
      <3>1. e \in Entries
        BY ProcAssumption DEF Entries
      <3>2. process_table' = process_table \/ process_table' = [process_table EXCEPT ![index[t]] = e]
        BY <1>5 DEF Fork_init
      <3> HIDE DEF e
      <3> QED BY <3>1, <3>2 DEF TypeOK
    <2>2. pc' \in [Threads -> Labels]
      BY <1>5 DEF Fork_init, TypeOK
    <2> QED BY <1>5, <2>1, <2>2 DEF Fork_init, TypeOK
  <1>6. ASSUME NEW t \in Threads, Fork_fields(t) PROVE Goal'
    <2> DEFINE e == [process_table[index[t]] EXCEPT !.pid = pid[child[t]], !.ppid = pid[t]]
    <2>1. index[t] \in Slots /\ process_table[index[t]] # NULL => e \in Entries
      BY DEF TypeOK, Entries
    <2>2. Update(index[t], e)
      BY <1>6 DEF Fork_fields
    <2> HIDE DEF e
    <2>3. process_table' \in [Slots -> Entries \union {NULL}] /\ panicked' \in BOOLEAN
      BY <2>1, <2>2, UpdateTyped
    <2>4. pc' \in [Threads -> Labels]
      BY <1>6 DEF Fork_fields, TypeOK
    <2> QED BY <1>6, <2>3, <2>4 DEF Fork_fields, TypeOK
  <1>7. ASSUME NEW t \in Threads, Fork_copy(t) PROVE Goal'
    <2>1. process_table' \in [Slots -> Entries \union {NULL}] /\ panicked' \in BOOLEAN
      BY <1>7, UpdateTyped DEF Fork_copy, destroy_process, TypeOK
    <2>2. pc' \in [Threads -> Labels]
      BY <1>7 DEF Fork_copy, TypeOK
    <2> QED BY <1>7, <2>1, <2>2 DEF Fork_copy, TypeOK
  <1>8. ASSUME NEW t \in Threads, Fork_start(t) PROVE Goal'
    BY <1>8 DEF Fork_start, TypeOK
  <1>9. ASSUME NEW t \in Threads, Fork_ret(t) \/ Fork_undo(t) PROVE Goal'
    BY <1>9 DEF Fork_ret, Fork_undo, Forget, TypeOK
  <1>10. ASSUME NEW t \in Threads, Exit_call(t) \/ Exit_execV(t) \/ Exit_exec2(t) PROVE Goal'
    BY <1>10, ProcAssumption DEF Exit_call, Exit_execV, Exit_exec2, TypeOK
  <1>11. ASSUME NEW t \in Threads, Exit_exited(t) PROVE Goal'
    <2> DEFINE e == [process_table[ptable_index[t]] EXCEPT !.exited = TRUE]
    <2>1. ptable_index[t] \in Slots /\ process_table[ptable_index[t]] # NULL => e \in Entries
      BY DEF TypeOK, Entries
    <2>2. Update(ptable_index[t], e)
      BY <1>11 DEF Exit_exited
    <2> HIDE DEF e
    <2>3. process_table' \in [Slots -> Entries \union {NULL}] /\ panicked' \in BOOLEAN
      BY <2>1, <2>2, UpdateTyped
    <2>4. pc' \in [Threads -> Labels]
      BY <1>11 DEF Exit_exited, TypeOK
    <2> QED BY <1>11, <2>3, <2>4 DEF Exit_exited, TypeOK
  <1>12. ASSUME NEW t \in Threads, Exit_V(t) PROVE Goal'
    <2> DEFINE e == [process_table[ptable_index[t]] EXCEPT !.exitsem = @ + 1]
    <2>1. ptable_index[t] \in Slots /\ process_table[ptable_index[t]] # NULL => e \in Entries
      BY DEF TypeOK, Entries
    <2>2. Update(ptable_index[t], e)
      BY <1>12 DEF Exit_V
    <2> HIDE DEF e
    <2>3. process_table' \in [Slots -> Entries \union {NULL}] /\ panicked' \in BOOLEAN
      BY <2>1, <2>2, UpdateTyped
    <2>4. pc' \in [Threads -> Labels]
      BY <1>12 DEF Exit_V, TypeOK
    <2> QED BY <1>12, <2>3, <2>4 DEF Exit_V, TypeOK
  <1>13. ASSUME NEW t \in Threads, ProgramLoaded(t) \/ ProgramNotLoaded(t) \/ Exorcise(t) PROVE Goal'
    BY <1>13 DEF ProgramLoaded, ProgramNotLoaded, Exorcise, TypeOK
  <1>14. ASSUME NEW t \in Threads, Wait_call(t) PROVE Goal'
    <2>1. \E i \in Slots : index' = [index EXCEPT ![t] = i]
      BY <1>14 DEF Wait_call
    <2>2. UNCHANGED <<process_table, pid_counter, forkSem, execvSem, pid, ptable_index, child, reg, programs, forks,
                      execs, overlapped, panicked>> /\ pc' = [pc EXCEPT ![t] = "w_test"]
      BY <1>14 DEF Wait_call
    <2> QED BY <2>1, <2>2 DEF TypeOK
  <1>15. ASSUME NEW t \in Threads, Wait_test(t) \/ Wait_nohang(t) PROVE Goal'
    <2>1. panicked' \in BOOLEAN
      BY <1>15 DEF Wait_test, Wait_nohang, TypeOK
    <2>2. pc' \in [Threads -> Labels]
      BY <1>15 DEF Wait_test, Wait_nohang, TypeOK
    <2> QED BY <1>15, <2>1, <2>2 DEF Wait_test, Wait_nohang, Forget, TypeOK
  <1>16. ASSUME NEW t \in Threads, Wait_P(t) PROVE Goal'
    <2> DEFINE e == [process_table[index[t]] EXCEPT !.exitsem = @ - 1]
    <2>1. index[t] \in Slots /\ process_table[index[t]] # NULL => e \in Entries
      BY <1>16 DEF Wait_P, TypeOK, Entries
    <2>2. Update(index[t], e)
      BY <1>16 DEF Wait_P
    <2> HIDE DEF e
    <2>3. process_table' \in [Slots -> Entries \union {NULL}] /\ panicked' \in BOOLEAN
      BY <2>1, <2>2, UpdateTyped
    <2>4. pc' \in [Threads -> Labels]
      BY <1>16 DEF Wait_P, TypeOK
    <2> QED BY <1>16, <2>3, <2>4 DEF Wait_P, TypeOK
  <1>17. ASSUME NEW t \in Threads, Wait_reap(t) PROVE Goal'
    <2>1. process_table' \in [Slots -> Entries \union {NULL}] /\ panicked' \in BOOLEAN
      BY <1>17, UpdateTyped DEF Wait_reap, destroy_process, TypeOK
    <2>2. pc' \in [Threads -> Labels]
      BY <1>17 DEF Wait_reap, TypeOK
    <2> QED BY <1>17, <2>1, <2>2 DEF Wait_reap, Forget, TypeOK
  <1>18. ASSUME NEW t \in Threads, Exec_call(t) \/ Exec_P(t) \/ Exec_V(t) PROVE Goal'
    BY <1>18 DEF Exec_call, Exec_P, Exec_V, TypeOK
  <1>19. CASE UNCHANGED vars
    BY <1>19 DEF vars, TypeOK
  <1> QED BY <1>1, <1>2, <1>3, <1>4, <1>5, <1>6, <1>7, <1>8, <1>9, <1>10, <1>11, <1>12, <1>13, <1>14, <1>15, <1>16,
             <1>17, <1>18, <1>19 DEF Next, Call, Step, ForkStep, ExitStep, WaitStep

-----------------------------------------------------------------------------
(* Control *)

MenuLabels == {"run"} \union Waiting \union (ForkLabels \ {"f_P"})

\* Thread t goes on to l and changes no other thread's place, newthread or index.
Move(t, l) ==
  /\ l \in Labels \ {"unborn", "new"}
  /\ pc[t] \notin {"unborn", "new"}
  /\ pc' = [pc EXCEPT ![t] = l]
  /\ l \in MidFork => pc[t] \in MidFork
  /\ l \in ForkLabels => pc[t] \in ForkLabels
  /\ t = Menu => l \in MenuLabels
  /\ l \in WithIndex => index'[t] \in Slots
  /\ \A u \in Threads : u # t => index'[u] = index[u]
  /\ child' = child \/ (child' = [child EXCEPT ![t] = t] /\ l = "run")
  /\ overlapped' = overlapped

\* Every step but the three that create, start or give up a thread is a move.
Moves(t) == \/ Fork_P(t) \/ Fork_scan(t) \/ Fork_load(t) \/ Fork_store(t) \/ Fork_pid(t)
            \/ Fork_init(t) \/ Fork_fields(t) \/ Fork_copy(t) \/ Fork_ret(t)
            \/ Exit_call(t) \/ ExitStep(t) \/ Wait_call(t) \/ WaitStep(t)
            \/ Exec_call(t) \/ Exec_P(t) \/ Exec_V(t)

LEMMA NextCases ==
  ASSUME [Next]_vars
  PROVE  \/ UNCHANGED vars
         \/ \E t \in Threads : Fork_call(t) \/ Fork_start(t) \/ Fork_undo(t) \/ Moves(t)
  BY DEF Next, Call, Step, ForkStep, Moves

LEMMA MovesMove ==
  ASSUME BaseInv, NEW t \in Threads, Moves(t)
  PROVE  \E l : Move(t, l)
  <1>0. /\ pc \in [Threads -> Labels] /\ index \in [Threads -> Slots \union {NoSlot}] /\ child \in [Threads -> Threads]
        /\ t = Menu => pc[t] \in MenuLabels
        /\ pc[t] \in WithIndex => index[t] \in Slots
    BY DEF BaseInv, TypeOK, MenuInv, IndexInv, MenuLabels
  <1> USE <1>0 DEF sems, ids, locals, counts, Goto, Labels, ForkLabels, ExitLabels, MidFork, Waiting, SlotPicked,
                   PidTaken, WithIndex, MenuLabels, Move
  <1>1. CASE Fork_P(t)
    <2>1. Move(t, "f_scan") BY <1>1 DEF Fork_P
    <2> QED BY <2>1
  <1>2. CASE Fork_scan(t)
    <2> DEFINE free == {i \in Slots : process_table[i] = NULL}
               i0 == CHOOSE i \in free : \A j \in free : i =< j
    <2>1. free \in SUBSET Nat /\ free \subseteq Slots
      BY MenuIsThread
    <2>2. free # {} => i0 \in Slots
      <3> HIDE DEF free
      <3> QED BY <2>1, LeastChosen
    <2>3. /\ \/ index' = index /\ pc' = [pc EXCEPT ![t] = "f_undo"]
             \/ free # {} /\ index' = [index EXCEPT ![t] = i0] /\ pc' = [pc EXCEPT ![t] = "f_load"]
          /\ pc[t] = "f_scan" /\ child' = child /\ overlapped' = overlapped
      BY <1>2 DEF Fork_scan
    <2> HIDE DEF free, i0
    <2>4. Move(t, "f_undo") \/ Move(t, "f_load")
      BY <2>2, <2>3
    <2> QED BY <2>4
  <1>3. CASE Fork_load(t)
    <2>1. Move(t, "f_store") BY <1>3 DEF Fork_load
    <2> QED BY <2>1
  <1>4. CASE Fork_store(t)
    <2>1. Move(t, "f_undo") \/ Move(t, "f_pid") BY <1>4 DEF Fork_store
    <2> QED BY <2>1
  <1>5. CASE Fork_pid(t)
    <2>1. Move(t, "f_init") BY <1>5 DEF Fork_pid
    <2> QED BY <2>1
  <1>6. CASE Fork_init(t)
    <2>1. Move(t, "f_fields") \/ Move(t, "f_undo") BY <1>6 DEF Fork_init
    <2> QED BY <2>1
  <1>7. CASE Fork_fields(t)
    <2>1. Move(t, "f_copy") BY <1>7 DEF Fork_fields
    <2> QED BY <2>1
  <1>8. CASE Fork_copy(t)
    <2>1. Move(t, "f_start") \/ Move(t, "f_undo") BY <1>8 DEF Fork_copy
    <2> QED BY <2>1
  <1>9. CASE Fork_ret(t)
    <2>1. Move(t, "run") BY <1>9 DEF Fork_ret, Forget
    <2> QED BY <2>1
  <1>10. CASE Exit_call(t)
    <2>1. Move(t, "x_execV") BY <1>10 DEF Exit_call
    <2> QED BY <2>1
  <1>11. CASE Exit_execV(t) \/ Exit_exec2(t) \/ Exit_exited(t) \/ Exit_V(t)
    <2>1. CASE Exit_execV(t)
      <3>1. Move(t, "x_exec2") BY <2>1 DEF Exit_execV
      <3> QED BY <3>1
    <2>2. CASE Exit_exec2(t)
      <3>1. Move(t, "x_exited") BY <2>2 DEF Exit_exec2
      <3> QED BY <3>1
    <2>3. CASE Exit_exited(t)
      <3>1. Move(t, "x_V") BY <2>3 DEF Exit_exited
      <3> QED BY <3>1
    <2>4. CASE Exit_V(t)
      <3>1. Move(t, "zombie") BY <2>4 DEF Exit_V
      <3> QED BY <3>1
    <2> QED BY <1>11, <2>1, <2>2, <2>3, <2>4
  <1>12. CASE ProgramLoaded(t) \/ ProgramNotLoaded(t) \/ Exorcise(t)
    <2>1. Move(t, "run") \/ Move(t, "zombie") \/ Move(t, "freed")
      BY <1>12 DEF ProgramLoaded, ProgramNotLoaded, Exorcise
    <2> QED BY <2>1
  <1>13. CASE Wait_call(t)
    <2>1. PICK i \in Slots : index' = [index EXCEPT ![t] = i]
      BY <1>13 DEF Wait_call
    <2>2. Move(t, "w_test")
      BY <1>13, <2>1 DEF Wait_call
    <2> QED BY <2>2
  <1>14. CASE Wait_test(t)
    <2>1. /\ pc' = pc \/ pc' = [pc EXCEPT ![t] = "w_reap"] \/ pc' = [pc EXCEPT ![t] = "w_P"]
          /\ pc[t] = "w_test" /\ index' = index /\ child' = child /\ overlapped' = overlapped
      BY <1>14 DEF Wait_test
    <2>2. Move(t, "w_test") \/ Move(t, "w_reap") \/ Move(t, "w_P")
      BY <2>1
    <2> QED BY <2>2
  <1>15. CASE Wait_nohang(t)
    <2>1. Move(t, "run") BY <1>15 DEF Wait_nohang, Forget
    <2> QED BY <2>1
  <1>16. CASE Wait_P(t)
    <2>1. Move(t, "w_reap") BY <1>16 DEF Wait_P
    <2> QED BY <2>1
  <1>17. CASE Wait_reap(t)
    <2>1. Move(t, "run") BY <1>17 DEF Wait_reap, Forget
    <2> QED BY <2>1
  <1>18. CASE Exec_call(t) \/ Exec_P(t) \/ Exec_V(t)
    <2>1. Move(t, "e_P") \/ Move(t, "run") \/ Move(t, "e_V") BY <1>18 DEF Exec_call, Exec_P, Exec_V
    <2> QED BY <2>1
  <1> QED BY <1>1, <1>2, <1>3, <1>4, <1>5, <1>6, <1>7, <1>8, <1>9, <1>10, <1>11, <1>12, <1>13, <1>14, <1>15, <1>16,
             <1>17, <1>18 DEF Moves, ExitStep, WaitStep

\* No step changes the pid of a thread that runs.
LEMMA PidsStay ==
  ASSUME BaseInv, [Next]_vars, NEW u \in Threads, pc[u] # "new"
  PROVE  pid'[u] = pid[u]
  <1>1. ASSUME NEW t \in Threads, Fork_pid(t) PROVE pid'[u] = pid[u]
    <2>1. child[t] # u
      BY <1>1 DEF Fork_pid, BaseInv, ChildInv, MidFork, ForkLabels
    <2> QED BY <1>1, <2>1 DEF Fork_pid, BaseInv, TypeOK
  <1>2. ASSUME ~ \E t \in Threads : Fork_pid(t) PROVE pid' = pid
    BY <1>2 DEF Next, Call, Step, ForkStep, ExitStep, WaitStep, vars, ids,
       Fork_call, Fork_P, Fork_scan, Fork_load, Fork_store, Fork_init, Fork_fields, Fork_copy, Fork_start, Fork_ret,
       Fork_undo, Exit_call, Exit_execV, Exit_exec2, Exit_exited, Exit_V, ProgramLoaded, ProgramNotLoaded, Exorcise,
       Wait_call, Wait_test, Wait_nohang, Wait_P, Wait_reap, Exec_call, Exec_P, Exec_V
  <1> QED BY <1>1, <1>2

LEMMA StepControl == BaseInv /\ [Next]_vars => (MenuInv /\ ChildInv /\ IndexInv)'
  <1> SUFFICES ASSUME BaseInv, [Next]_vars PROVE (MenuInv /\ ChildInv /\ IndexInv)'
    OBVIOUS
  <1> DEFINE Goal == MenuInv /\ ChildInv /\ IndexInv
  <1>0. /\ pc \in [Threads -> Labels] /\ index \in [Threads -> Slots \union {NoSlot}] /\ child \in [Threads -> Threads]
        /\ Menu \in Threads /\ pc[Menu] # "new"
    BY MenuIsThread DEF BaseInv, TypeOK, MenuInv, Waiting, ForkLabels
  <1>1. pid'[Menu] = 0
    BY <1>0, PidsStay DEF BaseInv, MenuInv
  <1> USE <1>0 DEF MenuInv, ChildInv, IndexInv, Waiting, SlotPicked, PidTaken, WithIndex, MidFork, ForkLabels, MenuLabels
  <1>2. ASSUME NEW t \in Threads, Fork_call(t) PROVE Goal'
    <2>1. PICK u \in Threads : /\ pc[u] = "unborn" /\ u # t
                               /\ child' = [child EXCEPT ![t] = u]
                               /\ pc' = [pc EXCEPT ![t] = IF t = Menu THEN "f_scan" ELSE "f_P", ![u] = "new"]
      BY <1>2, NewThread DEF BaseInv
    <2>2. pc[t] = "run" /\ index' = index
      BY <1>2 DEF Fork_call
    <2>3. MenuInv'
      BY <1>1, <2>1, <2>2 DEF BaseInv
    <2>4. ChildInv'
      BY <2>1, <2>2 DEF BaseInv
    <2>5. IndexInv'
      BY <2>1, <2>2 DEF BaseInv
    <2> QED BY <2>3, <2>4, <2>5
  <1>3. ASSUME NEW t \in Threads, Fork_start(t) PROVE Goal'
    BY <1>1, <1>3 DEF Fork_start, BaseInv, locals
  <1>4. ASSUME NEW t \in Threads, Fork_undo(t) PROVE Goal'
    BY <1>1, <1>4 DEF Fork_undo, BaseInv, Forget
  <1>5. ASSUME NEW t \in Threads, Moves(t) PROVE Goal'
    <2>1. PICK l : Move(t, l)
      BY <1>5, MovesMove
    <2>2. MenuInv'
      BY <1>1, <2>1 DEF Move, BaseInv
    <2>3. ChildInv'
      BY <2>1 DEF Move, BaseInv
    <2>4. IndexInv'
      BY <2>1 DEF Move, BaseInv
    <2> QED BY <2>2, <2>3, <2>4
  <1>6. CASE UNCHANGED vars
    BY <1>6 DEF vars, BaseInv
  <1> QED BY <1>2, <1>3, <1>4, <1>5, <1>6, NextCases

LEMMA InitBase == Init => BaseInv
  <1> SUFFICES ASSUME Init PROVE BaseInv
    OBVIOUS
  <1>1. TypeOK
    <2>1. pc \in [Threads -> Labels] /\ {overlapped, panicked} \subseteq BOOLEAN
      BY DEF Init, Labels
    <2>2. process_table \in [Slots -> Entries \union {NULL}] /\ {pid_counter, forkSem, execvSem, forks, execs} \subseteq Nat
      BY ProcAssumption DEF Init
    <2>3. /\ {pid, reg} \subseteq [Threads -> Nat] /\ child \in [Threads -> Threads]
          /\ {ptable_index, index} \subseteq [Threads -> Slots \union {NoSlot}]
      BY DEF Init
    <2> QED BY <2>1, <2>2, <2>3 DEF TypeOK
  <1>2. MenuInv /\ ChildInv /\ IndexInv
    BY MenuIsThread DEF Init, MenuInv, ChildInv, IndexInv, MidFork, WithIndex, SlotPicked, PidTaken, Waiting, ForkLabels
  <1>3. programs \in Int
    BY DEF Init
  <1> QED BY <1>1, <1>2, <1>3 DEF BaseInv

LEMMA BaseInvariance == Spec => []BaseInv
  <1>1. BaseInv /\ [Next]_vars => BaseInv'
    BY StepTypes, StepControl DEF BaseInv
  <1> QED BY <1>1, InitBase, PTL DEF Spec

-----------------------------------------------------------------------------
(* The permits of forkSem *)

Live == {t \in Started : pc[t] \notin ExitLabels \union {"zombie", "freed"}}
Forking == {t \in Threads \ {Menu} : pc[t] \in ForkLabels \ {"f_P", "f_ret"}}

LEMMA ThreadsFinite == \A S \in SUBSET Threads : IsFiniteSet(S) /\ Cardinality(S) \in Nat
  <1>1. IsFiniteSet(Threads)
    BY ProcAssumption, FS_Interval DEF Threads
  <1> QED BY <1>1, FS_Subset, FS_CardinalityType

LEMMA OneMore ==
  ASSUME NEW S \in SUBSET Threads, NEW t \in Threads, t \notin S
  PROVE  Cardinality(S \union {t}) = Cardinality(S) + 1 /\ Cardinality(S) \in Nat
  BY ThreadsFinite, FS_AddElement

LEMMA OneLess ==
  ASSUME NEW S \in SUBSET Threads, NEW t \in S
  PROVE  Cardinality(S \ {t}) = Cardinality(S) - 1 /\ Cardinality(S) \in Nat
  BY ThreadsFinite, FS_RemoveElement

\* A program of the menu's is live and has no permit.
LEMMA ProgramsCount ==
  ASSUME NEW f \in Nat, NEW a \in Nat, NEW b \in Nat, NEW k \in Nat, NEW p \in Int, f + a + b = k + p
  PROVE  f + (a + 1) + b = k + (p + 1) /\ f + (a - 1) + b = k + (p - 1)
  OBVIOUS

LEMMA StepPermits == BaseInv /\ ForkPermitsAccounted /\ [Next]_vars => ForkPermitsAccounted'
  <1> SUFFICES ASSUME BaseInv, ForkPermitsAccounted, [Next]_vars PROVE ForkPermitsAccounted'
    OBVIOUS
  <1> DEFINE Sum == forkSem + Cardinality(Live) + Cardinality(Forking)
  <1>0. /\ pc \in [Threads -> Labels] /\ forkSem \in Nat /\ programs \in Int /\ Menu \in Threads
        /\ pc[Menu] \in MenuLabels /\ ForkPermits \in Nat
        /\ \A t \in Threads : pc[t] \in MidFork => pc[child[t]] = "new" /\ child[t] \in Threads /\ child[t] # Menu
    BY MenuIsThread, ProcAssumption DEF BaseInv, TypeOK, MenuInv, ChildInv, MenuLabels, Waiting, ForkLabels
  <1>1. forkSem + Cardinality(Live) + Cardinality(Forking) = ForkPermits + programs
    BY DEF ForkPermitsAccounted, Live, Forking
  <1>2. Live \in SUBSET Threads /\ Forking \in SUBSET Threads
    BY DEF Live, Started, Forking
  <1>3. Cardinality(Live) \in Nat /\ Cardinality(Forking) \in Nat
    BY <1>2, ThreadsFinite
  <1>3a. /\ forkSem + (Cardinality(Live) + 1) + Cardinality(Forking) = ForkPermits + (programs + 1)
         /\ forkSem + (Cardinality(Live) - 1) + Cardinality(Forking) = ForkPermits + (programs - 1)
    <2> DEFINE a == Cardinality(Live)
               b == Cardinality(Forking)
    <2>1. a \in Nat /\ b \in Nat /\ forkSem \in Nat /\ ForkPermits \in Nat /\ programs \in Int
      BY <1>0, <1>3
    <2>2. forkSem + a + b = ForkPermits + programs
      BY <1>1
    <2> HIDE DEF a, b
    <2>3. forkSem + (a + 1) + b = ForkPermits + (programs + 1) /\ forkSem + (a - 1) + b = ForkPermits + (programs - 1)
      BY <2>1, <2>2, ProgramsCount
    <2> QED BY <2>3 DEF a, b
  <1>4. SUFFICES Sum' = ForkPermits + programs'
    BY DEF ForkPermitsAccounted, Live, Forking
  <1> USE <1>0 DEF sems, counts, Goto, Labels, ForkLabels, ExitLabels, MidFork, Waiting, MenuLabels
  <1>5. ASSUME Live' = Live, Forking' = Forking, UNCHANGED <<forkSem, programs>> PROVE Sum' = ForkPermits + programs'
    BY <1>1, <1>5
  <1>6. ASSUME NEW t \in Threads, Fork_call(t) PROVE Sum' = ForkPermits + programs'
    <2>1. PICK u \in Threads : /\ pc[u] = "unborn" /\ u # t
                               /\ pc' = [pc EXCEPT ![t] = IF t = Menu THEN "f_scan" ELSE "f_P", ![u] = "new"]
      BY <1>6, NewThread DEF BaseInv
    <2>2. pc[t] = "run" /\ UNCHANGED <<forkSem, programs>>
      BY <1>6 DEF Fork_call
    <2>3. Live' = Live /\ Forking' = Forking
      BY <2>1, <2>2 DEF Live, Started, Forking
    <2> QED BY <1>5, <2>2, <2>3
  <1>7. ASSUME NEW t \in Threads, Fork_P(t) PROVE Sum' = ForkPermits + programs'
    <2>1. Live' = Live /\ t \notin Forking /\ Forking' = Forking \union {t}
      BY <1>7 DEF Fork_P, Live, Started, Forking
    <2>2. Cardinality(Forking') = Cardinality(Forking) + 1
      BY <1>2, <2>1, OneMore
    <2>3. forkSem' = forkSem - 1 /\ programs' = programs
      BY <1>7 DEF Fork_P
    <2> QED BY <1>1, <1>3, <2>1, <2>2, <2>3
  <1>8. ASSUME NEW t \in Threads, Fork_start(t) PROVE Sum' = ForkPermits + programs'
    <2>1. child[t] \notin Live /\ Live' = Live \union {child[t]} /\ child[t] \in Threads
      BY <1>8 DEF Fork_start, Live, Started
    <2>2. Cardinality(Live') = Cardinality(Live) + 1
      BY <1>2, <2>1, OneMore
    <2>3. CASE t = Menu
      <3>1. Forking' = Forking /\ forkSem' = forkSem /\ programs' = programs + 1
        BY <1>8, <2>3 DEF Fork_start, Forking
      <3>2. Sum' = forkSem + (Cardinality(Live) + 1) + Cardinality(Forking)
        BY <2>2, <3>1
      <3>3. forkSem + (Cardinality(Live) + 1) + Cardinality(Forking) = ForkPermits + (programs + 1)
        BY <1>3a
      <3> QED BY <3>1, <3>2, <3>3
    <2>4. CASE t # Menu
      <3>1. t \in Forking /\ Forking' = Forking \ {t} /\ forkSem' = forkSem /\ programs' = programs
        BY <1>8, <2>4 DEF Fork_start, Forking
      <3>2. Cardinality(Forking') = Cardinality(Forking) - 1
        BY <1>2, <3>1, OneLess
      <3> QED BY <1>1, <1>3, <2>2, <3>1, <3>2
    <2> QED BY <2>3, <2>4
  <1>9. ASSUME NEW t \in Threads, Fork_undo(t) PROVE Sum' = ForkPermits + programs'
    <2>1. Live' = Live /\ programs' = programs
      BY <1>9 DEF Fork_undo, Live, Started
    <2>2. CASE t = Menu
      <3>1. Forking' = Forking /\ forkSem' = forkSem
        BY <1>9, <2>2 DEF Fork_undo, Forking
      <3> QED BY <1>5, <2>1, <3>1
    <2>3. CASE t # Menu
      <3>1. t \in Forking /\ Forking' = Forking \ {t} /\ forkSem' = forkSem + 1
        BY <1>9, <2>3 DEF Fork_undo, Forking
      <3>2. Cardinality(Forking') = Cardinality(Forking) - 1
        BY <1>2, <3>1, OneLess
      <3> QED BY <1>1, <1>3, <2>1, <3>1, <3>2
    <2> QED BY <2>2, <2>3
  <1>10. ASSUME NEW t \in Threads, Exit_call(t) PROVE Sum' = ForkPermits + programs'
    <2>1. t \in Live /\ Live' = Live \ {t} /\ Forking' = Forking /\ forkSem' = forkSem + 1 /\ programs' = programs
      BY <1>10 DEF Exit_call, Live, Started, Forking
    <2>2. Cardinality(Live') = Cardinality(Live) - 1
      BY <1>2, <2>1, OneLess
    <2> QED BY <1>1, <1>3, <2>1, <2>2
  <1>11. ASSUME NEW t \in Threads, ProgramNotLoaded(t) PROVE Sum' = ForkPermits + programs'
    <2>1. t \in Live /\ Live' = Live \ {t} /\ Forking' = Forking /\ forkSem' = forkSem /\ programs' = programs - 1
      BY <1>11 DEF ProgramNotLoaded, Live, Started, Forking
    <2>2. Cardinality(Live') = Cardinality(Live) - 1
      BY <1>2, <2>1, OneLess
    <2>3. Sum' = forkSem + (Cardinality(Live) - 1) + Cardinality(Forking)
      BY <2>1, <2>2
    <2>4. forkSem + (Cardinality(Live) - 1) + Cardinality(Forking) = ForkPermits + (programs - 1)
      BY <1>3a
    <2> QED BY <2>1, <2>3, <2>4
  <1>12. ASSUME NEW t \in Threads, Fork_scan(t) \/ Fork_load(t) \/ Fork_store(t) \/ Fork_pid(t) \/ Fork_init(t)
         PROVE  Sum' = ForkPermits + programs'
    <2>1. UNCHANGED <<forkSem, programs>>
      BY <1>12 DEF Fork_scan, Fork_load, Fork_store, Fork_pid, Fork_init
    <2>2. Live' = Live /\ Forking' = Forking
      BY <1>12 DEF Fork_scan, Fork_load, Fork_store, Fork_pid, Fork_init, Live, Started, Forking
    <2> QED BY <1>5, <2>1, <2>2
  <1>13. ASSUME NEW t \in Threads, Fork_fields(t) \/ Fork_copy(t) \/ Fork_ret(t) PROVE Sum' = ForkPermits + programs'
    <2>1. UNCHANGED <<forkSem, programs>>
      BY <1>13 DEF Fork_fields, Fork_copy, Fork_ret
    <2>2. Live' = Live /\ Forking' = Forking
      BY <1>13 DEF Fork_fields, Fork_copy, Fork_ret, Live, Started, Forking
    <2> QED BY <1>5, <2>1, <2>2
  <1>14. ASSUME NEW t \in Threads,
                ProgramLoaded(t) \/ Exit_execV(t) \/ Exit_exec2(t) \/ Exit_exited(t) \/ Exit_V(t) \/ Exorcise(t)
         PROVE  Sum' = ForkPermits + programs'
    <2>1. UNCHANGED <<forkSem, programs>>
      BY <1>14 DEF ProgramLoaded, Exit_execV, Exit_exec2, Exit_exited, Exit_V, Exorcise
    <2>2. Live' = Live /\ Forking' = Forking
      BY <1>14 DEF ProgramLoaded, Exit_execV, Exit_exec2, Exit_exited, Exit_V, Exorcise, Live, Started, Forking
    <2> QED BY <1>5, <2>1, <2>2
  <1>15. ASSUME NEW t \in Threads, Wait_call(t) \/ WaitStep(t) PROVE Sum' = ForkPermits + programs'
    <2>1. UNCHANGED <<forkSem, programs>>
      BY <1>15 DEF Wait_call, WaitStep, Wait_test, Wait_nohang, Wait_P, Wait_reap
    <2>2. /\ pc[t] \in {"run"} \union Waiting
          /\ pc' = pc \/ \E l \in {"run"} \union Waiting : pc' = [pc EXCEPT ![t] = l]
      BY <1>15 DEF Wait_call, WaitStep, Wait_test, Wait_nohang, Wait_P, Wait_reap
    <2>3. Live' = Live /\ Forking' = Forking
      BY <2>2 DEF Live, Started, Forking
    <2> QED BY <1>5, <2>1, <2>3
  <1>16. ASSUME NEW t \in Threads, Exec_call(t) \/ Exec_P(t) \/ Exec_V(t) PROVE Sum' = ForkPermits + programs'
    <2>1. UNCHANGED <<forkSem, programs>>
      BY <1>16 DEF Exec_call, Exec_P, Exec_V
    <2>2. Live' = Live /\ Forking' = Forking
      BY <1>16 DEF Exec_call, Exec_P, Exec_V, Live, Started, Forking
    <2> QED BY <1>5, <2>1, <2>2
  <1>17. CASE UNCHANGED vars
    <2>1. Live' = Live /\ Forking' = Forking /\ UNCHANGED <<forkSem, programs>>
      BY <1>17 DEF vars, Live, Started, Forking
    <2> QED BY <1>5, <2>1
  <1> QED BY <1>6, <1>7, <1>8, <1>9, <1>10, <1>11, <1>12, <1>13, <1>14, <1>15, <1>16, <1>17
          DEF Next, Call, Step, ForkStep, ExitStep, WaitStep

-----------------------------------------------------------------------------
(* One fork at a time *)

LEMMA StepOneForker ==
  ASSUME BaseInv, ~overlapped => OneForker, [Next]_vars, ~overlapped'
  PROVE  ~overlapped /\ OneForker'
  <1>0. pc \in [Threads -> Labels] /\ overlapped \in BOOLEAN
    BY DEF BaseInv, TypeOK
  <1>1. ASSUME NEW t \in Threads, Fork_call(t) PROVE ~overlapped /\ OneForker'
    <2>1. ~overlapped /\ \A u \in Threads : pc[u] \notin ForkLabels
      BY <1>0, <1>1 DEF Fork_call
    <2>2. \A u \in Threads : u # t => pc'[u] \notin ForkLabels
      BY <1>0, <1>1, <2>1, NewThread DEF BaseInv, ForkLabels
    <2> QED BY <2>1, <2>2 DEF OneForker
  <1>2. ASSUME NEW t \in Threads, Fork_start(t) \/ Fork_undo(t) PROVE ~overlapped /\ OneForker'
    <2>1. overlapped' = overlapped
      BY <1>2 DEF Fork_start, Fork_undo, counts
    <2>2. child[t] # t /\ child[t] \in Threads /\ pc[t] \in ForkLabels
      BY <1>2 DEF Fork_start, Fork_undo, BaseInv, ChildInv, TypeOK, MidFork, ForkLabels
    <2>3. \A u \in Threads : pc'[u] \in ForkLabels => pc[u] \in ForkLabels
      BY <1>0, <1>2, <2>2 DEF Fork_start, Fork_undo, ForkLabels
    <2> QED BY <2>1, <2>3 DEF OneForker
  <1>3. ASSUME NEW t \in Threads, Moves(t) PROVE ~overlapped /\ OneForker'
    <2>1. PICK l : Move(t, l)
      BY <1>3, MovesMove
    <2> QED BY <1>0, <2>1 DEF Move, OneForker
  <1>4. CASE UNCHANGED vars
    BY <1>4 DEF vars, OneForker
  <1> QED BY <1>1, <1>2, <1>3, <1>4, NextCases

LEMMA StepPids ==
  ASSUME BaseInv, OneForker, PidsUnique, PidsBelow, [Next]_vars
  PROVE  PidsUnique' /\ PidsBelow'
  <1> DEFINE Goal == PidsUnique /\ PidsBelow
             Before == {"f_store", "f_pid"} \union PidTaken
  <1>0. /\ pc \in [Threads -> Labels] /\ pid_counter \in Nat /\ pid \in [Threads -> Nat] /\ reg \in [Threads -> Nat]
        /\ child \in [Threads -> Threads]
    BY DEF BaseInv, TypeOK
  <1>0a. \A t \in Threads : pc[t] \in MidFork => pc[child[t]] = "new" /\ child[t] # t /\ child[t] # Menu
    BY DEF BaseInv, ChildInv, MenuInv, MidFork, ForkLabels, Waiting
  <1>0b. \A u \in Started : pid'[u] = pid[u]
    BY PidsStay DEF Started
  \* Steps that start nobody and leave the counter alone.
  <1>1. ASSUME Started' = Started, pid_counter' = pid_counter,
               \A t \in Threads : pc'[t] \in Before =>
                  /\ pc[t] = pc'[t] \/ (pc[t] \in PidTaken /\ pc'[t] \in PidTaken)
                  /\ reg'[t] = reg[t] /\ child'[t] = child[t] /\ pid'[child[t]] = pid[child[t]]
        PROVE  Goal'
    <2>1. PidsUnique'
      BY <1>1, <1>0b DEF PidsUnique
    <2>2. PidsBelow'
      <3>1. \A u \in Started' : 0 < pid'[u] /\ pid'[u] =< pid_counter'
        BY <1>1, <1>0b DEF PidsBelow
      <3>2. ASSUME NEW t \in Threads
            PROVE  /\ pc'[t] = "f_store" => reg'[t] = pid_counter'
                   /\ pc'[t] \in PidTaken \union {"f_pid"} =>
                        pid_counter' > 0 /\ \A u \in Started' : pid'[u] < pid_counter'
                   /\ pc'[t] \in PidTaken => pid'[child'[t]] = pid_counter'
        BY <1>1, <1>0b DEF PidsBelow, PidTaken
      <3> QED BY <3>1, <3>2 DEF PidsBelow
    <2> QED BY <2>1, <2>2
  <1>2. ASSUME NEW t \in Threads, Fork_call(t) PROVE Goal'
    <2>1. PICK u \in Threads : /\ pc[u] = "unborn" /\ u # t
                               /\ child' = [child EXCEPT ![t] = u]
                               /\ pc' = [pc EXCEPT ![t] = IF t = Menu THEN "f_scan" ELSE "f_P", ![u] = "new"]
      BY <1>2, NewThread DEF BaseInv
    <2>2. pc[t] = "run" /\ UNCHANGED <<pid, reg, pid_counter>>
      BY <1>2 DEF Fork_call, ids
    <2>3. Started' = Started
      BY <1>0, <2>1, <2>2 DEF Started
    <2> QED BY <1>0, <1>1, <2>1, <2>2, <2>3 DEF PidTaken
  <1>3. ASSUME NEW t \in Threads, Fork_start(t) PROVE Goal'
    <2> DEFINE c == child[t]
    <2>1. /\ pc[t] = "f_start" /\ pc[t] \in PidTaken /\ UNCHANGED <<pid, reg, pid_counter, child>>
          /\ c \in Threads /\ c # t /\ c # Menu /\ pc[c] = "new" /\ c \notin Started
          /\ pid[c] = pid_counter /\ pid_counter > 0 /\ \A u \in Started : pid[u] < pid_counter
      BY <1>0, <1>0a, <1>3 DEF Fork_start, ids, locals, PidsBelow, PidTaken, MidFork, ForkLabels, Started
    <2>2. Started' = Started \union {c}
      BY <1>0, <1>3, <2>1 DEF Fork_start, Started
    <2>3. \A u \in Threads : pc'[u] \notin Before
      BY <1>0, <1>3, <2>1 DEF Fork_start, OneForker, PidTaken, ForkLabels
    <2> HIDE DEF c
    <2>4. PidsUnique'
      <3>1. \A u, v \in Started \union {c} : pid[u] = pid[v] => u = v
        BY <1>0, <2>1 DEF PidsUnique, Started
      <3>2. \A u \in Started \union {c} : pid[u] > 0
        BY <2>1 DEF PidsUnique
      <3> QED BY <2>1, <2>2, <3>1, <3>2 DEF PidsUnique
    <2>5. PidsBelow'
      <3>1. \A u \in Started \union {c} : 0 < pid[u] /\ pid[u] =< pid_counter
        BY <1>0, <2>1 DEF PidsBelow
      <3> QED BY <2>1, <2>2, <2>3, <3>1 DEF PidsBelow
    <2> QED BY <2>4, <2>5
  <1>4. ASSUME NEW t \in Threads, Fork_undo(t) PROVE Goal'
    <2>1. UNCHANGED <<pid, pid_counter>> /\ pc[t] = "f_undo" /\ pc[child[t]] = "new" /\ child[t] \in Threads
      BY <1>0, <1>0a, <1>4 DEF Fork_undo, ids, MidFork, ForkLabels
    <2>2. Started' = Started
      BY <1>0, <1>4, <2>1 DEF Fork_undo, Started
    <2>3. \A u \in Threads : pc'[u] \in Before => /\ pc'[u] = pc[u]
                                                  /\ reg'[u] = reg[u] /\ child'[u] = child[u]
      BY <1>0, <1>4, <2>1 DEF Fork_undo, Forget, PidTaken
    <2> QED BY <1>1, <2>1, <2>2, <2>3
  <1>5. ASSUME NEW t \in Threads, Moves(t) PROVE Goal'
    <2>1. PICK l : Move(t, l)
      BY <1>5, MovesMove
    <2>2. Started' = Started
      BY <1>0, <2>1 DEF Move, Started
    <2>3. CASE Fork_load(t)
      <3>1. /\ pc' = [pc EXCEPT ![t] = "f_store"] /\ pc[t] = "f_load" /\ reg' = [reg EXCEPT ![t] = pid_counter]
            /\ UNCHANGED <<pid, pid_counter, child>>
        BY <2>3 DEF Fork_load, Goto, ids
      <3>2. \A u \in Threads : u # t => pc'[u] \notin Before
        BY <1>0, <3>1 DEF OneForker, PidTaken, ForkLabels
      <3>3. pc'[t] = "f_store" /\ reg'[t] = pid_counter
        BY <1>0, <3>1
      <3>4. PidsBelow'
        BY <2>2, <3>1, <3>2, <3>3 DEF PidsBelow, PidTaken
      <3> QED BY <2>2, <3>1, <3>4 DEF PidsUnique
    <2>4. CASE Fork_store(t)
      <3>1. /\ pc[t] = "f_store" /\ pid_counter' = pid_counter + 1
            /\ pc' = [pc EXCEPT ![t] = "f_undo"] \/ pc' = [pc EXCEPT ![t] = "f_pid"]
            /\ UNCHANGED <<pid, child, reg>>
        BY <2>4 DEF Fork_store, Goto, ids, locals, PidsBelow
      <3>2. \A u \in Threads : u # t => pc'[u] \notin Before
        BY <1>0, <3>1 DEF OneForker, PidTaken, ForkLabels
      <3>3. pc'[t] \in {"f_undo", "f_pid"}
        BY <1>0, <3>1
      <3>4. pid_counter' > 0 /\ \A u \in Started : 0 < pid[u] /\ pid[u] =< pid_counter' /\ pid[u] < pid_counter'
        <4>1. \A u \in Started : pid[u] \in Nat /\ 0 < pid[u] /\ pid[u] =< pid_counter
          BY <1>0 DEF PidsBelow, Started
        <4> QED BY <1>0, <3>1, <4>1
      <3>5. PidsBelow'
        BY <2>2, <3>1, <3>2, <3>3, <3>4 DEF PidsBelow, PidTaken
      <3> QED BY <2>2, <3>1, <3>5 DEF PidsUnique
    <2>5. CASE Fork_pid(t)
      <3>1. /\ pc[t] = "f_pid" /\ pc' = [pc EXCEPT ![t] = "f_init"]
            /\ pid' = [pid EXCEPT ![child[t]] = pid_counter] /\ UNCHANGED <<pid_counter, child, reg>>
        BY <2>5 DEF Fork_pid, Goto, locals
      <3>2. \A u \in Threads : u # t => pc'[u] \notin Before
        BY <1>0, <3>1 DEF OneForker, PidTaken, ForkLabels
      <3>3. pc'[t] = "f_init" /\ pid'[child[t]] = pid_counter
        BY <1>0, <3>1
      <3>4. PidsBelow'
        BY <1>0b, <2>2, <3>1, <3>2, <3>3 DEF PidsBelow, PidTaken
      <3> QED BY <1>0b, <2>2, <3>4 DEF PidsUnique
    <2>6. CASE ~Fork_load(t) /\ ~Fork_store(t) /\ ~Fork_pid(t)
      <3>1. UNCHANGED <<pid, pid_counter>>
        BY <1>5, <2>6 DEF Moves, ExitStep, WaitStep, ids, Fork_P, Fork_scan, Fork_init, Fork_fields, Fork_copy, Fork_ret,
           Exit_call, Exit_execV, Exit_exec2, Exit_exited, Exit_V, ProgramLoaded, ProgramNotLoaded, Exorcise,
           Wait_call, Wait_test, Wait_nohang, Wait_P, Wait_reap, Exec_call, Exec_P, Exec_V
      <3>2. /\ pc'[t] \in Before => pc[t] \in PidTaken /\ pc'[t] \in PidTaken /\ reg' = reg /\ child' = child
            /\ reg' = reg \/ reg' = [reg EXCEPT ![t] = 0]
        <4> USE <1>0 DEF PidTaken, Goto, locals
        <4>1. CASE Fork_P(t) \/ Fork_scan(t)
          BY <4>1 DEF Fork_P, Fork_scan
        <4>2. CASE Fork_init(t) \/ Fork_fields(t) \/ Fork_copy(t)
          BY <4>2 DEF Fork_init, Fork_fields, Fork_copy
        <4>3. CASE Fork_ret(t)
          BY <4>3 DEF Fork_ret, Forget
        <4>4. CASE Exit_call(t) \/ ExitStep(t)
          BY <4>4 DEF Exit_call, ExitStep, Exit_execV, Exit_exec2, Exit_exited, Exit_V, ProgramLoaded, ProgramNotLoaded,
                      Exorcise
        <4>5. CASE Wait_call(t) \/ Wait_P(t)
          BY <4>5 DEF Wait_call, Wait_P
        <4>6. CASE Wait_test(t)
          BY <4>6 DEF Wait_test
        <4>7. CASE Wait_nohang(t) \/ Wait_reap(t)
          BY <4>7 DEF Wait_nohang, Wait_reap, Forget
        <4>8. CASE Exec_call(t) \/ Exec_P(t) \/ Exec_V(t)
          BY <4>8 DEF Exec_call, Exec_P, Exec_V
        <4> QED BY <1>5, <2>6, <4>1, <4>2, <4>3, <4>4, <4>5, <4>6, <4>7, <4>8 DEF Moves, WaitStep
      <3>3. \A u \in Threads : u # t => pc'[u] = pc[u] /\ child'[u] = child[u] /\ reg'[u] = reg[u]
        BY <1>0, <2>1, <3>2 DEF Move
      <3> QED BY <1>1, <2>2, <3>1, <3>2, <3>3
    <2> QED BY <2>3, <2>4, <2>5, <2>6
  <1>6. CASE UNCHANGED vars
    BY <1>6 DEF vars, PidsUnique, PidsBelow, Started
  <1> QED BY <1>2, <1>3, <1>4, <1>5, <1>6, NextCases

-----------------------------------------------------------------------------
(* Table entries *)

\* Threads that run have different pids, the menu's being 0.
LEMMA RunnersApart ==
  ASSUME BaseInv, PidsUnique, NEW t \in Threads, NEW u \in Threads,
         pc[t] \notin {"unborn", "new"}, pc[u] \notin {"unborn", "new"}, pid[t] = pid[u]
  PROVE  t = u
  BY DEF PidsUnique, Started, BaseInv, MenuInv

\* The entry at index i is neither filled in nor destroyed, and stays the same
\* process's.
EntryKept(i) ==
  /\ process_table[i] = NULL <=> process_table'[i] = NULL
  /\ process_table[i] # NULL => /\ process_table'[i].pid = process_table[i].pid
                                /\ process_table'[i].ppid = process_table[i].ppid

LEMMA UpdateKeeps ==
  ASSUME TypeOK, NEW i, NEW e, Update(i, e),
         i \in Slots /\ process_table[i] # NULL =>
           e # NULL /\ e.pid = process_table[i].pid /\ e.ppid = process_table[i].ppid
  PROVE  \A j \in Slots : EntryKept(j)
  BY DEF Update, EntryKept, TypeOK

LEMMA UpdateOthers ==
  ASSUME TypeOK, NEW i, NEW e, Update(i, e), NEW j \in Slots, j # i
  PROVE  EntryKept(j)
  BY DEF Update, EntryKept, TypeOK

LEMMA ChildPidStays ==
  ASSUME BaseInv, NEW t \in Threads, Moves(t), NEW u \in Threads, u # t, pc[u] \in MidFork
  PROVE  pid'[child[u]] = pid[child[u]]
  <1>1. CASE Fork_pid(t)
    <2>1. child[t] # child[u]
      BY <1>1 DEF Fork_pid, BaseInv, ChildInv, MidFork, ForkLabels
    <2> QED BY <1>1, <2>1 DEF Fork_pid, BaseInv, TypeOK
  <1>2. CASE ~Fork_pid(t)
    <2>1. pid' = pid
      BY <1>2 DEF Moves, ExitStep, WaitStep, ids, Fork_P, Fork_scan, Fork_load, Fork_store, Fork_init, Fork_fields,
         Fork_copy, Fork_ret, Exit_call, Exit_execV, Exit_exec2, Exit_exited, Exit_V, ProgramLoaded, ProgramNotLoaded,
         Exorcise, Wait_call, Wait_test, Wait_nohang, Wait_P, Wait_reap, Exec_call, Exec_P, Exec_V
    <2> QED BY <2>1
  <1> QED BY <1>1, <1>2

\* A move of t leaves the entries of others right if it keeps them.
LEMMA OthersSlots ==
  ASSUME BaseInv, SlotInv, [Next]_vars, NEW t \in Threads, Moves(t), NEW u \in Threads, u # t,
         pc[u] \in WithIndex => EntryKept(index[u])
  PROVE  SlotOf(u)'
  <1>1. PICK l : Move(t, l)
    BY MovesMove
  <1>2. pc'[u] = pc[u] /\ index'[u] = index[u] /\ child'[u] = child[u]
    BY <1>1 DEF Move, BaseInv, TypeOK
  <1>3. pc[u] \in WithIndex => pid'[u] = pid[u]
    BY PidsStay DEF WithIndex, SlotPicked, PidTaken, Waiting
  <1>4. pc[u] \in {"f_copy", "f_start"} => pid'[child[u]] = pid[child[u]]
    BY ChildPidStays DEF MidFork, ForkLabels
  <1>5. SlotOf(u)
    BY DEF SlotInv
  <1> QED BY <1>2, <1>3, <1>4, <1>5 DEF SlotOf, EntryKept, WithIndex, SlotPicked, PidTaken, Waiting

LEMMA StepSlots ==
  ASSUME BaseInv, OneForker, PidsUnique, SlotInv, [Next]_vars
  PROVE  SlotInv'
  <1>0. /\ TypeOK /\ pc \in [Threads -> Labels] /\ pid \in [Threads -> Nat] /\ index \in [Threads -> Slots \union {NoSlot}]
        /\ child \in [Threads -> Threads] /\ process_table \in [Slots -> Entries \union {NULL}]
        /\ \A t \in Threads : pc[t] \in WithIndex => index[t] \in Slots
        /\ NULL \notin Entries
    BY ProcAssumption DEF BaseInv, TypeOK, IndexInv
  <1>0a. \A t \in Threads : pc[t] \in MidFork => pc[child[t]] = "new" /\ child[t] # t
    BY DEF BaseInv, ChildInv, MidFork, ForkLabels
  \* A move that keeps the entries others work on: only the mover is left.
  <1>1. ASSUME NEW t \in Threads, Moves(t), SlotOf(t)',
               \A u \in Threads : u # t /\ pc[u] \in WithIndex => EntryKept(index[u])
        PROVE  SlotInv'
    BY <1>1, OthersSlots DEF SlotInv
  <1>1a. ASSUME process_table' = process_table PROVE \A i : EntryKept(i)
    BY <1>1a DEF EntryKept
  <1>2. ASSUME NEW t \in Threads, Fork_call(t) PROVE SlotInv'
    <2>1. PICK u \in Threads : /\ pc[u] = "unborn" /\ u # t
                               /\ child' = [child EXCEPT ![t] = u]
                               /\ pc' = [pc EXCEPT ![t] = IF t = Menu THEN "f_scan" ELSE "f_P", ![u] = "new"]
      BY <1>2, NewThread DEF BaseInv
    <2>2. pc[t] = "run" /\ UNCHANGED <<pid, index, process_table>>
      BY <1>2 DEF Fork_call, ids
    <2>3. ASSUME NEW v \in Threads PROVE SlotOf(v)'
      <3>1. CASE v = t \/ v = u
        BY <1>0, <2>1, <3>1 DEF SlotOf, SlotPicked, Waiting
      <3>2. CASE v # t /\ v # u
        BY <1>0, <2>1, <2>2, <3>2 DEF SlotInv, SlotOf
      <3> QED BY <3>1, <3>2
    <2> QED BY <2>3 DEF SlotInv
  <1>3. ASSUME NEW t \in Threads, Fork_start(t) \/ Fork_undo(t) PROVE SlotInv'
    <2>1. /\ child[t] \in Threads /\ child[t] # t /\ UNCHANGED <<pid, process_table>>
          /\ pc'[t] \in {"f_ret", "run"} /\ pc'[child[t]] \in {"load", "run", "unborn"}
      BY <1>0, <1>0a, <1>3 DEF Fork_start, Fork_undo, ids, MidFork, ForkLabels
    <2>2. \A v \in Threads : v # t /\ v # child[t] => pc'[v] = pc[v] /\ index'[v] = index[v] /\ child'[v] = child[v]
      BY <1>0, <1>3, <2>1 DEF Fork_start, Fork_undo, Forget, locals
    <2>3. ASSUME NEW v \in Threads PROVE SlotOf(v)'
      <3>1. CASE v = t \/ v = child[t]
        BY <2>1, <3>1 DEF SlotOf, SlotPicked, Waiting
      <3>2. CASE v # t /\ v # child[t]
        BY <2>1, <2>2, <3>2 DEF SlotInv, SlotOf
      <3> QED BY <3>1, <3>2
    <2> QED BY <2>3 DEF SlotInv
  <1>4. ASSUME NEW t \in Threads, Fork_scan(t) PROVE SlotInv'
    <2> DEFINE free == {i \in Slots : process_table[i] = NULL}
               i0 == CHOOSE i \in free : \A j \in free : i =< j
    <2>1. free # {} => i0 \in free
      <3>1. free \in SUBSET Nat
        BY MenuIsThread
      <3> HIDE DEF free
      <3> QED BY <3>1, LeastChosen
    <2>2. process_table' = process_table /\ Moves(t)
      BY <1>4 DEF Fork_scan, Moves
    <2>3. pc'[t] = "f_undo" \/ (pc'[t] = "f_load" /\ free # {} /\ index'[t] = i0)
      BY <1>0, <1>4 DEF Fork_scan, Goto
    <2> HIDE DEF i0
    <2>4. SlotOf(t)'
      BY <2>1, <2>2, <2>3 DEF SlotOf, SlotPicked, Waiting
    <2> QED BY <1>1, <1>1a, <2>2, <2>4
  <1>5. ASSUME NEW t \in Threads, Fork_P(t) \/ Fork_load(t) \/ Fork_store(t) \/ Fork_pid(t) \/ Fork_ret(t) PROVE SlotInv'
    <2>1. process_table' = process_table /\ Moves(t)
      BY <1>5 DEF Fork_P, Fork_load, Fork_store, Fork_pid, Fork_ret, Moves
    <2>2. SlotOf(t)
      BY DEF SlotInv
    <2>3. SlotOf(t)'
      <3> USE <1>0, <2>1, <2>2 DEF SlotOf, SlotPicked, Waiting, Goto, locals
      <3>1. CASE Fork_P(t) BY <3>1 DEF Fork_P
      <3>2. CASE Fork_load(t) BY <3>2 DEF Fork_load
      <3>3. CASE Fork_store(t) BY <3>3 DEF Fork_store
      <3>4. CASE Fork_pid(t) BY <3>4 DEF Fork_pid
      <3>5. CASE Fork_ret(t) BY <3>5 DEF Fork_ret
      <3> QED BY <1>5, <3>1, <3>2, <3>3, <3>4, <3>5
    <2> QED BY <1>1, <1>1a, <2>1, <2>3
  <1>6. ASSUME NEW t \in Threads, Fork_init(t) PROVE SlotInv'
    <2>0. Moves(t) /\ pc[t] = "f_init" /\ index[t] \in Slots /\ process_table[index[t]] = NULL /\ index' = index
      BY <1>0, <1>6 DEF Fork_init, Moves, SlotInv, SlotOf, SlotPicked, WithIndex, locals
    <2>1. CASE process_table' = process_table /\ pc'[t] = "f_undo"
      <3>1. SlotOf(t)'
        BY <2>1 DEF SlotOf, SlotPicked, Waiting
      <3> QED BY <1>1, <1>1a, <2>0, <2>1, <3>1
    <2>2. CASE /\ process_table' = [process_table EXCEPT ![index[t]] =
                                      [pid |-> PID_MAX, ppid |-> 0, exitsem |-> 0, exited |-> FALSE]]
               /\ pc'[t] = "f_fields"
      <3> DEFINE e == [pid |-> PID_MAX, ppid |-> 0, exitsem |-> 0, exited |-> FALSE]
      <3>1. e \in Entries /\ e.pid = PID_MAX
        BY ProcAssumption DEF Entries
      <3>2. process_table' = [process_table EXCEPT ![index[t]] = e]
        BY <2>2
      <3> HIDE DEF e
      <3>3. SlotOf(t)'
        BY <1>0, <2>0, <2>2, <3>1, <3>2 DEF SlotOf, SlotPicked, Waiting
      <3>4. ASSUME NEW u \in Threads, u # t, pc[u] \in WithIndex PROVE EntryKept(index[u])
        <4>1. pc[u] \in Waiting
          BY <2>0, <3>4 DEF OneForker, WithIndex, SlotPicked, PidTaken, Waiting, ForkLabels
        <4>2. index[u] # index[t] /\ index[u] \in Slots
          BY <1>0, <2>0, <3>4, <4>1 DEF SlotInv, SlotOf
        <4> QED BY <1>0, <3>2, <4>2 DEF EntryKept
      <3> QED BY <1>1, <2>0, <3>3, <3>4
    <2>3. \/ process_table' = process_table /\ pc'[t] = "f_undo"
          \/ /\ process_table' = [process_table EXCEPT ![index[t]] =
                                    [pid |-> PID_MAX, ppid |-> 0, exitsem |-> 0, exited |-> FALSE]]
             /\ pc'[t] = "f_fields"
      BY <1>0, <1>6 DEF Fork_init, Goto
    <2> QED BY <2>1, <2>2, <2>3
  <1>7. ASSUME NEW t \in Threads, Fork_fields(t) PROVE SlotInv'
    <2> DEFINE e == [process_table[index[t]] EXCEPT !.pid = pid[child[t]], !.ppid = pid[t]]
    <2>0. /\ Moves(t) /\ pc[t] = "f_fields" /\ index[t] \in Slots /\ process_table[index[t]] \in Entries
          /\ process_table[index[t]] # NULL /\ process_table[index[t]].pid = PID_MAX
          /\ Update(index[t], e) /\ UNCHANGED <<index, child, pid>> /\ pc'[t] = "f_copy"
      BY <1>0, <1>7 DEF Fork_fields, Moves, SlotInv, SlotOf, PidTaken, WithIndex, locals, ids, Goto
    <2>1. e \in Entries /\ e.pid = pid[child[t]] /\ e.ppid = pid[t]
      BY <1>0, <2>0 DEF Entries
    <2> HIDE DEF e
    <2>2. process_table'[index[t]] = e
      BY <1>0, <2>0 DEF Update
    <2>3. SlotOf(t)'
      BY <1>0, <2>0, <2>1, <2>2 DEF SlotOf, SlotPicked, Waiting
    <2>4. ASSUME NEW u \in Threads, u # t, pc[u] \in WithIndex PROVE EntryKept(index[u])
      <3>1. pc[u] \in Waiting
        BY <2>0, <2>4 DEF OneForker, WithIndex, SlotPicked, PidTaken, Waiting, ForkLabels
      <3>2. index[u] # index[t] /\ index[u] \in Slots
        BY <1>0, <2>0, <2>4, <3>1, ProcAssumption DEF SlotInv, SlotOf
      <3> QED BY <1>0, <2>0, <3>2, UpdateOthers
    <2> QED BY <1>1, <2>0, <2>3, <2>4
  <1>8. ASSUME NEW t \in Threads, Fork_copy(t) PROVE SlotInv'
    <2>0. /\ Moves(t) /\ pc[t] = "f_copy" /\ index[t] \in Slots /\ SlotOf(t) /\ UNCHANGED <<index, child, pid>>
          /\ \/ pc'[t] = "f_start" /\ process_table' = process_table
             \/ pc'[t] = "f_undo" /\ Update(index[t], NULL)
      BY <1>0, <1>8 DEF Fork_copy, destroy_process, Moves, SlotInv, PidTaken, WithIndex, locals, ids, Goto
    <2>1. SlotOf(t)'
      BY <2>0 DEF SlotOf, SlotPicked, Waiting
    <2>2. ASSUME NEW u \in Threads, u # t, pc[u] \in WithIndex PROVE EntryKept(index[u])
      <3>1. pc[u] \in Waiting
        BY <2>0, <2>2 DEF OneForker, WithIndex, SlotPicked, PidTaken, Waiting, ForkLabels
      <3>2. index[u] # index[t] /\ index[u] \in Slots
        BY <1>0, <2>0, <2>2, <3>1, RunnersApart DEF SlotInv, SlotOf, Waiting
      <3> QED BY <1>0, <1>1a, <2>0, <3>2, UpdateOthers
    <2> QED BY <1>1, <2>0, <2>1, <2>2
  <1>9. ASSUME NEW t \in Threads, Exit_exited(t) \/ Exit_V(t) PROVE SlotInv'
    <2>0. Moves(t) /\ pc'[t] \in {"x_V", "zombie"}
      BY <1>0, <1>9 DEF Exit_exited, Exit_V, Moves, ExitStep, Goto
    <2>1. \A j \in Slots : EntryKept(j)
      <3> DEFINE p == ptable_index[t]
                 e == [process_table[p] EXCEPT !.exited = TRUE]
                 f == [process_table[p] EXCEPT !.exitsem = @ + 1]
      <3>0. p \in Slots /\ process_table[p] # NULL => process_table[p] \in Entries
        BY <1>0
      <3>1. p \in Slots /\ process_table[p] # NULL => e \in Entries /\ e.pid = process_table[p].pid /\ e.ppid = process_table[p].ppid
        BY <3>0 DEF Entries
      <3>1a. p \in Slots /\ process_table[p] # NULL => f \in Entries /\ f.pid = process_table[p].pid /\ f.ppid = process_table[p].ppid
        BY <3>0 DEF Entries
      <3>2. Update(p, e) \/ Update(p, f)
        BY <1>9 DEF Exit_exited, Exit_V
      <3> HIDE DEF p, e, f
      <3> QED BY <1>0, <3>1, <3>1a, <3>2, UpdateKeeps
    <2>2. SlotOf(t)'
      BY <2>0 DEF SlotOf, SlotPicked, Waiting
    <2> QED BY <1>0, <1>1, <2>0, <2>1, <2>2
  <1>10. ASSUME NEW t \in Threads, Exit_call(t) \/ Exit_execV(t) \/ Exit_exec2(t) \/ ProgramLoaded(t)
                                   \/ ProgramNotLoaded(t) \/ Exorcise(t)
         PROVE  SlotInv'
    <2>0. Moves(t) /\ process_table' = process_table /\ pc'[t] \in {"run", "x_execV", "x_exec2", "x_exited", "zombie", "freed"}
      BY <1>0, <1>10 DEF Exit_call, Exit_execV, Exit_exec2, ProgramLoaded, ProgramNotLoaded, Exorcise, Moves, ExitStep, Goto
    <2>1. SlotOf(t)'
      BY <2>0 DEF SlotOf, SlotPicked, Waiting
    <2> QED BY <1>1, <1>1a, <2>0, <2>1
  <1>11. ASSUME NEW t \in Threads, Wait_call(t) PROVE SlotInv'
    <2>1. PICK i \in Slots : /\ process_table[i] # NULL /\ process_table[i].pid < PID_MAX
                             /\ process_table[i].ppid = pid[t] /\ index' = [index EXCEPT ![t] = i]
      BY <1>11 DEF Wait_call
    <2>2. Moves(t) /\ process_table' = process_table /\ pid' = pid /\ pc'[t] = "w_test"
      BY <1>0, <1>11 DEF Wait_call, Moves, Goto, ids
    <2>3. SlotOf(t)'
      BY <1>0, <2>1, <2>2 DEF SlotOf, SlotPicked, Waiting
    <2> QED BY <1>1, <1>1a, <2>2, <2>3
  <1>12. ASSUME NEW t \in Threads, Wait_test(t) \/ Wait_nohang(t) PROVE SlotInv'
    <2>1. Moves(t) /\ process_table' = process_table /\ pid' = pid
      BY <1>12 DEF Wait_test, Wait_nohang, Moves, WaitStep, ids
    <2>2. pc[t] = "w_test" /\ SlotOf(t) /\ (pc'[t] = "run" \/ (pc'[t] \in Waiting /\ index'[t] = index[t]))
      BY <1>0, <1>12 DEF Wait_test, Wait_nohang, Goto, SlotInv, Waiting, locals
    <2>3. SlotOf(t)'
      BY <2>1, <2>2 DEF SlotOf, SlotPicked, Waiting
    <2> QED BY <1>1, <1>1a, <2>1, <2>3
  <1>13. ASSUME NEW t \in Threads, Wait_P(t) PROVE SlotInv'
    <2> DEFINE e == [process_table[index[t]] EXCEPT !.exitsem = @ - 1]
    <2>1. /\ Moves(t) /\ pc[t] = "w_P" /\ pc'[t] = "w_reap" /\ SlotOf(t) /\ UNCHANGED <<pid, index>>
          /\ index[t] \in Slots /\ process_table[index[t]] # NULL /\ Update(index[t], e)
          /\ process_table[index[t]].exitsem > 0
      BY <1>0, <1>13 DEF Wait_P, Moves, WaitStep, ids, locals, Goto, SlotInv, SlotOf, Waiting, WithIndex
    <2>2. e \in Entries /\ e.pid = process_table[index[t]].pid /\ e.ppid = process_table[index[t]].ppid
      BY <1>0, <2>1 DEF Entries
    <2> HIDE DEF e
    <2>3. \A j \in Slots : EntryKept(j)
      BY <1>0, <2>1, <2>2, UpdateKeeps
    <2>4. SlotOf(t)'
      BY <2>1, <2>3 DEF SlotOf, SlotPicked, Waiting, EntryKept
    <2> QED BY <1>0, <1>1, <2>1, <2>3, <2>4
  <1>14. ASSUME NEW t \in Threads, Wait_reap(t) PROVE SlotInv'
    <2>1. /\ Moves(t) /\ pc[t] = "w_reap" /\ pc'[t] = "run" /\ SlotOf(t) /\ index[t] \in Slots
          /\ Update(index[t], NULL)
      BY <1>0, <1>14 DEF Wait_reap, destroy_process, Moves, WaitStep, Goto, SlotInv, Waiting, WithIndex
    <2>2. SlotOf(t)'
      BY <2>1 DEF SlotOf, SlotPicked, Waiting
    <2>3. ASSUME NEW u \in Threads, u # t, pc[u] \in WithIndex PROVE EntryKept(index[u])
      <3>1. SlotOf(u) /\ index[u] \in Slots /\ pid[u] # pid[t]
        BY <1>0, <2>1, <2>3, RunnersApart DEF SlotInv, WithIndex, SlotPicked, PidTaken, Waiting
      <3>2. index[u] # index[t]
        <4>0. process_table[index[t]] # NULL /\ process_table[index[t]].pid < PID_MAX /\ process_table[index[t]].ppid = pid[t]
          BY <2>1 DEF SlotOf, Waiting
        <4>1. CASE pc[u] \in SlotPicked
          BY <3>1, <4>0, <4>1 DEF SlotOf
        <4>2. CASE pc[u] = "f_fields"
          BY <3>1, <4>0, <4>2, ProcAssumption DEF SlotOf
        <4>3. CASE pc[u] \in {"f_copy", "f_start"} \union Waiting
          BY <3>1, <4>0, <4>3 DEF SlotOf
        <4> QED BY <2>3, <4>1, <4>2, <4>3 DEF WithIndex, PidTaken, SlotPicked
      <3> QED BY <1>0, <2>1, <3>1, <3>2, UpdateOthers
    <2> QED BY <1>1, <2>1, <2>2, <2>3
  <1>15. ASSUME NEW t \in Threads, Exec_call(t) \/ Exec_P(t) \/ Exec_V(t) PROVE SlotInv'
    <2>0. Moves(t) /\ process_table' = process_table /\ pc'[t] \in {"run", "e_P", "e_V"}
      BY <1>0, <1>15 DEF Exec_call, Exec_P, Exec_V, Moves, Goto
    <2>1. SlotOf(t)'
      BY <2>0 DEF SlotOf, SlotPicked, Waiting
    <2> QED BY <1>1, <1>1a, <2>0, <2>1
  <1>16. CASE UNCHANGED vars
    BY <1>16 DEF vars, SlotInv, SlotOf
  <1> QED BY <1>2, <1>3, <1>4, <1>5, <1>6, <1>7, <1>8, <1>9, <1>10, <1>11, <1>12, <1>13, <1>14, <1>15, <1>16, NextCases
          DEF Moves, ExitStep, WaitStep

-----------------------------------------------------------------------------
(* The process table: the theorems *)

LEMMA OneForkInvariance == Spec => []OneForkInv
  <1>1. Init => OneForkInv
    <2>1. Init => OneForker /\ PidsUnique /\ PidsBelow /\ SlotInv
      BY DEF Init, OneForker, PidsUnique, PidsBelow, SlotInv, SlotOf, Started, ForkLabels, PidTaken, SlotPicked, Waiting
    <2> QED BY <2>1 DEF OneForkInv
  <1>2. BaseInv /\ OneForkInv /\ [Next]_vars => OneForkInv'
    <2> SUFFICES ASSUME BaseInv, OneForkInv, [Next]_vars, ~overlapped'
                 PROVE  (OneForker /\ PidsUnique /\ PidsBelow /\ SlotInv)'
      BY DEF OneForkInv
    <2>1. ~overlapped /\ OneForker'
      BY StepOneForker DEF OneForkInv
    <2> QED BY <2>1, StepPids, StepSlots DEF OneForkInv
  <1> QED BY <1>1, <1>2, BaseInvariance, PTL DEF Spec

\* The variables of fork, _exit, waitpid and execv keep their types whatever
\* threads do to each other's entries: no semaphore's count is ever negative.
THEOREM TypeCorrect == Spec => []TypeOK
  <1>1. BaseInv => TypeOK
    BY DEF BaseInv
  <1> QED BY <1>1, BaseInvariance, PTL

\* forkSem: a permit is out for each fork under way and each live process, but
\* for the programs the menu started, however forks overlap and fail.
THEOREM PermitsAccounted == Spec => []ForkPermitsAccounted
  <1>1. Init => ForkPermitsAccounted
    <2> SUFFICES ASSUME Init PROVE ForkPermitsAccounted
      OBVIOUS
    <2>1. Live = {} /\ Forking = {}
      BY DEF Init, Live, Started, Forking, ForkLabels
    <2>2. forkSem = ForkPermits /\ programs = 0 /\ ForkPermits \in Nat
      BY ProcAssumption DEF Init
    <2> QED BY <2>1, <2>2, FS_EmptySet DEF ForkPermitsAccounted, Live, Forking
  <1> QED BY <1>1, StepPermits, BaseInvariance, PTL DEF Spec

\* fork gives out pids that are unique and positive as long as no two calls of
\* thread_fork overlap, for any number of forks, exits and waits.
THEOREM UniquePids == Spec => []PidsUniqueUnlessOverlap
  <1>1. OneForkInv => PidsUniqueUnlessOverlap
    BY DEF OneForkInv, PidsUniqueUnlessOverlap
  <1> QED BY <1>1, OneForkInvariance, PTL

\* The index pid_alloc found stays the new process's own until it is started,
\* as long as no two calls of thread_fork overlap: waitpid of others never
\* destroys the entry.
THEOREM SlotStaysMine == Spec => []PickedSlotStillMine
  <1>1. OneForkInv => PickedSlotStillMine
    BY DEF OneForkInv, PickedSlotStillMine, SlotInv, SlotOf, SlotPicked, HasPid
  <1> QED BY <1>1, OneForkInvariance, PTL

-----------------------------------------------------------------------------
(* Memory: what the coremap, its chunks and the address spaces say of each  *)
(* other, as long as nothing was damaged.                                   *)

CmEntry == [chunk_cnt : Nat, is_allocated : BOOLEAN, is_kern_page : BOOLEAN]
Chunk == [base : Pages, npages : Nat \ {0}, kern : BOOLEAN]

ChunkTypes ==
    /\ coremap \in [Pages -> CmEntry]
    /\ live \subseteq Chunk
    /\ \A c \in live : c.base + c.npages =< cm_entries /\ (~c.kern => c.npages = 1)

\* An entry of the coremap is marked for the chunk it is in, and clear when it
\* is in none.
Marked(c) == [chunk_cnt |-> c.npages, is_allocated |-> TRUE, is_kern_page |-> c.kern]
Marks ==
    /\ \A c \in live : \A i \in PagesOf(c) : coremap[i] = Marked(c)
    /\ \A i \in Pages : (\E c \in live : i \in PagesOf(c)) \/ coremap[i] = FreeEntry

CmGood == ChunkTypes /\ ChunksDisjoint /\ Marks

\* A page entry's frame is a user chunk of one page.
UserChunk(f) == [base |-> f, npages |-> 1, kern |-> FALSE]

\* Who has which frame, at which place of its tables.
Holdings == UNION {{<<s, i, SpaceOf(s).entries[i].frame>> :
                       i \in DOMAIN SpaceOf(s).entries} : s \in Spaces}

Owned ==
    /\ \A h \in Holdings : UserChunk(h[3]) \in live
    /\ \A h, g \in Holdings : h[3] = g[3] => h = g
    /\ \A c \in live : ~c.kern => \E h \in Holdings : h[3] = c.base

Space == [vstart : Nat, vbreakbase : Nat, vbreaktop : Nat, heapNPages : Nat,
          entries : Seq([vaddr : Nat, frame : Pages]), end : Nat]

Modes == {"none", "user", "load", "destroyed", "sbrk", "fork"}

\* as->end is not beyond the last table.
EndInLast(space) == space.end =< 1 \/ (space.end - 1) * PTABLE_ARRAY_SIZE < Len(space.entries)

\* The end of the heap's pages, by count, when n more are on their way; the
\* break is in the last of them.
Have(space) == space.vbreakbase + space.heapNPages * PAGE_SIZE

Reach(space, n) ==
    /\ space.vbreakbase % PAGE_SIZE = 0 /\ space.vbreakbase =< space.vbreaktop
    /\ space.vbreaktop =< Have(space) + n * PAGE_SIZE
    /\ Have(space) + n * PAGE_SIZE < space.vbreaktop + PAGE_SIZE

\* Every page of the heap is mapped, or will be.
Backed(space, more) ==
    \A a \in space.vbreakbase .. space.vbreaktop - 1 :
        Page(a) \in Mapped(space) \cup more

Elems(s) == {s[i] : i \in DOMAIN s}

HeapOK(space) == Reach(space, 0) /\ Backed(space, {})
NoHeap(space) == Reach(space, 0) /\ space.vbreaktop = space.vbreakbase

\* What the two spaces of a process are, by what the process is doing: a is
\* as[p], o is old[p], m its mode, t its todo and b says whether it is bent.
ModeOK(a, o, m, t) ==
    /\ EndInLast(a) /\ EndInLast(o)
    /\ m = "none" => a = NoAs
    /\ m \in {"none", "user", "sbrk"} => o = NoAs
    /\ m \in {"none", "user", "destroyed"} => t = <<>>
    /\ m \in {"user", "sbrk", "load", "fork"} => a.end > 0
    /\ m = "fork" => o.end > 0
    /\ m \in {"load", "destroyed"} /\ o # NoAs => o.end > 0

HeapsOK(a, o, m, t, b) ==
    /\ m = "load" => NoHeap(a)
    /\ m = "fork" => NoHeap(o)
    /\ ~b =>
         /\ m \in {"none", "user", "fork"} => HeapOK(a)
         /\ m = "sbrk" => Reach(a, Len(t)) /\ Backed(a, Elems(t))
         /\ m \in {"load", "destroyed"} => HeapOK(o)

ProcInv ==
    /\ as \in [Procs -> Space] /\ old \in [Procs -> Space]
    /\ mode \in [Procs -> Modes]
    /\ todo \in [Procs -> Seq(Nat)]
    /\ \A p \in Procs : /\ ModeOK(as[p], old[p], mode[p], todo[p])
                        /\ HeapsOK(as[p], old[p], mode[p], todo[p], p \in bent)

Good == CmGood /\ Owned /\ ProcInv
IInv == Undamaged => Good

-----------------------------------------------------------------------------
(* Numbers *)

LEMMA MultipleIs ==
  ASSUME NEW d \in Nat \ {0}, NEW x \in Nat, x % d = 0
  PROVE  \E q \in Nat : x = q * d
  OBVIOUS

\* Two multiples of d are d apart or more.
LEMMA MultiplesApart ==
  ASSUME NEW d \in Nat \ {0}, NEW x \in Nat, NEW y \in Nat, x % d = 0, y % d = 0, x < y
  PROVE  x + d =< y
  <1>1. PICK q \in Nat : x = q * d
    BY MultipleIs
  <1>2. PICK r \in Nat : y = r * d
    BY MultipleIs
  <1>3. q < r
    BY <1>1, <1>2
  <1>4. (q + 1) * d =< r * d
    BY <1>3
  <1> QED BY <1>1, <1>2, <1>4

LEMMA PageBelow ==
  ASSUME NEW a \in Nat
  PROVE  /\ Page(a) \in Nat /\ Page(a) % PAGE_SIZE = 0
         /\ Page(a) =< a /\ a < Page(a) + PAGE_SIZE
  <1>1. PAGE_SIZE \in Nat \ {0}
    BY AddrSpaceAssumption
  <1>2. a % PAGE_SIZE \in 0 .. PAGE_SIZE - 1 /\ a % PAGE_SIZE =< a
    BY <1>1
  <1>3. Page(a) = (a \div PAGE_SIZE) * PAGE_SIZE /\ a \div PAGE_SIZE \in Nat
    BY <1>1 DEF Page
  <1>4. Page(a) % PAGE_SIZE = 0
    BY <1>1, <1>3
  <1> QED BY <1>1, <1>2, <1>4 DEF Page

LEMMA PagesOn ==
  ASSUME NEW x \in Nat, x % PAGE_SIZE = 0, NEW n \in Nat
  PROVE  x + n * PAGE_SIZE \in Nat /\ (x + n * PAGE_SIZE) % PAGE_SIZE = 0
  <1>1. PAGE_SIZE \in Nat \ {0}
    BY AddrSpaceAssumption
  <1>2. PICK q \in Nat : x = q * PAGE_SIZE
    BY <1>1
  <1>3. x + n * PAGE_SIZE = (q + n) * PAGE_SIZE
    BY <1>1, <1>2
  <1>4. ((q + n) * PAGE_SIZE) % PAGE_SIZE = 0
    BY <1>1
  <1> QED BY <1>1, <1>3, <1>4

LEMMA PageIs ==
  ASSUME NEW a \in Nat, NEW x \in Nat, x % PAGE_SIZE = 0, x =< a, a < x + PAGE_SIZE
  PROVE  Page(a) = x
  <1>1. PAGE_SIZE \in Nat \ {0}
    BY AddrSpaceAssumption
  <1>2. Page(a) \in Nat /\ Page(a) % PAGE_SIZE = 0 /\ Page(a) =< a /\ a < Page(a) + PAGE_SIZE
    BY PageBelow
  <1>3. Page(a) < x => Page(a) + PAGE_SIZE =< x
    BY <1>1, <1>2, MultiplesApart
  <1>4. x < Page(a) => x + PAGE_SIZE =< Page(a)
    BY <1>1, <1>2, MultiplesApart
  <1> QED BY <1>1, <1>2, <1>3, <1>4

LEMMA NeededCovers ==
  ASSUME NEW d \in Nat
  PROVE  /\ PagesNeeded(d) \in Nat
         /\ d =< PagesNeeded(d) * PAGE_SIZE /\ PagesNeeded(d) * PAGE_SIZE < d + PAGE_SIZE
  <1>1. PAGE_SIZE \in Nat \ {0}
    BY AddrSpaceAssumption
  <1>2. PICK q \in Nat : q = d \div PAGE_SIZE
    BY <1>1
  <1>3. PICK r \in Nat : r = d % PAGE_SIZE /\ r < PAGE_SIZE
    BY <1>1
  <1>4. PICK m \in Nat : m = q * PAGE_SIZE
    BY <1>1
  <1>5. d - (d % PAGE_SIZE) = (d \div PAGE_SIZE) * PAGE_SIZE
    BY <1>1
  <1>6. d - r = m
    BY <1>2, <1>3, <1>4, <1>5
  <1>7. (q + 1) * PAGE_SIZE = m + PAGE_SIZE
    BY <1>1, <1>4
  <1>8. CASE r = 0
    <2>1. PagesNeeded(d) = q
      BY <1>2, <1>3, <1>8 DEF PagesNeeded
    <2> QED BY <1>1, <1>4, <1>6, <1>8, <2>1
  <1>9. CASE r # 0
    <2>1. PagesNeeded(d) = q + 1
      BY <1>2, <1>3, <1>9 DEF PagesNeeded
    <2>2. m + PAGE_SIZE \in Nat /\ d =< m + PAGE_SIZE /\ m + PAGE_SIZE < d + PAGE_SIZE
      BY <1>1, <1>3, <1>6, <1>9
    <2> QED BY <1>7, <2>1, <2>2
  <1> QED BY <1>8, <1>9

-----------------------------------------------------------------------------
(* Address spaces *)

LEMMA Sizes ==
  /\ PAGE_SIZE \in Nat \ {0} /\ PTABLE_ARRAY_SIZE \in Nat \ {0}
  /\ AddrMod \in Nat \ {0} /\ CodeStart \in Nat /\ STACK_BASE \in Nat /\ USERSTACK \in Nat
  BY AddrSpaceAssumption

LEMMA EmptySpaces ==
  ASSUME NEW space \in {NoAs, as_create}
  PROVE  /\ space \in Space /\ EndInLast(space) /\ NoHeap(space) /\ HeapOK(space)
         /\ space.entries = <<>>
  <1>1. /\ space.vbreakbase = 0 /\ space.vbreaktop = 0 /\ space.heapNPages = 0
        /\ space.entries = <<>> /\ space.end \in {0, 1} /\ space.vstart = 0
    BY DEF NoAs, as_create
  <1>2. space \in Space
    <2>1. <<>> \in Seq([vaddr : Nat, frame : Pages])
      OBVIOUS
    <2>2. as_create \in Space
      BY <2>1 DEF as_create, Space
    <2>3. NoAs \in Space
      BY <2>2 DEF NoAs, Space
    <2> QED BY <2>2, <2>3
  <1>3. Have(space) = 0
    BY <1>1, Sizes DEF Have
  <1>4. 0 % PAGE_SIZE = 0 /\ 0 * PAGE_SIZE = 0
    BY Sizes
  <1>5. Reach(space, 0)
    <2>1. Have(space) + 0 * PAGE_SIZE = 0
      BY <1>3, <1>4
    <2>2. 0 =< 0 /\ 0 < 0 + PAGE_SIZE
      BY Sizes
    <2> QED BY <1>1, <1>4, <2>1, <2>2 DEF Reach
  <1>6. Backed(space, {})
    BY <1>1 DEF Backed
  <1> QED BY <1>1, <1>2, <1>5, <1>6 DEF EndInLast, NoHeap, HeapOK

LEMMA NoHeapOK ==
  ASSUME NEW space \in Space, NoHeap(space)
  PROVE  HeapOK(space)
  BY DEF NoHeap, HeapOK, Backed, Space

\* A table more is needed only when all are full, and then end is the last.
LEMMA AddEntry ==
  ASSUME NEW space \in Space, EndInLast(space), space.end > 0, ~Severs(space),
         NEW v \in Nat, NEW f \in Pages
  PROVE  /\ \E e \in Nat \ {0} :
              addPageEntry(space, v, f) =
                [space EXCEPT !.end = e, !.entries = Append(@, [vaddr |-> v, frame |-> f])]
         /\ EndInLast(addPageEntry(space, v, f))
  <1> DEFINE S == PTABLE_ARRAY_SIZE
             n == Len(space.entries)
             x == [vaddr |-> v, frame |-> f]
  <1>1. S \in Nat \ {0} /\ n \in Nat /\ space.end \in Nat \ {0}
        /\ space.entries \in Seq([vaddr : Nat, frame : Pages])
    BY Sizes DEF Space
  <1>2. Len(Append(space.entries, x)) = n + 1
    BY <1>1
  <1>3. PICK before \in Nat : before = (space.end - 1) * S
    BY <1>1
  <1>4. space.end * S = before + S /\ before % S = 0
    <2>1. PICK k \in Nat : k = space.end - 1 /\ space.end = k + 1
      BY <1>1
    <2>2. (k + 1) * S = k * S + S /\ (k * S) % S = 0
      BY <1>1
    <2> QED BY <1>3, <2>1, <2>2
  <1>5. space.end = 1 \/ before < n
    BY <1>1, <1>3 DEF EndInLast
  <1>6. space.end = 1 => before = 0
    BY <1>1, <1>3
  <1>7. CASE Full(space)
    <2>1. n > 0 /\ n % S = 0 /\ ~(before + S < n)
      BY <1>1, <1>4, <1>7 DEF Full, Severs
    <2>2. before < n
      BY <1>1, <1>3, <1>5, <1>6, <2>1
    <2>3. before + S =< n
      BY <1>1, <1>3, <1>4, <2>1, <2>2, MultiplesApart
    <2>4. space.end * S = n
      BY <1>1, <1>3, <1>4, <2>1, <2>3
    <2>5. SubSeq(space.entries, 1, space.end * S) = space.entries
      BY <1>1, <2>4
    <2>6. addPageEntry(space, v, f) = [space EXCEPT !.end = space.end + 1, !.entries = Append(@, x)]
      BY <1>7, <2>5 DEF addPageEntry
    <2>7. addPageEntry(space, v, f).end = space.end + 1 /\ addPageEntry(space, v, f).entries = Append(space.entries, x)
      BY <2>6 DEF Space
    <2>8. PICK e \in Nat \ {0} : e = space.end + 1 /\ e - 1 = space.end
      BY <1>1
    <2>9. EndInLast(addPageEntry(space, v, f))
      <3>1. (e - 1) * S < n + 1
        BY <1>1, <2>4, <2>8
      <3> QED BY <1>2, <2>7, <2>8, <3>1 DEF EndInLast
    <2> QED BY <2>6, <2>8, <2>9
  <1>8. CASE ~Full(space)
    <2>1. addPageEntry(space, v, f) = [space EXCEPT !.end = space.end, !.entries = Append(@, x)]
      BY <1>8 DEF addPageEntry, Space
    <2>2. addPageEntry(space, v, f).end = space.end /\ addPageEntry(space, v, f).entries = Append(space.entries, x)
      BY <2>1 DEF Space
    <2>3. space.end =< 1 \/ before < n + 1
      BY <1>1, <1>3, <1>5
    <2>4. EndInLast(addPageEntry(space, v, f))
      BY <1>2, <1>3, <2>2, <2>3 DEF EndInLast
    <2> QED BY <1>1, <2>1, <2>4
  <1> QED BY <1>7, <1>8

\* What a new entry does to a space.
LEMMA AddEntryFacts ==
  ASSUME NEW space \in Space, EndInLast(space), space.end > 0, ~Severs(space),
         NEW v \in Nat, NEW f \in Pages
  PROVE  LET x == addPageEntry(space, v, f) IN
         /\ x \in Space /\ EndInLast(x) /\ x.end > 0
         /\ x.entries = Append(space.entries, [vaddr |-> v, frame |-> f])
         /\ x.vbreakbase = space.vbreakbase /\ x.vbreaktop = space.vbreaktop
         /\ x.heapNPages = space.heapNPages
         /\ Mapped(x) = Mapped(space) \cup {v}
  <1> DEFINE new == [vaddr |-> v, frame |-> f]
  <1>1. PICK e \in Nat \ {0} : addPageEntry(space, v, f) = [space EXCEPT !.end = e, !.entries = Append(@, new)]
    BY AddEntry
  <1> DEFINE x == addPageEntry(space, v, f)
  <1>2. /\ x.end = e /\ x.entries = Append(space.entries, new) /\ x.vbreakbase = space.vbreakbase
        /\ x.vbreaktop = space.vbreaktop /\ x.heapNPages = space.heapNPages
    BY <1>1 DEF Space
  <1>3. space.entries \in Seq([vaddr : Nat, frame : Pages]) /\ new \in [vaddr : Nat, frame : Pages]
    BY DEF Space
  <1>4. Append(space.entries, new) \in Seq([vaddr : Nat, frame : Pages])
    BY <1>3
  <1>5. x \in Space
    BY <1>1, <1>4 DEF Space
  <1>6. Mapped(x) = Mapped(space) \cup {v}
    <2> DEFINE n == Len(space.entries)
    <2>1. n \in Nat /\ DOMAIN space.entries = 1 .. n /\ DOMAIN x.entries = 1 .. n + 1
      BY <1>2, <1>3
    <2>2. x.entries[n + 1].vaddr = v /\ \A i \in 1 .. n : x.entries[i] = space.entries[i]
      BY <1>2, <1>3, <2>1
    <2> HIDE DEF x, n
    <2>3. \A i \in 1 .. n + 1 : i \in 1 .. n \/ i = n + 1
      BY <2>1
    <2>4. \A i \in 1 .. n : i \in 1 .. n + 1
      BY <2>1
    <2>5. n + 1 \in 1 .. n + 1
      BY <2>1
    <2> QED BY <2>1, <2>2, <2>3, <2>4, <2>5 DEF Mapped
  <1>7. EndInLast(x)
    BY AddEntry
  <1> QED BY <1>2, <1>5, <1>6, <1>7

LEMMA CopyEntryFacts ==
  ASSUME NEW space \in Space, EndInLast(space), NEW v \in Nat, NEW f \in Pages
  PROVE  LET x == CopyEntry(space, v, f) IN
         /\ x \in Space /\ EndInLast(x) /\ x.end = space.end
         /\ x.entries = Append(space.entries, [vaddr |-> v, frame |-> f])
         /\ x.vbreakbase = space.vbreakbase /\ x.vbreaktop = space.vbreaktop
         /\ x.heapNPages = space.heapNPages
  <1> DEFINE new == [vaddr |-> v, frame |-> f]
             x == CopyEntry(space, v, f)
  <1>1. x = [space EXCEPT !.entries = Append(@, new)]
    BY DEF CopyEntry
  <1>2. /\ x.end = space.end /\ x.entries = Append(space.entries, new) /\ x.vbreakbase = space.vbreakbase
        /\ x.vbreaktop = space.vbreaktop /\ x.heapNPages = space.heapNPages
    BY <1>1 DEF Space
  <1>3. space.entries \in Seq([vaddr : Nat, frame : Pages]) /\ new \in [vaddr : Nat, frame : Pages]
    BY DEF Space
  <1>4. Append(space.entries, new) \in Seq([vaddr : Nat, frame : Pages])
        /\ Len(Append(space.entries, new)) = Len(space.entries) + 1
    BY <1>3
  <1>5. x \in Space
    BY <1>1, <1>4 DEF Space
  <1>6. EndInLast(x)
    <2>1. Len(space.entries) \in Nat /\ space.end \in Nat
      BY <1>3 DEF Space
    <2>2. PICK before \in Int : before = (space.end - 1) * PTABLE_ARRAY_SIZE
      BY <2>1, Sizes
    <2> QED BY <1>2, <1>4, <2>1, <2>2 DEF EndInLast
  <1> QED BY <1>2, <1>5, <1>6

\* The predicates on heaps look at these fields only.
LEMMA ReachSame ==
  ASSUME NEW space, NEW x, NEW n, x.vbreakbase = space.vbreakbase, x.vbreaktop = space.vbreaktop,
         x.heapNPages = space.heapNPages, Reach(space, n)
  PROVE  Reach(x, n)
  BY DEF Reach, Have

LEMMA BackedSame ==
  ASSUME NEW space, NEW x, NEW more, NEW less, x.vbreakbase = space.vbreakbase, x.vbreaktop = space.vbreaktop,
         Backed(space, more), Mapped(space) \cup more \subseteq Mapped(x) \cup less
  PROVE  Backed(x, less)
  BY DEF Backed

\* One of the pages on their way has arrived.
LEMMA ReachNext ==
  ASSUME NEW space \in Space, NEW x, NEW n \in Nat, x.vbreakbase = space.vbreakbase,
         x.vbreaktop = space.vbreaktop, x.heapNPages = space.heapNPages + 1, Reach(space, n + 1)
  PROVE  Reach(x, n)
  <1>1. PICK h \in Nat : h = space.heapNPages
    BY DEF Space
  <1>2. h * PAGE_SIZE \in Nat /\ n * PAGE_SIZE \in Nat
    BY Sizes
  <1>3. (h + 1) * PAGE_SIZE = h * PAGE_SIZE + PAGE_SIZE /\ (n + 1) * PAGE_SIZE = n * PAGE_SIZE + PAGE_SIZE
    BY Sizes
  <1>4. space.vbreakbase \in Nat
    BY DEF Space
  <1>5. Have(space) + (n + 1) * PAGE_SIZE = Have(x) + n * PAGE_SIZE
    <2>1. PICK m \in Nat : m = h * PAGE_SIZE
      BY <1>2
    <2>2. PICK k \in Nat : k = n * PAGE_SIZE
      BY <1>2
    <2>3. Have(space) = space.vbreakbase + m
      BY <1>1, <2>1 DEF Have
    <2>4. Have(x) = space.vbreakbase + (m + PAGE_SIZE)
      BY <1>1, <1>3, <2>1 DEF Have
    <2> QED BY <1>3, <1>4, <2>1, <2>2, <2>3, <2>4, Sizes
  <1> QED BY <1>5 DEF Reach

\* The end of the heap's pages is on a page boundary, and every page below it
\* and from the heap's start on is mapped.
LEMMA HeapToHave ==
  ASSUME NEW space \in Space, HeapOK(space)
  PROVE  /\ Have(space) \in Nat /\ Have(space) % PAGE_SIZE = 0
         /\ \A a \in Nat : space.vbreakbase =< a /\ a < Have(space) => Page(a) \in Mapped(space)
  <1> DEFINE H == Have(space)
             B == space.vbreakbase
             T == space.vbreaktop
  <1>1. B \in Nat /\ T \in Nat /\ space.heapNPages \in Nat
    BY DEF Space
  <1>2. B % PAGE_SIZE = 0 /\ B =< T
    BY DEF HeapOK, Reach
  <1>3. H \in Nat /\ H % PAGE_SIZE = 0
    BY <1>1, <1>2, PagesOn DEF Have
  <1> HIDE DEF H, B, T
  <1>4. T =< H /\ H < T + PAGE_SIZE
    <2>1. 0 * PAGE_SIZE = 0
      BY Sizes
    <2> QED BY <1>3, <2>1 DEF HeapOK, Reach, H, T
  <1>5. \A a \in B .. T - 1 : Page(a) \in Mapped(space)
    BY DEF HeapOK, Backed, B, T
  <1>6. ASSUME NEW a \in Nat, B =< a, a < H PROVE Page(a) \in Mapped(space)
    <2>1. CASE a < T
      BY <1>1, <1>5, <1>6, <2>1
    <2>2. CASE ~(a < T)
      <3>1. B < H
        BY <1>1, <1>3, <1>6
      <3>2. B + PAGE_SIZE =< H
        BY <1>1, <1>2, <1>3, <3>1, Sizes, MultiplesApart
      <3>3. B =< T - 1
        BY <1>1, <1>2, <1>3, <1>4, <3>2, Sizes
      <3>4. PICK x \in Nat : x = H - PAGE_SIZE
        BY <1>1, <1>3, <3>2, Sizes
      <3>5. x % PAGE_SIZE = 0
        <4>1. PICK q \in Nat : H = q * PAGE_SIZE
          BY <1>3, Sizes, MultipleIs
        <4>2. q # 0
          BY <1>1, <1>3, <3>2, <4>1, Sizes
        <4>3. PICK k \in Nat : k = q - 1 /\ q = k + 1
          BY <4>2
        <4>4. (k + 1) * PAGE_SIZE = k * PAGE_SIZE + PAGE_SIZE /\ k * PAGE_SIZE \in Nat
              /\ (k * PAGE_SIZE) % PAGE_SIZE = 0
          BY Sizes
        <4>5. x = k * PAGE_SIZE
          BY <3>4, <4>1, <4>3, <4>4, Sizes
        <4> QED BY <4>4, <4>5
      <3>6. Page(a) = x
        <4>1. x =< a /\ a < x + PAGE_SIZE
          BY <1>1, <1>3, <1>4, <1>6, <2>2, <3>4, Sizes
        <4> QED BY <3>5, <4>1, PageIs
      <3>7. T - 1 \in Nat /\ Page(T - 1) = x
        <4>1. T - 1 \in Nat /\ x =< T - 1 /\ T - 1 < x + PAGE_SIZE
          BY <1>1, <1>3, <1>4, <3>3, <3>4, Sizes
        <4> QED BY <3>5, <4>1, PageIs
      <3>8. T - 1 \in B .. T - 1
        BY <1>1, <3>3
      <3> QED BY <1>5, <3>6, <3>7, <3>8
    <2> QED BY <2>1, <2>2
  <1> QED BY <1>3, <1>6 DEF H, B

LEMMA NewPagesType ==
  ASSUME NEW space \in Space, NEW top \in Nat
  PROVE  NewHeapPages(space, top) \in Seq(Nat)
  <1> DEFINE have == Have(space)
             from == Page(space.vbreaktop + PAGE_SIZE - 1)
  <1>1. have \in Nat
    <2>1. space.heapNPages * PAGE_SIZE \in Nat /\ space.vbreakbase \in Nat
      BY Sizes DEF Space
    <2> QED BY <2>1 DEF Have
  <1>2. from \in Nat
    <2>1. space.vbreaktop + PAGE_SIZE - 1 \in Nat
      BY Sizes DEF Space
    <2> QED BY <2>1, PageBelow
  <1> HIDE DEF from
  <1>3. CASE top < have
    BY <1>3 DEF NewHeapPages, Have
  <1>4. CASE ~(top < have)
    <2>1. top - have \in Nat
      BY <1>1, <1>4
    <2> HIDE DEF have
    <2>2. PICK n \in Nat : n = PagesNeeded(top - have)
      BY <2>1, NeededCovers
    <2>3. ASSUME NEW i \in 1 .. n PROVE (from + (i - 1) * PAGE_SIZE) % AddrMod \in Nat
      <3>1. from + (i - 1) * PAGE_SIZE \in Nat
        <4>1. PICK k \in Nat : k = i - 1
          BY <2>2, <2>3
        <4>2. k * PAGE_SIZE \in Nat
          BY Sizes
        <4> QED BY <1>2, <4>1, <4>2
      <3> QED BY <3>1, Sizes
    <2>4. NewHeapPages(space, top) = [i \in 1 .. n |-> (from + (i - 1) * PAGE_SIZE) % AddrMod]
      BY <1>4, <2>2 DEF NewHeapPages, Have, have, from
    <2>5. [i \in 1 .. n |-> (from + (i - 1) * PAGE_SIZE) % AddrMod] \in [1 .. n -> Nat]
      BY <2>3
    <2>6. [1 .. n -> Nat] \subseteq Seq(Nat)
      BY <2>2, SeqDef
    <2> QED BY <2>4, <2>5, <2>6
  <1> QED BY <1>3, <1>4

\* sbrk that raises the break asks for just the pages that are missing.
LEMMA SbrkCovers ==
  ASSUME NEW space \in Space, HeapOK(space), NEW top \in Nat, space.vbreaktop =< top,
         top < STACK_BASE - PAGE_SIZE, NEW x, x = [space EXCEPT !.vbreaktop = top],
         NEW t, t = NewHeapPages(space, top)
  PROVE  Reach(x, Len(t)) /\ Backed(x, Elems(t))
  <1> DEFINE H == Have(space)
             B == space.vbreakbase
             T == space.vbreaktop
  <1>1. B \in Nat /\ T \in Nat /\ space.heapNPages \in Nat
    BY DEF Space
  <1>2. B % PAGE_SIZE = 0 /\ B =< T
    BY DEF HeapOK, Reach
  <1>3. /\ H \in Nat /\ H % PAGE_SIZE = 0
        /\ \A a \in Nat : B =< a /\ a < H => Page(a) \in Mapped(space)
    BY HeapToHave
  <1>4. x.vbreakbase = B /\ x.vbreaktop = top /\ Have(x) = H /\ Mapped(x) = Mapped(space)
    BY DEF Space, Have, Mapped
  <1> HIDE DEF H, B, T
  <1>5. T =< H /\ H < T + PAGE_SIZE
    <2>1. 0 * PAGE_SIZE = 0
      BY Sizes
    <2> QED BY <1>3, <2>1 DEF HeapOK, Reach, H, T
  <1>6. T =< top
    BY DEF T
  <1>7. CASE top < H
    <2>1. t = <<>> /\ Len(t) = 0
      BY <1>7 DEF NewHeapPages, Have, H
    <2>2. Reach(x, Len(t))
      <3>1. 0 * PAGE_SIZE = 0
        BY Sizes
      <3>2. B =< top /\ top =< H + 0 /\ H + 0 < top + PAGE_SIZE
        BY <1>1, <1>2, <1>3, <1>5, <1>6, <1>7, Sizes
      <3> QED BY <1>2, <1>4, <2>1, <3>1, <3>2 DEF Reach
    <2>3. \A a \in B .. top - 1 : a \in Nat /\ B =< a /\ a < H
      BY <1>1, <1>3, <1>7
    <2>4. Backed(x, Elems(t))
      BY <1>3, <1>4, <2>3 DEF Backed
    <2> QED BY <2>2, <2>4
  <1>8. CASE ~(top < H)
    <2>1. top - H \in Nat
      BY <1>3, <1>8
    <2>2. PICK n \in Nat : n = PagesNeeded(top - H)
      BY <2>1, NeededCovers
    <2>3. PICK m \in Nat : m = n * PAGE_SIZE /\ top - H =< m /\ m < top - H + PAGE_SIZE
      <3>1. n * PAGE_SIZE \in Nat
        BY Sizes
      <3> QED BY <2>1, <2>2, <3>1, NeededCovers
    <2>4. Page(T + PAGE_SIZE - 1) = H
      <3>1. T + PAGE_SIZE - 1 \in Nat /\ H =< T + PAGE_SIZE - 1 /\ T + PAGE_SIZE - 1 < H + PAGE_SIZE
        BY <1>1, <1>3, <1>5, Sizes
      <3> QED BY <1>3, <3>1, PageIs
    <2>5. t = [i \in 1 .. n |-> (H + (i - 1) * PAGE_SIZE) % AddrMod]
      <3>1. t = [i \in 1 .. n |-> (Page(T + PAGE_SIZE - 1) + (i - 1) * PAGE_SIZE) % AddrMod]
        BY <1>8, <2>2 DEF NewHeapPages, Have, H, T
      <3> QED BY <2>4, <3>1
    <2>6. Len(t) = n /\ DOMAIN t = 1 .. n
      BY <2>5
    <2>7. Reach(x, Len(t))
      <3>1. B =< top /\ top =< H + m /\ H + m < top + PAGE_SIZE
        BY <1>1, <1>2, <1>3, <1>6, <1>8, <2>3, Sizes
      <3> QED BY <1>2, <1>4, <2>3, <2>6, <3>1 DEF Reach
    <2>8. ASSUME NEW a \in Nat, H =< a, a < top PROVE Page(a) \in Elems(t)
      <3>1. PICK d \in Nat : d = a - H /\ a = H + d
        BY <1>3, <2>8
      <3>2. PICK k \in Nat : k = d \div PAGE_SIZE
        BY Sizes
      <3>3. PICK w \in Nat : w = k * PAGE_SIZE
        BY Sizes
      <3>4. w =< d /\ d < w + PAGE_SIZE
        <4>1. Page(d) = (d \div PAGE_SIZE) * PAGE_SIZE
          BY Sizes DEF Page
        <4>2. Page(d) = w
          BY <3>2, <3>3, <4>1
        <4> QED BY <4>2, PageBelow
      <3>5. k < n
        <4>1. w < m
          BY <1>3, <2>3, <2>8, <3>1, <3>3, <3>4
        <4>2. n =< k => m =< w
          BY <2>3, <3>3, Sizes
        <4> QED BY <2>2, <3>2, <4>1, <4>2, <3>3, <2>3
      <3>6. Page(a) = H + w
        <4>1. H + w \in Nat /\ (H + w) % PAGE_SIZE = 0
          BY <1>3, <3>3, PagesOn
        <4>2. H + w =< a /\ a < H + w + PAGE_SIZE
          BY <1>3, <3>1, <3>3, <3>4, Sizes
        <4> QED BY <4>1, <4>2, PageIs
      <3>7. H + w < AddrMod
        <4>1. STACK_BASE < AddrMod
          BY AddrSpaceAssumption
        <4> QED BY <1>3, <2>8, <3>1, <3>3, <3>4, <4>1, Sizes
      <3>8. (H + w) % AddrMod = H + w
        <4>1. PICK z \in Nat : z = H + w
          BY <1>3, <3>3
        <4> QED BY <3>7, <4>1, Sizes
      <3>9. k + 1 \in 1 .. n /\ t[k + 1] = (H + w) % AddrMod
        <4>1. k + 1 \in 1 .. n /\ (k + 1) - 1 = k
          BY <3>2, <3>5
        <4> QED BY <2>5, <3>3, <4>1
      <3> QED BY <2>6, <3>6, <3>8, <3>9 DEF Elems
    <2>9. \A a \in B .. top - 1 : a \in Nat /\ B =< a /\ a < top /\ (a < H \/ H =< a)
      BY <1>1, <1>3
    <2>10. Backed(x, Elems(t))
      BY <1>3, <1>4, <2>8, <2>9 DEF Backed
    <2> QED BY <2>7, <2>10
  <1> QED BY <1>7, <1>8

-----------------------------------------------------------------------------
(* The coremap *)

LEMMA FreeRoom ==
  ASSUME NEW n \in Nat \ {0}, getpaddr(coremap, n) # NoPage
  PROVE  LET b == getpaddr(coremap, n) IN
         /\ b \in Pages /\ b + n =< cm_entries
         /\ \A i \in b .. b + n - 1 : i \in Pages /\ ~coremap[i].is_allocated
  <1> DEFINE ends == {i \in Pages : n =< i + 1 /\ \A j \in (i + 1 - n) .. i : ~coremap[j].is_allocated}
             e == CHOOSE i \in ends : \A j \in ends : i =< j
  <1>1. ends # {} /\ getpaddr(coremap, n) = e + 1 - n
    BY DEF getpaddr
  <1>2. ends \subseteq Nat /\ cm_entries \in Nat
    BY CoremapAssumption DEF Pages
  <1>3. \E x \in ends : \A y \in ends : x =< y
    <2> HIDE DEF ends
    <2> QED BY <1>1, <1>2, LeastOf
  <1>4. e \in ends
    BY <1>3
  <1> HIDE DEF e
  <1>5. e \in 0 .. cm_entries - 1 /\ n =< e + 1 /\ \A j \in (e + 1 - n) .. e : ~coremap[j].is_allocated
    BY <1>4 DEF Pages
  <1> QED BY <1>1, <1>2, <1>5 DEF Pages

\* removefromcoremap of an entry that is clear changes nothing ...
LEMMA RemoveClear ==
  ASSUME NEW cm \in [Pages -> CmEntry], NEW b \in Pages, cm[b].chunk_cnt = 0
  PROVE  removefromcoremap(cm, b) = cm
  <1> DEFINE stops == {k \in 0 .. cm_entries : b + k >= cm_entries \/ cm[b + k].chunk_cnt =< k}
  <1>1. cm_entries \in Nat /\ b \in 0 .. cm_entries - 1
    BY CoremapAssumption DEF Pages
  <1>2. 0 \in stops /\ \A k \in stops : 0 =< k
    BY <1>1
  <1>3. RunsTo(cm, b) = 0
    <2>1. RunsTo(cm, b) \in stops /\ \A k \in stops : RunsTo(cm, b) =< k
      BY <1>2 DEF RunsTo
    <2> QED BY <1>2, <2>1
  <1> QED BY <1>1, <1>3 DEF removefromcoremap, Pages

\* ... and one of an entry of a chunk clears the chunk, unless it goes on
\* into the next.
LEMMA RemoveChunk ==
  ASSUME NEW cm \in [Pages -> CmEntry], NEW b \in Pages, NEW n \in Nat \ {0}, b + n =< cm_entries,
         \A i \in b .. b + n - 1 : cm[i].chunk_cnt = n,
         b + n < cm_entries => cm[b + n].chunk_cnt =< n
  PROVE  removefromcoremap(cm, b) = [i \in Pages |-> IF i \in b .. b + n - 1 THEN FreeEntry ELSE cm[i]]
  <1> DEFINE stops == {k \in 0 .. cm_entries : b + k >= cm_entries \/ cm[b + k].chunk_cnt =< k}
  <1>1. cm_entries \in Nat /\ b \in 0 .. cm_entries - 1
    BY CoremapAssumption DEF Pages
  <1>2. n \in stops
    BY <1>1
  <1>3. ASSUME NEW k \in stops, k < n PROVE FALSE
    <2>1. k \in Nat /\ b + k \in b .. b + n - 1 /\ b + k < cm_entries
      BY <1>1, <1>3
    <2>2. cm[b + k].chunk_cnt = n
      BY <2>1
    <2> QED BY <1>1, <1>3, <2>1, <2>2
  <1>4. \A k \in stops : n =< k
    BY <1>1, <1>3
  <1>5. RunsTo(cm, b) = n
    <2>1. RunsTo(cm, b) \in stops /\ \A k \in stops : RunsTo(cm, b) =< k
      BY <1>2, <1>4 DEF RunsTo
    <2>2. RunsTo(cm, b) \in Int
      BY <1>1, <2>1
    <2> HIDE DEF stops
    <2> QED BY <1>2, <1>4, <2>1, <2>2
  <1> QED BY <1>1, <1>5 DEF removefromcoremap, Pages

LEMMA RemoveOne ==
  ASSUME NEW cm \in [Pages -> CmEntry], NEW b \in Pages, cm[b].chunk_cnt = 1,
         b + 1 < cm_entries => cm[b + 1].chunk_cnt =< 1
  PROVE  removefromcoremap(cm, b) = [i \in Pages |-> IF i = b THEN FreeEntry ELSE cm[i]]
  <1>1. cm_entries \in Nat /\ b \in Nat /\ b + 1 =< cm_entries
    BY CoremapAssumption DEF Pages
  <1>2. PICK n \in Nat \ {0} : n = 1
    OBVIOUS
  <1>3. \A i \in Pages \cup (b .. b + n - 1) : i \in b .. b + n - 1 <=> i = b
    BY <1>1, <1>2 DEF Pages
  <1>4. removefromcoremap(cm, b) = [i \in Pages |-> IF i \in b .. b + n - 1 THEN FreeEntry ELSE cm[i]]
    <2>1. b + n =< cm_entries /\ (b + n < cm_entries => cm[b + n].chunk_cnt =< n)
      BY <1>1, <1>2
    <2>2. \A i \in b .. b + n - 1 : cm[i].chunk_cnt = n
      BY <1>2, <1>3
    <2> QED BY <2>1, <2>2, RemoveChunk
  <1> QED BY <1>3, <1>4

LEMMA ChunkFacts ==
  ASSUME CmGood, NEW c \in live
  PROVE  /\ c.base \in Pages /\ c.npages \in Nat \ {0} /\ c.kern \in BOOLEAN
         /\ c = [base |-> c.base, npages |-> c.npages, kern |-> c.kern]
         /\ c.base \in PagesOf(c) /\ PagesOf(c) \subseteq Pages
         /\ \A d \in live : \A i \in PagesOf(c) : i \in PagesOf(d) => d = c
  <1>1. cm_entries \in Nat
    BY CoremapAssumption
  <1>2. c \in Chunk /\ c.base + c.npages =< cm_entries
    BY DEF CmGood, ChunkTypes
  <1>3. c.base \in Pages /\ c.npages \in Nat \ {0} /\ c.kern \in BOOLEAN
        /\ c = [base |-> c.base, npages |-> c.npages, kern |-> c.kern]
    BY <1>2 DEF Chunk
  <1>4. c.base \in PagesOf(c) /\ PagesOf(c) \subseteq Pages
    BY <1>1, <1>2, <1>3 DEF PagesOf, Pages
  <1>5. \A d \in live : \A i \in PagesOf(c) : i \in PagesOf(d) => d = c
    BY DEF CmGood, ChunksDisjoint
  <1> QED BY <1>3, <1>4, <1>5

LEMMA AllocKeeps ==
  ASSUME CmGood, NEW n \in Nat \ {0}, NEW k \in BOOLEAN, ~k => n = 1, Allocate(n, k)
  PROVE  LET c == [base |-> getpaddr(coremap, n), npages |-> n, kern |-> k] IN
         CmGood' /\ live' = live \union {c} /\ c \notin live /\ c.base \in Pages /\ coremap[c.base] = FreeEntry
  <1> DEFINE b == getpaddr(coremap, n)
             c == [base |-> b, npages |-> n, kern |-> k]
  <1>1. /\ cm_entries \in Nat
        /\ b \in Pages /\ b + n =< cm_entries /\ \A i \in b .. b + n - 1 : i \in Pages /\ ~coremap[i].is_allocated
    BY FreeRoom, CoremapAssumption DEF Allocate
  <1>2. live' = live \union {c} /\ coremap' = addtocoremap(coremap, b, n, k)
    BY DEF Allocate
  <1> HIDE DEF b
  <1>3. PagesOf(c) = b .. b + n - 1 /\ b \in PagesOf(c)
    BY <1>1 DEF PagesOf, Pages
  <1>4. ASSUME NEW d \in live, NEW i \in PagesOf(d) PROVE i \notin PagesOf(c) /\ i \in Pages /\ coremap[i] = Marked(d)
    <2>1. coremap[i] = Marked(d) /\ Marked(d).is_allocated
      BY <1>4 DEF CmGood, Marks, Marked
    <2> QED BY <1>1, <1>3, <1>4, <2>1, ChunkFacts
  <1>5. \A d \in live : d.base \in PagesOf(d)
    BY ChunkFacts
  <1>6. c \notin live
    BY <1>3, <1>4
  <1>7. ChunkTypes'
    <2>1. coremap' \in [Pages -> CmEntry]
      BY <1>2 DEF addtocoremap, CmEntry, CmGood, ChunkTypes
    <2>2. c \in Chunk /\ c.base + c.npages =< cm_entries /\ (~c.kern => c.npages = 1)
      BY <1>1 DEF Chunk
    <2> QED BY <1>2, <2>1, <2>2 DEF CmGood, ChunkTypes
  <1>8. ChunksDisjoint'
    <2>1. \A d \in live : PagesOf(d) \intersect PagesOf(c) = {}
      BY <1>4
    <2> QED BY <1>2, <2>1 DEF CmGood, ChunksDisjoint
  <1>9. \A i \in Pages : coremap'[i] = IF i \in PagesOf(c) THEN Marked(c) ELSE coremap[i]
    BY <1>2, <1>3 DEF addtocoremap, Marked
  <1>10. Marks'
    <2>1. PagesOf(c) \subseteq Pages
      BY <1>1, <1>3
    <2>2. \A d \in live' : \A i \in PagesOf(d) : coremap'[i] = Marked(d)
      BY <1>2, <1>4, <1>9, <2>1
    <2>3. \A i \in Pages : (\E d \in live' : i \in PagesOf(d)) \/ coremap'[i] = FreeEntry
      BY <1>2, <1>9 DEF CmGood, Marks
    <2> QED BY <2>2, <2>3 DEF Marks
  <1>11. coremap[b] = FreeEntry
    BY <1>1, <1>3, <1>4 DEF CmGood, Marks
  <1> QED BY <1>1, <1>2, <1>6, <1>7, <1>8, <1>10, <1>11 DEF CmGood, b

\* What stands after the last page of a chunk, if nothing larger does.
LEMMA AfterChunk ==
  ASSUME CmGood, NEW c \in live, \A d \in live : ~BeforeLarger(c, d), c.base + c.npages < cm_entries
  PROVE  coremap[c.base + c.npages].chunk_cnt =< c.npages
  <1> DEFINE i == c.base + c.npages
  <1>1. cm_entries \in Nat /\ c.base \in Nat /\ c.npages \in Nat \ {0} /\ i \in Pages
    BY ChunkFacts, CoremapAssumption DEF Pages
  <1>2. CASE coremap[i] = FreeEntry
    BY <1>1, <1>2 DEF FreeEntry
  <1>3. CASE \E d \in live : i \in PagesOf(d)
    <2>1. PICK d \in live : i \in PagesOf(d)
      BY <1>3
    <2>2. d.base \in Nat /\ d.npages \in Nat \ {0}
      BY ChunkFacts DEF Pages
    <2>3. d # c
      BY <1>1, <2>1 DEF PagesOf
    <2>4. d.base = i
      <3>1. c.base + c.npages - 1 \in PagesOf(c)
        BY <1>1 DEF PagesOf
      <3>2. c.base + c.npages - 1 \notin PagesOf(d)
        BY <2>3, <3>1, ChunkFacts
      <3> QED BY <1>1, <2>1, <2>2, <3>2 DEF PagesOf
    <2>5. coremap[i].chunk_cnt = d.npages
      <3>1. coremap[i] = Marked(d)
        BY <2>1 DEF CmGood, Marks
      <3> QED BY <3>1 DEF Marked
    <2>6. ~(d.npages > c.npages)
      BY <2>4 DEF BeforeLarger
    <2> QED BY <1>1, <2>2, <2>5, <2>6
  <1> QED BY <1>1, <1>2, <1>3 DEF CmGood, Marks

\* Chunks leave, the marks of their pages are cleared, and all is as before.
LEMMA LeaveKeeps ==
  ASSUME CmGood, NEW gone, gone \subseteq live, live' = live \ gone,
         coremap' = [i \in Pages |-> IF \E c \in gone : i \in PagesOf(c) THEN FreeEntry ELSE coremap[i]]
  PROVE  CmGood'
  <1>1. ChunkTypes'
    <2>1. FreeEntry \in CmEntry
      BY DEF FreeEntry, CmEntry
    <2> QED BY <2>1 DEF CmGood, ChunkTypes
  <1>2. ChunksDisjoint'
    BY DEF CmGood, ChunksDisjoint
  <1>3. Marks'
    <2>1. ASSUME NEW d \in live', NEW i \in PagesOf(d) PROVE coremap'[i] = Marked(d)
      <3>1. i \in Pages /\ ~ \E c \in gone : i \in PagesOf(c)
        BY <2>1, ChunkFacts
      <3> QED BY <2>1, <3>1 DEF CmGood, Marks
    <2>2. \A i \in Pages : (\E d \in live' : i \in PagesOf(d)) \/ coremap'[i] = FreeEntry
      BY DEF CmGood, Marks
    <2> QED BY <2>1, <2>2 DEF Marks
  <1> QED BY <1>1, <1>2, <1>3 DEF CmGood

LEMMA ReleaseKeeps ==
  ASSUME CmGood, NEW c \in live, Release(c), ~overrun'
  PROVE  CmGood' /\ live' = live \ {c}
  <1>1. /\ c.base \in Pages /\ c.npages \in Nat \ {0} /\ c.base + c.npages =< cm_entries
        /\ coremap \in [Pages -> CmEntry]
    BY ChunkFacts DEF CmGood, ChunkTypes
  <1>2. \A d \in live : ~BeforeLarger(c, d)
    BY DEF Release
  <1>3. c.base + c.npages < cm_entries => coremap[c.base + c.npages].chunk_cnt =< c.npages
    BY <1>2, AfterChunk
  <1>4. \A i \in c.base .. c.base + c.npages - 1 : coremap[i].chunk_cnt = c.npages
    <2>1. \A i \in PagesOf(c) : coremap[i] = Marked(c)
      BY DEF CmGood, Marks
    <2> QED BY <2>1 DEF Marked, PagesOf
  <1>5. coremap' = [i \in Pages |-> IF i \in c.base .. c.base + c.npages - 1 THEN FreeEntry ELSE coremap[i]]
    BY <1>1, <1>3, <1>4, RemoveChunk DEF Release
  <1>6. coremap' = [i \in Pages |-> IF \E d \in {c} : i \in PagesOf(d) THEN FreeEntry ELSE coremap[i]]
    BY <1>5 DEF PagesOf
  <1>7. live' = live \ {c}
    BY DEF Release
  <1> QED BY <1>6, <1>7, LeaveKeeps

\* The recursion of Cleared, when each page stands alone or is already clear.
LEMMA ClearedIs ==
  ASSUME CmGood, NEW fr \in Seq(Pages),
         \A j \in 1 .. Len(fr) :
            \/ coremap[fr[j]] = FreeEntry
            \/ /\ coremap[fr[j]].chunk_cnt = 1
               /\ fr[j] + 1 < cm_entries => coremap[fr[j] + 1].chunk_cnt =< 1
  PROVE  Cleared(fr)[Len(fr)] = [i \in Pages |-> IF \E j \in 1 .. Len(fr) : fr[j] = i THEN FreeEntry ELSE coremap[i]]
  <1> DEFINE L == Len(fr)
             G(k) == [i \in Pages |-> IF \E j \in 1 .. k : fr[j] = i THEN FreeEntry ELSE coremap[i]]
             Rec(f) == [k \in 0 .. L |-> IF k = 0 THEN coremap ELSE removefromcoremap(f[k - 1], fr[k])]
  <1>1. L \in Nat /\ \A j \in 1 .. L : fr[j] \in Pages
    OBVIOUS
  <1>2. coremap \in [Pages -> CmEntry] /\ cm_entries \in Nat
    BY CoremapAssumption DEF CmGood, ChunkTypes
  <1>3. \A k \in Nat : G(k) \in [Pages -> CmEntry]
    BY <1>2 DEF FreeEntry, CmEntry
  <1>4. G(0) = coremap
    BY <1>2
  <1>5. ASSUME NEW k \in 1 .. L PROVE removefromcoremap(G(k - 1), fr[k]) = G(k)
    <2> DEFINE b == fr[k]
    <2>1. b \in Pages /\ k \in Nat /\ k - 1 \in Nat /\ G(k - 1) \in [Pages -> CmEntry]
      BY <1>1, <1>3, <1>5
    <2>2. \A i \in Pages : G(k)[i] = IF i = b THEN FreeEntry ELSE G(k - 1)[i]
      BY <1>1, <1>5
    <2>3. CASE G(k - 1)[b] = FreeEntry
      <3>1. removefromcoremap(G(k - 1), b) = G(k - 1)
        <4>1. G(k - 1)[b].chunk_cnt = 0
          BY <2>3 DEF FreeEntry
        <4> HIDE DEF G, b
        <4> QED BY <2>1, <4>1, RemoveClear
      <3>2. G(k) = G(k - 1)
        BY <2>2, <2>3
      <3> QED BY <3>1, <3>2
    <2>4. CASE G(k - 1)[b] # FreeEntry
      <3>1. G(k - 1)[b] = coremap[b] /\ coremap[b].chunk_cnt = 1 /\ (b + 1 < cm_entries => coremap[b + 1].chunk_cnt =< 1)
        BY <1>5, <2>1, <2>4
      <3>2. b + 1 < cm_entries => G(k - 1)[b + 1].chunk_cnt =< 1
        <4>1. SUFFICES ASSUME b + 1 < cm_entries PROVE G(k - 1)[b + 1].chunk_cnt =< 1
          OBVIOUS
        <4>2. b + 1 \in Pages
          BY <1>2, <2>1, <4>1 DEF Pages
        <4> QED BY <3>1, <4>1, <4>2 DEF FreeEntry
      <3>3. removefromcoremap(G(k - 1), b) = [i \in Pages |-> IF i = b THEN FreeEntry ELSE G(k - 1)[i]]
        <4>1. G(k - 1)[b].chunk_cnt = 1
          BY <3>1
        <4> HIDE DEF G, b
        <4> QED BY <2>1, <3>2, <4>1, RemoveOne
      <3>4. G(k) = [i \in Pages |-> IF i = b THEN FreeEntry ELSE G(k - 1)[i]]
        <4>1. G(k) = [i \in Pages |-> G(k)[i]]
          OBVIOUS
        <4> HIDE DEF G, b
        <4> QED BY <2>2, <4>1
      <3> QED BY <3>3, <3>4
    <2> QED BY <2>3, <2>4
  <1>6. \E f : f = Rec(f)
    <2> DEFINE g == [k \in 0 .. L |-> G(k)]
    <2>1. \A k \in 0 .. L : g[k] = IF k = 0 THEN coremap ELSE removefromcoremap(g[k - 1], fr[k])
      <3> HIDE DEF G
      <3>1. \A k \in 1 .. L : k - 1 \in 0 .. L
        BY <1>1
      <3> QED BY <1>1, <1>4, <1>5, <3>1
    <2>2. g = Rec(g)
      <3> HIDE DEF G
      <3> QED BY <2>1
    <2> QED BY <2>2
  <1>7. PICK h : h = Cleared(fr) /\ h = Rec(h)
    <2>1. Cleared(fr) = CHOOSE f : f = Rec(f)
      BY DEF Cleared
    <2> HIDE DEF Rec
    <2> QED BY <1>6, <2>1
  <1>8. h[0] = coremap /\ \A k \in 1 .. L : h[k] = removefromcoremap(h[k - 1], fr[k])
    <2>1. DOMAIN h = 0 .. L /\ \A k \in 0 .. L : h[k] = Rec(h)[k]
      BY <1>7
    <2> QED BY <1>1, <2>1
  <1> DEFINE bad == {k \in 0 .. L : h[k] # G(k)}
  <1>9. bad = {}
    <2>1. SUFFICES ASSUME bad # {} PROVE FALSE
      OBVIOUS
    <2>2. PICK k \in bad : \A j \in bad : k =< j
      <3>1. bad \subseteq Nat
        BY <1>1
      <3> HIDE DEF bad
      <3> QED BY <2>1, <3>1, LeastOf
    <2>3. k \in 0 .. L /\ h[k] # G(k)
      OBVIOUS
    <2>4. k # 0
      <3> HIDE DEF G, bad
      <3> QED BY <1>4, <1>8, <2>3
    <2>5. k \in 1 .. L /\ k - 1 \in 0 .. L /\ k - 1 \notin bad
      <3>1. k \in 1 .. L /\ k - 1 \in 0 .. L /\ ~(k =< k - 1)
        BY <1>1, <2>3, <2>4
      <3> QED BY <2>2, <3>1
    <2>6. h[k - 1] = G(k - 1)
      <3> HIDE DEF G
      <3> QED BY <2>5
    <2> HIDE DEF G, bad
    <2> QED BY <1>5, <1>8, <2>3, <2>5, <2>6
  <1>10. h[L] = G(L)
    <2> HIDE DEF G
    <2> QED BY <1>1, <1>9
  <1> QED BY <1>7, <1>10

LEMMA FreeAllKeeps ==
  ASSUME CmGood, NEW fr \in Seq(Pages), FreeAll(fr), ~overrun',
         \A j \in DOMAIN fr : UserChunk(fr[j]) \in live \/ coremap[fr[j]] = FreeEntry
  PROVE  CmGood' /\ live' = live \ {c \in live : ~c.kern /\ \E j \in DOMAIN fr : c.base = fr[j]}
  <1> DEFINE gone == {c \in live : ~c.kern /\ \E j \in DOMAIN fr : c.base = fr[j]}
  <1>1. DOMAIN fr = 1 .. Len(fr) /\ \A j \in DOMAIN fr : fr[j] \in Pages
    OBVIOUS
  <1>2. coremap' = Cleared(fr)[Len(fr)] /\ live' = live \ gone /\ \A c \in gone, d \in live : ~BeforeLarger(c, d)
    BY DEF FreeAll
  <1>3. \A c \in gone : PagesOf(c) = {c.base}
    <2>1. \A c \in gone : c.npages = 1 /\ c.base \in Nat
      BY ChunkFacts DEF CmGood, ChunkTypes, Pages
    <2> QED BY <2>1 DEF PagesOf
  <1>4. ASSUME NEW j \in DOMAIN fr, UserChunk(fr[j]) \in live
        PROVE  /\ UserChunk(fr[j]) \in gone
               /\ coremap[fr[j]].chunk_cnt = 1
               /\ fr[j] + 1 < cm_entries => coremap[fr[j] + 1].chunk_cnt =< 1
    <2> DEFINE c == UserChunk(fr[j])
    <2>1. c.base = fr[j] /\ c.npages = 1 /\ c.kern = FALSE
      BY DEF UserChunk
    <2> HIDE DEF c
    <2>2. c \in live /\ c \in gone
      BY <1>4, <2>1 DEF c
    <2>3. coremap[c.base].chunk_cnt = 1
      <3>1. coremap[c.base] = Marked(c)
        BY <2>2, ChunkFacts DEF CmGood, Marks
      <3> QED BY <2>1, <3>1 DEF Marked
    <2>4. c.base + c.npages < cm_entries => coremap[c.base + c.npages].chunk_cnt =< c.npages
      BY <1>2, <2>2, AfterChunk
    <2> QED BY <2>1, <2>2, <2>3, <2>4 DEF c
  <1>5. coremap' = [i \in Pages |-> IF \E j \in 1 .. Len(fr) : fr[j] = i THEN FreeEntry ELSE coremap[i]]
    <2>1. \A j \in 1 .. Len(fr) : \/ coremap[fr[j]] = FreeEntry
                                  \/ /\ coremap[fr[j]].chunk_cnt = 1
                                     /\ fr[j] + 1 < cm_entries => coremap[fr[j] + 1].chunk_cnt =< 1
      BY <1>1, <1>4
    <2> QED BY <1>2, <2>1, ClearedIs
  <1>6. \A i \in Pages : (IF \E j \in 1 .. Len(fr) : fr[j] = i THEN FreeEntry ELSE coremap[i])
                       = IF \E c \in gone : i \in PagesOf(c) THEN FreeEntry ELSE coremap[i]
    <2>1. ASSUME NEW i \in Pages, NEW c \in gone, i \in PagesOf(c) PROVE \E j \in 1 .. Len(fr) : fr[j] = i
      BY <1>1, <1>3, <2>1
    <2>2. ASSUME NEW i \in Pages, NEW j \in 1 .. Len(fr), fr[j] = i
          PROVE  coremap[i] = FreeEntry \/ \E c \in gone : i \in PagesOf(c)
      <3>1. CASE UserChunk(i) \in live
        <4>1. UserChunk(i) \in gone /\ UserChunk(i).base = i
          BY <1>1, <1>4, <2>2, <3>1 DEF UserChunk
        <4> QED BY <1>3, <4>1
      <3> QED BY <1>1, <2>2, <3>1
    <2> QED BY <2>1, <2>2
  <1>7. coremap' = [i \in Pages |-> IF \E c \in gone : i \in PagesOf(c) THEN FreeEntry ELSE coremap[i]]
    <2> HIDE DEF gone
    <2> QED BY <1>5, <1>6
  <1>8. CmGood'
    <2>1. gone \subseteq live
      OBVIOUS
    <2> HIDE DEF gone
    <2> QED BY <1>2, <1>7, <2>1, LeaveKeeps
  <1> QED BY <1>2, <1>8

-----------------------------------------------------------------------------
(* Who has which frame *)

Holders == Procs \X {"as", "old"}
Ent(s) == IF s \in Spaces THEN SpaceOf(s).entries ELSE <<>>

LEMMA HoldersAre ==
  /\ \A s \in Holders : \E p \in Procs : s = <<p, "as">> \/ s = <<p, "old">>
  /\ \A p \in Procs : <<p, "as">> \in Holders /\ <<p, "old">> \in Holders
  /\ \A p, q \in Procs : /\ <<p, "as">> # <<q, "old">>
                         /\ <<p, "as">> = <<q, "as">> => p = q
                         /\ <<p, "old">> = <<q, "old">> => p = q
  BY DEF Holders

LEMMA EntIs ==
  ASSUME NEW p \in Procs
  PROVE  /\ Ent(<<p, "as">>) = IF mode[p] = "destroyed" THEN <<>> ELSE as[p].entries
         /\ Ent(<<p, "old">>) = old[p].entries
         /\ Ent(<<p, "as">>)' = IF mode'[p] = "destroyed" THEN <<>> ELSE as'[p].entries
         /\ Ent(<<p, "old">>)' = old'[p].entries
  <1>1. <<p, "as">> \in Spaces <=> mode[p] # "destroyed"
    BY DEF Spaces
  <1>2. <<p, "as">> \in Spaces' <=> mode'[p] # "destroyed"
    BY DEF Spaces
  <1>3. <<p, "old">> \in Spaces /\ <<p, "old">> \in Spaces'
    BY DEF Spaces
  <1> QED BY <1>1, <1>2, <1>3 DEF Ent, SpaceOf

LEMMA HoldingsAre ==
  /\ \A s \in Holders : \A i \in DOMAIN Ent(s) : <<s, i, Ent(s)[i].frame>> \in Holdings
  /\ \A h \in Holdings : \E s \in Holders : \E i \in DOMAIN Ent(s) : h = <<s, i, Ent(s)[i].frame>>
  <1>1. Spaces \subseteq Holders
    BY DEF Spaces, Holders
  <1>2. \A s : s \notin Spaces => DOMAIN Ent(s) = {}
    BY DEF Ent
  <1> QED BY <1>1, <1>2 DEF Holdings, Ent

LEMMA HoldingsArePrimed ==
  /\ \A s \in Holders : \A i \in DOMAIN Ent(s)' : <<s, i, Ent(s)'[i].frame>> \in Holdings'
  /\ \A h \in Holdings' : \E s \in Holders : \E i \in DOMAIN Ent(s)' : h = <<s, i, Ent(s)'[i].frame>>
  <1>1. Spaces' \subseteq Holders
    BY DEF Spaces, Holders
  <1>2. \A s : s \notin Spaces' => DOMAIN Ent(s)' = {}
    BY DEF Ent
  <1> QED BY <1>1, <1>2 DEF Holdings, Ent

\* Frames change hands, and those that nobody has any more are given back.
LEMMA OwnedThrough ==
  ASSUME Owned, NEW T \in SUBSET Holdings, NEW m, \A h \in T : m[h][3] = h[3],
         Holdings' = {m[h] : h \in T},
         \A c \in live \cup live' : ~c.kern =>
            (c \in live' <=> c \in live /\ ~ \E h \in Holdings \ T : h[3] = c.base)
  PROVE  Owned'
  <1>1. ASSUME NEW h \in T PROVE UserChunk(h[3]) \in live'
    <2>1. UserChunk(h[3]) \in live /\ ~UserChunk(h[3]).kern /\ UserChunk(h[3]).base = h[3]
      BY DEF Owned, UserChunk
    <2>2. \A g \in Holdings \ T : g[3] # h[3]
      BY DEF Owned
    <2> QED BY <2>1, <2>2
  <1>2. \A h \in Holdings' : UserChunk(h[3]) \in live'
    BY <1>1
  <1>3. \A h, g \in Holdings' : h[3] = g[3] => h = g
    BY DEF Owned
  <1>4. \A c \in live' : ~c.kern => \E h \in Holdings' : h[3] = c.base
    <2>1. SUFFICES ASSUME NEW c \in live', ~c.kern PROVE \E h \in Holdings' : h[3] = c.base
      OBVIOUS
    <2>2. PICK h \in Holdings : h[3] = c.base
      BY <2>1 DEF Owned
    <2>3. h \in T
      BY <2>1, <2>2
    <2> QED BY <2>2, <2>3
  <1> QED BY <1>2, <1>3, <1>4 DEF Owned

LEMMA OwnedSame ==
  ASSUME Owned, Holdings' = Holdings, \A c \in live \cup live' : ~c.kern => (c \in live' <=> c \in live)
  PROVE  Owned'
  BY DEF Owned, UserChunk

LEMMA OwnedAdd ==
  ASSUME CmGood, Owned, NEW s, NEW i, NEW f \in Pages, coremap[f] = FreeEntry,
         live' = live \cup {UserChunk(f)}, Holdings' = Holdings \cup {<<s, i, f>>}
  PROVE  Owned'
  <1>1. ASSUME NEW h \in Holdings PROVE h[3] # f
    <2> DEFINE c == UserChunk(h[3])
    <2>1. c \in live /\ c.base = h[3]
      BY DEF Owned, UserChunk
    <2> HIDE DEF c
    <2>2. coremap[h[3]] = Marked(c)
      BY <2>1, ChunkFacts DEF CmGood, Marks
    <2> QED BY <2>2 DEF Marked, FreeEntry
  <1>2. \A h \in Holdings' : UserChunk(h[3]) \in live'
    BY DEF Owned
  <1>3. \A h, g \in Holdings' : h[3] = g[3] => h = g
    BY <1>1 DEF Owned
  <1>4. ASSUME NEW c \in live', ~c.kern PROVE \E h \in Holdings' : h[3] = c.base
    <2>1. CASE c \in live
      BY <1>4, <2>1 DEF Owned
    <2>2. CASE c = UserChunk(f)
      <3>1. c.base = f /\ <<s, i, f>>[3] = f /\ <<s, i, f>> \in Holdings'
        BY <2>2 DEF UserChunk
      <3> QED BY <3>1
    <2> QED BY <2>1, <2>2
  <1> QED BY <1>2, <1>3, <1>4 DEF Owned

\* The frames of space s are those of space r now, and r's own are given back.
LEMMA OwnedMove ==
  ASSUME Owned, NEW s \in Holders, NEW r \in Holders, s # r,
         Ent(r)' = Ent(s), Ent(s)' = <<>>, \A z \in Holders : z # s /\ z # r => Ent(z)' = Ent(z),
         \A c \in live \cup live' : ~c.kern =>
            (c \in live' <=> c \in live /\ ~ \E i \in DOMAIN Ent(r) : Ent(r)[i].frame = c.base)
  PROVE  Owned'
  <1> DEFINE T == {h \in Holdings : h[1] # r}
             To(h) == IF h[1] = s THEN <<r, h[2], h[3]>> ELSE h
             m == [h \in T |-> To(h)]
  <1>1. \A h \in T : m[h][3] = h[3]
    OBVIOUS
  <1>2. ASSUME NEW h \in T PROVE m[h] \in Holdings'
    <2>1. PICK z, i : z \in Holders /\ i \in DOMAIN Ent(z) /\ h = <<z, i, Ent(z)[i].frame>>
      BY HoldingsAre
    <2>2. z # r /\ (z = s => m[h] = <<r, i, Ent(z)[i].frame>>) /\ (z # s => m[h] = <<z, i, Ent(z)[i].frame>>)
      BY <2>1
    <2>3. CASE z = s
      <3>1. i \in DOMAIN Ent(r)' /\ Ent(r)'[i].frame = Ent(z)[i].frame
        BY <2>1, <2>3
      <3>2. <<r, i, Ent(r)'[i].frame>> \in Holdings'
        BY <3>1, HoldingsArePrimed
      <3> QED BY <2>2, <2>3, <3>1, <3>2
    <2>4. CASE z # s
      <3>1. Ent(z)' = Ent(z)
        BY <2>1, <2>2, <2>4
      <3>2. <<z, i, Ent(z)'[i].frame>> \in Holdings'
        BY <2>1, <3>1, HoldingsArePrimed
      <3> QED BY <2>2, <2>4, <3>1, <3>2
    <2> QED BY <2>3, <2>4
  <1>3. ASSUME NEW g \in Holdings' PROVE \E h \in T : g = m[h]
    <2>1. PICK z, i : z \in Holders /\ i \in DOMAIN Ent(z)' /\ g = <<z, i, Ent(z)'[i].frame>>
      BY HoldingsArePrimed
    <2>2. z # s
      BY <2>1
    <2>3. CASE z = r
      <3> DEFINE h == <<s, i, Ent(s)[i].frame>>
      <3>1. h \in Holdings /\ i \in DOMAIN Ent(s)
        BY <2>1, <2>3, HoldingsAre
      <3>2. h[1] = s /\ h[2] = i /\ h[3] = Ent(s)[i].frame
        OBVIOUS
      <3>3. h \in T /\ m[h] = <<r, i, Ent(s)[i].frame>>
        BY <3>1, <3>2
      <3>4. g = <<r, i, Ent(s)[i].frame>>
        BY <2>1, <2>3
      <3> QED BY <3>3, <3>4
    <2>4. CASE z # r
      <3> DEFINE h == <<z, i, Ent(z)[i].frame>>
      <3>1. h \in Holdings /\ Ent(z)' = Ent(z)
        BY <2>1, <2>2, <2>4, HoldingsAre
      <3>2. h[1] = z
        OBVIOUS
      <3>3. h \in T /\ m[h] = h
        BY <2>2, <2>4, <3>1, <3>2
      <3> QED BY <2>1, <3>1, <3>3
    <2> QED BY <2>3, <2>4
  <1>4. Holdings' = {m[h] : h \in T}
    <2> HIDE DEF m, T
    <2> QED BY <1>2, <1>3
  <1>5. ASSUME NEW b
        PROVE  (\E h \in Holdings \ T : h[3] = b) <=> (\E i \in DOMAIN Ent(r) : Ent(r)[i].frame = b)
    <2>1. ASSUME NEW h \in Holdings \ T, h[3] = b PROVE \E i \in DOMAIN Ent(r) : Ent(r)[i].frame = b
      <3>1. PICK z, i : z \in Holders /\ i \in DOMAIN Ent(z) /\ h = <<z, i, Ent(z)[i].frame>>
        BY HoldingsAre
      <3>2. z = r
        BY <3>1
      <3> QED BY <2>1, <3>1, <3>2
    <2>2. ASSUME NEW i \in DOMAIN Ent(r), Ent(r)[i].frame = b PROVE \E h \in Holdings \ T : h[3] = b
      <3> DEFINE h == <<r, i, Ent(r)[i].frame>>
      <3>1. h \in Holdings /\ h[1] = r /\ h[3] = b
        BY <2>2, HoldingsAre
      <3> QED BY <3>1
    <2> QED BY <2>1, <2>2
  <1>6. \A c \in live \cup live' : ~c.kern =>
            (c \in live' <=> c \in live /\ ~ \E h \in Holdings \ T : h[3] = c.base)
    <2> HIDE DEF T
    <2> QED BY <1>5
  <1> HIDE DEF m, T
  <1>7. T \in SUBSET Holdings
    BY DEF T
  <1> QED BY <1>1, <1>4, <1>6, <1>7, OwnedThrough

\* Space r is no more.
LEMMA OwnedDrop ==
  ASSUME Owned, NEW r \in Holders,
         Ent(r)' = <<>>, \A z \in Holders : z # r => Ent(z)' = Ent(z),
         \A c \in live \cup live' : ~c.kern =>
            (c \in live' <=> c \in live /\ ~ \E i \in DOMAIN Ent(r) : Ent(r)[i].frame = c.base)
  PROVE  Owned'
  <1> DEFINE T == {h \in Holdings : h[1] # r}
             m == [h \in T |-> h]
  <1>1. \A h \in T : m[h][3] = h[3]
    OBVIOUS
  <1>2. ASSUME NEW h \in T PROVE h \in Holdings'
    <2>1. PICK z, i : z \in Holders /\ i \in DOMAIN Ent(z) /\ h = <<z, i, Ent(z)[i].frame>>
      BY HoldingsAre
    <2>2. Ent(z)' = Ent(z)
      BY <2>1
    <2> QED BY <2>1, <2>2, HoldingsArePrimed
  <1>3. ASSUME NEW g \in Holdings' PROVE g \in T
    <2>1. PICK z, i : z \in Holders /\ i \in DOMAIN Ent(z)' /\ g = <<z, i, Ent(z)'[i].frame>>
      BY HoldingsArePrimed
    <2>2. z # r /\ Ent(z)' = Ent(z)
      BY <2>1
    <2>3. <<z, i, Ent(z)[i].frame>> \in Holdings
      BY <2>1, <2>2, HoldingsAre
    <2> QED BY <2>1, <2>2, <2>3
  <1>4. Holdings' = {m[h] : h \in T}
    <2>1. \A h \in T : m[h] = h
      OBVIOUS
    <2> HIDE DEF m, T
    <2> QED BY <1>2, <1>3, <2>1
  <1>5. ASSUME NEW b
        PROVE  (\E h \in Holdings \ T : h[3] = b) <=> (\E i \in DOMAIN Ent(r) : Ent(r)[i].frame = b)
    <2>1. ASSUME NEW h \in Holdings \ T, h[3] = b PROVE \E i \in DOMAIN Ent(r) : Ent(r)[i].frame = b
      <3>1. PICK z, i : z \in Holders /\ i \in DOMAIN Ent(z) /\ h = <<z, i, Ent(z)[i].frame>>
        BY HoldingsAre
      <3>2. z = r
        BY <3>1
      <3> QED BY <2>1, <3>1, <3>2
    <2>2. ASSUME NEW i \in DOMAIN Ent(r), Ent(r)[i].frame = b PROVE \E h \in Holdings \ T : h[3] = b
      <3> DEFINE h == <<r, i, Ent(r)[i].frame>>
      <3>1. h \in Holdings /\ h[1] = r /\ h[3] = b
        BY <2>2, HoldingsAre
      <3> QED BY <3>1
    <2> QED BY <2>1, <2>2
  <1>6. \A c \in live \cup live' : ~c.kern =>
            (c \in live' <=> c \in live /\ ~ \E h \in Holdings \ T : h[3] = c.base)
    <2> HIDE DEF T
    <2> QED BY <1>5
  <1> HIDE DEF m, T
  <1>7. T \in SUBSET Holdings
    BY DEF T
  <1> QED BY <1>1, <1>4, <1>6, <1>7, OwnedThrough

LEMMA OwnedStays ==
  ASSUME Owned, \A z \in Holders : Ent(z)' = Ent(z),
         \A c \in live \cup live' : ~c.kern => (c \in live' <=> c \in live)
  PROVE  Owned'
  <1>1. Holdings' = Holdings
    <2>1. \A h \in Holdings : h \in Holdings'
      BY HoldingsAre, HoldingsArePrimed
    <2>2. \A h \in Holdings' : h \in Holdings
      BY HoldingsAre, HoldingsArePrimed
    <2> QED BY <2>1, <2>2
  <1> QED BY <1>1, OwnedSame

\* Space s has one frame more, which was free.
LEMMA OwnedAppend ==
  ASSUME CmGood, Owned, NEW s \in Holders, NEW f \in Pages, NEW a, coremap[f] = FreeEntry,
         live' = live \cup {UserChunk(f)}, Ent(s) \in Seq([vaddr : Nat, frame : Pages]),
         Ent(s)' = Append(Ent(s), [vaddr |-> a, frame |-> f]), a \in Nat,
         \A z \in Holders : z # s => Ent(z)' = Ent(z)
  PROVE  Owned'
  <1> DEFINE n == Len(Ent(s))
             new == <<s, n + 1, f>>
  <1>1. n \in Nat /\ DOMAIN Ent(s) = 1 .. n /\ DOMAIN Ent(s)' = 1 .. n + 1
    OBVIOUS
  <1>2. Ent(s)'[n + 1].frame = f /\ \A i \in 1 .. n : Ent(s)'[i] = Ent(s)[i]
    BY <1>1
  <1>3. Holdings' = Holdings \cup {new}
    <2>1. ASSUME NEW h \in Holdings PROVE h \in Holdings'
      <3>1. PICK z, i : z \in Holders /\ i \in DOMAIN Ent(z) /\ h = <<z, i, Ent(z)[i].frame>>
        BY HoldingsAre
      <3>2. i \in DOMAIN Ent(z)' /\ Ent(z)'[i].frame = Ent(z)[i].frame
        <4>1. CASE z = s
          <5>1. i \in 1 .. n /\ i \in 1 .. n + 1
            BY <1>1, <3>1, <4>1
          <5> QED BY <1>1, <1>2, <4>1, <5>1
        <4>2. CASE z # s
          BY <3>1, <4>2
        <4> QED BY <4>1, <4>2
      <3> QED BY <3>1, <3>2, HoldingsArePrimed
    <2>2. new \in Holdings'
      <3>1. n + 1 \in DOMAIN Ent(s)'
        BY <1>1
      <3> QED BY <1>2, <3>1, HoldingsArePrimed
    <2>3. ASSUME NEW h \in Holdings' PROVE h \in Holdings \/ h = new
      <3>1. PICK z, i : z \in Holders /\ i \in DOMAIN Ent(z)' /\ h = <<z, i, Ent(z)'[i].frame>>
        BY HoldingsArePrimed
      <3>2. CASE z # s
        <4>1. Ent(z)' = Ent(z)
          BY <3>1, <3>2
        <4> QED BY <3>1, <4>1, HoldingsAre
      <3>3. CASE z = s /\ i = n + 1
        BY <1>2, <3>1, <3>3
      <3>4. CASE z = s /\ i # n + 1
        <4>1. i \in 1 .. n
          BY <1>1, <3>1, <3>4
        <4>2. <<s, i, Ent(s)[i].frame>> \in Holdings
          BY <1>1, <4>1, HoldingsAre
        <4> QED BY <1>2, <3>1, <3>4, <4>1, <4>2
      <3> QED BY <3>2, <3>3, <3>4
    <2> QED BY <2>1, <2>2, <2>3
  <1> QED BY <1>3, OwnedAdd

-----------------------------------------------------------------------------
(* Steps *)

LEMMA ProcHere ==
  ASSUME ProcInv, NEW p \in Procs
  PROVE  /\ as[p] \in Space /\ old[p] \in Space /\ mode[p] \in Modes /\ todo[p] \in Seq(Nat)
         /\ ModeOK(as[p], old[p], mode[p], todo[p])
         /\ HeapsOK(as[p], old[p], mode[p], todo[p], p \in bent)
         /\ as = [as EXCEPT ![p] = as[p]] /\ old = [old EXCEPT ![p] = old[p]]
         /\ mode = [mode EXCEPT ![p] = mode[p]] /\ todo = [todo EXCEPT ![p] = todo[p]]
  BY DEF ProcInv

\* A process changes what is its own.
LEMMA OneProc ==
  ASSUME ProcInv, NEW p \in Procs, NEW a \in Space, NEW o \in Space, NEW m \in Modes, NEW t \in Seq(Nat),
         as' = [as EXCEPT ![p] = a], old' = [old EXCEPT ![p] = o],
         mode' = [mode EXCEPT ![p] = m], todo' = [todo EXCEPT ![p] = t],
         \A q \in Procs \ {p} : q \in bent' <=> q \in bent,
         ModeOK(a, o, m, t), HeapsOK(a, o, m, t, p \in bent')
  PROVE  /\ ProcInv'
         /\ Ent(<<p, "as">>)' = (IF m = "destroyed" THEN <<>> ELSE a.entries)
         /\ Ent(<<p, "old">>)' = o.entries
         /\ \A z \in Holders : z # <<p, "as">> /\ z # <<p, "old">> => Ent(z)' = Ent(z)
  <1>1. /\ as \in [Procs -> Space] /\ old \in [Procs -> Space] /\ mode \in [Procs -> Modes]
        /\ todo \in [Procs -> Seq(Nat)]
    BY DEF ProcInv
  <1>2. /\ as' \in [Procs -> Space] /\ old' \in [Procs -> Space] /\ mode' \in [Procs -> Modes]
        /\ todo' \in [Procs -> Seq(Nat)]
    BY <1>1
  <1>3. as'[p] = a /\ old'[p] = o /\ mode'[p] = m /\ todo'[p] = t
    BY <1>1
  <1>4. \A q \in Procs \ {p} : as'[q] = as[q] /\ old'[q] = old[q] /\ mode'[q] = mode[q] /\ todo'[q] = todo[q]
    BY <1>1
  <1>5. ASSUME NEW q \in Procs
        PROVE  /\ ModeOK(as'[q], old'[q], mode'[q], todo'[q])
               /\ HeapsOK(as'[q], old'[q], mode'[q], todo'[q], q \in bent')
    <2>1. CASE q = p
      BY <1>3, <2>1
    <2>2. CASE q # p
      <3>1. ModeOK(as[q], old[q], mode[q], todo[q]) /\ HeapsOK(as[q], old[q], mode[q], todo[q], q \in bent)
        BY DEF ProcInv
      <3>2. (q \in bent') = (q \in bent)
        BY <2>2
      <3> QED BY <1>4, <2>2, <3>1, <3>2
    <2> QED BY <2>1, <2>2
  <1>6. ProcInv'
    BY <1>2, <1>5 DEF ProcInv
  <1>7. Ent(<<p, "as">>)' = (IF m = "destroyed" THEN <<>> ELSE a.entries) /\ Ent(<<p, "old">>)' = o.entries
    BY <1>3, EntIs
  <1>8. ASSUME NEW z \in Holders, z # <<p, "as">>, z # <<p, "old">> PROVE Ent(z)' = Ent(z)
    <2>1. PICK q \in Procs : z = <<q, "as">> \/ z = <<q, "old">>
      BY HoldersAre
    <2>2. q # p
      BY <1>8, <2>1
    <2>3. Ent(<<q, "as">>)' = Ent(<<q, "as">>) /\ Ent(<<q, "old">>)' = Ent(<<q, "old">>)
      <3>1. as'[q] = as[q] /\ old'[q] = old[q] /\ mode'[q] = mode[q]
        BY <1>4, <2>2
      <3>2. /\ Ent(<<q, "as">>) = IF mode[q] = "destroyed" THEN <<>> ELSE as[q].entries
            /\ Ent(<<q, "old">>) = old[q].entries
            /\ Ent(<<q, "as">>)' = IF mode'[q] = "destroyed" THEN <<>> ELSE as'[q].entries
            /\ Ent(<<q, "old">>)' = old'[q].entries
        BY EntIs
      <3> QED BY <3>1, <3>2
    <2>4. CASE z = <<q, "as">>
      BY <2>3, <2>4
    <2>5. CASE z = <<q, "old">>
      BY <2>3, <2>5
    <2> QED BY <2>1, <2>4, <2>5
  <1> QED BY <1>6, <1>7, <1>8

LEMMA FramesFacts ==
  ASSUME NEW space \in Space
  PROVE  /\ FramesOf(space) \in Seq(Pages) /\ DOMAIN FramesOf(space) = DOMAIN space.entries
         /\ \A i \in DOMAIN space.entries : FramesOf(space)[i] = space.entries[i].frame
         /\ Len(FramesOf(space)) = Len(space.entries)
  <1>1. space.entries \in Seq([vaddr : Nat, frame : Pages])
    BY DEF Space
  <1>2. PICK n \in Nat : n = Len(space.entries) /\ DOMAIN space.entries = 1 .. n
    BY <1>1
  <1>3. \A i \in 1 .. n : space.entries[i].frame \in Pages
    <2>1. \A i \in 1 .. n : space.entries[i] \in [vaddr : Nat, frame : Pages]
      BY <1>1, <1>2, ElementOfSeq
    <2> QED BY <2>1
  <1>4. FramesOf(space) \in [1 .. n -> Pages]
    BY <1>2, <1>3 DEF FramesOf
  <1>5. [1 .. n -> Pages] \subseteq Seq(Pages)
    BY <1>2, SeqDef
  <1> QED BY <1>2, <1>4, <1>5 DEF FramesOf

LEMMA NotAllocated ==
  ASSUME CmGood, NEW i \in Pages, ~coremap[i].is_allocated
  PROVE  coremap[i] = FreeEntry
  <1>1. ASSUME NEW c \in live, i \in PagesOf(c) PROVE FALSE
    <2>1. coremap[i] = Marked(c)
      BY <1>1 DEF CmGood, Marks
    <2> QED BY <2>1 DEF Marked
  <1> QED BY <1>1 DEF CmGood, Marks

LEMMA TakeKeeps ==
  ASSUME CmGood, NEW f \in Pages, TakePage(f)
  PROVE  CmGood' /\ live' = live \cup {UserChunk(f)} /\ coremap[f] = FreeEntry /\ UNCHANGED overrun
  <1>1. PICK n \in Nat \ {0} : n = 1
    OBVIOUS
  <1>2. Allocate(n, FALSE) /\ f = getpaddr(coremap, n)
    BY <1>1 DEF TakePage, page_alloc
  <1>3. UserChunk(f) = [base |-> getpaddr(coremap, n), npages |-> n, kern |-> FALSE]
    BY <1>1, <1>2 DEF UserChunk
  <1>4. CmGood' /\ live' = live \cup {UserChunk(f)} /\ UserChunk(f).base \in Pages /\ coremap[UserChunk(f).base] = FreeEntry
    BY <1>1, <1>2, <1>3, AllocKeeps
  <1> QED BY <1>2, <1>4 DEF UserChunk, Allocate

\* as_destroy of space s, given the frames it lists and perhaps free ones.
LEMMA DestroyKeeps ==
  ASSUME CmGood, Owned, NEW s \in Holders, NEW fr \in Seq(Pages), FreeAll(fr), ~overrun',
         \A j \in DOMAIN fr : coremap[fr[j]] = FreeEntry \/ \E i \in DOMAIN Ent(s) : fr[j] = Ent(s)[i].frame,
         \A i \in DOMAIN Ent(s) : \E j \in DOMAIN fr : fr[j] = Ent(s)[i].frame
  PROVE  /\ CmGood'
         /\ \A c \in live \cup live' : ~c.kern =>
              (c \in live' <=> c \in live /\ ~ \E i \in DOMAIN Ent(s) : Ent(s)[i].frame = c.base)
  <1>1. ASSUME NEW i \in DOMAIN Ent(s) PROVE UserChunk(Ent(s)[i].frame) \in live
    <2>1. <<s, i, Ent(s)[i].frame>> \in Holdings
      BY HoldingsAre
    <2>2. PICK h \in Holdings : h[3] = Ent(s)[i].frame
      BY <2>1
    <2> QED BY <2>2 DEF Owned
  <1>2. \A j \in DOMAIN fr : UserChunk(fr[j]) \in live \/ coremap[fr[j]] = FreeEntry
    BY <1>1
  <1>3. CmGood' /\ live' = live \ {c \in live : ~c.kern /\ \E j \in DOMAIN fr : c.base = fr[j]}
    BY <1>2, FreeAllKeeps
  <1>4. ASSUME NEW c \in live PROVE coremap[c.base] # FreeEntry
    <2>1. coremap[c.base] = Marked(c)
      BY ChunkFacts DEF CmGood, Marks
    <2> QED BY <2>1 DEF Marked, FreeEntry
  <1>5. \A c \in live : (\E j \in DOMAIN fr : c.base = fr[j]) <=> \E i \in DOMAIN Ent(s) : Ent(s)[i].frame = c.base
    BY <1>4
  <1> QED BY <1>3, <1>5

LEMMA DestroySpace ==
  ASSUME CmGood, Owned, NEW s \in Holders, NEW space \in Space, Ent(s) = space.entries,
         FreeAll(FramesOf(space)), ~overrun'
  PROVE  /\ CmGood'
         /\ \A c \in live \cup live' : ~c.kern =>
              (c \in live' <=> c \in live /\ ~ \E i \in DOMAIN Ent(s) : Ent(s)[i].frame = c.base)
  <1> DEFINE fr == FramesOf(space)
  <1>1. fr \in Seq(Pages) /\ DOMAIN fr = DOMAIN Ent(s) /\ \A i \in DOMAIN fr : fr[i] = Ent(s)[i].frame
    BY FramesFacts
  <1>2. FreeAll(fr)
    OBVIOUS
  <1> HIDE DEF fr
  <1> QED BY <1>1, <1>2, DestroyKeeps

LEMMA CmSame ==
  ASSUME CmGood, UNCHANGED cmVars
  PROVE  CmGood' /\ live' = live
  BY DEF CmGood, ChunkTypes, ChunksDisjoint, Marks, cmVars

LEMMA RegionFacts ==
  ASSUME NEW n \in ProgramPages
  PROVE  /\ as_define_region(n) \in Space /\ EndInLast(as_define_region(n))
         /\ as_define_region(n).end > 0 /\ as_define_region(n).entries = <<>>
         /\ NoHeap(as_define_region(n))
         /\ [i \in 1 .. n |-> CodeStart + (i - 1) * PAGE_SIZE] \in Seq(Nat)
  <1> DEFINE x == as_define_region(n)
             b == CodeStart + n * PAGE_SIZE
  <1>1. n \in Nat /\ CodeStart % PAGE_SIZE = 0
    BY AddrSpaceAssumption
  <1>2. b \in Nat /\ b % PAGE_SIZE = 0
    BY <1>1, Sizes, PagesOn
  <1> HIDE DEF b
  <1>3. /\ x.vstart = CodeStart /\ x.vbreakbase = b /\ x.vbreaktop = b /\ x.heapNPages = 0
        /\ x.entries = <<>> /\ x.end = 1
    BY DEF as_define_region, as_create, b
  <1>4. x \in Space
    <2>1. as_create \in Space
      BY EmptySpaces
    <2> QED BY <1>2, <2>1, Sizes DEF as_define_region, Space, b
  <1>5. NoHeap(x)
    <2>1. 0 * PAGE_SIZE = 0
      BY Sizes
    <2> QED BY <1>2, <1>3, <2>1, Sizes DEF NoHeap, Reach, Have
  <1>6. [i \in 1 .. n |-> CodeStart + (i - 1) * PAGE_SIZE] \in Seq(Nat)
    <2>1. ASSUME NEW i \in 1 .. n PROVE CodeStart + (i - 1) * PAGE_SIZE \in Nat
      <3>1. PICK k \in Nat : k = i - 1
        BY <1>1
      <3>2. k * PAGE_SIZE \in Nat
        BY Sizes
      <3> QED BY <3>1, <3>2, Sizes
    <2>2. [i \in 1 .. n |-> CodeStart + (i - 1) * PAGE_SIZE] \in [1 .. n -> Nat]
      BY <2>1
    <2>3. [1 .. n -> Nat] \subseteq Seq(Nat)
      BY <1>1, SeqDef
    <2> QED BY <2>2, <2>3
  <1> QED BY <1>3, <1>4, <1>5, <1>6 DEF EndInLast

LEMMA execvKeeps ==
  ASSUME Good, NEW p \in Procs, execv(p)
  PROVE  Good'
  <1>1. CmGood /\ Owned /\ ProcInv
    BY DEF Good
  <1>2. PICK n \in ProgramPages :
          /\ as' = [as EXCEPT ![p] = as_define_region(n)]
          /\ todo' = [todo EXCEPT ![p] = [i \in 1 .. n |-> CodeStart + (i - 1) * PAGE_SIZE]]
    BY DEF execv
  <1> DEFINE a == as_define_region(n)
             t == [i \in 1 .. n |-> CodeStart + (i - 1) * PAGE_SIZE]
  <1>3. a \in Space /\ EndInLast(a) /\ a.end > 0 /\ a.entries = <<>> /\ NoHeap(a) /\ t \in Seq(Nat)
    BY RegionFacts
  <1>4. as' = [as EXCEPT ![p] = a] /\ todo' = [todo EXCEPT ![p] = t]
    BY <1>2
  <1> HIDE DEF a, t
  <1>5. /\ mode[p] \in {"none", "user"} /\ old' = [old EXCEPT ![p] = as[p]]
        /\ mode' = [mode EXCEPT ![p] = "load"] /\ UNCHANGED cmVars /\ bent' = bent
    BY DEF execv
  <1>6. /\ as[p] \in Space /\ ModeOK(as[p], old[p], mode[p], todo[p])
        /\ HeapsOK(as[p], old[p], mode[p], todo[p], p \in bent)
    BY <1>1, ProcHere
  <1>7. old[p] = NoAs /\ (as[p] # NoAs => as[p].end > 0) /\ EndInLast(as[p])
    BY <1>5, <1>6 DEF ModeOK
  <1>8. ModeOK(a, as[p], "load", t)
    BY <1>3, <1>7 DEF ModeOK
  <1>9. HeapsOK(a, as[p], "load", t, p \in bent')
    BY <1>3, <1>5, <1>6 DEF HeapsOK
  <1>10. /\ ProcInv' /\ Ent(<<p, "as">>)' = a.entries /\ Ent(<<p, "old">>)' = as[p].entries
         /\ \A z \in Holders : z # <<p, "as">> /\ z # <<p, "old">> => Ent(z)' = Ent(z)
    <2>1. "load" \in Modes /\ "load" # "destroyed"
      BY DEF Modes
    <2> QED BY <1>1, <1>3, <1>4, <1>5, <1>6, <1>8, <1>9, <2>1, OneProc
  <1>11. CmGood' /\ live' = live
    BY <1>1, <1>5, CmSame
  <1>12. Ent(<<p, "as">>) = as[p].entries /\ Ent(<<p, "old">>) = <<>>
    BY <1>5, <1>7, EntIs, EmptySpaces
  <1>13. Owned'
    <2> DEFINE s == <<p, "as">>
               r == <<p, "old">>
    <2>1. s \in Holders /\ r \in Holders /\ s # r
      BY HoldersAre
    <2> HIDE DEF s, r
    <2>2. Ent(r)' = Ent(s) /\ Ent(s)' = <<>> /\ \A z \in Holders : z # s /\ z # r => Ent(z)' = Ent(z)
      BY <1>3, <1>10, <1>12 DEF s, r
    <2>3. DOMAIN Ent(r) = {}
      BY <1>12 DEF r
    <2>4. \A c \in live \cup live' : ~c.kern =>
            (c \in live' <=> c \in live /\ ~ \E i \in DOMAIN Ent(r) : Ent(r)[i].frame = c.base)
      BY <1>11, <2>3
    <2> QED BY <1>1, <2>1, <2>2, <2>4, OwnedMove
  <1> QED BY <1>10, <1>11, <1>13 DEF Good

\* The head of what is to do is in the list, and the rest is its tail.
LEMMA TodoFacts ==
  ASSUME NEW t \in Seq(Nat), t # <<>>
  PROVE  /\ Head(t) \in Nat /\ Tail(t) \in Seq(Nat)
         /\ \E n \in Nat : Len(t) = n + 1 /\ Len(Tail(t)) = n
         /\ Elems(t) = {Head(t)} \cup Elems(Tail(t))
  <1>1. PICK n \in Nat : Len(t) = n + 1 /\ Len(Tail(t)) = n
    <2>1. Len(t) \in Nat /\ Len(t) # 0 /\ Len(Tail(t)) = Len(t) - 1
      OBVIOUS
    <2>2. PICK k \in Nat : k = Len(t) /\ k # 0 /\ Len(Tail(t)) = k - 1
      BY <2>1
    <2>3. PICK n \in Nat : n = k - 1 /\ k = n + 1
      BY <2>2
    <2> QED BY <2>2, <2>3
  <1>2. Head(t) = t[1] /\ t[1] \in Nat /\ Tail(t) \in Seq(Nat)
    OBVIOUS
  <1>3. DOMAIN t = 1 .. n + 1 /\ DOMAIN Tail(t) = 1 .. n
    BY <1>1, <1>2
  <1>4. \A i \in 1 .. n : Tail(t)[i] = t[i + 1]
    BY <1>1, <1>2
  <1>5. \A i \in 1 .. n + 1 : i = 1 \/ (i - 1 \in 1 .. n /\ (i - 1) + 1 = i)
    BY <1>1
  <1>6. 1 \in 1 .. n + 1 /\ \A i \in 1 .. n : i + 1 \in 1 .. n + 1
    BY <1>1
  <1>7. Elems(t) \subseteq {Head(t)} \cup Elems(Tail(t))
    <2>1. ASSUME NEW i \in 1 .. n + 1 PROVE t[i] \in {Head(t)} \cup Elems(Tail(t))
      <3>1. CASE i = 1
        BY <1>2, <3>1
      <3>2. CASE i # 1
        <4>1. PICK j \in 1 .. n : j + 1 = i
          BY <1>5, <3>2
        <4>2. Tail(t)[j] = t[i]
          BY <1>4, <4>1
        <4> QED BY <1>3, <4>2 DEF Elems
      <3> QED BY <3>1, <3>2
    <2> QED BY <1>3, <2>1 DEF Elems
  <1>8. {Head(t)} \cup Elems(Tail(t)) \subseteq Elems(t)
    BY <1>2, <1>3, <1>4, <1>6 DEF Elems
  <1> QED BY <1>1, <1>2, <1>7, <1>8

LEMMA MapPageKeeps ==
  ASSUME Good, NEW p \in Procs, MapPage(p), ~severed'
  PROVE  Good'
  <1>1. CmGood /\ Owned /\ ProcInv
    BY DEF Good
  <1>2. PICK f \in Pages :
          /\ TakePage(f)
          /\ as' = [as EXCEPT ![p] = [addPageEntry(as[p], Head(todo[p]), f) EXCEPT
                       !.heapNPages = IF mode[p] = "sbrk" THEN @ + 1 ELSE @]]
    BY DEF MapPage
  <1>3. /\ mode[p] \in {"load", "sbrk"} /\ todo[p] # <<>> /\ ~Severs(as[p])
        /\ todo' = [todo EXCEPT ![p] = Tail(todo[p])] /\ old' = old /\ mode' = mode /\ bent' = bent
    BY DEF MapPage
  <1>4. /\ as[p] \in Space /\ old[p] \in Space /\ todo[p] \in Seq(Nat) /\ mode[p] \in Modes
        /\ ModeOK(as[p], old[p], mode[p], todo[p])
        /\ HeapsOK(as[p], old[p], mode[p], todo[p], p \in bent)
        /\ old' = [old EXCEPT ![p] = old[p]] /\ mode' = [mode EXCEPT ![p] = mode[p]]
    BY <1>1, <1>3, ProcHere
  <1> DEFINE v == Head(todo[p])
             t == Tail(todo[p])
             x == addPageEntry(as[p], v, f)
             h == IF mode[p] = "sbrk" THEN x.heapNPages + 1 ELSE x.heapNPages
             a == [x EXCEPT !.heapNPages = h]
  <1>5. v \in Nat /\ t \in Seq(Nat) /\ Elems(todo[p]) = {v} \cup Elems(t)
    BY <1>3, <1>4, TodoFacts
  <1>6. PICK n \in Nat : Len(todo[p]) = n + 1 /\ Len(t) = n
    BY <1>3, <1>4, TodoFacts
  <1>7. EndInLast(as[p]) /\ as[p].end > 0
    BY <1>3, <1>4 DEF ModeOK
  <1>8. /\ x \in Space /\ EndInLast(x) /\ x.end > 0
        /\ x.entries = Append(as[p].entries, [vaddr |-> v, frame |-> f])
        /\ x.vbreakbase = as[p].vbreakbase /\ x.vbreaktop = as[p].vbreaktop
        /\ x.heapNPages = as[p].heapNPages
        /\ Mapped(x) = Mapped(as[p]) \cup {v}
    <2>1. as[p] \in Space /\ EndInLast(as[p]) /\ as[p].end > 0 /\ ~Severs(as[p]) /\ v \in Nat
      BY <1>3, <1>4, <1>5, <1>7
    <2> HIDE DEF v, t
    <2> QED BY <2>1, AddEntryFacts
  <1>9. as' = [as EXCEPT ![p] = a]
    BY <1>2
  <1> HIDE DEF v, t, x
  <1>10. h \in Nat
    <2>1. x.heapNPages \in Nat
      BY <1>8 DEF Space
    <2> QED BY <2>1
  <1>11. /\ a \in Space /\ a.end = x.end /\ a.entries = x.entries /\ a.vbreakbase = x.vbreakbase
         /\ a.vbreaktop = x.vbreaktop /\ a.heapNPages = h
    BY <1>8, <1>10 DEF Space
  <1> HIDE DEF a
  <1>12. Mapped(a) = Mapped(as[p]) \cup {v} /\ EndInLast(a) /\ a.end > 0
    BY <1>8, <1>11 DEF Mapped, EndInLast
  <1>13. ModeOK(a, old[p], mode[p], t)
    BY <1>3, <1>4, <1>12 DEF ModeOK
  <1>14. HeapsOK(a, old[p], mode[p], t, p \in bent')
    <2>1. CASE mode[p] = "load"
      <3>1. NoHeap(as[p]) /\ h = as[p].heapNPages
        BY <1>4, <1>8, <2>1 DEF HeapsOK
      <3>2. NoHeap(a)
        BY <1>8, <1>11, <3>1, ReachSame DEF NoHeap
      <3> QED BY <1>3, <1>4, <2>1, <3>2 DEF HeapsOK
    <2>2. CASE mode[p] = "sbrk"
      <3>1. SUFFICES ASSUME p \notin bent PROVE Reach(a, Len(t)) /\ Backed(a, Elems(t))
        BY <1>3, <2>2 DEF HeapsOK
      <3>2. Reach(as[p], n + 1) /\ Backed(as[p], Elems(todo[p]))
        BY <1>4, <1>6, <2>2, <3>1 DEF HeapsOK
      <3>3. Reach(a, n)
        BY <1>4, <1>8, <1>11, <2>2, <3>2, ReachNext
      <3>4. Backed(a, Elems(t))
        <4>1. a.vbreakbase = as[p].vbreakbase /\ a.vbreaktop = as[p].vbreaktop
          BY <1>8, <1>11
        <4>2. Mapped(as[p]) \cup Elems(todo[p]) \subseteq Mapped(a) \cup Elems(t)
          BY <1>5, <1>12
        <4> QED BY <3>2, <4>1, <4>2, BackedSame
      <3> QED BY <1>6, <3>3, <3>4
    <2> QED BY <1>3, <2>1, <2>2
  <1>15. /\ ProcInv' /\ Ent(<<p, "as">>)' = (IF mode[p] = "destroyed" THEN <<>> ELSE a.entries)
         /\ Ent(<<p, "old">>)' = old[p].entries
         /\ \A z \in Holders : z # <<p, "as">> /\ z # <<p, "old">> => Ent(z)' = Ent(z)
    <2>1. todo' = [todo EXCEPT ![p] = t] /\ \A q \in Procs \ {p} : q \in bent' <=> q \in bent
      BY <1>3 DEF t
    <2>2. ProcInv /\ a \in Space /\ old[p] \in Space /\ mode[p] \in Modes /\ t \in Seq(Nat)
      BY <1>1, <1>4, <1>5, <1>11
    <2>3. old' = [old EXCEPT ![p] = old[p]] /\ mode' = [mode EXCEPT ![p] = mode[p]]
      BY <1>4
    <2> QED BY <1>9, <1>13, <1>14, <2>1, <2>2, <2>3, OneProc
  <1>16. CmGood' /\ live' = live \cup {UserChunk(f)} /\ coremap[f] = FreeEntry
    BY <1>1, <1>2, TakeKeeps
  <1>17. Ent(<<p, "as">>) = as[p].entries /\ Ent(<<p, "old">>) = old[p].entries
    BY <1>3, EntIs
  <1>18. Owned'
    <2> DEFINE s == <<p, "as">>
    <2>1. s \in Holders
      BY HoldersAre
    <2> HIDE DEF s
    <2>2. Ent(s) \in Seq([vaddr : Nat, frame : Pages])
      BY <1>4, <1>17 DEF s, Space
    <2>3. Ent(s)' = Append(Ent(s), [vaddr |-> v, frame |-> f])
      BY <1>3, <1>8, <1>11, <1>15, <1>17 DEF s
    <2>4. \A z \in Holders : z # s => Ent(z)' = Ent(z)
      BY <1>15, <1>17 DEF s
    <2> QED BY <1>1, <1>5, <1>16, <2>1, <2>2, <2>3, <2>4, OwnedAppend
  <1> QED BY <1>15, <1>16, <1>18 DEF Good

LEMMA LoadDoneKeeps ==
  ASSUME Good, NEW p \in Procs, LoadDone(p), ~overrun'
  PROVE  Good'
  <1>1. CmGood /\ Owned /\ ProcInv
    BY DEF Good
  <1>2. /\ mode[p] = "load" /\ todo[p] = <<>> /\ FreeAll(FramesOf(old[p]))
        /\ old' = [old EXCEPT ![p] = NoAs] /\ mode' = [mode EXCEPT ![p] = "user"]
        /\ bent' = bent \ {p} /\ as' = as /\ todo' = todo
    BY DEF LoadDone
  <1>3. /\ as[p] \in Space /\ old[p] \in Space /\ todo[p] \in Seq(Nat)
        /\ ModeOK(as[p], old[p], mode[p], todo[p])
        /\ HeapsOK(as[p], old[p], mode[p], todo[p], p \in bent)
        /\ as' = [as EXCEPT ![p] = as[p]] /\ todo' = [todo EXCEPT ![p] = todo[p]]
    BY <1>1, <1>2, ProcHere
  <1>4. NoAs \in Space /\ EndInLast(NoAs) /\ NoAs.entries = <<>> /\ "user" \in Modes
    BY EmptySpaces DEF Modes
  <1>5. ModeOK(as[p], NoAs, "user", todo[p])
    BY <1>2, <1>3, <1>4 DEF ModeOK
  <1>6. HeapsOK(as[p], NoAs, "user", todo[p], p \in bent')
    <2>1. NoHeap(as[p])
      BY <1>2, <1>3 DEF HeapsOK
    <2>2. HeapOK(as[p])
      BY <1>3, <2>1, NoHeapOK
    <2> QED BY <2>2 DEF HeapsOK
  <1>7. /\ ProcInv' /\ Ent(<<p, "as">>)' = as[p].entries /\ Ent(<<p, "old">>)' = NoAs.entries
        /\ \A z \in Holders : z # <<p, "as">> /\ z # <<p, "old">> => Ent(z)' = Ent(z)
    <2>1. \A q \in Procs \ {p} : q \in bent' <=> q \in bent
      BY <1>2
    <2>2. "user" # "destroyed"
      OBVIOUS
    <2> QED BY <1>1, <1>2, <1>3, <1>4, <1>5, <1>6, <2>1, <2>2, OneProc
  <1>8. Ent(<<p, "as">>) = as[p].entries /\ Ent(<<p, "old">>) = old[p].entries
    BY <1>2, EntIs
  <1> DEFINE r == <<p, "old">>
  <1>9. r \in Holders
    BY HoldersAre
  <1>10. Ent(r) = old[p].entries /\ Ent(r)' = <<>> /\ \A z \in Holders : z # r => Ent(z)' = Ent(z)
    BY <1>4, <1>7, <1>8
  <1> HIDE DEF r
  <1>11. /\ CmGood'
         /\ \A c \in live \cup live' : ~c.kern =>
              (c \in live' <=> c \in live /\ ~ \E i \in DOMAIN Ent(r) : Ent(r)[i].frame = c.base)
    BY <1>1, <1>2, <1>3, <1>9, <1>10, DestroySpace
  <1>12. Owned'
    BY <1>1, <1>9, <1>10, <1>11, OwnedDrop
  <1> QED BY <1>7, <1>11, <1>12 DEF Good

\* The old space is back: what LoadFails and DestroyAgain end with.
LEMMA BackToOld ==
  ASSUME ProcInv, NEW p \in Procs, mode[p] \in {"load", "destroyed"},
         as' = [as EXCEPT ![p] = old[p]], old' = [old EXCEPT ![p] = NoAs],
         todo' = [todo EXCEPT ![p] = <<>>], bent' = bent,
         mode' = [mode EXCEPT ![p] = IF old[p] = NoAs THEN "none" ELSE "user"]
  PROVE  /\ ProcInv' /\ Ent(<<p, "as">>)' = Ent(<<p, "old">>) /\ Ent(<<p, "old">>)' = <<>>
         /\ \A z \in Holders : z # <<p, "old">> /\ z # <<p, "as">> => Ent(z)' = Ent(z)
  <1>1. /\ as[p] \in Space /\ old[p] \in Space
        /\ ModeOK(as[p], old[p], mode[p], todo[p])
        /\ HeapsOK(as[p], old[p], mode[p], todo[p], p \in bent)
    BY ProcHere
  <1>2. NoAs \in Space /\ EndInLast(NoAs) /\ NoAs.entries = <<>> /\ HeapOK(NoAs) /\ <<>> \in Seq(Nat)
    BY EmptySpaces
  <1> DEFINE m == IF old[p] = NoAs THEN "none" ELSE "user"
  <1>3. m \in Modes /\ m # "destroyed"
    BY DEF Modes
  <1>4. ModeOK(old[p], NoAs, m, <<>>)
    BY <1>1, <1>2 DEF ModeOK
  <1>5. HeapsOK(old[p], NoAs, m, <<>>, p \in bent')
    BY <1>1 DEF HeapsOK
  <1>6. mode' = [mode EXCEPT ![p] = m] /\ \A q \in Procs \ {p} : q \in bent' <=> q \in bent
    OBVIOUS
  <1> HIDE DEF m
  <1>7. /\ ProcInv' /\ Ent(<<p, "as">>)' = old[p].entries /\ Ent(<<p, "old">>)' = NoAs.entries
        /\ \A z \in Holders : z # <<p, "as">> /\ z # <<p, "old">> => Ent(z)' = Ent(z)
    BY <1>1, <1>2, <1>3, <1>4, <1>5, <1>6, OneProc
  <1>8. Ent(<<p, "old">>) = old[p].entries
    BY EntIs
  <1> QED BY <1>2, <1>7, <1>8

LEMMA LoadFailsKeeps ==
  ASSUME Good, NEW p \in Procs, LoadFails(p), ~overrun'
  PROVE  Good'
  <1>1. CmGood /\ Owned /\ ProcInv
    BY DEF Good
  <1>2. /\ mode[p] = "load" /\ FreeAll(FramesOf(as[p])) /\ as[p] \in Space
        /\ Ent(<<p, "as">>) = as[p].entries
    BY <1>1, EntIs, ProcHere DEF LoadFails
  <1> DEFINE s == <<p, "old">>
             r == <<p, "as">>
  <1>3. r \in Holders /\ s \in Holders /\ s # r
    BY HoldersAre
  <1>4. ProcInv' /\ Ent(r)' = Ent(s) /\ Ent(s)' = <<>> /\ \A z \in Holders : z # s /\ z # r => Ent(z)' = Ent(z)
    BY <1>1, <1>2, BackToOld DEF LoadFails
  <1>5. Ent(r) = as[p].entries
    BY <1>2
  <1> HIDE DEF r, s
  <1>6. /\ CmGood'
        /\ \A c \in live \cup live' : ~c.kern =>
              (c \in live' <=> c \in live /\ ~ \E i \in DOMAIN Ent(r) : Ent(r)[i].frame = c.base)
    BY <1>1, <1>2, <1>3, <1>5, DestroySpace
  <1>7. Owned'
    BY <1>1, <1>3, <1>4, <1>6, OwnedMove
  <1> QED BY <1>4, <1>6, <1>7 DEF Good

LEMMA DestroyAgainKeeps ==
  ASSUME Good, NEW p \in Procs, DestroyAgain(p), ~overrun', ~refreed'
  PROVE  Good'
  <1>1. CmGood /\ Owned /\ ProcInv
    BY DEF Good
  <1>2. mode[p] = "destroyed" /\ as[p] \in Space /\ Ent(<<p, "as">>) = <<>>
    BY <1>1, EntIs, ProcHere DEF DestroyAgain
  <1>3. PICK fr \in {<<>>, FramesOf(as[p])} : FreeAll(fr) /\ \A i \in DOMAIN fr : ~coremap[fr[i]].is_allocated
    BY DEF DestroyAgain
  <1>4. fr \in Seq(Pages)
    <2>1. FramesOf(as[p]) \in Seq(Pages)
      BY <1>2, FramesFacts
    <2>2. <<>> \in Seq(Pages)
      OBVIOUS
    <2> QED BY <1>3, <2>1, <2>2
  <1>5. \A i \in DOMAIN fr : coremap[fr[i]] = FreeEntry
    <2>1. \A i \in DOMAIN fr : fr[i] \in Pages
      BY <1>4
    <2> QED BY <1>1, <1>3, <2>1, NotAllocated
  <1> DEFINE s == <<p, "old">>
             r == <<p, "as">>
  <1>6. r \in Holders /\ s \in Holders /\ s # r
    BY HoldersAre
  <1>7. ProcInv' /\ Ent(r)' = Ent(s) /\ Ent(s)' = <<>> /\ \A z \in Holders : z # s /\ z # r => Ent(z)' = Ent(z)
    <2>1. todo' = [todo EXCEPT ![p] = <<>>]
      <3>1. todo[p] = <<>>
        BY <1>1, <1>2, ProcHere DEF ModeOK
      <3>2. todo' = todo /\ todo = [todo EXCEPT ![p] = todo[p]]
        BY <1>1, ProcHere DEF DestroyAgain
      <3> QED BY <3>1, <3>2
    <2> QED BY <1>1, <1>2, <2>1, BackToOld DEF DestroyAgain
  <1>8. DOMAIN Ent(r) = {}
    BY <1>2
  <1> HIDE DEF r, s
  <1>9. /\ CmGood'
        /\ \A c \in live \cup live' : ~c.kern =>
              (c \in live' <=> c \in live /\ ~ \E i \in DOMAIN Ent(r) : Ent(r)[i].frame = c.base)
    BY <1>1, <1>3, <1>4, <1>5, <1>6, <1>8, DestroyKeeps
  <1>10. Owned'
    BY <1>1, <1>6, <1>7, <1>9, OwnedMove
  <1> QED BY <1>7, <1>9, <1>10 DEF Good

LEMMA as_prepare_load_NoMemoryKeeps ==
  ASSUME Good, NEW p \in Procs, as_prepare_load_NoMemory(p), ~overrun'
  PROVE  Good'
  <1>1. CmGood /\ Owned /\ ProcInv
    BY DEF Good
  <1>2. /\ mode[p] = "load" /\ FreeAll(FramesOf(as[p]))
        /\ mode' = [mode EXCEPT ![p] = "destroyed"] /\ todo' = [todo EXCEPT ![p] = <<>>]
        /\ bent' = bent /\ as' = as /\ old' = old
    BY DEF as_prepare_load_NoMemory
  <1>3. /\ as[p] \in Space /\ old[p] \in Space
        /\ ModeOK(as[p], old[p], mode[p], todo[p])
        /\ HeapsOK(as[p], old[p], mode[p], todo[p], p \in bent)
        /\ as' = [as EXCEPT ![p] = as[p]] /\ old' = [old EXCEPT ![p] = old[p]]
    BY <1>1, <1>2, ProcHere
  <1>4. ModeOK(as[p], old[p], "destroyed", <<>>)
    BY <1>2, <1>3 DEF ModeOK
  <1>5. HeapsOK(as[p], old[p], "destroyed", <<>>, p \in bent')
    BY <1>2, <1>3 DEF HeapsOK
  <1>6. /\ ProcInv' /\ Ent(<<p, "as">>)' = <<>> /\ Ent(<<p, "old">>)' = old[p].entries
        /\ \A z \in Holders : z # <<p, "as">> /\ z # <<p, "old">> => Ent(z)' = Ent(z)
    <2>1. \A q \in Procs \ {p} : q \in bent' <=> q \in bent
      BY <1>2
    <2>2. "destroyed" \in Modes /\ <<>> \in Seq(Nat)
      BY DEF Modes
    <2> QED BY <1>1, <1>2, <1>3, <1>4, <1>5, <2>1, <2>2, OneProc, ZenonT(40)
  <1>7. Ent(<<p, "as">>) = as[p].entries /\ Ent(<<p, "old">>) = old[p].entries
    BY <1>2, EntIs
  <1> DEFINE r == <<p, "as">>
  <1>8. r \in Holders
    BY HoldersAre
  <1>9. Ent(r) = as[p].entries /\ Ent(r)' = <<>> /\ \A z \in Holders : z # r => Ent(z)' = Ent(z)
    BY <1>6, <1>7
  <1> HIDE DEF r
  <1>10. /\ CmGood'
         /\ \A c \in live \cup live' : ~c.kern =>
              (c \in live' <=> c \in live /\ ~ \E i \in DOMAIN Ent(r) : Ent(r)[i].frame = c.base)
    BY <1>1, <1>2, <1>3, <1>8, <1>9, DestroySpace
  <1>11. Owned'
    BY <1>1, <1>8, <1>9, <1>10, OwnedDrop
  <1> QED BY <1>6, <1>10, <1>11 DEF Good

LEMMA thread_exitKeeps ==
  ASSUME Good, NEW p \in Procs, thread_exit(p), ~overrun'
  PROVE  Good'
  <1>1. CmGood /\ Owned /\ ProcInv
    BY DEF Good
  <1>2. /\ mode[p] = "user" /\ FreeAll(FramesOf(as[p])) /\ as' = [as EXCEPT ![p] = NoAs]
        /\ mode' = [mode EXCEPT ![p] = "none"] /\ bent' = bent \ {p} /\ old' = old /\ todo' = todo
    BY DEF thread_exit
  <1>3. /\ as[p] \in Space /\ old[p] \in Space /\ todo[p] \in Seq(Nat)
        /\ ModeOK(as[p], old[p], mode[p], todo[p])
        /\ old' = [old EXCEPT ![p] = old[p]] /\ todo' = [todo EXCEPT ![p] = todo[p]]
    BY <1>1, <1>2, ProcHere
  <1>4. NoAs \in Space /\ EndInLast(NoAs) /\ NoAs.entries = <<>> /\ HeapOK(NoAs) /\ "none" \in Modes
    BY EmptySpaces DEF Modes
  <1>5. ModeOK(NoAs, old[p], "none", todo[p])
    BY <1>2, <1>3, <1>4 DEF ModeOK
  <1>6. HeapsOK(NoAs, old[p], "none", todo[p], p \in bent')
    BY <1>4 DEF HeapsOK
  <1>7. /\ ProcInv' /\ Ent(<<p, "as">>)' = NoAs.entries /\ Ent(<<p, "old">>)' = old[p].entries
        /\ \A z \in Holders : z # <<p, "as">> /\ z # <<p, "old">> => Ent(z)' = Ent(z)
    <2>1. \A q \in Procs \ {p} : q \in bent' <=> q \in bent
      BY <1>2
    <2>2. "none" # "destroyed"
      OBVIOUS
    <2> QED BY <1>1, <1>2, <1>3, <1>4, <1>5, <1>6, <2>1, <2>2, OneProc
  <1>8. Ent(<<p, "as">>) = as[p].entries /\ Ent(<<p, "old">>) = old[p].entries
    BY <1>2, EntIs
  <1> DEFINE r == <<p, "as">>
  <1>9. r \in Holders
    BY HoldersAre
  <1>10. Ent(r) = as[p].entries /\ Ent(r)' = <<>> /\ \A z \in Holders : z # r => Ent(z)' = Ent(z)
    BY <1>4, <1>7, <1>8
  <1> HIDE DEF r
  <1>11. /\ CmGood'
         /\ \A c \in live \cup live' : ~c.kern =>
              (c \in live' <=> c \in live /\ ~ \E i \in DOMAIN Ent(r) : Ent(r)[i].frame = c.base)
    BY <1>1, <1>2, <1>3, <1>9, <1>10, DestroySpace
  <1>12. Owned'
    BY <1>1, <1>9, <1>10, <1>11, OwnedDrop
  <1> QED BY <1>7, <1>11, <1>12 DEF Good

LEMMA vm_faultKeeps ==
  ASSUME Good, NEW p \in Procs, vm_fault(p), ~severed'
  PROVE  Good'
  <1>1. CmGood /\ Owned /\ ProcInv
    BY DEF Good
  <1>2. PICK v \in STACK_BASE .. USERSTACK - 1, f \in Pages :
          TakePage(f) /\ as' = [as EXCEPT ![p] = addPageEntry(as[p], v, f)]
    BY DEF vm_fault
  <1>3. /\ mode[p] = "user" /\ ~Severs(as[p])
        /\ todo' = todo /\ old' = old /\ mode' = mode /\ bent' = bent
    BY DEF vm_fault
  <1>4. /\ as[p] \in Space /\ old[p] \in Space /\ todo[p] \in Seq(Nat) /\ mode[p] \in Modes
        /\ ModeOK(as[p], old[p], mode[p], todo[p])
        /\ HeapsOK(as[p], old[p], mode[p], todo[p], p \in bent)
        /\ old' = [old EXCEPT ![p] = old[p]] /\ mode' = [mode EXCEPT ![p] = mode[p]]
        /\ todo' = [todo EXCEPT ![p] = todo[p]]
    BY <1>1, <1>3, ProcHere
  <1>5. v \in Nat
    BY Sizes
  <1> DEFINE x == addPageEntry(as[p], v, f)
  <1>6. EndInLast(as[p]) /\ as[p].end > 0
    BY <1>3, <1>4 DEF ModeOK
  <1>7. /\ x \in Space /\ EndInLast(x) /\ x.end > 0
        /\ x.entries = Append(as[p].entries, [vaddr |-> v, frame |-> f])
        /\ x.vbreakbase = as[p].vbreakbase /\ x.vbreaktop = as[p].vbreaktop
        /\ x.heapNPages = as[p].heapNPages
        /\ Mapped(x) = Mapped(as[p]) \cup {v}
    <2>1. as[p] \in Space /\ EndInLast(as[p]) /\ as[p].end > 0 /\ ~Severs(as[p])
      BY <1>3, <1>4, <1>6
    <2> QED BY <1>5, <2>1, AddEntryFacts
  <1>8. as' = [as EXCEPT ![p] = x]
    BY <1>2
  <1> HIDE DEF x
  <1>9. ModeOK(x, old[p], mode[p], todo[p])
    BY <1>3, <1>4, <1>7 DEF ModeOK
  <1>10. HeapsOK(x, old[p], mode[p], todo[p], p \in bent')
    <2>1. SUFFICES ASSUME p \notin bent PROVE HeapOK(x)
      BY <1>3 DEF HeapsOK
    <2>2. Reach(as[p], 0) /\ Backed(as[p], {})
      BY <1>3, <1>4, <2>1 DEF HeapsOK, HeapOK
    <2>3. Reach(x, 0)
      BY <1>7, <2>2, ReachSame
    <2>4. Backed(x, {})
      <3>1. Mapped(as[p]) \cup {} \subseteq Mapped(x) \cup {}
        BY <1>7
      <3> QED BY <1>7, <2>2, <3>1, BackedSame
    <2> QED BY <2>3, <2>4 DEF HeapOK
  <1>11. /\ ProcInv' /\ Ent(<<p, "as">>)' = (IF mode[p] = "destroyed" THEN <<>> ELSE x.entries)
         /\ Ent(<<p, "old">>)' = old[p].entries
         /\ \A z \in Holders : z # <<p, "as">> /\ z # <<p, "old">> => Ent(z)' = Ent(z)
    <2>1. \A q \in Procs \ {p} : q \in bent' <=> q \in bent
      BY <1>3
    <2>2. ProcInv /\ x \in Space /\ old[p] \in Space /\ mode[p] \in Modes /\ todo[p] \in Seq(Nat)
      BY <1>1, <1>4, <1>7
    <2>3. /\ old' = [old EXCEPT ![p] = old[p]] /\ mode' = [mode EXCEPT ![p] = mode[p]]
          /\ todo' = [todo EXCEPT ![p] = todo[p]]
      BY <1>4
    <2> QED BY <1>8, <1>9, <1>10, <2>1, <2>2, <2>3, OneProc
  <1>12. CmGood' /\ live' = live \cup {UserChunk(f)} /\ coremap[f] = FreeEntry
    BY <1>1, <1>2, TakeKeeps
  <1>13. Ent(<<p, "as">>) = as[p].entries /\ Ent(<<p, "old">>) = old[p].entries
    BY <1>3, EntIs
  <1>14. Owned'
    <2> DEFINE s == <<p, "as">>
    <2>1. s \in Holders
      BY HoldersAre
    <2> HIDE DEF s
    <2>2. Ent(s) \in Seq([vaddr : Nat, frame : Pages])
      BY <1>4, <1>13 DEF s, Space
    <2>3. Ent(s)' = Append(Ent(s), [vaddr |-> v, frame |-> f])
      BY <1>3, <1>7, <1>11, <1>13 DEF s
    <2>4. \A z \in Holders : z # s => Ent(z)' = Ent(z)
      BY <1>11, <1>13 DEF s
    <2> QED BY <1>1, <1>5, <1>12, <2>1, <2>2, <2>3, <2>4, OwnedAppend
  <1> QED BY <1>11, <1>12, <1>14 DEF Good

\* A step that leaves every page where it is.
LEMMA NoPageMoves ==
  ASSUME CmGood, Owned, UNCHANGED cmVars, \A z \in Holders : Ent(z)' = Ent(z)
  PROVE  CmGood' /\ Owned'
  <1>1. CmGood' /\ live' = live
    BY CmSame
  <1> QED BY <1>1, OwnedStays

LEMMA WrapsToNat ==
  ASSUME NEW b \in Nat, NEW k \in Int
  PROVE  (b + k) % AddrMod \in Nat
  <1>1. PICK n \in Int : n = b + k
    OBVIOUS
  <1>2. n % AddrMod \in Nat
    BY Sizes
  <1> QED BY <1>1, <1>2

LEMMA sys_sbrkKeeps ==
  ASSUME Good, NEW p \in Procs, sys_sbrk(p)
  PROVE  Good'
  <1>1. CmGood /\ Owned /\ ProcInv
    BY DEF Good
  <1>2. mode[p] = "user" /\ UNCHANGED cmVars /\ old' = old
    BY DEF sys_sbrk
  <1>3. PICK amount \in Amounts :
          LET top == (as[p].vbreaktop + amount) % AddrMod
          IN  \/ /\ top >= STACK_BASE - PAGE_SIZE
                 /\ as' = [as EXCEPT ![p].vbreaktop = top]
                 /\ bent' = bent \cup {p}
                 /\ UNCHANGED <<mode, todo>>
              \/ UNCHANGED <<as, bent, mode, todo>>
              \/ /\ top < STACK_BASE - PAGE_SIZE /\ top >= as[p].vbreakbase
                 /\ as' = [as EXCEPT ![p].vbreaktop = top]
                 /\ todo' = [todo EXCEPT ![p] = NewHeapPages(as[p], top)]
                 /\ mode' = [mode EXCEPT ![p] = "sbrk"]
                 /\ bent' = IF top < as[p].vbreaktop THEN bent \cup {p} ELSE bent
    BY DEF sys_sbrk
  <1> DEFINE top == (as[p].vbreaktop + amount) % AddrMod
             x == [as[p] EXCEPT !.vbreaktop = top]
  <1>4. /\ as[p] \in Space /\ old[p] \in Space /\ todo[p] \in Seq(Nat) /\ mode[p] \in Modes
        /\ ModeOK(as[p], old[p], mode[p], todo[p])
        /\ HeapsOK(as[p], old[p], mode[p], todo[p], p \in bent)
        /\ as = [as EXCEPT ![p] = as[p]] /\ old' = [old EXCEPT ![p] = old[p]]
        /\ mode = [mode EXCEPT ![p] = mode[p]] /\ todo = [todo EXCEPT ![p] = todo[p]]
    BY <1>1, <1>2, ProcHere
  <1>5. top \in Nat
    <2>1. PICK b \in Nat : b = as[p].vbreaktop
      BY <1>4 DEF Space
    <2>2. amount \in Int
      BY AddrSpaceAssumption
    <2> QED BY <2>1, <2>2, WrapsToNat
  <1>6. [as EXCEPT ![p].vbreaktop = top] = [as EXCEPT ![p] = x]
    OBVIOUS
  <1> HIDE DEF top
  <1>7. x \in Space /\ x.entries = as[p].entries /\ x.end = as[p].end /\ EndInLast(x)
    BY <1>4, <1>5 DEF Space, ModeOK, EndInLast
  <1> HIDE DEF x
  <1>8. Ent(<<p, "as">>) = as[p].entries /\ Ent(<<p, "old">>) = old[p].entries
    BY <1>2, EntIs
  <1>9. ASSUME NEW a \in Space, NEW m \in Modes, NEW t \in Seq(Nat), a.entries = as[p].entries, m # "destroyed",
               as' = [as EXCEPT ![p] = a], mode' = [mode EXCEPT ![p] = m], todo' = [todo EXCEPT ![p] = t],
               \A q \in Procs \ {p} : q \in bent' <=> q \in bent,
               ModeOK(a, old[p], m, t), HeapsOK(a, old[p], m, t, p \in bent')
        PROVE  Good'
    <2>1. /\ ProcInv' /\ Ent(<<p, "as">>)' = a.entries /\ Ent(<<p, "old">>)' = old[p].entries
          /\ \A z \in Holders : z # <<p, "as">> /\ z # <<p, "old">> => Ent(z)' = Ent(z)
      BY <1>1, <1>4, <1>9, OneProc, ZenonT(40)
    <2>2. \A z \in Holders : Ent(z)' = Ent(z)
      BY <1>8, <1>9, <2>1
    <2> QED BY <1>1, <1>2, <2>1, <2>2, NoPageMoves DEF Good
  <1>10. CASE /\ as' = [as EXCEPT ![p].vbreaktop = top] /\ bent' = bent \cup {p}
              /\ UNCHANGED <<mode, todo>>
    <2>1. as' = [as EXCEPT ![p] = x] /\ mode' = [mode EXCEPT ![p] = mode[p]] /\ todo' = [todo EXCEPT ![p] = todo[p]]
      BY <1>4, <1>6, <1>10
    <2>2. ModeOK(x, old[p], mode[p], todo[p])
      BY <1>2, <1>4, <1>7 DEF ModeOK
    <2>3. HeapsOK(x, old[p], mode[p], todo[p], p \in bent')
      BY <1>2, <1>10 DEF HeapsOK
    <2>4. \A q \in Procs \ {p} : q \in bent' <=> q \in bent
      BY <1>10
    <2>5. mode[p] # "destroyed"
      BY <1>2
    <2> QED BY <1>4, <1>7, <1>9, <2>1, <2>2, <2>3, <2>4, <2>5
  <1>11. CASE UNCHANGED <<as, bent, mode, todo>>
    <2>1. as' = [as EXCEPT ![p] = as[p]] /\ mode' = [mode EXCEPT ![p] = mode[p]] /\ todo' = [todo EXCEPT ![p] = todo[p]]
      BY <1>4, <1>11
    <2>2. bent' = bent /\ mode[p] # "destroyed"
      BY <1>2, <1>11
    <2>3. ModeOK(as[p], old[p], mode[p], todo[p]) /\ HeapsOK(as[p], old[p], mode[p], todo[p], p \in bent')
          /\ \A q \in Procs \ {p} : q \in bent' <=> q \in bent
      BY <1>4, <2>2
    <2> QED BY <1>4, <1>9, <2>1, <2>2, <2>3
  <1>12. CASE /\ top < STACK_BASE - PAGE_SIZE /\ top >= as[p].vbreakbase
              /\ as' = [as EXCEPT ![p].vbreaktop = top]
              /\ todo' = [todo EXCEPT ![p] = NewHeapPages(as[p], top)]
              /\ mode' = [mode EXCEPT ![p] = "sbrk"]
              /\ bent' = IF top < as[p].vbreaktop THEN bent \cup {p} ELSE bent
    <2> DEFINE t == NewHeapPages(as[p], top)
    <2>1. t \in Seq(Nat) /\ "sbrk" \in Modes /\ "sbrk" # "destroyed"
      BY <1>4, <1>5, NewPagesType DEF Modes
    <2>2. as' = [as EXCEPT ![p] = x]
      BY <1>6, <1>12
    <2>3. ModeOK(x, old[p], "sbrk", t)
      BY <1>2, <1>4, <1>7 DEF ModeOK
    <2>4. HeapsOK(x, old[p], "sbrk", t, p \in bent')
      <3>1. SUFFICES ASSUME p \notin bent' PROVE Reach(x, Len(t)) /\ Backed(x, Elems(t))
        BY DEF HeapsOK
      <3>2. p \notin bent /\ ~(top < as[p].vbreaktop)
        BY <1>12, <3>1
      <3>3. HeapOK(as[p])
        BY <1>2, <1>4, <3>2 DEF HeapsOK
      <3>4. as[p].vbreaktop =< top
        <4>1. PICK b \in Nat : b = as[p].vbreaktop
          BY <1>4 DEF Space
        <4>2. ~(top < b)
          BY <3>2, <4>1
        <4>3. b =< top
          BY <1>5, <4>2
        <4> QED BY <4>1, <4>3
      <3> QED BY <1>4, <1>5, <1>12, <3>3, <3>4, SbrkCovers DEF x
    <2>5. \A q \in Procs \ {p} : q \in bent' <=> q \in bent
      BY <1>12
    <2>6. todo' = [todo EXCEPT ![p] = t] /\ mode' = [mode EXCEPT ![p] = "sbrk"]
      BY <1>12
    <2> HIDE DEF t
    <2> QED BY <1>7, <1>9, <2>1, <2>2, <2>3, <2>4, <2>5, <2>6
  <1> QED BY <1>3, <1>10, <1>11, <1>12 DEF top

LEMMA sys_sbrk_ReturnKeeps ==
  ASSUME Good, NEW p \in Procs, sys_sbrk_Return(p)
  PROVE  Good'
  <1>1. CmGood /\ Owned /\ ProcInv
    BY DEF Good
  <1>2. /\ mode[p] = "sbrk" /\ bent' = (IF todo[p] = <<>> THEN bent ELSE bent \cup {p})
        /\ todo' = [todo EXCEPT ![p] = <<>>] /\ mode' = [mode EXCEPT ![p] = "user"]
        /\ UNCHANGED cmVars /\ as' = as /\ old' = old
    BY DEF sys_sbrk_Return
  <1>3. /\ as[p] \in Space /\ old[p] \in Space /\ todo[p] \in Seq(Nat)
        /\ ModeOK(as[p], old[p], mode[p], todo[p])
        /\ HeapsOK(as[p], old[p], mode[p], todo[p], p \in bent)
        /\ as' = [as EXCEPT ![p] = as[p]] /\ old' = [old EXCEPT ![p] = old[p]]
    BY <1>1, <1>2, ProcHere
  <1>4. ModeOK(as[p], old[p], "user", <<>>)
    BY <1>2, <1>3 DEF ModeOK
  <1>5. HeapsOK(as[p], old[p], "user", <<>>, p \in bent')
    <2>1. SUFFICES ASSUME p \notin bent' PROVE HeapOK(as[p])
      BY DEF HeapsOK
    <2>2. todo[p] = <<>> /\ p \notin bent
      BY <1>2, <2>1
    <2>3. Reach(as[p], Len(todo[p])) /\ Backed(as[p], Elems(todo[p]))
      BY <1>2, <1>3, <2>2 DEF HeapsOK
    <2>4. Len(todo[p]) = 0 /\ Elems(todo[p]) = {}
      BY <2>2 DEF Elems
    <2> QED BY <2>3, <2>4 DEF HeapOK
  <1>6. /\ ProcInv' /\ Ent(<<p, "as">>)' = as[p].entries /\ Ent(<<p, "old">>)' = old[p].entries
        /\ \A z \in Holders : z # <<p, "as">> /\ z # <<p, "old">> => Ent(z)' = Ent(z)
    <2>1. \A q \in Procs \ {p} : q \in bent' <=> q \in bent
      BY <1>2
    <2>2. "user" \in Modes /\ "user" # "destroyed" /\ <<>> \in Seq(Nat)
      BY DEF Modes
    <2> QED BY <1>1, <1>2, <1>3, <1>4, <1>5, <2>1, <2>2, OneProc
  <1>7. Ent(<<p, "as">>) = as[p].entries /\ Ent(<<p, "old">>) = old[p].entries
    BY <1>2, EntIs
  <1>8. \A z \in Holders : Ent(z)' = Ent(z)
    BY <1>6, <1>7
  <1> QED BY <1>1, <1>2, <1>6, <1>8, NoPageMoves DEF Good

LEMMA as_copyKeeps ==
  ASSUME Good, NEW p \in Procs, as_copy(p)
  PROVE  Good'
  <1>1. CmGood /\ Owned /\ ProcInv
    BY DEF Good
  <1> DEFINE t == [i \in DOMAIN as[p].entries |-> as[p].entries[i].vaddr]
  <1>2. /\ mode[p] = "user" /\ old' = [old EXCEPT ![p] = as_create]
        /\ todo' = [todo EXCEPT ![p] = t] /\ mode' = [mode EXCEPT ![p] = "fork"]
        /\ UNCHANGED cmVars /\ as' = as /\ bent' = bent
    BY DEF as_copy
  <1>3. /\ as[p] \in Space /\ old[p] \in Space
        /\ ModeOK(as[p], old[p], mode[p], todo[p])
        /\ HeapsOK(as[p], old[p], mode[p], todo[p], p \in bent)
        /\ as' = [as EXCEPT ![p] = as[p]]
    BY <1>1, <1>2, ProcHere
  <1>4. t \in Seq(Nat)
    <2>1. as[p].entries \in Seq([vaddr : Nat, frame : Pages])
      BY <1>3 DEF Space
    <2>2. PICK n \in Nat : n = Len(as[p].entries) /\ DOMAIN as[p].entries = 1 .. n
      BY <2>1, LenProperties
    <2>3. \A i \in 1 .. n : as[p].entries[i] \in [vaddr : Nat, frame : Pages]
      BY <2>1, <2>2, ElementOfSeq
    <2>4. t \in [1 .. n -> Nat]
      BY <2>2, <2>3
    <2>5. [1 .. n -> Nat] \subseteq Seq(Nat)
      BY <2>2, SeqDef
    <2> QED BY <2>4, <2>5
  <1> HIDE DEF t
  <1>5. as_create \in Space /\ EndInLast(as_create) /\ as_create.entries = <<>> /\ NoHeap(as_create) /\ as_create.end > 0
    BY EmptySpaces DEF as_create
  <1>6. ModeOK(as[p], as_create, "fork", t)
    BY <1>2, <1>3, <1>5 DEF ModeOK
  <1>7. HeapsOK(as[p], as_create, "fork", t, p \in bent')
    BY <1>2, <1>3, <1>5 DEF HeapsOK
  <1>8. /\ ProcInv' /\ Ent(<<p, "as">>)' = as[p].entries /\ Ent(<<p, "old">>)' = as_create.entries
        /\ \A z \in Holders : z # <<p, "as">> /\ z # <<p, "old">> => Ent(z)' = Ent(z)
    <2>1. \A q \in Procs \ {p} : q \in bent' <=> q \in bent
      BY <1>2
    <2>2. "fork" \in Modes /\ "fork" # "destroyed"
      BY DEF Modes
    <2> QED BY <1>1, <1>2, <1>3, <1>4, <1>5, <1>6, <1>7, <2>1, <2>2, OneProc
  <1>9. Ent(<<p, "as">>) = as[p].entries /\ Ent(<<p, "old">>) = <<>>
    <2>1. old[p] = NoAs
      BY <1>2, <1>3 DEF ModeOK
    <2> QED BY <1>2, <2>1, EntIs, EmptySpaces
  <1>10. \A z \in Holders : Ent(z)' = Ent(z)
    BY <1>5, <1>8, <1>9
  <1> QED BY <1>1, <1>2, <1>8, <1>10, NoPageMoves DEF Good

LEMMA CopyPageKeeps ==
  ASSUME Good, NEW p \in Procs, CopyPage(p)
  PROVE  Good'
  <1>1. CmGood /\ Owned /\ ProcInv
    BY DEF Good
  <1>2. PICK f \in Pages : TakePage(f) /\ old' = [old EXCEPT ![p] = CopyEntry(old[p], Head(todo[p]), f)]
    BY DEF CopyPage
  <1>3. /\ mode[p] = "fork" /\ todo[p] # <<>>
        /\ todo' = [todo EXCEPT ![p] = Tail(todo[p])] /\ as' = as /\ mode' = mode /\ bent' = bent
    BY DEF CopyPage
  <1>4. /\ as[p] \in Space /\ old[p] \in Space /\ todo[p] \in Seq(Nat) /\ mode[p] \in Modes
        /\ ModeOK(as[p], old[p], mode[p], todo[p])
        /\ HeapsOK(as[p], old[p], mode[p], todo[p], p \in bent)
        /\ as' = [as EXCEPT ![p] = as[p]] /\ mode' = [mode EXCEPT ![p] = mode[p]]
    BY <1>1, <1>3, ProcHere
  <1> DEFINE v == Head(todo[p])
             t == Tail(todo[p])
             x == CopyEntry(old[p], v, f)
  <1>5. v \in Nat /\ t \in Seq(Nat)
    BY <1>3, <1>4, TodoFacts
  <1>6. EndInLast(old[p]) /\ old[p].end > 0
    BY <1>3, <1>4 DEF ModeOK
  <1>7. /\ x \in Space /\ EndInLast(x) /\ x.end = old[p].end
        /\ x.entries = Append(old[p].entries, [vaddr |-> v, frame |-> f])
        /\ x.vbreakbase = old[p].vbreakbase /\ x.vbreaktop = old[p].vbreaktop
        /\ x.heapNPages = old[p].heapNPages
    BY <1>4, <1>5, <1>6, CopyEntryFacts
  <1>8. old' = [old EXCEPT ![p] = x] /\ todo' = [todo EXCEPT ![p] = t]
    BY <1>2, <1>3
  <1> HIDE DEF v, t, x
  <1>9. ModeOK(as[p], x, mode[p], t)
    BY <1>3, <1>4, <1>6, <1>7 DEF ModeOK
  <1>10. HeapsOK(as[p], x, mode[p], t, p \in bent')
    <2>1. NoHeap(old[p])
      BY <1>3, <1>4 DEF HeapsOK
    <2>2. NoHeap(x)
      BY <1>7, <2>1, ReachSame DEF NoHeap
    <2> QED BY <1>3, <1>4, <2>2 DEF HeapsOK
  <1>11. /\ ProcInv' /\ Ent(<<p, "as">>)' = (IF mode[p] = "destroyed" THEN <<>> ELSE as[p].entries)
         /\ Ent(<<p, "old">>)' = x.entries
         /\ \A z \in Holders : z # <<p, "as">> /\ z # <<p, "old">> => Ent(z)' = Ent(z)
    <2>1. \A q \in Procs \ {p} : q \in bent' <=> q \in bent
      BY <1>3
    <2>2. ProcInv /\ as[p] \in Space /\ x \in Space /\ mode[p] \in Modes /\ t \in Seq(Nat)
      BY <1>1, <1>4, <1>5, <1>7
    <2>3. as' = [as EXCEPT ![p] = as[p]] /\ mode' = [mode EXCEPT ![p] = mode[p]]
      BY <1>4
    <2> QED BY <1>8, <1>9, <1>10, <2>1, <2>2, <2>3, OneProc
  <1>12. CmGood' /\ live' = live \cup {UserChunk(f)} /\ coremap[f] = FreeEntry
    BY <1>1, <1>2, TakeKeeps
  <1>13. Ent(<<p, "as">>) = as[p].entries /\ Ent(<<p, "old">>) = old[p].entries
    BY <1>3, EntIs
  <1>14. Owned'
    <2> DEFINE s == <<p, "old">>
    <2>1. s \in Holders
      BY HoldersAre
    <2> HIDE DEF s
    <2>2. Ent(s) \in Seq([vaddr : Nat, frame : Pages])
      BY <1>4, <1>13 DEF s, Space
    <2>3. Ent(s)' = Append(Ent(s), [vaddr |-> v, frame |-> f])
      BY <1>7, <1>11, <1>13 DEF s
    <2>4. \A z \in Holders : z # s => Ent(z)' = Ent(z)
      BY <1>3, <1>11, <1>13 DEF s
    <2> QED BY <1>1, <1>5, <1>12, <2>1, <2>2, <2>3, <2>4, OwnedAppend
  <1> QED BY <1>11, <1>12, <1>14 DEF Good

LEMMA as_copy_NoMemoryKeeps ==
  ASSUME Good, NEW p \in Procs, as_copy_NoMemory(p), ~overrun', ~refreed'
  PROVE  Good'
  <1>1. CmGood /\ Owned /\ ProcInv
    BY DEF Good
  <1>2. /\ mode[p] = "fork" /\ old' = [old EXCEPT ![p] = NoAs] /\ todo' = [todo EXCEPT ![p] = <<>>]
        /\ mode' = [mode EXCEPT ![p] = "user"] /\ as' = as /\ bent' = bent
    BY DEF as_copy_NoMemory
  <1>3. /\ as[p] \in Space /\ old[p] \in Space
        /\ ModeOK(as[p], old[p], mode[p], todo[p])
        /\ HeapsOK(as[p], old[p], mode[p], todo[p], p \in bent)
        /\ as' = [as EXCEPT ![p] = as[p]]
    BY <1>1, <1>2, ProcHere
  <1>4. NoAs \in Space /\ EndInLast(NoAs) /\ NoAs.entries = <<>> /\ "user" \in Modes /\ <<>> \in Seq(Nat)
    BY EmptySpaces DEF Modes
  <1>5. ModeOK(as[p], NoAs, "user", <<>>)
    BY <1>2, <1>3, <1>4 DEF ModeOK
  <1>6. HeapsOK(as[p], NoAs, "user", <<>>, p \in bent')
    BY <1>2, <1>3 DEF HeapsOK
  <1>7. /\ ProcInv' /\ Ent(<<p, "as">>)' = as[p].entries /\ Ent(<<p, "old">>)' = NoAs.entries
        /\ \A z \in Holders : z # <<p, "as">> /\ z # <<p, "old">> => Ent(z)' = Ent(z)
    <2>1. \A q \in Procs \ {p} : q \in bent' <=> q \in bent
      BY <1>2
    <2>2. "user" # "destroyed"
      OBVIOUS
    <2> QED BY <1>1, <1>2, <1>3, <1>4, <1>5, <1>6, <2>1, <2>2, OneProc
  <1>8. Ent(<<p, "as">>) = as[p].entries /\ Ent(<<p, "old">>) = old[p].entries
    BY <1>2, EntIs
  <1> DEFINE r == <<p, "old">>
             own == FramesOf(old[p])
  <1>9. r \in Holders
    BY HoldersAre
  <1>10. Ent(r) = old[p].entries /\ Ent(r)' = <<>> /\ \A z \in Holders : z # r => Ent(z)' = Ent(z)
    BY <1>4, <1>7, <1>8
  <1> HIDE DEF r
  <1>11. PICK junk \in {<<>>} \cup {<<f>> : f \in Pages} :
            FreeAll(own \o junk) /\ \A i \in DOMAIN junk : ~coremap[junk[i]].is_allocated
    BY DEF as_copy_NoMemory
  <1>12. own \in Seq(Pages) /\ DOMAIN own = DOMAIN Ent(r) /\ \A i \in DOMAIN own : own[i] = Ent(r)[i].frame
    BY <1>3, <1>10, FramesFacts
  <1> HIDE DEF own
  <1>13. junk \in Seq(Pages)
    <2>1. <<>> \in Seq(Pages)
      OBVIOUS
    <2>2. \A f \in Pages : <<f>> \in Seq(Pages)
      OBVIOUS
    <2> QED BY <1>11, <2>1, <2>2
  <1>14. \A i \in DOMAIN junk : coremap[junk[i]] = FreeEntry
    <2>1. \A i \in DOMAIN junk : junk[i] \in Pages
      BY <1>13
    <2> QED BY <1>1, <1>11, <2>1, NotAllocated
  <1> DEFINE fr == own \o junk
  <1>15. PICK n \in Nat, k \in Nat : n = Len(own) /\ k = Len(junk) /\ DOMAIN own = 1 .. n /\ DOMAIN junk = 1 .. k
    BY <1>12, <1>13
  <1>16. fr \in Seq(Pages) /\ DOMAIN fr = 1 .. n + k /\ \A i \in 1 .. n + k : fr[i] = IF i =< n THEN own[i] ELSE junk[i - n]
    BY <1>12, <1>13, <1>15
  <1>17. FreeAll(fr)
    BY <1>11
  <1> HIDE DEF fr
  <1>18. \A j \in DOMAIN fr : coremap[fr[j]] = FreeEntry \/ \E i \in DOMAIN Ent(r) : fr[j] = Ent(r)[i].frame
    <2>1. SUFFICES ASSUME NEW j \in 1 .. n + k
                   PROVE  coremap[fr[j]] = FreeEntry \/ \E i \in DOMAIN Ent(r) : fr[j] = Ent(r)[i].frame
      BY <1>16
    <2>2. CASE j =< n
      <3>1. j \in DOMAIN own
        BY <1>15, <2>2
      <3>2. fr[j] = own[j]
        BY <1>16, <2>2
      <3> QED BY <1>12, <3>1, <3>2
    <2>3. CASE ~(j =< n)
      <3>1. j - n \in DOMAIN junk
        BY <1>15, <2>3
      <3>2. fr[j] = junk[j - n]
        BY <1>16, <2>3
      <3> QED BY <1>14, <3>1, <3>2
    <2> QED BY <2>2, <2>3
  <1>19. \A i \in DOMAIN Ent(r) : \E j \in DOMAIN fr : fr[j] = Ent(r)[i].frame
    <2>1. SUFFICES ASSUME NEW i \in DOMAIN Ent(r) PROVE \E j \in DOMAIN fr : fr[j] = Ent(r)[i].frame
      OBVIOUS
    <2>2. i \in 1 .. n /\ own[i] = Ent(r)[i].frame
      BY <1>12, <1>15
    <2>3. i \in 1 .. n + k /\ i =< n
      BY <1>15, <2>2
    <2>4. i \in DOMAIN fr /\ fr[i] = own[i]
      BY <1>16, <2>3
    <2> QED BY <2>2, <2>4
  <1>20. /\ CmGood'
         /\ \A c \in live \cup live' : ~c.kern =>
              (c \in live' <=> c \in live /\ ~ \E i \in DOMAIN Ent(r) : Ent(r)[i].frame = c.base)
    BY <1>1, <1>9, <1>16, <1>17, <1>18, <1>19, DestroyKeeps
  <1>21. Owned'
    BY <1>1, <1>9, <1>10, <1>20, OwnedDrop
  <1> QED BY <1>7, <1>20, <1>21 DEF Good

\* The copy becomes the space of the child.
LEMMA as_copy_ReturnKeeps ==
  ASSUME Good, NEW p \in Procs, as_copy_Return(p)
  PROVE  Good'
  <1>1. CmGood /\ Owned /\ ProcInv
    BY DEF Good
  <1>2. PICK k \in Procs :
          /\ mode[k] = "none" /\ as' = [as EXCEPT ![k] = old[p]]
          /\ mode' = [mode EXCEPT ![p] = "user", ![k] = "user"] /\ bent' = bent \ {k}
    BY DEF as_copy_Return
  <1>3. /\ mode[p] = "fork" /\ todo[p] = <<>> /\ old' = [old EXCEPT ![p] = NoAs]
        /\ UNCHANGED cmVars /\ todo' = todo
    BY DEF as_copy_Return
  <1>4. p # k
    BY <1>2, <1>3
  <1>5. /\ as \in [Procs -> Space] /\ old \in [Procs -> Space] /\ mode \in [Procs -> Modes]
        /\ todo \in [Procs -> Seq(Nat)]
        /\ \A q \in Procs : /\ ModeOK(as[q], old[q], mode[q], todo[q])
                            /\ HeapsOK(as[q], old[q], mode[q], todo[q], q \in bent)
    BY <1>1 DEF ProcInv
  <1>6. NoAs \in Space /\ EndInLast(NoAs) /\ NoAs.entries = <<>> /\ "user" \in Modes
    BY EmptySpaces DEF Modes
  <1>7. as' \in [Procs -> Space] /\ old' \in [Procs -> Space] /\ mode' \in [Procs -> Modes]
    BY <1>2, <1>3, <1>5, <1>6
  <1>8. /\ as'[k] = old[p] /\ old'[k] = old[k] /\ mode'[k] = "user"
        /\ as'[p] = as[p] /\ old'[p] = NoAs /\ mode'[p] = "user"
        /\ \A q \in Procs \ {p, k} : as'[q] = as[q] /\ old'[q] = old[q] /\ mode'[q] = mode[q]
    BY <1>2, <1>3, <1>4, <1>5
  <1>9. (p \in bent') = (p \in bent) /\ k \notin bent' /\ \A q \in Procs \ {p, k} : (q \in bent') = (q \in bent)
    BY <1>2, <1>4
  <1>10. ModeOK(as'[p], old'[p], mode'[p], todo'[p]) /\ HeapsOK(as'[p], old'[p], mode'[p], todo'[p], p \in bent')
    <2>1. ModeOK(as[p], NoAs, "user", todo[p])
      BY <1>3, <1>5, <1>6 DEF ModeOK
    <2>2. HeapsOK(as[p], NoAs, "user", todo[p], p \in bent)
      BY <1>3, <1>5 DEF HeapsOK
    <2> QED BY <1>3, <1>8, <1>9, <2>1, <2>2
  <1>11. ModeOK(as'[k], old'[k], mode'[k], todo'[k]) /\ HeapsOK(as'[k], old'[k], mode'[k], todo'[k], k \in bent')
    <2>1. EndInLast(old[p]) /\ old[p].end > 0 /\ NoHeap(old[p]) /\ old[p] \in Space
      BY <1>3, <1>5 DEF ModeOK, HeapsOK
    <2>2. ModeOK(old[p], old[k], "user", todo[k])
      BY <1>2, <1>5, <2>1 DEF ModeOK
    <2>3. HeapOK(old[p])
      BY <2>1, NoHeapOK
    <2>4. HeapsOK(old[p], old[k], "user", todo[k], k \in bent')
      BY <2>3 DEF HeapsOK
    <2> QED BY <1>3, <1>8, <2>2, <2>4
  <1>12. ProcInv'
    <2>1. ASSUME NEW q \in Procs
          PROVE ModeOK(as'[q], old'[q], mode'[q], todo'[q]) /\ HeapsOK(as'[q], old'[q], mode'[q], todo'[q], q \in bent')
      <3>1. CASE q \in {p, k}
        BY <1>10, <1>11, <3>1
      <3>2. CASE q \notin {p, k}
        BY <1>3, <1>5, <1>8, <1>9, <3>2
      <3> QED BY <3>1, <3>2
    <2> QED BY <1>3, <1>5, <1>7, <2>1 DEF ProcInv
  <1> DEFINE s == <<p, "old">>
             r == <<k, "as">>
  <1>13. s \in Holders /\ r \in Holders /\ s # r
    BY HoldersAre
  <1>14. Ent(r)' = Ent(s) /\ Ent(s)' = <<>>
    BY <1>6, <1>8, EntIs
  <1>15. DOMAIN Ent(r) = {}
    <2>1. as[k] = NoAs
      BY <1>2, <1>5 DEF ModeOK
    <2>2. Ent(<<k, "as">>) = as[k].entries
      BY <1>2, EntIs
    <2>3. Ent(r) = <<>>
      BY <1>6, <2>1, <2>2
    <2> QED BY <2>3
  <1>16. ASSUME NEW z \in Holders, z # s, z # r PROVE Ent(z)' = Ent(z)
    <2>1. PICK q \in Procs : z = <<q, "as">> \/ z = <<q, "old">>
      BY HoldersAre
    <2>2. /\ Ent(<<q, "as">>) = IF mode[q] = "destroyed" THEN <<>> ELSE as[q].entries
          /\ Ent(<<q, "old">>) = old[q].entries
          /\ Ent(<<q, "as">>)' = IF mode'[q] = "destroyed" THEN <<>> ELSE as'[q].entries
          /\ Ent(<<q, "old">>)' = old'[q].entries
      BY EntIs
    <2>3. CASE z = <<q, "as">>
      <3>1. q # k
        BY <1>16, <2>3
      <3>2. as'[q] = as[q] /\ (mode'[q] = "destroyed" <=> mode[q] = "destroyed")
        BY <1>3, <1>8, <3>1
      <3> QED BY <2>2, <2>3, <3>2
    <2>4. CASE z = <<q, "old">>
      <3>1. q # p
        BY <1>16, <2>4
      <3>2. old'[q] = old[q]
        BY <1>8, <3>1
      <3> QED BY <2>2, <2>4, <3>2
    <2> QED BY <2>1, <2>3, <2>4
  <1> HIDE DEF s, r
  <1>17. CmGood' /\ live' = live
    BY <1>1, <1>3, CmSame
  <1>18. \A c \in live \cup live' : ~c.kern =>
            (c \in live' <=> c \in live /\ ~ \E i \in DOMAIN Ent(r) : Ent(r)[i].frame = c.base)
    BY <1>15, <1>17
  <1>19. Owned'
    BY <1>1, <1>13, <1>14, <1>16, <1>18, OwnedMove
  <1> QED BY <1>12, <1>17, <1>19 DEF Good

LEMMA KernelKeeps ==
  ASSUME Good, Kernel, ~overrun'
  PROVE  Good'
  <1>1. CmGood /\ Owned /\ ProcInv
    BY DEF Good
  <1>2. as' = as /\ old' = old /\ mode' = mode /\ todo' = todo /\ bent' = bent
    BY DEF Kernel, asVars
  <1>3. ProcInv'
    BY <1>1, <1>2 DEF ProcInv
  <1>4. \A z \in Holders : Ent(z)' = Ent(z)
    BY <1>2 DEF Ent, Spaces, SpaceOf
  <1>5. CASE \E n \in ChunkSizes : alloc_kpages(n)
    <2>1. PICK n \in ChunkSizes : Allocate(n, TRUE)
      BY <1>5 DEF alloc_kpages
    <2>2. n \in Nat \ {0}
      BY CoremapAssumption
    <2> DEFINE c == [base |-> getpaddr(coremap, n), npages |-> n, kern |-> TRUE]
    <2>3. CmGood' /\ live' = live \cup {c} /\ c.kern
      BY <1>1, <2>1, <2>2, AllocKeeps
    <2> HIDE DEF c
    <2>4. \A d \in live \cup live' : ~d.kern => (d \in live' <=> d \in live)
      BY <2>3
    <2>5. Owned'
      BY <1>1, <1>4, <2>4, OwnedStays
    <2> QED BY <1>3, <2>3, <2>5 DEF Good
  <1>6. CASE free_kpages
    <2>1. PICK c \in live : c.kern /\ Release(c)
      BY <1>6 DEF free_kpages
    <2>2. CmGood' /\ live' = live \ {c}
      BY <1>1, <2>1, ReleaseKeeps
    <2>3. \A d \in live \cup live' : ~d.kern => (d \in live' <=> d \in live)
      BY <2>1, <2>2
    <2>4. Owned'
      BY <1>1, <1>4, <2>3, OwnedStays
    <2> QED BY <1>3, <2>2, <2>4 DEF Good
  <1> QED BY <1>5, <1>6 DEF Kernel

\* What was damaged stays damaged.
LEMMA DamageStays ==
  ASSUME AsNext
  PROVE  Undamaged' => Undamaged
  <1>1. ASSUME NEW fr, FreeAll(fr), ~overrun' PROVE ~overrun
    BY <1>1 DEF FreeAll
  <1>2. ASSUME NEW f, TakePage(f) PROVE overrun' = overrun
    BY <1>2 DEF TakePage, page_alloc, Allocate
  <1>3. ASSUME NEW p \in Procs,
               \/ execv(p) \/ MapPage(p) \/ LoadDone(p) \/ LoadFails(p)
               \/ as_prepare_load_NoMemory(p) \/ DestroyAgain(p)
        PROVE  Undamaged' => Undamaged
    <2>1. CASE execv(p)
      BY <2>1 DEF execv, Undamaged, cmVars
    <2>2. CASE MapPage(p)
      BY <1>2, <2>2 DEF MapPage, Undamaged
    <2>3. CASE LoadDone(p)
      BY <1>1, <2>3 DEF LoadDone, Undamaged
    <2>4. CASE LoadFails(p)
      BY <1>1, <2>4 DEF LoadFails, Undamaged
    <2>5. CASE as_prepare_load_NoMemory(p)
      BY <1>1, <2>5 DEF as_prepare_load_NoMemory, Undamaged
    <2>6. CASE DestroyAgain(p)
      BY <1>1, <2>6 DEF DestroyAgain, Undamaged
    <2> QED BY <1>3, <2>1, <2>2, <2>3, <2>4, <2>5, <2>6
  <1>4. ASSUME NEW p \in Procs,
               \/ vm_fault(p) \/ sys_sbrk(p) \/ sys_sbrk_Return(p)
               \/ as_copy(p) \/ CopyPage(p) \/ as_copy_NoMemory(p) \/ as_copy_Return(p)
               \/ thread_exit(p)
        PROVE  Undamaged' => Undamaged
    <2>1. CASE vm_fault(p)
      BY <1>2, <2>1 DEF vm_fault, Undamaged
    <2>2. CASE sys_sbrk(p)
      BY <2>2 DEF sys_sbrk, Undamaged, cmVars
    <2>3. CASE sys_sbrk_Return(p)
      BY <2>3 DEF sys_sbrk_Return, Undamaged, cmVars
    <2>4. CASE as_copy(p)
      BY <2>4 DEF as_copy, Undamaged, cmVars
    <2>5. CASE CopyPage(p)
      BY <1>2, <2>5 DEF CopyPage, Undamaged
    <2>6. CASE as_copy_NoMemory(p)
      BY <1>1, <2>6 DEF as_copy_NoMemory, Undamaged
    <2>7. CASE as_copy_Return(p)
      BY <2>7 DEF as_copy_Return, Undamaged, cmVars
    <2>8. CASE thread_exit(p)
      BY <1>1, <2>8 DEF thread_exit, Undamaged
    <2> QED BY <1>4, <2>1, <2>2, <2>3, <2>4, <2>5, <2>6, <2>7, <2>8
  <1>5. CASE Kernel
    BY <1>5 DEF Kernel, asVars, alloc_kpages, free_kpages, Allocate, Release, Undamaged
  <1> QED BY <1>3, <1>4, <1>5 DEF AsNext

LEMMA GoodStep ==
  ASSUME Good, AsNext, Undamaged'
  PROVE  Good'
  <1>1. ~overrun' /\ ~refreed' /\ ~severed'
    BY DEF Undamaged
  <1>2. ASSUME NEW p \in Procs,
               \/ execv(p) \/ MapPage(p) \/ LoadDone(p) \/ LoadFails(p)
               \/ as_prepare_load_NoMemory(p) \/ DestroyAgain(p)
        PROVE  Good'
    BY <1>1, <1>2, execvKeeps, MapPageKeeps, LoadDoneKeeps, LoadFailsKeeps,
       as_prepare_load_NoMemoryKeeps, DestroyAgainKeeps
  <1>3. ASSUME NEW p \in Procs,
               \/ vm_fault(p) \/ sys_sbrk(p) \/ sys_sbrk_Return(p)
               \/ as_copy(p) \/ CopyPage(p) \/ as_copy_NoMemory(p) \/ as_copy_Return(p)
               \/ thread_exit(p)
        PROVE  Good'
    BY <1>1, <1>3, vm_faultKeeps, sys_sbrkKeeps, sys_sbrk_ReturnKeeps, as_copyKeeps, CopyPageKeeps,
       as_copy_NoMemoryKeeps, as_copy_ReturnKeeps, thread_exitKeeps
  <1>4. CASE Kernel
    BY <1>1, <1>4, KernelKeeps
  <1> QED BY <1>2, <1>3, <1>4 DEF AsNext

LEMMA GoodStutter ==
  ASSUME Good, UNCHANGED allVars
  PROVE  Good'
  <1>1. /\ CmGood /\ Owned /\ ProcInv /\ UNCHANGED cmVars
        /\ as' = as /\ old' = old /\ mode' = mode /\ todo' = todo /\ bent' = bent
    BY DEF Good, allVars, asVars
  <1>2. ProcInv'
    BY <1>1 DEF ProcInv
  <1>3. \A z \in Holders : Ent(z)' = Ent(z)
    BY <1>1 DEF Ent, Spaces, SpaceOf
  <1> QED BY <1>1, <1>2, <1>3, NoPageMoves DEF Good

LEMMA GoodInit ==
  ASSUME AsInit
  PROVE  Good
  <1>1. /\ coremap = [i \in Pages |-> FreeEntry] /\ live = {}
        /\ as = [p \in Procs |-> NoAs] /\ old = [p \in Procs |-> NoAs]
        /\ mode = [p \in Procs |-> "none"] /\ todo = [p \in Procs |-> <<>>] /\ bent = {}
    BY DEF AsInit, CmInit
  <1>2. CmGood
    BY <1>1 DEF CmGood, ChunkTypes, ChunksDisjoint, Marks, FreeEntry, CmEntry
  <1>3. NoAs \in Space /\ EndInLast(NoAs) /\ NoAs.entries = <<>> /\ HeapOK(NoAs)
    BY EmptySpaces
  <1>4. ProcInv
    <2>1. "none" \in Modes /\ <<>> \in Seq(Nat)
      BY DEF Modes
    <2>2. ModeOK(NoAs, NoAs, "none", <<>>)
      BY <1>3 DEF ModeOK
    <2>3. HeapsOK(NoAs, NoAs, "none", <<>>, FALSE)
      BY <1>3 DEF HeapsOK
    <2>4. /\ as \in [Procs -> Space] /\ old \in [Procs -> Space] /\ mode \in [Procs -> Modes]
          /\ todo \in [Procs -> Seq(Nat)]
      BY <1>1, <1>3, <2>1
    <2>5. \A p \in Procs : /\ as[p] = NoAs /\ old[p] = NoAs /\ mode[p] = "none" /\ todo[p] = <<>>
                           /\ (p \in bent) = FALSE
      BY <1>1
    <2> QED BY <2>2, <2>3, <2>4, <2>5 DEF ProcInv
  <1>5. Holdings = {}
    <2>1. \A s \in Holders : DOMAIN Ent(s) = {}
      <3>1. \A p \in Procs : Ent(<<p, "as">>) = <<>> /\ Ent(<<p, "old">>) = <<>>
        BY <1>1, <1>3, EntIs
      <3>2. \A s \in Holders : Ent(s) = <<>>
        BY <3>1, HoldersAre
      <3> QED BY <3>2
    <2> QED BY <2>1, HoldingsAre
  <1>6. Owned
    BY <1>1, <1>5 DEF Owned
  <1> QED BY <1>2, <1>4, <1>6 DEF Good

-----------------------------------------------------------------------------
(* Memory: the theorems *)

\* The invariant holds in every state, and with it what the run checks.
LEMMA IInvHolds == AsSpec => []IInv
  <1>1. AsInit => IInv
    BY GoodInit DEF IInv
  <1>2. IInv /\ [AsNext]_allVars => IInv'
    <2>1. SUFFICES ASSUME IInv, [AsNext]_allVars, Undamaged' PROVE Good'
      BY DEF IInv
    <2>2. CASE AsNext
      BY <2>1, <2>2, DamageStays, GoodStep DEF IInv
    <2>3. CASE UNCHANGED allVars
      <3>1. Undamaged
        BY <2>1, <2>3 DEF Undamaged, allVars, asVars, cmVars
      <3> QED BY <2>1, <2>3, <3>1, GoodStutter DEF IInv
    <2> QED BY <2>1, <2>2, <2>3
  <1> QED BY <1>1, <1>2, PTL DEF AsSpec

\* addtocoremap and removefromcoremap keep the coremap true: what the kernel
\* and the processes have is disjoint and marked, and nothing else is, until a
\* free runs on into the next chunk or as_destroy frees what it does not own.
THEOREM CoremapStaysTrue == AsSpec => []CoremapTrue
  <1>1. IInv => CoremapTrue
    <2>1. SUFFICES ASSUME CmGood PROVE ChunksDisjoint /\ MarksMatchChunks
      BY DEF IInv, CoremapTrue, Good
    <2>2. \A i \in Pages : coremap[i].is_allocated => \E chunk \in live : i \in PagesOf(chunk)
      BY <2>1 DEF CmGood, Marks, FreeEntry
    <2> QED BY <2>1, <2>2 DEF CmGood, Marks, Marked, MarksMatchChunks
  <1> QED BY <1>1, IInvHolds, PTL

\* page_alloc, as_copy and as_destroy never leave a frame in two page tables or
\* twice in one, nor a mapped frame unmarked, on whichever path memory runs out.
THEOREM FramesKeepOneOwner == AsSpec => []FramesHaveOneOwner
  <1>1. IInv => FramesHaveOneOwner
    <2>1. SUFFICES ASSUME Good, NEW s \in Spaces, NEW r \in Spaces, NEW i \in DOMAIN FramesOf(SpaceOf(s))
                   PROVE  /\ coremap[FramesOf(SpaceOf(s))[i]] =
                               [chunk_cnt |-> 1, is_allocated |-> TRUE, is_kern_page |-> FALSE]
                          /\ \A j \in DOMAIN FramesOf(SpaceOf(r)) :
                               FramesOf(SpaceOf(s))[i] = FramesOf(SpaceOf(r))[j] => s = r /\ i = j
      BY DEF IInv, FramesHaveOneOwner
    <2>2. CmGood /\ Owned
      BY <2>1 DEF Good
    <2>3. \A z : /\ DOMAIN FramesOf(z) = DOMAIN z.entries
                 /\ \A n \in DOMAIN z.entries : FramesOf(z)[n] = z.entries[n].frame
      BY DEF FramesOf
    <2>4. Ent(s) = SpaceOf(s).entries /\ Ent(r) = SpaceOf(r).entries /\ s \in Holders /\ r \in Holders
      BY <2>1 DEF Ent, Holders, Spaces
    <2> DEFINE f == Ent(s)[i].frame
               h == <<s, i, f>>
    <2>5. h \in Holdings /\ f = FramesOf(SpaceOf(s))[i]
      BY <2>1, <2>3, <2>4, HoldingsAre
    <2> HIDE DEF f
    <2>6. coremap[f] = [chunk_cnt |-> 1, is_allocated |-> TRUE, is_kern_page |-> FALSE]
      <3> DEFINE c == UserChunk(f)
      <3>1. c \in live
        <4>1. h[3] = f
          OBVIOUS
        <4> QED BY <2>2, <2>5, <4>1 DEF Owned
      <3>2. c.base = f /\ c.npages = 1 /\ c.kern = FALSE
        BY DEF UserChunk
      <3> HIDE DEF c
      <3>3. coremap[c.base] = Marked(c)
        BY <2>2, <3>1, ChunkFacts DEF CmGood, Marks
      <3> QED BY <3>2, <3>3 DEF Marked
    <2>7. ASSUME NEW j \in DOMAIN FramesOf(SpaceOf(r)), f = FramesOf(SpaceOf(r))[j] PROVE s = r /\ i = j
      <3> DEFINE g == <<r, j, Ent(r)[j].frame>>
      <3>1. g \in Holdings /\ Ent(r)[j].frame = f
        BY <2>3, <2>4, <2>7, HoldingsAre
      <3>2. g[3] = h[3]
        BY <3>1
      <3>3. g = h
        BY <2>2, <2>5, <3>1, <3>2 DEF Owned
      <3> QED BY <3>3
    <2> QED BY <2>5, <2>6, <2>7
  <1> QED BY <1>1, IInvHolds, PTL

\* Every user page of the coremap is in some page table: exec, fork, sbrk, exit
\* and their error paths lose no page.
THEOREM NoFrameIsLeaked == AsSpec => []NoFrameLeaked
  <1>1. IInv => NoFrameLeaked
    <2>1. SUFFICES ASSUME Owned, NEW c \in live, ~c.kern
                   PROVE  \E s \in Spaces : \E i \in DOMAIN SpaceOf(s).entries : c.base = SpaceOf(s).entries[i].frame
      BY DEF IInv, NoFrameLeaked, Good
    <2>2. PICK h \in Holdings : h[3] = c.base
      BY <2>1 DEF Owned
    <2>3. \E s \in Spaces : \E i \in DOMAIN SpaceOf(s).entries : h = <<s, i, SpaceOf(s).entries[i].frame>>
      BY DEF Holdings
    <2> QED BY <2>2, <2>3
  <1> QED BY <1>1, IInvHolds, PTL

\* sys_sbrk asks for the pages that are missing, no fewer: the heap is mapped up
\* to the break, unless the break was lowered, or moved although sbrk failed.
THEOREM HeapStaysBacked == AsSpec => []HeapBacked
  <1>1. IInv => HeapBacked
    <2>1. SUFFICES ASSUME ProcInv, NEW p \in Procs \ bent, mode[p] \in {"user", "fork"}
                   PROVE  \A a \in as[p].vbreakbase .. as[p].vbreaktop - 1 : Page(a) \in Mapped(as[p])
      BY DEF IInv, HeapBacked, Good
    <2>2. HeapOK(as[p])
      BY <2>1, ProcHere DEF HeapsOK
    <2> QED BY <2>2 DEF HeapOK, Backed
  <1> QED BY <1>1, IInvHolds, PTL
============================================================================
