------------------------------ MODULE FileTable ------------------------------
(***************************************************************************)
(* Open files of OS/161 processes: the per-thread fd_table, the            *)
(* struct file_handle it points to, shared between processes by fork and   *)
(* by dup2, and the open and reference counts of the vnodes below          *)
(* (kern/syscall/file_syscalls.c, the file parts of thread_fork and        *)
(* thread_exit in kern/thread/thread.c, kern/vfs/vnode.c, vfspath.c and    *)
(* vfscwd.c).                                                              *)
(*                                                                         *)
(* fd_table belongs to one thread, but a handle does not, and its count    *)
(* references is tested and changed with no lock that all of close, fork,  *)
(* exit and dup2 take.  The load and the store of the count are separate   *)
(* steps; the store may use the value the test loaded or load it again,    *)
(* as the compiler chooses.  A call under the vfs big lock is one step.    *)
(***************************************************************************)
EXTENDS Integers, FiniteSets

CONSTANTS Procs,      \* threads with a file table
          Boot,       \* the thread that exists at the start
          Files,      \* vnodes of files and directories
          Dirs,       \* the directories among them
          Console,    \* the vnode of "con:"
          OpenMax,    \* OPEN_MAX: descriptors per table
          StdFds,     \* descriptors init_filetable opens on the console
          Handles,    \* addresses kmalloc can give to a file_handle
          MaxOffset,  \* bound: offsets 0 .. MaxOffset
          MaxLost,    \* bound: opens whose VOP_STAT fails
          NULL        \* no handle, no directory, no holder

Fds    == 0 .. OpenMax - 1
Vnodes == Files \cup {Console}

ASSUME FileTableAssumption ==
    /\ Boot \in Procs /\ IsFiniteSet(Procs) /\ IsFiniteSet(Handles)
    /\ OpenMax \in Nat \ {0} /\ StdFds \subseteq Fds
    /\ MaxOffset \in Nat /\ MaxLost \in Nat
    /\ Console \notin Files /\ Dirs \subseteq Files
    /\ NULL \notin Handles \cup Procs \cup Vnodes

VARIABLES table,   \* fd_table of each thread
          handle,  \* the file_handle at each address
          vnode,   \* vn_opencount and vn_refcount
          cwd,     \* t_cwd
          pc,      \* where each thread is
          loc,     \* its local variables in the call it is in
          raced,   \* history: two changes of one count overlapped
          lost     \* history: opens whose error path forgot vfs_close

vars == <<table, handle, vnode, cwd, pc, loc, raced, lost>>

HandleRec == [live: BOOLEAN, references: Int, vnode: Vnodes,
              offset: 0 .. MaxOffset, filelock: Procs \cup {NULL}]

\* fd: the descriptor in use; to: newfd of dup2; seen: the count as loaded;
\* next: where a close returns to; off: the offset an I/O started at;
\* kid: the thread a fork is making.
LocRec == [fd: 0 .. OpenMax, to: Fds, seen: Int,
           next: {"user", "dup", "exit"}, off: 0 .. MaxOffset,
           kid: Procs \cup {NULL}]

Steps == {"unborn", "menu", "embryo", "user", "drop", "dup", "dup_lock", "dup_inc",
          "io", "fork", "fork_inc", "exit"}

TypeOK ==
    /\ table \in [Procs -> [Fds -> Handles \cup {NULL}]]
    /\ handle \in [Handles -> HandleRec]
    /\ vnode \in [Vnodes -> [opencount: Int, refcount: Int]]
    /\ cwd \in [Procs -> Dirs \cup {NULL}]
    /\ pc \in [Procs -> Steps]
    /\ loc \in [Procs -> LocRec]
    /\ raced \in BOOLEAN /\ lost \in [Vnodes -> Nat]

NoFiles == [fd \in Fds |-> NULL]

\* The locals of a thread that is in no call, and a free address.
NoCall == [fd |-> 0, to |-> 0, seen |-> 0, next |-> "user", off |-> 0, kid |-> NULL]

Freed == [live |-> FALSE, references |-> 0, vnode |-> Console, offset |-> 0,
          filelock |-> NULL]

Init ==
    /\ table = [p \in Procs |-> NoFiles]
    /\ handle = [h \in Handles |-> Freed]
    /\ vnode = [v \in Vnodes |-> [opencount |-> 0, refcount |-> 0]]
    /\ cwd = [p \in Procs |-> NULL]
    /\ pc = [p \in Procs |-> IF p = Boot THEN "menu" ELSE "unborn"]
    /\ loc = [p \in Procs |-> NoCall]
    /\ raced = FALSE /\ lost = [v \in Vnodes |-> 0]

----------------------------------------------------------------------------
(* Vnodes.  vfs_open leaves one more reference and one more open,          *)
(* vfs_close takes both back; VOP_INCREF and VOP_DECREF change the         *)
(* reference count alone.                                                  *)

vfs_open(vn, v) == [vn EXCEPT ![v] = [opencount |-> @.opencount + 1,
                                      refcount  |-> @.refcount + 1]]

\* Mutant: close drops the open count and keeps the reference.
vfs_closeNoDecref(vn, v) == [vn EXCEPT ![v].opencount = @ - 1]

vfs_close(vn, v) == [vn EXCEPT ![v] = [opencount |-> @.opencount - 1,
                                       refcount  |-> @.refcount - 1]]

VOP_INCREF(vn, v) == IF v = NULL THEN vn
                     ELSE [vn EXCEPT ![v].refcount = @ + 1]

VOP_DECREF(vn, v) == IF v = NULL THEN vn
                     ELSE [vn EXCEPT ![v].refcount = @ - 1]

----------------------------------------------------------------------------
(* The count of a handle.                                                  *)

Cur(p) == table[p][loc[p].fd]

Changing == {"drop", "dup_inc", "fork_inc"}

Overlap(p, h) == \E q \in Procs \ {p} : pc[q] \in Changing /\ Cur(q) = h

\* The first half of a change: load references, and remember to.
LoadCount(p, to, l) ==
    LET h == table[p][l.fd]
    IN  /\ loc' = [loc EXCEPT ![p] = [l EXCEPT !.seen = handle[h].references]]
        /\ raced' = (raced \/ Overlap(p, h))
        /\ pc' = [pc EXCEPT ![p] = to]

\* The second half: store the value loaded, or the present one, changed by d.
NewCounts(p, d) == {loc[p].seen + d, handle[Cur(p)].references + d}

\* Back to the program.
Return(p) ==
    /\ pc' = [pc EXCEPT ![p] = "user"]
    /\ loc' = [loc EXCEPT ![p] = NoCall]

\* The next descriptor of a loop over the table.
Step(p) == loc' = [loc EXCEPT ![p].fd = @ + 1]

----------------------------------------------------------------------------
(* A program started from the menu: init_filetable opens the console once  *)
(* for each standard descriptor; any failure undoes all of it.             *)
init_filetable(p) ==
    /\ pc[p] = "menu"
    /\ \E hs \in [StdFds -> {h \in Handles : ~handle[h].live}] :
          /\ \A i, j \in StdFds : i # j => hs[i] # hs[j]
          /\ table' = [table EXCEPT ![p] =
                [fd \in Fds |-> IF fd \in StdFds THEN hs[fd] ELSE NULL]]
          /\ handle' = [h \in Handles |->
                IF \E i \in StdFds : hs[i] = h
                THEN [live |-> TRUE, references |-> 1, vnode |-> Console,
                      offset |-> 0, filelock |-> NULL]
                ELSE handle[h]]
    /\ vnode' = [vnode EXCEPT ![Console] =
                   [opencount |-> @.opencount + Cardinality(StdFds),
                    refcount  |-> @.refcount + Cardinality(StdFds)]]
    /\ pc' = [pc EXCEPT ![p] = "user"]
    /\ UNCHANGED <<cwd, loc, raced, lost>>

\* open: the lowest free descriptor gets a new handle, then vfs_open fills
\* it in.  On a failure of vfs_open the handle is freed again (no change).
sys_open(p) ==
    /\ pc[p] = "user"
    /\ \E fd \in Fds, h \in Handles, v \in Vnodes :
          /\ table[p][fd] = NULL /\ \A e \in 0 .. fd - 1 : table[p][e] # NULL
          /\ ~handle[h].live
          /\ table' = [table EXCEPT ![p][fd] = h]
          /\ handle' = [handle EXCEPT ![h] = [live |-> TRUE, references |-> 1,
                            vnode |-> v, offset |-> 0, filelock |-> NULL]]
          /\ vnode' = vfs_open(vnode, v)
    /\ UNCHANGED <<cwd, pc, loc, raced, lost>>

\* open with O_APPEND whose VOP_STAT fails: the handle is freed, the vnode
\* stays open.
sys_open_StatFails(p) ==
    /\ pc[p] = "user"
    /\ \E v \in Files :
          /\ \E fd \in Fds : table[p][fd] = NULL
          /\ lost[v] < MaxLost
          /\ vnode' = vfs_open(vnode, v)
          /\ lost' = [lost EXCEPT ![v] = @ + 1]
    /\ UNCHANGED <<table, handle, cwd, pc, loc, raced>>

\* chdir: lookup takes a reference, the new directory another, the old one
\* and the lookup's are dropped.
sys_chdir(p) ==
    /\ pc[p] = "user"
    /\ \E d \in Dirs :
          /\ vnode' = VOP_DECREF(VOP_INCREF(vnode, d), cwd[p])
          /\ cwd' = [cwd EXCEPT ![p] = d]
    /\ UNCHANGED <<table, handle, pc, loc, raced, lost>>

----------------------------------------------------------------------------
(* read and write: the offset is read and stored under filelock, with the  *)
(* transfer, which may sleep, in between.                                  *)
LockFree(p, h) == handle[h].filelock \in {NULL, p}

IoStart(p) ==
    /\ pc[p] = "user"
    /\ \E fd \in Fds :
          LET h == table[p][fd]
          IN  /\ h # NULL /\ LockFree(p, h)
              /\ handle' = [handle EXCEPT ![h].filelock = p]
              /\ loc' = [loc EXCEPT ![p].fd = fd, ![p].off = handle[h].offset]
    /\ pc' = [pc EXCEPT ![p] = "io"]
    /\ UNCHANGED <<table, vnode, cwd, raced, lost>>

\* Ends with the offset moved on by the bytes transferred, or, at an error
\* or at the end of the file, where it was.
IoEnd(p) ==
    /\ pc[p] = "io"
    /\ \E o \in loc[p].off .. MaxOffset :
          handle' = [handle EXCEPT ![Cur(p)].offset = o,
                                   ![Cur(p)].filelock = NULL]
    /\ Return(p)
    /\ UNCHANGED <<table, vnode, cwd, raced, lost>>

\* Mutant: lseek does not take the lock.
sys_lseekNoLock(p) ==
    /\ pc[p] = "user"
    /\ \E fd \in Fds, o \in 0 .. MaxOffset :
          LET h == table[p][fd]
          IN  /\ h # NULL /\ handle[h].vnode # Console
              /\ handle' = [handle EXCEPT ![h].offset = o]
    /\ UNCHANGED <<table, vnode, cwd, pc, loc, raced, lost>>

\* lseek: the offset is stored before VOP_TRYSEEK is asked, and stays when
\* it refuses, so that both outcomes are this step.
sys_lseek(p) ==
    /\ pc[p] = "user"
    /\ \E fd \in Fds, o \in 0 .. MaxOffset :
          LET h == table[p][fd]
          IN  /\ h # NULL /\ handle[h].vnode # Console
              /\ LockFree(p, h)
              /\ handle' = [handle EXCEPT ![h].offset = o]
    /\ UNCHANGED <<table, vnode, cwd, pc, loc, raced, lost>>

----------------------------------------------------------------------------
(* Dropping a descriptor: close, the close inside dup2, and exit.          *)

\* close: test references.
sys_close(p) ==
    /\ pc[p] = "user"
    /\ \E fd \in Fds :
          /\ table[p][fd] # NULL
          /\ LoadCount(p, "drop", [loc[p] EXCEPT !.fd = fd, !.next = "user"])
    /\ UNCHANGED <<table, handle, vnode, cwd, lost>>

\* Where a drop leaves the thread: exit goes to the next descriptor and
\* leaves the pointer in the dying thread's table, the others clear it.
Dropped(p) ==
    \/ /\ loc[p].next = "exit"
       /\ pc' = [pc EXCEPT ![p] = "exit"]
       /\ Step(p)
       /\ UNCHANGED table
    \/ /\ loc[p].next = "dup"
       /\ pc' = [pc EXCEPT ![p] = "dup"]
       /\ table' = [table EXCEPT ![p][loc[p].fd] = NULL]
       /\ UNCHANGED loc
    \/ /\ loc[p].next = "user"
       /\ table' = [table EXCEPT ![p][loc[p].fd] = NULL]
       /\ Return(p)

\* Others refer to the handle: only count.
DropCounted(p) ==
    /\ pc[p] = "drop" /\ loc[p].seen > 1
    /\ \E n \in NewCounts(p, -1) :
          handle' = [handle EXCEPT ![Cur(p)].references = n]
    /\ Dropped(p)
    /\ UNCHANGED <<vnode, cwd, raced, lost>>

\* The last one: destroy the lock, close the vnode, free the handle.
DropLast(p) ==
    /\ pc[p] = "drop" /\ loc[p].seen <= 1
    /\ vnode' = vfs_close(vnode, handle[Cur(p)].vnode)
    /\ handle' = [handle EXCEPT ![Cur(p)] = Freed]
    /\ Dropped(p)
    /\ UNCHANGED <<cwd, raced, lost>>

----------------------------------------------------------------------------
(* dup2: close newfd, copy the pointer, then count it under filelock.      *)

sys_dup2(p) ==
    /\ pc[p] = "user"
    /\ \E old, new \in Fds :
          /\ old # new /\ table[p][old] # NULL
          /\ IF table[p][new] # NULL
             THEN LoadCount(p, "drop", [loc[p] EXCEPT !.fd = new, !.to = old,
                                                      !.next = "dup"])
             ELSE /\ loc' = [loc EXCEPT ![p].fd = new, ![p].to = old]
                  /\ pc' = [pc EXCEPT ![p] = "dup"]
                  /\ UNCHANGED raced
    /\ UNCHANGED <<table, handle, vnode, cwd, lost>>

sys_dup2_Assign(p) ==
    /\ pc[p] = "dup"
    /\ table' = [table EXCEPT ![p][loc[p].fd] = table[p][loc[p].to]]
    /\ pc' = [pc EXCEPT ![p] = "dup_lock"]
    /\ UNCHANGED <<handle, vnode, cwd, loc, raced, lost>>

sys_dup2_Lock(p) ==
    /\ pc[p] = "dup_lock" /\ LockFree(p, Cur(p))
    /\ handle' = [handle EXCEPT ![Cur(p)].filelock = p]
    /\ LoadCount(p, "dup_inc", loc[p])
    /\ UNCHANGED <<table, vnode, cwd, lost>>

\* Mutant: dup2 copies the pointer and does not count it.
sys_dup2_CountForgotten(p) ==
    /\ pc[p] = "dup_inc"
    /\ handle' = [handle EXCEPT ![Cur(p)].filelock = NULL]
    /\ Return(p)
    /\ UNCHANGED <<table, vnode, cwd, raced, lost>>

sys_dup2_Count(p) ==
    /\ pc[p] = "dup_inc"
    /\ \E n \in NewCounts(p, 1) :
          handle' = [handle EXCEPT ![Cur(p)].references = n,
                                   ![Cur(p)].filelock = NULL]
    /\ Return(p)
    /\ UNCHANGED <<table, vnode, cwd, raced, lost>>

----------------------------------------------------------------------------
(* fork: one more reference to every open handle, one after the other,     *)
(* then the table is copied and the child inherits the directory.          *)

thread_fork(p) ==
    /\ pc[p] = "user"
    /\ \E k \in Procs :
          /\ pc[k] = "unborn"
          /\ pc' = [pc EXCEPT ![p] = "fork", ![k] = "embryo"]
          /\ loc' = [loc EXCEPT ![p].fd = 0, ![p].kid = k]
    /\ UNCHANGED <<table, handle, vnode, cwd, raced, lost>>

ForkLoad(p) ==
    /\ pc[p] = "fork" /\ loc[p].fd < OpenMax /\ Cur(p) # NULL
    /\ LoadCount(p, "fork_inc", loc[p])
    /\ UNCHANGED <<table, handle, vnode, cwd, lost>>

\* Mutant: fork shares the handles and does not count the child.
ForkCountForgotten(p) ==
    /\ pc[p] = "fork_inc"
    /\ pc' = [pc EXCEPT ![p] = "fork"]
    /\ Step(p)
    /\ UNCHANGED <<table, handle, vnode, cwd, raced, lost>>

ForkCount(p) ==
    /\ pc[p] = "fork_inc"
    /\ \E n \in NewCounts(p, 1) :
          handle' = [handle EXCEPT ![Cur(p)].references = n]
    /\ pc' = [pc EXCEPT ![p] = "fork"]
    /\ Step(p)
    /\ UNCHANGED <<table, vnode, cwd, raced, lost>>

\* The loops of fork and exit pass an unused descriptor.
Skip(p) ==
    /\ pc[p] \in {"fork", "exit"} /\ loc[p].fd < OpenMax /\ Cur(p) = NULL
    /\ Step(p)
    /\ UNCHANGED <<table, handle, vnode, cwd, pc, raced, lost>>

ForkCopy(p) ==
    /\ pc[p] = "fork" /\ loc[p].fd = OpenMax
    /\ LET k == loc[p].kid
       IN  /\ table' = [table EXCEPT ![k] = table[p]]
           /\ vnode' = VOP_INCREF(vnode, cwd[p])
           /\ cwd' = [cwd EXCEPT ![k] = cwd[p]]
           /\ pc' = [pc EXCEPT ![p] = "user", ![k] = "user"]
           /\ loc' = [loc EXCEPT ![p] = NoCall]
    /\ UNCHANGED <<handle, raced, lost>>

----------------------------------------------------------------------------
(* exit: leave the directory, then drop every descriptor in turn.          *)

thread_exit(p) ==
    /\ pc[p] = "user"
    /\ vnode' = VOP_DECREF(vnode, cwd[p])
    /\ cwd' = [cwd EXCEPT ![p] = NULL]
    /\ loc' = [loc EXCEPT ![p].fd = 0, ![p].next = "exit"]
    /\ pc' = [pc EXCEPT ![p] = "exit"]
    /\ UNCHANGED <<table, handle, raced, lost>>

ExitTest(p) ==
    /\ pc[p] = "exit" /\ loc[p].fd < OpenMax /\ Cur(p) # NULL
    /\ LoadCount(p, "drop", loc[p])
    /\ UNCHANGED <<table, handle, vnode, cwd, lost>>

\* thread_destroy frees the table with the thread, whose address is free
\* for another.
ExitDone(p) ==
    /\ pc[p] = "exit" /\ loc[p].fd = OpenMax
    /\ pc' = [pc EXCEPT ![p] = "unborn"]
    /\ table' = [table EXCEPT ![p] = NoFiles]
    /\ loc' = [loc EXCEPT ![p] = NoCall]
    /\ UNCHANGED <<handle, vnode, cwd, raced, lost>>

----------------------------------------------------------------------------
Next == \E p \in Procs :
    \/ init_filetable(p) \/ sys_open(p) \/ sys_open_StatFails(p)
    \/ sys_chdir(p) \/ IoStart(p) \/ IoEnd(p) \/ sys_lseek(p)
    \/ sys_close(p) \/ DropCounted(p) \/ DropLast(p)
    \/ sys_dup2(p) \/ sys_dup2_Assign(p) \/ sys_dup2_Lock(p)
    \/ sys_dup2_Count(p)
    \/ thread_fork(p) \/ ForkLoad(p) \/ ForkCount(p) \/ Skip(p)
    \/ ForkCopy(p)
    \/ thread_exit(p) \/ ExitTest(p) \/ ExitDone(p)

Spec == Init /\ [][Next]_vars

----------------------------------------------------------------------------
(* Properties.                                                             *)

\* raced never goes back to FALSE and every property allows it, so TLC need
\* not go beyond the first overlap.
NotRaced == ~raced

\* The descriptors of p that still count as references: in the loop of
\* exit only the ones it has not come to.
Held(p) == {fd \in Fds : /\ table[p][fd] # NULL
                         /\ (pc[p] = "exit" \/ (pc[p] = "drop" /\ loc[p].next = "exit"))
                               => fd >= loc[p].fd}

\* A handle some descriptor refers to is not freed, so long as no two
\* changes of a count overlapped: close and exit free it "if this thread is
\* the only one with reference" (thread.c, thread_exit), although the count
\* runs ahead of the pointers in fork and behind them in dup2.
NoDanglingHandle ==
    raced \/ \A p \in Procs : \A fd \in Held(p) : handle[table[p][fd]].live

\* The references the count of h stands for: the descriptors that refer to
\* it, but for the one dup2 has copied and not yet counted, and the ones of
\* a child that fork has counted before the child has its table.
OwnRef(p, fd, h) ==
    /\ fd \in Held(p) /\ table[p][fd] = h
    /\ ~(pc[p] \in {"dup_lock", "dup_inc"} /\ fd = loc[p].fd)
ChildRef(k, fd, h) == \E p \in Procs :
    /\ pc[p] \in {"fork", "fork_inc"} /\ loc[p].kid = k
    /\ fd < loc[p].fd /\ table[p][fd] = h
References(h) == {r \in Procs \X Fds : OwnRef(r[1], r[2], h) \/ ChildRef(r[1], r[2], h)}

\* The count of a live handle is the number of descriptors that refer to it
\* in all processes, but for the calls in progress: nothing is leaked and
\* nothing freed early, so long as no two changes overlapped.
CountIsReferences ==
    raced \/ \A h \in Handles : handle[h].live =>
        handle[h].references = Cardinality(References(h))

\* A transfer ends with the offset it started from still in the handle: the
\* processes that share it never read or write the same place twice.
OffsetHeldDuringIO ==
    raced \/ \A p \in Procs : pc[p] = "io" => handle[Cur(p)].offset = loc[p].off

\* The vnode layer's counts are those of the open handles and the current
\* directories, and of the opens whose error path forgets them.
VnodeCountsMatch ==
    LET Open(v) == Cardinality({h \in Handles :
                       handle[h].live /\ handle[h].vnode = v}) + lost[v]
    IN  raced \/ \A v \in Vnodes :
          /\ vnode[v].opencount = Open(v)
          /\ vnode[v].refcount = Open(v) + Cardinality({p \in Procs : cwd[p] = v})
=============================================================================
