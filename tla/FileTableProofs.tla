--------------------------- MODULE FileTableProofs ---------------------------
(***************************************************************************)
(* Proofs about module FileTable, for any finite sets of threads and       *)
(* handle addresses, any size of the descriptor table and any vnodes.      *)
(***************************************************************************)
EXTENDS FileTable, TLAPS, FiniteSetTheorems

-----------------------------------------------------------------------------
(* The inductive invariant.  BaseInv holds whatever is raced; the rest     *)
(* holds until two changes of one count overlap.                           *)

Busy(p) == pc[p] \in {"drop", "dup_lock", "dup_inc", "io", "fork_inc"}

Forking(p) == pc[p] \in {"fork", "fork_inc"}

Leaving(p) == pc[p] = "exit" \/ (pc[p] = "drop" /\ loc[p].next = "exit")

Duping(p) == pc[p] \in {"dup", "dup_lock", "dup_inc"} \/ (pc[p] = "drop" /\ loc[p].next = "dup")

\* What the locals of a call mean at each place of it.
CallOK(p) ==
  /\ Busy(p) => loc[p].fd \in Fds /\ Cur(p) # NULL
  /\ Duping(p) => loc[p].fd \in Fds /\ loc[p].fd # loc[p].to /\ table[p][loc[p].to] # NULL
  /\ pc[p] = "dup" => Cur(p) = NULL
  /\ pc[p] \in {"dup_lock", "dup_inc"} => Cur(p) = table[p][loc[p].to]
  /\ pc[p] = "exit" => loc[p].next = "exit"

\* A thread that is not there yet has no files and is in no call.
IdleOK(p) ==
  /\ pc[p] \in {"unborn", "menu", "embryo"} => table[p] = NoFiles
  /\ pc[p] \in {"unborn", "menu", "embryo", "user"} => loc[p] = NoCall
  /\ pc[p] \in {"unborn", "menu", "embryo"} \/ Leaving(p) => cwd[p] = NULL

\* A fork has a child of its own, which waits for its table.
ForkInv ==
  \A p \in Procs : Forking(p) =>
    /\ loc[p].kid \in Procs /\ pc[loc[p].kid] = "embryo"
    /\ \A q \in Procs : Forking(q) /\ p # q => loc[p].kid # loc[q].kid

BaseInv == TypeOK /\ (\A p \in Procs : CallOK(p) /\ IdleOK(p)) /\ ForkInv

Ref(p, fd, h) == OwnRef(p, fd, h) \/ ChildRef(p, fd, h)

\* The count of a live handle is exact, and nothing refers to a free one.
Exact ==
  \A h \in Handles :
    /\ handle[h].live => handle[h].references = Cardinality(References(h))
    /\ ~handle[h].live => References(h) = {}

\* No two calls are about to change one count ...
Apart == \A p, q \in Procs : p # q /\ pc[p] \in Changing /\ pc[q] \in Changing => Cur(p) # Cur(q)

\* ... so that the count a call has loaded is still the count.
SeenInv == \A p \in Procs : pc[p] \in Changing => loc[p].seen = handle[Cur(p)].references

\* filelock is held over a transfer, which finds the offset as it was.
LockInv ==
  \A p \in Procs :
    /\ pc[p] \in {"io", "dup_inc"} => handle[Cur(p)].filelock = p
    /\ pc[p] = "io" => handle[Cur(p)].offset = loc[p].off

OpenHandles(v) == {h \in Handles : handle[h].live /\ handle[h].vnode = v}

Visitors(v) == {p \in Procs : cwd[p] = v}

VnodeInv ==
  \A v \in Vnodes :
    /\ vnode[v].opencount = Cardinality(OpenHandles(v)) + lost[v]
    /\ vnode[v].refcount = Cardinality(OpenHandles(v)) + lost[v] + Cardinality(Visitors(v))

Good == Exact /\ Apart /\ SeenInv /\ LockInv /\ VnodeInv

IInv == BaseInv /\ (raced \/ Good)

-----------------------------------------------------------------------------
(* BaseInv *)

LEMMA FdsFacts == Fds \subseteq Nat /\ 0 \in Fds /\ (\A fd \in Fds : fd + 1 \in 0 .. OpenMax)
                  /\ (\A fd \in 0 .. OpenMax : fd < OpenMax => fd \in Fds)
  BY FileTableAssumption DEF Fds

LEMMA HandleFields ==
  ASSUME NEW r \in HandleRec
  PROVE  /\ r.live \in BOOLEAN /\ r.references \in Int /\ r.vnode \in Vnodes
         /\ r.offset \in 0 .. MaxOffset /\ r.filelock \in Procs \cup {NULL}
         /\ \A n \in Int : [r EXCEPT !.references = n] \in HandleRec
         /\ \A o \in 0 .. MaxOffset : [r EXCEPT !.offset = o] \in HandleRec
         /\ \A q \in Procs \cup {NULL} : [r EXCEPT !.filelock = q] \in HandleRec
  BY DEF HandleRec

LEMMA LocFields ==
  ASSUME TypeOK, NEW p \in Procs
  PROVE  /\ loc[p] \in LocRec
         /\ loc[p].fd \in 0 .. OpenMax /\ loc[p].to \in Fds /\ loc[p].seen \in Int
         /\ loc[p].next \in {"user", "dup", "exit"}
         /\ loc[p].off \in 0 .. MaxOffset /\ loc[p].kid \in Procs \cup {NULL}
  BY DEF TypeOK, LocRec

\* The locals at the start of each call.
LEMMA LocSet ==
  ASSUME NEW l \in LocRec, NEW fd \in Fds
  PROVE  /\ [l EXCEPT !.fd = fd, !.next = "user"] \in LocRec
         /\ [l EXCEPT !.fd = fd, !.next = "exit"] \in LocRec
         /\ \A o \in 0 .. MaxOffset : [l EXCEPT !.fd = fd, !.off = o] \in LocRec
         /\ \A to \in Fds : [l EXCEPT !.fd = fd, !.to = to, !.next = "dup"] \in LocRec
         /\ \A to \in Fds : [l EXCEPT !.fd = fd, !.to = to] \in LocRec
         /\ \A k \in Procs : [l EXCEPT !.fd = fd, !.kid = k] \in LocRec
  <1>1. fd \in 0 .. OpenMax
    BY FileTableAssumption DEF Fds
  <1> QED BY <1>1 DEF LocRec

LEMMA ConstantRecs == NoCall \in LocRec /\ Freed \in HandleRec /\ NoFiles \in [Fds -> Handles \cup {NULL}]
  BY FileTableAssumption, FdsFacts DEF NoCall, LocRec, Freed, HandleRec, NoFiles, Vnodes

LEMMA TypeInit == Init => TypeOK
  <1> SUFFICES ASSUME Init PROVE TypeOK
    OBVIOUS
  <1>1. table \in [Procs -> [Fds -> Handles \cup {NULL}]] /\ handle \in [Handles -> HandleRec]
        /\ loc \in [Procs -> LocRec]
    BY ConstantRecs DEF Init
  <1>2. vnode \in [Vnodes -> [opencount: Int, refcount: Int]] /\ lost \in [Vnodes -> Nat]
    BY DEF Init
  <1>3. cwd \in [Procs -> Dirs \cup {NULL}] /\ pc \in [Procs -> Steps] /\ raced \in BOOLEAN
    BY DEF Init, Steps
  <1> QED BY <1>1, <1>2, <1>3 DEF TypeOK

LEMMA LoadTyped ==
  ASSUME TypeOK, NEW p \in Procs, NEW to \in Steps, NEW l \in LocRec, l.fd \in Fds,
         table[p][l.fd] # NULL, LoadCount(p, to, l)
  PROVE  pc' \in [Procs -> Steps] /\ loc' \in [Procs -> LocRec] /\ raced' \in BOOLEAN
  <1>1. handle[table[p][l.fd]].references \in Int
    BY HandleFields DEF TypeOK
  <1>2. [l EXCEPT !.seen = handle[table[p][l.fd]].references] \in LocRec
    BY <1>1 DEF LocRec
  <1> QED BY <1>2 DEF LoadCount, TypeOK

LEMMA StepTyped ==
  ASSUME TypeOK, NEW p \in Procs, loc[p].fd < OpenMax, Step(p)
  PROVE  loc' \in [Procs -> LocRec]
  <1>1. loc[p] \in LocRec /\ loc[p].fd + 1 \in 0 .. OpenMax
    BY LocFields, FileTableAssumption
  <1>2. [loc[p] EXCEPT !.fd = @ + 1] \in LocRec
    BY <1>1 DEF LocRec
  <1>3. loc' = [loc EXCEPT ![p] = [loc[p] EXCEPT !.fd = @ + 1]]
    BY DEF Step
  <1> QED BY <1>2, <1>3 DEF TypeOK

LEMMA ReturnTyped ==
  ASSUME TypeOK, NEW p \in Procs, Return(p)
  PROVE  pc' \in [Procs -> Steps] /\ loc' \in [Procs -> LocRec]
  BY ConstantRecs DEF Return, TypeOK, Steps

LEMMA DroppedTyped ==
  ASSUME BaseInv, NEW p \in Procs, pc[p] = "drop", Dropped(p)
  PROVE  table' \in [Procs -> [Fds -> Handles \cup {NULL}]] /\ pc' \in [Procs -> Steps] /\ loc' \in [Procs -> LocRec]
  <1>1. TypeOK /\ loc[p].fd \in Fds /\ loc[p].fd < OpenMax
    BY FileTableAssumption DEF BaseInv, CallOK, Busy, Fds
  <1>2. CASE loc[p].next = "exit" /\ pc' = [pc EXCEPT ![p] = "exit"] /\ Step(p) /\ UNCHANGED table
    BY <1>1, <1>2, StepTyped DEF TypeOK, Steps
  <1>3. CASE pc' = [pc EXCEPT ![p] = "dup"] /\ table' = [table EXCEPT ![p][loc[p].fd] = NULL] /\ UNCHANGED loc
    BY <1>1, <1>3 DEF TypeOK, Steps
  <1>4. CASE table' = [table EXCEPT ![p][loc[p].fd] = NULL] /\ Return(p)
    BY <1>1, <1>4, ReturnTyped DEF TypeOK
  <1> QED BY <1>2, <1>3, <1>4 DEF Dropped

LEMMA VnodeTyped ==
  ASSUME NEW vn \in [Vnodes -> [opencount: Int, refcount: Int]], NEW v \in Vnodes \cup {NULL}
  PROVE  /\ v # NULL => vfs_open(vn, v) \in [Vnodes -> [opencount: Int, refcount: Int]]
         /\ v # NULL => vfs_close(vn, v) \in [Vnodes -> [opencount: Int, refcount: Int]]
         /\ VOP_INCREF(vn, v) \in [Vnodes -> [opencount: Int, refcount: Int]]
         /\ VOP_DECREF(vn, v) \in [Vnodes -> [opencount: Int, refcount: Int]]
  BY DEF vfs_open, vfs_close, VOP_INCREF, VOP_DECREF

LEMMA TypeStep == BaseInv /\ [Next]_vars => TypeOK'
  <1> SUFFICES ASSUME BaseInv, [Next]_vars PROVE TypeOK'
    OBVIOUS
  <1> USE FileTableAssumption
  <1>0. TypeOK /\ (\A p \in Procs : CallOK(p))
    BY DEF BaseInv
  <1>1. ASSUME NEW p \in Procs, init_filetable(p) PROVE TypeOK'
    <2>1. table' \in [Procs -> [Fds -> Handles \cup {NULL}]] /\ handle' \in [Handles -> HandleRec]
      BY <1>0, <1>1 DEF init_filetable, TypeOK, HandleRec, Vnodes
    <2>2. Cardinality(StdFds) \in Nat
      <3>1. IsFiniteSet(Fds)
        BY FS_Interval DEF Fds
      <3> QED BY <3>1, FS_Subset, FS_CardinalityType
    <2>3. vnode' \in [Vnodes -> [opencount: Int, refcount: Int]]
      BY <1>0, <1>1, <2>2 DEF init_filetable, TypeOK, Vnodes
    <2> QED BY <1>0, <1>1, <2>1, <2>3 DEF init_filetable, TypeOK, Steps
  <1>2. ASSUME NEW p \in Procs, sys_open(p) PROVE TypeOK'
    <2>1. PICK fd \in Fds, h \in Handles, v \in Vnodes :
            /\ table' = [table EXCEPT ![p][fd] = h]
            /\ handle' = [handle EXCEPT ![h] = [live |-> TRUE, references |-> 1,
                            vnode |-> v, offset |-> 0, filelock |-> NULL]]
            /\ vnode' = vfs_open(vnode, v)
      BY <1>2 DEF sys_open
    <2>2. [live |-> TRUE, references |-> 1, vnode |-> v, offset |-> 0, filelock |-> NULL] \in HandleRec
      BY DEF HandleRec
    <2>3. vnode' \in [Vnodes -> [opencount: Int, refcount: Int]]
      BY <1>0, <2>1, VnodeTyped DEF TypeOK, Vnodes
    <2> QED BY <1>0, <1>2, <2>1, <2>2, <2>3 DEF sys_open, TypeOK
  <1>3. ASSUME NEW p \in Procs, sys_open_StatFails(p) PROVE TypeOK'
    <2>1. vnode' \in [Vnodes -> [opencount: Int, refcount: Int]]
      <3>1. PICK v \in Files : vnode' = vfs_open(vnode, v)
        BY <1>3 DEF sys_open_StatFails
      <3>2. v \in Vnodes \cup {NULL} /\ v # NULL
        BY DEF Vnodes
      <3> QED BY <1>0, <3>1, <3>2, VnodeTyped DEF TypeOK
    <2> QED BY <1>0, <1>3, <2>1 DEF sys_open_StatFails, TypeOK, Vnodes
  <1>4. ASSUME NEW p \in Procs, sys_chdir(p) PROVE TypeOK'
    <2>1. PICK d \in Dirs : vnode' = VOP_DECREF(VOP_INCREF(vnode, d), cwd[p]) /\ cwd' = [cwd EXCEPT ![p] = d]
      BY <1>4 DEF sys_chdir
    <2>2. d \in Vnodes \cup {NULL} /\ cwd[p] \in Vnodes \cup {NULL}
      BY <1>0 DEF TypeOK, Vnodes
    <2>3. vnode' \in [Vnodes -> [opencount: Int, refcount: Int]]
      BY <1>0, <2>1, <2>2, VnodeTyped DEF TypeOK
    <2> QED BY <1>0, <1>4, <2>1, <2>3 DEF sys_chdir, TypeOK
  <1>5. ASSUME NEW p \in Procs, IoStart(p) PROVE TypeOK'
    <2>1. PICK fd \in Fds : /\ table[p][fd] # NULL
                            /\ handle' = [handle EXCEPT ![table[p][fd]].filelock = p]
                            /\ loc' = [loc EXCEPT ![p].fd = fd, ![p].off = handle[table[p][fd]].offset]
      BY <1>5 DEF IoStart
    <2> DEFINE h == table[p][fd]
    <2>2. h \in Handles
      BY <1>0, <2>1 DEF TypeOK
    <2>3. handle[h].offset \in 0 .. MaxOffset /\ [handle[h] EXCEPT !.filelock = p] \in HandleRec
      BY <1>0, <2>2, HandleFields DEF TypeOK
    <2>4. [loc[p] EXCEPT !.fd = fd, !.off = handle[h].offset] \in LocRec
      BY <1>0, <2>3, LocFields, LocSet
    <2>5. handle' = [handle EXCEPT ![h] = [handle[h] EXCEPT !.filelock = p]]
          /\ loc' = [loc EXCEPT ![p] = [loc[p] EXCEPT !.fd = fd, !.off = handle[h].offset]]
      BY <1>0, <2>1 DEF TypeOK
    <2> HIDE DEF h
    <2> QED BY <1>0, <1>5, <2>2, <2>3, <2>4, <2>5 DEF IoStart, TypeOK, Steps
  <1>6. ASSUME NEW p \in Procs, IoEnd(p) PROVE TypeOK'
    <2>1. PICK o \in loc[p].off .. MaxOffset : handle' = [handle EXCEPT ![Cur(p)].offset = o, ![Cur(p)].filelock = NULL]
      BY <1>6 DEF IoEnd
    <2>2. Cur(p) \in Handles /\ o \in 0 .. MaxOffset
      <3>1. Cur(p) \in Handles
        BY <1>0, <1>6 DEF TypeOK, IoEnd, CallOK, Busy, Cur
      <3>2. loc[p].off \in 0 .. MaxOffset
        BY <1>0, LocFields
      <3> QED BY <3>1, <3>2
    <2>3. [[handle[Cur(p)] EXCEPT !.offset = o] EXCEPT !.filelock = NULL] \in HandleRec
      BY <1>0, <2>2, HandleFields DEF TypeOK
    <2>4. handle' = [handle EXCEPT ![Cur(p)] = [[handle[Cur(p)] EXCEPT !.offset = o] EXCEPT !.filelock = NULL]]
      BY <1>0, <2>1, <2>2 DEF TypeOK
    <2> QED BY <1>0, <1>6, <2>2, <2>3, <2>4, ReturnTyped DEF IoEnd, TypeOK
  <1>7. ASSUME NEW p \in Procs, sys_lseek(p) PROVE TypeOK'
    <2>1. PICK fd \in Fds, o \in 0 .. MaxOffset : table[p][fd] # NULL /\ handle' = [handle EXCEPT ![table[p][fd]].offset = o]
      BY <1>7 DEF sys_lseek
    <2> DEFINE h == table[p][fd]
    <2>2. h \in Handles /\ [handle[h] EXCEPT !.offset = o] \in HandleRec
      BY <1>0, <2>1, HandleFields DEF TypeOK
    <2>3. handle' = [handle EXCEPT ![h] = [handle[h] EXCEPT !.offset = o]]
      BY <2>1
    <2> HIDE DEF h
    <2> QED BY <1>0, <1>7, <2>2, <2>3 DEF sys_lseek, TypeOK
  <1>8. ASSUME NEW p \in Procs, sys_close(p) PROVE TypeOK'
    <2>1. PICK fd \in Fds : table[p][fd] # NULL /\ LoadCount(p, "drop", [loc[p] EXCEPT !.fd = fd, !.next = "user"])
      BY <1>8 DEF sys_close
    <2> DEFINE l == [loc[p] EXCEPT !.fd = fd, !.next = "user"]
    <2>2. l \in LocRec /\ l.fd = fd
      <3>1. loc[p] \in LocRec
        BY <1>0, LocFields
      <3> QED BY <3>1, LocSet DEF LocRec
    <2> HIDE DEF l
    <2> QED BY <1>0, <1>8, <2>1, <2>2, LoadTyped DEF sys_close, TypeOK, Steps, l
  <1>9. ASSUME NEW p \in Procs, DropCounted(p) PROVE TypeOK'
    <2>1. PICK n \in NewCounts(p, -1) : handle' = [handle EXCEPT ![Cur(p)].references = n]
      BY <1>9 DEF DropCounted
    <2>2. Cur(p) \in Handles
      BY <1>0, <1>9 DEF TypeOK, DropCounted, CallOK, Busy, Cur
    <2>3. n \in Int
      <3>1. handle[Cur(p)].references \in Int /\ loc[p].seen \in Int
        BY <1>0, <2>2, HandleFields, LocFields DEF TypeOK
      <3> QED BY <3>1 DEF NewCounts
    <2>4. [handle[Cur(p)] EXCEPT !.references = n] \in HandleRec
      BY <1>0, <2>2, <2>3, HandleFields DEF TypeOK
    <2>5. handle' = [handle EXCEPT ![Cur(p)] = [handle[Cur(p)] EXCEPT !.references = n]]
      BY <2>1
    <2> QED BY <1>0, <1>9, <2>2, <2>4, <2>5, DroppedTyped DEF DropCounted, TypeOK
  <1>10. ASSUME NEW p \in Procs, DropLast(p) PROVE TypeOK'
    <2>1. Cur(p) \in Handles
      BY <1>0, <1>10 DEF TypeOK, DropLast, CallOK, Busy, Cur
    <2>2. handle[Cur(p)].vnode \in Vnodes
      BY <1>0, <2>1, HandleFields DEF TypeOK
    <2>3. vnode' \in [Vnodes -> [opencount: Int, refcount: Int]]
      BY <1>0, <1>10, <2>2, VnodeTyped DEF TypeOK, DropLast, Vnodes
    <2>4. handle' \in [Handles -> HandleRec]
      BY <1>0, <1>10, <2>1, ConstantRecs DEF TypeOK, DropLast
    <2> QED BY <1>0, <1>10, <2>3, <2>4, DroppedTyped DEF DropLast, TypeOK
  <1>11. ASSUME NEW p \in Procs, sys_dup2(p) PROVE TypeOK'
    <2>1. PICK old \in Fds, new \in Fds :
            /\ old # new /\ table[p][old] # NULL
            /\ IF table[p][new] # NULL
               THEN LoadCount(p, "drop", [loc[p] EXCEPT !.fd = new, !.to = old, !.next = "dup"])
               ELSE /\ loc' = [loc EXCEPT ![p].fd = new, ![p].to = old]
                    /\ pc' = [pc EXCEPT ![p] = "dup"]
                    /\ UNCHANGED raced
      BY <1>11 DEF sys_dup2
    <2> DEFINE l == [loc[p] EXCEPT !.fd = new, !.to = old, !.next = "dup"]
               m == [loc[p] EXCEPT !.fd = new, !.to = old]
    <2>2. l \in LocRec /\ l.fd = new /\ m \in LocRec
      <3>1. loc[p] \in LocRec
        BY <1>0, LocFields
      <3> QED BY <3>1, LocSet DEF LocRec
    <2>3. CASE table[p][new] # NULL
      <3>1. LoadCount(p, "drop", l)
        BY <2>1, <2>3
      <3> HIDE DEF l
      <3> QED BY <1>0, <1>11, <2>2, <2>3, <3>1, LoadTyped DEF sys_dup2, TypeOK, Steps
    <2>4. CASE table[p][new] = NULL
      <3>1. loc' = [loc EXCEPT ![p] = m] /\ pc' = [pc EXCEPT ![p] = "dup"] /\ UNCHANGED raced
        BY <1>0, <2>1, <2>4 DEF TypeOK
      <3> HIDE DEF m
      <3> QED BY <1>0, <1>11, <2>2, <3>1 DEF sys_dup2, TypeOK, Steps
    <2> QED BY <2>3, <2>4
  <1>12. ASSUME NEW p \in Procs, sys_dup2_Assign(p) PROVE TypeOK'
    <2>1. loc[p].to \in Fds /\ loc[p].fd \in Fds
      BY <1>0, <1>12, LocFields DEF CallOK, Duping, sys_dup2_Assign
    <2>2. table[p][loc[p].to] \in Handles \cup {NULL}
      BY <1>0, <2>1 DEF TypeOK
    <2>3. table' \in [Procs -> [Fds -> Handles \cup {NULL}]]
      BY <1>0, <1>12, <2>1, <2>2 DEF sys_dup2_Assign, TypeOK
    <2> QED BY <1>0, <1>12, <2>3 DEF sys_dup2_Assign, TypeOK, Steps
  <1>13. ASSUME NEW p \in Procs, sys_dup2_Lock(p) PROVE TypeOK'
    <2>1. Cur(p) \in Handles /\ loc[p].fd \in Fds /\ Cur(p) # NULL
      BY <1>0, <1>13 DEF TypeOK, sys_dup2_Lock, CallOK, Busy, Cur
    <2>2. [handle[Cur(p)] EXCEPT !.filelock = p] \in HandleRec
      BY <1>0, <2>1, HandleFields DEF TypeOK
    <2>3. handle' = [handle EXCEPT ![Cur(p)] = [handle[Cur(p)] EXCEPT !.filelock = p]]
      BY <1>13 DEF sys_dup2_Lock
    <2>4. pc' \in [Procs -> Steps] /\ loc' \in [Procs -> LocRec] /\ raced' \in BOOLEAN
      BY <1>0, <1>13, <2>1, LoadTyped DEF TypeOK, Steps, sys_dup2_Lock, Cur
    <2> QED BY <1>0, <1>13, <2>1, <2>2, <2>3, <2>4 DEF sys_dup2_Lock, TypeOK
  <1>14. ASSUME NEW p \in Procs, sys_dup2_Count(p) PROVE TypeOK'
    <2>1. PICK n \in NewCounts(p, 1) : handle' = [handle EXCEPT ![Cur(p)].references = n, ![Cur(p)].filelock = NULL]
      BY <1>14 DEF sys_dup2_Count
    <2>2. Cur(p) \in Handles
      BY <1>0, <1>14 DEF TypeOK, sys_dup2_Count, CallOK, Busy, Cur
    <2>3. n \in Int
      <3>1. handle[Cur(p)].references \in Int /\ loc[p].seen \in Int
        BY <1>0, <2>2, HandleFields, LocFields DEF TypeOK
      <3> QED BY <3>1 DEF NewCounts
    <2>4. [[handle[Cur(p)] EXCEPT !.references = n] EXCEPT !.filelock = NULL] \in HandleRec
      BY <1>0, <2>2, <2>3, HandleFields DEF TypeOK
    <2>5. handle' = [handle EXCEPT ![Cur(p)] = [[handle[Cur(p)] EXCEPT !.references = n] EXCEPT !.filelock = NULL]]
      BY <1>0, <2>1, <2>2 DEF TypeOK
    <2> QED BY <1>0, <1>14, <2>2, <2>4, <2>5, ReturnTyped DEF sys_dup2_Count, TypeOK
  <1>15. ASSUME NEW p \in Procs, thread_fork(p) PROVE TypeOK'
    <2>1. PICK k \in Procs : /\ pc' = [pc EXCEPT ![p] = "fork", ![k] = "embryo"]
                             /\ loc' = [loc EXCEPT ![p].fd = 0, ![p].kid = k]
      BY <1>15 DEF thread_fork
    <2>2. [loc[p] EXCEPT !.fd = 0, !.kid = k] \in LocRec
      <3>1. loc[p] \in LocRec
        BY <1>0, LocFields
      <3> QED BY <3>1, LocSet, FdsFacts
    <2>3. loc' = [loc EXCEPT ![p] = [loc[p] EXCEPT !.fd = 0, !.kid = k]]
      BY <1>0, <2>1 DEF TypeOK
    <2>4. pc' \in [Procs -> Steps]
      BY <1>0, <2>1 DEF TypeOK, Steps
    <2>5. loc' \in [Procs -> LocRec]
      BY <1>0, <2>2, <2>3 DEF TypeOK
    <2> QED BY <1>0, <1>15, <2>4, <2>5 DEF thread_fork, TypeOK
  <1>16. ASSUME NEW p \in Procs, ForkLoad(p) \/ ExitTest(p) PROVE TypeOK'
    <2>1. loc[p] \in LocRec /\ loc[p].fd \in Fds /\ table[p][loc[p].fd] # NULL
      BY <1>0, <1>16, LocFields, FdsFacts DEF TypeOK, ForkLoad, ExitTest, Cur
    <2> QED BY <1>0, <1>16, <2>1, LoadTyped DEF ForkLoad, ExitTest, TypeOK, Steps
  <1>17. ASSUME NEW p \in Procs, ForkCount(p) PROVE TypeOK'
    <2>1. PICK n \in NewCounts(p, 1) : handle' = [handle EXCEPT ![Cur(p)].references = n]
      BY <1>17 DEF ForkCount
    <2>2. Cur(p) \in Handles /\ loc[p].fd < OpenMax
      BY <1>0, <1>17 DEF TypeOK, ForkCount, CallOK, Busy, Cur, Fds
    <2>3. n \in Int
      <3>1. handle[Cur(p)].references \in Int /\ loc[p].seen \in Int
        BY <1>0, <2>2, HandleFields, LocFields DEF TypeOK
      <3> QED BY <3>1 DEF NewCounts
    <2>4. [handle[Cur(p)] EXCEPT !.references = n] \in HandleRec
      BY <1>0, <2>2, <2>3, HandleFields DEF TypeOK
    <2>5. handle' = [handle EXCEPT ![Cur(p)] = [handle[Cur(p)] EXCEPT !.references = n]]
      BY <2>1
    <2> QED BY <1>0, <1>17, <2>2, <2>4, <2>5, StepTyped DEF ForkCount, TypeOK, Steps
  <1>18. ASSUME NEW p \in Procs, Skip(p) PROVE TypeOK'
    BY <1>0, <1>18, StepTyped DEF Skip, TypeOK
  <1>19. ASSUME NEW p \in Procs, ForkCopy(p) PROVE TypeOK'
    <2>1. loc[p].kid \in Procs /\ cwd[p] \in Vnodes \cup {NULL}
      BY <1>0, <1>19 DEF BaseInv, ForkInv, Forking, ForkCopy, TypeOK, Vnodes
    <2>2. vnode' \in [Vnodes -> [opencount: Int, refcount: Int]]
      BY <1>0, <1>19, <2>1, VnodeTyped DEF ForkCopy, TypeOK
    <2> QED BY <1>0, <1>19, <2>1, <2>2, ConstantRecs DEF ForkCopy, TypeOK, Steps
  <1>20. ASSUME NEW p \in Procs, thread_exit(p) PROVE TypeOK'
    <2>1. cwd[p] \in Vnodes \cup {NULL}
      BY <1>0 DEF TypeOK, Vnodes
    <2>2. vnode' \in [Vnodes -> [opencount: Int, refcount: Int]]
      BY <1>0, <1>20, <2>1, VnodeTyped DEF thread_exit, TypeOK
    <2>3. [loc[p] EXCEPT !.fd = 0, !.next = "exit"] \in LocRec
      <3>1. loc[p] \in LocRec
        BY <1>0, LocFields
      <3> QED BY <3>1, LocSet, FdsFacts
    <2>4. loc' = [loc EXCEPT ![p] = [loc[p] EXCEPT !.fd = 0, !.next = "exit"]]
      BY <1>0, <1>20 DEF TypeOK, thread_exit
    <2> QED BY <1>0, <1>20, <2>2, <2>3, <2>4 DEF thread_exit, TypeOK, Steps
  <1>21. ASSUME NEW p \in Procs, ExitDone(p) PROVE TypeOK'
    BY <1>0, <1>21, ConstantRecs DEF ExitDone, TypeOK, Steps
  <1>22. CASE UNCHANGED vars
    BY <1>0, <1>22 DEF vars, TypeOK
  <1> QED BY <1>1, <1>2, <1>3, <1>4, <1>5, <1>6, <1>7, <1>8, <1>9, <1>10, <1>11, <1>12, <1>13, <1>14,
             <1>15, <1>16, <1>17, <1>18, <1>19, <1>20, <1>21, <1>22 DEF Next

-----------------------------------------------------------------------------
(* BaseInv *)

\* A step of p leaves the other threads as they are.
Frame(p) == \A q \in Procs \ {p} : /\ table'[q] = table[q] /\ pc'[q] = pc[q]
                                   /\ loc'[q] = loc[q] /\ cwd'[q] = cwd[q]

LEMMA LocalBase ==
  ASSUME BaseInv, TypeOK', NEW p \in Procs, Frame(p), pc[p] # "embryo", CallOK(p)', IdleOK(p)',
         Forking(p)' => Forking(p) /\ loc'[p].kid = loc[p].kid
  PROVE  BaseInv'
  <1>1. ASSUME NEW q \in Procs PROVE CallOK(q)' /\ IdleOK(q)'
    <2>1. CASE q = p
      BY <2>1
    <2>2. CASE q # p
      BY <2>2 DEF BaseInv, Frame, CallOK, IdleOK, Busy, Duping, Leaving, Cur
    <2> QED BY <2>1, <2>2
  <1>2. ForkInv'
    BY DEF BaseInv, ForkInv, Forking, Frame
  <1> QED BY <1>1, <1>2 DEF BaseInv

LEMMA InitBase == Init => BaseInv
  <1> SUFFICES ASSUME Init PROVE BaseInv
    OBVIOUS
  <1>1. TypeOK
    BY TypeInit
  <1>2. ASSUME NEW p \in Procs PROVE CallOK(p) /\ IdleOK(p) /\ ~Forking(p)
    BY DEF Init, CallOK, IdleOK, Busy, Duping, Leaving, Forking
  <1> QED BY <1>1, <1>2 DEF BaseInv, ForkInv

LEMMA DroppedLocal ==
  ASSUME BaseInv, TypeOK', NEW p \in Procs, pc[p] = "drop", Dropped(p), cwd' = cwd
  PROVE  BaseInv'
  <1>0. TypeOK /\ CallOK(p) /\ IdleOK(p) /\ loc[p].fd \in Fds
    BY DEF BaseInv, CallOK, Busy
  <1>1. Frame(p)
    BY <1>0 DEF Frame, TypeOK, Dropped, Step, Return
  <1>2. CASE loc[p].next = "exit" /\ pc' = [pc EXCEPT ![p] = "exit"] /\ Step(p) /\ UNCHANGED table
    <2>1. pc'[p] = "exit" /\ loc'[p].next = "exit" /\ cwd'[p] = NULL
      BY <1>0, <1>2, LocFields DEF Step, TypeOK, LocRec, IdleOK, Leaving
    <2> QED BY <1>0, <1>1, <2>1, LocalBase DEF CallOK, IdleOK, Busy, Duping, Leaving, Forking
  <1>3. CASE loc[p].next = "dup" /\ pc' = [pc EXCEPT ![p] = "dup"]
             /\ table' = [table EXCEPT ![p][loc[p].fd] = NULL] /\ UNCHANGED loc
    <2>1. /\ pc'[p] = "dup" /\ loc'[p] = loc[p] /\ table'[p][loc[p].fd] = NULL
          /\ loc[p].fd # loc[p].to => table'[p][loc[p].to] = table[p][loc[p].to]
      BY <1>0, <1>3, LocFields DEF TypeOK
    <2> QED BY <1>0, <1>1, <1>3, <2>1, LocalBase DEF CallOK, IdleOK, Busy, Duping, Leaving, Forking, Cur
  <1>4. CASE Return(p)
    <2>1. pc'[p] = "user" /\ loc'[p] = NoCall
      BY <1>0, <1>4 DEF Return, TypeOK
    <2> QED BY <1>0, <1>1, <2>1, LocalBase DEF CallOK, IdleOK, Busy, Duping, Leaving, Forking
  <1> QED BY <1>2, <1>3, <1>4 DEF Dropped

LEMMA ReturnLocal ==
  ASSUME BaseInv, TypeOK', NEW p \in Procs, pc[p] # "embryo", Return(p), table' = table, cwd' = cwd
  PROVE  BaseInv'
  <1>1. Frame(p) /\ pc'[p] = "user" /\ loc'[p] = NoCall
    BY DEF Frame, BaseInv, TypeOK, Return
  <1> QED BY <1>1, LocalBase DEF CallOK, IdleOK, Busy, Duping, Leaving, Forking

LEMMA LoadEffect ==
  ASSUME TypeOK, NEW p \in Procs, NEW to, NEW l \in LocRec, LoadCount(p, to, l)
  PROVE  /\ pc'[p] = to
         /\ loc'[p].fd = l.fd /\ loc'[p].next = l.next /\ loc'[p].to = l.to /\ loc'[p].kid = l.kid
         /\ loc'[p].seen = handle[table[p][l.fd]].references
         /\ \A q \in Procs \ {p} : pc'[q] = pc[q] /\ loc'[q] = loc[q]
  <1>1. pc'[p] = to /\ loc'[p] = [l EXCEPT !.seen = handle[table[p][l.fd]].references]
    BY DEF LoadCount, TypeOK
  <1>2. \A q \in Procs \ {p} : pc'[q] = pc[q] /\ loc'[q] = loc[q]
    BY DEF LoadCount, TypeOK
  <1> QED BY <1>1, <1>2 DEF LocRec

LEMMA BaseStep == BaseInv /\ [Next]_vars => BaseInv'
  <1> SUFFICES ASSUME BaseInv, [Next]_vars PROVE BaseInv'
    OBVIOUS
  <1>t. TypeOK /\ TypeOK'
    BY TypeStep DEF BaseInv
  <1>0. ASSUME NEW p \in Procs PROVE CallOK(p) /\ IdleOK(p) /\ loc[p] \in LocRec
    BY <1>t, LocFields DEF BaseInv
  <1>1. ASSUME NEW p \in Procs, init_filetable(p) PROVE BaseInv'
    <2>1. Frame(p) /\ pc[p] = "menu" /\ pc'[p] = "user" /\ loc'[p] = loc[p]
      BY <1>1, <1>t DEF init_filetable, Frame, TypeOK
    <2> QED BY <1>0, <1>t, <2>1, LocalBase DEF CallOK, IdleOK, Busy, Duping, Leaving, Forking
  <1>2. ASSUME NEW p \in Procs, sys_open(p) \/ sys_chdir(p) \/ sys_open_StatFails(p) \/ sys_lseek(p) PROVE BaseInv'
    <2>1. Frame(p) /\ pc[p] = "user" /\ pc'[p] = "user" /\ loc'[p] = loc[p]
      BY <1>2, <1>t DEF sys_open, sys_chdir, sys_open_StatFails, sys_lseek, Frame, TypeOK
    <2> QED BY <1>0, <1>t, <2>1, LocalBase DEF CallOK, IdleOK, Busy, Duping, Leaving, Forking
  <1>3. ASSUME NEW p \in Procs, IoStart(p) PROVE BaseInv'
    <2>1. PICK fd \in Fds : table[p][fd] # NULL /\ loc' = [loc EXCEPT ![p].fd = fd, ![p].off = handle[table[p][fd]].offset]
      BY <1>3 DEF IoStart
    <2>2. loc'[p].fd = fd
      BY <1>t, <1>0, <2>1 DEF TypeOK, LocRec
    <2>3. Frame(p) /\ pc[p] = "user" /\ pc'[p] = "io" /\ table'[p] = table[p]
      BY <1>3, <1>t, <2>1 DEF IoStart, Frame, TypeOK
    <2> QED BY <1>0, <1>t, <2>1, <2>2, <2>3, LocalBase DEF CallOK, IdleOK, Busy, Duping, Leaving, Forking, Cur
  <1>4. ASSUME NEW p \in Procs, IoEnd(p) \/ sys_dup2_Count(p) PROVE BaseInv'
    BY <1>4, <1>t, ReturnLocal DEF IoEnd, sys_dup2_Count
  <1>5. ASSUME NEW p \in Procs, sys_close(p) PROVE BaseInv'
    <2>1. PICK fd \in Fds : table[p][fd] # NULL /\ LoadCount(p, "drop", [loc[p] EXCEPT !.fd = fd, !.next = "user"])
      BY <1>5 DEF sys_close
    <2> DEFINE l == [loc[p] EXCEPT !.fd = fd, !.next = "user"]
    <2>2. l \in LocRec /\ l.fd = fd /\ l.next = "user"
      <3>1. loc[p] \in LocRec
        BY <1>0
      <3>2. l.fd = fd /\ l.next = "user"
        BY <3>1 DEF LocRec
      <3> QED BY <3>1, <3>2, LocSet
    <2>a. LoadCount(p, "drop", l) /\ pc[p] = "user"
      BY <1>5, <2>1 DEF sys_close
    <2> HIDE DEF l
    <2>3. pc'[p] = "drop" /\ loc'[p].fd = fd /\ loc'[p].next = "user" /\ pc[p] = "user"
          /\ \A q \in Procs \ {p} : pc'[q] = pc[q] /\ loc'[q] = loc[q]
      BY <1>t, <2>a, <2>2, LoadEffect
    <2>4. Frame(p) /\ table' = table
      BY <1>5, <2>3 DEF sys_close, Frame
    <2> QED BY <1>0, <1>t, <2>1, <2>3, <2>4, LocalBase DEF CallOK, IdleOK, Busy, Duping, Leaving, Forking, Cur
  <1>6. ASSUME NEW p \in Procs, DropCounted(p) \/ DropLast(p) PROVE BaseInv'
    BY <1>6, <1>t, DroppedLocal DEF DropCounted, DropLast
  <1>7. ASSUME NEW p \in Procs, sys_dup2(p) PROVE BaseInv'
    <2>1. PICK old \in Fds, new \in Fds :
            /\ old # new /\ table[p][old] # NULL
            /\ IF table[p][new] # NULL
               THEN LoadCount(p, "drop", [loc[p] EXCEPT !.fd = new, !.to = old, !.next = "dup"])
               ELSE /\ loc' = [loc EXCEPT ![p].fd = new, ![p].to = old]
                    /\ pc' = [pc EXCEPT ![p] = "dup"]
                    /\ UNCHANGED raced
      BY <1>7 DEF sys_dup2
    <2>2. PICK l \in LocRec : /\ l = [loc[p] EXCEPT !.fd = new, !.to = old, !.next = "dup"]
                              /\ l.fd = new /\ l.to = old /\ l.next = "dup"
      <3> DEFINE m == [loc[p] EXCEPT !.fd = new, !.to = old, !.next = "dup"]
      <3>1. loc[p] \in LocRec
        BY <1>0
      <3>2. m.fd = new /\ m.to = old /\ m.next = "dup"
        BY <3>1 DEF LocRec
      <3>3. m \in LocRec
        BY <3>1, LocSet
      <3> HIDE DEF m
      <3> QED BY <3>2, <3>3 DEF m
    <2>0. pc[p] = "user" /\ table' = table /\ cwd' = cwd
      BY <1>7 DEF sys_dup2
    <2>3. CASE table[p][new] # NULL
      <3>1. LoadCount(p, "drop", l)
        BY <2>1, <2>2, <2>3
      <3>2. pc'[p] = "drop" /\ loc'[p].fd = new /\ loc'[p].to = old /\ loc'[p].next = "dup"
            /\ \A q \in Procs \ {p} : pc'[q] = pc[q] /\ loc'[q] = loc[q]
        <4>1. l \in LocRec /\ l.fd = new /\ l.to = old /\ l.next = "dup"
          BY <2>2
        <4>2. /\ pc'[p] = "drop" /\ loc'[p].fd = l.fd /\ loc'[p].next = l.next /\ loc'[p].to = l.to
              /\ \A q \in Procs \ {p} : pc'[q] = pc[q] /\ loc'[q] = loc[q]
          BY <1>t, <3>1, LoadEffect
        <4> QED BY <4>1, <4>2
      <3> QED BY <1>0, <1>t, <2>0, <2>1, <2>3, <3>2, LocalBase
              DEF CallOK, IdleOK, Busy, Duping, Leaving, Forking, Cur, Frame
    <2>4. CASE table[p][new] = NULL
      <3>1. pc'[p] = "dup" /\ loc'[p].fd = new /\ loc'[p].to = old
            /\ \A q \in Procs \ {p} : pc'[q] = pc[q] /\ loc'[q] = loc[q]
        BY <1>0, <1>t, <2>1, <2>4 DEF TypeOK, LocRec
      <3> QED BY <1>0, <1>t, <2>0, <2>1, <2>4, <3>1, LocalBase
              DEF CallOK, IdleOK, Busy, Duping, Leaving, Forking, Cur, Frame
    <2> QED BY <2>3, <2>4
  <1>8. ASSUME NEW p \in Procs, sys_dup2_Assign(p) PROVE BaseInv'
    <2>1. loc[p].to \in Fds /\ loc[p].fd \in Fds /\ loc[p].fd # loc[p].to /\ table[p][loc[p].to] # NULL
      BY <1>0, <1>t, <1>8, LocFields DEF CallOK, Duping, sys_dup2_Assign
    <2>2. /\ pc[p] = "dup" /\ pc'[p] = "dup_lock" /\ loc' = loc
          /\ table'[p][loc[p].fd] = table[p][loc[p].to] /\ table'[p][loc[p].to] = table[p][loc[p].to]
          /\ Frame(p)
      BY <1>8, <1>t, <2>1 DEF sys_dup2_Assign, TypeOK, Frame
    <2> QED BY <1>0, <1>t, <2>1, <2>2, LocalBase DEF CallOK, IdleOK, Busy, Duping, Leaving, Forking, Cur
  <1>9. ASSUME NEW p \in Procs, sys_dup2_Lock(p) \/ ForkLoad(p) \/ ExitTest(p) PROVE BaseInv'
    <2>1. PICK to \in {"dup_inc", "fork_inc", "drop"} :
            /\ LoadCount(p, to, loc[p])
            /\ \/ to = "dup_inc" /\ pc[p] = "dup_lock"
               \/ to = "fork_inc" /\ pc[p] = "fork"
               \/ to = "drop" /\ pc[p] = "exit"
            /\ loc[p].fd \in Fds /\ Cur(p) # NULL
      BY <1>0, <1>9, <1>t, LocFields, FdsFacts DEF sys_dup2_Lock, ForkLoad, ExitTest, CallOK, Busy
    <2>2. /\ pc'[p] = to /\ loc'[p].fd = loc[p].fd /\ loc'[p].next = loc[p].next /\ loc'[p].to = loc[p].to
          /\ loc'[p].kid = loc[p].kid
          /\ \A q \in Procs \ {p} : pc'[q] = pc[q] /\ loc'[q] = loc[q]
      BY <1>0, <1>t, <2>1, LoadEffect
    <2>3. table' = table /\ cwd' = cwd
      BY <1>9 DEF sys_dup2_Lock, ForkLoad, ExitTest
    <2> QED BY <1>0, <1>t, <2>1, <2>2, <2>3, LocalBase DEF CallOK, IdleOK, Busy, Duping, Leaving, Forking, Cur, Frame
  <1>10. ASSUME NEW p \in Procs, ForkCount(p) \/ Skip(p) PROVE BaseInv'
    <2>1. /\ loc'[p].next = loc[p].next /\ loc'[p].kid = loc[p].kid
          /\ \A q \in Procs \ {p} : loc'[q] = loc[q]
      BY <1>0, <1>t, <1>10 DEF ForkCount, Skip, Step, TypeOK, LocRec
    <2>2. \/ pc[p] = "fork_inc" /\ pc'[p] = "fork"
          \/ pc[p] \in {"fork", "exit"} /\ pc'[p] = pc[p]
      BY <1>10, <1>t DEF ForkCount, Skip, TypeOK
    <2>3. table' = table /\ cwd' = cwd /\ \A q \in Procs \ {p} : pc'[q] = pc[q]
      BY <1>10, <1>t DEF ForkCount, Skip, TypeOK
    <2> QED BY <1>0, <1>t, <2>1, <2>2, <2>3, LocalBase DEF CallOK, IdleOK, Busy, Duping, Leaving, Forking, Cur, Frame
  <1>11. ASSUME NEW p \in Procs, thread_fork(p) PROVE BaseInv'
    <2>1. PICK k \in Procs : /\ pc[k] = "unborn"
                             /\ pc' = [pc EXCEPT ![p] = "fork", ![k] = "embryo"]
                             /\ loc' = [loc EXCEPT ![p].fd = 0, ![p].kid = k]
      BY <1>11 DEF thread_fork
    <2>2. pc[p] = "user" /\ table' = table /\ cwd' = cwd /\ k # p
      BY <1>11, <2>1 DEF thread_fork
    <2>3. /\ pc'[p] = "fork" /\ pc'[k] = "embryo" /\ loc'[p].kid = k
          /\ \A q \in Procs : q # p => loc'[q] = loc[q] /\ (q # k => pc'[q] = pc[q])
      BY <1>t, <1>0, <2>1, <2>2 DEF TypeOK, LocRec
    <2>4. ASSUME NEW q \in Procs PROVE CallOK(q)' /\ IdleOK(q)'
      <3>1. CASE q = p
        BY <2>3, <3>1 DEF CallOK, IdleOK, Busy, Duping, Leaving
      <3>2. CASE q = k
        BY <1>0, <2>1, <2>2, <2>3, <3>2 DEF CallOK, IdleOK, Busy, Duping, Leaving
      <3>3. CASE q # p /\ q # k
        BY <1>0, <2>2, <2>3, <3>3 DEF CallOK, IdleOK, Busy, Duping, Leaving, Cur
      <3> QED BY <3>1, <3>2, <3>3
    <2>5. ASSUME NEW q \in Procs, Forking(q)', q # p
          PROVE  Forking(q) /\ loc'[q].kid \in Procs /\ loc'[q].kid # k /\ pc'[loc'[q].kid] = "embryo"
      <3>1. loc'[q] = loc[q] /\ q # k /\ pc'[q] = pc[q] /\ Forking(q)
        BY <2>3, <2>5 DEF Forking
      <3>2. loc[q].kid \in Procs /\ pc[loc[q].kid] = "embryo"
        BY <3>1 DEF BaseInv, ForkInv
      <3> QED BY <2>1, <2>2, <2>3, <3>1, <3>2
    <2>6. ForkInv'
      BY <2>2, <2>3, <2>5 DEF BaseInv, ForkInv
    <2> QED BY <1>t, <2>4, <2>6 DEF BaseInv
  <1>12. ASSUME NEW p \in Procs, ForkCopy(p) PROVE BaseInv'
    <2> DEFINE k == loc[p].kid
    <2>1. /\ k \in Procs /\ pc[k] = "embryo" /\ pc[p] = "fork"
          /\ \A q \in Procs : Forking(q) /\ q # p => loc[q].kid # k
      BY <1>12 DEF BaseInv, ForkInv, Forking, ForkCopy
    <2>2. /\ pc' = [pc EXCEPT ![p] = "user", ![k] = "user"] /\ loc' = [loc EXCEPT ![p] = NoCall]
          /\ table' = [table EXCEPT ![k] = table[p]] /\ cwd' = [cwd EXCEPT ![k] = cwd[p]]
      BY <1>12 DEF ForkCopy
    <2> HIDE DEF k
    <2>3. /\ pc'[p] = "user" /\ pc'[k] = "user" /\ loc'[p] = NoCall
          /\ \A q \in Procs : /\ q # p => loc'[q] = loc[q]
                              /\ q # k => table'[q] = table[q] /\ cwd'[q] = cwd[q]
                              /\ q # k /\ q # p => pc'[q] = pc[q]
      BY <1>t, <2>1, <2>2 DEF TypeOK
    <2>4. ASSUME NEW q \in Procs PROVE CallOK(q)' /\ IdleOK(q)'
      <3>1. CASE q = p
        BY <2>3, <3>1 DEF CallOK, IdleOK, Busy, Duping, Leaving
      <3>2. CASE q = k
        BY <1>0, <2>1, <2>3, <3>2 DEF CallOK, IdleOK, Busy, Duping, Leaving
      <3>3. CASE q # p /\ q # k
        BY <1>0, <2>3, <3>3 DEF CallOK, IdleOK, Busy, Duping, Leaving, Cur
      <3> QED BY <3>1, <3>2, <3>3
    <2>5. ForkInv'
      BY <2>1, <2>3 DEF BaseInv, ForkInv, Forking, k
    <2> QED BY <1>t, <2>4, <2>5 DEF BaseInv
  <1>13. ASSUME NEW p \in Procs, thread_exit(p) PROVE BaseInv'
    <2>1. pc[p] = "user" /\ pc'[p] = "exit" /\ loc'[p].next = "exit" /\ cwd'[p] = NULL /\ Frame(p)
      BY <1>0, <1>t, <1>13 DEF thread_exit, TypeOK, LocRec, Frame
    <2> QED BY <1>0, <1>t, <2>1, LocalBase DEF CallOK, IdleOK, Busy, Duping, Leaving, Forking
  <1>14. ASSUME NEW p \in Procs, ExitDone(p) PROVE BaseInv'
    <2>1. pc[p] = "exit" /\ pc'[p] = "unborn" /\ loc'[p] = NoCall /\ table'[p] = NoFiles /\ cwd'[p] = cwd[p] /\ Frame(p)
      BY <1>t, <1>14 DEF ExitDone, TypeOK, Frame
    <2> QED BY <1>0, <1>t, <2>1, LocalBase DEF CallOK, IdleOK, Busy, Duping, Leaving, Forking
  <1>15. CASE UNCHANGED vars
    <2>1. ASSUME NEW q \in Procs PROVE CallOK(q)' /\ IdleOK(q)'
      BY <1>0, <1>15 DEF vars, CallOK, IdleOK, Busy, Duping, Leaving, Cur
    <2> QED BY <1>t, <1>15, <2>1 DEF vars, BaseInv, ForkInv, Forking
  <1> QED BY <1>1, <1>2, <1>3, <1>4, <1>5, <1>6, <1>7, <1>8, <1>9, <1>10, <1>11, <1>12, <1>13, <1>14, <1>15 DEF Next

-----------------------------------------------------------------------------
(* References *)

LEMMA RefsFinite ==
  ASSUME NEW h
  PROVE  /\ IsFiniteSet(References(h)) /\ Cardinality(References(h)) \in Nat
         /\ References(h) \subseteq Procs \X Fds
         /\ \A q \in Procs, fd \in Fds : <<q, fd>> \in References(h) <=> Ref(q, fd, h)
  <1>1. References(h) \subseteq Procs \X Fds
    BY DEF References
  <1>2. IsFiniteSet(Fds)
    BY FS_Interval, FileTableAssumption DEF Fds
  <1>3. IsFiniteSet(References(h))
    BY <1>1, <1>2, FS_Product, FS_Subset, FileTableAssumption
  <1>4. \A q \in Procs, fd \in Fds : <<q, fd>> \in References(h) <=> Ref(q, fd, h)
    BY DEF References, Ref
  <1> QED BY <1>1, <1>3, <1>4, FS_CardinalityType

\* Only a thread in fork's hands has references through its parent.
LEMMA OnlyOwn ==
  ASSUME BaseInv, NEW p \in Procs, pc[p] # "embryo", NEW fd, NEW h
  PROVE  Ref(p, fd, h) <=> OwnRef(p, fd, h)
  BY DEF BaseInv, ForkInv, Forking, Ref, ChildRef

LEMMA OnlyChild ==
  ASSUME BaseInv, NEW p \in Procs, Forking(p), NEW fd \in Fds, NEW h \in Handles
  PROVE  Ref(loc[p].kid, fd, h) <=> (fd < loc[p].fd /\ table[p][fd] = h)
  <1> DEFINE k == loc[p].kid
  <1>1. k \in Procs /\ pc[k] = "embryo" /\ table[k] = NoFiles
    BY DEF BaseInv, ForkInv, IdleOK
  <1>2. ~OwnRef(k, fd, h)
    BY <1>1, FileTableAssumption DEF OwnRef, NoFiles
  <1>3. ChildRef(k, fd, h) <=> (fd < loc[p].fd /\ table[p][fd] = h)
    BY DEF ChildRef, BaseInv, ForkInv, Forking
  <1> QED BY <1>2, <1>3 DEF Ref

\* A step of p, and of the child k it makes, leaves the references of the
\* others.
LEMMA OthersRefs ==
  ASSUME NEW p \in Procs, NEW k \in Procs,
         \A q \in Procs \ {p, k} : table'[q] = table[q] /\ pc'[q] = pc[q] /\ loc'[q] = loc[q],
         Forking(p) => loc[p].kid = k, (Forking(p) => loc[p].kid = k)',
         k # p => ~Forking(k) /\ ~Forking(k)',
         NEW q \in Procs \ {p, k}, NEW fd \in Fds, NEW h
  PROVE  Ref(q, fd, h)' <=> Ref(q, fd, h)
  <1>1. OwnRef(q, fd, h)' <=> OwnRef(q, fd, h)
    BY DEF OwnRef, Held
  <1>2. ASSUME NEW r \in Procs, Forking(r) \/ Forking(r)', (loc[r].kid = q /\ Forking(r)) \/ (loc[r].kid = q /\ Forking(r))' PROVE r \notin {p, k}
    BY <1>2
  <1>3. ChildRef(q, fd, h)' <=> ChildRef(q, fd, h)
    BY <1>2 DEF ChildRef, Forking
  <1> QED BY <1>1, <1>3 DEF Ref

\* A step of p alone.
LEMMA LocalRefs ==
  ASSUME BaseInv, BaseInv', NEW p \in Procs, pc[p] # "embryo", pc'[p] # "embryo", Frame(p),
         ~Forking(p), ~Forking(p)', NEW q \in Procs, NEW fd \in Fds, NEW h
  PROVE  /\ q # p => (Ref(q, fd, h)' <=> Ref(q, fd, h))
         /\ q = p => (Ref(q, fd, h)' <=> OwnRef(p, fd, h)') /\ (Ref(q, fd, h) <=> OwnRef(p, fd, h))
  <1>1. CASE q # p
    <2>1. \A r \in Procs \ {p, p} : table'[r] = table[r] /\ pc'[r] = pc[r] /\ loc'[r] = loc[r]
      BY DEF Frame
    <2>2. q \in Procs \ {p, p}
      BY <1>1
    <2> QED BY <1>1, <2>1, <2>2, OthersRefs
  <1>2. CASE q = p
    <2>1. Ref(p, fd, h) <=> OwnRef(p, fd, h)
      BY OnlyOwn
    <2>2. (Ref(p, fd, h) <=> OwnRef(p, fd, h))'
      BY DEF BaseInv, ForkInv, Forking, Ref, ChildRef
    <2> QED BY <1>2, <2>1, <2>2
  <1> QED BY <1>1, <1>2

\* The references as sets, from what is known of each.
LEMMA SameRefs ==
  ASSUME NEW h, \A q \in Procs, fd \in Fds : Ref(q, fd, h)' <=> Ref(q, fd, h)
  PROVE  References(h)' = References(h)
  BY DEF References, Ref

LEMMA OneMoreRef ==
  ASSUME NEW h, NEW p \in Procs, NEW f \in Fds, ~Ref(p, f, h),
         \A q \in Procs, fd \in Fds : Ref(q, fd, h)' <=> (Ref(q, fd, h) \/ (q = p /\ fd = f))
  PROVE  References(h)' = References(h) \cup {<<p, f>>} /\ Cardinality(References(h)') = Cardinality(References(h)) + 1
  <1>1. References(h)' = References(h) \cup {<<p, f>>}
    BY DEF References, Ref
  <1>2. <<p, f>> \notin References(h)
    BY DEF References, Ref
  <1> QED BY <1>1, <1>2, RefsFinite, FS_AddElement

LEMMA OneLessRef ==
  ASSUME NEW h, NEW p \in Procs, NEW f \in Fds, Ref(p, f, h),
         \A q \in Procs, fd \in Fds : Ref(q, fd, h)' <=> (Ref(q, fd, h) /\ ~(q = p /\ fd = f))
  PROVE  References(h)' = References(h) \ {<<p, f>>} /\ Cardinality(References(h)') = Cardinality(References(h)) - 1
  <1>1. References(h)' = References(h) \ {<<p, f>>}
    BY DEF References, Ref
  <1>2. <<p, f>> \in References(h)
    BY DEF References, Ref
  <1> QED BY <1>1, <1>2, RefsFinite, FS_RemoveElement

\* A thread that holds a descriptor on h has a reference that is counted.
LEMMA HeldCounted ==
  ASSUME BaseInv, NEW p \in Procs, NEW fd \in Held(p)
  PROVE  table[p][fd] \in Handles /\ \E f \in Fds : Ref(p, f, table[p][fd])
  <1>1. fd \in Fds /\ table[p][fd] # NULL /\ TypeOK /\ CallOK(p)
    BY DEF Held, BaseInv
  <1>2. table[p][fd] \in Handles
    BY <1>1 DEF TypeOK
  <1>3. CASE ~(pc[p] \in {"dup_lock", "dup_inc"} /\ fd = loc[p].fd)
    BY <1>1, <1>2, <1>3 DEF Ref, OwnRef
  <1>4. CASE pc[p] \in {"dup_lock", "dup_inc"} /\ fd = loc[p].fd
    <2>1. loc[p].to \in Fds /\ loc[p].to # fd /\ table[p][loc[p].to] = table[p][fd]
      BY <1>1, <1>4, LocFields DEF CallOK, Duping, Cur
    <2>2. OwnRef(p, loc[p].to, table[p][fd])
      BY <1>1, <1>4, <2>1 DEF OwnRef, Held
    <2> QED BY <1>2, <2>1, <2>2 DEF Ref
  <1> QED BY <1>2, <1>3, <1>4

LEMMA HeldLive ==
  ASSUME BaseInv, Exact, NEW p \in Procs, NEW fd \in Held(p)
  PROVE  table[p][fd] \in Handles /\ handle[table[p][fd]].live
  <1>1. PICK f \in Fds : Ref(p, f, table[p][fd]) /\ table[p][fd] \in Handles
    BY HeldCounted
  <1>2. <<p, f>> \in References(table[p][fd])
    BY <1>1, RefsFinite
  <1> QED BY <1>1, <1>2 DEF Exact

\* The descriptor a call works on is held.
LEMMA BusyHeld ==
  ASSUME BaseInv, NEW p \in Procs, Busy(p)
  PROVE  loc[p].fd \in Held(p) /\ loc[p].fd \in Fds /\ Cur(p) \in Handles
  <1>1. TypeOK /\ loc[p].fd \in Fds /\ Cur(p) # NULL
    BY DEF BaseInv, CallOK
  <1>2. loc[p].fd >= loc[p].fd
    BY <1>1, FdsFacts
  <1> QED BY <1>1, <1>2 DEF Held, Cur, TypeOK

LEMMA BusyLive ==
  ASSUME BaseInv, Exact, NEW p \in Procs, Busy(p)
  PROVE  Cur(p) \in Handles /\ handle[Cur(p)].live
  BY BusyHeld, HeldLive DEF Cur

LEMMA UserHeld ==
  ASSUME BaseInv, Exact, NEW p \in Procs, pc[p] = "user", NEW fd \in Fds, table[p][fd] # NULL
  PROVE  table[p][fd] \in Handles /\ handle[table[p][fd]].live
  <1>1. fd \in Held(p)
    BY DEF Held
  <1> QED BY <1>1, HeldLive

\* When a close finds the count at one, nobody else refers to the handle.
LEMMA LastOne ==
  ASSUME BaseInv, Exact, NEW p \in Procs, pc[p] = "drop", handle[Cur(p)].references =< 1
  PROVE  References(Cur(p)) = {<<p, loc[p].fd>>}
  <1> DEFINE h == Cur(p)
             x == <<p, loc[p].fd>>
  <1>1. h \in Handles /\ handle[h].live /\ loc[p].fd \in Held(p) /\ loc[p].fd \in Fds
    BY BusyHeld, BusyLive DEF Busy
  <1>2. OwnRef(p, loc[p].fd, h)
    BY <1>1 DEF OwnRef, Cur
  <1>3. x \in References(h)
    BY <1>1, <1>2, RefsFinite DEF Ref
  <1>4. Cardinality(References(h)) =< 1
    BY <1>1 DEF Exact
  <1> HIDE DEF x, h
  <1>5. IsFiniteSet(References(h) \ {x}) /\ Cardinality(References(h) \ {x}) = Cardinality(References(h)) - 1
    BY <1>3, RefsFinite, FS_RemoveElement
  <1>6. Cardinality(References(h) \ {x}) \in Nat
    BY <1>5, FS_CardinalityType
  <1>7. Cardinality(References(h) \ {x}) = 0
    BY <1>4, <1>5, <1>6, RefsFinite
  <1>8. References(h) \ {x} = {}
    BY <1>5, <1>7, FS_EmptySet
  <1> QED BY <1>3, <1>8 DEF h, x

LEMMA NobodyElse ==
  ASSUME BaseInv, Exact, NEW p \in Procs, pc[p] = "drop", handle[Cur(p)].references =< 1,
         NEW q \in Procs, q # p, Busy(q)
  PROVE  Cur(q) # Cur(p)
  <1>1. SUFFICES ASSUME Cur(q) = Cur(p) PROVE FALSE
    OBVIOUS
  <1>2. PICK f \in Fds : Ref(q, f, Cur(q))
    BY BusyHeld, HeldCounted DEF Cur
  <1>3. <<q, f>> \in References(Cur(p))
    BY <1>1, <1>2, RefsFinite
  <1> QED BY <1>3, LastOne

-----------------------------------------------------------------------------
(* What each step does to the handles and to the references *)

\* A step leaves what counts of every handle, and every reference.
SameHandles == \A h \in Handles : /\ handle'[h].live = handle[h].live
                                  /\ handle'[h].references = handle[h].references
                                  /\ handle'[h].vnode = handle[h].vnode

SameReferences == \A h \in Handles : References(h)' = References(h)

LEMMA ExactKept == ASSUME Exact, SameHandles, SameReferences PROVE Exact'
  BY DEF Exact, SameHandles, SameReferences

LEMMA LocalSame ==
  ASSUME BaseInv, BaseInv', NEW p \in Procs, pc[p] # "embryo", pc'[p] # "embryo", Frame(p),
         ~Forking(p), ~Forking(p)',
         \A fd \in Fds, h \in Handles : OwnRef(p, fd, h)' <=> OwnRef(p, fd, h)
  PROVE  SameReferences
  <1> SUFFICES ASSUME NEW h \in Handles PROVE References(h)' = References(h)
    BY DEF SameReferences
  <1>1. \A q \in Procs, fd \in Fds : Ref(q, fd, h)' <=> Ref(q, fd, h)
    BY LocalRefs
  <1> QED BY <1>1, SameRefs

LEMMA OwnRefIs ==
  ASSUME NEW p \in Procs, NEW fd \in Fds, NEW h \in Handles
  PROVE  OwnRef(p, fd, h) <=> /\ table[p][fd] = h
                              /\ Leaving(p) => fd >= loc[p].fd
                              /\ ~(pc[p] \in {"dup_lock", "dup_inc"} /\ fd = loc[p].fd)
  BY FileTableAssumption DEF OwnRef, Held, Leaving

LEMMA OwnRefIsNext ==
  ASSUME NEW p \in Procs, NEW fd \in Fds, NEW h \in Handles
  PROVE  OwnRef(p, fd, h)' <=> /\ table'[p][fd] = h
                               /\ Leaving(p)' => fd >= loc'[p].fd
                               /\ ~(pc'[p] \in {"dup_lock", "dup_inc"} /\ fd = loc'[p].fd)
  BY FileTableAssumption DEF OwnRef, Held, Leaving

\* Calls that only go from one place to the next.
LEMMA QuietRefs ==
  ASSUME BaseInv, BaseInv', NEW p \in Procs, NEW from, NEW to, Frame(p), pc[p] = from, pc'[p] = to,
         from \in {"user", "io", "dup"}, to \in {"user", "io", "dup"} \/ (to = "drop" /\ loc'[p].next # "exit"),
         table'[p] = table[p]
  PROVE  SameReferences
  BY LocalSame, OwnRefIs, OwnRefIsNext DEF Forking, Leaving

LEMMA QuietStep ==
  ASSUME BaseInv, BaseInv', NEW p \in Procs,
         \/ sys_open_StatFails(p) \/ sys_chdir(p) \/ sys_lseek(p) \/ IoStart(p) \/ IoEnd(p)
         \/ sys_close(p) \/ sys_dup2(p)
  PROVE  SameReferences /\ Frame(p)
  <1>t. TypeOK /\ loc[p] \in LocRec
    BY LocFields DEF BaseInv
  <1>1. CASE sys_open_StatFails(p) \/ sys_chdir(p) \/ sys_lseek(p)
    <2>1. Frame(p) /\ pc[p] = "user" /\ pc'[p] = "user" /\ table'[p] = table[p]
      BY <1>t, <1>1 DEF sys_open_StatFails, sys_chdir, sys_lseek, Frame, TypeOK
    <2> QED BY <2>1, QuietRefs
  <1>2. CASE IoStart(p)
    <2>1. Frame(p) /\ pc[p] = "user" /\ pc'[p] = "io" /\ table'[p] = table[p]
      BY <1>t, <1>2 DEF IoStart, Frame, TypeOK
    <2> QED BY <2>1, QuietRefs
  <1>3. CASE IoEnd(p)
    <2>1. Frame(p) /\ pc[p] = "io" /\ pc'[p] = "user" /\ table'[p] = table[p]
      BY <1>t, <1>3 DEF IoEnd, Return, Frame, TypeOK
    <2> QED BY <2>1, QuietRefs
  <1>4. CASE sys_close(p)
    <2>1. PICK fd \in Fds : LoadCount(p, "drop", [loc[p] EXCEPT !.fd = fd, !.next = "user"])
      BY <1>4 DEF sys_close
    <2>2. PICK l \in LocRec : l = [loc[p] EXCEPT !.fd = fd, !.next = "user"] /\ l.next = "user"
      <3> DEFINE m == [loc[p] EXCEPT !.fd = fd, !.next = "user"]
      <3>1. m.next = "user" /\ m \in LocRec
        BY <1>t, LocSet DEF LocRec
      <3> QED BY <3>1
    <2>3. LoadCount(p, "drop", l)
      BY <2>1, <2>2
    <2>4. /\ pc'[p] = "drop" /\ loc'[p].next = l.next
          /\ \A q \in Procs \ {p} : pc'[q] = pc[q] /\ loc'[q] = loc[q]
      <3>1. TypeOK /\ l \in LocRec
        BY <1>t
      <3> QED BY <3>1, <2>3, LoadEffect
    <2>5. Frame(p) /\ pc[p] = "user" /\ loc'[p].next # "exit" /\ table'[p] = table[p]
      BY <1>4, <2>2, <2>4 DEF sys_close, Frame
    <2> QED BY <2>4, <2>5, QuietRefs
  <1>5. CASE sys_dup2(p)
    <2>1. PICK old \in Fds, new \in Fds :
            IF table[p][new] # NULL
            THEN LoadCount(p, "drop", [loc[p] EXCEPT !.fd = new, !.to = old, !.next = "dup"])
            ELSE /\ loc' = [loc EXCEPT ![p].fd = new, ![p].to = old]
                 /\ pc' = [pc EXCEPT ![p] = "dup"]
      BY <1>5 DEF sys_dup2
    <2>2. PICK l \in LocRec : l = [loc[p] EXCEPT !.fd = new, !.to = old, !.next = "dup"] /\ l.next = "dup"
      <3> DEFINE m == [loc[p] EXCEPT !.fd = new, !.to = old, !.next = "dup"]
      <3>1. m.next = "dup" /\ m \in LocRec
        BY <1>t, LocSet DEF LocRec
      <3> QED BY <3>1
    <2>0. pc[p] = "user" /\ table' = table /\ cwd' = cwd
      BY <1>5 DEF sys_dup2
    <2>3. CASE table[p][new] # NULL
      <3>1. LoadCount(p, "drop", l)
        BY <2>1, <2>2, <2>3
      <3>2. /\ pc'[p] = "drop" /\ loc'[p].next = l.next
            /\ \A q \in Procs \ {p} : pc'[q] = pc[q] /\ loc'[q] = loc[q]
        <4>1. TypeOK /\ l \in LocRec
          BY <1>t
        <4> QED BY <4>1, <3>1, LoadEffect
      <3>3. Frame(p) /\ loc'[p].next # "exit"
        BY <2>0, <2>2, <3>2 DEF Frame
      <3> QED BY <2>0, <3>2, <3>3, QuietRefs
    <2>4. CASE table[p][new] = NULL
      <3>1. pc'[p] = "dup" /\ Frame(p)
        BY <1>t, <2>0, <2>1, <2>4 DEF TypeOK, Frame
      <3> QED BY <2>0, <3>1, QuietRefs
    <2> QED BY <2>3, <2>4
  <1> QED BY <1>1, <1>2, <1>3, <1>4, <1>5

LEMMA QuietStep2 ==
  ASSUME BaseInv, BaseInv', NEW p \in Procs,
         \/ sys_dup2_Assign(p) \/ sys_dup2_Lock(p) \/ thread_exit(p) \/ ExitTest(p) \/ ExitDone(p)
  PROVE  SameReferences /\ Frame(p)
  <1>t. TypeOK /\ loc[p] \in LocRec /\ loc[p].fd \in 0 .. OpenMax /\ CallOK(p)
    BY LocFields DEF BaseInv
  <1>1. CASE sys_dup2_Assign(p)
    <2>1. loc[p].to \in Fds /\ loc[p].fd \in Fds /\ loc[p].fd # loc[p].to /\ Cur(p) = NULL
      BY <1>1, <1>t, LocFields DEF CallOK, Duping, sys_dup2_Assign
    <2>2. /\ pc[p] = "dup" /\ pc'[p] = "dup_lock" /\ loc' = loc
          /\ \A fd \in Fds : fd # loc[p].fd => table'[p][fd] = table[p][fd]
          /\ Frame(p)
      BY <1>1, <1>t, <2>1 DEF sys_dup2_Assign, TypeOK, Frame
    <2>3. ASSUME NEW fd \in Fds, NEW h \in Handles PROVE OwnRef(p, fd, h)' <=> OwnRef(p, fd, h)
      BY <2>1, <2>2, OwnRefIs, OwnRefIsNext, FileTableAssumption DEF Leaving, Cur
    <2> QED BY <2>2, <2>3, LocalSame DEF Forking
  <1>2. CASE sys_dup2_Lock(p)
    <2>1. pc[p] = "dup_lock" /\ pc'[p] = "dup_inc" /\ loc'[p].fd = loc[p].fd /\ table' = table /\ Frame(p)
      BY <1>2, <1>t, LoadEffect DEF sys_dup2_Lock, Frame
    <2>2. ASSUME NEW fd \in Fds, NEW h \in Handles PROVE OwnRef(p, fd, h)' <=> OwnRef(p, fd, h)
      BY <2>1, OwnRefIs, OwnRefIsNext DEF Leaving
    <2> QED BY <2>1, <2>2, LocalSame DEF Forking
  <1>3. CASE thread_exit(p)
    <2>1. pc[p] = "user" /\ pc'[p] = "exit" /\ loc'[p].fd = 0 /\ table' = table /\ Frame(p)
      BY <1>t, <1>3 DEF thread_exit, TypeOK, LocRec, Frame
    <2>2. ASSUME NEW fd \in Fds, NEW h \in Handles PROVE OwnRef(p, fd, h)' <=> OwnRef(p, fd, h)
      BY <2>1, OwnRefIs, OwnRefIsNext, FdsFacts DEF Leaving
    <2> QED BY <2>1, <2>2, LocalSame DEF Forking
  <1>4. CASE ExitTest(p)
    <2>1. pc[p] = "exit" /\ pc'[p] = "drop" /\ loc'[p].fd = loc[p].fd /\ loc'[p].next = "exit" /\ table' = table /\ Frame(p)
      BY <1>4, <1>t, LoadEffect DEF ExitTest, Frame, CallOK
    <2>2. ASSUME NEW fd \in Fds, NEW h \in Handles PROVE OwnRef(p, fd, h)' <=> OwnRef(p, fd, h)
      BY <2>1, OwnRefIs, OwnRefIsNext DEF Leaving
    <2> QED BY <2>1, <2>2, LocalSame DEF Forking
  <1>5. CASE ExitDone(p)
    <2>1. pc[p] = "exit" /\ loc[p].fd = OpenMax /\ pc'[p] = "unborn" /\ table'[p] = NoFiles /\ Frame(p)
      BY <1>t, <1>5 DEF ExitDone, TypeOK, Frame
    <2>2. ASSUME NEW fd \in Fds, NEW h \in Handles PROVE ~OwnRef(p, fd, h)' /\ ~OwnRef(p, fd, h)
      BY <2>1, OwnRefIs, OwnRefIsNext, FileTableAssumption DEF Leaving, Fds, NoFiles
    <2> QED BY <2>1, <2>2, LocalSame DEF Forking
  <1> QED BY <1>1, <1>2, <1>3, <1>4, <1>5

LEMMA OnlyOwnNext ==
  ASSUME BaseInv', NEW p \in Procs, pc'[p] # "embryo", NEW fd, NEW h
  PROVE  Ref(p, fd, h)' <=> OwnRef(p, fd, h)'
  BY DEF BaseInv, ForkInv, Forking, Ref, ChildRef

LEMMA OnlyChildNext ==
  ASSUME BaseInv', NEW p \in Procs, Forking(p)', NEW fd \in Fds, NEW h \in Handles, NEW k, k = loc'[p].kid
  PROVE  Ref(k, fd, h)' <=> (fd < loc'[p].fd /\ table'[p][fd] = h)
  <1>1. k \in Procs /\ pc'[k] = "embryo" /\ table'[k] = NoFiles
    BY DEF BaseInv, ForkInv, IdleOK
  <1>2. ~OwnRef(k, fd, h)'
    BY <1>1, FileTableAssumption DEF OwnRef, NoFiles
  <1>3. ChildRef(k, fd, h)' <=> (fd < loc'[p].fd /\ table'[p][fd] = h)
    BY DEF ChildRef, BaseInv, ForkInv, Forking
  <1> QED BY <1>2, <1>3 DEF Ref

\* A step of a fork that p has under way for k.
LEMMA ForkingRefs ==
  ASSUME BaseInv, BaseInv', NEW p \in Procs, Frame(p), Forking(p), Forking(p)', table'[p] = table[p],
         loc'[p].kid = loc[p].kid,
         NEW q \in Procs, NEW fd \in Fds, NEW h \in Handles
  PROVE  /\ q # loc[p].kid => (Ref(q, fd, h)' <=> Ref(q, fd, h))
         /\ q = loc[p].kid => (Ref(q, fd, h)' <=> fd < loc'[p].fd /\ table[p][fd] = h)
         /\ q = loc[p].kid => (Ref(q, fd, h) <=> fd < loc[p].fd /\ table[p][fd] = h)
  <1>0. PICK k \in Procs : k = loc[p].kid
    BY DEF BaseInv, ForkInv
  <1>1. k \in Procs /\ pc[k] = "embryo" /\ k # p /\ pc'[k] = "embryo"
    BY <1>0 DEF BaseInv, ForkInv, Forking, Frame
  <1>2. CASE q = k
    BY <1>0, <1>2, OnlyChild, OnlyChildNext
  <1>3. CASE q = p
    <2>1. Ref(p, fd, h) <=> OwnRef(p, fd, h)
      BY OnlyOwn DEF Forking
    <2>2. Ref(p, fd, h)' <=> OwnRef(p, fd, h)'
      BY OnlyOwnNext DEF Forking
    <2>3. OwnRef(p, fd, h)' <=> OwnRef(p, fd, h)
      BY OwnRefIs, OwnRefIsNext DEF Forking, Leaving
    <2> QED BY <1>0, <1>1, <1>3, <2>1, <2>2, <2>3
  <1>4. CASE q # k /\ q # p
    <2>1. \A r \in Procs \ {p, k} : table'[r] = table[r] /\ pc'[r] = pc[r] /\ loc'[r] = loc[r]
      BY DEF Frame
    <2>2. ~Forking(k) /\ ~Forking(k)'
      BY <1>1 DEF Forking
    <2>3. q \in Procs \ {p, k}
      BY <1>4
    <2>4. Ref(q, fd, h)' <=> Ref(q, fd, h)
      BY <1>0, <2>1, <2>2, <2>3, OthersRefs
    <2> QED BY <1>0, <1>4, <2>4
  <1> QED BY <1>2, <1>3, <1>4

LEMMA ForkQuiet ==
  ASSUME BaseInv, BaseInv', NEW p \in Procs, ForkLoad(p) \/ Skip(p)
  PROVE  SameReferences /\ Frame(p)
  <1>t. TypeOK /\ loc[p] \in LocRec /\ loc[p].fd \in 0 .. OpenMax /\ CallOK(p)
    BY LocFields DEF BaseInv
  <1>1. CASE ForkLoad(p)
    <2>1. pc[p] = "fork" /\ LoadCount(p, "fork_inc", loc[p]) /\ table' = table /\ cwd' = cwd
      BY <1>1 DEF ForkLoad
    <2>2. /\ pc'[p] = "fork_inc" /\ loc'[p].fd = loc[p].fd /\ loc'[p].kid = loc[p].kid
          /\ \A q \in Procs \ {p} : pc'[q] = pc[q] /\ loc'[q] = loc[q]
      BY <1>t, <2>1, LoadEffect
    <2>3. Frame(p) /\ Forking(p) /\ Forking(p)'
      BY <2>1, <2>2 DEF Frame, Forking
    <2>4. ASSUME NEW h \in Handles, NEW q \in Procs, NEW fd \in Fds PROVE Ref(q, fd, h)' <=> Ref(q, fd, h)
      BY <2>1, <2>2, <2>3, ForkingRefs
    <2> QED BY <2>3, <2>4, SameRefs DEF SameReferences
  <1>2. ASSUME Skip(p)
        PROVE  /\ Frame(p) /\ table' = table /\ loc'[p].fd = loc[p].fd + 1 /\ loc'[p].kid = loc[p].kid
               /\ loc'[p].next = loc[p].next /\ pc' = pc /\ pc[p] \in {"fork", "exit"} /\ loc[p].fd \in Fds /\ Cur(p) = NULL
    BY <1>t, <1>2, FdsFacts DEF Skip, Step, Frame, TypeOK, LocRec
  <1>3. ASSUME Skip(p), NEW fd \in Fds, NEW h \in Handles
        PROVE  /\ (fd < loc[p].fd /\ table[p][fd] = h) <=> (fd < loc'[p].fd /\ table[p][fd] = h)
               /\ (fd >= loc[p].fd /\ table[p][fd] = h) <=> (fd >= loc'[p].fd /\ table[p][fd] = h)
    <2>1. table[p][fd] = h => fd # loc[p].fd
      BY <1>2, <1>3, FileTableAssumption DEF Cur
    <2>2. fd # loc[p].fd => (fd < loc[p].fd <=> fd < loc[p].fd + 1) /\ (fd >= loc[p].fd <=> fd >= loc[p].fd + 1)
      BY <1>2, <1>3, FdsFacts
    <2> QED BY <1>2, <1>3, <2>1, <2>2
  <1>4. CASE Skip(p) /\ pc[p] = "fork"
    <2>1. Forking(p) /\ Forking(p)'
      BY <1>2, <1>4 DEF Forking
    <2>2. ASSUME NEW h \in Handles, NEW q \in Procs, NEW fd \in Fds PROVE Ref(q, fd, h)' <=> Ref(q, fd, h)
      BY <1>2, <1>3, <1>4, <2>1, ForkingRefs
    <2> QED BY <1>2, <1>4, <2>2, SameRefs DEF SameReferences
  <1>5. CASE Skip(p) /\ pc[p] = "exit"
    <2>1. ASSUME NEW fd \in Fds, NEW h \in Handles PROVE OwnRef(p, fd, h)' <=> OwnRef(p, fd, h)
      BY <1>2, <1>3, <1>5, OwnRefIs, OwnRefIsNext DEF Leaving
    <2> QED BY <1>2, <1>5, <2>1, LocalSame DEF Forking
  <1> QED BY <1>1, <1>2, <1>4, <1>5

LEMMA ForkStartRefs ==
  ASSUME BaseInv, BaseInv', NEW p \in Procs, thread_fork(p)
  PROVE  SameReferences
  <1>t. TypeOK /\ loc[p] \in LocRec
    BY LocFields DEF BaseInv
  <1>1. PICK k \in Procs : /\ pc[k] = "unborn"
                           /\ pc' = [pc EXCEPT ![p] = "fork", ![k] = "embryo"]
                           /\ loc' = [loc EXCEPT ![p].fd = 0, ![p].kid = k]
    BY DEF thread_fork
  <1>2. pc[p] = "user" /\ table' = table /\ k # p
    BY <1>1 DEF thread_fork
  <1>3. /\ pc'[p] = "fork" /\ pc'[k] = "embryo" /\ loc'[p].kid = k /\ loc'[p].fd = 0
        /\ \A q \in Procs \ {p, k} : table'[q] = table[q] /\ pc'[q] = pc[q] /\ loc'[q] = loc[q]
    BY <1>t, <1>1, <1>2 DEF TypeOK, LocRec
  <1>4. ~Forking(p) /\ Forking(p)' /\ ~Forking(k) /\ ~Forking(k)'
    BY <1>1, <1>2, <1>3 DEF Forking
  <1>5. ASSUME NEW h \in Handles, NEW q \in Procs, NEW fd \in Fds PROVE Ref(q, fd, h)' <=> Ref(q, fd, h)
    <2>1. CASE q = k
      <3>1. ~Ref(k, fd, h)
        <4>1. table[k] = NoFiles
          BY <1>1 DEF BaseInv, IdleOK
        <4> QED BY <1>1, <4>1, OnlyOwn, OwnRefIs, FileTableAssumption DEF NoFiles
      <3>2. ~Ref(k, fd, h)'
        <4>1. ~(fd < 0)
          BY FdsFacts
        <4> QED BY <1>3, <1>4, <4>1, OnlyChildNext
      <3> QED BY <2>1, <3>1, <3>2
    <2>2. CASE q = p
      <3>1. (Ref(p, fd, h) <=> OwnRef(p, fd, h)) /\ (Ref(p, fd, h)' <=> OwnRef(p, fd, h)')
        BY <1>2, <1>3, OnlyOwn, OnlyOwnNext
      <3>2. OwnRef(p, fd, h)' <=> OwnRef(p, fd, h)
        BY <1>2, <1>3, OwnRefIs, OwnRefIsNext DEF Leaving
      <3> QED BY <2>2, <3>1, <3>2
    <2>3. CASE q # p /\ q # k
      <3>1. q \in Procs \ {p, k}
        BY <2>3
      <3> QED BY <1>3, <1>4, <3>1, OthersRefs
    <2> QED BY <2>1, <2>2, <2>3
  <1> QED BY <1>5, SameRefs DEF SameReferences

LEMMA ForkCopyRefs ==
  ASSUME BaseInv, BaseInv', NEW p \in Procs, ForkCopy(p)
  PROVE  SameReferences
  <1>t. TypeOK
    BY DEF BaseInv
  <1>0. PICK k \in Procs : k = loc[p].kid
    BY DEF BaseInv, ForkInv, Forking, ForkCopy
  <1>1. k \in Procs /\ pc[k] = "embryo" /\ pc[p] = "fork" /\ k # p /\ Forking(p)
    BY <1>0 DEF BaseInv, ForkInv, Forking, ForkCopy
  <1>2. /\ pc' = [pc EXCEPT ![p] = "user", ![k] = "user"] /\ loc' = [loc EXCEPT ![p] = NoCall]
        /\ table' = [table EXCEPT ![k] = table[p]] /\ loc[p].fd = OpenMax
    BY <1>0 DEF ForkCopy
  <1>a. ASSUME NEW h \in Handles, NEW fd \in Fds PROVE Ref(k, fd, h) <=> (table[p][fd] = h)
    <2>1. fd < loc[p].fd
      BY <1>2, FileTableAssumption DEF Fds
    <2> QED BY <1>0, <1>1, <2>1, OnlyChild
  <1>3. /\ pc'[p] = "user" /\ pc'[k] = "user" /\ table'[k] = table[p] /\ table'[p] = table[p]
        /\ \A q \in Procs \ {p, k} : table'[q] = table[q] /\ pc'[q] = pc[q] /\ loc'[q] = loc[q]
    BY <1>t, <1>1, <1>2 DEF TypeOK
  <1>4. ~Forking(p)' /\ ~Forking(k) /\ ~Forking(k)'
    BY <1>1, <1>3 DEF Forking
  <1>5. ASSUME NEW h \in Handles, NEW q \in Procs, NEW fd \in Fds PROVE Ref(q, fd, h)' <=> Ref(q, fd, h)
    <2>1. CASE q = k
      <3>1. Ref(k, fd, h)' <=> (table[p][fd] = h)
        BY <1>1, <1>3, OnlyOwnNext, OwnRefIsNext DEF Leaving
      <3> QED BY <2>1, <1>a, <3>1
    <2>2. CASE q = p
      <3>1. (Ref(p, fd, h) <=> OwnRef(p, fd, h)) /\ (Ref(p, fd, h)' <=> OwnRef(p, fd, h)')
        BY <1>1, <1>3, OnlyOwn, OnlyOwnNext
      <3>2. OwnRef(p, fd, h)' <=> OwnRef(p, fd, h)
        BY <1>1, <1>3, OwnRefIs, OwnRefIsNext DEF Leaving
      <3> QED BY <2>2, <3>1, <3>2
    <2>3. CASE q # p /\ q # k
      <3>1. q \in Procs \ {p, k}
        BY <2>3
      <3> QED BY <1>0, <1>1, <1>3, <1>4, <3>1, OthersRefs
    <2> QED BY <2>1, <2>2, <2>3
  <1> QED BY <1>5, SameRefs DEF SameReferences

\* A drop takes away the one reference it is about.
LEMMA DroppedRefs ==
  ASSUME BaseInv, BaseInv', NEW p \in Procs, pc[p] = "drop", Dropped(p), cwd' = cwd
  PROVE  /\ Frame(p) /\ pc'[p] \in {"exit", "dup", "user"}
         /\ \A q \in Procs, fd \in Fds, h \in Handles :
              Ref(q, fd, h)' <=> (Ref(q, fd, h) /\ ~(h = Cur(p) /\ q = p /\ fd = loc[p].fd))
         /\ Ref(p, loc[p].fd, Cur(p))
  <1>t. TypeOK /\ loc[p] \in LocRec /\ loc[p].fd \in Fds /\ Cur(p) \in Handles /\ loc[p].fd \in Nat
    BY LocFields, BusyHeld, FdsFacts DEF BaseInv, Busy
  <1>1. Frame(p)
    BY <1>t DEF Frame, TypeOK, Dropped, Step, Return
  <1>2. pc'[p] \in {"exit", "dup", "user"}
    BY <1>t DEF TypeOK, Dropped, Return
  <1>3. ASSUME NEW fd \in Fds, NEW h \in Handles
        PROVE  OwnRef(p, fd, h)' <=> (OwnRef(p, fd, h) /\ ~(h = Cur(p) /\ fd = loc[p].fd))
    <2>1. CASE loc[p].next = "exit" /\ pc' = [pc EXCEPT ![p] = "exit"] /\ Step(p) /\ UNCHANGED table
      <3>1. pc'[p] = "exit" /\ loc'[p].fd = loc[p].fd + 1 /\ table' = table
        BY <1>t, <2>1 DEF Step, TypeOK, LocRec
      <3>2. fd >= loc[p].fd + 1 <=> (fd >= loc[p].fd /\ fd # loc[p].fd)
        BY <1>t, FdsFacts
      <3>3. (table[p][fd] = h /\ fd # loc[p].fd) <=> (table[p][fd] = h /\ ~(h = Cur(p) /\ fd = loc[p].fd))
        BY DEF Cur
      <3> QED BY <1>3, <2>1, <3>1, <3>2, <3>3, OwnRefIs, OwnRefIsNext DEF Leaving
    <2>2. CASE loc[p].next # "exit" /\ table' = [table EXCEPT ![p][loc[p].fd] = NULL]
      <3>1. table'[p][fd] = IF fd = loc[p].fd THEN NULL ELSE table[p][fd]
        BY <1>t, <2>2 DEF TypeOK
      <3>2. loc[p].next # "exit" /\ ~Leaving(p) /\ ~Leaving(p)' /\ pc'[p] \notin {"dup_lock", "dup_inc"}
        <4>1. pc'[p] # "exit" /\ pc'[p] # "drop"
          BY <1>t, <2>2 DEF Dropped, Return, TypeOK
        <4> QED BY <1>2, <2>2, <4>1 DEF Leaving
      <3> QED BY <1>3, <2>2, <3>1, <3>2, OwnRefIs, OwnRefIsNext, FileTableAssumption DEF Cur
    <2> QED BY <2>1, <2>2 DEF Dropped
  <1>4. OwnRef(p, loc[p].fd, Cur(p))
    BY <1>t, OwnRefIs DEF Cur
  <1>5. ~Forking(p) /\ ~Forking(p)' /\ pc[p] # "embryo" /\ pc'[p] # "embryo"
    BY <1>2 DEF Forking
  <1>6. ASSUME NEW q \in Procs, NEW fd \in Fds, NEW h \in Handles
        PROVE  Ref(q, fd, h)' <=> (Ref(q, fd, h) /\ ~(h = Cur(p) /\ q = p /\ fd = loc[p].fd))
    BY <1>1, <1>3, <1>5, <1>6, LocalRefs
  <1> QED BY <1>1, <1>2, <1>4, <1>6 DEF Ref

LEMMA DupCountRefs ==
  ASSUME BaseInv, BaseInv', NEW p \in Procs, sys_dup2_Count(p)
  PROVE  /\ Frame(p) /\ pc[p] = "dup_inc" /\ pc'[p] = "user"
         /\ \A q \in Procs, fd \in Fds, h \in Handles :
              Ref(q, fd, h)' <=> (Ref(q, fd, h) \/ (h = Cur(p) /\ q = p /\ fd = loc[p].fd))
         /\ ~Ref(p, loc[p].fd, Cur(p))
  <1>1. Frame(p) /\ pc[p] = "dup_inc" /\ pc'[p] = "user" /\ table' = table
    BY DEF BaseInv, TypeOK, Frame, sys_dup2_Count, Return
  <1>2. ASSUME NEW fd \in Fds, NEW h \in Handles
        PROVE  OwnRef(p, fd, h)' <=> (OwnRef(p, fd, h) \/ (h = Cur(p) /\ fd = loc[p].fd))
    BY <1>1, <1>2, OwnRefIs, OwnRefIsNext DEF Leaving, Cur
  <1>3. ~Forking(p) /\ ~Forking(p)' /\ pc[p] # "embryo" /\ pc'[p] # "embryo"
    BY <1>1 DEF Forking
  <1>4. ASSUME NEW q \in Procs, NEW fd \in Fds, NEW h \in Handles
        PROVE  Ref(q, fd, h)' <=> (Ref(q, fd, h) \/ (h = Cur(p) /\ q = p /\ fd = loc[p].fd))
    BY <1>1, <1>2, <1>3, <1>4, LocalRefs
  <1>5. ~Ref(p, loc[p].fd, Cur(p))
    BY <1>1, OnlyOwn DEF OwnRef
  <1> QED BY <1>1, <1>4, <1>5

LEMMA ForkCountRefs ==
  ASSUME BaseInv, BaseInv', NEW p \in Procs, ForkCount(p)
  PROVE  /\ Frame(p) /\ pc[p] = "fork_inc" /\ pc'[p] = "fork" /\ loc[p].kid \in Procs
         /\ \A q \in Procs, fd \in Fds, h \in Handles :
              Ref(q, fd, h)' <=> (Ref(q, fd, h) \/ (h = Cur(p) /\ q = loc[p].kid /\ fd = loc[p].fd))
         /\ ~Ref(loc[p].kid, loc[p].fd, Cur(p))
  <1>t. TypeOK /\ loc[p] \in LocRec /\ loc[p].fd \in Fds /\ Cur(p) \in Handles /\ loc[p].fd \in Nat /\ pc[p] = "fork_inc"
    BY LocFields, BusyHeld, FdsFacts DEF BaseInv, Busy, ForkCount
  <1>1. Frame(p) /\ pc'[p] = "fork" /\ table' = table /\ loc'[p].fd = loc[p].fd + 1 /\ loc'[p].kid = loc[p].kid
    BY <1>t DEF TypeOK, Frame, ForkCount, Step, LocRec
  <1>2. Forking(p) /\ Forking(p)' /\ loc[p].kid \in Procs
    BY <1>t, <1>1 DEF Forking, BaseInv, ForkInv
  <1>3. ASSUME NEW fd \in Fds PROVE fd < loc[p].fd + 1 <=> (fd < loc[p].fd \/ fd = loc[p].fd)
    BY <1>t, FdsFacts
  <1>4. ASSUME NEW q \in Procs, NEW fd \in Fds, NEW h \in Handles
        PROVE  Ref(q, fd, h)' <=> (Ref(q, fd, h) \/ (h = Cur(p) /\ q = loc[p].kid /\ fd = loc[p].fd))
    <2>1. CASE q # loc[p].kid
      BY <1>1, <1>2, <2>1, ForkingRefs
    <2>2. CASE q = loc[p].kid
      <3>1. /\ Ref(q, fd, h)' <=> fd < loc[p].fd + 1 /\ table[p][fd] = h
            /\ Ref(q, fd, h) <=> fd < loc[p].fd /\ table[p][fd] = h
        BY <1>1, <1>2, <2>2, ForkingRefs
      <3> QED BY <1>3, <2>2, <3>1 DEF Cur
    <2> QED BY <2>1, <2>2
  <1>5. ~Ref(loc[p].kid, loc[p].fd, Cur(p))
    <2>1. ~(loc[p].fd < loc[p].fd)
      BY <1>t
    <2> QED BY <1>t, <1>2, <2>1, OnlyChild
  <1> QED BY <1>t, <1>1, <1>2, <1>4, <1>5

\* The new handle of an open has one reference.
LEMMA OpenRefs ==
  ASSUME BaseInv, BaseInv', NEW p \in Procs, NEW hs \in [Fds -> Handles \cup {NULL}],
         Frame(p), pc[p] \in {"menu", "user"}, pc'[p] = "user",
         \A fd \in Fds : hs[fd] # NULL => table[p][fd] = NULL,
         \A fd \in Fds : table'[p][fd] = IF hs[fd] # NULL THEN hs[fd] ELSE table[p][fd]
  PROVE  \A q \in Procs, fd \in Fds, h \in Handles : Ref(q, fd, h)' <=> (Ref(q, fd, h) \/ (q = p /\ hs[fd] = h))
  <1>1. ASSUME NEW fd \in Fds, NEW h \in Handles
        PROVE  OwnRef(p, fd, h)' <=> (OwnRef(p, fd, h) \/ hs[fd] = h)
    BY <1>1, OwnRefIs, OwnRefIsNext, FileTableAssumption DEF Leaving
  <1>2. ~Forking(p) /\ ~Forking(p)' /\ pc[p] # "embryo" /\ pc'[p] # "embryo"
    BY DEF Forking
  <1> QED BY <1>1, <1>2, LocalRefs

-----------------------------------------------------------------------------
(* Calls under way *)

\* What a step of p, and of its child k, must see to so that the calls of
\* the others find what they left.
LEMMA CallsKept ==
  ASSUME Apart, SeenInv, LockInv, NEW p \in Procs, NEW k \in Procs,
         \A q \in Procs \ {p, k} : table'[q] = table[q] /\ pc'[q] = pc[q] /\ loc'[q] = loc[q],
         k # p => pc'[k] \notin Changing \cup {"io"},
         \A q \in Procs \ {p, k} : pc[q] \in Changing => handle'[Cur(q)].references = handle[Cur(q)].references,
         \A q \in Procs \ {p, k} : pc[q] \in {"io", "dup_inc"} =>
             handle'[Cur(q)].filelock = handle[Cur(q)].filelock /\ handle'[Cur(q)].offset = handle[Cur(q)].offset,
         pc'[p] \in Changing => loc'[p].seen = handle'[Cur(p)'].references,
         pc'[p] \in Changing => \A q \in Procs \ {p, k} : pc[q] \in Changing => Cur(q) # Cur(p)',
         pc'[p] \in {"io", "dup_inc"} => handle'[Cur(p)'].filelock = p,
         pc'[p] = "io" => handle'[Cur(p)'].offset = loc'[p].off
  PROVE  Apart' /\ SeenInv' /\ LockInv'
  <1>1. \A q \in Procs \ {p, k} : Cur(q)' = Cur(q)
    BY DEF Cur
  <1>2. Apart'
    BY <1>1 DEF Apart
  <1>3. SeenInv'
    <2> SUFFICES ASSUME NEW q \in Procs, pc'[q] \in Changing PROVE loc'[q].seen = handle'[Cur(q)'].references
      BY DEF SeenInv
    <2>1. CASE q = p
      BY <2>1
    <2>2. CASE q # p
      BY <1>1, <2>2 DEF SeenInv
    <2> QED BY <2>1, <2>2
  <1>4. LockInv'
    <2> SUFFICES ASSUME NEW q \in Procs
                 PROVE  /\ pc'[q] \in {"io", "dup_inc"} => handle'[Cur(q)'].filelock = q
                        /\ pc'[q] = "io" => handle'[Cur(q)'].offset = loc'[q].off
      BY DEF LockInv
    <2>1. CASE q = p
      BY <2>1
    <2>2. CASE q # p
      BY <1>1, <2>2 DEF LockInv, Changing
    <2> QED BY <2>1, <2>2
  <1> QED BY <1>2, <1>3, <1>4

\* The same for a step of p alone that leaves p outside of these places.
LEMMA CallsLeft ==
  ASSUME Apart, SeenInv, LockInv, NEW p \in Procs, Frame(p), pc'[p] \notin Changing \cup {"io"},
         \A q \in Procs \ {p} : pc[q] \in Changing => handle'[Cur(q)].references = handle[Cur(q)].references,
         \A q \in Procs \ {p} : pc[q] \in {"io", "dup_inc"} =>
             handle'[Cur(q)].filelock = handle[Cur(q)].filelock /\ handle'[Cur(q)].offset = handle[Cur(q)].offset
  PROVE  Apart' /\ SeenInv' /\ LockInv'
  <1>1. \A q \in Procs \ {p, p} : q \in Procs \ {p} /\ table'[q] = table[q] /\ pc'[q] = pc[q] /\ loc'[q] = loc[q]
    BY DEF Frame
  <1>2. "dup_inc" \in Changing
    BY DEF Changing
  <1> QED BY <1>1, <1>2, CallsKept

\* A call that loads a count, overlapping no other.
LEMMA CallsLoad ==
  ASSUME Apart, SeenInv, LockInv, TypeOK, NEW p \in Procs, NEW to \in Changing, NEW l \in LocRec, LoadCount(p, to, l), ~raced',
         table' = table, cwd' = cwd,
         \A h \in Handles : handle'[h].references = handle[h].references,
         l.fd \in Fds, table[p][l.fd] # NULL,
         \A q \in Procs \ {p} : pc[q] \in Changing \cup {"io"} => Cur(q) \in Handles,
         \A q \in Procs \ {p} : pc[q] \in {"io", "dup_inc"} =>
             handle'[Cur(q)].filelock = handle[Cur(q)].filelock /\ handle'[Cur(q)].offset = handle[Cur(q)].offset,
         to = "dup_inc" => handle'[table[p][l.fd]].filelock = p
  PROVE  Apart' /\ SeenInv' /\ LockInv' /\ Frame(p)
  <1>1. /\ pc'[p] = to /\ loc'[p].fd = l.fd /\ loc'[p].seen = handle[table[p][l.fd]].references
        /\ \A q \in Procs \ {p} : pc'[q] = pc[q] /\ loc'[q] = loc[q]
    BY LoadEffect
  <1>2. \A q \in Procs \ {p} : pc[q] \in Changing => Cur(q) # table[p][l.fd]
    BY DEF LoadCount, Overlap
  <1>3. Cur(p)' = table[p][l.fd] /\ table[p][l.fd] \in Handles
    BY <1>1 DEF Cur, TypeOK
  <1>4. Frame(p)
    BY <1>1 DEF Frame
  <1>5. to # "io" /\ pc'[p] # "io"
    BY <1>1 DEF Changing
  <1>6. \A q \in Procs \ {p, p} : q \in Procs \ {p} /\ table'[q] = table[q] /\ pc'[q] = pc[q] /\ loc'[q] = loc[q]
    BY <1>4 DEF Frame
  <1>7. Apart' /\ SeenInv' /\ LockInv'
    BY <1>1, <1>2, <1>3, <1>5, <1>6, CallsKept
  <1> QED BY <1>4, <1>7

-----------------------------------------------------------------------------
(* Vnodes *)

LEMMA CountsAreNats ==
  ASSUME NEW v
  PROVE  /\ IsFiniteSet(OpenHandles(v)) /\ Cardinality(OpenHandles(v)) \in Nat
         /\ IsFiniteSet(Visitors(v)) /\ Cardinality(Visitors(v)) \in Nat
  <1>1. OpenHandles(v) \subseteq Handles /\ Visitors(v) \subseteq Procs
    BY DEF OpenHandles, Visitors
  <1> QED BY <1>1, FS_Subset, FS_CardinalityType, FileTableAssumption

LEMMA VnodesKept ==
  ASSUME VnodeInv, SameHandles, vnode' = vnode, lost' = lost, cwd' = cwd
  PROVE  VnodeInv'
  <1>1. \A v : OpenHandles(v)' = OpenHandles(v) /\ Visitors(v)' = Visitors(v)
    BY DEF OpenHandles, SameHandles, Visitors
  <1> QED BY <1>1 DEF VnodeInv

\* p goes from its directory to d, either of which may be none.
LEMMA VisitorsMove ==
  ASSUME TypeOK, NEW p \in Procs, NEW d \in Dirs \cup {NULL}, cwd' = [cwd EXCEPT ![p] = d], NEW v \in Vnodes
  PROVE  Cardinality(Visitors(v)') = Cardinality(Visitors(v)) + (IF v = d THEN 1 ELSE 0)
                                                              - (IF v = cwd[p] THEN 1 ELSE 0)
  <1>1. Visitors(v)' = IF v = d THEN Visitors(v) \cup {p} ELSE Visitors(v) \ {p}
    BY DEF Visitors, TypeOK
  <1>2. p \in Visitors(v) <=> v = cwd[p]
    BY DEF Visitors
  <1>3. IsFiniteSet(Visitors(v)) /\ Cardinality(Visitors(v)) \in Nat
    BY CountsAreNats
  <1>4. CASE v = d
    <2>1. Cardinality(Visitors(v) \cup {p}) = Cardinality(Visitors(v)) + (IF v = cwd[p] THEN 0 ELSE 1)
      <3>1. Cardinality(Visitors(v) \cup {p}) = IF p \in Visitors(v) THEN Cardinality(Visitors(v)) ELSE Cardinality(Visitors(v)) + 1
        BY <1>3, FS_AddElement
      <3> QED BY <1>2, <1>3, <3>1
    <2> QED BY <1>1, <1>3, <1>4, <2>1
  <1>5. CASE v # d
    <2>1. Cardinality(Visitors(v) \ {p}) = Cardinality(Visitors(v)) - (IF v = cwd[p] THEN 1 ELSE 0)
      <3>1. Cardinality(Visitors(v) \ {p}) = IF p \in Visitors(v) THEN Cardinality(Visitors(v)) - 1 ELSE Cardinality(Visitors(v))
        BY <1>3, FS_RemoveElement
      <3> QED BY <1>2, <1>3, <3>1
    <2> QED BY <1>1, <1>3, <1>5, <2>1
  <1> QED BY <1>4, <1>5

LEMMA VnodeEffects ==
  ASSUME NEW vn \in [Vnodes -> [opencount: Int, refcount: Int]], NEW u \in Vnodes \cup {NULL}, NEW v \in Vnodes
  PROVE  /\ VOP_INCREF(vn, u)[v].opencount = vn[v].opencount
         /\ VOP_INCREF(vn, u)[v].refcount = vn[v].refcount + (IF v = u THEN 1 ELSE 0)
         /\ VOP_DECREF(vn, u)[v].opencount = vn[v].opencount
         /\ VOP_DECREF(vn, u)[v].refcount = vn[v].refcount - (IF v = u THEN 1 ELSE 0)
         /\ u # NULL => /\ vfs_open(vn, u)[v].opencount = vn[v].opencount + (IF v = u THEN 1 ELSE 0)
                        /\ vfs_open(vn, u)[v].refcount = vn[v].refcount + (IF v = u THEN 1 ELSE 0)
                        /\ vfs_close(vn, u)[v].opencount = vn[v].opencount - (IF v = u THEN 1 ELSE 0)
                        /\ vfs_close(vn, u)[v].refcount = vn[v].refcount - (IF v = u THEN 1 ELSE 0)
  <1>1. NULL \notin Vnodes
    BY FileTableAssumption
  <1>2. CASE u = NULL
    BY <1>1, <1>2 DEF VOP_INCREF, VOP_DECREF
  <1>3. CASE u # NULL
    BY <1>3 DEF VOP_INCREF, VOP_DECREF, vfs_open, vfs_close
  <1> QED BY <1>2, <1>3

\* The steps that change who is where: chdir, exit and the end of fork.
LEMMA VnodesVisited ==
  ASSUME TypeOK, VnodeInv, SameHandles, lost' = lost, NEW p \in Procs, NEW d \in Dirs \cup {NULL},
         cwd' = [cwd EXCEPT ![p] = d], vnode' = VOP_DECREF(VOP_INCREF(vnode, d), cwd[p])
  PROVE  VnodeInv'
  <1>1. d \in Vnodes \cup {NULL} /\ cwd[p] \in Vnodes \cup {NULL} /\ vnode \in [Vnodes -> [opencount: Int, refcount: Int]]
    BY FileTableAssumption DEF TypeOK, Vnodes
  <1>2. VOP_INCREF(vnode, d) \in [Vnodes -> [opencount: Int, refcount: Int]]
    BY <1>1, VnodeTyped
  <1>3. ASSUME NEW v \in Vnodes
        PROVE  /\ vnode'[v].opencount = vnode[v].opencount
               /\ vnode'[v].refcount = vnode[v].refcount + (IF v = d THEN 1 ELSE 0) - (IF v = cwd[p] THEN 1 ELSE 0)
    <2>1. /\ VOP_INCREF(vnode, d)[v].opencount = vnode[v].opencount
          /\ VOP_INCREF(vnode, d)[v].refcount = vnode[v].refcount + (IF v = d THEN 1 ELSE 0)
      BY <1>1, <1>3, VnodeEffects
    <2>2. /\ vnode'[v].opencount = VOP_INCREF(vnode, d)[v].opencount
          /\ vnode'[v].refcount = VOP_INCREF(vnode, d)[v].refcount - (IF v = cwd[p] THEN 1 ELSE 0)
      BY <1>1, <1>2, <1>3, VnodeEffects
    <2>3. vnode[v].refcount \in Int
      BY <1>1, <1>3
    <2> QED BY <2>1, <2>2, <2>3
  <1>4. \A v : OpenHandles(v)' = OpenHandles(v)
    BY DEF OpenHandles, SameHandles
  <1> SUFFICES ASSUME NEW v \in Vnodes
               PROVE  /\ vnode'[v].opencount = Cardinality(OpenHandles(v)') + lost'[v]
                      /\ vnode'[v].refcount = Cardinality(OpenHandles(v)') + lost'[v] + Cardinality(Visitors(v)')
    BY DEF VnodeInv
  <1>5. Cardinality(Visitors(v)') = Cardinality(Visitors(v)) + (IF v = d THEN 1 ELSE 0) - (IF v = cwd[p] THEN 1 ELSE 0)
    BY VisitorsMove
  <1>6. Cardinality(Visitors(v)) \in Nat /\ Cardinality(OpenHandles(v)) \in Nat /\ lost[v] \in Nat
    BY CountsAreNats DEF TypeOK
  <1>7. /\ vnode[v].opencount = Cardinality(OpenHandles(v)) + lost[v]
        /\ vnode[v].refcount = Cardinality(OpenHandles(v)) + lost[v] + Cardinality(Visitors(v))
    BY DEF VnodeInv
  <1>8. vnode'[v].opencount = Cardinality(OpenHandles(v)') + lost'[v]
    BY <1>3, <1>4, <1>7
  <1>9. vnode'[v].refcount = Cardinality(OpenHandles(v)') + lost'[v] + Cardinality(Visitors(v)')
    BY <1>3, <1>4, <1>5, <1>6, <1>7
  <1> QED BY <1>8, <1>9

\* A vnode gains or loses n open handles.
LEMMA VnodesOpened ==
  ASSUME TypeOK, VnodeInv, cwd' = cwd, lost' = lost, NEW u \in Vnodes, NEW n \in Int,
         \A v \in Vnodes : v # u => vnode'[v] = vnode[v] /\ OpenHandles(v)' = OpenHandles(v),
         vnode'[u].opencount = vnode[u].opencount + n, vnode'[u].refcount = vnode[u].refcount + n,
         Cardinality(OpenHandles(u)') = Cardinality(OpenHandles(u)) + n
  PROVE  VnodeInv'
  <1> SUFFICES ASSUME NEW v \in Vnodes
               PROVE  /\ vnode'[v].opencount = Cardinality(OpenHandles(v)') + lost'[v]
                      /\ vnode'[v].refcount = Cardinality(OpenHandles(v)') + lost'[v] + Cardinality(Visitors(v)')
    BY DEF VnodeInv
  <1>1. Visitors(v)' = Visitors(v)
    BY DEF Visitors
  <1>2. Cardinality(Visitors(v)) \in Nat /\ Cardinality(OpenHandles(v)) \in Nat /\ lost[v] \in Nat
    BY CountsAreNats DEF TypeOK
  <1>3. /\ vnode[v].opencount = Cardinality(OpenHandles(v)) + lost[v]
        /\ vnode[v].refcount = Cardinality(OpenHandles(v)) + lost[v] + Cardinality(Visitors(v))
    BY DEF VnodeInv
  <1>4. CASE v = u
    BY <1>1, <1>2, <1>3, <1>4
  <1>5. CASE v # u
    BY <1>1, <1>3, <1>5
  <1> QED BY <1>4, <1>5

-----------------------------------------------------------------------------
(* The rest of the invariant, step by step *)

LEMMA CurHandles ==
  ASSUME BaseInv, NEW q \in Procs, pc[q] \in Changing \cup {"io"}
  PROVE  Busy(q) /\ Cur(q) \in Handles
  <1>1. Busy(q)
    BY DEF Changing, Busy
  <1> QED BY <1>1, BusyHeld

\* Steps that leave the handles alone.
LEMMA GoodHandlesLeft ==
  ASSUME BaseInv, BaseInv', Good, handle' = handle, NEW p \in Procs, lost' = lost,
         \/ sys_chdir(p) \/ sys_dup2_Assign(p) \/ thread_exit(p) \/ ExitDone(p) \/ Skip(p)
  PROVE  Good'
  <1>t. TypeOK /\ Exact /\ Apart /\ SeenInv /\ LockInv /\ VnodeInv /\ loc[p] \in LocRec
    BY LocFields DEF BaseInv, Good
  <1>1. SameReferences /\ Frame(p)
    BY QuietStep, QuietStep2, ForkQuiet
  <1>2. SameHandles
    BY DEF SameHandles
  <1>3. Exact'
    BY <1>t, <1>1, <1>2, ExactKept
  <1>4. pc'[p] \notin Changing \cup {"io"}
    BY <1>t DEF sys_chdir, sys_dup2_Assign, thread_exit, ExitDone, Skip, TypeOK, Changing
  <1>5. Apart' /\ SeenInv' /\ LockInv'
    BY <1>t, <1>1, <1>4, CallsLeft
  <1>6. VnodeInv'
    <2>1. CASE sys_chdir(p)
      <3>1. PICK d \in Dirs : vnode' = VOP_DECREF(VOP_INCREF(vnode, d), cwd[p]) /\ cwd' = [cwd EXCEPT ![p] = d]
        BY <2>1 DEF sys_chdir
      <3> QED BY <1>t, <1>2, <3>1, VnodesVisited
    <2>2. CASE thread_exit(p)
      <3>1. vnode' = VOP_DECREF(VOP_INCREF(vnode, NULL), cwd[p]) /\ cwd' = [cwd EXCEPT ![p] = NULL]
        BY <2>2 DEF thread_exit, VOP_INCREF
      <3> QED BY <1>t, <1>2, <3>1, VnodesVisited
    <2>3. CASE sys_dup2_Assign(p) \/ ExitDone(p) \/ Skip(p)
      BY <1>t, <1>2, <2>3, VnodesKept DEF sys_dup2_Assign, ExitDone, Skip
    <2> QED BY <2>1, <2>2, <2>3
  <1> QED BY <1>3, <1>5, <1>6 DEF Good

LEMMA GoodStatFails ==
  ASSUME BaseInv, BaseInv', Good, NEW p \in Procs, sys_open_StatFails(p)
  PROVE  Good'
  <1>t. TypeOK /\ Exact /\ Apart /\ SeenInv /\ LockInv /\ VnodeInv
    BY DEF BaseInv, Good
  <1>1. SameReferences /\ Frame(p)
    BY QuietStep
  <1>2. SameHandles /\ handle' = handle /\ cwd' = cwd
    BY DEF SameHandles, sys_open_StatFails
  <1>3. Exact'
    BY <1>t, <1>1, <1>2, ExactKept
  <1>4. pc'[p] \notin Changing \cup {"io"}
    BY <1>t DEF sys_open_StatFails, TypeOK, Changing
  <1>5. Apart' /\ SeenInv' /\ LockInv'
    BY <1>t, <1>1, <1>2, <1>4, CallsLeft
  <1>6. PICK u \in Files : vnode' = vfs_open(vnode, u) /\ lost' = [lost EXCEPT ![u] = @ + 1]
    BY DEF sys_open_StatFails
  <1>7. u \in Vnodes \cup {NULL} /\ u # NULL /\ vnode \in [Vnodes -> [opencount: Int, refcount: Int]]
    BY <1>t, FileTableAssumption DEF Vnodes, TypeOK
  <1>8. VnodeInv'
    <2> SUFFICES ASSUME NEW v \in Vnodes
                 PROVE  /\ vnode'[v].opencount = Cardinality(OpenHandles(v)') + lost'[v]
                        /\ vnode'[v].refcount = Cardinality(OpenHandles(v)') + lost'[v] + Cardinality(Visitors(v)')
      BY DEF VnodeInv
    <2>1. OpenHandles(v)' = OpenHandles(v) /\ Visitors(v)' = Visitors(v)
      BY <1>2 DEF OpenHandles, Visitors
    <2>2. Cardinality(Visitors(v)) \in Nat /\ Cardinality(OpenHandles(v)) \in Nat /\ lost[v] \in Nat
      BY <1>t, CountsAreNats DEF TypeOK
    <2>3. /\ vnode[v].opencount = Cardinality(OpenHandles(v)) + lost[v]
          /\ vnode[v].refcount = Cardinality(OpenHandles(v)) + lost[v] + Cardinality(Visitors(v))
      BY <1>t DEF VnodeInv
    <2>4. lost'[v] = lost[v] + (IF v = u THEN 1 ELSE 0)
      BY <1>t, <1>6, <2>2 DEF TypeOK
    <2>5. /\ vnode'[v].opencount = vnode[v].opencount + (IF v = u THEN 1 ELSE 0)
          /\ vnode'[v].refcount = vnode[v].refcount + (IF v = u THEN 1 ELSE 0)
      BY <1>6, <1>7, VnodeEffects
    <2> QED BY <2>1, <2>2, <2>3, <2>4, <2>5
  <1> QED BY <1>3, <1>5, <1>8 DEF Good

LEMMA GoodFork ==
  ASSUME BaseInv, BaseInv', Good, NEW p \in Procs, thread_fork(p) \/ ForkCopy(p)
  PROVE  Good'
  <1>t. TypeOK /\ Exact /\ Apart /\ SeenInv /\ LockInv /\ VnodeInv
    BY DEF BaseInv, Good
  <1>1. SameReferences
    BY ForkStartRefs, ForkCopyRefs
  <1>2. SameHandles /\ handle' = handle /\ lost' = lost
    BY DEF SameHandles, thread_fork, ForkCopy
  <1>3. Exact'
    BY <1>t, <1>1, <1>2, ExactKept
  <1>4. CASE thread_fork(p)
    <2>1. PICK k \in Procs : /\ pc[k] = "unborn"
                             /\ pc' = [pc EXCEPT ![p] = "fork", ![k] = "embryo"]
                             /\ loc' = [loc EXCEPT ![p].fd = 0, ![p].kid = k]
      BY <1>4 DEF thread_fork
    <2>2. table' = table /\ cwd' = cwd /\ vnode' = vnode /\ k # p
      BY <1>4, <2>1 DEF thread_fork
    <2>3. \A q \in Procs \ {p, k} : table'[q] = table[q] /\ pc'[q] = pc[q] /\ loc'[q] = loc[q]
      BY <1>t, <2>1, <2>2 DEF TypeOK
    <2>4. pc'[p] \notin Changing \cup {"io"} /\ pc'[k] \notin Changing \cup {"io"} /\ "dup_inc" \in Changing
      BY <1>t, <2>1, <2>2 DEF TypeOK, Changing
    <2>5. Apart' /\ SeenInv' /\ LockInv'
      BY <1>t, <1>2, <2>3, <2>4, CallsKept
    <2>6. VnodeInv'
      BY <1>t, <1>2, <2>2, VnodesKept
    <2> QED BY <1>3, <2>5, <2>6 DEF Good
  <1>5. CASE ForkCopy(p)
    <2>1. PICK k \in Procs : k = loc[p].kid /\ pc[k] = "embryo" /\ k # p
      BY <1>5 DEF BaseInv, ForkInv, Forking, ForkCopy
    <2>2. /\ pc' = [pc EXCEPT ![p] = "user", ![k] = "user"] /\ loc' = [loc EXCEPT ![p] = NoCall]
          /\ table' = [table EXCEPT ![k] = table[p]] /\ cwd' = [cwd EXCEPT ![k] = cwd[p]]
          /\ vnode' = VOP_INCREF(vnode, cwd[p])
      BY <1>5, <2>1 DEF ForkCopy
    <2>3. \A q \in Procs \ {p, k} : table'[q] = table[q] /\ pc'[q] = pc[q] /\ loc'[q] = loc[q]
      BY <1>t, <2>1, <2>2 DEF TypeOK
    <2>4. pc'[p] \notin Changing \cup {"io"} /\ pc'[k] \notin Changing \cup {"io"} /\ "dup_inc" \in Changing
      BY <1>t, <2>1, <2>2 DEF TypeOK, Changing
    <2>5. Apart' /\ SeenInv' /\ LockInv'
      BY <1>t, <1>2, <2>3, <2>4, CallsKept
    <2>6. cwd[k] = NULL
      BY <2>1 DEF BaseInv, IdleOK
    <2>7. vnode' = VOP_DECREF(VOP_INCREF(vnode, cwd[p]), cwd[k])
      BY <2>2, <2>6 DEF VOP_DECREF
    <2>8. cwd[p] \in Dirs \cup {NULL}
      BY <1>t DEF TypeOK
    <2>9. VnodeInv'
      BY <1>t, <1>2, <2>2, <2>7, <2>8, VnodesVisited
    <2> QED BY <1>3, <2>5, <2>9 DEF Good
  <1> QED BY <1>4, <1>5

\* Another's filelock: a handle p may use is not the one of a transfer.
LEMMA LockedByOther ==
  ASSUME LockInv, NEW p \in Procs, NEW q \in Procs, q # p, pc[q] \in {"io", "dup_inc"}, NEW h, LockFree(p, h)
  PROVE  Cur(q) # h
  BY FileTableAssumption DEF LockInv, LockFree

LEMMA GoodIO ==
  ASSUME BaseInv, BaseInv', Good, NEW p \in Procs, IoStart(p) \/ IoEnd(p) \/ sys_lseek(p)
  PROVE  Good'
  <1>t. TypeOK /\ Exact /\ Apart /\ SeenInv /\ LockInv /\ VnodeInv /\ loc[p] \in LocRec
    BY LocFields DEF BaseInv, Good
  <1>1. SameReferences /\ Frame(p) /\ vnode' = vnode /\ cwd' = cwd /\ lost' = lost /\ table' = table
    BY QuietStep DEF IoStart, IoEnd, sys_lseek
  <1>2. PICK h \in Handles, o \in 0 .. MaxOffset, l \in Procs \cup {NULL} :
          /\ handle' = [handle EXCEPT ![h] = [handle[h] EXCEPT !.offset = o, !.filelock = l]]
          /\ LockFree(p, h)
          /\ IoStart(p) => l = p /\ o = handle[h].offset /\ h = table'[p][loc'[p].fd] /\ loc'[p].off = o
    <2>1. CASE IoStart(p)
      <3>1. PICK fd \in Fds : /\ table[p][fd] # NULL /\ LockFree(p, table[p][fd])
                              /\ handle' = [handle EXCEPT ![table[p][fd]].filelock = p]
                              /\ loc' = [loc EXCEPT ![p].fd = fd, ![p].off = handle[table[p][fd]].offset]
        BY <2>1 DEF IoStart
      <3>2. PICK h \in Handles : h = table[p][fd]
        BY <1>t, <3>1 DEF TypeOK
      <3>3. handle[h] \in HandleRec /\ handle[h].offset \in 0 .. MaxOffset
        BY <1>t, HandleFields DEF TypeOK
      <3>4. [handle[h] EXCEPT !.offset = handle[h].offset, !.filelock = p] = [handle[h] EXCEPT !.filelock = p]
        BY <3>3 DEF HandleRec
      <3>5. loc'[p].fd = fd /\ loc'[p].off = handle[h].offset
        BY <1>t, <3>1, <3>2 DEF TypeOK, LocRec
      <3>6. handle' = [handle EXCEPT ![h] = [handle[h] EXCEPT !.offset = handle[h].offset, !.filelock = p]]
        BY <3>1, <3>2, <3>4
      <3> QED BY <1>1, <3>1, <3>2, <3>3, <3>5, <3>6
    <2>2. CASE IoEnd(p)
      <3>1. PICK o \in loc[p].off .. MaxOffset : handle' = [handle EXCEPT ![Cur(p)].offset = o, ![Cur(p)].filelock = NULL]
        BY <2>2 DEF IoEnd
      <3>2. Cur(p) \in Handles /\ pc[p] = "io"
        BY <2>2, CurHandles DEF IoEnd
      <3>3. loc[p].off \in 0 .. MaxOffset
        BY <1>t, LocFields
      <3>4. o \in 0 .. MaxOffset
        BY <3>3
      <3>5. LockFree(p, Cur(p))
        BY <1>t, <3>2 DEF LockInv, LockFree
      <3>6. handle' = [handle EXCEPT ![Cur(p)] = [handle[Cur(p)] EXCEPT !.offset = o, !.filelock = NULL]]
        BY <1>t, <3>1, <3>2 DEF TypeOK
      <3>7. ~IoStart(p)
        BY <3>2 DEF IoStart
      <3> QED BY <3>2, <3>4, <3>5, <3>6, <3>7
    <2>3. CASE sys_lseek(p)
      <3>1. PICK fd \in Fds, o \in 0 .. MaxOffset :
              table[p][fd] # NULL /\ handle' = [handle EXCEPT ![table[p][fd]].offset = o] /\ LockFree(p, table[p][fd])
        BY <2>3 DEF sys_lseek
      <3>2. PICK h \in Handles : h = table[p][fd]
        BY <1>t, <3>1 DEF TypeOK
      <3>3. handle[h] \in HandleRec /\ handle[h].filelock \in Procs \cup {NULL}
        BY <1>t, HandleFields DEF TypeOK
      <3>4. [handle[h] EXCEPT !.offset = o, !.filelock = handle[h].filelock] = [handle[h] EXCEPT !.offset = o]
        BY <3>3 DEF HandleRec
      <3>5. ~IoStart(p)
        BY <1>t, <2>3 DEF sys_lseek, IoStart, TypeOK
      <3>6. handle' = [handle EXCEPT ![h] = [handle[h] EXCEPT !.offset = o, !.filelock = handle[h].filelock]]
        BY <3>1, <3>2, <3>4
      <3> QED BY <3>1, <3>2, <3>3, <3>5, <3>6
    <2> QED BY <2>1, <2>2, <2>3
  <1>3. /\ handle[h] \in HandleRec /\ handle'[h] = [handle[h] EXCEPT !.offset = o, !.filelock = l]
        /\ \A g \in Handles : g # h => handle'[g] = handle[g]
    BY <1>t, <1>2 DEF TypeOK
  <1>4. /\ handle'[h].live = handle[h].live /\ handle'[h].references = handle[h].references
        /\ handle'[h].vnode = handle[h].vnode /\ handle'[h].offset = o /\ handle'[h].filelock = l
    BY <1>3 DEF HandleRec
  <1>5. SameHandles
    BY <1>3, <1>4 DEF SameHandles
  <1>6. Exact' /\ VnodeInv'
    BY <1>t, <1>1, <1>5, ExactKept, VnodesKept
  <1>7. \A q \in Procs \ {p} : pc[q] \in Changing => handle'[Cur(q)].references = handle[Cur(q)].references
    BY <1>5, CurHandles DEF SameHandles
  <1>8. \A q \in Procs \ {p} : pc[q] \in {"io", "dup_inc"} => handle'[Cur(q)] = handle[Cur(q)]
    <2> SUFFICES ASSUME NEW q \in Procs \ {p}, pc[q] \in {"io", "dup_inc"} PROVE handle'[Cur(q)] = handle[Cur(q)]
      OBVIOUS
    <2>1. Cur(q) # h
      BY <1>t, <1>2, LockedByOther
    <2>2. Cur(q) \in Handles
      BY CurHandles DEF Changing
    <2> QED BY <1>3, <2>1, <2>2
  <1>9. Apart' /\ SeenInv' /\ LockInv'
    <2>1. CASE IoStart(p)
      <3>1. pc'[p] = "io" /\ "io" \notin Changing
        BY <1>t, <2>1 DEF IoStart, TypeOK, Changing
      <3>2. Cur(p)' = h /\ l = p /\ loc'[p].off = o
        BY <1>2, <2>1 DEF Cur
      <3>3. \A q \in Procs \ {p, p} : q \in Procs \ {p} /\ table'[q] = table[q] /\ pc'[q] = pc[q] /\ loc'[q] = loc[q]
        BY <1>1 DEF Frame
      <3> QED BY <1>t, <1>4, <1>7, <1>8, <3>1, <3>2, <3>3, CallsKept
    <2>2. CASE IoEnd(p) \/ sys_lseek(p)
      <3>1. pc'[p] \notin Changing \cup {"io"}
        BY <1>t, <2>2 DEF IoEnd, Return, sys_lseek, TypeOK, Changing
      <3> QED BY <1>t, <1>1, <1>7, <1>8, <3>1, CallsLeft
    <2> QED BY <2>1, <2>2
  <1> QED BY <1>6, <1>9 DEF Good

\* Steps that load a count.
LEMMA GoodLoad ==
  ASSUME BaseInv, BaseInv', Good, ~raced', NEW p \in Procs, NEW to \in Changing, NEW l \in LocRec,
         LoadCount(p, to, l), l.fd \in Fds, table[p][l.fd] # NULL, to # "dup_inc",
         SameReferences, handle' = handle, vnode' = vnode, cwd' = cwd, lost' = lost, table' = table
  PROVE  Good'
  <1>t. TypeOK /\ Exact /\ Apart /\ SeenInv /\ LockInv /\ VnodeInv
    BY DEF BaseInv, Good
  <1>1. SameHandles
    BY DEF SameHandles
  <1>2. Exact' /\ VnodeInv'
    BY <1>t, <1>1, ExactKept, VnodesKept
  <1>3. Apart' /\ SeenInv' /\ LockInv'
    BY <1>t, CurHandles, CallsLoad
  <1> QED BY <1>2, <1>3 DEF Good

LEMMA GoodLoads ==
  ASSUME BaseInv, BaseInv', Good, ~raced', NEW p \in Procs,
         sys_close(p) \/ sys_dup2(p) \/ ForkLoad(p) \/ ExitTest(p)
  PROVE  Good'
  <1>t. TypeOK /\ Exact /\ Apart /\ SeenInv /\ LockInv /\ VnodeInv /\ loc[p] \in LocRec
    BY LocFields DEF BaseInv, Good
  <1>1. /\ SameReferences /\ Frame(p) /\ vnode' = vnode /\ cwd' = cwd /\ lost' = lost /\ table' = table
        /\ handle' = handle
    BY QuietStep, QuietStep2, ForkQuiet DEF sys_close, sys_dup2, ForkLoad, ExitTest
  <1>2. CASE sys_close(p)
    <2>1. PICK fd \in Fds : table[p][fd] # NULL /\ LoadCount(p, "drop", [loc[p] EXCEPT !.fd = fd, !.next = "user"])
      BY <1>2 DEF sys_close
    <2>2. PICK l \in LocRec : l = [loc[p] EXCEPT !.fd = fd, !.next = "user"] /\ l.fd = fd
      <3> DEFINE m == [loc[p] EXCEPT !.fd = fd, !.next = "user"]
      <3>1. m.fd = fd /\ m \in LocRec
        BY <1>t, LocSet DEF LocRec
      <3> QED BY <3>1
    <2>3. LoadCount(p, "drop", l) /\ l.fd \in Fds /\ table[p][l.fd] # NULL
      BY <2>1, <2>2
    <2>4. "drop" \in Changing
      BY DEF Changing
    <2> QED BY <1>1, <2>3, <2>4, GoodLoad
  <1>3. CASE sys_dup2(p)
    <2>1. PICK old \in Fds, new \in Fds :
            IF table[p][new] # NULL
            THEN LoadCount(p, "drop", [loc[p] EXCEPT !.fd = new, !.to = old, !.next = "dup"])
            ELSE pc' = [pc EXCEPT ![p] = "dup"]
      BY <1>3 DEF sys_dup2
    <2>2. PICK l \in LocRec : l = [loc[p] EXCEPT !.fd = new, !.to = old, !.next = "dup"] /\ l.fd = new
      <3> DEFINE m == [loc[p] EXCEPT !.fd = new, !.to = old, !.next = "dup"]
      <3>1. m.fd = new /\ m \in LocRec
        BY <1>t, LocSet DEF LocRec
      <3> QED BY <3>1
    <2>3. CASE table[p][new] # NULL
      <3>1. LoadCount(p, "drop", l) /\ l.fd \in Fds /\ table[p][l.fd] # NULL
        BY <2>1, <2>2, <2>3
      <3>2. "drop" \in Changing
        BY DEF Changing
      <3> QED BY <1>1, <3>1, <3>2, GoodLoad
    <2>4. CASE table[p][new] = NULL
      <3>1. pc'[p] \notin Changing \cup {"io"}
        BY <1>t, <2>1, <2>4 DEF TypeOK, Changing
      <3>2. Apart' /\ SeenInv' /\ LockInv'
        BY <1>t, <1>1, <3>1, CallsLeft
      <3>3. SameHandles
        BY <1>1 DEF SameHandles
      <3> QED BY <1>t, <1>1, <3>2, <3>3, ExactKept, VnodesKept DEF Good
    <2> QED BY <2>3, <2>4
  <1>4. CASE ForkLoad(p) \/ ExitTest(p)
    <2>1. PICK to \in {"fork_inc", "drop"} : LoadCount(p, to, loc[p]) /\ loc[p].fd \in Fds /\ table[p][loc[p].fd] # NULL
      BY <1>t, <1>4, LocFields, FdsFacts DEF ForkLoad, ExitTest, Cur
    <2>2. to \in Changing /\ to # "dup_inc"
      BY DEF Changing
    <2> QED BY <1>t, <1>1, <2>1, <2>2, GoodLoad
  <1> QED BY <1>2, <1>3, <1>4

LEMMA GoodDupLock ==
  ASSUME BaseInv, BaseInv', Good, ~raced', NEW p \in Procs, sys_dup2_Lock(p)
  PROVE  Good'
  <1>t. TypeOK /\ Exact /\ Apart /\ SeenInv /\ LockInv /\ VnodeInv /\ loc[p] \in LocRec
    BY LocFields DEF BaseInv, Good
  <1>1. SameReferences /\ vnode' = vnode /\ cwd' = cwd /\ lost' = lost /\ table' = table
    BY QuietStep2 DEF sys_dup2_Lock
  <1>2. PICK h \in Handles : h = Cur(p) /\ LockFree(p, h) /\ handle' = [handle EXCEPT ![h].filelock = p] /\ loc[p].fd \in Fds
    BY BusyHeld DEF Busy, sys_dup2_Lock
  <1>3. /\ handle[h] \in HandleRec /\ handle'[h] = [handle[h] EXCEPT !.filelock = p]
        /\ \A g \in Handles : g # h => handle'[g] = handle[g]
    BY <1>t, <1>2 DEF TypeOK
  <1>4. /\ handle'[h].live = handle[h].live /\ handle'[h].references = handle[h].references
        /\ handle'[h].vnode = handle[h].vnode /\ handle'[h].filelock = p
    BY <1>3 DEF HandleRec
  <1>5. SameHandles
    BY <1>3, <1>4 DEF SameHandles
  <1>6. Exact' /\ VnodeInv'
    BY <1>t, <1>1, <1>5, ExactKept, VnodesKept
  <1>7. ASSUME NEW q \in Procs \ {p}, pc[q] \in {"io", "dup_inc"} PROVE handle'[Cur(q)] = handle[Cur(q)]
    <2>1. Cur(q) # h
      BY <1>t, <1>2, <1>7, LockedByOther
    <2>2. Cur(q) \in Handles
      BY <1>7, CurHandles DEF Changing
    <2> QED BY <1>3, <2>1, <2>2
  <1>8. LoadCount(p, "dup_inc", loc[p]) /\ "dup_inc" \in Changing /\ table[p][loc[p].fd] = h /\ h # NULL
    BY <1>2, FileTableAssumption DEF sys_dup2_Lock, Changing, Cur
  <1>9. \A g \in Handles : handle'[g].references = handle[g].references
    BY <1>5 DEF SameHandles
  <1>10. Apart' /\ SeenInv' /\ LockInv'
    BY <1>t, <1>1, <1>2, <1>4, <1>7, <1>8, <1>9, CurHandles, CallsLoad
  <1> QED BY <1>6, <1>10 DEF Good

\* Steps that store a count: the handle keeps everything but its count and,
\* in dup2, its lock; and one reference r is gained or lost with it.
LEMMA GoodCounted ==
  ASSUME BaseInv, BaseInv', Good, NEW p \in Procs, pc[p] \in Changing, Frame(p), pc'[p] \notin Changing \cup {"io"},
         NEW h \in Handles, h = Cur(p), NEW n \in Int, NEW l, l = handle[h].filelock \/ pc[p] = "dup_inc",
         handle' = [handle EXCEPT ![h] = [handle[h] EXCEPT !.references = n, !.filelock = l]],
         vnode' = vnode, cwd' = cwd, lost' = lost,
         Cardinality(References(h)') = n,
         \A g \in Handles : g # h => References(g)' = References(g)
  PROVE  Good'
  <1>t. TypeOK /\ Exact /\ Apart /\ SeenInv /\ LockInv /\ VnodeInv
    BY DEF BaseInv, Good
  <1>1. /\ handle[h] \in HandleRec /\ handle'[h] = [handle[h] EXCEPT !.references = n, !.filelock = l]
        /\ \A g \in Handles : g # h => handle'[g] = handle[g]
    BY <1>t DEF TypeOK
  <1>2. /\ handle'[h].live = handle[h].live /\ handle'[h].references = n
        /\ handle'[h].vnode = handle[h].vnode /\ handle'[h].filelock = l /\ handle'[h].offset = handle[h].offset
    <2>1. PICK r \in HandleRec : r = handle[h]
      BY <1>1
    <2>2. PICK s : s = handle'[h]
      OBVIOUS
    <2>3. s = [r EXCEPT !.references = n, !.filelock = l]
      BY <1>1, <2>1, <2>2
    <2>4. s.live = r.live /\ s.references = n /\ s.vnode = r.vnode /\ s.filelock = l /\ s.offset = r.offset
      BY <2>3 DEF HandleRec
    <2> QED BY <2>1, <2>2, <2>4
  <1>3. handle[h].live
    BY <1>t, BusyLive DEF Changing, Busy
  <1>4. Exact'
    <2> SUFFICES ASSUME NEW g \in Handles
                 PROVE  /\ handle'[g].live => handle'[g].references = Cardinality(References(g)')
                        /\ ~handle'[g].live => References(g)' = {}
      BY DEF Exact
    <2>1. CASE g = h
      BY <1>2, <1>3, <2>1
    <2>2. CASE g # h
      BY <1>t, <1>1, <2>2 DEF Exact
    <2> QED BY <2>1, <2>2
  <1>5. \A q \in Procs \ {p} : pc[q] \in Changing => handle'[Cur(q)].references = handle[Cur(q)].references
    <2> SUFFICES ASSUME NEW q \in Procs \ {p}, pc[q] \in Changing
                 PROVE  handle'[Cur(q)].references = handle[Cur(q)].references
      OBVIOUS
    <2>1. Cur(q) # h /\ Cur(q) \in Handles
      BY <1>t, CurHandles DEF Apart
    <2> QED BY <1>1, <2>1
  <1>6. ASSUME NEW q \in Procs \ {p}, pc[q] \in {"io", "dup_inc"}
        PROVE  handle'[Cur(q)].filelock = handle[Cur(q)].filelock /\ handle'[Cur(q)].offset = handle[Cur(q)].offset
    <2>1. Cur(q) \in Handles
      BY <1>6, CurHandles DEF Changing
    <2>2. CASE l = handle[h].filelock
      BY <1>1, <1>2, <2>1, <2>2
    <2>3. CASE pc[p] = "dup_inc"
      <3>1. LockFree(p, h)
        BY <1>t, <2>3 DEF LockInv, LockFree
      <3>2. Cur(q) # h
        BY <1>t, <1>6, <3>1, LockedByOther
      <3> QED BY <1>1, <2>1, <3>2
    <2> QED BY <2>2, <2>3
  <1>7. Apart' /\ SeenInv' /\ LockInv'
    BY <1>t, <1>5, <1>6, CallsLeft
  <1>8. VnodeInv'
    <2>1. \A v : OpenHandles(v)' = OpenHandles(v) /\ Visitors(v)' = Visitors(v)
      BY <1>1, <1>2 DEF OpenHandles, Visitors
    <2> QED BY <1>t, <2>1 DEF VnodeInv
  <1> QED BY <1>4, <1>7, <1>8 DEF Good

\* The count that is stored is the present one, changed by d.
LEMMA StoredCount ==
  ASSUME BaseInv, Good, NEW p \in Procs, pc[p] \in Changing, NEW d \in Int, NEW n \in NewCounts(p, d)
  PROVE  /\ Cur(p) \in Handles /\ handle[Cur(p)].live
         /\ n = Cardinality(References(Cur(p))) + d /\ n \in Int
         /\ loc[p].seen = Cardinality(References(Cur(p)))
  <1>1. Cur(p) \in Handles /\ handle[Cur(p)].live
    BY BusyLive DEF Changing, Busy, Good
  <1>2. loc[p].seen = handle[Cur(p)].references
    BY DEF Good, SeenInv
  <1>3. handle[Cur(p)].references = Cardinality(References(Cur(p)))
    BY <1>1 DEF Good, Exact
  <1>4. Cardinality(References(Cur(p))) \in Nat
    BY RefsFinite
  <1> QED BY <1>1, <1>2, <1>3, <1>4 DEF NewCounts

LEMMA SameRecord ==
  ASSUME NEW r \in HandleRec, NEW n
  PROVE  [r EXCEPT !.references = n] = [r EXCEPT !.references = n, !.filelock = r.filelock]
  BY DEF HandleRec

LEMMA GoodDropCounted ==
  ASSUME BaseInv, BaseInv', Good, NEW p \in Procs, DropCounted(p)
  PROVE  Good'
  <1>1. PICK n \in NewCounts(p, -1) : handle' = [handle EXCEPT ![Cur(p)].references = n]
    BY DEF DropCounted
  <1>2. pc[p] = "drop" /\ pc[p] \in Changing /\ Dropped(p) /\ vnode' = vnode /\ cwd' = cwd /\ lost' = lost
    BY DEF DropCounted, Changing
  <1>3. PICK h \in Handles : h = Cur(p)
    BY <1>1, <1>2, StoredCount
  <1>4. n = Cardinality(References(h)) + (-1) /\ n \in Int /\ Cardinality(References(h)) \in Nat
    BY <1>1, <1>2, <1>3, StoredCount, RefsFinite
  <1>5. PICK f \in Fds : f = loc[p].fd
    BY <1>2, BusyHeld DEF Busy
  <1>6. /\ Frame(p) /\ pc'[p] \notin Changing \cup {"io"} /\ Ref(p, f, h)
        /\ \A q \in Procs, fd \in Fds, g \in Handles : Ref(q, fd, g)' <=> (Ref(q, fd, g) /\ ~(g = h /\ q = p /\ fd = f))
    BY <1>2, <1>3, <1>5, DroppedRefs DEF Changing
  <1>7. Cardinality(References(h)') = Cardinality(References(h)) - 1
    BY <1>6, OneLessRef
  <1>8. \A g \in Handles : g # h => References(g)' = References(g)
    BY <1>6, SameRefs
  <1>9. handle[h] \in HandleRec
    BY DEF BaseInv, TypeOK
  <1>10. handle' = [handle EXCEPT ![h] = [handle[h] EXCEPT !.references = n, !.filelock = handle[h].filelock]]
    BY <1>1, <1>3, <1>9, SameRecord
  <1>11. Cardinality(References(h)') = n
    BY <1>4, <1>7
  <1> QED BY <1>2, <1>3, <1>4, <1>6, <1>8, <1>10, <1>11, GoodCounted

LEMMA GoodForkCount ==
  ASSUME BaseInv, BaseInv', Good, NEW p \in Procs, ForkCount(p)
  PROVE  Good'
  <1>1. PICK n \in NewCounts(p, 1) : handle' = [handle EXCEPT ![Cur(p)].references = n]
    BY DEF ForkCount
  <1>2. pc[p] = "fork_inc" /\ pc[p] \in Changing /\ vnode' = vnode /\ cwd' = cwd /\ lost' = lost
    BY DEF ForkCount, Changing
  <1>3. PICK h \in Handles : h = Cur(p)
    BY <1>1, <1>2, StoredCount
  <1>4. n = Cardinality(References(h)) + 1 /\ n \in Int
    BY <1>1, <1>2, <1>3, StoredCount
  <1>5. PICK f \in Fds, k \in Procs : f = loc[p].fd /\ k = loc[p].kid
    BY <1>2, BusyHeld, ForkCountRefs DEF Busy
  <1>6. /\ Frame(p) /\ pc'[p] \notin Changing \cup {"io"} /\ ~Ref(k, f, h)
        /\ \A q \in Procs, fd \in Fds, g \in Handles : Ref(q, fd, g)' <=> (Ref(q, fd, g) \/ (g = h /\ q = k /\ fd = f))
    BY <1>2, <1>3, <1>5, ForkCountRefs DEF Changing
  <1>7. Cardinality(References(h)') = n
    BY <1>4, <1>6, OneMoreRef
  <1>8. \A g \in Handles : g # h => References(g)' = References(g)
    BY <1>6, SameRefs
  <1>9. handle[h] \in HandleRec
    BY DEF BaseInv, TypeOK
  <1>10. handle' = [handle EXCEPT ![h] = [handle[h] EXCEPT !.references = n, !.filelock = handle[h].filelock]]
    BY <1>1, <1>3, <1>9, SameRecord
  <1> QED BY <1>2, <1>3, <1>4, <1>6, <1>7, <1>8, <1>10, GoodCounted

LEMMA GoodDupCount ==
  ASSUME BaseInv, BaseInv', Good, NEW p \in Procs, sys_dup2_Count(p)
  PROVE  Good'
  <1>t. TypeOK
    BY DEF BaseInv
  <1>1. PICK n \in NewCounts(p, 1) : handle' = [handle EXCEPT ![Cur(p)].references = n, ![Cur(p)].filelock = NULL]
    BY DEF sys_dup2_Count
  <1>2. pc[p] = "dup_inc" /\ pc[p] \in Changing /\ vnode' = vnode /\ cwd' = cwd /\ lost' = lost
    BY DEF sys_dup2_Count, Changing
  <1>3. PICK h \in Handles : h = Cur(p)
    BY <1>1, <1>2, StoredCount
  <1>4. n = Cardinality(References(h)) + 1 /\ n \in Int
    BY <1>1, <1>2, <1>3, StoredCount
  <1>5. PICK f \in Fds : f = loc[p].fd
    BY <1>2, BusyHeld DEF Busy
  <1>6. /\ Frame(p) /\ pc'[p] \notin Changing \cup {"io"} /\ ~Ref(p, f, h)
        /\ \A q \in Procs, fd \in Fds, g \in Handles : Ref(q, fd, g)' <=> (Ref(q, fd, g) \/ (g = h /\ q = p /\ fd = f))
    BY <1>2, <1>3, <1>5, DupCountRefs DEF Changing
  <1>7. Cardinality(References(h)') = n
    BY <1>4, <1>6, OneMoreRef
  <1>8. \A g \in Handles : g # h => References(g)' = References(g)
    BY <1>6, SameRefs
  <1>9. handle' = [handle EXCEPT ![h] = [handle[h] EXCEPT !.references = n, !.filelock = NULL]]
    BY <1>t, <1>1, <1>3 DEF TypeOK
  <1> QED BY <1>2, <1>3, <1>4, <1>6, <1>7, <1>8, <1>9, GoodCounted


\* The last reference: handle, vnode and descriptor go together.
LEMMA GoodDropLast ==
  ASSUME BaseInv, BaseInv', Good, NEW p \in Procs, DropLast(p)
  PROVE  Good'
  <1>t. TypeOK /\ Exact /\ Apart /\ SeenInv /\ LockInv /\ VnodeInv
    BY DEF BaseInv, Good
  <1>1. /\ pc[p] = "drop" /\ Busy(p) /\ Dropped(p) /\ cwd' = cwd /\ lost' = lost /\ loc[p].seen =< 1
        /\ vnode' = vfs_close(vnode, handle[Cur(p)].vnode) /\ handle' = [handle EXCEPT ![Cur(p)] = Freed]
    BY DEF DropLast, Busy
  <1>2. PICK h \in Handles : h = Cur(p) /\ handle[h].live
    BY <1>t, <1>1, BusyLive
  <1>3. handle[h].references =< 1
    BY <1>t, <1>1, <1>2 DEF SeenInv, Changing
  <1>4. PICK f \in Fds : f = loc[p].fd
    BY <1>1, BusyHeld
  <1>5. /\ Frame(p) /\ pc'[p] \notin Changing \cup {"io"}
        /\ \A q \in Procs, fd \in Fds, g \in Handles : Ref(q, fd, g)' <=> (Ref(q, fd, g) /\ ~(g = h /\ q = p /\ fd = f))
        /\ Ref(p, f, h)
    BY <1>1, <1>2, <1>4, DroppedRefs DEF Changing
  <1>6. References(h) = {<<p, f>>}
    BY <1>t, <1>1, <1>2, <1>3, <1>4, LastOne
  <1>7. References(h)' = {}
    BY <1>5, <1>6, OneLessRef
  <1>8. \A g \in Handles : g # h => References(g)' = References(g)
    BY <1>5, SameRefs
  <1>9. handle'[h] = Freed /\ \A g \in Handles : g # h => handle'[g] = handle[g]
    BY <1>t, <1>1, <1>2 DEF TypeOK
  <1>10. ~Freed.live
    BY DEF Freed
  <1>11. Exact'
    BY <1>t, <1>7, <1>8, <1>9, <1>10 DEF Exact
  <1>12. ASSUME NEW q \in Procs \ {p}, pc[q] \in Changing \cup {"io"} PROVE handle'[Cur(q)] = handle[Cur(q)]
    <2>1. Busy(q) /\ Cur(q) \in Handles
      BY <1>12, CurHandles
    <2>2. Cur(q) # h
      BY <1>t, <1>1, <1>2, <1>3, <1>12, <2>1, NobodyElse
    <2> QED BY <1>9, <2>1, <2>2
  <1>13. Apart' /\ SeenInv' /\ LockInv'
    <2>1. {"io", "dup_inc"} \subseteq Changing \cup {"io"}
      BY DEF Changing
    <2> QED BY <1>t, <1>5, <1>12, <2>1, CallsLeft
  <1>14. PICK u \in Vnodes : u = handle[h].vnode
    BY <1>t, HandleFields DEF TypeOK
  <1>15. VnodeInv'
    <2>1. vnode \in [Vnodes -> [opencount: Int, refcount: Int]] /\ u \in Vnodes \cup {NULL} /\ u # NULL
      BY <1>t, FileTableAssumption DEF TypeOK
    <2>2. vnode' = vfs_close(vnode, u)
      BY <1>1, <1>2, <1>14
    <2>3. vnode'[u].opencount = vnode[u].opencount + (-1) /\ vnode'[u].refcount = vnode[u].refcount + (-1)
      BY <2>1, <2>2 DEF vfs_close
    <2>4. \A v \in Vnodes : v # u => vnode'[v] = vnode[v]
      BY <2>1, <2>2 DEF vfs_close
    <2>5. \A v \in Vnodes : OpenHandles(v)' = IF v = u THEN OpenHandles(v) \ {h} ELSE OpenHandles(v)
      BY <1>2, <1>9, <1>10, <1>14 DEF OpenHandles
    <2>6. h \in OpenHandles(u)
      BY <1>2, <1>14 DEF OpenHandles
    <2>7. Cardinality(OpenHandles(u)') = Cardinality(OpenHandles(u)) + (-1)
      <3>1. Cardinality(OpenHandles(u) \ {h}) = Cardinality(OpenHandles(u)) - 1
        BY <2>6, CountsAreNats, FS_RemoveElement
      <3> QED BY <2>5, <3>1, CountsAreNats
    <2> QED BY <1>t, <1>1, <2>3, <2>4, <2>5, <2>7, VnodesOpened
  <1> QED BY <1>11, <1>13, <1>15 DEF Good

\* New handles, one for each descriptor of a set, on one vnode.
LEMMA GoodOpened ==
  ASSUME BaseInv, BaseInv', Good, NEW p \in Procs, NEW hs \in [Fds -> Handles \cup {NULL}], NEW u \in Vnodes, NEW new,
         Frame(p), pc[p] \in {"menu", "user"}, pc'[p] = "user", cwd' = cwd, lost' = lost,
         \A fd \in Fds : hs[fd] # NULL => table[p][fd] = NULL /\ ~handle[hs[fd]].live,
         \A fd, e \in Fds : hs[fd] # NULL /\ hs[fd] = hs[e] => fd = e,
         \A fd \in Fds : table'[p][fd] = IF hs[fd] # NULL THEN hs[fd] ELSE table[p][fd],
         new = [live |-> TRUE, references |-> 1, vnode |-> u, offset |-> 0, filelock |-> NULL],
         \A h \in Handles : handle'[h] = IF \E fd \in Fds : hs[fd] = h THEN new ELSE handle[h],
         \A v \in Vnodes : v # u => vnode'[v] = vnode[v],
         vnode'[u].opencount = vnode[u].opencount + Cardinality({fd \in Fds : hs[fd] # NULL}),
         vnode'[u].refcount = vnode[u].refcount + Cardinality({fd \in Fds : hs[fd] # NULL})
  PROVE  Good'
  <1> DEFINE fds == {fd \in Fds : hs[fd] # NULL}
             fresh == {h \in Handles : \E fd \in Fds : hs[fd] = h}
  <1>t. TypeOK /\ Exact /\ Apart /\ SeenInv /\ LockInv /\ VnodeInv
    BY DEF BaseInv, Good
  <1>0. new.live = TRUE /\ new.references = 1 /\ new.vnode = u
    OBVIOUS
  <1>1. \A q \in Procs, fd \in Fds, h \in Handles : Ref(q, fd, h)' <=> (Ref(q, fd, h) \/ (q = p /\ hs[fd] = h))
    BY OpenRefs
  <1>2. Exact'
    <2> SUFFICES ASSUME NEW h \in Handles
                 PROVE  /\ handle'[h].live => handle'[h].references = Cardinality(References(h)')
                        /\ ~handle'[h].live => References(h)' = {}
      BY DEF Exact
    <2>1. CASE h \notin fresh
      <3>1. References(h)' = References(h)
        BY <1>1, <2>1, SameRefs
      <3>2. handle'[h] = handle[h]
        BY <2>1
      <3> QED BY <1>t, <3>1, <3>2 DEF Exact
    <2>2. CASE h \in fresh
      <3>1. PICK f \in Fds : hs[f] = h
        BY <2>2
      <3>2. hs[f] # NULL /\ ~handle[h].live
        BY <3>1, FileTableAssumption
      <3>3. References(h) = {}
        BY <1>t, <3>2 DEF Exact
      <3>4. ~Ref(p, f, h)
        BY <3>3, RefsFinite
      <3>5. \A q \in Procs, fd \in Fds : Ref(q, fd, h)' <=> (Ref(q, fd, h) \/ (q = p /\ fd = f))
        BY <1>1, <3>1, <3>2
      <3>6. Cardinality(References(h)') = Cardinality(References(h)) + 1
        BY <3>4, <3>5, OneMoreRef
      <3>7. Cardinality(References(h)') = 1
        BY <3>3, <3>6, FS_EmptySet
      <3>8. handle'[h] = new
        BY <3>1
      <3> QED BY <1>0, <3>7, <3>8
    <2> QED BY <2>1, <2>2
  <1>3. ASSUME NEW q \in Procs \ {p}, pc[q] \in Changing \cup {"io"} PROVE handle'[Cur(q)] = handle[Cur(q)]
    <2>1. Cur(q) \in Handles /\ handle[Cur(q)].live
      BY <1>t, <1>3, CurHandles, BusyLive
    <2>2. ~\E fd \in Fds : hs[fd] = Cur(q)
      BY <2>1, FileTableAssumption
    <2> QED BY <2>1, <2>2
  <1>4. pc'[p] \notin Changing \cup {"io"} /\ {"io", "dup_inc"} \subseteq Changing \cup {"io"}
    BY DEF Changing
  <1>5. Apart' /\ SeenInv' /\ LockInv'
    BY <1>t, <1>3, <1>4, CallsLeft
  <1>6. ASSUME NEW v \in Vnodes PROVE OpenHandles(v)' = IF v = u THEN OpenHandles(v) \cup fresh ELSE OpenHandles(v)
    <2>1. ASSUME NEW h \in Handles PROVE (handle'[h].live /\ handle'[h].vnode = v) <=>
                                         ((handle[h].live /\ handle[h].vnode = v) \/ (v = u /\ h \in fresh))
      <3>1. CASE h \in fresh
        <4>1. handle'[h] = new /\ ~handle[h].live
          <5>1. PICK fd \in Fds : hs[fd] = h
            BY <3>1
          <5>2. hs[fd] # NULL
            BY <5>1, FileTableAssumption
          <5>3. ~handle[h].live
            BY <5>1, <5>2
          <5>4. handle'[h] = new
            BY <5>1
          <5> QED BY <5>3, <5>4
        <4> HIDE DEF fresh
        <4> QED BY <1>0, <3>1, <4>1
      <3>2. CASE h \notin fresh
        <4>1. handle'[h] = handle[h]
          BY <3>2
        <4> HIDE DEF fresh
        <4> QED BY <3>2, <4>1
      <3> QED BY <3>1, <3>2
    <2>2. fresh \subseteq Handles
      OBVIOUS
    <2> HIDE DEF fresh
    <2> QED BY <2>1, <2>2 DEF OpenHandles
  <1>7. IsFiniteSet(fds) /\ Cardinality(fds) \in Nat
    <2>1. IsFiniteSet(Fds) /\ fds \subseteq Fds
      BY FS_Interval, FileTableAssumption DEF Fds
    <2> QED BY <2>1, FS_Subset, FS_CardinalityType
  <1>8. IsFiniteSet(fresh) /\ Cardinality(fresh) = Cardinality(fds)
    <2> DEFINE b == [fd \in fds |-> hs[fd]]
    <2>1. b \in [fds -> fresh]
      OBVIOUS
    <2>2. \A x, y \in fds : b[x] = b[y] => x = y
      OBVIOUS
    <2>3. \A h \in fresh : \E fd \in fds : b[fd] = h
      BY FileTableAssumption
    <2>4. b \in Bijection(fds, fresh)
      <3> HIDE DEF b, fds, fresh
      <3>1. b \in Injection(fds, fresh)
        BY <2>1, <2>2 DEF Injection, IsInjective
      <3>2. b \in Surjection(fds, fresh)
        BY <2>1, <2>3 DEF Surjection
      <3> QED BY <3>1, <3>2 DEF Bijection
    <2>5. ExistsBijection(fds, fresh)
      <3> HIDE DEF b, fds, fresh
      <3> QED BY <2>4 DEF ExistsBijection
    <2> HIDE DEF b, fds, fresh
    <2> QED BY <1>7, <2>5, FS_Bijection
  <1>9. OpenHandles(u) \cap fresh = {}
    BY FileTableAssumption DEF OpenHandles
  <1>10. Cardinality(OpenHandles(u)') = Cardinality(OpenHandles(u)) + Cardinality(fds)
    <2> HIDE DEF fds, fresh
    <2>1. OpenHandles(u)' = OpenHandles(u) \cup fresh
      BY <1>6
    <2>2. Cardinality(OpenHandles(u) \cup fresh) = Cardinality(OpenHandles(u)) + Cardinality(fresh) - Cardinality({})
      BY <1>8, <1>9, CountsAreNats, FS_Union
    <2>3. Cardinality({}) = 0
      BY FS_EmptySet
    <2> QED BY <1>7, <1>8, <2>1, <2>2, <2>3, CountsAreNats
  <1>11. VnodeInv'
    <2>1. \A v \in Vnodes : v # u => vnode'[v] = vnode[v] /\ OpenHandles(v)' = OpenHandles(v)
      BY <1>6
    <2>2. PICK n \in Nat : n = Cardinality(fds)
      BY <1>7
    <2>3. vnode'[u].opencount = vnode[u].opencount + n /\ vnode'[u].refcount = vnode[u].refcount + n
      BY <2>2
    <2> HIDE DEF fds, fresh
    <2>4. n \in Int /\ Cardinality(OpenHandles(u)') = Cardinality(OpenHandles(u)) + n
      BY <1>10, <2>2
    <2> QED BY <1>t, <2>1, <2>3, <2>4, VnodesOpened
  <1> QED BY <1>2, <1>5, <1>11 DEF Good


LEMMA GoodOpen ==
  ASSUME BaseInv, BaseInv', Good, NEW p \in Procs, sys_open(p)
  PROVE  Good'
  <1>t. TypeOK
    BY DEF BaseInv
  <1>1. PICK f \in Fds, h \in Handles, u \in Vnodes :
          /\ table[p][f] = NULL /\ ~handle[h].live
          /\ table' = [table EXCEPT ![p][f] = h]
          /\ handle' = [handle EXCEPT ![h] = [live |-> TRUE, references |-> 1,
                            vnode |-> u, offset |-> 0, filelock |-> NULL]]
          /\ vnode' = vfs_open(vnode, u)
    BY DEF sys_open
  <1>2. Frame(p) /\ pc[p] \in {"menu", "user"} /\ pc'[p] = "user" /\ cwd' = cwd /\ lost' = lost
    BY <1>t, <1>1 DEF sys_open, Frame, TypeOK
  <1>3. PICK hs \in [Fds -> Handles \cup {NULL}] : hs = [fd \in Fds |-> IF fd = f THEN h ELSE NULL]
    OBVIOUS
  <1>4. /\ hs[f] = h /\ \A fd \in Fds : fd # f => hs[fd] = NULL
        /\ h # NULL
    BY <1>3, FileTableAssumption
  <1>5. {fd \in Fds : hs[fd] # NULL} = {f}
    BY <1>4
  <1>6. Cardinality({fd \in Fds : hs[fd] # NULL}) = 1
    BY <1>5, FS_Singleton
  <1>7. PICK new : new = [live |-> TRUE, references |-> 1, vnode |-> u, offset |-> 0, filelock |-> NULL]
    OBVIOUS
  <1>8. \A g \in Handles : handle'[g] = IF \E fd \in Fds : hs[fd] = g THEN new ELSE handle[g]
    BY <1>t, <1>1, <1>4, <1>7, FileTableAssumption DEF TypeOK
  <1>9. \A fd \in Fds : table'[p][fd] = IF hs[fd] # NULL THEN hs[fd] ELSE table[p][fd]
    BY <1>t, <1>1, <1>4 DEF TypeOK
  <1>10. /\ \A v \in Vnodes : v # u => vnode'[v] = vnode[v]
         /\ vnode'[u].opencount = vnode[u].opencount + 1 /\ vnode'[u].refcount = vnode[u].refcount + 1
    BY <1>t, <1>1 DEF TypeOK, vfs_open
  <1>11. /\ \A fd \in Fds : hs[fd] # NULL => table[p][fd] = NULL /\ ~handle[hs[fd]].live
         /\ \A fd, e \in Fds : hs[fd] # NULL /\ hs[fd] = hs[e] => fd = e
    BY <1>1, <1>4
  <1> QED BY <1>2, <1>6, <1>7, <1>8, <1>9, <1>10, <1>11, GoodOpened

LEMMA GoodStart ==
  ASSUME BaseInv, BaseInv', Good, NEW p \in Procs, init_filetable(p)
  PROVE  Good'
  <1>t. TypeOK /\ StdFds \subseteq Fds
    BY FileTableAssumption DEF BaseInv
  <1>1. PICK ks \in [StdFds -> {h \in Handles : ~handle[h].live}] :
          /\ \A i, j \in StdFds : i # j => ks[i] # ks[j]
          /\ table' = [table EXCEPT ![p] = [fd \in Fds |-> IF fd \in StdFds THEN ks[fd] ELSE NULL]]
          /\ handle' = [h \in Handles |->
                IF \E i \in StdFds : ks[i] = h
                THEN [live |-> TRUE, references |-> 1, vnode |-> Console,
                      offset |-> 0, filelock |-> NULL]
                ELSE handle[h]]
    BY DEF init_filetable
  <1>2. Frame(p) /\ pc[p] = "menu" /\ pc[p] \in {"menu", "user"} /\ pc'[p] = "user" /\ cwd' = cwd /\ lost' = lost
    BY <1>t, <1>1 DEF init_filetable, Frame, TypeOK
  <1>3. PICK hs \in [Fds -> Handles \cup {NULL}] : hs = [fd \in Fds |-> IF fd \in StdFds THEN ks[fd] ELSE NULL]
    BY <1>1
  <1>4. \A fd \in Fds : /\ fd \in StdFds => hs[fd] = ks[fd] /\ hs[fd] \in Handles /\ hs[fd] # NULL /\ ~handle[hs[fd]].live
                        /\ fd \notin StdFds => hs[fd] = NULL
    BY <1>1, <1>3, FileTableAssumption
  <1>5. {fd \in Fds : hs[fd] # NULL} = StdFds
    BY <1>t, <1>4
  <1>6. \A fd \in Fds : table[p][fd] = NULL
    BY <1>2 DEF BaseInv, IdleOK, NoFiles
  <1>7. PICK new : new = [live |-> TRUE, references |-> 1, vnode |-> Console, offset |-> 0, filelock |-> NULL]
    OBVIOUS
  <1>8. \A g \in Handles : handle'[g] = IF \E fd \in Fds : hs[fd] = g THEN new ELSE handle[g]
    <2> SUFFICES ASSUME NEW g \in Handles PROVE handle'[g] = IF \E fd \in Fds : hs[fd] = g THEN new ELSE handle[g]
      OBVIOUS
    <2>1. (\E fd \in Fds : hs[fd] = g) <=> (\E i \in StdFds : ks[i] = g)
      BY <1>t, <1>4, FileTableAssumption
    <2> QED BY <1>1, <1>7, <2>1
  <1>9. \A fd \in Fds : table'[p][fd] = IF hs[fd] # NULL THEN hs[fd] ELSE table[p][fd]
    BY <1>t, <1>1, <1>4, <1>6 DEF TypeOK
  <1>10. Console \in Vnodes /\ vnode' = [vnode EXCEPT ![Console] =
                   [opencount |-> @.opencount + Cardinality(StdFds), refcount  |-> @.refcount + Cardinality(StdFds)]]
    BY DEF init_filetable, Vnodes
  <1>11. /\ \A v \in Vnodes : v # Console => vnode'[v] = vnode[v]
         /\ vnode'[Console].opencount = vnode[Console].opencount + Cardinality(StdFds)
         /\ vnode'[Console].refcount = vnode[Console].refcount + Cardinality(StdFds)
    BY <1>t, <1>10 DEF TypeOK
  <1>12. /\ \A fd \in Fds : hs[fd] # NULL => table[p][fd] = NULL /\ ~handle[hs[fd]].live
         /\ \A fd, e \in Fds : hs[fd] # NULL /\ hs[fd] = hs[e] => fd = e
    BY <1>1, <1>4, <1>6
  <1> QED BY <1>2, <1>5, <1>7, <1>8, <1>9, <1>10, <1>11, <1>12, GoodOpened

-----------------------------------------------------------------------------
LEMMA InitIInv == Init => IInv
  <1> SUFFICES ASSUME Init PROVE IInv
    OBVIOUS
  <1>1. BaseInv
    BY InitBase
  <1>2. ASSUME NEW p \in Procs PROVE pc[p] \in {"menu", "unborn"} /\ table[p] = NoFiles /\ cwd[p] = NULL
    BY <1>2 DEF Init
  <1>3. ASSUME NEW h \in Handles PROVE References(h) = {} /\ ~handle[h].live
    <2>1. ~handle[h].live
      BY <1>3 DEF Init, Freed
    <2>2. ASSUME NEW q \in Procs, NEW fd \in Fds PROVE ~Ref(q, fd, h)
      BY <1>2, <1>3, <2>2, OwnRefIs, FileTableAssumption DEF NoFiles, Ref, ChildRef
    <2> QED BY <2>1, <2>2 DEF References, Ref
  <1>4. Exact
    BY <1>3 DEF Exact
  <1>5. Apart /\ SeenInv /\ LockInv
    BY <1>2 DEF Apart, SeenInv, LockInv, Changing
  <1>6. VnodeInv
    <2>1. ASSUME NEW v \in Vnodes PROVE OpenHandles(v) = {} /\ Visitors(v) = {}
      BY <1>2, <1>3, <2>1, FileTableAssumption DEF OpenHandles, Visitors
    <2>2. Cardinality({}) = 0
      BY FS_EmptySet
    <2>3. \A v \in Vnodes : vnode[v].opencount = 0 /\ vnode[v].refcount = 0 /\ lost[v] = 0
      BY DEF Init
    <2> QED BY <2>1, <2>2, <2>3 DEF VnodeInv
  <1> QED BY <1>1, <1>4, <1>5, <1>6 DEF IInv, Good

LEMMA StepIInv == IInv /\ [Next]_vars => IInv'
  <1> SUFFICES ASSUME IInv, [Next]_vars PROVE IInv'
    OBVIOUS
  <1>1. BaseInv /\ BaseInv'
    BY BaseStep DEF IInv
  <1> SUFFICES ASSUME ~raced' PROVE Good'
    BY <1>1 DEF IInv
  <1>2. ~raced
    <2>1. ASSUME NEW p \in Procs, NEW to, NEW l, LoadCount(p, to, l) PROVE ~raced
      BY <2>1 DEF LoadCount
    <2> QED BY <2>1, ZenonT(60) DEF Next, vars, init_filetable, sys_open, sys_open_StatFails, sys_chdir, IoStart, IoEnd, sys_lseek,
               sys_close, DropCounted, DropLast, sys_dup2, sys_dup2_Assign, sys_dup2_Lock, sys_dup2_Count,
               thread_fork, ForkLoad, ForkCount, Skip, ForkCopy, thread_exit, ExitTest, ExitDone
  <1>3. Good
    BY <1>2 DEF IInv
  <1>4. CASE UNCHANGED vars
    <2>1. table' = table /\ cwd' = cwd /\ handle' = handle /\ vnode' = vnode /\ lost' = lost /\ pc' = pc /\ loc' = loc
      BY <1>4 DEF vars
    <2>2. ASSUME NEW h \in Handles PROVE References(h)' = References(h)
      BY <2>1 DEF References, OwnRef, ChildRef, Held
    <2>3. Exact'
      BY <1>3, <2>1, <2>2 DEF Good, Exact
    <2>4. Apart' /\ SeenInv'
      BY <1>3, <2>1 DEF Good, Apart, SeenInv, Cur
    <2>5. LockInv'
      BY <1>3, <2>1 DEF Good, LockInv, Cur
    <2>6. VnodeInv'
      BY <1>3, <2>1 DEF Good, VnodeInv, OpenHandles, Visitors
    <2> QED BY <2>3, <2>4, <2>5, <2>6 DEF Good
  <1>5. ASSUME NEW p \in Procs, sys_chdir(p) \/ sys_dup2_Assign(p) \/ thread_exit(p) \/ ExitDone(p) \/ Skip(p) PROVE Good'
    <2>1. handle' = handle /\ lost' = lost
      BY <1>5 DEF sys_chdir, sys_dup2_Assign, thread_exit, ExitDone, Skip
    <2> QED BY <1>1, <1>3, <1>5, <2>1, GoodHandlesLeft
  <1>6. ASSUME NEW p \in Procs, sys_open_StatFails(p) PROVE Good'
    BY <1>1, <1>3, <1>6, GoodStatFails
  <1>7. ASSUME NEW p \in Procs, thread_fork(p) \/ ForkCopy(p) PROVE Good'
    BY <1>1, <1>3, <1>7, GoodFork
  <1>8. ASSUME NEW p \in Procs, IoStart(p) \/ IoEnd(p) \/ sys_lseek(p) PROVE Good'
    BY <1>1, <1>3, <1>8, GoodIO
  <1>9. ASSUME NEW p \in Procs, sys_close(p) \/ sys_dup2(p) \/ ForkLoad(p) \/ ExitTest(p) PROVE Good'
    BY <1>1, <1>3, <1>9, GoodLoads
  <1>10. ASSUME NEW p \in Procs, sys_dup2_Lock(p) PROVE Good'
    BY <1>1, <1>3, <1>10, GoodDupLock
  <1>11. ASSUME NEW p \in Procs, DropCounted(p) PROVE Good'
    BY <1>1, <1>3, <1>11, GoodDropCounted
  <1>12. ASSUME NEW p \in Procs, DropLast(p) PROVE Good'
    BY <1>1, <1>3, <1>12, GoodDropLast
  <1>13. ASSUME NEW p \in Procs, ForkCount(p) PROVE Good'
    BY <1>1, <1>3, <1>13, GoodForkCount
  <1>14. ASSUME NEW p \in Procs, sys_dup2_Count(p) PROVE Good'
    BY <1>1, <1>3, <1>14, GoodDupCount
  <1>15. ASSUME NEW p \in Procs, sys_open(p) PROVE Good'
    BY <1>1, <1>3, <1>15, GoodOpen
  <1>16. ASSUME NEW p \in Procs, init_filetable(p) PROVE Good'
    BY <1>1, <1>3, <1>16, GoodStart
  <1> QED BY <1>4, <1>5, <1>6, <1>7, <1>8, <1>9, <1>10, <1>11, <1>12, <1>13, <1>14, <1>15, <1>16 DEF Next

LEMMA Invariant == Spec => []IInv
  BY InitIInv, StepIInv, PTL DEF Spec

\* Types: what the calls keep in tables, handles, vnodes and locals has its
\* type also behind a race.
THEOREM TypeCorrect == Spec => []TypeOK
  <1>1. IInv => TypeOK
    BY DEF IInv, BaseInv
  <1> QED BY <1>1, Invariant, PTL

\* close, exit, dup2 and fork keep the count of every live handle equal to
\* the number of descriptors that refer to it, as long as no two of them
\* are between load and store of one count.
THEOREM CountExact == Spec => []CountIsReferences
  <1>1. IInv => CountIsReferences
    BY DEF IInv, Good, Exact, CountIsReferences
  <1> QED BY <1>1, Invariant, PTL

\* No descriptor of any process refers to a handle that close or exit has
\* freed.
THEOREM NothingDangles == Spec => []NoDanglingHandle
  <1>1. IInv => NoDanglingHandle
    BY HeldLive DEF IInv, Good, NoDanglingHandle
  <1> QED BY <1>1, Invariant, PTL

\* read and write find the shared offset where they left it, whatever the
\* processes that share the handle do meanwhile.
THEOREM OffsetHeld == Spec => []OffsetHeldDuringIO
  <1>1. IInv => OffsetHeldDuringIO
    BY DEF IInv, Good, LockInv, OffsetHeldDuringIO
  <1> QED BY <1>1, Invariant, PTL

\* The counts of the vnode layer are those of the open handles, the current
\* directories and the opens whose error path forgot them.
THEOREM VnodesCounted == Spec => []VnodeCountsMatch
  <1>1. IInv => VnodeCountsMatch
    <2> SUFFICES ASSUME IInv, ~raced, NEW v \in Vnodes
                 PROVE  /\ vnode[v].opencount = Cardinality({h \in Handles : handle[h].live /\ handle[h].vnode = v}) + lost[v]
                        /\ vnode[v].refcount = Cardinality({h \in Handles : handle[h].live /\ handle[h].vnode = v}) + lost[v]
                                                 + Cardinality({p \in Procs : cwd[p] = v})
      BY DEF VnodeCountsMatch
    <2> QED BY DEF IInv, Good, VnodeInv, OpenHandles, Visitors
  <1> QED BY <1>1, Invariant, PTL
=============================================================================
