-------------------------------- MODULE SFS --------------------------------
(***************************************************************************)
(* The Simple File System of OS/161 (kern/fs/sfs/sfs_vnode.c, sfs_fs.c,    *)
(* sfs_io.c, kern/lib/bitmap.c), used through the vfs layer (vfspath.c,    *)
(* vnode.c), and its checker (user/sbin/sfsck/sfsck.c).                    *)
(*                                                                         *)
(* One directory, the root.  Directory entries, data and indirect blocks   *)
(* go to the disk at once; inodes and the free block map are changed in    *)
(* memory and written back later: an inode at the last close, at sync and  *)
(* when its vnode is reclaimed, the map only at sync.  A crash loses what  *)
(* was not written.  Every sfs operation runs under vfs_biglock, so it is  *)
(* one step; a call of the vfs layer is several.                           *)
(*                                                                         *)
(* An operator that models a function maps a volume to the set of its      *)
(* outcomes: [err, f, r] is an error or not, the volume after it, and the  *)
(* result.  A failed read before any change is left out.                   *)
(***************************************************************************)
EXTENDS Integers, FiniteSets, FiniteSetsExt

CONSTANTS Clients,      \* threads that use the volume
          Names,        \* file names
          SlotsPerBlock,\* directory entries in a block; bound: one dir block
          PerIndirect,  \* SFS_DBPERIDB
          LastBlock,    \* bound: blocks 2 .. LastBlock can be allocated
          MaxFaults     \* bound: failing transfers

ASSUME SFSAssumption ==
    /\ SlotsPerBlock \in Nat /\ PerIndirect \in Nat /\ LastBlock \in Nat
    /\ MaxFaults \in Nat
    /\ Names \cap {".", "..", ""} = {}

Root   == 1                      \* SFS_ROOT_LOCATION
Blocks == 2 .. LastBlock
Inos   == {Root} \cup Blocks     \* an inode is a block, its number the block's
Slots  == 0 .. SlotsPerBlock - 1
IndirectSlots == 0 .. PerIndirect - 1
NDirect == 1                     \* bound: SFS_NDIRECT is 15
FileBlocks == 0 .. NDirect + PerIndirect - 1

VARIABLES fs,       \* the volume: disk, and what the kernel has in memory
          client,   \* where each thread is in a vfs call, and its vnode
          phase,    \* "mounted", "unmounted", "crashed" or "checked"
          exit,     \* what sfsck last returned
          tainted,  \* history: a volume that was not sound was mounted
          pastEOF   \* this sfsck met a direct block past the end of file

vars == <<fs, client, phase, exit, tainted, pastEOF>>

----------------------------------------------------------------------------
(* What a block can hold, and how it reads when it holds something else.   *)

Zero == [k |-> "zero"]
Data == [k |-> "data"]
Indirect(e) == [k |-> "indirect", entry |-> e]
Entry(n, i) == [name |-> n, ino |-> i]
NoEntry == Entry("", 0)
Dir(s) == [k |-> "dir", slot |-> s]
NoInode == [k |-> "inode", type |-> "inval", links |-> 0, size |-> 0,
            direct |-> 0, indirect |-> 0]

AsInode(c) == IF c.k = "inode" THEN c ELSE NoInode
AsDir(c) == IF c.k = "dir" THEN c.slot ELSE [s \in Slots |-> NoEntry]
AsIndirect(c) == IF c.k = "indirect" THEN c.entry
                 ELSE [j \in IndirectSlots |-> 0]

\* Where a block is used: as an inode, from the inode's direct or indirect
\* field, or from an entry (0 and up) of the indirect block.
InInode == -3
InDirect == -2
InIndirect == -1

\* A vnode that is not in sfs_vnodes.
Absent == [refs |-> 0, opens |-> 0, i |-> NoInode, dirty |-> FALSE]

\* mksfs: an empty root directory and nothing else in use.
Init ==
    /\ fs = [map   |-> {}, dmap |-> {},
             disk  |-> [b \in Inos |-> IF b = Root
                          THEN [NoInode EXCEPT !.type = "dir", !.links = 1]
                          ELSE Zero],
             vn    |-> [i \in Inos |-> Absent],
             faults |-> 0, panic |-> FALSE]
    /\ client = [c \in Clients |-> [at |-> "idle", ino |-> 0]]
    /\ phase = "unmounted" /\ exit = "none"
    /\ tainted = FALSE /\ pastEOF = FALSE

----------------------------------------------------------------------------
(* Outcomes.                                                               *)

Ok(f, r) == [err |-> FALSE, f |-> f, r |-> r]
Fail(f)  == [err |-> TRUE, f |-> f, r |-> 0]
Panic(f) == Fail([f EXCEPT !.panic = TRUE])

\* The outcomes of f's first step, each followed by Op unless it is an error.
Then(outcomes, Op(_)) ==
    UNION {IF o.err THEN {o} ELSE Op(o) : o \in outcomes}

OneClient == Cardinality({c \in Clients : client[c].at # "idle"}) <= 1

\* The volume after a transfer that failed, if one still may.  Bounds: one
\* client at a time, and a volume sfsck has not been run on (it sets the
\* root's link count to 2).
Fault(f) ==
    IF f.faults < MaxFaults /\ OneClient /\ f.disk[Root].links = 1
    THEN {[f EXCEPT !.faults = @ + 1]} ELSE {}

----------------------------------------------------------------------------
(* Blocks and inodes.                                                      *)

\* The first free block, cleared.  If clearing fails it stays marked.
sfs_balloc(f) ==
    LET b == Min(Blocks \ f.map)
        g == [f EXCEPT !.map = @ \cup {b}]
    IN  IF Blocks \subseteq f.map THEN {Fail(f)}
        ELSE {Ok([g EXCEPT !.disk[b] = Zero], b)} \cup {Fail(h) : h \in Fault(g)}

\* bitmap_unmark asserts that the bit is set.
sfs_bfree(f, bs) ==
    IF bs \subseteq f.map THEN [f EXCEPT !.map = @ \ bs]
    ELSE [f EXCEPT !.panic = TRUE]

SetInode(f, i, n) == [f EXCEPT !.vn[i].i = n, !.vn[i].dirty = TRUE]

\* A new block for a field of an inode.
AllocFor(f, i, field) ==
    Then(sfs_balloc(f), LAMBDA a :
        {Ok(SetInode(a.f, i, [a.f.vn[i].i EXCEPT ![field] = a.r]), a.r)})

\* A block number read from an inode or an indirect block must be in use.
InUse(f, b) == IF b \in f.map THEN {Ok(f, b)} ELSE {Panic(f)}

\* The disk block of block fb of a file, allocated if there is none.
sfs_bmap(f, i, fb) ==
    LET n == f.vn[i].i
        j == fb - NDirect
        GetIndirect ==
            IF n.indirect # 0 THEN {Ok(f, n.indirect)}
            ELSE AllocFor(f, i, "indirect")
        GetEntry(g, id) ==
            LET e == AsIndirect(g.disk[id])
            IN  IF e[j] # 0 THEN InUse(g, e[j])
                ELSE Then(sfs_balloc(g), LAMBDA a :
                       {Ok([a.f EXCEPT !.disk[id] =
                              Indirect([e EXCEPT ![j] = a.r])], a.r)}
                       \cup {Fail(h) : h \in Fault(a.f)})
    IN  IF fb < NDirect
        THEN IF n.direct # 0 THEN InUse(f, n.direct)
             ELSE AllocFor(f, i, "direct")
        ELSE Then(GetIndirect, LAMBDA o : GetEntry(o.f, o.r))

\* sfs_io: map the block, transfer, and extend the file.  A transfer that
\* fails after uiomove extends the file all the same; one that fails before
\* (a read error, a bad user address) leaves the block past its end.
sfs_io_write(f, i, fb, size, new) ==
    Then(sfs_bmap(f, i, fb), LAMBDA o :
        LET n == o.f.vn[i].i
            Extend(g) == IF size > n.size
                         THEN SetInode(g, i, [n EXCEPT !.size = size]) ELSE g
        IN  {Ok(Extend([o.f EXCEPT !.disk[o.r] = new]), 0)}
            \cup {Fail(h) : h \in Fault(o.f)}
            \cup {Fail(Extend(h)) : h \in Fault(o.f)})

sfs_sync_inode(f, i) ==
    IF ~f.vn[i].dirty THEN {Ok(f, 0)}
    ELSE {Ok([f EXCEPT !.disk[i] = f.vn[i].i, !.vn[i].dirty = FALSE], 0)}
         \cup {Fail(h) : h \in Fault(f)}

\* Mutant: the inode keeps the number of the direct block it freed.
sfs_truncateKeepsDirect(f, i) ==
    LET n == f.vn[i].i
        g == IF n.direct = 0 THEN f ELSE sfs_bfree(f, {n.direct})
        e == AsIndirect(f.disk[n.indirect])
        h == IF n.indirect = 0 THEN g
             ELSE sfs_bfree(g, ({e[j] : j \in IndirectSlots} \ {0}) \cup {n.indirect})
    IN  {Ok(SetInode(h, i, [n EXCEPT !.indirect = 0, !.size = 0]), 0)}

\* Truncation to length 0, the only length the kernel asks for.
sfs_truncate(f, i) ==
    LET n == f.vn[i].i
        g == IF n.direct = 0 THEN f
             ELSE SetInode(sfs_bfree(f, {n.direct}), i, [n EXCEPT !.direct = 0])
        e == AsIndirect(f.disk[n.indirect])
        h == IF n.indirect = 0 THEN g
             ELSE sfs_bfree(g, ({e[j] : j \in IndirectSlots} \ {0}) \cup {n.indirect})
    IN  {Ok(SetInode(h, i, [n EXCEPT !.direct = 0, !.indirect = 0, !.size = 0]), 0)}
        \cup {Fail(x) : x \in IF n.indirect = 0 THEN {} ELSE Fault(g)}

\* Mutant: the inode's block is not freed with the last link.
sfs_reclaimKeepsInode(f, i) ==
    LET n == f.vn[i].i
    IN  Then(IF n.links = 0 THEN sfs_truncate(f, i) ELSE {Ok(f, 0)}, LAMBDA t :
        Then(sfs_sync_inode(t.f, i), LAMBDA s :
            {Ok([s.f EXCEPT !.vn[i] = Absent], 0)}))

\* The last reference is gone: erase the file if it has no name, write the
\* inode, free its block, forget the vnode.
sfs_reclaim(f, i) ==
    LET n == f.vn[i].i
    IN  Then(IF n.links = 0 THEN sfs_truncate(f, i) ELSE {Ok(f, 0)}, LAMBDA t :
        Then(sfs_sync_inode(t.f, i), LAMBDA s :
            LET g == IF n.links = 0 THEN sfs_bfree(s.f, {i}) ELSE s.f
            IN  {Ok([g EXCEPT !.vn[i] = Absent], 0)}))

\* A reclaim that fails leaves the vnode where it is, with one reference.
VOP_DECREF(f, i) ==
    IF f.vn[i].refs > 1 THEN {[f EXCEPT !.vn[i].refs = @ - 1]}
    ELSE {o.f : o \in sfs_reclaim(f, i)}

\* Find or load the vnode of inode i; new is set for an inode just made.
sfs_loadvnode(f, i, new) ==
    LET n == AsInode(f.disk[i])
        t == IF new THEN [n EXCEPT !.type = "file"] ELSE n
    IN  IF \E v \in Blocks : f.vn[v].refs > 0 /\ v \notin f.map THEN {Panic(f)}
        ELSE IF f.vn[i].refs > 0
        THEN {IF new THEN Panic(f) ELSE Ok([f EXCEPT !.vn[i].refs = @ + 1], i)}
        ELSE IF (i # Root /\ i \notin f.map) \/ t.type = "inval"
                \/ (new /\ n.type # "inval")
        THEN {Panic(f)}
        ELSE {Ok([f EXCEPT !.vn[i] = [refs |-> 1, opens |-> 0, i |-> t,
                                      dirty |-> new]], i)}
             \cup {Fail(h) : h \in IF i = Root THEN {} ELSE Fault(f)}

----------------------------------------------------------------------------
(* The directory.  The root vnode is loaded throughout.                    *)

\* The entries the root inode's block and size give.
Entries(root, disk) ==
    [s \in Slots |-> IF s < root.size /\ root.direct # 0
                     THEN AsDir(disk[root.direct])[s] ELSE NoEntry]

Find(f, n) == {s \in Slots : Entries(f.vn[Root].i, f.disk)[s].name = n}

InoAt(f, s) == Entries(f.vn[Root].i, f.disk)[s].ino

sfs_writedir(f, s, e) ==
    LET root == f.vn[Root].i
        old  == AsDir(IF root.direct = 0 THEN Zero ELSE f.disk[root.direct])
    IN  sfs_io_write(f, Root, 0, s + 1, Dir([old EXCEPT ![s] = e]))

\* Enter a name: in the last empty slot, else at the end.  The slot comes
\* back as the result.
sfs_dir_link(f, n, i) ==
    LET size  == f.vn[Root].i.size
        empty == {s \in Slots : s < size /\ InoAt(f, s) = 0}
        slot  == IF empty # {} THEN Max(empty) ELSE size
    IN  IF Find(f, n) # {} \/ slot \notin Slots THEN {Fail(f)}
        ELSE Then(sfs_writedir(f, slot, Entry(n, i)), LAMBDA o : {Ok(o.f, slot)})

sfs_dir_unlink(f, s) == sfs_writedir(f, s, NoEntry)

sfs_lookonce(f, n) ==
    IF Find(f, n) = {} THEN {Fail(f)}
    ELSE IF Cardinality(Find(f, n)) > 1 THEN {Panic(f)}
    ELSE Then(sfs_loadvnode(f, InoAt(f, Min(Find(f, n))), FALSE), LAMBDA o :
             {IF o.f.vn[o.r].i.links = 0 THEN Panic(o.f) ELSE o})

\* Mutant: the new count does not make the inode dirty.
AddLinksNotDirty(f, i, d) == [f EXCEPT !.vn[i].i.links = @ + d]

AddLinks(f, i, d) ==
    SetInode(f, i, [f.vn[i].i EXCEPT !.links = @ + d])

\* The outcome o, with the reference to i given back.
Release(o, i) == {[o EXCEPT !.f = g] : g \in VOP_DECREF(o.f, i)}

\* Every vfs call that names a file loads the root first and lets go of it
\* in the end, whatever the outcome.
sfs_getroot(f) == sfs_loadvnode(f, Root, FALSE)
LeaveRoot(outcomes) == UNION {Release(o, Root) : o \in outcomes}

----------------------------------------------------------------------------
(* Operations on the directory.                                            *)

\* An existing name is opened.  (With excl it is an error, which changes as
\* little as a lookup that finds nothing.)
sfs_creat(f, n) ==
    IF Find(f, n) # {} THEN sfs_loadvnode(f, InoAt(f, Min(Find(f, n))), FALSE)
    ELSE Then(sfs_balloc(f), LAMBDA a :
         Then(sfs_loadvnode(a.f, a.r, TRUE), LAMBDA v :
            UNION {IF d.err THEN Release(d, a.r)
                   ELSE {Ok(AddLinks(d.f, a.r, 1), a.r)} :
                      d \in sfs_dir_link(v.f, n, a.r)}))

\* Link the vnode i, which the caller holds, under n.
sfs_link(f, n, i) ==
    Then(sfs_dir_link(f, n, i), LAMBDA o : {Ok(AddLinks(o.f, i, 1), 0)})

\* Mutant: the link count is left alone.
sfs_removeKeepsCount(f, n) ==
    Then(sfs_lookonce(f, n), LAMBDA v :
        UNION {Release(d, v.r) : d \in sfs_dir_unlink(v.f, Min(Find(f, n)))})

sfs_remove(f, n) ==
    Then(sfs_lookonce(f, n), LAMBDA v :
        UNION {Release(IF d.err THEN d ELSE [d EXCEPT !.f = AddLinks(@, v.r, -1)], v.r) :
                  d \in sfs_dir_unlink(v.f, Min(Find(f, n)))})

\* Link under the new name, then unlink the old; if that fails unlink the
\* new again, and panic if that fails too.
sfs_rename(f, n1, n2) ==
    Then(sfs_lookonce(f, n1), LAMBDA v :
        LET Undo(u, slot) ==
                UNION {IF x.err THEN {Panic(x.f)}
                       ELSE Release(Fail(AddLinks(x.f, v.r, -1)), v.r) :
                          x \in sfs_dir_unlink(u.f, slot)}
            Unlink(l) ==
                UNION {IF u.err THEN Undo(u, l.r)
                       ELSE Release(Ok(AddLinks(u.f, v.r, -1), 0), v.r) :
                          u \in sfs_dir_unlink(AddLinks(l.f, v.r, 1), Min(Find(f, n1)))}
        IN  UNION {IF l.err THEN Release(l, v.r) ELSE Unlink(l) :
                      l \in sfs_dir_link(v.f, n2, v.r)})

\* Write every dirty inode, ignoring errors, then the map.
sfs_sync(f) ==
    LET dirty == {i \in Inos : f.vn[i].refs > 0 /\ f.vn[i].dirty}
        Write(S) == [f EXCEPT
            !.disk = [b \in Inos |-> IF b \in S THEN f.vn[b].i ELSE f.disk[b]],
            !.vn = [i \in Inos |-> IF i \in S THEN [f.vn[i] EXCEPT !.dirty = FALSE]
                                   ELSE f.vn[i]],
            !.faults = @ + Cardinality(dirty \ S)]
        tried == {Write(S) : S \in {T \in SUBSET dirty :
                     \/ T = dirty
                     \/ Fault(f) # {} /\ f.faults + Cardinality(dirty \ T) <= MaxFaults}}
    IN  {Ok([g EXCEPT !.dmap = g.map], 0) : g \in tried}
        \cup {Fail(h) : h \in UNION {Fault(g) : g \in tried}}

----------------------------------------------------------------------------
(* Which blocks are used for what.                                         *)

\* The uses of blocks by the files in owners, with inode i as View[i].
Uses(View, disk, owners) ==
    LET Of(i) == LET n == View[i]
                     e == AsIndirect(disk[n.indirect])
                 IN  (IF i = Root THEN {} ELSE {<<i, InInode, i>>})
                     \cup (IF n.direct = 0 THEN {} ELSE {<<i, InDirect, n.direct>>})
                     \cup (IF n.indirect = 0 THEN {}
                           ELSE {<<i, InIndirect, n.indirect>>} \cup
                                {<<i, j, e[j]>> : j \in {x \in IndirectSlots : e[x] # 0}})
    IN  UNION {Of(i) : i \in owners}

Disjoint(uses) == \A u, v \in uses : u[3] = v[3] => u = v

BlocksOf(uses) == {u[3] : u \in uses}

Named(entries) == {entries[s].ino : s \in Slots} \ {0, Root}

MemView(f) == [i \in Inos |-> IF f.vn[i].refs > 0 THEN f.vn[i].i
                              ELSE AsInode(f.disk[i])]

DiskView(f) == [i \in Inos |-> AsInode(f.disk[i])]

\* Forget what nothing can read again: a block that no named file or loaded
\* vnode refers to, in memory or on the disk (sfs_balloc clears it before
\* its next use) and, while mounted, the map on the disk (a mount comes
\* after an unmount or sfsck, and both write it).
Scrub(f) ==
    LET Inodes(i) == {AsInode(f.disk[i])}
                     \cup (IF f.vn[i].refs > 0 THEN {f.vn[i].i} ELSE {})
        Reach(n)  == {n.direct, n.indirect} \cup
                     (IF n.indirect = 0 THEN {}
                      ELSE LET e == AsIndirect(f.disk[n.indirect])
                           IN  {e[j] : j \in IndirectSlots})
        owners == {Root} \cup {i \in Inos : f.vn[i].refs > 0}
                  \cup UNION {Named(Entries(n, f.disk)) : n \in Inodes(Root)}
        live   == owners \cup
                  UNION {UNION {Reach(n) : n \in Inodes(i)} : i \in owners}
    IN  [f EXCEPT !.disk = [b \in Inos |-> IF b \in live THEN f.disk[b] ELSE Zero],
                  !.dmap = {}]

----------------------------------------------------------------------------
(* The vfs layer.                                                          *)

Running == phase = "mounted" /\ ~fs.panic

Rest == <<phase, exit, tainted, pastEOF>>

Goto(c, at, i) == client' = [client EXCEPT ![c] = [at |-> at, ino |-> i]]

\* Bound: after a failed transfer, or while a file has two names, one client
\* at a time.
MayEnter ==
    \/ \A c \in Clients : client[c].at = "idle"
    \/ fs.faults = 0 /\ \A i \in Blocks : MemView(fs)[i].links <= 1

\* One of the outcomes is what happens; on success c holds the vnode.
Obtain(c, outcomes) ==
    /\ Running /\ client[c].at = "idle" /\ MayEnter
    /\ \E o \in outcomes :
          /\ fs' = Scrub(o.f)
          /\ IF o.err THEN UNCHANGED client ELSE Goto(c, "looked", o.r)
    /\ UNCHANGED Rest

\* vfs_open with O_CREAT, up to the VOP_CREAT.
vfs_open_creat(c) == \E n \in Names :
    Obtain(c, LeaveRoot(Then(sfs_getroot(fs), LAMBDA r : sfs_creat(r.f, n))))

\* vfs_lookup, first half of an open or a link.
vfs_lookup(c) == \E n \in Names :
    Obtain(c, LeaveRoot(Then(sfs_getroot(fs), LAMBDA r : sfs_lookonce(r.f, n))))

\* The empty path: the root itself, held as a current directory.
vfs_lookup_root(c) == Obtain(c, sfs_loadvnode(fs, Root, FALSE))

Drop(c, f) ==
    /\ fs' \in {Scrub(g) : g \in VOP_DECREF(f, client[c].ino)}
    /\ Goto(c, "idle", 0)
    /\ UNCHANGED Rest

\* VOP_OPEN refuses (O_APPEND, or the directory for writing).
vfs_open_Refused(c) ==
    /\ Running /\ client[c].at = "looked"
    /\ Drop(c, fs)

IncOpen(f, i) == [f EXCEPT !.vn[i].opens = @ + 1]

vfs_open(c) ==
    /\ Running /\ client[c].at = "looked" /\ client[c].ino # Root
    /\ fs' = IncOpen(fs, client[c].ino)
    /\ Goto(c, "open", client[c].ino)
    /\ UNCHANGED Rest

\* VOP_DECOPEN: the last close writes the inode back.
DecOpen(f, i) ==
    LET g == [f EXCEPT !.vn[i].opens = @ - 1]
    IN  IF g.vn[i].opens > 0 THEN {g} ELSE {o.f : o \in sfs_sync_inode(g, i)}

\* vfs_open with O_TRUNC: close again if the truncation fails.
vfs_open_trunc(c) ==
    /\ Running /\ client[c].at = "looked" /\ client[c].ino # Root
    /\ \E o \in sfs_truncate(IncOpen(fs, client[c].ino), client[c].ino) :
          IF o.err THEN \E g \in DecOpen(o.f, client[c].ino) : Drop(c, g)
          ELSE /\ fs' = Scrub(o.f)
               /\ Goto(c, "open", client[c].ino)
               /\ UNCHANGED Rest

vfs_close(c) ==
    /\ Running /\ client[c].at = "open"
    /\ \E g \in DecOpen(fs, client[c].ino) : Drop(c, g)

\* VOP_WRITE of one block anywhere in the file.
sfs_write(c) ==
    /\ Running /\ client[c].at = "open"
    /\ \E fb \in FileBlocks :
          \E o \in sfs_io_write(fs, client[c].ino, fb, fb + 1, Data) :
             fs' = Scrub(o.f)
    /\ UNCHANGED <<client, Rest>>

\* vfs_link, after the vfs_lookup of the old name.
vfs_link(c) ==
    /\ Running /\ client[c].at = "looked" /\ client[c].ino # Root
    /\ OneClient
    /\ \E n \in Names :
          \E o \in LeaveRoot(Then(sfs_getroot(fs), LAMBDA r :
                               sfs_link(r.f, n, client[c].ino))) :
             Drop(c, o.f)

Call(outcomes) ==
    /\ Running
    /\ \E o \in outcomes : fs' = Scrub(o.f)
    /\ UNCHANGED <<client, Rest>>

vfs_remove == \E n \in Names :
    Call(LeaveRoot(Then(sfs_getroot(fs), LAMBDA r : sfs_remove(r.f, n))))

\* (A file is not renamed to a name that exists, its own included.)
vfs_rename == \E n1, n2 \in Names :
    n1 # n2 /\ Call(LeaveRoot(Then(sfs_getroot(fs), LAMBDA r : sfs_rename(r.f, n1, n2))))

vfs_sync == Call(sfs_sync(fs))

----------------------------------------------------------------------------
(* Mounting, stopping and checking a volume.                               *)

Forget(f) == [f EXCEPT !.map = {}, !.vn = [i \in Inos |-> Absent],
                       !.panic = FALSE]

\* FS_SYNC, then FS_UNMOUNT, which refuses while a vnode is loaded.
sfs_unmount ==
    /\ Running
    /\ \E o \in sfs_sync(fs) :
          /\ ~o.err /\ \A i \in Inos : o.f.vn[i].refs = 0
          /\ fs' = Forget(o.f)
    /\ phase' = "unmounted"
    /\ UNCHANGED <<client, exit, tainted, pastEOF>>

Stop(f) ==
    /\ fs' = Scrub(Forget(f))
    /\ client' = [c \in Clients |-> [at |-> "idle", ino |-> 0]]
    /\ phase' = "crashed"
    /\ UNCHANGED <<exit, tainted, pastEOF>>

Crash == phase = "mounted" /\ Stop(fs)

\* A crash between the two directory writes of a rename.
CrashInRename ==
    /\ Running
    /\ \E n1, n2 \in Names :
          \E l \in Then(sfs_loadvnode(fs, Root, FALSE), LAMBDA r :
                   Then(sfs_lookonce(r.f, n1), LAMBDA v : sfs_dir_link(v.f, n2, v.r))) :
             ~l.err /\ Stop(l.f)

\* What sfsck finds out about the blocks of inode i, and the inode it writes
\* back.  A direct block past the end is to be freed and stays in the inode;
\* an entry past the end in the indirect block is cleared and its block
\* stays marked; so does an indirect block left empty.
check_inode_blocks(disk, i, nblocks) ==
    LET n    == AsInode(disk[i])
        e    == IF n.indirect = 0 THEN [j \in IndirectSlots |-> 0]
                ELSE AsIndirect(disk[n.indirect])
        keep == [j \in IndirectSlots |-> IF NDirect + j < nblocks THEN e[j] ELSE 0]
        none == \A j \in IndirectSlots : keep[j] = 0
        late == nblocks = 0 /\ n.direct # 0
        bad  == late \/ keep # e \/ (n.indirect # 0 /\ none)
    IN  [marks |-> (IF n.direct = 0 \/ late THEN {} ELSE {<<InDirect, n.direct>>})
                   \cup (IF n.indirect = 0 THEN {} ELSE {<<InIndirect, n.indirect>>})
                   \cup {<<j, e[j]>> : j \in {x \in IndirectSlots : e[x] # 0}},
         late  |-> late,
         disk  |-> [b \in Inos |->
                      IF b = i /\ bad
                      THEN [n EXCEPT !.indirect = IF none THEN 0 ELSE @]
                      ELSE IF b = n.indirect /\ bad /\ ~none THEN Indirect(keep)
                      ELSE disk[b]]]

\* dir_tryadd for "." or "..": an empty slot, else one more in the block.
dir_tryadd(d, n) ==
    LET empty == {s \in Slots : s < d.size /\ d.slot[s].ino = 0}
    IN  IF \E s \in Slots : d.slot[s].name = n THEN d
        ELSE IF empty # {} THEN [d EXCEPT !.slot[Min(empty)] = Entry(n, Root)]
        ELSE IF d.size \in Slots \ {0}
        THEN [d EXCEPT !.slot[d.size] = Entry(n, Root), !.size = @ + 1]
        ELSE [d EXCEPT !.failed = TRUE]

\* Mutant: an entry whose inode was never written is kept.
IsBadEntryNever(disk, e) == FALSE

\* An entry of a file whose inode is not one.
IsBadEntry(disk, e) ==
    e.ino # 0 /\ e.name \in Names /\ AsInode(disk[e.ino]).type # "file"

\* check_root_dir and check_dir.  The table of the inodes met is never
\* filled, so that a second name marks the file's blocks again, and link
\* counts of files are never adjusted.
sfsck ==
    /\ phase \in {"unmounted", "crashed"}
    /\ LET disk  == fs.disk
           root  == AsInode(disk[Root])
           own   == check_inode_blocks(disk, Root, IF root.size > 0 THEN 1 ELSE 0)
           d     == dir_tryadd(dir_tryadd([slot |-> Entries(root, disk),
                       size |-> root.size, failed |-> FALSE], "."), "..")
           kept  == [s \in Slots |-> IF IsBadEntry(disk, d.slot[s]) THEN NoEntry
                                     ELSE d.slot[s]]
           files == {s \in Slots : kept[s].name \in Names}
           info  == [s \in files |-> check_inode_blocks(disk, kept[s].ino,
                                         AsInode(disk[kept[s].ino]).size)]
           marks == {<<-1, m[1], m[2]>> : m \in own.marks}
                    \cup {<<s, InInode, kept[s].ino>> : s \in files}
                    \cup UNION {{<<s, m[1], m[2]>> : m \in info[s].marks} : s \in files}
           twice == \E m1, m2 \in marks : m1 # m2 /\ m1[3] = m2[3]
           fixed == [b \in Inos |->
                       IF b = Root THEN [own.disk[Root] EXCEPT !.size = d.size, !.links = 2]
                       ELSE IF b = root.direct /\ root.size > 0 THEN Dir(kept)
                       ELSE IF \E s \in files : info[s].disk[b] # disk[b]
                       THEN info[CHOOSE s \in files : info[s].disk[b] # disk[b]].disk[b]
                       ELSE disk[b]]
       IN  /\ fs' = [fs EXCEPT !.disk = fixed, !.dmap = {m[3] : m \in marks}]
           /\ exit' = IF twice \/ d.failed THEN "unrecov" ELSE "recov"
           /\ pastEOF' = (own.late \/ \E s \in files : info[s].late)
    /\ phase' = "checked"
    /\ UNCHANGED <<client, tainted>>

----------------------------------------------------------------------------
(* When a volume is sound.                                                 *)

Links(entries, i) == Cardinality({s \in Slots : entries[s].ino = i})

DiskEntries == Entries(DiskView(fs)[Root], fs.disk)

DiskUses == Uses(DiskView(fs), fs.disk, {Root} \cup Named(DiskEntries))

\* The disk as a mount finds it.
SoundOnDisk ==
    /\ Disjoint(DiskUses) /\ fs.dmap = BlocksOf(DiskUses)
    /\ \A i \in Named(DiskEntries) :
          AsInode(fs.disk[i]).type = "file"
          /\ AsInode(fs.disk[i]).links = Links(DiskEntries, i)

\* sfs_domount: the map is read, nothing is checked.  A volume that sfsck
\* gave up on is not mounted again.
sfs_domount ==
    /\ phase = "unmounted" \/ (phase = "checked" /\ exit # "unrecov")
    /\ fs' = [fs EXCEPT !.map = fs.dmap, !.dmap = {}]
    /\ phase' = "mounted"
    /\ tainted' = (tainted \/ ~SoundOnDisk)
    /\ exit' = "none" /\ pastEOF' = FALSE
    /\ UNCHANGED client

Next ==
    \/ \E c \in Clients :
          \/ vfs_open_creat(c) \/ vfs_lookup(c) \/ vfs_lookup_root(c)
          \/ vfs_open(c) \/ vfs_open_trunc(c) \/ vfs_open_Refused(c)
          \/ vfs_close(c) \/ sfs_write(c) \/ vfs_link(c)
    \/ vfs_remove \/ vfs_rename \/ vfs_sync
    \/ sfs_unmount \/ Crash \/ CrashInRename \/ sfsck \/ sfs_domount

Spec == Init /\ [][Next]_vars

----------------------------------------------------------------------------
(* Properties.                                                             *)

\* Once a volume that was not sound is mounted nothing is promised, and TLC
\* goes no further.
NotTainted == ~tainted

MemEntries == Entries(MemView(fs)[Root], fs.disk)

MemUses == Uses(MemView(fs), fs.disk,
                {Root} \cup Named(MemEntries) \cup {i \in Inos : fs.vn[i].refs > 0})

Sane == phase = "mounted" /\ ~tainted /\ ~fs.panic

\* None of the assertions and panics of sfs is reached from a sound volume,
\* whatever the order of the calls, with a transfer failing at any point:
\* no inode in an unallocated block, no name of a file with link count 0, no
\* block freed twice, no name twice (sfs_loadvnode, sfs_lookonce,
\* sfs_bmap, bitmap_unmark, sfs_dir_findname).
NoPanic == tainted \/ ~fs.panic

\* Every block some file uses is marked in the free map and has one use;
\* without failed transfers nothing else is marked, so removed and truncated
\* files give their blocks back at the last close and not before.
MapMatchesFiles ==
    Sane => /\ Disjoint(MemUses)
            /\ BlocksOf(MemUses) \subseteq fs.map
            /\ fs.faults = 0 => fs.map = BlocksOf(MemUses)

\* The link count of a file, in memory or on disk, is the number of its
\* names: also after a link or rename that failed half-way.
LinkCountIsNames ==
    Sane => \A i \in Named(MemEntries) \cup {j \in Blocks : fs.vn[j].refs > 0} :
               MemView(fs)[i].links = Links(MemEntries, i)

\* An unmounted volume is sound on disk: every inode and the map were
\* written back, unless a transfer failed.
UnmountLeavesSound ==
    phase = "unmounted" /\ fs.faults = 0 /\ ~tainted => SoundOnDisk

\* After a crash at any point and a run of sfsck that reports no
\* unrecoverable error, every name is that of a file and every block in use
\* is marked and has one use.  The exception is a direct block past the end
\* of its file, which sfsck frees and leaves in the inode.
SfsckMarksWhatIsUsed ==
    phase = "checked" /\ exit # "unrecov" /\ ~pastEOF =>
        /\ Disjoint(DiskUses) /\ BlocksOf(DiskUses) \subseteq fs.dmap
        /\ \A i \in Named(DiskEntries) : AsInode(fs.disk[i]).type = "file"
=============================================================================
