----------------------------- MODULE AddrSpace -----------------------------
(***************************************************************************)
(* User address spaces above the coremap (kern/vm/addrspace.c, sys_sbrk    *)
(* and page_alloc of kern/vm/vm.c, and their use in load_elf, runprogram,  *)
(* sys_execv, thread_fork and thread_exit).  Every page is taken under     *)
(* coremap_slock, one at a time, so that the loops of two processes, and   *)
(* the kernel's own allocations, interleave.  as_destroy, which only gives *)
(* back, is one step.  The TLB and the contents of pages are left out.     *)
(*                                                                         *)
(* Addresses are small integers, PAGE_SIZE of them to a page, and wrap at  *)
(* AddrMod as vaddr_t does at 2^32.                                        *)
(***************************************************************************)
EXTENDS Coremap, Integers, Sequences

CONSTANTS Procs,             \* processes
          PAGE_SIZE,         \* addresses in a page
          AddrMod,           \* number of addresses
          CodeStart,         \* p_vaddr of the first segment; the others follow
          ProgramPages,      \* pages that the segments of a program take
          STACK_BASE,        \* lowest address of the stack
          USERSTACK,         \* end of the stack
          Amounts,           \* what sbrk is called with
          PTABLE_ARRAY_SIZE  \* entries of one struct page_table

ASSUME AddrSpaceAssumption ==
    /\ PAGE_SIZE \in Nat \ {0} /\ PTABLE_ARRAY_SIZE \in Nat \ {0}
    /\ {AddrMod, CodeStart, STACK_BASE, USERSTACK} \subseteq Nat
    /\ CodeStart % PAGE_SIZE = 0 /\ STACK_BASE % PAGE_SIZE = 0
    /\ \A n \in ProgramPages :
          n \in Nat \ {0} /\ CodeStart + n * PAGE_SIZE < STACK_BASE - PAGE_SIZE
    /\ STACK_BASE < USERSTACK /\ USERSTACK =< AddrMod
    /\ Amounts \subseteq Int

VARIABLES as,      \* t_addrspace of each process
          old,     \* oldaddr of sys_execv, or the child's space in as_copy
          mode,    \* what each process is doing
          todo,    \* virtual addresses its loop has still to find pages for
          refreed, \* history: as_destroy freed a page in use, not its own
          severed, \* history: addPageEntry cut tables off the list
          bent     \* history: processes whose break was lowered, or moved in vain

asVars == <<as, old, mode, todo, refreed, severed, bent>>
allVars == <<cmVars, asVars>>

\* As as_create leaves it, with one empty table; no space at all has none.
\* Tables fill up one after the other, so that the sequence of their entries,
\* PTABLE_ARRAY_SIZE to a table, says it all; end counts the tables up to
\* as->end.
as_create == [vstart |-> 0, vbreakbase |-> 0, vbreaktop |-> 0, heapNPages |-> 0,
              entries |-> <<>>, end |-> 1]
NoAs == [as_create EXCEPT !.end = 0]

AsInit ==
    /\ CmInit
    /\ as = [p \in Procs |-> NoAs] /\ old = [p \in Procs |-> NoAs]
    /\ mode = [p \in Procs |-> "none"]
    /\ todo = [p \in Procs |-> <<>>]
    /\ refreed = FALSE /\ severed = FALSE
    /\ bent = {}

----------------------------------------------------------------------------
(* Page tables.                                                            *)

FramesOf(space) == [i \in DOMAIN space.entries |-> space.entries[i].frame]

Mapped(space) == {space.entries[i].vaddr : i \in DOMAIN space.entries}

Full(space) == Len(space.entries) > 0 /\ Len(space.entries) % PTABLE_ARRAY_SIZE = 0

\* addPageEntry: the first table with room, or else a new one after end,
\* which need not be the last: the tables after it are cut off.
addPageEntry(space, vaddr, frame) ==
    LET e == [vaddr |-> vaddr, frame |-> frame]
    IN  IF Full(space)
        THEN [space EXCEPT !.end = @ + 1, !.entries =
                 Append(SubSeq(@, 1, space.end * PTABLE_ARRAY_SIZE), e)]
        ELSE [space EXCEPT !.entries = Append(@, e)]

Severs(space) == Full(space) /\ space.end * PTABLE_ARRAY_SIZE < Len(space.entries)

----------------------------------------------------------------------------
(* Taking and giving back pages.                                           *)

\* getpaddr(1) and addtocoremap under the lock; f is the page.
TakePage(f) == f = getpaddr(coremap, 1) /\ page_alloc

NoMemory == getpaddr(coremap, 1) = NoPage

\* The coremap after page_free of the first k of the frames, one by one.
Cleared(frames) ==
    LET cm[k \in 0 .. Len(frames)] ==
          IF k = 0 THEN coremap ELSE removefromcoremap(cm[k - 1], frames[k])
    IN  cm

\* Mutant: as_destroy forgets the last page.
FreeAllButLast(frames) ==
    LET gone == {c \in live : ~c.kern /\ \E i \in 1 .. Len(frames) - 1 : c.base = frames[i]}
    IN  /\ coremap' = IF frames = <<>> THEN coremap ELSE Cleared(frames)[Len(frames) - 1]
        /\ live' = live \ gone
        /\ overrun' = (overrun \/ \E c \in gone, d \in live : BeforeLarger(c, d))

\* as_destroy: page_free for every entry.  live and overrun follow suit.
FreeAll(frames) ==
    LET gone == {c \in live : ~c.kern /\ \E i \in DOMAIN frames : c.base = frames[i]}
    IN  /\ coremap' = Cleared(frames)[Len(frames)]
        /\ live' = live \ gone
        /\ overrun' = (overrun \/ \E c \in gone, d \in live : BeforeLarger(c, d))

Page(a) == a - (a % PAGE_SIZE)

----------------------------------------------------------------------------
(* Programs: runprogram (from "none") and sys_execv (from "user").  The    *)
(* new space has its regions defined before pages are found for them; it   *)
(* is activated first, and the old one kept.                               *)

\* as_define_region for the segments of a program of n pages.
as_define_region(n) ==
    [as_create EXCEPT !.vstart = CodeStart,
                      !.vbreakbase = CodeStart + n * PAGE_SIZE,
                      !.vbreaktop = CodeStart + n * PAGE_SIZE]

execv(p) ==
    /\ mode[p] \in {"none", "user"}
    /\ old' = [old EXCEPT ![p] = as[p]]
    /\ \E n \in ProgramPages :
          /\ as' = [as EXCEPT ![p] = as_define_region(n)]
          /\ todo' = [todo EXCEPT ![p] = [i \in 1 .. n |-> CodeStart + (i - 1) * PAGE_SIZE]]
    /\ mode' = [mode EXCEPT ![p] = "load"]
    /\ UNCHANGED <<cmVars, refreed, severed, bent>>

\* One page of the loops of as_prepare_load, or of page_alloc for sbrk.
MapPage(p) ==
    /\ mode[p] \in {"load", "sbrk"} /\ todo[p] # <<>>
    /\ \E f \in Pages :
          /\ TakePage(f)
          /\ as' = [as EXCEPT ![p] = [addPageEntry(as[p], Head(todo[p]), f) EXCEPT
                       !.heapNPages = IF mode[p] = "sbrk" THEN @ + 1 ELSE @]]
    /\ severed' = (severed \/ Severs(as[p]))
    /\ todo' = [todo EXCEPT ![p] = Tail(@)]
    /\ UNCHANGED <<old, mode, refreed, bent>>

\* All pages are there and the segments are read into them, through the
\* page faults of copyout; as_complete_load; the old space goes.
LoadDone(p) ==
    /\ mode[p] = "load" /\ todo[p] = <<>>
    /\ FreeAll(FramesOf(old[p]))
    /\ old' = [old EXCEPT ![p] = NoAs]
    /\ mode' = [mode EXCEPT ![p] = "user"]
    /\ bent' = bent \ {p}
    /\ UNCHANGED <<as, todo, refreed, severed>>

\* A segment cannot be read, or there are too many of them, which shows before
\* pages are looked for: the new space goes and the old one, if there was one,
\* is back.
LoadFails(p) ==
    /\ mode[p] = "load" /\ (todo[p] = <<>> \/ as[p].entries = <<>>)
    /\ FreeAll(FramesOf(as[p]))
    /\ as' = [as EXCEPT ![p] = old[p]]
    /\ old' = [old EXCEPT ![p] = NoAs]
    /\ todo' = [todo EXCEPT ![p] = <<>>]
    /\ mode' = [mode EXCEPT ![p] = IF old[p] = NoAs THEN "none" ELSE "user"]
    /\ UNCHANGED <<refreed, severed, bent>>

\* as_prepare_load finds no page: it destroys the space it was given ...
as_prepare_load_NoMemory(p) ==
    /\ mode[p] = "load" /\ todo[p] # <<>> /\ NoMemory
    /\ FreeAll(FramesOf(as[p]))
    /\ mode' = [mode EXCEPT ![p] = "destroyed"]
    /\ todo' = [todo EXCEPT ![p] = <<>>]
    /\ UNCHANGED <<as, old, refreed, severed, bent>>

\* ... and its caller, sys_execv or thread_exit, destroys it once more; the
\* freed structure may still list the pages, which may be in use again.
DestroyAgain(p) ==
    /\ mode[p] = "destroyed"
    /\ \E frames \in {<<>>, FramesOf(as[p])} :
          /\ FreeAll(frames)
          /\ refreed' = (refreed \/ \E i \in DOMAIN frames : coremap[frames[i]].is_allocated)
    /\ as' = [as EXCEPT ![p] = old[p]]
    /\ old' = [old EXCEPT ![p] = NoAs]
    /\ mode' = [mode EXCEPT ![p] = IF old[p] = NoAs THEN "none" ELSE "user"]
    /\ UNCHANGED <<todo, severed, bent>>

----------------------------------------------------------------------------
\* vm_fault for a write to a page of the stack that is not there yet; the
\* other faults change no page table.
vm_fault(p) ==
    /\ mode[p] = "user"
    /\ \E a \in STACK_BASE .. USERSTACK - 1, f \in Pages :
          /\ a % PAGE_SIZE = 0 /\ a \notin Mapped(as[p])
          /\ TakePage(f)
          /\ as' = [as EXCEPT ![p] = addPageEntry(@, a, f)]
    /\ severed' = (severed \/ Severs(as[p]))
    /\ UNCHANGED <<old, mode, todo, refreed, bent>>

----------------------------------------------------------------------------
(* sbrk moves the break before it tests it.                                *)

\* Mutant: one page too few when the new break is not on a page boundary.
PagesNeededDown(bytes) == bytes \div PAGE_SIZE

PagesNeeded(bytes) == (bytes \div PAGE_SIZE) + (IF bytes % PAGE_SIZE = 0 THEN 0 ELSE 1)

\* The pages to add, starting from the old break rounded up.
NewHeapPages(space, top) ==
    LET have == space.vbreakbase + space.heapNPages * PAGE_SIZE
        n    == PagesNeeded(top - have)
        from == Page(space.vbreaktop + PAGE_SIZE - 1)
    IN  IF top < have THEN <<>>
        ELSE [i \in 1 .. n |-> (from + (i - 1) * PAGE_SIZE) % AddrMod]

sys_sbrk(p) ==
    /\ mode[p] = "user"
    /\ \E amount \in Amounts :
          LET top == (as[p].vbreaktop + amount) % AddrMod
          IN  \/ /\ top >= STACK_BASE - PAGE_SIZE         \* ENOMEM
                 /\ as' = [as EXCEPT ![p].vbreaktop = top]
                 /\ bent' = bent \cup {p}
                 /\ UNCHANGED <<mode, todo>>
              \/ /\ top < STACK_BASE - PAGE_SIZE
                 /\ top < as[p].vbreakbase                \* EINVAL
                 /\ UNCHANGED <<as, bent, mode, todo>>
              \/ /\ top < STACK_BASE - PAGE_SIZE /\ top >= as[p].vbreakbase
                 /\ as' = [as EXCEPT ![p].vbreaktop = top]
                 /\ todo' = [todo EXCEPT ![p] = NewHeapPages(as[p], top)]
                 /\ mode' = [mode EXCEPT ![p] = "sbrk"]
                 /\ bent' = IF top < as[p].vbreaktop THEN bent \cup {p} ELSE bent
    /\ UNCHANGED <<cmVars, old, refreed, severed>>

\* Returns, with what it found when memory runs out on the way.
sys_sbrk_Return(p) ==
    /\ mode[p] = "sbrk" /\ (todo[p] = <<>> \/ NoMemory)
    /\ bent' = IF todo[p] = <<>> THEN bent ELSE bent \cup {p}
    /\ todo' = [todo EXCEPT ![p] = <<>>]
    /\ mode' = [mode EXCEPT ![p] = "user"]
    /\ UNCHANGED <<cmVars, as, old, refreed, severed>>

----------------------------------------------------------------------------
(* fork: as_copy gives the child the same tables with pages of its own,    *)
(* and nothing else: the regions, the break and end are as as_create left  *)
(* them.                                                                   *)

as_copy(p) ==
    /\ mode[p] = "user"
    /\ \E k \in Procs : mode[k] = "none"
    /\ old' = [old EXCEPT ![p] = as_create]
    /\ todo' = [todo EXCEPT ![p] = [i \in DOMAIN as[p].entries |-> as[p].entries[i].vaddr]]
    /\ mode' = [mode EXCEPT ![p] = "fork"]
    /\ UNCHANGED <<cmVars, as, refreed, severed, bent>>

\* The copy's tables are as full as the parent's; its end stays at the first.
CopyEntry(copy, vaddr, frame) ==
    [copy EXCEPT !.entries = Append(@, [vaddr |-> vaddr, frame |-> frame])]

\* Mutant: the child is given the parent's page.
CopyPageShared(p) ==
    /\ mode[p] = "fork" /\ todo[p] # <<>>
    /\ \E i \in DOMAIN as[p].entries :
          /\ as[p].entries[i].vaddr = Head(todo[p])
          /\ old' = [old EXCEPT ![p] = CopyEntry(@, Head(todo[p]), as[p].entries[i].frame)]
    /\ todo' = [todo EXCEPT ![p] = Tail(@)]
    /\ UNCHANGED <<cmVars, as, mode, refreed, severed, bent>>

CopyPage(p) ==
    /\ mode[p] = "fork" /\ todo[p] # <<>>
    /\ \E f \in Pages :
          /\ TakePage(f)
          /\ old' = [old EXCEPT ![p] = CopyEntry(@, Head(todo[p]), f)]
    /\ todo' = [todo EXCEPT ![p] = Tail(@)]
    /\ UNCHANGED <<as, mode, refreed, severed, bent>>

\* as_destroy for the copy.  A table after the first is not cleared: the entry
\* that was to be filled in next may be anything kmalloc returned.
as_copy_NoMemory(p) ==
    /\ mode[p] = "fork" /\ todo[p] # <<>> /\ NoMemory
    /\ \E junk \in {<<>>} \cup (IF Len(old[p].entries) >= PTABLE_ARRAY_SIZE
                               THEN {<<f>> : f \in Pages} ELSE {}) :
          /\ FreeAll(FramesOf(old[p]) \o junk)
          /\ refreed' = (refreed \/ \E i \in DOMAIN junk : coremap[junk[i]].is_allocated)
    /\ old' = [old EXCEPT ![p] = NoAs]
    /\ todo' = [todo EXCEPT ![p] = <<>>]
    /\ mode' = [mode EXCEPT ![p] = "user"]
    /\ UNCHANGED <<as, severed, bent>>

as_copy_Return(p) ==
    /\ mode[p] = "fork" /\ todo[p] = <<>>
    /\ \E k \in Procs :
          /\ mode[k] = "none"
          /\ as' = [as EXCEPT ![k] = old[p]]
          /\ mode' = [mode EXCEPT ![p] = "user", ![k] = "user"]
          /\ bent' = bent \ {k}
    /\ old' = [old EXCEPT ![p] = NoAs]
    /\ UNCHANGED <<cmVars, todo, refreed, severed>>

\* thread_exit: as_activate(NULL), as_destroy.
thread_exit(p) ==
    /\ mode[p] = "user"
    /\ FreeAll(FramesOf(as[p]))
    /\ as' = [as EXCEPT ![p] = NoAs]
    /\ mode' = [mode EXCEPT ![p] = "none"]
    /\ bent' = bent \ {p}
    /\ UNCHANGED <<old, todo, refreed, severed>>

\* The kernel's own pages come and go meanwhile.
Kernel == /\ (\E n \in ChunkSizes : alloc_kpages(n)) \/ free_kpages
          /\ UNCHANGED asVars

AsNext ==
    \/ \E p \in Procs :
          \/ execv(p) \/ MapPage(p) \/ LoadDone(p) \/ LoadFails(p)
          \/ as_prepare_load_NoMemory(p) \/ DestroyAgain(p)
          \/ vm_fault(p)
          \/ sys_sbrk(p) \/ sys_sbrk_Return(p)
          \/ as_copy(p) \/ CopyPage(p) \/ as_copy_NoMemory(p) \/ as_copy_Return(p)
          \/ thread_exit(p)
    \/ Kernel

AsSpec == AsInit /\ [][AsNext]_allVars

----------------------------------------------------------------------------
(* Properties.                                                             *)

\* Histories that never go back to FALSE and that every property allows:
\* TLC need not go beyond them.
Undamaged == ~overrun /\ ~refreed /\ ~severed

\* The spaces whose pages are accounted for: a space that as_prepare_load
\* has destroyed owns nothing.
Spaces == {<<p, "as">> : p \in {p \in Procs : mode[p] # "destroyed"}}
            \cup {<<p, "old">> : p \in Procs}
SpaceOf(s) == IF s[2] = "as" THEN as[s[1]] ELSE old[s[1]]

\* The coremap describes what is in use, page by page, and no page has two
\* owners, kernel or user: Coremap's properties, under the processes that
\* really use it.
CoremapTrue == Undamaged => ChunksDisjoint /\ MarksMatchChunks

\* A page frame is in one page table, in one place, and is marked in the
\* coremap as a user page of its own: two processes never share memory,
\* through fork, exec, sbrk, faults and all the paths where memory runs out.
FramesHaveOneOwner == Undamaged =>
    \A s, r \in Spaces :
        LET fs == FramesOf(SpaceOf(s))
            gs == FramesOf(SpaceOf(r))
        IN  \A i \in DOMAIN fs :
               /\ coremap[fs[i]] = [chunk_cnt |-> 1, is_allocated |-> TRUE,
                                    is_kern_page |-> FALSE]
               /\ \A j \in DOMAIN gs : fs[i] = gs[j] => s = r /\ i = j

\* Every user page is in some page table, so that it is given back when the
\* process ends.
NoFrameLeaked == Undamaged =>
    \A c \in live : ~c.kern =>
        \E s \in Spaces : \E i \in DOMAIN SpaceOf(s).entries : c.base = SpaceOf(s).entries[i].frame

\* The heap is backed by pages up to the break, which sbrk reports as usable,
\* for a process whose break was never lowered and never moved in vain.
HeapBacked == Undamaged =>
    \A p \in Procs \ bent : mode[p] \in {"user", "fork"} =>
        \A a \in as[p].vbreakbase .. as[p].vbreaktop - 1 : Page(a) \in Mapped(as[p])
============================================================================
