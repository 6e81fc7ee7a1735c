------------------------------ MODULE Coremap ------------------------------
(***************************************************************************)
(* The physical page allocator: the coremap of kern/vm/coremap.c and the   *)
(* operations of kern/vm/vm.c on it, which run under coremap_slock.  A     *)
(* physical address is the index of its page (getindex and indextopaddr    *)
(* are inverse to each other).  Module AddrSpace adds the processes.       *)
(***************************************************************************)
EXTENDS Naturals, FiniteSets

CONSTANTS cm_entries,  \* pages managed by the coremap
          ChunkSizes   \* the numbers of pages alloc_kpages is asked for

ASSUME CoremapAssumption == cm_entries \in Nat \ {0} /\ ChunkSizes \subseteq Nat \ {0}

Pages == 0..(cm_entries - 1)
NoPage == cm_entries      \* getpaddr's 0: nothing found

VARIABLES coremap,   \* coremap[i]: struct cm_entry
          live,      \* the chunks the kernel got and has not freed: records of
                     \* base, npages and kern, as their owners know them
          overrun    \* history: a chunk was freed that lay right before a larger one

cmVars == <<coremap, live, overrun>>

FreeEntry == [chunk_cnt |-> 0, is_allocated |-> FALSE, is_kern_page |-> FALSE]

\* coremap_bootstrap and init_coremap.
CmInit == /\ coremap = [i \in Pages |-> FreeEntry]
          /\ live = {}
          /\ overrun = FALSE

-----------------------------------------------------------------------------
(* coremap.c *)

\* getpaddr: the loop counts the free entries in a row and returns at the
\* first entry where there are npages of them.
getpaddr(cm, npages) ==
  LET ends == {i \in Pages : /\ npages =< i + 1
                             /\ \A j \in (i + 1 - npages)..i : ~cm[j].is_allocated}
  IN  IF ends = {} THEN NoPage
      ELSE (CHOOSE i \in ends : \A j \in ends : i =< j) + 1 - npages

addtocoremap(cm, base, npages, iskern) ==
  [i \in Pages |-> IF i \in base..(base + npages - 1)
                   THEN [chunk_cnt |-> npages, is_allocated |-> TRUE, is_kern_page |-> iskern]
                   ELSE cm[i]]

\* removefromcoremap: the loop's bound is read again at every entry it reaches,
\* so it runs on into the next chunk when that one is the larger; reading past
\* the last entry has no effect on the entries.
RunsTo(cm, base) ==
  LET stops == {k \in 0..cm_entries : base + k >= cm_entries \/ cm[base + k].chunk_cnt =< k}
  IN  CHOOSE k \in stops : \A j \in stops : k =< j

\* Mutant: one entry too many is cleared.
removefromcoremap_extra(cm, base) ==
  [i \in Pages |-> IF base =< i /\ i =< base + RunsTo(cm, base) THEN FreeEntry ELSE cm[i]]

removefromcoremap(cm, base) ==
  [i \in Pages |-> IF base =< i /\ i < base + RunsTo(cm, base) THEN FreeEntry ELSE cm[i]]

-----------------------------------------------------------------------------
(* vm.c *)

Allocate(npages, iskern) ==
  LET base == getpaddr(coremap, npages) IN
  /\ base # NoPage
  /\ coremap' = addtocoremap(coremap, base, npages, iskern)
  /\ live' = live \union {[base |-> base, npages |-> npages, kern |-> iskern]}
  /\ UNCHANGED overrun

\* alloc_kpages(npages); a call that finds no room returns 0 and changes nothing.
alloc_kpages(npages) == Allocate(npages, TRUE)

\* One iteration of page_alloc: a page for the current address space.
page_alloc == Allocate(1, FALSE)

\* Chunk c lies right before the larger chunk d.
BeforeLarger(c, d) == d.base = c.base + c.npages /\ d.npages > c.npages

\* removefromcoremap for the chunk at an address its owner gives back.
Release(chunk) == /\ coremap' = removefromcoremap(coremap, chunk.base)
                  /\ live' = live \ {chunk}
                  /\ overrun' = (overrun \/ \E d \in live : BeforeLarger(chunk, d))

free_kpages == \E chunk \in live : chunk.kern /\ Release(chunk)

-----------------------------------------------------------------------------
(* Properties *)

PagesOf(chunk) == chunk.base..(chunk.base + chunk.npages - 1)

\* vm.h: "Allocate/free kernel heap pages": no page is in the hands of two owners.
ChunksDisjoint == \A c, d \in live : c # d => PagesOf(c) \intersect PagesOf(d) = {}

\* The coremap describes what is in use, page by page: freeing one chunk leaves
\* no page of it marked and no page of another unmarked, as long as no chunk
\* was freed that lay right before a larger one.
MarksMatchChunks == ~overrun =>
  /\ \A chunk \in live : \A i \in PagesOf(chunk) :
       coremap[i] = [chunk_cnt |-> chunk.npages, is_allocated |-> TRUE, is_kern_page |-> chunk.kern]
  /\ \A i \in Pages : coremap[i].is_allocated => \E chunk \in live : i \in PagesOf(chunk)
=============================================================================
