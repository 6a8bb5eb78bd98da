------------------------------ MODULE PageTables ------------------------------
(***************************************************************************)
(* The page pool and the page tables of the hypervisor (paging.c), with    *)
(* the entry formats of arm-common/paging.c: what page_alloc, page_free,   *)
(* paging_create and paging_destroy do to the memory of the hypervisor.    *)
(*                                                                         *)
(* Addresses and sizes are counted in pages.  A memory is a record:        *)
(*   used   the pages of the pool that are allocated                       *)
(*   tab    the contents of the pages, read as page tables                 *)
(*   err    whether the last operation returned -ENOMEM                    *)
(*   warn   for the user of the tables                                     *)
(***************************************************************************)
EXTENDS Integers, Sequences, FiniteSetsExt, SequencesExt

CONSTANTS
  Pages,      \* pages of mem_pool
  Word,       \* BITS_PER_LONG: pages per word of used_bitmap
  PoolBase,   \* page number of base_address
  Fanout,     \* entries of a table page
  Levels,     \* level 1 is the root, level Levels has the 4 KiB entries
  HasBlock,   \* the levels with a page_size
  RootSize    \* ARM_CELL_ROOT_PT_SZ

ASSUME LevelsAssumption == Levels \in HasBlock /\ HasBlock \subseteq 1 .. Levels

NULL == -1
INVALID == [kind |-> "invalid"]
TableAt(pt) == [kind |-> "table", pt |-> pt]
PageAt(phys, flags) == [kind |-> "page", phys |-> phys, flags |-> flags]
EmptyTable == [i \in 0 .. Fanout - 1 |-> INVALID]

\* Op(v), with v evaluated once
With(v, Op(_)) == CHOOSE y \in {Op(x) : x \in {v}} : TRUE

EmptyPool == [used |-> {}, tab |-> [p \in 0 .. Pages - 1 |-> EmptyTable], err |-> FALSE, warn |-> FALSE]

\* Pages one entry of a level covers, and paging->page_size.
Span(level) == Fanout ^ (Levels - level)
PageSize(level) == IF level \in HasBlock THEN Span(level) ELSE 0

-----------------------------------------------------------------------------
(* The pool.  Faulty variants carry a suffix that names the fault.         *)

\* find_next_free_page: a last word that is not full is never searched.
find_next_free_page(used, start) ==
  LET free == {p \in start .. Word * (Pages \div Word) - 1 : p \notin used}
  IN IF free = {} THEN NULL ELSE Min(free)

\* page_alloc_internal from page next on, for a power of two num; align is
\* num for an aligned allocation and 1 otherwise.
RECURSIVE SearchFrom(_, _, _, _)
SearchFrom(used, num, align, next) ==
  LET aligned_start == PoolBase % align
      off == (next - aligned_start) % align
      start == find_next_free_page(used, IF off = 0 THEN next ELSE next + num - off)
      gaps == {p \in start + 1 .. start + num - 1 : find_next_free_page(used, p) # p}
  IN CASE start = NULL -> NULL
       [] start # NULL /\ (start - aligned_start) % align # 0 -> SearchFrom(used, num, align, start)
       [] start # NULL /\ (start - aligned_start) % align = 0 /\ gaps # {} ->
            LET following == find_next_free_page(used, Min(gaps))
            IN IF following = NULL THEN NULL ELSE SearchFrom(used, num, align, following)
       [] OTHER -> start

page_alloc_internal(m, num, align) ==
  With(SearchFrom(m.used, num, align, PoolBase % align), LAMBDA start :
    [page |-> start,
     m |-> IF start = NULL THEN [m EXCEPT !.err = TRUE]
                           ELSE [m EXCEPT !.used = @ \cup (start .. start + num - 1)]])

page_alloc(m) == page_alloc_internal(m, 1, 1)
page_alloc_aligned(m, num) == page_alloc_internal(m, num, num)

\* The pages are scrubbed.
page_free(m, page, num) ==
  [m EXCEPT !.used = @ \ (page .. page + num - 1),
            !.tab = [p \in DOMAIN @ |-> IF p \in page .. page + num - 1 THEN EmptyTable ELSE @[p]]]

-----------------------------------------------------------------------------
(* Entries. *)

\* get_entry: the page and the index of the entry for virt; the pages of a
\* root table are consecutive.
get_entry(pt, level, virt) ==
  LET n == (virt \div Span(level)) % (IF level = 1 THEN Fanout * RootSize ELSE Fanout)
  IN <<pt + (n \div Fanout), n % Fanout>>

Entry(m, slot) == m.tab[slot[1]][slot[2]]
SetEntry(m, slot, e) == [m EXCEPT !.tab[slot[1]][slot[2]] = e]
page_table_empty(m, pt) == m.tab[pt] = EmptyTable

\* What the MMU finds for virt: the address and flags, or INVALID.
RECURSIVE Walk(_, _, _, _)
Walk(m, pt, level, virt) ==
  LET e == Entry(m, get_entry(pt, level, virt)) IN
    CASE e.kind = "table" -> Walk(m, e.pt, level + 1, virt)
      [] e.kind = "page" -> PageAt(e.phys + (virt % Span(level)), e.flags)
      [] OTHER -> INVALID

\* The entries of the pages in use that point to a table.
TableSlots(m) == {slot \in m.used \X (0 .. Fanout - 1) : Entry(m, slot).kind = "table"}

-----------------------------------------------------------------------------
(* paging_create and paging_destroy.  A structure is a table and its level. *)

RECURSIVE paging_create(_, _, _, _, _, _, _)
RECURSIVE paging_destroy(_, _, _, _, _)
RECURSIVE CreateEntry(_, _, _, _, _, _, _)
RECURSIVE WalkDown(_, _, _, _, _)
RECURSIVE ClearUp(_, _, _, _)

\* split_hugepage of the terminal entry at slot
split_hugepage(m, slot, level, virt) ==
  LET base == (virt \div Span(level)) * Span(level)
      Replaced(e, a) ==
        IF a.page = NULL THEN a.m
        ELSE paging_create(SetEntry(a.m, slot, TableAt(a.page)), a.page, level + 1,
                           e.phys, Span(level), base, e.flags)
  IN With(page_alloc(m), LAMBDA a : Replaced(Entry(m, slot), a))

\* The mapping can be made with one entry of the level.
Fits(level, phys, size, virt) ==
  /\ PageSize(level) > 0 /\ PageSize(level) <= size
  /\ phys % PageSize(level) = 0 /\ virt % PageSize(level) = 0

\* The table below an invalid entry
NewTable(m, slot) ==
  With(page_alloc(m), LAMBDA a :
    IF a.page = NULL THEN a.m ELSE SetEntry(a.m, slot, TableAt(a.page)))

\* The inner loop of paging_create; "done" is the size it has mapped.
CreateEntry(m, pt, level, phys, size, virt, flags) ==
  LET slot == get_entry(pt, level, virt)
      Below == CASE Entry(m, slot).kind = "table" -> m
                 [] Entry(m, slot).kind = "page" -> split_hugepage(m, slot, level, virt)
                 [] OTHER -> NewTable(m, slot)
      Cleared == IF PageSize(level) > 1 THEN paging_destroy(m, pt, level, virt, PageSize(level))
                                        ELSE m
  IN IF Fits(level, phys, size, virt)
     THEN [m |-> SetEntry(Cleared, slot, PageAt(phys, flags)), done |-> PageSize(level)]
     ELSE With(Below, LAMBDA n :
            IF n.err THEN [m |-> n, done |-> 0]
            ELSE CreateEntry(n, Entry(n, slot).pt, level + 1, phys, size, virt, flags))

paging_create(m, pt, level, phys, size, virt, flags) ==
  IF size = 0 THEN m
  ELSE With(m, LAMBDA n : With(CreateEntry(n, pt, level, phys, size, virt, flags), LAMBDA c :
         IF c.m.err THEN c.m
         ELSE paging_create(c.m, pt, level, phys + c.done, size - c.done, virt + c.done, flags)))

NeedsSplit_never(level, size) == FALSE
NeedsSplit_always(level, size) == PageSize(level) > 1
\* Less than the large page is to be unmapped.
NeedsSplit(level, size) == PageSize(level) > size

\* The way down: path is the sequence of tables.
WalkDown(m, path, level, virt, size) ==
  LET slot == get_entry(Last(path), level, virt)
      Stop(n) == [m |-> n, path |-> path, level |-> level]
      Down(n) == WalkDown(n, Append(path, Entry(n, slot).pt), level + 1, virt, size)
  IN CASE Entry(m, slot).kind = "table" -> Down(m)
       [] Entry(m, slot).kind = "page" /\ NeedsSplit(level, size) ->
            With(split_hugepage(m, slot, level, virt), LAMBDA n : IF n.err THEN Stop(n) ELSE Down(n))
       [] OTHER -> Stop(m)

ClearUp_tables_kept(m, path, level, virt) ==
  SetEntry(m, get_entry(Last(path), level, virt), INVALID)
\* The way up: the entry is cleared, and a table that is now empty is freed.
ClearUp(m, path, level, virt) ==
  With(SetEntry(m, get_entry(Last(path), level, virt), INVALID), LAMBDA n :
    IF Len(path) = 1 \/ ~page_table_empty(n, Last(path)) THEN n
    ELSE ClearUp(page_free(n, Last(path), 1), Front(path), level - 1, virt))

paging_destroy(m, pt, level, virt, size) ==
  LET Advance(down) == IF PageSize(down.level) > 0 THEN PageSize(down.level) ELSE 1
      Cleared(down) == ClearUp(down.m, down.path, down.level, virt)
  IN IF size = 0 THEN m
     ELSE With(m, LAMBDA n : With(WalkDown(n, <<pt>>, level, virt, size), LAMBDA down :
            CASE down.m.err -> down.m
              [] ~down.m.err /\ Advance(down) > size -> Cleared(down)
              [] OTHER -> paging_destroy(Cleared(down), pt, level, virt + Advance(down),
                                         size - Advance(down))))
===============================================================================
