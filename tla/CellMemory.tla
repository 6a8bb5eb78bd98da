------------------------------ MODULE CellMemory ------------------------------
(***************************************************************************)
(* Which cell maps which memory: how cell_create, cell_start,              *)
(* cell_set_loadable and cell_destroy (control.c) move memory regions and  *)
(* colored regions (coloring.c) between the page tables of the root cell   *)
(* and those of the other cells, while other parts of the hypervisor use   *)
(* the same page pool and any allocation may fail.                         *)
(*                                                                         *)
(* The commands run while every CPU that uses one of the tables is         *)
(* suspended, so each is one step.                                         *)
(***************************************************************************)
EXTENDS PageTables

CONSTANTS
  Cell,
  RootMem,     \* memory regions of the root cell, mapped one to one
  Mem,         \* Mem[c]: the memory regions of cell c
  ColMem,      \* ColMem[c]: its colored regions
  Unit,        \* fragment_unit_size
  Stride,      \* fragment_unit_offset
  CommPhys,    \* CommPhys[c]: where the hypervisor keeps comm_page
  MaxOther     \* bound: pages other parts of the hypervisor hold

VARIABLES
  mem,         \* page pool and page tables; warn is history: memory could
               \* not be given back to the root cell
  cell,        \* cell[c]: NULL, or its pages, its root table and loadable
  other,       \* pages held by other parts of the hypervisor
  partial,     \* history: cells whose start or load failed on the way
  unmap_failed \* history: unmapping a region from its own cell failed

vars == <<mem, cell, other, partial, unmap_failed>>

NoCell == [pages |-> {}, root |-> NULL, loadable |-> FALSE]
Exists(c) == cell[c] # NoCell

-----------------------------------------------------------------------------
(* Colored regions.  Faulty variants carry a suffix that names the fault.  *)

MAX_COLORS == Stride \div Unit

\* The color mask, highest bit first: color k of the platform is bit
\* MAX_COLORS - 1 - k of the configuration.
Mask(colors) == {k \in 0 .. MAX_COLORS - 1 : (MAX_COLORS - 1 - k) \in colors}

\* ranges_in_mask: the runs of colors in the mask, in order
ranges_in_mask(mask) ==
  LET runs == {<<i, j>> \in mask \X mask :
                 i <= j /\ i .. j \subseteq mask /\ i - 1 \notin mask /\ j + 1 \notin mask}
  IN SetToSortSeq(runs, LAMBDA a, b : a[1] < b[1])

FragmentOffset_uncolored(round, range) == (round * Stride)
\* Where a fragment starts in the colored region.
FragmentOffset(round, range) == (range[1] * Unit) + (round * Stride)

Rounds(col) == col.size \div Stride

\* The fragments manage_colored_regions goes through, with the virtual
\* addresses one after the other; col tells which colored region it is.
Fragments(c, col) ==
  LET region == ColMem[c][col]
      ranges == ranges_in_mask(Mask(region.colors))
      run(i) == ranges[((i - 1) % Len(ranges)) + 1]
      size(i) == (run(i)[2] - run(i)[1] + 1) * Unit
  IN [i \in 1 .. Rounds(region) * Len(ranges) |->
        [phys |-> region.phys + FragmentOffset((i - 1) \div Len(ranges), run(i)),
         virt |-> region.virt + MapThenSumSet(size, 1 .. i - 1),
         size |-> size(i), flags |-> region.flags, col |-> col]]

\* All the regions of a cell, in the order of the loops.
Regions == [c \in Cell |->
  [i \in DOMAIN Mem[c] |-> Mem[c][i] @@ [col |-> 0]]
    \o FlattenSeq([i \in DOMAIN ColMem[c] |-> Fragments(c, i)])]

-----------------------------------------------------------------------------
(* Moving a region.  Each operator takes and returns a memory.             *)

root_table == PoolBase % RootSize
Taken(r) == r.flags \cap {"comm", "shared"} = {}
IsLoadable(r) == "loadable" \in r.flags

\* arch_map_memory_region and arch_unmap_memory_region of a cell
MapRegion(m, c, root, r) ==
  paging_create(m, root, 1, IF "comm" \in r.flags THEN CommPhys[c] ELSE r.phys,
                r.size, r.virt, r.flags \cap {"read", "write"})
UnmapRegion(m, root, r) == paging_destroy(m, root, 1, r.virt, r.size)

\* The root cell maps its memory one to one.
unmap_from_root_cell(m, r) == paging_destroy(m, root_table, 1, r.phys, r.size)

\* The part of region r that lies in region q of the root cell.
Overlap(r, q) == (r.phys .. r.phys + r.size - 1) \cap (q.phys .. q.phys + q.size - 1)

Remapped(n, q, overlap) ==
  paging_create([n EXCEPT !.err = FALSE], root_table, 1, Min(overlap), Cardinality(overlap),
                Min(overlap), q.flags)

\* remap_to_root_cell; abort says to stop at the first failure.  The error it
\* returns is the one of the last region it tried.
remap_to_root_cell(m, r, abort) ==
  LET Step(n, q) ==
        IF Overlap(r, q) = {} \/ (n.err /\ abort) THEN n
        ELSE With(Remapped(n, q, Overlap(r, q)), LAMBDA remapped :
               [remapped EXCEPT !.warn = @ \/ (remapped.err /\ ~abort)])
  IN FoldLeft(Step, m, RootMem)

-----------------------------------------------------------------------------
(* Init: the tables of the root cell after setup. *)

Boot ==
  LET Map(m, q) == paging_create(m, root_table, 1, q.phys, q.size, q.phys, q.flags)
  IN FoldLeft(Map, page_alloc_aligned(EmptyPool, RootSize).m, RootMem)

Init ==
  /\ mem = Boot
  /\ cell = [c \in Cell |-> NoCell]
  /\ other = {}
  /\ partial = {}
  /\ unmap_failed = FALSE

-----------------------------------------------------------------------------
(* The commands. *)

\* The loops over the regions stop at the first step that fails.
CreateRegions(m, c, root) ==
  LET Step(n, r) ==
        IF n.err THEN n
        ELSE With(IF Taken(r) THEN unmap_from_root_cell(n, r) ELSE n, LAMBDA unmapped :
               IF unmapped.err THEN unmapped ELSE MapRegion(unmapped, c, root, r))
  IN FoldLeft(Step, m, Regions[c])

\* The loops of cell_destroy_internal ignore failures, but a failure ends the
\* loop over the fragments of a colored region (skip).
DestroyRegions(m, c, root) ==
  LET NoError(n) == [n EXCEPT !.err = FALSE]
      Returned(n, r) == IF Taken(r) THEN remap_to_root_cell(NoError(n), r, FALSE) ELSE NoError(n)
      Step(acc, r) ==
        IF r.col > 0 /\ r.col = acc.skip THEN acc
        ELSE With(UnmapRegion(acc.m, root, r), LAMBDA unmapped :
             With(IF r.col > 0 /\ unmapped.err THEN unmapped ELSE Returned(unmapped, r), LAMBDA n :
               [m |-> NoError(n),
                skip |-> IF n.err THEN r.col ELSE acc.skip,
                failed |-> acc.failed \/ unmapped.err]))
  IN FoldLeft(Step, [m |-> m, skip |-> 0, failed |-> unmap_failed], Regions[c])

\* arch_cell_destroy, cell_exit and the release of the cell itself
FreePages(m, pages, root) ==
  FoldSet(LAMBDA p, n : page_free(n, p, 1), page_free(m, root, RootSize), pages)

cell_create(c) ==
  /\ ~Exists(c)
  /\ \E a \in {page_alloc(mem)} :                        \* the cell
     \E b \in {page_alloc(a.m)} :                        \* its MMIO table
     \E r \in {page_alloc_aligned(b.m, RootSize)} :      \* its root table
       IF r.m.err THEN UNCHANGED <<mem, cell, unmap_failed>>
       ELSE \E created \in {CreateRegions(r.m, c, r.page)} :
              \/ /\ ~created.err
                 /\ mem' = created
                 /\ cell' = [cell EXCEPT ![c] = [pages |-> {a.page, b.page}, root |-> r.page,
                                                loadable |-> FALSE]]
                 /\ UNCHANGED unmap_failed
              \/ /\ created.err
                 /\ \E destroyed \in {DestroyRegions([created EXCEPT !.err = FALSE], c, r.page)} :
                      /\ mem' = FreePages(destroyed.m, {a.page, b.page}, r.page)
                      /\ unmap_failed' = destroyed.failed
                 /\ UNCHANGED cell
  /\ UNCHANGED <<other, partial>>

\* Both commands stop at the first failure, and the cell stays loadable.
LoadableRegions(c) == SelectSeq(Regions[c], IsLoadable)

cell_start(c) ==
  /\ Exists(c) /\ cell[c].loadable
  /\ \E m \in {FoldLeft(LAMBDA n, r : IF n.err THEN n ELSE unmap_from_root_cell(n, r),
                     mem, LoadableRegions(c))} :
       /\ mem' = [m EXCEPT !.err = FALSE]
       /\ cell' = [cell EXCEPT ![c].loadable = m.err]
       /\ partial' = IF m.err THEN partial \cup {c} ELSE partial \ {c}
  /\ UNCHANGED <<other, unmap_failed>>

cell_set_loadable(c) ==
  /\ Exists(c) /\ ~cell[c].loadable
  /\ \E m \in {FoldLeft(LAMBDA n, r : IF n.err THEN n ELSE remap_to_root_cell(n, r, TRUE),
                     mem, LoadableRegions(c))} :
       /\ mem' = [m EXCEPT !.err = FALSE]
       /\ cell' = [cell EXCEPT ![c].loadable = TRUE]
       /\ partial' = IF m.err THEN partial \cup {c} ELSE partial
  /\ UNCHANGED <<other, unmap_failed>>

cell_destroy(c) ==
  /\ Exists(c)
  /\ \E destroyed \in {DestroyRegions(mem, c, cell[c].root)} :
       /\ mem' = FreePages(destroyed.m, cell[c].pages, cell[c].root)
       /\ unmap_failed' = destroyed.failed
  /\ cell' = [cell EXCEPT ![c] = NoCell]
  /\ partial' = partial \ {c}
  /\ UNCHANGED other

\* Other parts of the hypervisor take and return pages.
OtherAlloc ==
  LET a == page_alloc(mem) IN
  /\ Cardinality(other) < MaxOther /\ a.page # NULL
  /\ mem' = a.m /\ other' = other \cup {a.page}
  /\ UNCHANGED <<cell, partial, unmap_failed>>

OtherFree(p) ==
  /\ p \in other
  /\ mem' = page_free(mem, p, 1) /\ other' = other \ {p}
  /\ UNCHANGED <<cell, partial, unmap_failed>>

Next ==
  \/ \E c \in Cell : cell_create(c) \/ cell_start(c) \/ cell_set_loadable(c) \/ cell_destroy(c)
  \/ OtherAlloc
  \/ \E p \in other : OtherFree(p)

Spec == Init /\ [][Next]_vars

-----------------------------------------------------------------------------
(* Properties.  They compare what the MMU finds in the tables with what    *)
(* the configurations say.                                                 *)

Address == 0 .. (Fanout * RootSize * Span(1)) - 1

\* The pages of a colored region that have one of its colors.
ColoredPages(q) ==
  {p \in q.phys .. q.phys + Rounds(q) * Stride - 1 : ((p - q.phys) % Stride) \div Unit \in Mask(q.colors)}

PagesOf(q) == q.phys .. q.phys + q.size - 1

\* The pages a cell takes from the root cell, and the loadable ones of them.
Held == [c \in Cell |->
  UNION {PagesOf(q) : q \in {q \in Range(Mem[c]) : Taken(q)}}
    \cup UNION {ColoredPages(q) : q \in {q \in Range(ColMem[c]) : Taken(q)}}]
Loadable == [c \in Cell |->
  UNION {PagesOf(q) : q \in {q \in Range(Mem[c]) : IsLoadable(q)}}
    \cup UNION {ColoredPages(q) : q \in {q \in Range(ColMem[c]) : IsLoadable(q)}}]

\* What cell c is to find at an address: a page of a region, or for a colored
\* region the page of its colors with that rank.
Expected == [c \in Cell |-> [virt \in Address |->
  LET plain == {q \in Range(Mem[c]) : virt \in q.virt .. q.virt + q.size - 1}
      colored == {x \in Range(ColMem[c]) \X Address :
                    /\ x[2] \in ColoredPages(x[1])
                    /\ virt = x[1].virt + Cardinality({o \in ColoredPages(x[1]) : o < x[2]})}
      entries == {PageAt((IF "comm" \in q.flags THEN CommPhys[c] ELSE q.phys) + (virt - q.virt),
                         q.flags \cap {"read", "write"}) : q \in plain}
                 \cup {PageAt(x[2], x[1].flags \cap {"read", "write"}) : x \in colored}
  IN IF entries = {} THEN INVALID ELSE CHOOSE e \in entries : TRUE]]

RootExpected == [p \in Address |->
  LET q == {q \in Range(RootMem) : p \in PagesOf(q)}
  IN IF q = {} THEN INVALID ELSE PageAt(p, (CHOOSE r \in q : TRUE).flags)]

InRoot(p) == Walk(mem, root_table, 1, p)
Lent(c, p) == cell[c].loadable /\ p \in Loadable[c]

\* Pages in use are pages of the pool, and whoever holds a page holds one that
\* is in use: a page is never freed under its user.
TypeOK ==
  /\ mem.used \subseteq 0 .. Pages - 1 /\ ~mem.err
  /\ \A c \in Cell : Exists(c) => cell[c].pages \cup (cell[c].root .. cell[c].root + RootSize - 1) \subseteq mem.used
  /\ other \subseteq mem.used
  /\ partial \subseteq {c \in Cell : Exists(c)}

\* Memory that a cell took from the root cell is mapped in the root cell only
\* while the cell waits to be loaded, however the commands that moved it ended.
Exclusive ==
  \A c \in Cell : Exists(c) =>
    \A p \in Held[c] : InRoot(p) # INVALID => Lent(c, p)

\* The root cell keeps every other page, at its own address and with its own
\* flags, and gets a page back when the cell is destroyed, was not created in
\* the end, or waits to be loaded: splitting and replacing large pages for one
\* region never changes what surrounds it.
RootKeepsTheRest ==
  ~mem.warn => \A p \in Address :
    (\A c \in Cell : Exists(c) /\ p \in Held[c] => Lent(c, p) /\ c \notin partial)
      => InRoot(p) = RootExpected[p]

\* A cell that was created maps exactly its configuration; of a colored region
\* it maps the pages of its colors only, all of them, without gaps.
CellMapsItsMemory ==
  \A c \in Cell : Exists(c) =>
    \A virt \in Address : Walk(mem, cell[c].root, 1, virt) = Expected[c][virt]

\* A cell has the memory of its configuration, all of it and for itself.
CellHasItsMemory == Exclusive /\ CellMapsItsMemory

\* Every page in use has exactly one user: a table of the root cell or of a
\* cell, a cell itself, or another part of the hypervisor.  Commands that fail
\* half-way return what they took.
NoPageLost ==
  LET cells == {c \in Cell : Exists(c)}
      RootPages(pt) == pt .. pt + RootSize - 1
      taken == UNION {cell[c].pages \cup RootPages(cell[c].root) : c \in cells}
      below == {Entry(mem, slot).pt : slot \in TableSlots(mem)}
  IN /\ TypeOK
     /\ ~mem.warn =>
       /\ mem.used = other \cup RootPages(root_table) \cup taken \cup below
       /\ Cardinality(mem.used) =
            Cardinality(other) + RootSize + (2 + RootSize) * Cardinality(cells) + Cardinality(TableSlots(mem))

\* control.c on unmapping a region from the cell that is destroyed: "This cannot
\* fail. The region was mapped as a whole before, thus no hugepages need to be
\* broken up to unmap it."
UnmapCannotFail == ~unmap_failed
===============================================================================
