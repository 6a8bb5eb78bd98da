----------------------------- MODULE MCCellMemory -----------------------------
(* Eight pages of memory in two regions of the root cell, the second read- *)
(* only; tables with two entries, and large pages of two pages.  The plain *)
(* cell takes memory of both regions, the colored cell every other page of *)
(* the first, so that large pages are split around its fragments.          *)
(* The unaligned cell is like the RAM of jetson-tx2-MM-ee3.c: it starts in *)
(* the middle of a large page and is as large as one.                      *)
EXTENDS CellMemory

Region(phys, virt, size, flags) == [phys |-> phys, virt |-> virt, size |-> size, flags |-> flags]

MCRootMem == <<Region(0, 0, 5, {"read", "write"}), Region(5, 5, 3, {"read"})>>
MCMem ==
  ("plain" :> <<Region(4, 0, 4, {"read", "write", "loadable"}), Region(0, 4, 1, {"read"}),
                Region(0, 5, 1, {"comm", "read"}), Region(2, 6, 1, {"shared", "read"})>>) @@
  ("colored" :> <<>>) @@
  ("unaligned" :> <<Region(3, 3, 2, {"read", "write"})>>)
MCColMem ==
  ("plain" :> <<>>) @@
  ("colored" :> <<Region(0, 0, 4, {"read", "loadable"}) @@ [colors |-> {0}]>>) @@
  ("unaligned" :> <<>>)
\* Not explored further: states in which memory was not given back.
Returned == ~mem.warn
MCCommPhys == [c \in {"plain", "colored", "unaligned"} |-> 16]
===============================================================================
