---------------------------- MODULE MmioDispatch ----------------------------
(***************************************************************************)
(* The table of MMIO regions of a cell (hypervisor/mmio.c).  Regions are   *)
(* registered and unregistered under a lock that moves the entries of a    *)
(* sorted array one by one; the CPUs of the cell look regions up in the    *)
(* array without the lock.                                                 *)
(*                                                                         *)
(* A step of the writer is what it stores between two memory barriers; a   *)
(* step of a reader is one access to the table.                            *)
(***************************************************************************)
EXTENDS Integers, FiniteSets

CONSTANTS
  SizeOf,   \* SizeOf[start]: the size of the region at that address
  Max,      \* max_mmio_regions
  TOP,      \* the address -1, above every region
  Reader,   \* CPUs of the cell
  Access    \* accesses [address, size] they make

VARIABLES
  mmio_locations,    \* entry of the table: start and size of a region
  mmio_handlers,     \* entry of the table: handler, named by its region's start
  num_mmio_regions,
  writer,            \* the holder of mmio_region_lock and where it is
  reader,            \* the lookup of each CPU
  registered         \* starts of the regions registered and not unregistered

vars == <<mmio_locations, mmio_handlers, num_mmio_regions, writer, reader, registered>>
table == <<mmio_locations, mmio_handlers, num_mmio_regions>>

Region == DOMAIN SizeOf

NULL == TOP + 1
Unlocked == [op |-> "none", moves |-> FALSE]
NoLookup == [pc |-> "idle"]

\* Regions neither overlap nor reach the last address.
ASSUME RegionAssumption ==
  /\ TOP \in Nat /\ Region \subseteq Nat /\ SizeOf \in [Region -> Nat]
  /\ \A r \in Region : r + SizeOf[r] < TOP /\ \A q \in Region : q > r => q >= r + SizeOf[r]
ASSUME MaxAssumption == Max \in Nat \ {0}
\* A load or store has at least one byte and does not wrap around.
ASSUME AccessAssumption ==
  /\ Access \subseteq [address : Nat, size : Nat \ {0}]
  /\ \A a \in Access : a.address + a.size <= TOP

\* Behind the last entry of the locations lies the first handler, an address
\* above every region.
Init ==
  /\ mmio_locations = [i \in 0..Max |-> [start |-> IF i = Max THEN TOP ELSE 0, size |-> 0]]
  /\ mmio_handlers = [i \in 0..Max |-> NULL]
  /\ num_mmio_regions = 0
  /\ writer = Unlocked
  /\ reader = [c \in Reader |-> NoLookup]
  /\ registered = {}

-----------------------------------------------------------------------------
(* find_region *)

\* One turn of the loop over the range of length l.len from l.lo.
Probe(l, a) ==
  LET index == l.lo + l.len \div 2
      region == mmio_locations[index]
  IN IF a.address < region.start
       THEN [l EXCEPT !.len = index - l.lo]
     ELSE IF region.start + region.size < a.address + a.size
       THEN [l EXCEPT !.len = l.len - (index + 1 - l.lo), !.lo = index + 1]
     ELSE [l EXCEPT !.pc = "handler", !.index = index]

\* The whole search with the lock held: the entry that covers address start.
IndexOf(start) ==
  {i \in 0..(num_mmio_regions - 1) :
     /\ mmio_locations[i].start <= start
     /\ start + 1 <= mmio_locations[i].start + mmio_locations[i].size}

-----------------------------------------------------------------------------
(* The writer.  A lookup remembers whether entries moved under it, and     *)
(* which regions were registered all along.                                *)

Stable == IF writer.op = "unregister" THEN registered \ {writer.region} ELSE registered

Disturb ==
  reader' = [c \in Reader |->
    LET l == reader[c] IN
      IF l.pc = "idle" THEN l
        ELSE [l EXCEPT !.moved = l.moved \/ writer.moves \/ writer'.moves,
                       !.always = l.always \cap Stable']]

\* Faulty variants of the definitions carry a suffix that names the fault; no
\* specification uses them.
IsFull == num_mmio_regions >= Max

\* The index of the first region behind r, or the end of the table.
InsertAt_end(r) == num_mmio_regions
InsertAt(r) ==
  LET later == {i \in 0..(num_mmio_regions - 1) : mmio_locations[i].start > r}
  IN IF later = {} THEN num_mmio_regions ELSE CHOOSE i \in later : \A j \in later : i <= j

Dummy_zero == [start |-> 0, size |-> 0]
Dummy == [start |-> TOP, size |-> 0]

\* mmio_region_register up to the dummy entry; a full table refuses.
RegisterBegin(r) ==
  /\ writer = Unlocked
  /\ ~IsFull
  /\ r \notin registered
  /\ writer' = [op |-> "register", region |-> r, index |-> InsertAt(r),
                dst |-> num_mmio_regions, step |-> "extend",
                moves |-> InsertAt(r) # num_mmio_regions]
  /\ mmio_locations' = [mmio_locations EXCEPT ![num_mmio_regions] = Dummy]
  /\ UNCHANGED <<mmio_handlers, num_mmio_regions, registered>>
  /\ Disturb

RegisterExtend ==
  /\ writer.op = "register" /\ writer.step = "extend"
  /\ num_mmio_regions' = num_mmio_regions + 1
  /\ writer' = [writer EXCEPT !.step = "invalidate"]
  /\ UNCHANGED <<mmio_locations, mmio_handlers, registered>>
  /\ Disturb

\* mmio_region_unregister; nothing happens when the region is not found.
UnregisterBegin(r) ==
  /\ writer = Unlocked
  /\ \E i \in IndexOf(r) :
       writer' = [op |-> "unregister", region |-> r, index |-> i, dst |-> i,
                  step |-> "invalidate", moves |-> TRUE]
  /\ UNCHANGED <<table, registered>>
  /\ Disturb

\* What is written to entry dst: the new region, or the neighbouring entry.
Source(w) == IF w.op = "register" THEN w.dst - 1 ELSE w.dst + 1

NewLocation(w) ==
  IF w.op = "register" /\ w.dst = w.index
    THEN [start |-> w.region, size |-> SizeOf[w.region]]
    ELSE mmio_locations[Source(w)]
NewHandler(w) ==
  IF w.op = "register" /\ w.dst = w.index THEN w.region ELSE mmio_handlers[Source(w)]

\* copy_region, and the same steps for the new entry: invalidate ...
Invalidate ==
  /\ writer # Unlocked /\ writer.step = "invalidate"
  /\ mmio_locations' = [mmio_locations EXCEPT ![writer.dst].size = 0]
  /\ writer' = [writer EXCEPT !.step = "fill"]
  /\ UNCHANGED <<mmio_handlers, num_mmio_regions, registered>>
  /\ Disturb

\* ... store start and handler ...
Fill ==
  /\ writer # Unlocked /\ writer.step = "fill"
  /\ mmio_locations' = [mmio_locations EXCEPT ![writer.dst].start = NewLocation(writer).start]
  /\ mmio_handlers' = [mmio_handlers EXCEPT ![writer.dst] = NewHandler(writer)]
  /\ writer' = [writer EXCEPT !.step = "activate"]
  /\ UNCHANGED <<num_mmio_regions, registered>>
  /\ Disturb

\* The last entry to move: the new one, or the last of the table.
LastMove(w) ==
  IF w.op = "register" THEN w.dst = w.index ELSE w.dst = num_mmio_regions - 1

\* ... and activate; then the next entry, or the end.
Activate ==
  /\ writer # Unlocked /\ writer.step = "activate"
  /\ mmio_locations' = [mmio_locations EXCEPT ![writer.dst].size = NewLocation(writer).size]
  /\ \/ /\ ~LastMove(writer)
        /\ writer' = [writer EXCEPT !.step = "invalidate", !.dst = Source(writer)]
        /\ UNCHANGED registered
     \/ /\ LastMove(writer) /\ writer.op = "register"
        /\ writer' = Unlocked
        /\ registered' = registered \cup {writer.region}
     \/ /\ LastMove(writer) /\ writer.op = "unregister"
        /\ writer' = [writer EXCEPT !.step = "shrink"]
        /\ UNCHANGED registered
  /\ UNCHANGED <<mmio_handlers, num_mmio_regions>>
  /\ Disturb

UnregisterShrink ==
  /\ writer.op = "unregister" /\ writer.step = "shrink"
  /\ num_mmio_regions' = num_mmio_regions - 1
  /\ registered' = registered \ {writer.region}
  /\ writer' = Unlocked
  /\ UNCHANGED <<mmio_locations, mmio_handlers>>
  /\ Disturb

-----------------------------------------------------------------------------
(* mmio_handle_access *)

\* The lookup reads the number of regions.
AccessBegin(c, a) ==
  /\ reader[c] = NoLookup
  /\ reader' = [reader EXCEPT ![c] =
       [pc |-> "search", access |-> a, lo |-> 0, len |-> num_mmio_regions, index |-> 0,
        handler |-> NULL, offset |-> 0, arg |-> NULL,
        moved |-> writer.moves, always |-> Stable]]
  /\ UNCHANGED <<table, writer, registered>>

Search(c) ==
  /\ reader[c].pc = "search"
  /\ reader' = [reader EXCEPT ![c] =
       IF reader[c].len = 0 THEN [reader[c] EXCEPT !.pc = "unhandled"]
                            ELSE Probe(reader[c], reader[c].access)]
  /\ UNCHANGED <<table, writer, registered>>

\* Addresses are unsigned: TOP is the last before 0.
Wrapped(offset) == IF offset < 0 THEN offset + TOP + 1 ELSE offset

\* The handler, the start of the region and the argument are read one after
\* the other.
Dispatch(c) ==
  LET l == reader[c] IN
    /\ \/ /\ l.pc = "handler"
          /\ reader' = [reader EXCEPT ![c] =
               [l EXCEPT !.pc = "start", !.handler = mmio_handlers[l.index]]]
       \/ /\ l.pc = "start"
          /\ reader' = [reader EXCEPT ![c] =
               [l EXCEPT !.pc = "arg",
                         !.offset = Wrapped(l.access.address - mmio_locations[l.index].start)]]
       \/ /\ l.pc = "arg"
          /\ reader' = [reader EXCEPT ![c] =
               [l EXCEPT !.pc = "handled", !.arg = mmio_handlers[l.index]]]
    /\ UNCHANGED <<table, writer, registered>>

AccessEnd(c) ==
  /\ reader[c].pc \in {"handled", "unhandled"}
  /\ reader' = [reader EXCEPT ![c] = NoLookup]
  /\ UNCHANGED <<table, writer, registered>>

Next ==
  \/ \E r \in Region : RegisterBegin(r) \/ UnregisterBegin(r)
  \/ RegisterExtend \/ Invalidate \/ Fill \/ Activate \/ UnregisterShrink
  \/ \E c \in Reader :
       \/ \E a \in Access : AccessBegin(c, a)
       \/ Search(c) \/ Dispatch(c) \/ AccessEnd(c)

Spec == Init /\ [][Next]_vars

-----------------------------------------------------------------------------
(* Properties *)

Covers(r, a) == r <= a.address /\ a.address + a.size <= r + SizeOf[r]

\* The table, the lock holder and the lookups have the types the code gives
\* them; no probe of find_region is outside the table.
TypeOK ==
  /\ mmio_locations \in [0..Max -> [start : Region \cup {0, TOP}, size : Nat]]
  /\ mmio_handlers \in [0..Max -> Region \cup {NULL}]
  /\ num_mmio_regions \in 0..Max
  /\ registered \subseteq Region
  /\ writer # Unlocked => writer.dst \in 0..(Max - 1)
  /\ \A c \in Reader : reader[c].pc = "search" => reader[c].lo + reader[c].len <= Max

\* When nobody holds the lock, the first num_mmio_regions entries are exactly
\* the registered regions, in ascending order, each with its own size and
\* handler (mmio_region_register, mmio_region_unregister).
TableIsSorted ==
  LET index == 0..(num_mmio_regions - 1) IN
    /\ TypeOK
    /\ writer = Unlocked =>
         /\ num_mmio_regions = Cardinality(registered)
         /\ \A i \in index :
              LET r == mmio_locations[i].start IN
                /\ r \in registered
                /\ mmio_locations[i].size = SizeOf[r]
                /\ mmio_handlers[i] = r
                /\ \A j \in index : j > i => mmio_locations[j].start > r

\* A lookup under which no entry moves is right, also when a region is being
\* appended to the table meanwhile: it calls the handler of a region that
\* covers the access, with that region's argument and the offset into it, and
\* the access is unhandled only when no region that was registered all along
\* covers it (find_region without the lock, mmio_handle_access).
LookupIsExact ==
  \A c \in Reader :
    LET l == reader[c] IN
      /\ l.pc = "handled" /\ ~l.moved =>
           /\ l.handler \in registered /\ Covers(l.handler, l.access)
           /\ l.arg = l.handler /\ l.offset = l.access.address - l.handler
      /\ l.pc = "unhandled" /\ ~l.moved => ~\E r \in l.always : Covers(r, l.access)

\* A region that is registered during the whole lookup is found, whatever is
\* registered or unregistered meanwhile: a region being moved "will remain
\* visible" (comment in mmio_region_register).
MovedRemainsVisible ==
  \A c \in Reader :
    reader[c].pc = "unhandled" => ~\E r \in reader[c].always : Covers(r, reader[c].access)
=============================================================================
