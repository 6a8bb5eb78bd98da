------------------------- MODULE MmioDispatchProofs -------------------------
(***************************************************************************)
(* Proofs about the table of MMIO regions, for every set of regions that   *)
(* do not overlap, every size of the table, any number of CPUs and all     *)
(* accesses of at least one byte.                                          *)
(*                                                                         *)
(* While the lock is held, one entry of the table is being written: the    *)
(* hole.  All other entries are live: they are the regions that stay       *)
(* registered, in ascending order.  A move of an entry makes its old place *)
(* the hole.  Lookups under which no entry moves only see live entries and *)
(* a hole at the end of the table, which cannot be mistaken for a region.  *)
(***************************************************************************)
EXTENDS MmioDispatch, FiniteSetTheorems, TLAPS

Locations == [0..Max -> [start : Region \cup {0, TOP}, size : Nat]]
Handlers == [0..Max -> Region \cup {NULL}]

\* A holder of the lock.
Holder ==
  [op : {"register", "unregister"}, region : Region, index : Nat, dst : 0..(Max - 1),
   step : {"extend", "invalidate", "fill", "activate", "shrink"}, moves : BOOLEAN]

\* A lookup that has begun.
Lookup ==
  [pc : {"search", "handler", "start", "arg", "handled", "unhandled"},
   access : Access, lo : Nat, len : Nat, index : Nat,
   handler : Region \cup {NULL}, offset : Int, arg : Region \cup {NULL},
   moved : BOOLEAN, always : SUBSET Region]

\* The types of all variables.
Types ==
  /\ mmio_locations \in Locations
  /\ mmio_handlers \in Handlers
  /\ num_mmio_regions \in 0..Max
  /\ registered \subseteq Region
  /\ writer = Unlocked \/ writer \in Holder
  /\ \A c \in Reader : reader[c] = NoLookup \/ reader[c] \in Lookup
  /\ DOMAIN reader = Reader

\* The entry the lock holder is about to fill or has not finished.
Hole == IF writer = Unlocked THEN {} ELSE {writer.dst}

\* The other entries.
Live == (0..(num_mmio_regions - 1)) \ Hole

StartOf(i) == mmio_locations[i].start

\* Entry i is a region that stays registered, with its size and handler.
Entry(i) ==
  /\ StartOf(i) \in Stable
  /\ mmio_locations[i].size = SizeOf[StartOf(i)]
  /\ mmio_handlers[i] = StartOf(i)

\* The live entries are the regions that stay registered, in order.
Entries ==
  /\ \A i \in Live : Entry(i)
  /\ \A i, j \in Live : i < j => StartOf(i) < StartOf(j)
  /\ \A r \in Stable : \E i \in Live : StartOf(i) = r

\* Where the lock holder is: the regions behind the new one are those from
\* its index on; the last move leaves the hole at the end of the table.
Registering ==
  writer.op = "register" =>
    /\ writer.region \notin registered
    /\ writer.index <= writer.dst
    /\ writer.step # "shrink"
    /\ IF writer.step = "extend" THEN writer.dst = num_mmio_regions
                                 ELSE writer.dst < num_mmio_regions
    /\ \A i \in Live : IF i < writer.index THEN StartOf(i) < writer.region
                                           ELSE StartOf(i) > writer.region

Unregistering ==
  writer.op = "unregister" =>
    /\ writer.region \in registered
    /\ writer.step # "extend"
    /\ writer.dst < num_mmio_regions
    /\ writer.step = "shrink" => writer.dst = num_mmio_regions - 1
    /\ writer.moves = TRUE

\* What the entry in the hole holds.
Filling ==
  writer # Unlocked =>
    /\ writer.step \in {"fill", "activate"} => mmio_locations[writer.dst].size = 0
    /\ writer.step = "activate" =>
         /\ StartOf(writer.dst) = NewLocation(writer).start
         /\ mmio_handlers[writer.dst] = NewHandler(writer)

\* A region is appended: its entry is the last and has size 0.
Appending ==
  writer # Unlocked /\ writer.moves = FALSE =>
    /\ writer.dst = writer.index
    /\ IF writer.step = "extend" THEN writer.dst = num_mmio_regions
                                 ELSE writer.dst = num_mmio_regions - 1
    /\ mmio_locations[writer.dst].size = 0
    /\ StartOf(writer.dst) = IF writer.step = "activate" THEN writer.region ELSE TOP

\* The number of regions, with the one being registered.
Count ==
  /\ IsFiniteSet(registered)
  /\ num_mmio_regions = Cardinality(registered)
       + (IF writer.op = "register" /\ writer.step # "extend" THEN 1 ELSE 0)

\* What a lookup under which nothing moved has found: a live entry that covers
\* the access, and what it has read of it.
Found(l) ==
  /\ l.index \in Live
  /\ Covers(StartOf(l.index), l.access)
  /\ l.pc \in {"start", "arg", "handled"} => l.handler = StartOf(l.index)
  /\ l.pc \in {"arg", "handled"} => l.offset = l.access.address - StartOf(l.index)
  /\ l.pc = "handled" => l.arg = StartOf(l.index)

\* Its range still contains every region that covers the access and was there
\* all along.
Narrowed(l) ==
  /\ l.lo + l.len <= num_mmio_regions
  /\ \A i \in Live :
       StartOf(i) \in l.always /\ Covers(StartOf(i), l.access) =>
         l.lo <= i /\ i < l.lo + l.len

Unmoved(l) ==
  /\ l.always \subseteq Stable
  /\ l.pc = "search" => Narrowed(l)
  /\ l.pc \in {"handler", "start", "arg", "handled"} => Found(l)
  /\ l.pc = "unhandled" => ~\E r \in l.always : Covers(r, l.access)

\* Any lookup stays inside the arrays.
InRange(l) ==
  /\ l.pc = "search" => l.lo + l.len <= Max
  /\ l.pc \in {"handler", "start", "arg"} => l.index < Max

Lookups ==
  \A c \in Reader : reader[c] # NoLookup =>
    /\ InRange(reader[c])
    /\ writer.moves = TRUE => reader[c].moved = TRUE
    /\ reader[c].moved = FALSE => Unmoved(reader[c])

\* The inductive invariant; WInv is what concerns the lock holder.
WInv == Entries /\ Registering /\ Unregistering /\ Filling /\ Appending
IInv == Types /\ WInv /\ Count /\ Lookups

-----------------------------------------------------------------------------
\* What a location's start may hold is an address.
LEMMA Addresses == Region \cup {0, TOP} \subseteq Nat
BY RegionAssumption

\* The lock is free, or its holder has a record of what it does.
LEMMA WriterShape ==
  ASSUME Types
  PROVE  /\ writer = Unlocked => /\ writer.op = "none" /\ writer.moves = FALSE
                                 /\ Stable = registered /\ Live = 0..(num_mmio_regions - 1)
         /\ writer # Unlocked => writer \in Holder
         /\ writer \in Holder => writer # Unlocked /\ Live = (0..(num_mmio_regions - 1)) \ {writer.dst}
         /\ Stable \subseteq registered
         /\ writer.op = "register" \/ writer.op = "unregister" => writer \in Holder
         /\ writer.moves \in BOOLEAN
         /\ Live \subseteq 0..(Max - 1)
         /\ Live \subseteq 0..(num_mmio_regions - 1)
<1>1. Unlocked.op = "none" /\ Unlocked.moves = FALSE
  BY DEF Unlocked
<1>2. \A w \in Holder : w # Unlocked /\ w.moves \in BOOLEAN
  BY <1>1 DEF Holder
<1>3. Live \subseteq 0..(num_mmio_regions - 1)
  BY DEF Live
<1>4. Live \subseteq 0..(Max - 1)
  BY <1>3, MaxAssumption DEF Types
<1>5. writer # Unlocked => writer \in Holder
  BY DEF Types
<1>6. writer = Unlocked => /\ writer.op = "none" /\ writer.moves = FALSE
                           /\ Stable = registered /\ Live = 0..(num_mmio_regions - 1)
  BY <1>1 DEF Stable, Live, Hole
<1>7. writer \in Holder => writer # Unlocked /\ Live = (0..(num_mmio_regions - 1)) \ {writer.dst}
  BY <1>2 DEF Live, Hole
<1>8. Stable \subseteq registered
  BY DEF Stable
<1>9. writer.moves \in BOOLEAN
  BY <1>2, <1>5, <1>6
<1> QED
  BY <1>3, <1>4, <1>5, <1>6, <1>7, <1>8, <1>9, <1>1

\* What changes in the lookups while the lock holder makes a step: they
\* remember that entries moved, and forget the regions that went away.
LEMMA DisturbEffect ==
  ASSUME Types, Disturb, writer'.moves \in BOOLEAN, NEW c \in Reader
  PROVE  /\ DOMAIN reader' = Reader
         /\ reader[c] = NoLookup => reader'[c] = NoLookup
         /\ reader[c] # NoLookup =>
              /\ reader[c] \in Lookup /\ reader'[c] \in Lookup
              /\ reader'[c] # NoLookup
              /\ reader'[c].pc = reader[c].pc
              /\ reader'[c].access = reader[c].access
              /\ reader'[c].lo = reader[c].lo
              /\ reader'[c].len = reader[c].len
              /\ reader'[c].index = reader[c].index
              /\ reader'[c].handler = reader[c].handler
              /\ reader'[c].offset = reader[c].offset
              /\ reader'[c].arg = reader[c].arg
              /\ reader'[c].always = reader[c].always \cap Stable'
              /\ reader'[c].moved = FALSE <=> /\ reader[c].moved = FALSE
                                              /\ writer.moves = FALSE /\ writer'.moves = FALSE
<1> DEFINE m == reader[c].moved \/ writer.moves \/ writer'.moves
           v == reader[c].always \cap Stable'
           u == [reader[c] EXCEPT !.moved = m, !.always = v]
<1>1. NoLookup.pc = "idle" /\ \A l \in Lookup : l.pc # "idle"
  BY DEF NoLookup, Lookup
<1>2. DOMAIN reader' = Reader /\ reader'[c] = IF reader[c].pc = "idle" THEN reader[c] ELSE u
  BY DEF Disturb
<1>3. CASE reader[c] = NoLookup
  BY <1>1, <1>2, <1>3
<1>4. CASE reader[c] # NoLookup
  <2>1. reader[c] \in Lookup
    BY <1>4 DEF Types
  <2>2. reader'[c] = u
    BY <1>1, <1>2, <2>1
  <2>3. m \in BOOLEAN /\ v \in SUBSET Region
    <3>1. m \in BOOLEAN
      BY ZenonT(30)
    <3>2. reader[c].always \in SUBSET Region
      BY <2>1 DEF Lookup
    <3> QED
      BY <3>1, <3>2
  <2>4. m = FALSE <=> reader[c].moved = FALSE /\ writer.moves = FALSE /\ writer'.moves = FALSE
    <3>1. reader[c].moved \in BOOLEAN /\ writer.moves \in BOOLEAN
      BY <2>1, WriterShape DEF Lookup
    <3> QED
      BY <3>1, ZenonT(30)
  <2> HIDE DEF m, v
  <2>5. u \in Lookup /\ u.moved = m /\ u.always = v
    BY <2>1, <2>3 DEF Lookup
  <2>6. /\ u.pc = reader[c].pc /\ u.access = reader[c].access /\ u.lo = reader[c].lo
        /\ u.len = reader[c].len /\ u.index = reader[c].index /\ u.handler = reader[c].handler
        /\ u.offset = reader[c].offset /\ u.arg = reader[c].arg
    BY <2>1 DEF Lookup
  <2>7. v = reader[c].always \cap Stable'
    BY DEF v
  <2>8. u # NoLookup
    BY <1>1, <2>5
  <2> HIDE DEF u
  <2> QED
    BY <1>4, <1>2, <2>1, <2>2, <2>4, <2>5, <2>6, <2>7, <2>8
<1> QED
  BY <1>3, <1>4

\* A step of the lock holder as seen by the lookups under which nothing moves.
KeepsLive ==
  /\ num_mmio_regions <= num_mmio_regions'
  /\ Live \subseteq Live'
  /\ Stable \subseteq Stable'
  /\ \A i \in Live : StartOf(i)' = StartOf(i)
  /\ \A i \in Live' : i \notin Live => StartOf(i)' \notin Stable

\* A step of the lock holder that keeps the entries, or says that it moves
\* them, keeps what is known of the lookups (find_region without the lock).
LEMMA Disturbed ==
  ASSUME Types, Lookups, Disturb, writer'.moves \in BOOLEAN,
         num_mmio_regions' \in Nat,
         writer.moves = FALSE /\ writer'.moves = FALSE => KeepsLive
  PROVE  Lookups'
<1> SUFFICES ASSUME NEW c \in Reader, reader'[c] # NoLookup
             PROVE  /\ InRange(reader[c])'
                    /\ writer'.moves = TRUE => reader'[c].moved = TRUE
                    /\ reader'[c].moved = FALSE => Unmoved(reader[c])'
  BY DEF Lookups
<1> DEFINE l == reader[c]
           k == reader'[c]
<1>1. /\ l # NoLookup /\ l \in Lookup /\ k \in Lookup
      /\ k.pc = l.pc /\ k.access = l.access /\ k.lo = l.lo /\ k.len = l.len
      /\ k.index = l.index /\ k.handler = l.handler /\ k.offset = l.offset /\ k.arg = l.arg
      /\ k.always = l.always \cap Stable'
      /\ k.moved = FALSE <=> l.moved = FALSE /\ writer.moves = FALSE /\ writer'.moves = FALSE
  BY DisturbEffect
<1>2. InRange(l) /\ (l.moved = FALSE => Unmoved(l))
  BY <1>1 DEF Lookups
<1>3. InRange(reader[c])'
  BY <1>1, <1>2 DEF InRange
<1>4. writer'.moves = TRUE => k.moved = TRUE
  <2>1. k.moved \in BOOLEAN
    BY <1>1 DEF Lookup
  <2> QED
    BY <1>1, <2>1
<1>5. ASSUME k.moved = FALSE PROVE Unmoved(reader[c])'
  <2>1. Unmoved(l) /\ KeepsLive
    BY <1>1, <1>2, <1>5
  <2>2. k.always \subseteq Stable'
    BY <1>1
  <2>3. k.always = l.always
    BY <1>1, <2>1 DEF KeepsLive, Unmoved
  <2>4. ASSUME k.pc = "search" PROVE Narrowed(reader[c])'
    <3>1. Narrowed(l)
      BY <1>1, <2>1, <2>4 DEF Unmoved
    <3>2. k.lo + k.len <= num_mmio_regions'
      BY <1>1, <2>1, <3>1 DEF KeepsLive, Narrowed, Types, Lookup
    <3>3. ASSUME NEW i \in Live', StartOf(i)' \in k.always, Covers(StartOf(i)', k.access)
          PROVE  k.lo <= i /\ i < k.lo + k.len
      <4>1. i \in Live /\ StartOf(i)' = StartOf(i)
        BY <2>1, <2>3, <3>3 DEF KeepsLive, Unmoved
      <4> QED
        BY <1>1, <2>3, <3>1, <3>3, <4>1 DEF Narrowed
    <3> QED
      BY <3>2, <3>3 DEF Narrowed, Covers
  <2>5. ASSUME k.pc \in {"handler", "start", "arg", "handled"} PROVE Found(reader[c])'
    <3>1. Found(l)
      BY <1>1, <2>1, <2>5 DEF Unmoved
    <3>2. k.index \in Live' /\ StartOf(l.index)' = StartOf(l.index)
      BY <1>1, <2>1, <3>1 DEF Found, KeepsLive
    <3> QED
      BY <1>1, <3>1, <3>2 DEF Found, Covers
  <2>6. k.pc = "unhandled" => ~\E r \in k.always : Covers(r, k.access)
    BY <1>1, <2>1, <2>3 DEF Unmoved
  <2> QED
    BY <2>2, <2>4, <2>5, <2>6 DEF Unmoved, Covers
<1> QED
  BY <1>3, <1>4, <1>5

\* The types of the lookups survive the same steps.
LEMMA DisturbedTypes ==
  ASSUME Types, Disturb, writer'.moves \in BOOLEAN
  PROVE  /\ \A c \in Reader : reader'[c] = NoLookup \/ reader'[c] \in Lookup
         /\ DOMAIN reader' = Reader
<1>1. \A c \in Reader : reader'[c] = NoLookup \/ reader'[c] \in Lookup
  BY DisturbEffect
<1>2. DOMAIN reader' = Reader
  BY DEF Disturb
<1> QED
  BY <1>1, <1>2

-----------------------------------------------------------------------------
\* Initially the table is empty and the lock free (mmio_cell_init).
LEMMA InitIInv == Init => IInv
<1> SUFFICES ASSUME Init PROVE IInv
  OBVIOUS
<1>1. mmio_locations \in Locations /\ mmio_handlers \in Handlers
  BY DEF Init, Locations, Handlers
<1>2. Types
  BY <1>1, MaxAssumption DEF Init, Types
<1>3. Live = {} /\ Stable = {} /\ writer = Unlocked
  <2>1. writer = Unlocked /\ Stable = registered /\ Live = 0..(num_mmio_regions - 1)
    BY <1>2, WriterShape DEF Init
  <2> QED
    BY <2>1 DEF Init
<1>4. WInv
  BY <1>2, <1>3, WriterShape DEF WInv, Entries, Registering, Unregistering, Filling, Appending
<1>5. Count
  <2>1. IsFiniteSet({}) /\ Cardinality({}) = 0
    BY FS_EmptySet
  <2> QED
    BY <1>2, <1>3, <2>1, WriterShape DEF Count, Init
<1>6. Lookups
  BY DEF Init, Lookups
<1> QED
  BY <1>2, <1>4, <1>5, <1>6 DEF IInv

-----------------------------------------------------------------------------
\* The types of what the lock holder changes.
TableTypes ==
  /\ mmio_locations \in Locations
  /\ mmio_handlers \in Handlers
  /\ num_mmio_regions \in 0..Max
  /\ registered \subseteq Region
  /\ writer = Unlocked \/ writer \in Holder

\* The place of a new region: behind the smaller ones, before the larger ones
\* (the search loop of mmio_region_register).
LEMMA InsertAtIs ==
  ASSUME Types, Entries, writer = Unlocked, NEW r \in Region, r \notin registered
  PROVE  /\ InsertAt(r) \in 0..num_mmio_regions
         /\ \A i \in 0..(num_mmio_regions - 1) :
              IF i < InsertAt(r) THEN StartOf(i) < r ELSE StartOf(i) > r
<1> DEFINE n == num_mmio_regions
           later == {i \in 0..(n - 1) : mmio_locations[i].start > r}
<1>0. n \in Nat
  BY MaxAssumption DEF Types
<1>1. Live = 0..(n - 1) /\ Stable = registered /\ n \in Nat
  BY <1>0, WriterShape
<1>2. \A i \in 0..(n - 1) : StartOf(i) \in registered /\ StartOf(i) \in Nat /\ StartOf(i) # r
  BY <1>1, Addresses DEF Entries, Entry, Types
<1>3. r \in Nat
  BY RegionAssumption
<1>4. CASE later = {}
  <2>1. InsertAt(r) = n
    BY <1>4 DEF InsertAt
  <2>2. \A i \in 0..(n - 1) : ~(StartOf(i) > r)
    BY <1>4 DEF StartOf
  <2> QED
    BY <1>1, <1>2, <1>3, <2>1, <2>2
<1>5. CASE later # {}
  <2>1. \E i \in later : \A j \in later : i <= j
    <3>1. later \subseteq Nat
      BY <1>1
    <3>2. PICK m \in later : \A j \in later : ~(<<j, m>> \in OpToRel(<, Nat))
      BY <1>5, <3>1, NatLessThanWellFounded, WFMin
    <3>3. \A j \in later : ~(j < m)
      BY <3>1, <3>2 DEF OpToRel
    <3> QED
      BY <3>1, <3>3
  <2>2. InsertAt(r) \in later /\ \A j \in later : InsertAt(r) <= j
    BY <1>5, <2>1 DEF InsertAt
  <2>3. InsertAt(r) \in 0..(n - 1) /\ StartOf(InsertAt(r)) > r
    BY <2>2 DEF StartOf
  <2>4. ASSUME NEW i \in 0..(n - 1), i < InsertAt(r) PROVE StartOf(i) < r
    <3>1. ~(StartOf(i) > r)
      BY <2>2, <2>3, <2>4 DEF StartOf
    <3> QED
      BY <1>2, <1>3, <3>1
  <2>5. ASSUME NEW i \in 0..(n - 1), ~(i < InsertAt(r)) PROVE StartOf(i) > r
    <3>1. i = InsertAt(r) \/ InsertAt(r) < i
      BY <1>1, <2>3, <2>5
    <3>2. InsertAt(r) < i => StartOf(InsertAt(r)) < StartOf(i)
      BY <1>1, <2>3 DEF Entries
    <3> QED
      BY <1>2, <1>3, <2>3, <3>1, <3>2
  <2> QED
    BY <1>1, <2>3, <2>4, <2>5
<1> QED
  BY <1>4, <1>5

\* The step that stores the dummy entry behind the table keeps the invariant
\* (mmio_region_register up to the first barrier).
LEMMA RegisterBeginStep ==
  ASSUME Types, WInv, Count, NEW r \in Region, RegisterBegin(r)
  PROVE  TableTypes' /\ WInv' /\ Count' /\ KeepsLive
<1> DEFINE n == num_mmio_regions
           k == InsertAt(r)
<1>1. writer = Unlocked /\ n \in 0..(Max - 1) /\ r \notin registered
  BY MaxAssumption DEF RegisterBegin, IsFull, Types
<1>2. /\ Live = 0..(n - 1) /\ Stable = registered
      /\ writer.op = "none" /\ writer.moves = FALSE
  BY <1>1, WriterShape
<1>3. k \in 0..n /\ \A i \in 0..(n - 1) : IF i < k THEN StartOf(i) < r ELSE StartOf(i) > r
  BY <1>1, InsertAtIs DEF WInv
<1> HIDE DEF k
<1>4. /\ writer' = [op |-> "register", region |-> r, index |-> k,
                    dst |-> n, step |-> "extend", moves |-> k # n]
      /\ mmio_locations' = [mmio_locations EXCEPT ![n] = Dummy]
      /\ UNCHANGED <<mmio_handlers, num_mmio_regions, registered>>
  BY DEF RegisterBegin, k
<1>5. /\ writer' \in Holder /\ writer'.op = "register" /\ writer'.region = r
      /\ writer'.index = k /\ writer'.dst = n /\ writer'.step = "extend"
  <2>1. (k # n) \in BOOLEAN
    OBVIOUS
  <2> DEFINE b == k # n
  <2> HIDE DEF b
  <2> QED
    BY <1>1, <1>3, <1>4, <2>1 DEF Holder, b
<1>6. writer'.moves = FALSE => k = n
  BY <1>4
<1>7. /\ mmio_locations' \in Locations
      /\ \A i \in 0..Max : i # n => mmio_locations'[i] = mmio_locations[i]
      /\ mmio_locations'[n].start = TOP /\ mmio_locations'[n].size = 0
  BY <1>1, <1>4, MaxAssumption DEF Types, Locations, Dummy
<1>8. writer' # Unlocked
  BY <1>5 DEF Unlocked
<1>9. Live' = 0..(n - 1) /\ Stable' = registered
  BY <1>1, <1>4, <1>5, <1>8 DEF Live, Hole, Stable
<1>10. \A i \in 0..(n - 1) : StartOf(i)' = StartOf(i) /\ mmio_locations'[i] = mmio_locations[i]
  BY <1>1, <1>7, MaxAssumption DEF StartOf
<1>11. TableTypes'
  BY <1>4, <1>5, <1>7 DEF TableTypes, Types
<1>12. Entries'
  BY <1>2, <1>4, <1>9, <1>10 DEF WInv, Entries, Entry
<1>13. Registering'
  BY <1>1, <1>3, <1>4, <1>5, <1>9, <1>10 DEF Registering
<1>14. Unregistering'
  BY <1>5 DEF Unregistering
<1>15. Filling'
  BY <1>5 DEF Filling
<1>16. Appending'
  BY <1>4, <1>5, <1>6, <1>7 DEF Appending, StartOf
<1>17. Count'
  BY <1>2, <1>4, <1>5 DEF Count
<1>18. KeepsLive
  BY <1>1, <1>2, <1>4, <1>9, <1>10 DEF KeepsLive
<1> QED
  BY <1>11, <1>12, <1>13, <1>14, <1>15, <1>16, <1>17, <1>18 DEF WInv

\* Growing the table by the dummy entry keeps the invariant.
LEMMA RegisterExtendStep ==
  ASSUME Types, WInv, Count, RegisterExtend
  PROVE  TableTypes' /\ WInv' /\ Count' /\ KeepsLive
<1> DEFINE n == num_mmio_regions
<1>1. writer \in Holder /\ writer.op = "register" /\ writer.step = "extend" /\ n \in Nat
  BY WriterShape DEF RegisterExtend, Types
<1>2. Registering /\ Appending /\ Entries
  BY DEF WInv
<1>3. writer.dst = n /\ writer.dst \in 0..(Max - 1) /\ n < Max
  BY <1>1, <1>2, MaxAssumption DEF Registering, Holder
<1>4. n' = n + 1 /\ UNCHANGED <<mmio_locations, mmio_handlers, registered>>
  BY DEF RegisterExtend
<1>5. /\ writer' \in Holder /\ writer'.op = "register" /\ writer'.region = writer.region
      /\ writer'.index = writer.index /\ writer'.dst = n /\ writer'.step = "invalidate"
      /\ writer'.moves = writer.moves
  BY <1>1, <1>3 DEF RegisterExtend, Holder
<1>6. writer # Unlocked /\ writer' # Unlocked
  BY <1>1, <1>5 DEF Unlocked
<1>7. Live = 0..(n - 1) /\ Stable = registered
  BY <1>1, <1>3, <1>6 DEF Live, Hole, Stable
<1>8. Live' = 0..(n - 1) /\ Stable' = registered
  BY <1>1, <1>3, <1>4, <1>5, <1>6 DEF Live, Hole, Stable
<1>9. \A i \in 0..(n - 1) : StartOf(i)' = StartOf(i)
  BY <1>4 DEF StartOf
<1>10. TableTypes'
  BY <1>1, <1>3, <1>4, <1>5, MaxAssumption DEF TableTypes, Types
<1>11. Entries'
  BY <1>2, <1>4, <1>7, <1>8, <1>9 DEF Entries, Entry
<1>12. Registering'
  BY <1>1, <1>2, <1>3, <1>4, <1>5, <1>7, <1>8, <1>9 DEF Registering
<1>13. Unregistering' /\ Filling'
  BY <1>5 DEF Unregistering, Filling
<1>14. Appending'
  BY <1>1, <1>2, <1>3, <1>4, <1>5, <1>6 DEF Appending, StartOf
<1>15. Count'
  <2>1. IsFiniteSet(registered) /\ n = Cardinality(registered)
    <3>1. IsFiniteSet(registered)
      BY DEF Count
    <3>2. Cardinality(registered) \in Nat
      BY <3>1, FS_CardinalityType
    <3> QED
      BY <1>1, <3>1, <3>2 DEF Count
  <2> QED
    BY <1>1, <1>4, <1>5, <2>1 DEF Count
<1>16. KeepsLive
  BY <1>1, <1>4, <1>7, <1>8, <1>9 DEF KeepsLive
<1> QED
  BY <1>10, <1>11, <1>12, <1>13, <1>14, <1>15, <1>16 DEF WInv

\* The region found with the lock held is the one to unregister, since regions
\* do not overlap; taking its entry out of the live ones keeps the invariant
\* (mmio_region_unregister).
LEMMA UnregisterBeginStep ==
  ASSUME Types, WInv, Count, NEW r \in Region, UnregisterBegin(r)
  PROVE  TableTypes' /\ WInv' /\ Count' /\ writer'.moves = TRUE
<1> DEFINE n == num_mmio_regions
<1>0. n \in 0..Max /\ n \in Nat
  BY MaxAssumption DEF Types
<1>1. writer = Unlocked /\ UNCHANGED <<mmio_locations, mmio_handlers, num_mmio_regions, registered>>
  BY DEF UnregisterBegin, table
<1>2. /\ Live = 0..(n - 1) /\ Stable = registered
      /\ writer.op = "none" /\ writer.moves = FALSE
  BY <1>1, WriterShape
<1>3. PICK i \in IndexOf(r) :
        writer' = [op |-> "unregister", region |-> r, index |-> i, dst |-> i,
                   step |-> "invalidate", moves |-> TRUE]
  BY DEF UnregisterBegin
<1>4. /\ i \in 0..(n - 1)
      /\ StartOf(i) <= r /\ r + 1 <= StartOf(i) + mmio_locations[i].size
  BY DEF IndexOf, StartOf
<1>5. Entries
  BY DEF WInv
<1>6. StartOf(i) = r /\ r \in registered
  <2> DEFINE q == StartOf(i)
  <2>1. q \in registered /\ q \in Region /\ mmio_locations[i].size = SizeOf[q]
    BY <1>2, <1>4, <1>5 DEF Entries, Entry, Types
  <2>2. q \in Nat /\ r \in Nat /\ SizeOf[q] \in Nat
    BY <2>1, RegionAssumption
  <2>3. ~(r > q)
    <3>1. r > q => r >= q + SizeOf[q]
      BY <2>1, RegionAssumption
    <3> QED
      BY <1>4, <2>1, <2>2, <3>1
  <2> QED
    BY <1>4, <2>1, <2>2, <2>3
<1>7. /\ writer' \in Holder /\ writer'.op = "unregister" /\ writer'.region = r
      /\ writer'.dst = i /\ writer'.step = "invalidate" /\ writer'.moves = TRUE
  BY <1>0, <1>3, <1>4, MaxAssumption DEF Holder
<1>8. writer' # Unlocked
  BY <1>7 DEF Unlocked
<1>9. Live' = (0..(n - 1)) \ {i} /\ Stable' = registered \ {r}
  BY <1>1, <1>7, <1>8 DEF Live, Hole, Stable
<1>10. TableTypes'
  BY <1>1, <1>7 DEF TableTypes, Types
<1>11. \A j \in 0..Max : StartOf(j)' = StartOf(j)
  BY <1>1 DEF StartOf
<1>12. \A j \in Live' : j \in Live /\ StartOf(j)' = StartOf(j) /\ StartOf(j) # r
  <2> SUFFICES ASSUME NEW j \in Live' PROVE j \in Live /\ StartOf(j)' = StartOf(j) /\ StartOf(j) # r
    OBVIOUS
  <2>1. j \in 0..(n - 1) /\ j # i /\ j \in 0..Max /\ j \in Live
    BY <1>0, <1>2, <1>9, MaxAssumption
  <2>2. StartOf(j) \in Nat /\ StartOf(i) \in Nat
    BY <1>2, <1>4, <1>5, <2>1, RegionAssumption DEF Entries, Entry, Types
  <2>3. i < j => StartOf(i) < StartOf(j)
    BY <1>2, <1>4, <1>5, <2>1 DEF Entries
  <2>4. j < i => StartOf(j) < StartOf(i)
    BY <1>2, <1>4, <1>5, <2>1 DEF Entries
  <2>5. StartOf(j) # StartOf(i)
    BY <1>4, <2>1, <2>2, <2>3, <2>4
  <2> QED
    BY <1>6, <1>11, <2>1, <2>5
<1>13. Entries'
  <2>1. \A j \in Live' : Entry(j)'
    BY <1>1, <1>2, <1>5, <1>9, <1>12 DEF Entries, Entry
  <2>2. \A j, k \in Live' : j < k => StartOf(j)' < StartOf(k)'
    BY <1>5, <1>12 DEF Entries
  <2>3. ASSUME NEW q \in Stable' PROVE \E j \in Live' : StartOf(j)' = q
    <3>1. PICK j \in Live : StartOf(j) = q
      BY <1>2, <1>5, <1>9 DEF Entries
    <3>2. j # i /\ j \in Live'
      BY <1>2, <1>6, <1>9, <3>1
    <3> QED
      BY <1>12, <3>1, <3>2
  <2> QED
    BY <2>1, <2>2, <2>3 DEF Entries
<1>14. Registering'
  BY <1>7 DEF Registering
<1>15. Unregistering'
  BY <1>0, <1>1, <1>4, <1>6, <1>7 DEF Unregistering
<1>16. Filling' /\ Appending'
  BY <1>7 DEF Filling, Appending
<1>17. Count'
  BY <1>1, <1>2, <1>7 DEF Count
<1> QED
  BY <1>7, <1>10, <1>13, <1>14, <1>15, <1>16, <1>17 DEF WInv

\* Invalidating the entry in the hole keeps the invariant (copy_region up to
\* its first barrier).
LEMMA InvalidateStep ==
  ASSUME Types, WInv, Count, Invalidate
  PROVE  TableTypes' /\ WInv' /\ Count' /\ KeepsLive /\ writer'.moves = writer.moves
<1> DEFINE n == num_mmio_regions
           d == writer.dst
<1>0. n \in 0..Max /\ n \in Nat
  BY MaxAssumption DEF Types
<1>1. writer \in Holder /\ writer # Unlocked /\ writer.step = "invalidate"
  BY WriterShape DEF Invalidate
<1>2. d \in 0..Max /\ d \in 0..(Max - 1) /\ d \in Nat
  BY <1>1, MaxAssumption DEF Holder
<1>3. UNCHANGED <<mmio_handlers, num_mmio_regions, registered>>
  BY DEF Invalidate
<1>4. /\ writer' \in Holder /\ writer'.op = writer.op /\ writer'.region = writer.region
      /\ writer'.index = writer.index /\ writer'.dst = d /\ writer'.step = "fill"
      /\ writer'.moves = writer.moves
  BY <1>1 DEF Invalidate, Holder
<1>5. /\ mmio_locations' \in Locations
      /\ \A i \in 0..Max : i # d => mmio_locations'[i] = mmio_locations[i]
      /\ mmio_locations'[d].start = mmio_locations[d].start /\ mmio_locations'[d].size = 0
  BY <1>2 DEF Invalidate, Types, Locations
<1>6. writer' # Unlocked
  BY <1>4, <1>1 DEF Unlocked, Holder
<1>7. Live' = Live /\ Stable' = Stable /\ d \notin Live /\ Live \subseteq 0..Max
  <2>1. Live' = Live /\ d \notin Live
    BY <1>1, <1>3, <1>4, <1>6 DEF Live, Hole
  <2>2. Stable' = Stable
    BY <1>3, <1>4 DEF Stable
  <2>3. Live \subseteq 0..Max
    BY WriterShape, MaxAssumption
  <2> QED
    BY <2>1, <2>2, <2>3
<1>8. \A i \in Live : StartOf(i)' = StartOf(i) /\ mmio_locations'[i] = mmio_locations[i]
  BY <1>5, <1>7 DEF StartOf
<1>9. TableTypes'
  BY <1>3, <1>4, <1>5 DEF TableTypes, Types
<1>10. Entries'
  BY <1>3, <1>7, <1>8 DEF WInv, Entries, Entry
<1>11. Registering'
  BY <1>1, <1>3, <1>4, <1>7, <1>8 DEF WInv, Registering
<1>12. Unregistering'
  BY <1>1, <1>3, <1>4 DEF WInv, Unregistering
<1>13. Filling'
  BY <1>4, <1>5 DEF Filling
<1>14. Appending'
  BY <1>1, <1>3, <1>4, <1>5 DEF WInv, Appending, StartOf
<1>15. Count'
  BY <1>1, <1>3, <1>4 DEF Count
<1>16. KeepsLive
  BY <1>0, <1>3, <1>7, <1>8 DEF KeepsLive
<1> QED
  BY <1>4, <1>9, <1>10, <1>11, <1>12, <1>13, <1>14, <1>15, <1>16 DEF WInv

\* The entry copied: the new region, or a live neighbour; an unregistered
\* table's last entry takes what lies behind it.
LEMMA SourceOf ==
  ASSUME Types, WInv, writer \in Holder, writer.step # "extend"
  PROVE  /\ Source(writer) \in Int
         /\ NewLocation(writer).start \in Region \cup {0, TOP}
         /\ NewLocation(writer).size \in Nat
         /\ NewHandler(writer) \in Region \cup {NULL}
         /\ ~(writer.op = "register" /\ writer.dst = writer.index) =>
              /\ Source(writer) \in 0..Max
              /\ Source(writer) # writer.dst
              /\ NewLocation(writer) = mmio_locations[Source(writer)]
              /\ NewHandler(writer) = mmio_handlers[Source(writer)]
              /\ ~LastMove(writer) => Source(writer) \in Live
<1> DEFINE n == num_mmio_regions
           d == writer.dst
<1>1. /\ d \in Nat /\ d < n /\ n \in Nat /\ n <= Max /\ Max \in Nat /\ writer.index \in Nat
      /\ writer.region \in Region
      /\ writer.op \in {"register", "unregister"}
      /\ writer.op = "register" => writer.index <= d
  BY MaxAssumption DEF Types, WInv, Registering, Unregistering, Holder
<1>2. Live = (0..(n - 1)) \ {d}
  BY WriterShape
<1>3. CASE writer.op = "register" /\ writer.dst = writer.index
  <2>1. /\ NewLocation(writer).start = writer.region
        /\ NewLocation(writer).size = SizeOf[writer.region] /\ NewHandler(writer) = writer.region
        /\ Source(writer) = d - 1
    BY <1>3 DEF NewLocation, NewHandler, Source
  <2> QED
    <3>1. SizeOf[writer.region] \in Nat
      BY <1>1, RegionAssumption
    <3>2. d - 1 \in Int
      BY <1>1
    <3> QED
      BY <1>1, <1>3, <2>1, <3>1, <3>2
<1>4. CASE ~(writer.op = "register" /\ writer.dst = writer.index)
  <2>1. Source(writer) = IF writer.op = "register" THEN d - 1 ELSE d + 1
    BY DEF Source
  <2>2. /\ Source(writer) \in Int /\ Source(writer) \in 0..Max /\ Source(writer) # d
        /\ ~LastMove(writer) => Source(writer) \in Live
    BY <1>1, <1>2, <1>4, <2>1 DEF LastMove
  <2>3. /\ NewLocation(writer) = mmio_locations[Source(writer)]
        /\ NewHandler(writer) = mmio_handlers[Source(writer)]
    BY <1>4 DEF NewLocation, NewHandler
  <2>4. mmio_locations[Source(writer)] \in [start : Region \cup {0, TOP}, size : Nat]
    BY <2>2 DEF Types, Locations
  <2>5. mmio_handlers[Source(writer)] \in Region \cup {NULL}
    BY <2>2 DEF Types, Handlers
  <2> QED
    BY <1>4, <2>2, <2>3, <2>4, <2>5
<1> QED
  BY <1>3, <1>4

\* Storing start and handler keeps the invariant: the entry is still invalid
\* (copy_region between its barriers).
LEMMA FillStep ==
  ASSUME Types, WInv, Count, Fill
  PROVE  TableTypes' /\ WInv' /\ Count' /\ KeepsLive /\ writer'.moves = writer.moves
<1> DEFINE n == num_mmio_regions
           d == writer.dst
           s == NewLocation(writer).start
           h == NewHandler(writer)
<1>0. n \in 0..Max /\ n \in Nat
  BY MaxAssumption DEF Types
<1>1. writer \in Holder /\ writer # Unlocked /\ writer.step = "fill"
  BY WriterShape DEF Fill
<1>2. d \in 0..Max /\ d \in 0..(Max - 1) /\ d \in Nat
  BY <1>1, MaxAssumption DEF Holder
<1>3. UNCHANGED <<num_mmio_regions, registered>>
  BY DEF Fill
<1>4. /\ writer' \in Holder /\ writer'.op = writer.op /\ writer'.region = writer.region
      /\ writer'.index = writer.index /\ writer'.dst = d /\ writer'.step = "activate"
      /\ writer'.moves = writer.moves
  BY <1>1 DEF Fill, Holder
<1>5. s \in Region \cup {0, TOP} /\ h \in Region \cup {NULL}
  BY <1>1, SourceOf
<1>6. /\ mmio_locations' = [mmio_locations EXCEPT ![d].start = s]
      /\ mmio_handlers' = [mmio_handlers EXCEPT ![d] = h]
  BY DEF Fill
<1> HIDE DEF s, h
<1>7. /\ mmio_locations' \in Locations /\ mmio_handlers' \in Handlers
      /\ \A i \in 0..Max : i # d => /\ mmio_locations'[i] = mmio_locations[i]
                                    /\ mmio_handlers'[i] = mmio_handlers[i]
      /\ mmio_locations'[d].start = s /\ mmio_handlers'[d] = h
      /\ mmio_locations'[d].size = mmio_locations[d].size
  BY <1>2, <1>5, <1>6 DEF Types, Locations, Handlers
<1>8. writer' # Unlocked
  BY <1>4, <1>1 DEF Unlocked, Holder
<1>9. Live' = Live /\ Stable' = Stable /\ d \notin Live /\ Live \subseteq 0..Max
  <2>1. Live' = Live /\ d \notin Live
    BY <1>1, <1>3, <1>4, <1>8 DEF Live, Hole
  <2>2. Stable' = Stable
    BY <1>3, <1>4 DEF Stable
  <2>3. Live \subseteq 0..Max
    BY WriterShape, MaxAssumption
  <2> QED
    BY <2>1, <2>2, <2>3
<1>10. \A i \in Live : /\ StartOf(i)' = StartOf(i) /\ mmio_locations'[i] = mmio_locations[i]
                       /\ mmio_handlers'[i] = mmio_handlers[i]
  BY <1>7, <1>9 DEF StartOf
<1>11. TableTypes'
  BY <1>3, <1>4, <1>7 DEF TableTypes, Types
<1>12. Entries'
  <2>1. Entries
    BY DEF WInv
  <2>2. \A i \in Live : Entry(i)'
    BY <1>9, <1>10, <2>1 DEF Entries, Entry
  <2> QED
    BY <1>9, <1>10, <2>1, <2>2 DEF Entries
<1>13. Registering'
  BY <1>1, <1>3, <1>4, <1>9, <1>10 DEF WInv, Registering
<1>14. Unregistering'
  BY <1>1, <1>3, <1>4 DEF WInv, Unregistering
<1>15. Filling'
  <2>1. mmio_locations[d].size = 0
    BY <1>1 DEF WInv, Filling
  <2>2. NewLocation(writer)'.start = s /\ NewHandler(writer)' = h
    <3>1. CASE writer.op = "register" /\ writer.dst = writer.index
      BY <1>4, <3>1 DEF NewLocation, NewHandler, s, h
    <3>2. CASE ~(writer.op = "register" /\ writer.dst = writer.index)
      <4>1. /\ Source(writer) \in 0..Max /\ Source(writer) # d
            /\ s = mmio_locations[Source(writer)].start /\ h = mmio_handlers[Source(writer)]
        BY <1>1, <3>2, SourceOf DEF s, h
      <4>2. Source(writer)' = Source(writer)
        BY <1>4 DEF Source
      <4>3. /\ NewLocation(writer)' = mmio_locations'[Source(writer)]
            /\ NewHandler(writer)' = mmio_handlers'[Source(writer)]
        BY <1>4, <3>2, <4>2 DEF NewLocation, NewHandler
      <4> QED
        BY <1>7, <4>1, <4>3
    <3> QED
      BY <3>1, <3>2
  <2> QED
    BY <1>4, <1>7, <2>1, <2>2 DEF Filling, StartOf
<1>16. Appending'
  <2> SUFFICES ASSUME writer.moves = FALSE
               PROVE  /\ d = writer.index /\ d = n - 1
                      /\ mmio_locations'[d].size = 0 /\ mmio_locations'[d].start = writer.region
    BY <1>3, <1>4 DEF Appending, StartOf
  <2>1. d = writer.index /\ d = n - 1 /\ mmio_locations[d].size = 0
    BY <1>1 DEF WInv, Appending
  <2>2. writer.op = "register"
    BY <1>1 DEF WInv, Unregistering, Holder
  <2>3. s = writer.region
    BY <2>1, <2>2 DEF s, NewLocation
  <2> QED
    BY <1>7, <2>1, <2>3
<1>17. Count'
  BY <1>1, <1>3, <1>4 DEF Count
<1>18. KeepsLive
  BY <1>0, <1>3, <1>9, <1>10 DEF KeepsLive
<1> QED
  BY <1>4, <1>11, <1>12, <1>13, <1>14, <1>15, <1>16, <1>17, <1>18 DEF WInv

\* The effect of activating the entry in the hole, whatever comes next.
LEMMA ActivateEffect ==
  ASSUME Types, WInv, Activate
  PROVE  /\ writer \in Holder /\ writer # Unlocked /\ writer.step = "activate"
         /\ writer.dst \in 0..(Max - 1) /\ writer.dst \in Nat /\ writer.dst < num_mmio_regions
         /\ num_mmio_regions \in 0..Max /\ num_mmio_regions \in Nat
         /\ Live = (0..(num_mmio_regions - 1)) \ {writer.dst}
         /\ mmio_locations' \in Locations
         /\ \A i \in 0..Max : i # writer.dst => mmio_locations'[i] = mmio_locations[i]
         /\ mmio_locations'[writer.dst].start = NewLocation(writer).start
         /\ mmio_locations'[writer.dst].size = NewLocation(writer).size
         /\ mmio_handlers[writer.dst] = NewHandler(writer)
         /\ UNCHANGED <<mmio_handlers, num_mmio_regions>>
<1> DEFINE d == writer.dst
           z == NewLocation(writer).size
<1>1. writer \in Holder /\ writer # Unlocked /\ writer.step = "activate"
  BY WriterShape DEF Activate
<1>2. num_mmio_regions \in 0..Max /\ num_mmio_regions \in Nat
  BY MaxAssumption DEF Types
<1>3. d \in 0..(Max - 1) /\ d \in Nat /\ d \in 0..Max
  BY <1>1, MaxAssumption DEF Holder
<1>4. d < num_mmio_regions
  BY <1>1 DEF WInv, Registering, Unregistering, Holder
<1>5. z \in Nat
  BY <1>1, SourceOf
<1>6. mmio_locations' = [mmio_locations EXCEPT ![d].size = z]
  BY DEF Activate
<1>7. UNCHANGED <<mmio_handlers, num_mmio_regions>>
  BY DEF Activate
<1>8. mmio_locations[d].start = NewLocation(writer).start /\ mmio_handlers[d] = NewHandler(writer)
  BY <1>1 DEF WInv, Filling, StartOf
<1> HIDE DEF z
<1>9. /\ mmio_locations' \in Locations
      /\ \A i \in 0..Max : i # d => mmio_locations'[i] = mmio_locations[i]
      /\ mmio_locations'[d].start = mmio_locations[d].start
      /\ mmio_locations'[d].size = z
  BY <1>3, <1>5, <1>6 DEF Types, Locations
<1> QED
  BY <1>1, <1>2, <1>3, <1>4, <1>7, <1>8, <1>9, WriterShape DEF z

\* Moving on to the next entry: the entry just activated holds what its
\* neighbour holds, and the neighbour becomes the hole.  The order is kept
\* because the two are adjacent (the loops over copy_region).
LEMMA ActivateNextStep ==
  ASSUME Types, WInv, Count, Activate, ~LastMove(writer)
  PROVE  /\ TableTypes' /\ WInv' /\ Count'
         /\ writer'.moves = writer.moves /\ writer.moves = TRUE
<1> DEFINE n == num_mmio_regions
           d == writer.dst
           s == Source(writer)
<1>1. /\ writer \in Holder /\ writer # Unlocked /\ writer.step = "activate"
      /\ d \in 0..(Max - 1) /\ d \in Nat /\ d < n
      /\ n \in 0..Max /\ n \in Nat
      /\ Live = (0..(n - 1)) \ {d}
      /\ mmio_locations' \in Locations
      /\ \A i \in 0..Max : i # d => mmio_locations'[i] = mmio_locations[i]
      /\ mmio_locations'[d].start = NewLocation(writer).start
      /\ mmio_locations'[d].size = NewLocation(writer).size
      /\ mmio_handlers[d] = NewHandler(writer)
      /\ UNCHANGED <<mmio_handlers, num_mmio_regions>>
  BY ActivateEffect
<1>2. /\ writer' = [writer EXCEPT !.step = "invalidate", !.dst = s]
      /\ UNCHANGED registered
  BY DEF Activate
<1>3. ~(writer.op = "register" /\ d = writer.index)
  BY DEF LastMove
<1>4. /\ s \in 0..Max /\ s # d /\ s \in Live
      /\ NewLocation(writer) = mmio_locations[s] /\ NewHandler(writer) = mmio_handlers[s]
  BY <1>1, <1>3, SourceOf
<1>5. s = IF writer.op = "register" THEN d - 1 ELSE d + 1
  BY DEF Source
<1>6. writer.op \in {"register", "unregister"}
  BY <1>1 DEF Holder
<1> HIDE DEF s
<1>7. s \in 0..(n - 1) /\ s \in 0..(Max - 1) /\ s \in Nat
  BY <1>1, <1>4, MaxAssumption
<1>8. /\ writer' \in Holder /\ writer'.op = writer.op /\ writer'.region = writer.region
      /\ writer'.index = writer.index /\ writer'.dst = s /\ writer'.step = "invalidate"
      /\ writer'.moves = writer.moves
  BY <1>1, <1>2, <1>7 DEF Holder
<1>9. writer' # Unlocked
  BY <1>6, <1>8 DEF Unlocked
<1>10. Live' = (0..(n - 1)) \ {s} /\ Stable' = Stable
  <2>1. Live' = (0..(n - 1)) \ {s}
    BY <1>1, <1>8, <1>9 DEF Live, Hole
  <2>2. Stable' = Stable
    BY <1>2, <1>8 DEF Stable
  <2> QED
    BY <2>1, <2>2
<1>11. Entries /\ Registering /\ Unregistering /\ Appending
  BY DEF WInv
<1>12. writer.moves = TRUE
  <2>1. writer.moves \in BOOLEAN
    BY WriterShape
  <2>2. writer.moves = FALSE => writer.op = "register" /\ d = writer.index
    BY <1>1, <1>6, <1>11 DEF Unregistering, Appending
  <2> QED
    BY <1>3, <2>1, <2>2
\* Where the content of a live entry was before the step.
<1> DEFINE old(i) == IF i = d THEN s ELSE i
<1>13. \A i \in Live' : /\ old(i) \in Live /\ mmio_locations'[i].start = mmio_locations[old(i)].start
                        /\ mmio_locations'[i].size = mmio_locations[old(i)].size
                        /\ mmio_handlers'[i] = mmio_handlers[old(i)]
  BY <1>1, <1>4, <1>7, <1>10, MaxAssumption
<1>14. \A i, j \in Live' : i < j => old(i) < old(j)
  BY <1>1, <1>5, <1>7, <1>10
<1>15. \A i \in Live' : StartOf(i)' = StartOf(old(i))
  BY <1>13 DEF StartOf
<1>16. \A i \in Live : \E j \in Live' : old(j) = i
  <2> SUFFICES ASSUME NEW i \in Live PROVE \E j \in Live' : old(j) = i
    OBVIOUS
  <2>1. CASE i = s
    <3>1. d \in Live' /\ old(d) = i
      BY <1>1, <1>4, <1>10, <2>1
    <3> QED
      BY <3>1
  <2>2. CASE i # s
    <3>1. i \in Live' /\ old(i) = i
      BY <1>1, <1>10, <2>2
    <3> QED
      BY <3>1
  <2> QED
    BY <2>1, <2>2
<1>17. TableTypes'
  BY <1>1, <1>2, <1>8 DEF TableTypes, Types
<1>18. Registering'
  <2> SUFFICES ASSUME writer.op = "register" PROVE Registering'
    BY <1>8 DEF Registering
  <2>1. writer.index <= d /\ writer.region \notin registered /\ writer.index \in Nat
    BY <1>1, <1>11 DEF Registering, Holder
  <2>2. writer.index <= s /\ s = d - 1
    BY <1>1, <1>3, <1>5, <2>1
  <2>3. ASSUME NEW i \in Live'
        PROVE  IF i < writer.index THEN StartOf(i)' < writer.region ELSE StartOf(i)' > writer.region
    <3>1. old(i) \in Live /\ StartOf(i)' = StartOf(old(i))
      BY <1>13, <1>15
    <3>2. IF old(i) < writer.index THEN StartOf(old(i)) < writer.region
                                   ELSE StartOf(old(i)) > writer.region
      BY <1>11, <3>1 DEF Registering
    <3>3. i < writer.index <=> old(i) < writer.index
      BY <1>1, <2>1, <2>2
    <3> QED
      BY <3>1, <3>2, <3>3
  <2> QED
    BY <1>1, <1>2, <1>7, <1>8, <2>1, <2>2, <2>3 DEF Registering
<1>19. Unregistering'
  BY <1>1, <1>2, <1>7, <1>8, <1>11 DEF Unregistering
<1> HIDE DEF old
<1>20. Entries'
  <2>1. ASSUME NEW i \in Live' PROVE Entry(i)'
    <3>1. Entry(old(i))
      BY <1>11, <1>13 DEF Entries
    <3> QED
      BY <1>10, <1>13, <1>15, <3>1 DEF Entry, StartOf
  <2>2. \A i, j \in Live' : i < j => StartOf(i)' < StartOf(j)'
    BY <1>11, <1>13, <1>14, <1>15 DEF Entries
  <2>3. ASSUME NEW r \in Stable' PROVE \E j \in Live' : StartOf(j)' = r
    <3>1. PICK i \in Live : StartOf(i) = r
      BY <1>10, <1>11 DEF Entries
    <3>2. PICK j \in Live' : old(j) = i
      BY <1>16
    <3> QED
      BY <1>15, <3>1, <3>2
  <2> QED
    BY <2>1, <2>2, <2>3 DEF Entries
<1>21. Filling' /\ Appending'
  BY <1>8, <1>12 DEF Filling, Appending
<1>22. Count'
  BY <1>1, <1>2, <1>8 DEF Count
<1> QED
  BY <1>8, <1>12, <1>17, <1>18, <1>19, <1>20, <1>21, <1>22 DEF WInv

\* Activating the new region ends its registration: the table is complete and
\* sorted again (mmio_region_register, its last store and the unlock).
LEMMA ActivateNewStep ==
  ASSUME Types, WInv, Count, Activate, LastMove(writer), writer.op = "register"
  PROVE  TableTypes' /\ WInv' /\ Count' /\ KeepsLive /\ writer'.moves = FALSE
<1> DEFINE n == num_mmio_regions
           d == writer.dst
           q == writer.region
<1>1. /\ writer \in Holder /\ writer # Unlocked /\ writer.step = "activate"
      /\ d \in 0..(Max - 1) /\ d \in Nat /\ d < n
      /\ n \in 0..Max /\ n \in Nat
      /\ Live = (0..(n - 1)) \ {d}
      /\ mmio_locations' \in Locations
      /\ \A i \in 0..Max : i # d => mmio_locations'[i] = mmio_locations[i]
      /\ mmio_locations'[d].start = NewLocation(writer).start
      /\ mmio_locations'[d].size = NewLocation(writer).size
      /\ mmio_handlers[d] = NewHandler(writer)
      /\ UNCHANGED <<mmio_handlers, num_mmio_regions>>
  BY ActivateEffect
<1>2. writer' = Unlocked /\ registered' = registered \cup {q}
  BY DEF Activate
<1>3. d = writer.index /\ q \in Region
  BY <1>1 DEF LastMove, Holder
<1>4. /\ mmio_locations'[d].start = q /\ mmio_locations'[d].size = SizeOf[q]
      /\ mmio_handlers'[d] = q
  BY <1>1, <1>3 DEF NewLocation, NewHandler
<1>5. Entries /\ Registering
  BY DEF WInv
<1>6. /\ q \notin registered
      /\ \A i \in Live : IF i < d THEN StartOf(i) < q ELSE StartOf(i) > q
  BY <1>3, <1>5 DEF Registering
<1>7. writer'.op = "none" /\ writer'.moves = FALSE
  BY <1>2 DEF Unlocked
<1>8. Live' = 0..(n - 1) /\ Stable' = registered \cup {q}
  BY <1>1, <1>2, <1>7 DEF Live, Hole, Stable
<1>9. Stable = registered
  BY DEF Stable
<1>10. /\ \A i \in Live : StartOf(i)' = StartOf(i) /\ mmio_locations'[i] = mmio_locations[i]
       /\ \A i \in 0..Max : i = d => StartOf(i)' = q
  BY <1>1, <1>4, MaxAssumption DEF StartOf
<1>11. Live' = Live \cup {d} /\ d \notin Live /\ Live' \subseteq 0..Max
  BY <1>1, <1>8, MaxAssumption
<1>12. TableTypes'
  BY <1>1, <1>2, <1>3 DEF TableTypes, Types
<1>13. Entries'
  <2>1. ASSUME NEW i \in Live' PROVE Entry(i)'
    <3>1. CASE i = d
      BY <1>4, <1>8, <1>10, <1>11, <3>1 DEF Entry
    <3>2. CASE i \in Live
      BY <1>1, <1>5, <1>8, <1>9, <1>10, <3>2 DEF Entries, Entry
    <3> QED
      BY <1>11, <3>1, <3>2
  <2>2. ASSUME NEW i \in Live', NEW j \in Live', i < j PROVE StartOf(i)' < StartOf(j)'
    <3>1. CASE i = d
      BY <1>1, <1>6, <1>8, <1>10, <1>11, <2>2, <3>1
    <3>2. CASE j = d
      BY <1>1, <1>6, <1>8, <1>10, <1>11, <2>2, <3>2
    <3>3. CASE i \in Live /\ j \in Live
      BY <1>5, <1>10, <2>2, <3>3 DEF Entries
    <3> QED
      BY <1>11, <3>1, <3>2, <3>3
  <2>3. ASSUME NEW r \in Stable' PROVE \E j \in Live' : StartOf(j)' = r
    <3>1. CASE r = q
      BY <1>10, <1>11, <3>1
    <3>2. CASE r \in registered
      BY <1>5, <1>9, <1>10, <1>11, <3>2 DEF Entries
    <3> QED
      BY <1>8, <3>1, <3>2
  <2> QED
    BY <2>1, <2>2, <2>3 DEF Entries
<1>14. Registering' /\ Unregistering' /\ Filling' /\ Appending'
  BY <1>2, <1>7 DEF Registering, Unregistering, Filling, Appending
<1>15. Count'
  <2>1. IsFiniteSet(registered)
    BY DEF Count
  <2>2. Cardinality(registered) \in Nat
    BY <2>1, FS_CardinalityType
  <2>3. n = Cardinality(registered) + 1
    BY <1>1, <2>2 DEF Count
  <2>4. IsFiniteSet(registered') /\ Cardinality(registered') = Cardinality(registered) + 1
    BY <1>2, <1>6, <2>1, FS_AddElement
  <2> QED
    BY <1>1, <1>7, <2>2, <2>3, <2>4 DEF Count
<1>16. KeepsLive
  BY <1>1, <1>6, <1>8, <1>9, <1>10, <1>11 DEF KeepsLive
<1> QED
  BY <1>7, <1>12, <1>13, <1>14, <1>15, <1>16 DEF WInv

\* The last entry moved: the hole is at the end of the table, which is about
\* to shrink (mmio_region_unregister).
LEMMA ActivateLastStep ==
  ASSUME Types, WInv, Count, Activate, LastMove(writer), writer.op = "unregister"
  PROVE  TableTypes' /\ WInv' /\ Count' /\ writer'.moves = TRUE
<1> DEFINE n == num_mmio_regions
           d == writer.dst
<1>1. /\ writer \in Holder /\ writer # Unlocked /\ writer.step = "activate"
      /\ d \in 0..(Max - 1) /\ d \in Nat /\ d < n
      /\ n \in 0..Max /\ n \in Nat
      /\ Live = (0..(n - 1)) \ {d}
      /\ mmio_locations' \in Locations
      /\ \A i \in 0..Max : i # d => mmio_locations'[i] = mmio_locations[i]
      /\ UNCHANGED <<mmio_handlers, num_mmio_regions>>
  BY ActivateEffect
<1>2. writer' = [writer EXCEPT !.step = "shrink"] /\ UNCHANGED registered
  BY DEF Activate
<1>3. d = n - 1
  BY DEF LastMove
<1>4. Entries /\ Unregistering
  BY DEF WInv
<1>5. /\ writer' \in Holder /\ writer'.op = "unregister" /\ writer'.region = writer.region
      /\ writer'.dst = d /\ writer'.step = "shrink" /\ writer'.moves = TRUE
  BY <1>1, <1>2, <1>4 DEF Unregistering, Holder
<1>6. writer' # Unlocked
  BY <1>5 DEF Unlocked
<1>7. Live' = Live /\ Stable' = Stable
  BY <1>1, <1>2, <1>5, <1>6 DEF Live, Hole, Stable
<1>8. \A i \in Live : StartOf(i)' = StartOf(i) /\ mmio_locations'[i] = mmio_locations[i]
  BY <1>1, MaxAssumption DEF StartOf
<1>9. TableTypes'
  BY <1>1, <1>2, <1>5 DEF TableTypes, Types
<1>10. Entries'
  BY <1>1, <1>4, <1>7, <1>8 DEF Entries, Entry
<1>11. Registering' /\ Filling' /\ Appending'
  BY <1>5 DEF Registering, Filling, Appending
<1>12. Unregistering'
  BY <1>1, <1>2, <1>3, <1>4, <1>5 DEF Unregistering
<1>13. Count'
  BY <1>1, <1>2, <1>5 DEF Count
<1> QED
  BY <1>5, <1>9, <1>10, <1>11, <1>12, <1>13 DEF WInv

\* Shrinking the table ends the unregistration (mmio_region_unregister).
LEMMA UnregisterShrinkStep ==
  ASSUME Types, WInv, Count, UnregisterShrink
  PROVE  TableTypes' /\ WInv' /\ Count' /\ writer.moves = TRUE /\ writer'.moves = FALSE
<1> DEFINE n == num_mmio_regions
           q == writer.region
<1>1. writer \in Holder /\ writer # Unlocked /\ writer.op = "unregister" /\ writer.step = "shrink"
  BY WriterShape DEF UnregisterShrink
<1>2. /\ n' = n - 1 /\ registered' = registered \ {q} /\ writer' = Unlocked
      /\ UNCHANGED <<mmio_locations, mmio_handlers>>
  BY DEF UnregisterShrink
<1>3. Entries /\ Unregistering
  BY DEF WInv
<1>4. q \in registered /\ writer.dst = n - 1 /\ writer.dst \in Nat /\ writer.moves = TRUE
  BY <1>1, <1>3 DEF Unregistering, Holder
<1>5. n \in Nat /\ n \in 0..Max /\ n' \in 0..Max
  BY <1>2, <1>4, MaxAssumption DEF Types
<1>6. writer'.op = "none" /\ writer'.moves = FALSE
  BY <1>2 DEF Unlocked
<1>7. Live = 0..(n - 2) /\ Stable = registered \ {q}
  BY <1>1, <1>4, <1>5 DEF Live, Hole, Stable
<1>8. Live' = 0..(n - 2) /\ Stable' = registered \ {q}
  BY <1>2, <1>5, <1>6 DEF Live, Hole, Stable
<1>9. \A i \in Live : StartOf(i)' = StartOf(i)
  BY <1>2 DEF StartOf
<1>10. TableTypes'
  BY <1>2, <1>5 DEF TableTypes, Types
<1>11. Entries'
  BY <1>2, <1>3, <1>7, <1>8, <1>9 DEF Entries, Entry
<1>12. Registering' /\ Unregistering' /\ Filling' /\ Appending'
  BY <1>2, <1>6 DEF Registering, Unregistering, Filling, Appending
<1>13. Count'
  <2>1. IsFiniteSet(registered)
    BY DEF Count
  <2>2. Cardinality(registered) \in Nat
    BY <2>1, FS_CardinalityType
  <2>3. n = Cardinality(registered)
    BY <1>1, <2>2 DEF Count
  <2>4. IsFiniteSet(registered') /\ Cardinality(registered') = Cardinality(registered) - 1
    BY <1>2, <1>4, <2>1, FS_RemoveElement
  <2> QED
    BY <1>2, <1>5, <1>6, <2>2, <2>3, <2>4 DEF Count
<1> QED
  BY <1>4, <1>6, <1>10, <1>11, <1>12, <1>13 DEF WInv

\* Every step of the lock holder keeps the inductive invariant.
LEMMA WriterStep ==
  ASSUME IInv,
         \/ \E r \in Region : RegisterBegin(r) \/ UnregisterBegin(r)
         \/ RegisterExtend \/ Invalidate \/ Fill \/ Activate \/ UnregisterShrink
  PROVE  IInv'
<1>1. Types /\ WInv /\ Count /\ Lookups
  BY DEF IInv
<1>2. Disturb
  BY DEF RegisterBegin, UnregisterBegin, RegisterExtend, Invalidate, Fill, Activate, UnregisterShrink
<1>3. /\ TableTypes' /\ WInv' /\ Count'
      /\ writer.moves = FALSE /\ writer'.moves = FALSE => KeepsLive
  <2>1. ASSUME NEW r \in Region, RegisterBegin(r) PROVE <1>3!:
    BY <1>1, <2>1, RegisterBeginStep
  <2>2. ASSUME NEW r \in Region, UnregisterBegin(r) PROVE <1>3!:
    BY <1>1, <2>2, UnregisterBeginStep
  <2>3. CASE RegisterExtend
    BY <1>1, <2>3, RegisterExtendStep
  <2>4. CASE Invalidate
    BY <1>1, <2>4, InvalidateStep
  <2>5. CASE Fill
    BY <1>1, <2>5, FillStep
  <2>6. CASE Activate
    <3>1. ~LastMove(writer) \/ writer.op = "register" \/ writer.op = "unregister"
      BY <2>6 DEF Activate
    <3>2. CASE ~LastMove(writer)
      BY <1>1, <2>6, <3>2, ActivateNextStep
    <3>3. CASE LastMove(writer) /\ writer.op = "register"
      BY <1>1, <2>6, <3>3, ActivateNewStep
    <3>4. CASE LastMove(writer) /\ writer.op = "unregister"
      BY <1>1, <2>6, <3>4, ActivateLastStep
    <3> QED
      BY <3>1, <3>2, <3>3, <3>4
  <2>7. CASE UnregisterShrink
    BY <1>1, <2>7, UnregisterShrinkStep
  <2> QED
    BY <2>1, <2>2, <2>3, <2>4, <2>5, <2>6, <2>7
<1>4. writer'.moves \in BOOLEAN
  <2>1. writer' = Unlocked \/ writer' \in Holder
    BY <1>3 DEF TableTypes
  <2>2. Unlocked.moves = FALSE
    BY DEF Unlocked
  <2>3. \A w \in Holder : w.moves \in BOOLEAN
    BY DEF Holder
  <2> QED
    BY <2>1, <2>2, <2>3
<1>5. Types'
  BY <1>1, <1>2, <1>3, <1>4, DisturbedTypes DEF Types, TableTypes
<1>6. Lookups'
  <2>1. num_mmio_regions' \in Nat
    BY <1>5, MaxAssumption DEF Types
  <2> QED
    BY <1>1, <1>2, <1>3, <1>4, <2>1, Disturbed
<1> QED
  BY <1>3, <1>5, <1>6 DEF IInv

-----------------------------------------------------------------------------
\* Whoever leaves the table and the lock alone keeps the invariant, if every
\* lookup is left alone or knows what the invariant says.
LEMMA TableKept ==
  ASSUME IInv, UNCHANGED <<table, writer, registered>>, DOMAIN reader' = Reader,
         \A b \in Reader :
           \/ reader'[b] = reader[b]
           \/ reader'[b] = NoLookup
           \/ /\ reader'[b] \in Lookup /\ InRange(reader'[b])
              /\ writer.moves = TRUE => reader'[b].moved = TRUE
              /\ reader'[b].moved = FALSE => Unmoved(reader'[b])
  PROVE  IInv'
<1>1. Types /\ WInv /\ Count /\ Lookups
  BY DEF IInv
<1>2. UNCHANGED <<mmio_locations, mmio_handlers, num_mmio_regions, writer, registered>>
  BY DEF table
<1>4. Live' = Live /\ Stable' = Stable /\ \A i : StartOf(i)' = StartOf(i)
  BY <1>2 DEF Live, Hole, Stable, StartOf
<1>5. Types'
  BY <1>1, <1>2 DEF Types
<1>6. WInv'
  <2>1. Entries'
    BY <1>1, <1>2, <1>4 DEF WInv, Entries, Entry
  <2>2. Registering' /\ Unregistering'
    BY <1>1, <1>2, <1>4 DEF WInv, Registering, Unregistering
  <2>3. Filling' /\ Appending'
    BY <1>1, <1>2, <1>4 DEF WInv, Filling, Appending, NewLocation, NewHandler, Source, StartOf
  <2> QED
    BY <2>1, <2>2, <2>3 DEF WInv
<1>7. Count'
  BY <1>1, <1>2 DEF Count
<1>8. Lookups'
  <2> SUFFICES ASSUME NEW b \in Reader, reader'[b] # NoLookup
               PROVE  /\ InRange(reader[b])'
                      /\ writer'.moves = TRUE => reader'[b].moved = TRUE
                      /\ reader'[b].moved = FALSE => Unmoved(reader[b])'
    BY DEF Lookups
  <2>1. PICK l : l = reader'[b]
    OBVIOUS
  <2>2. /\ InRange(l) /\ (writer.moves = TRUE => l.moved = TRUE)
        /\ l.moved = FALSE => Unmoved(l)
    BY <1>1, <2>1 DEF Lookups
  <2>3. Unmoved(l) => Unmoved(reader[b])'
    <3>1. Narrowed(l) => Narrowed(reader[b])'
      BY <1>2, <1>4, <2>1 DEF Narrowed, Covers
    <3>2. Found(l) => Found(reader[b])'
      BY <1>2, <1>4, <2>1 DEF Found, Covers, StartOf
    <3> QED
      BY <1>4, <2>1, <3>1, <3>2 DEF Unmoved, Covers
  <2> QED
    BY <1>2, <2>1, <2>2, <2>3 DEF InRange
<1> QED
  BY <1>5, <1>6, <1>7, <1>8 DEF IInv

\* A lookup that makes a step changes nothing but itself.
LEMMA ReaderStep ==
  ASSUME IInv, UNCHANGED <<table, writer, registered>>,
         NEW c \in Reader, NEW k,
         reader' = [reader EXCEPT ![c] = k],
         \/ k = NoLookup
         \/ /\ k \in Lookup /\ InRange(k)
            /\ writer.moves = TRUE => k.moved = TRUE
            /\ k.moved = FALSE => Unmoved(k)
  PROVE  IInv'
<1>1. /\ reader'[c] = k /\ DOMAIN reader' = Reader
      /\ \A b \in Reader : b # c => reader'[b] = reader[b]
  BY DEF IInv, Types
<1> QED
  BY <1>1, TableKept

\* A lookup that begins looks at the whole table (find_region).
LEMMA AccessBeginStep ==
  ASSUME IInv, NEW c \in Reader, NEW a \in Access, AccessBegin(c, a)
  PROVE  IInv'
<1> DEFINE k == [pc |-> "search", access |-> a, lo |-> 0, len |-> num_mmio_regions, index |-> 0,
                 handler |-> NULL, offset |-> 0, arg |-> NULL,
                 moved |-> writer.moves, always |-> Stable]
<1>1. Types
  BY DEF IInv
<1>2. /\ writer.moves \in BOOLEAN /\ Stable \in SUBSET Region
      /\ num_mmio_regions \in Nat /\ num_mmio_regions <= Max
      /\ Live \subseteq 0..(num_mmio_regions - 1)
  <2>1. num_mmio_regions \in Nat /\ num_mmio_regions <= Max
    BY <1>1, MaxAssumption DEF Types
  <2>2. Stable \in SUBSET Region
    BY <1>1, WriterShape DEF Types
  <2> QED
    BY <1>1, <2>1, <2>2, WriterShape
<1>3. k \in Lookup
  BY <1>2 DEF Lookup
<1>4. /\ k.pc = "search" /\ k.lo = 0 /\ k.len = num_mmio_regions
      /\ k.moved = writer.moves /\ k.always = Stable
  OBVIOUS
<1>5. reader' = [reader EXCEPT ![c] = k] /\ UNCHANGED <<table, writer, registered>>
  BY DEF AccessBegin
<1> HIDE DEF k
<1>6. InRange(k)
  BY <1>2, <1>4 DEF InRange
<1>7. Narrowed(k)
  BY <1>2, <1>4 DEF Narrowed
<1>8. Unmoved(k)
  BY <1>4, <1>7 DEF Unmoved
<1> QED
  BY <1>3, <1>4, <1>5, <1>6, <1>8, ReaderStep

\* An access that is over leaves no lookup.
LEMMA AccessEndStep ==
  ASSUME IInv, NEW c \in Reader, AccessEnd(c)
  PROVE  IInv'
BY ReaderStep DEF AccessEnd

\* A lookup that runs is a record, and knows what the invariant says.
LEMMA Running ==
  ASSUME IInv, NEW c \in Reader, reader[c].pc # "idle"
  PROVE  /\ reader[c] \in Lookup /\ InRange(reader[c])
         /\ writer.moves = TRUE => reader[c].moved = TRUE
         /\ reader[c].moved = FALSE => Unmoved(reader[c]) /\ writer.moves = FALSE
<1>1. NoLookup.pc = "idle"
  BY DEF NoLookup
<1>2. reader[c] # NoLookup /\ Types /\ Lookups
  BY <1>1 DEF IInv
<1>3. writer.moves \in BOOLEAN
  BY <1>2, WriterShape
<1>4. /\ reader[c] \in Lookup /\ InRange(reader[c])
      /\ writer.moves = TRUE => reader[c].moved = TRUE
      /\ reader[c].moved = FALSE => Unmoved(reader[c])
  BY <1>2 DEF Types, Lookups
<1> QED
  BY <1>3, <1>4

\* The handler, the start and the argument of an entry that does not move
\* belong together (mmio_handle_access).
LEMMA DispatchStep ==
  ASSUME IInv, NEW c \in Reader, Dispatch(c)
  PROVE  IInv'
<1> DEFINE l == reader[c]
<1>1. l.pc \in {"handler", "start", "arg"} /\ UNCHANGED <<table, writer, registered>>
  BY DEF Dispatch
<1>2. /\ l \in Lookup /\ InRange(l)
      /\ writer.moves = TRUE => l.moved = TRUE
      /\ l.moved = FALSE => Unmoved(l)
  BY <1>1, Running
<1>3. l.index \in 0..Max
  BY <1>1, <1>2, MaxAssumption DEF InRange, Lookup
<1>4. mmio_handlers[l.index] \in Region \cup {NULL} /\ StartOf(l.index) \in Region \cup {0, TOP}
  BY <1>3 DEF IInv, Types, Handlers, Locations, StartOf
<1>5. l.moved = FALSE => /\ Found(l) /\ mmio_handlers[l.index] = StartOf(l.index)
                         /\ l.always \subseteq Stable
  <2>1. Entries
    BY DEF IInv, WInv
  <2>2. l.moved = FALSE => Found(l) /\ l.always \subseteq Stable
    BY <1>1, <1>2 DEF Unmoved
  <2> QED
    BY <2>1, <2>2 DEF Found, Entries, Entry
<1>6. CASE l.pc = "handler"
  <2> DEFINE k == [l EXCEPT !.pc = "start", !.handler = mmio_handlers[l.index]]
  <2>1. reader' = [reader EXCEPT ![c] = k]
    BY <1>6 DEF Dispatch
  <2>2. /\ k \in Lookup /\ k.pc = "start" /\ k.handler = mmio_handlers[l.index]
        /\ k.index = l.index /\ k.access = l.access /\ k.moved = l.moved /\ k.always = l.always
    BY <1>2, <1>4 DEF Lookup
  <2> HIDE DEF k
  <2>3. InRange(k)
    BY <1>2, <1>6, <2>2 DEF InRange
  <2>4. k.moved = FALSE => Unmoved(k)
    BY <1>5, <2>2 DEF Unmoved, Found
  <2> QED
    BY <1>1, <1>2, <2>1, <2>2, <2>3, <2>4, ReaderStep
<1>7. CASE l.pc = "start"
  <2> DEFINE o == Wrapped(l.access.address - mmio_locations[l.index].start)
             k == [l EXCEPT !.pc = "arg", !.offset = o]
  <2>1. reader' = [reader EXCEPT ![c] = k]
    BY <1>7 DEF Dispatch
  <2>2. StartOf(l.index) \in Nat /\ l.access.address \in Nat
    <3>1. StartOf(l.index) \in Nat
      BY <1>4, Addresses
    <3>2. l.access \in Access
      BY <1>2 DEF Lookup
    <3>3. l.access.address \in Nat
      BY <3>2, AccessAssumption
    <3> QED
      BY <3>1, <3>3
  <2>3. o \in Int
    BY <2>2, RegionAssumption DEF Wrapped, StartOf
  <2>4. l.moved = FALSE => o = l.access.address - StartOf(l.index)
    <3>1. l.moved = FALSE => StartOf(l.index) <= l.access.address
      BY <1>5 DEF Found, Covers
    <3> QED
      BY <2>2, <3>1 DEF Wrapped, StartOf
  <2> HIDE DEF o
  <2>5. /\ k \in Lookup /\ k.pc = "arg" /\ k.handler = l.handler /\ k.offset = o
        /\ k.index = l.index /\ k.access = l.access /\ k.moved = l.moved /\ k.always = l.always
    BY <1>2, <2>3 DEF Lookup
  <2> HIDE DEF k
  <2>6. InRange(k)
    BY <1>2, <1>7, <2>5 DEF InRange
  <2>7. k.moved = FALSE => Unmoved(k)
    BY <1>5, <1>7, <2>4, <2>5 DEF Unmoved, Found
  <2> QED
    BY <1>1, <1>2, <2>1, <2>5, <2>6, <2>7, ReaderStep
<1>8. CASE l.pc = "arg"
  <2> DEFINE k == [l EXCEPT !.pc = "handled", !.arg = mmio_handlers[l.index]]
  <2>1. reader' = [reader EXCEPT ![c] = k]
    BY <1>8 DEF Dispatch
  <2>2. /\ k \in Lookup /\ k.pc = "handled" /\ k.handler = l.handler /\ k.offset = l.offset
        /\ k.arg = mmio_handlers[l.index]
        /\ k.index = l.index /\ k.access = l.access /\ k.moved = l.moved /\ k.always = l.always
    BY <1>2, <1>4 DEF Lookup
  <2> HIDE DEF k
  <2>3. InRange(k)
    BY <2>2 DEF InRange
  <2>4. k.moved = FALSE => Unmoved(k)
    BY <1>5, <1>8, <2>2 DEF Unmoved, Found
  <2> QED
    BY <1>1, <1>2, <2>1, <2>2, <2>3, <2>4, ReaderStep
<1> QED
  BY <1>1, <1>6, <1>7, <1>8

\* The middle of a range that is not empty lies in it.
LEMMA Middle ==
  ASSUME NEW lo \in Nat, NEW len \in Nat, len # 0
  PROVE  /\ lo + len \div 2 \in Nat
         /\ lo <= lo + len \div 2 /\ lo + len \div 2 < lo + len
<1>1. len \div 2 \in Nat /\ len \div 2 < len
  BY SMTT(30)
<1> QED
  BY <1>1

\* While nothing moves, every entry a lookup may probe is in order with the
\* live ones: also the dummy entry at the end, and the region appended there
\* before it is activated.
LEMMA InOrder ==
  ASSUME Types, WInv, writer.moves = FALSE,
         NEW m \in 0..(num_mmio_regions - 1), NEW i \in Live
  PROVE  /\ i < m => StartOf(i) + SizeOf[StartOf(i)] <= StartOf(m)
         /\ m < i => StartOf(m) < StartOf(i)
         /\ StartOf(i) \in Region /\ StartOf(i) \in Nat /\ SizeOf[StartOf(i)] \in Nat
         /\ StartOf(m) \in Nat
<1> DEFINE r == StartOf(i)
<1>1. Entries /\ Registering /\ Unregistering /\ Appending
  BY DEF WInv
<1>2. r \in Region /\ i \in 0..(num_mmio_regions - 1)
  BY <1>1, WriterShape DEF Entries, Entry, Types
<1>3. r \in Nat /\ SizeOf[r] \in Nat /\ r + SizeOf[r] < TOP
  BY <1>2, RegionAssumption
<1>4. StartOf(m) \in Region \cup {TOP} /\ (m < i => StartOf(m) < r)
      /\ (i < m => StartOf(m) = TOP \/ (r < StartOf(m) /\ StartOf(m) \in Region))
  <2>1. CASE m \in Live
    <3>1. StartOf(m) \in Region
      BY <1>1, <2>1, WriterShape DEF Entries, Entry, Types
    <3> QED
      BY <1>1, <2>1, <3>1 DEF Entries
  <2>2. CASE m \notin Live
    <3>1. writer \in Holder /\ writer # Unlocked /\ m = writer.dst
      BY <2>2, WriterShape DEF Live, Hole
    <3>2. writer.op = "register" /\ writer.region \in Region
      BY <1>1, <3>1 DEF Unregistering, Holder
    <3>3. /\ m = writer.index /\ m = num_mmio_regions - 1
          /\ StartOf(m) = TOP \/ StartOf(m) = writer.region
      <4>1. m # num_mmio_regions
        BY MaxAssumption DEF Types
      <4> QED
        BY <1>1, <3>1, <4>1 DEF Appending
    <3>4. i < m => r < writer.region
      BY <1>1, <3>2, <3>3 DEF Registering
    <3>5. ~(m < i)
      BY <1>2, <3>3, MaxAssumption DEF Types
    <3> QED
      BY <3>2, <3>3, <3>4, <3>5
  <2> QED
    BY <2>1, <2>2
<1>5. StartOf(m) \in Nat
  BY <1>4, RegionAssumption
<1>6. i < m => r + SizeOf[r] <= StartOf(m)
  <2>1. StartOf(m) \in Region /\ r < StartOf(m) => r + SizeOf[r] <= StartOf(m)
    BY <1>2, <1>3, <1>5, RegionAssumption
  <2> QED
    BY <1>3, <1>4, <1>5, <2>1
<1> QED
  BY <1>2, <1>3, <1>4, <1>5, <1>6

\* An entry that ends behind the first byte of an access after its start is
\* live: the others have size 0.
LEMMA ProbedIsLive ==
  ASSUME Types, WInv, writer.moves = FALSE,
         NEW m \in 0..(num_mmio_regions - 1), mmio_locations[m].size # 0
  PROVE  m \in Live
<1> SUFFICES ASSUME m \notin Live PROVE FALSE
  OBVIOUS
<1>1. writer \in Holder /\ writer # Unlocked /\ m = writer.dst
  BY WriterShape DEF Live, Hole
<1> QED
  BY <1>1 DEF WInv, Appending

\* One turn of the search keeps every region that covers the access in the
\* range, and stops at an entry that covers it (find_region).
LEMMA SearchStep ==
  ASSUME IInv, NEW c \in Reader, Search(c)
  PROVE  IInv'
<1> DEFINE l == reader[c]
           a == l.access
<1>1. l.pc = "search" /\ UNCHANGED <<table, writer, registered>>
  BY DEF Search
<1>2. /\ l \in Lookup /\ InRange(l)
      /\ writer.moves = TRUE => l.moved = TRUE
      /\ l.moved = FALSE => Unmoved(l) /\ writer.moves = FALSE
  BY <1>1, Running
<1>3. Types /\ WInv /\ Entries
  BY DEF IInv, WInv
<1>4. l.moved = FALSE => Narrowed(l) /\ l.always \subseteq Stable
  BY <1>1, <1>2 DEF Unmoved
<1>5. l.lo \in Nat /\ l.len \in Nat /\ l.lo + l.len <= Max /\ a \in Access
  BY <1>1, <1>2 DEF Lookup, InRange
<1>6. a.address \in Nat /\ a.size \in Nat \ {0}
  BY <1>5, AccessAssumption
<1>7. CASE l.len = 0
  <2> DEFINE k == [l EXCEPT !.pc = "unhandled"]
  <2>1. reader' = [reader EXCEPT ![c] = k]
    BY <1>7 DEF Search
  <2>2. /\ k \in Lookup /\ k.pc = "unhandled"
        /\ k.access = a /\ k.moved = l.moved /\ k.always = l.always
    BY <1>2 DEF Lookup
  <2> HIDE DEF k
  <2>3. InRange(k)
    BY <2>2 DEF InRange
  <2>4. ASSUME k.moved = FALSE PROVE Unmoved(k)
    <3>1. ASSUME NEW r \in l.always, Covers(r, a) PROVE FALSE
      <4>1. PICK i \in Live : StartOf(i) = r
        BY <1>3, <1>4, <2>2, <2>4, <3>1 DEF Entries
      <4>2. l.lo <= i /\ i < l.lo + l.len /\ i \in Nat
        BY <1>3, <1>4, <2>2, <2>4, <3>1, <4>1, WriterShape DEF Narrowed
      <4> QED
        BY <1>5, <1>7, <4>2
    <3> QED
      BY <1>4, <2>2, <2>4, <3>1 DEF Unmoved
  <2> QED
    BY <1>1, <1>2, <2>1, <2>2, <2>3, <2>4, ReaderStep
<1>8. CASE l.len # 0
  <2> DEFINE m == l.lo + l.len \div 2
             s == mmio_locations[m].start
             z == mmio_locations[m].size
  <2>1. m \in Nat /\ l.lo <= m /\ m < l.lo + l.len
    BY <1>5, <1>8, Middle
  <2>2. reader' = [reader EXCEPT ![c] = Probe(l, a)]
    BY <1>8 DEF Search
  <2>3. Probe(l, a) = IF a.address < s THEN [l EXCEPT !.len = m - l.lo]
                      ELSE IF s + z < a.address + a.size
                        THEN [l EXCEPT !.len = l.len - (m + 1 - l.lo), !.lo = m + 1]
                      ELSE [l EXCEPT !.pc = "handler", !.index = m]
    BY DEF Probe
  <2> HIDE DEF m
  <2>4. m \in 0..Max /\ s \in Nat /\ z \in Nat /\ s = StartOf(m)
    <3>1. m \in 0..Max
      BY <1>5, <2>1, MaxAssumption
    <3>2. mmio_locations[m] \in [start : Region \cup {0, TOP}, size : Nat]
      BY <1>3, <3>1 DEF Types, Locations
    <3>3. s \in Region \cup {0, TOP} /\ z \in Nat
      BY <3>2
    <3> QED
      BY <3>1, <3>3, Addresses DEF StartOf
  <2> HIDE DEF s, z
  <2>5. l.moved = FALSE => m \in 0..(num_mmio_regions - 1)
    <3>1. num_mmio_regions \in Nat
      BY <1>3, MaxAssumption DEF Types
    <3> QED
      BY <1>4, <1>5, <2>1, <3>1 DEF Narrowed
  <2>6. ASSUME a.address < s PROVE IInv'
    <3> DEFINE k == [l EXCEPT !.len = m - l.lo]
    <3>1. /\ m - l.lo \in Nat /\ l.lo + (m - l.lo) = m
      BY <1>5, <2>1
    <3>2. /\ k \in Lookup /\ k.pc = "search" /\ k.lo = l.lo /\ k.len = m - l.lo
          /\ k.access = a /\ k.moved = l.moved /\ k.always = l.always
      BY <1>1, <1>2, <3>1 DEF Lookup
    <3>3. reader' = [reader EXCEPT ![c] = k]
      BY <2>2, <2>3, <2>6
    <3> HIDE DEF k
    <3>4. InRange(k)
      BY <1>5, <2>1, <3>1, <3>2, MaxAssumption DEF InRange
    <3>5. ASSUME k.moved = FALSE PROVE Unmoved(k)
      <4>1. ASSUME NEW i \in Live, StartOf(i) \in l.always, Covers(StartOf(i), a)
            PROVE  l.lo <= i /\ i < m
        <5>1. l.lo <= i /\ i \in Nat
          <6>1. i \in Nat
            BY <1>3, WriterShape
          <6> QED
            BY <1>4, <3>2, <3>5, <4>1, <6>1 DEF Narrowed
        <5>2. StartOf(i) \in Nat /\ (m < i => StartOf(m) < StartOf(i))
          BY <1>2, <1>3, <2>5, <3>2, <3>5, InOrder
        <5>3. StartOf(i) <= a.address
          BY <4>1 DEF Covers
        <5> QED
          BY <1>6, <2>1, <2>4, <2>6, <5>1, <5>2, <5>3
      <4>2. m <= num_mmio_regions
        BY <1>3, <2>1, <2>5, <3>2, <3>5, MaxAssumption DEF Types
      <4>3. Narrowed(k)
        BY <3>1, <3>2, <4>1, <4>2 DEF Narrowed
      <4> QED
        BY <1>4, <3>2, <3>5, <4>3 DEF Unmoved
    <3> QED
      BY <1>1, <1>2, <3>2, <3>3, <3>4, <3>5, ReaderStep
  <2>7. ASSUME ~(a.address < s), s + z < a.address + a.size PROVE IInv'
    <3> DEFINE e == l.len - (m + 1 - l.lo)
               k == [l EXCEPT !.len = e, !.lo = m + 1]
    <3>1. e \in Nat /\ m + 1 \in Nat /\ m + 1 + e = l.lo + l.len
      BY <1>5, <2>1
    <3>2. /\ reader' = [reader EXCEPT ![c] = k]
      BY <2>2, <2>3, <2>7
    <3> HIDE DEF e
    <3>3. /\ k \in Lookup /\ k.pc = "search" /\ k.lo = m + 1 /\ k.len = e
          /\ k.access = a /\ k.moved = l.moved /\ k.always = l.always
      BY <1>1, <1>2, <3>1 DEF Lookup
    <3> HIDE DEF k
    <3>4. InRange(k)
      BY <1>5, <3>1, <3>3 DEF InRange
    <3>5. ASSUME k.moved = FALSE PROVE Unmoved(k)
      <4>1. ASSUME NEW i \in Live, StartOf(i) \in l.always, Covers(StartOf(i), a)
            PROVE  m + 1 <= i /\ i < l.lo + l.len
        <5>1. i < l.lo + l.len /\ i \in Nat
          <6>1. i \in Nat
            BY <1>3, WriterShape
          <6> QED
            BY <1>4, <3>3, <3>5, <4>1, <6>1 DEF Narrowed
        <5>2. /\ StartOf(i) \in Nat /\ SizeOf[StartOf(i)] \in Nat
              /\ i < m => StartOf(i) + SizeOf[StartOf(i)] <= s
          BY <1>2, <1>3, <2>4, <2>5, <3>3, <3>5, InOrder
        <5>3. a.address + a.size <= StartOf(i) + SizeOf[StartOf(i)]
          BY <4>1 DEF Covers
        <5>4. i # m
          <6> SUFFICES ASSUME i = m PROVE FALSE
            OBVIOUS
          <6>1. z = SizeOf[s] /\ s = StartOf(i)
            BY <1>3, <2>4 DEF Entries, Entry, z
          <6> QED
            BY <1>6, <2>4, <2>7, <5>3, <6>1
        <5>5. ~(i < m)
          BY <1>6, <2>4, <2>7, <5>2, <5>3
        <5> QED
          BY <2>1, <5>1, <5>4, <5>5
      <4>2. l.lo + l.len <= num_mmio_regions
        BY <1>4, <3>3, <3>5 DEF Narrowed
      <4>3. Narrowed(k)
        BY <3>1, <3>3, <4>1, <4>2 DEF Narrowed
      <4> QED
        BY <1>4, <3>3, <3>5, <4>3 DEF Unmoved
    <3> QED
      BY <1>1, <1>2, <3>2, <3>3, <3>4, <3>5, ReaderStep
  <2>8. ASSUME ~(a.address < s), ~(s + z < a.address + a.size) PROVE IInv'
    <3> DEFINE k == [l EXCEPT !.pc = "handler", !.index = m]
    <3>1. reader' = [reader EXCEPT ![c] = k]
      BY <2>2, <2>3, <2>8
    <3>2. /\ k \in Lookup /\ k.pc = "handler" /\ k.index = m
          /\ k.access = a /\ k.moved = l.moved /\ k.always = l.always
      BY <1>2, <2>1 DEF Lookup
    <3> HIDE DEF k
    <3>3. InRange(k)
      BY <1>5, <2>1, <3>2, MaxAssumption DEF InRange
    <3>4. ASSUME k.moved = FALSE PROVE Unmoved(k)
      <4>1. z # 0 /\ s <= a.address /\ a.address + a.size <= s + z
        BY <1>6, <2>4, <2>8
      <4>2. m \in Live
        BY <1>2, <1>3, <2>5, <3>2, <3>4, <4>1, ProbedIsLive DEF z
      <4>3. z = SizeOf[s]
        BY <1>3, <2>4, <4>2 DEF Entries, Entry, z
      <4>4. Found(k)
        BY <2>4, <3>2, <4>1, <4>2, <4>3 DEF Found, Covers
      <4> QED
        BY <1>4, <3>2, <3>4, <4>4 DEF Unmoved
    <3> QED
      BY <1>1, <1>2, <3>1, <3>2, <3>3, <3>4, ReaderStep
  <2> QED
    BY <2>6, <2>7, <2>8
<1> QED
  BY <1>7, <1>8

-----------------------------------------------------------------------------
\* The invariant is inductive: every step of the lock holder and of every
\* lookup keeps it (mmio.c).
THEOREM Invariance == Spec => []IInv
<1>1. IInv /\ [Next]_vars => IInv'
  <2> SUFFICES ASSUME IInv, [Next]_vars PROVE IInv'
    OBVIOUS
  <2>1. CASE \/ \E r \in Region : RegisterBegin(r) \/ UnregisterBegin(r)
             \/ RegisterExtend \/ Invalidate \/ Fill \/ Activate \/ UnregisterShrink
    BY <2>1, WriterStep
  <2>2. ASSUME NEW c \in Reader, NEW a \in Access, AccessBegin(c, a) PROVE IInv'
    BY <2>2, AccessBeginStep
  <2>3. ASSUME NEW c \in Reader, Search(c) PROVE IInv'
    BY <2>3, SearchStep
  <2>4. ASSUME NEW c \in Reader, Dispatch(c) PROVE IInv'
    BY <2>4, DispatchStep
  <2>5. ASSUME NEW c \in Reader, AccessEnd(c) PROVE IInv'
    BY <2>5, AccessEndStep
  <2>6. CASE UNCHANGED vars
    BY <2>6, TableKept DEF vars, table, IInv, Types
  <2> QED
    BY <2>1, <2>2, <2>3, <2>4, <2>5, <2>6 DEF Next
<1> QED
  BY InitIInv, <1>1, PTL DEF Spec

\* Whenever the lock is free, the table holds exactly the registered regions
\* in ascending order, each with its size and handler, for any number of
\* regions (mmio_region_register, mmio_region_unregister).
THEOREM TableSafe == Spec => []TableIsSorted
<1>1. IInv => TableIsSorted
  <2> SUFFICES ASSUME IInv PROVE TableIsSorted
    OBVIOUS
  <2>1. Types /\ Entries /\ Count /\ Lookups
    BY DEF IInv, WInv
  <2>2. TypeOK
    <3>1. writer # Unlocked => writer.dst \in 0..(Max - 1)
      BY <2>1 DEF Types, Holder
    <3>2. \A c \in Reader : reader[c].pc = "search" => reader[c].lo + reader[c].len <= Max
      BY Running DEF InRange
    <3> QED
      BY <2>1, <3>1, <3>2 DEF TypeOK, Types, Locations, Handlers
  <2>3. ASSUME writer = Unlocked
        PROVE  num_mmio_regions = Cardinality(registered)
    <3>1. Cardinality(registered) \in Nat
      BY <2>1, FS_CardinalityType DEF Count
    <3>2. writer.op = "none"
      BY <2>1, <2>3, WriterShape
    <3> QED
      BY <2>1, <3>1, <3>2 DEF Count
  <2>4. ASSUME writer = Unlocked, NEW i \in 0..(num_mmio_regions - 1)
        PROVE  /\ mmio_locations[i].start \in registered
               /\ mmio_locations[i].size = SizeOf[mmio_locations[i].start]
               /\ mmio_handlers[i] = mmio_locations[i].start
               /\ \A j \in 0..(num_mmio_regions - 1) :
                    j > i => mmio_locations[j].start > mmio_locations[i].start
    <3>1. Live = 0..(num_mmio_regions - 1) /\ Stable = registered
      BY <2>1, <2>4, WriterShape
    <3>2. Entry(i) /\ \A j \in 0..(num_mmio_regions - 1) : i < j => StartOf(i) < StartOf(j)
      BY <2>1, <2>4, <3>1 DEF Entries
    <3> QED
      BY <2>4, <3>1, <3>2 DEF Entry, StartOf
  <2> QED
    BY <2>2, <2>3, <2>4 DEF TableIsSorted
<1> QED
  BY Invariance, <1>1, PTL

\* A lookup without the lock under which nothing moves is exact, for any
\* number of CPUs and regions, also while a region is appended to the table
\* (find_region, mmio_handle_access).
THEOREM LookupSafe == Spec => []LookupIsExact
<1>1. IInv => LookupIsExact
  <2> SUFFICES ASSUME IInv, NEW c \in Reader,
                      reader[c].pc \in {"handled", "unhandled"}, ~reader[c].moved
               PROVE  /\ reader[c].pc = "handled" =>
                           /\ reader[c].handler \in registered
                           /\ Covers(reader[c].handler, reader[c].access)
                           /\ reader[c].arg = reader[c].handler
                           /\ reader[c].offset = reader[c].access.address - reader[c].handler
                      /\ reader[c].pc = "unhandled" =>
                           ~\E r \in reader[c].always : Covers(r, reader[c].access)
    BY DEF LookupIsExact
  <2>1. Types /\ Entries
    BY DEF IInv, WInv
  <2>2. reader[c].moved \in BOOLEAN
    BY Running DEF Lookup
  <2>3. reader[c].moved = FALSE
    BY <2>2
  <2>4. Unmoved(reader[c])
    BY <2>3, Running
  <2>5. reader[c].pc = "handled" => Found(reader[c]) /\ StartOf(reader[c].index) \in registered
    BY <2>1, <2>4, WriterShape DEF Unmoved, Found, Entries, Entry
  <2> QED
    BY <2>4, <2>5 DEF Unmoved, Found
<1> QED
  BY Invariance, <1>1, PTL
=============================================================================
