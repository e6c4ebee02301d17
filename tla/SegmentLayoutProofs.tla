------------------------- MODULE SegmentLayoutProofs -------------------------
(***************************************************************************)
(* Proofs about SegmentLayout for all capacities: in every layout          *)
(* SegmentLayout::new accepts, distinct records share no byte and none     *)
(* passes the end of the region; and every accepted layout with a dirty    *)
(* index of four entries or more has a size that check_size accepts.       *)
(*                                                                         *)
(* A record is a cell of a section, an array of equal cells, and the       *)
(* sections follow one another.  A bound that TLC only reaches at the      *)
(* corners of a few layouts is the linear fact k < n => k b + b <= n b.    *)
(***************************************************************************)
EXTENDS SegmentLayout, TLAPS

Layouts == [directory_capacity : Nat, state_slot_capacity : Nat, level_capacity : Nat,
            event_capacity : Nat, dirty_capacity : Nat]

\* Cell k ends where the cells after it begin.
LEMMA Cell ==
  ASSUME NEW b \in Nat, NEW k \in Nat, NEW n \in Nat, k < n
  PROVE  k * b \in Nat /\ n * b \in Nat /\ k * b + b <= n * b
<1>1. k * b \in Nat /\ n * b \in Nat
  OBVIOUS
<1>2. PICK d \in Nat : n = k + 1 + d
  <2>1. n - k - 1 \in Nat /\ n = k + 1 + (n - k - 1)
    OBVIOUS
  <2> QED
    BY <2>1
<1>3. n * b = k * b + b + d * b /\ d * b \in Nat
  BY <1>2
<1> QED
  BY <1>1, <1>3

\* A cursor below the capacity is its own place in the ring.
LEMMA Unwrapped ==
  ASSUME NEW n \in Nat, NEW q \in 0..(n - 1)
  PROVE  q % n = q
  OBVIOUS

-----------------------------------------------------------------------------
(* Where the sections begin                                                *)

LEMMA Sections ==
  ASSUME NEW l \in Layouts
  PROVE  /\ StateSlotStride(l) \in Nat /\ EventRingBytes(l) \in Nat /\ DirtyRingBytes(l) \in Nat
         /\ l.directory_capacity * 512 \in Nat
         /\ l.state_slot_capacity * StateSlotStride(l) \in Nat
         /\ l.directory_capacity * EventRingBytes(l) \in Nat
         /\ DirectoryOffset(l) = 256
         /\ StateSlotOffset(l) = 256 + l.directory_capacity * 512
         /\ EventOffset(l) = StateSlotOffset(l) + l.state_slot_capacity * StateSlotStride(l)
         /\ DirtyOffset(l) = EventOffset(l) + l.directory_capacity * EventRingBytes(l)
         /\ TrailerOffset(l) = DirtyOffset(l) + l.dirty_capacity * 32
         /\ RegionSize(l) = TrailerOffset(l) + 128
<1>1. /\ l.directory_capacity \in Nat /\ l.state_slot_capacity \in Nat /\ l.level_capacity \in Nat
      /\ l.event_capacity \in Nat /\ l.dirty_capacity \in Nat
  BY DEF Layouts
<1>2. StateSlotStride(l) \in Nat
  BY <1>1 DEF StateSlotStride, RoundUp, RegionAlignment, SlotPrefixBytes, LevelCellBytes
<1>3. EventRingBytes(l) \in Nat /\ DirtyRingBytes(l) \in Nat /\ DirtyRingBytes(l) = l.dirty_capacity * 32
  BY <1>1 DEF EventRingBytes, DirtyRingBytes, EventSlotBytes, DirtySlotBytes
<1>4. /\ l.directory_capacity * 512 \in Nat
      /\ l.state_slot_capacity * StateSlotStride(l) \in Nat
      /\ l.directory_capacity * EventRingBytes(l) \in Nat
  BY <1>1, <1>2, <1>3
<1> QED
  BY <1>2, <1>3, <1>4
  DEF DirectoryOffset, StateSlotOffset, EventOffset, DirtyOffset, TrailerOffset, RegionSize,
      HeaderBytes, DirectoryEntryBytes, TrailerBytes, RegionAlignment

\* The first byte of a record's section, and the first byte after it.
From(l, section) ==
  CASE section = "header" -> 0
    [] section = "directory" -> DirectoryOffset(l)
    [] section = "slot" -> StateSlotOffset(l)
    [] section = "event" -> EventOffset(l)
    [] section = "dirty" -> DirtyOffset(l)
    [] OTHER -> TrailerOffset(l)

To(l, section) ==
  CASE section = "header" -> DirectoryOffset(l)
    [] section = "directory" -> StateSlotOffset(l)
    [] section = "slot" -> EventOffset(l)
    [] section = "event" -> DirtyOffset(l)
    [] section = "dirty" -> TrailerOffset(l)
    [] OTHER -> RegionSize(l)

SectionNames == {"header", "directory", "slot", "event", "dirty", "trailer"}

\* Two different sections do not overlap, and all lie in the region.
LEMMA SectionsApart ==
  ASSUME NEW l \in Layouts, NEW s \in SectionNames, NEW t \in SectionNames
  PROVE  /\ From(l, s) \in Nat /\ To(l, s) \in Nat /\ To(l, s) <= RegionSize(l)
         /\ s # t => To(l, s) <= From(l, t) \/ To(l, t) <= From(l, s)
<1>1. l.dirty_capacity * 32 \in Nat
  BY DEF Layouts
<1> QED
  BY <1>1, Sections DEF From, To, SectionNames

\* A record lies in its section.
Inside(l, id) ==
  /\ RecordAt(l, id).at \in Nat /\ RecordAt(l, id).bytes \in Nat
  /\ From(l, id[1]) <= RecordAt(l, id).at /\ EndOf(RecordAt(l, id)) <= To(l, id[1])

-----------------------------------------------------------------------------
(* One lemma per section: where its records lie, and that they are apart   *)

LEMMA HeaderAndTrailer ==
  ASSUME NEW l \in Layouts
  PROVE  Inside(l, <<"header", 0, 0>>) /\ Inside(l, <<"trailer", 0, 0>>)
<1>1. RecordAt(l, <<"header", 0, 0>>) = [at |-> 0, bytes |-> 256]
  BY DEF RecordAt, HeaderRecord, HeaderBytes
<1>2. RecordAt(l, <<"trailer", 0, 0>>) = [at |-> RegionSize(l) - 128, bytes |-> 128]
  BY DEF RecordAt, TrailerRecord, TrailerBytes, RegionAlignment
<1>3. l.dirty_capacity * 32 \in Nat
  BY DEF Layouts
<1> QED
  BY <1>1, <1>2, <1>3, Sections DEF Inside, EndOf, From, To

LEMMA DirectoryCells ==
  ASSUME NEW l \in Layouts, NEW i \in 0..(l.directory_capacity - 1)
  PROVE  /\ Inside(l, <<"directory", i, 0>>)
         /\ \A j \in 0..(l.directory_capacity - 1) :
              i < j => EndOf(RecordAt(l, <<"directory", i, 0>>)) <= RecordAt(l, <<"directory", j, 0>>).at
<1>1. l.directory_capacity \in Nat /\ i \in Nat
  BY DEF Layouts
<1>2. \A j \in Nat : RecordAt(l, <<"directory", j, 0>>) = [at |-> 256 + j * 512, bytes |-> 512]
  BY Sections DEF RecordAt, DirectoryRecord, DirectoryEntryBytes
<1>3. i * 512 + 512 <= l.directory_capacity * 512
  BY <1>1
<1>4. Inside(l, <<"directory", i, 0>>)
  <2>1. From(l, "directory") = 256 /\ To(l, "directory") = 256 + l.directory_capacity * 512
    BY Sections DEF From, To
  <2>2. RecordAt(l, <<"directory", i, 0>>) = [at |-> 256 + i * 512, bytes |-> 512]
    BY <1>1, <1>2
  <2> QED
    BY <1>1, <1>3, <2>1, <2>2 DEF Inside, EndOf
<1>5. ASSUME NEW j \in 0..(l.directory_capacity - 1), i < j
      PROVE  EndOf(RecordAt(l, <<"directory", i, 0>>)) <= RecordAt(l, <<"directory", j, 0>>).at
  <2>1. j \in Nat
    BY <1>1
  <2>2. /\ RecordAt(l, <<"directory", i, 0>>) = [at |-> 256 + i * 512, bytes |-> 512]
        /\ RecordAt(l, <<"directory", j, 0>>) = [at |-> 256 + j * 512, bytes |-> 512]
    BY <1>1, <1>2, <2>1
  <2> QED
    BY <1>1, <1>5, <2>1, <2>2 DEF EndOf
<1> QED
  BY <1>4, <1>5

LEMMA SlotCells ==
  ASSUME NEW l \in Layouts, NEW i \in 0..(l.state_slot_capacity - 1)
  PROVE  /\ Inside(l, <<"slot", i, 0>>)
         /\ \A j \in 0..(l.state_slot_capacity - 1) :
              i < j => EndOf(RecordAt(l, <<"slot", i, 0>>)) <= RecordAt(l, <<"slot", j, 0>>).at
<1> DEFINE b == StateSlotStride(l)
           n == l.state_slot_capacity
           base == StateSlotOffset(l)
<1>1. n \in Nat /\ i \in Nat /\ i < n /\ b \in Nat /\ base \in Nat /\ EventOffset(l) = base + n * b
  BY Sections DEF Layouts
<1>2. \A j \in Nat : RecordAt(l, <<"slot", j, 0>>) = [at |-> base + j * b, bytes |-> b]
  BY DEF RecordAt, StateSlotRecord
<1> HIDE DEF b, n, base
<1>3. i * b \in Nat /\ n * b \in Nat /\ i * b + b <= n * b
  BY <1>1, Cell
<1>4. Inside(l, <<"slot", i, 0>>)
  <2>1. From(l, "slot") = base /\ To(l, "slot") = base + n * b
    BY <1>1 DEF From, To, base
  <2>2. RecordAt(l, <<"slot", i, 0>>) = [at |-> base + i * b, bytes |-> b]
    BY <1>1, <1>2
  <2> QED
    BY <1>1, <1>3, <2>1, <2>2 DEF Inside, EndOf
<1>5. ASSUME NEW j \in 0..(n - 1), i < j
      PROVE  EndOf(RecordAt(l, <<"slot", i, 0>>)) <= RecordAt(l, <<"slot", j, 0>>).at
  <2>1. j \in Nat
    BY <1>1
  <2>2. i * b \in Nat /\ j * b \in Nat /\ i * b + b <= j * b
    BY <1>1, <1>5, <2>1, Cell
  <2>3. /\ RecordAt(l, <<"slot", i, 0>>) = [at |-> base + i * b, bytes |-> b]
        /\ RecordAt(l, <<"slot", j, 0>>) = [at |-> base + j * b, bytes |-> b]
    BY <1>1, <1>2, <2>1
  <2> QED
    BY <1>1, <2>2, <2>3 DEF EndOf
<1> QED
  BY <1>4, <1>5 DEF n

LEMMA DirtyCells ==
  ASSUME NEW l \in Layouts, NEW p \in 0..(l.dirty_capacity - 1)
  PROVE  /\ Inside(l, <<"dirty", 0, p>>)
         /\ \A q \in 0..(l.dirty_capacity - 1) :
              p < q => EndOf(RecordAt(l, <<"dirty", 0, p>>)) <= RecordAt(l, <<"dirty", 0, q>>).at
<1> DEFINE n == l.dirty_capacity
           base == DirtyOffset(l)
<1>1. n \in Nat /\ p \in Nat /\ base \in Nat /\ TrailerOffset(l) = base + n * 32
  BY Sections DEF Layouts
<1>2. \A q \in 0..(n - 1) : RecordAt(l, <<"dirty", 0, q>>) = [at |-> base + q * 32, bytes |-> 32]
  <2> TAKE q \in 0..(n - 1)
  <2>1. q % n = q
    BY <1>1, Unwrapped
  <2> QED
    BY <2>1 DEF RecordAt, DirtySlotRecord, DirtySlotBytes
<1>3. Inside(l, <<"dirty", 0, p>>)
  <2>1. From(l, "dirty") = base /\ To(l, "dirty") = base + n * 32
    BY <1>1 DEF From, To
  <2>2. RecordAt(l, <<"dirty", 0, p>>) = [at |-> base + p * 32, bytes |-> 32] /\ p < n
    BY <1>1, <1>2
  <2> HIDE DEF n, base
  <2> QED
    BY <1>1, <2>1, <2>2 DEF Inside, EndOf
<1>4. ASSUME NEW q \in 0..(n - 1), p < q
      PROVE  EndOf(RecordAt(l, <<"dirty", 0, p>>)) <= RecordAt(l, <<"dirty", 0, q>>).at
  <2>1. /\ RecordAt(l, <<"dirty", 0, p>>) = [at |-> base + p * 32, bytes |-> 32]
        /\ RecordAt(l, <<"dirty", 0, q>>) = [at |-> base + q * 32, bytes |-> 32]
    BY <1>1, <1>2
  <2>2. q \in Nat
    BY <1>1
  <2> HIDE DEF n, base
  <2> QED
    BY <1>1, <1>4, <2>1, <2>2 DEF EndOf
<1> QED
  BY <1>3, <1>4

LEMMA EventCells ==
  ASSUME NEW l \in Layouts, NEW i \in 0..(l.directory_capacity - 1),
         NEW p \in 0..(l.event_capacity - 1)
  PROVE  /\ Inside(l, <<"event", i, p>>)
         /\ \A j \in 0..(l.directory_capacity - 1) : \A q \in 0..(l.event_capacity - 1) :
              i < j \/ (i = j /\ p < q) =>
                EndOf(RecordAt(l, <<"event", i, p>>)) <= RecordAt(l, <<"event", j, q>>).at
<1> DEFINE n == l.directory_capacity
           m == l.event_capacity
           b == EventRingBytes(l)
           base == EventOffset(l)
<1>1. /\ n \in Nat /\ m \in Nat /\ i \in Nat /\ p \in Nat /\ i < n /\ b \in Nat /\ base \in Nat
      /\ DirtyOffset(l) = base + n * b
  BY Sections DEF Layouts
<1>2. b = m * 256
  BY DEF EventRingBytes, EventSlotBytes
<1>3. \A j \in Nat : \A q \in 0..(m - 1) :
        RecordAt(l, <<"event", j, q>>) = [at |-> base + j * b + q * 256, bytes |-> 256]
  <2> TAKE j \in Nat
  <2> TAKE q \in 0..(m - 1)
  <2>1. q % m = q
    BY <1>1, Unwrapped
  <2> QED
    BY <2>1 DEF RecordAt, EventSlotRecord, EventSlotBytes
<1>4. From(l, "event") = base /\ To(l, "event") = base + n * b
  BY <1>1 DEF From, To
<1>5. p * 256 + 256 <= b /\ m * 256 \in Nat
  BY <1>1, <1>2
<1>6. \A j \in 0..(n - 1) : j \in Nat /\ j * b \in Nat
  BY <1>1
<1> HIDE DEF n, m, b, base
<1>7. i * b \in Nat /\ n * b \in Nat /\ i * b + b <= n * b
  BY <1>1, Cell
<1>8. Inside(l, <<"event", i, p>>)
  <2>1. RecordAt(l, <<"event", i, p>>) = [at |-> base + i * b + p * 256, bytes |-> 256]
    BY <1>1, <1>3 DEF m
  <2> QED
    BY <1>1, <1>4, <1>5, <1>7, <2>1 DEF Inside, EndOf
<1>9. ASSUME NEW j \in 0..(n - 1), NEW q \in 0..(m - 1), i < j \/ (i = j /\ p < q)
      PROVE  EndOf(RecordAt(l, <<"event", i, p>>)) <= RecordAt(l, <<"event", j, q>>).at
  <2>1. /\ RecordAt(l, <<"event", i, p>>) = [at |-> base + i * b + p * 256, bytes |-> 256]
        /\ RecordAt(l, <<"event", j, q>>) = [at |-> base + j * b + q * 256, bytes |-> 256]
    BY <1>1, <1>3, <1>6 DEF m
  <2>2. CASE i < j
    <3>1. i * b + b <= j * b /\ j * b \in Nat
      BY <1>1, <1>6, <2>2, Cell
    <3> QED
      BY <1>1, <1>5, <1>7, <2>1, <3>1 DEF EndOf
  <2>3. CASE i = j /\ p < q
    BY <1>1, <1>7, <2>1, <2>3 DEF EndOf
  <2> QED
    BY <1>9, <2>2, <2>3
<1> QED
  BY <1>8, <1>9 DEF n, m

-----------------------------------------------------------------------------
(* The theorems                                                            *)

\* Every record lies in its section, and the ids are those of the six sections.
LEMMA RecordsInside ==
  ASSUME NEW l \in Layouts, NEW id \in AllIds(l)
  PROVE  id[1] \in SectionNames /\ Inside(l, id)
<1>1. CASE id = <<"header", 0, 0>> \/ id = <<"trailer", 0, 0>>
  BY <1>1, HeaderAndTrailer DEF SectionNames
<1>2. CASE id \in {"directory"} \X (0..(l.directory_capacity - 1)) \X {0}
  <2>1. PICK i \in 0..(l.directory_capacity - 1) : id = <<"directory", i, 0>>
    BY <1>2
  <2> QED
    BY Zenon, <2>1, DirectoryCells DEF SectionNames
<1>3. CASE id \in {"slot"} \X (0..(l.state_slot_capacity - 1)) \X {0}
  <2>1. PICK i \in 0..(l.state_slot_capacity - 1) : id = <<"slot", i, 0>>
    BY <1>3
  <2> QED
    BY Zenon, <2>1, SlotCells DEF SectionNames
<1>4. CASE id \in {"event"} \X (0..(l.directory_capacity - 1)) \X (0..(l.event_capacity - 1))
  <2>1. PICK i \in 0..(l.directory_capacity - 1), p \in 0..(l.event_capacity - 1) :
          id = <<"event", i, p>>
    BY <1>4
  <2> QED
    BY Zenon, <2>1, EventCells DEF SectionNames
<1>5. CASE id \in {"dirty"} \X {0} \X (0..(l.dirty_capacity - 1))
  <2>1. PICK p \in 0..(l.dirty_capacity - 1) : id = <<"dirty", 0, p>>
    BY <1>5
  <2> QED
    BY Zenon, <2>1, DirtyCells DEF SectionNames
<1> QED
  BY <1>1, <1>2, <1>3, <1>4, <1>5 DEF AllIds, RecordIds

\* Two records of one section are apart.
LEMMA SameSectionApart ==
  ASSUME NEW l \in Layouts, NEW x \in AllIds(l), NEW y \in AllIds(l), x # y, x[1] = y[1]
  PROVE  Apart(RecordAt(l, x), RecordAt(l, y))
<1> DEFINE H == {<<"header", 0, 0>>, <<"trailer", 0, 0>>}
           D == {"directory"} \X (0..(l.directory_capacity - 1)) \X {0}
           S == {"slot"} \X (0..(l.state_slot_capacity - 1)) \X {0}
           E == {"event"} \X (0..(l.directory_capacity - 1)) \X (0..(l.event_capacity - 1))
           R == {"dirty"} \X {0} \X (0..(l.dirty_capacity - 1))
<1>0. /\ l.directory_capacity \in Nat /\ l.state_slot_capacity \in Nat
      /\ l.event_capacity \in Nat /\ l.dirty_capacity \in Nat
  BY DEF Layouts
<1>1. x \in H \cup D \cup S \cup E \cup R /\ y \in H \cup D \cup S \cup E \cup R
  BY DEF AllIds, RecordIds
<1>2. x \in H => y \notin H
  OBVIOUS
<1>3. /\ (x \in H => y \notin D \cup S \cup E \cup R) /\ (x \in D => y \notin H \cup S \cup E \cup R)
      /\ (x \in S => y \notin H \cup D \cup E \cup R) /\ (x \in E => y \notin H \cup D \cup S \cup R)
      /\ (x \in R => y \notin H \cup D \cup S \cup E)
  OBVIOUS
<1>4. CASE x \in D /\ y \in D
  <2>1. PICK i \in 0..(l.directory_capacity - 1) : x = <<"directory", i, 0>>
    BY <1>4
  <2>2. PICK j \in 0..(l.directory_capacity - 1) : y = <<"directory", j, 0>>
    BY <1>4
  <2>3. i < j \/ j < i
    BY <1>0, <2>1, <2>2
  <2> QED
    BY Zenon, <2>1, <2>2, <2>3, DirectoryCells DEF Apart
<1>5. CASE x \in S /\ y \in S
  <2>1. PICK i \in 0..(l.state_slot_capacity - 1) : x = <<"slot", i, 0>>
    BY <1>5
  <2>2. PICK j \in 0..(l.state_slot_capacity - 1) : y = <<"slot", j, 0>>
    BY <1>5
  <2>3. i < j \/ j < i
    BY <1>0, <2>1, <2>2
  <2> QED
    BY Zenon, <2>1, <2>2, <2>3, SlotCells DEF Apart
<1>6. CASE x \in E /\ y \in E
  <2>1. PICK i \in 0..(l.directory_capacity - 1), p \in 0..(l.event_capacity - 1) :
          x = <<"event", i, p>>
    BY <1>6
  <2>2. PICK j \in 0..(l.directory_capacity - 1), q \in 0..(l.event_capacity - 1) :
          y = <<"event", j, q>>
    BY <1>6
  <2>3. i < j \/ j < i \/ (i = j /\ p < q) \/ (i = j /\ q < p)
    BY <1>0, <2>1, <2>2
  <2>4. CASE i < j \/ (i = j /\ p < q)
    BY Zenon, <2>1, <2>2, <2>4, EventCells DEF Apart
  <2>5. CASE j < i \/ (i = j /\ q < p)
    BY Zenon, <2>1, <2>2, <2>5, EventCells DEF Apart
  <2> QED
    BY <2>3, <2>4, <2>5
<1>7. CASE x \in R /\ y \in R
  <2>1. PICK p \in 0..(l.dirty_capacity - 1) : x = <<"dirty", 0, p>>
    BY <1>7
  <2>2. PICK q \in 0..(l.dirty_capacity - 1) : y = <<"dirty", 0, q>>
    BY <1>7
  <2>3. p < q \/ q < p
    BY <1>0, <2>1, <2>2
  <2> QED
    BY Zenon, <2>1, <2>2, <2>3, DirtyCells DEF Apart
<1> HIDE DEF H, D, S, E, R
<1> QED
  BY <1>1, <1>2, <1>3, <1>4, <1>5, <1>6, <1>7

\* For every choice of capacities, the header, every directory entry, every state slot, every slot
\* of every entry's event ring, every slot of the dirty index and the trailer lie inside the region
\* and share no byte (the offset functions of layout.rs): what one writer call may overwrite of
\* another record's bytes is nothing.
THEOREM RecordsNeverOverlap ==
  ASSUME NEW l \in Layouts
  PROVE  Disjoint(l, AllIds(l))
<1>1. ASSUME NEW x \in AllIds(l)
      PROVE  0 <= RecordAt(l, x).at /\ EndOf(RecordAt(l, x)) <= RegionSize(l)
  <2>1. x[1] \in SectionNames /\ Inside(l, x)
    BY RecordsInside
  <2>2. From(l, x[1]) \in Nat /\ To(l, x[1]) \in Nat /\ To(l, x[1]) <= RegionSize(l)
    BY <2>1, SectionsApart
  <2>3. RegionSize(l) \in Nat
    <3>1. l.dirty_capacity * 32 \in Nat
      BY DEF Layouts
    <3> QED
      BY <3>1, Sections
  <2> QED
    BY <2>1, <2>2, <2>3 DEF Inside, EndOf
<1>2. ASSUME NEW x \in AllIds(l), NEW y \in AllIds(l), x # y
      PROVE  Apart(RecordAt(l, x), RecordAt(l, y))
  <2>1. CASE x[1] = y[1]
    BY <1>2, <2>1, SameSectionApart
  <2>2. CASE x[1] # y[1]
    <3>1. /\ x[1] \in SectionNames /\ Inside(l, x)
          /\ y[1] \in SectionNames /\ Inside(l, y)
      BY RecordsInside
    <3>2. /\ From(l, x[1]) \in Nat /\ To(l, x[1]) \in Nat
          /\ From(l, y[1]) \in Nat /\ To(l, y[1]) \in Nat
          /\ To(l, x[1]) <= From(l, y[1]) \/ To(l, y[1]) <= From(l, x[1])
      BY <2>2, <3>1, SectionsApart
    <3> QED
      BY <3>1, <3>2 DEF Inside, EndOf, Apart
  <2> QED
    BY <2>1, <2>2
<1> QED
  BY <1>1, <1>2 DEF Disjoint

\* A sum of whole blocks is whole blocks.
LEMMA Blocks ==
  ASSUME NEW n \in Nat, NEW b \in Nat
  PROVE  (n * (b * 128)) % 128 = 0 /\ n * (b * 128) = (n * b) * 128
<1>1. n * b \in Nat /\ n * (b * 128) = (n * b) * 128
  OBVIOUS
<1> QED
  BY <1>1

\* The capacities SegmentLayout::new accepts, with a dirty index of four slots or more, give a
\* region size that check_size accepts: the segment can be created.  (With one or two slots the
\* ring of 32-byte slots ends inside a block, new accepts the layout all the same, and creating
\* the region is refused.)
THEOREM AcceptedCanBeCreated ==
  ASSUME NEW l \in Layouts, LayoutVerdict(l) = "Ok", l.dirty_capacity >= 4
  PROVE  SizeVerdict(RegionSize(l)) = "Ok"
<1>1. /\ l.directory_capacity \in Nat /\ l.state_slot_capacity \in Nat /\ l.level_capacity \in Nat
      /\ l.event_capacity \in Nat /\ l.dirty_capacity \in Nat
  BY DEF Layouts
<1>2. l.dirty_capacity \in PowersOfTwo /\ ~(RegionSize(l) > MaxRegionBytes)
  BY DEF LayoutVerdict
<1>3. PICK d \in Nat : l.dirty_capacity = d * 4
  <2>1. l.dirty_capacity % 4 = 0
    BY <1>2 DEF PowersOfTwo
  <2> QED
    BY <1>1, <2>1
<1>4. PICK s \in Nat : StateSlotStride(l) = s * 128
  <2> DEFINE q == (256 + l.level_capacity * 64 + 128 - 1) \div 128
  <2>1. q \in Nat
    BY <1>1
  <2>2. StateSlotStride(l) = q * 128
    BY DEF StateSlotStride, RoundUp, RegionAlignment, SlotPrefixBytes, LevelCellBytes
  <2> QED
    BY <2>1, <2>2
<1>5. PICK e \in Nat : EventRingBytes(l) = e * 128
  <2>1. EventRingBytes(l) = (l.event_capacity * 2) * 128
    BY <1>1 DEF EventRingBytes, EventSlotBytes
  <2> QED
    BY <1>1, <2>1
<1>6. /\ l.state_slot_capacity * s \in Nat
      /\ l.state_slot_capacity * StateSlotStride(l) = (l.state_slot_capacity * s) * 128
  BY <1>1, <1>4, Blocks
<1>7. /\ l.directory_capacity * e \in Nat
      /\ l.directory_capacity * EventRingBytes(l) = (l.directory_capacity * e) * 128
  BY <1>1, <1>5, Blocks
<1>8. RegionSize(l) = 256 + l.directory_capacity * 512 + (l.state_slot_capacity * s) * 128
                        + (l.directory_capacity * e) * 128 + d * 128 + 128
  BY <1>1, <1>3, <1>6, <1>7, Sections
<1> DEFINE u == l.state_slot_capacity * s
           w == l.directory_capacity * e
<1>9. RegionSize(l) % 128 = 0 /\ RegionSize(l) # 0
  <2>1. u \in Nat /\ w \in Nat /\ RegionSize(l) = 256 + l.directory_capacity * 512 + u * 128
                        + w * 128 + d * 128 + 128
    BY <1>6, <1>7, <1>8
  <2> HIDE DEF u, w
  <2> QED
    BY <1>1, <1>3, <2>1
<1> QED
  BY <1>2, <1>9 DEF SizeVerdict, RegionAlignment

\* What format writes is what validate accepts: a region of an accepted layout's size, formatted
\* for it with either doorbell, passes every check a reader makes, whatever the capacities.
THEOREM FormattedIsValid ==
  ASSUME NEW l \in Layouts, LayoutVerdict(l) = "Ok", l.dirty_capacity >= 4,
         NEW instance, NEW generation, NEW doorbell \in {InHeaderBit, PageBit}
  PROVE  LET bytes == RegionSize(l)
         IN  ValidateVerdict([size |-> bytes,
                              header |-> HeaderOf(l, bytes, instance, generation, doorbell),
                              trailer |-> TrailerOf(bytes)]) = "Ok"
<1> DEFINE bytes == RegionSize(l)
           h == HeaderOf(l, bytes, instance, generation, doorbell)
           t == TrailerOf(bytes)
<1>1. bytes % RegionAlignment = 0 /\ ~(bytes < HeaderBytes + TrailerBytes)
  <2>1. SizeVerdict(bytes) = "Ok"
    BY AcceptedCanBeCreated
  <2>2. bytes % RegionAlignment = 0
    BY <2>1 DEF SizeVerdict
  <2>3. l.dirty_capacity * 32 \in Nat
    BY DEF Layouts
  <2> QED
    BY <2>2, <2>3, Sections DEF HeaderBytes, TrailerBytes, RegionAlignment
<1>2. /\ h.magic = Magic /\ h.abi = AbiVersion /\ h.alignment = RegionAlignment
      /\ h.region_size = bytes /\ h.layout = l /\ h.geometry = Geometry(l)
      /\ h.features = {WrapsBit, doorbell}
      /\ t.magic = TrailerMagic /\ t.region_size = bytes
  BY DEF HeaderOf, TrailerOf
<1>3. h # Unpublished /\ t # Unpublished
  <2>1. Unpublished.magic # Magic /\ Unpublished.magic # TrailerMagic
    BY DEF Unpublished, Magic, TrailerMagic
  <2> QED
    BY <1>2, <2>1
<1>4. /\ {WrapsBit, doorbell} \subseteq KnownFeatureBits /\ WrapsBit \in {WrapsBit, doorbell}
      /\ (InHeaderBit \in {WrapsBit, doorbell}) # (PageBit \in {WrapsBit, doorbell})
  BY DEF KnownFeatureBits, WrapsBit, InHeaderBit, PageBit
<1> DEFINE region == [size |-> bytes, header |-> h, trailer |-> t]
<1>5. region.size = bytes /\ region.header = h /\ region.trailer = t
  OBVIOUS
<1>6. ValidateVerdict(region) = "Ok"
  <2> HIDE DEF region, h, t, bytes
  <2> QED
    BY <1>1, <1>2, <1>3, <1>4, <1>5 DEF ValidateVerdict, bytes
<1> QED
  BY <1>6
=============================================================================
