---------------------------- MODULE SegmentLayout -----------------------------
(***************************************************************************)
(* The geometry of a publication segment (src/src/shm/layout.rs): which    *)
(* capacities describe one, where each record of it lies, what the writer  *)
(* puts into its header and trailer, and what a reader checks before it    *)
(* believes them.  Offsets and sizes are bytes; the offsets of the fields  *)
(* inside a record are left out.  A region is [size, header, trailer],     *)
(* where a write-once record is Unpublished until its gate is stored.       *)
(***************************************************************************)
EXTENDS Integers

RegionAlignment == 128
MaxRegionBytes == 1073741824
HeaderBytes == 256
TrailerBytes == RegionAlignment
DirectoryEntryBytes == 512
SlotPrefixBytes == 256
LevelCellBytes == 64
EventSlotBytes == 256
DirtySlotBytes == 32
IdentityCapacity == DirectoryEntryBytes - 16
NativeFamilyCapacity == 64

MaxDirectoryCapacity == 65536
MaxStateSlotCapacity == 65536
MaxLevelCapacity == 4096
MaxEventCapacity == 65536
MaxDirtyCapacity == 1048576

PowersOfTwo == {1, 2, 4, 8, 16, 32, 64, 128, 256, 512, 1024, 2048, 4096, 8192, 16384, 32768, 65536,
                131072, 262144, 524288, 1048576}

-----------------------------------------------------------------------------
(* The byte arithmetic                                                     *)

RoundUp(value) == ((value + RegionAlignment - 1) \div RegionAlignment) * RegionAlignment

StateSlotStride(l) == RoundUp(SlotPrefixBytes + l.level_capacity * LevelCellBytes)
EventRingBytes(l) == l.event_capacity * EventSlotBytes
DirtyRingBytes(l) == l.dirty_capacity * DirtySlotBytes

DirectoryOffset(l) == HeaderBytes
StateSlotOffset(l) == DirectoryOffset(l) + l.directory_capacity * DirectoryEntryBytes
EventOffset(l) == StateSlotOffset(l) + l.state_slot_capacity * StateSlotStride(l)

\* Mutant: room for one event ring, not for one per directory entry.
DirtyOffsetOneRing(l) == EventOffset(l) + EventRingBytes(l)

DirtyOffset(l) == EventOffset(l) + l.directory_capacity * EventRingBytes(l)
TrailerOffset(l) == DirtyOffset(l) + DirtyRingBytes(l)
RegionSize(l) == TrailerOffset(l) + TrailerBytes

-----------------------------------------------------------------------------
(* SegmentLayout::new: "Ok", or why these capacities describe no segment   *)

Zero(l) == 0 \in {l.directory_capacity, l.state_slot_capacity, l.level_capacity,
                  l.event_capacity, l.dirty_capacity}

TooLarge(l) ==
  \/ l.directory_capacity > MaxDirectoryCapacity \/ l.state_slot_capacity > MaxStateSlotCapacity
  \/ l.level_capacity > MaxLevelCapacity
  \/ l.event_capacity > MaxEventCapacity \/ l.dirty_capacity > MaxDirtyCapacity

LayoutVerdict(l) ==
  IF Zero(l) THEN "CapacityZero"
  ELSE IF TooLarge(l) THEN "CapacityTooLarge"
  ELSE IF l.state_slot_capacity < l.directory_capacity THEN "StateSlotsBelowDirectory"
  ELSE IF l.event_capacity \notin PowersOfTwo THEN "EventCapacityNotPowerOfTwo"
  ELSE IF l.dirty_capacity \notin PowersOfTwo THEN "DirtyCapacityNotPowerOfTwo"
  ELSE IF RegionSize(l) > MaxRegionBytes THEN "RegionTooLarge"
  ELSE "Ok"

-----------------------------------------------------------------------------
(* The records a region is carved into, as [at, bytes]                     *)

DirectoryRecord(l, index) ==
  [at |-> DirectoryOffset(l) + index * DirectoryEntryBytes, bytes |-> DirectoryEntryBytes]

StateSlotRecord(l, index) ==
  [at |-> StateSlotOffset(l) + index * StateSlotStride(l), bytes |-> StateSlotStride(l)]

\* The slot index is the position masked by the capacity, a power of two: the remainder.
EventSlotRecord(l, entry, position) ==
  [at |-> EventOffset(l) + entry * EventRingBytes(l)
            + (position % l.event_capacity) * EventSlotBytes,
   bytes |-> EventSlotBytes]

DirtySlotRecord(l, position) ==
  [at |-> DirtyOffset(l) + (position % l.dirty_capacity) * DirtySlotBytes, bytes |-> DirtySlotBytes]

HeaderRecord == [at |-> 0, bytes |-> HeaderBytes]
TrailerRecord(size) == [at |-> size - TrailerBytes, bytes |-> TrailerBytes]

EndOf(record) == record.at + record.bytes
Apart(a, b) == EndOf(a) <= b.at \/ EndOf(b) <= a.at

\* The records by what they are: <<section, entry, position>>.
RecordIds(entries, slots, events, dirties) ==
  {<<"header", 0, 0>>, <<"trailer", 0, 0>>}
  \cup ({"directory"} \X entries \X {0}) \cup ({"slot"} \X slots \X {0})
  \cup ({"event"} \X entries \X events) \cup ({"dirty"} \X {0} \X dirties)

RecordAt(l, id) ==
  CASE id[1] = "header" -> HeaderRecord
    [] id[1] = "directory" -> DirectoryRecord(l, id[2])
    [] id[1] = "slot" -> StateSlotRecord(l, id[2])
    [] id[1] = "event" -> EventSlotRecord(l, id[2], id[3])
    [] id[1] = "dirty" -> DirtySlotRecord(l, id[3])
    [] OTHER -> TrailerRecord(RegionSize(l))

\* Distinct records share no byte and none passes the end of the region.
Disjoint(l, ids) ==
  /\ \A x \in ids : 0 <= RecordAt(l, x).at /\ EndOf(RecordAt(l, x)) <= RegionSize(l)
  /\ \A x, y \in ids : x # y => Apart(RecordAt(l, x), RecordAt(l, y))

AllIds(l) == RecordIds(0..(l.directory_capacity - 1), 0..(l.state_slot_capacity - 1),
                       0..(l.event_capacity - 1), 0..(l.dirty_capacity - 1))
Corners(n) == {0, n \div 2, n - 1}
CornerIds(l) == RecordIds(Corners(l.directory_capacity), Corners(l.state_slot_capacity),
                          Corners(l.event_capacity), Corners(l.dirty_capacity))

-----------------------------------------------------------------------------
(* The mapped region: what creating, formatting and validating one does    *)

Magic == "PMWSSTA1"
TrailerMagic == "PMWSEND1"
AbiVersion == 5
InHeaderBit == "DoorbellInHeader"
PageBit == "DoorbellPage"
WrapsBit == "EventRingWraps"
KnownFeatureBits == {WrapsBit, InHeaderBit, PageBit}
Unpublished == [magic |-> "Zero"]     \* a write-once record whose gate is still zero

\* check_size, asked by every way of obtaining a region.
SizeVerdict(bytes) ==
  IF bytes = 0 THEN "SizeZero"
  ELSE IF bytes % RegionAlignment # 0 THEN "SizeNotBlockAligned"
  ELSE IF bytes > MaxRegionBytes THEN "SizeTooLarge"
  ELSE "Ok"

BlankRegion(bytes) == [size |-> bytes, header |-> Unpublished, trailer |-> Unpublished]

\* The offsets and strides a header repeats beside the capacities they follow from.
Geometry(l) ==
  [directory_offset |-> DirectoryOffset(l), directory_stride |-> DirectoryEntryBytes,
   slot_offset |-> StateSlotOffset(l), slot_stride |-> StateSlotStride(l),
   level_stride |-> LevelCellBytes, event_offset |-> EventOffset(l),
   event_stride |-> EventSlotBytes, dirty_offset |-> DirtyOffset(l),
   dirty_stride |-> DirtySlotBytes, trailer_offset |-> TrailerOffset(l),
   identity_capacity |-> IdentityCapacity, family_capacity |-> NativeFamilyCapacity]

TrailerOf(bytes) == [magic |-> TrailerMagic, region_size |-> bytes]

HeaderOf(l, bytes, instance, generation, doorbell) ==
  [magic |-> Magic, abi |-> AbiVersion, alignment |-> RegionAlignment, region_size |-> bytes,
   features |-> {WrapsBit, doorbell}, layout |-> l, geometry |-> Geometry(l),
   instance |-> instance, generation |-> generation]

\* layout::validate: the fault a reader reports, in the order of its checks, or "Ok".
ValidateVerdict(region) ==
  LET h == region.header
      t == region.trailer
  IN  IF region.size % RegionAlignment # 0 THEN "RegionMisaligned"
      ELSE IF region.size < HeaderBytes + TrailerBytes THEN "RegionTooSmall"
      ELSE IF h = Unpublished THEN "HeaderUnpublished"
      ELSE IF h.magic # Magic THEN "MagicMismatch"
      ELSE IF h.abi # AbiVersion THEN "AbiVersionUnsupported"
      ELSE IF h.alignment # RegionAlignment THEN "AlignmentMismatch"
      ELSE IF h.region_size # region.size THEN "RegionSizeMismatch"
      ELSE IF ~(/\ h.features \subseteq KnownFeatureBits /\ WrapsBit \in h.features
                /\ (InHeaderBit \in h.features) # (PageBit \in h.features))
           THEN "FeatureUnsupported"
      ELSE IF LayoutVerdict(h.layout) # "Ok" THEN "CapacityOutOfRange"
      ELSE IF RegionSize(h.layout) # region.size \/ h.geometry # Geometry(h.layout)
           THEN "GeometryMismatch"
      ELSE IF t = Unpublished THEN "TrailerMismatch"
      ELSE IF t.magic # TrailerMagic \/ t.region_size # region.size THEN "TrailerMismatch"
      ELSE "Ok"
=============================================================================
