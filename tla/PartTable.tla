------------------------------ MODULE PartTable ------------------------------
(***************************************************************************)
(* Partition tables as the tool reads them (internal/parttable, and the    *)
(* extent check of internal/bootenv) and as stage2 reads them (bios/gpt.c, *)
(* bios/mbr.c), and the names of disks and partitions.                     *)
(*                                                                         *)
(* A disk's table is what its first sectors hold: the state of the GPT     *)
(* header, its fields, the used slots of its array, and the MBR.  Sector   *)
(* numbers are those of a disk (below 2^55: none goes round in the code's  *)
(* 64-bit arithmetic); the 32-bit count of entries does go round.          *)
(***************************************************************************)
EXTENDS Integers, FiniteSets

CONSTANT U32     \* the modulus of uint32
ASSUME U32Assumption == U32 \in Nat /\ U32 > 4

SectorSize == 512
Stage2LBA == 34
Stage2Sectors == 64
Stage2End == Stage2LBA + Stage2Sectors - 1

\* A used slot of the array: its index (from 0), its type, its first and last sector.
GPTSlots == [at : Nat, type : {"esp", "other"}, start : Nat, end : Nat]
Slot(at, type, start, end) == [at |-> at, type |-> type, start |-> start, end |-> end]
MBREntry(type, start, count) == [type |-> type, start |-> start, count |-> count]

\* gpt: "none" no signature, "ok", "bad" header size or CRC, "unread"; mbr: "none" no
\* 0x55AA, "fat" a FAT boot sector, "ok"; skewed: what the bytes decode to at the places
\* where a walk looks for an entry and none begins (none on a usual table).
Table(gpt, lba, num, size, slots, mbr, entries) ==
    [gpt |-> gpt, lba |-> lba, num |-> num, size |-> size, slots |-> slots,
     skewed |-> {}, mbr |-> mbr, entries |-> entries]

\* What can be on a disk: every slot is one of the array's.
WellFormed(t) ==
    /\ t.lba \in Nat /\ t.num \in Nat /\ t.size \in Nat
    /\ t.slots \subseteq GPTSlots /\ \A s \in t.slots : s.at < t.num
    /\ t.skewed \subseteq GPTSlots
    /\ \A e \in t.entries : e.start \in Nat /\ e.count \in Nat

EntriesPerSector(t) == SectorSize \div t.size
\* Number of array sectors the walks cover, in uint32 arithmetic.
TotalSectors(t) == ((t.num + EntriesPerSector(t) - 1) % U32) \div EntriesPerSector(t)

\* Both walks read sector by sector, EntriesPerSector entries from the start of each; the
\* entries themselves lie one after the other, size bytes each.
Positions(t) == {p \in 0..(t.num - 1) : p \div EntriesPerSector(t) < TotalSectors(t)}
Offset(t, p) == (p \div EntriesPerSector(t)) * SectorSize + (p % EntriesPerSector(t)) * t.size
EntryBegins(t, off) == \E n \in 0..(t.num - 1) : off = n * t.size
\* The used entries the p-th read of the walk decodes: at most one, numbered p.
DecodedAt(t, p) ==
    IF EntryBegins(t, Offset(t, p))
    THEN {[s EXCEPT !.at = p] : s \in {e \in t.slots : e.at * t.size = Offset(t, p)}}
    ELSE {s \in t.skewed : s.at = p}
Walked(t) == UNION {DecodedAt(t, p) : p \in Positions(t)}

\* GPTPartitions: the used entries; a size or count out of range is an error.
GPTReadable(t) == t.size >= 128 /\ t.size <= SectorSize /\ t.num # 0
GPTPartitions(t) == Walked(t)

\* MBRPartitions
MBRReadable(t) == t.mbr = "ok"
MBRPartitions(t) == {e \in t.entries : e.count # 0}

LbaRangesOverlap(aStart, aEnd, bStart, bEnd) == aStart <= bEnd /\ bStart <= aEnd
Conflicts(start, end) ==
    /\ ~(start = Stage2LBA /\ end = Stage2End)
    /\ LbaRangesOverlap(Stage2LBA, Stage2End, start, end)

\* The array's footprint, counted in uint64
ArraySectors(t) ==
    LET eps == IF SectorSize \div t.size < 1 THEN 1 ELSE SectorSize \div t.size
    IN (t.num + eps - 1) \div eps

CheckGPTExtentFree(t) ==
    /\ t.size # 0
    /\ ~(ArraySectors(t) > 0
         /\ LbaRangesOverlap(Stage2LBA, Stage2End, t.lba, t.lba + ArraySectors(t) - 1))
    /\ GPTReadable(t)
    /\ \A s \in GPTPartitions(t) : ~Conflicts(s.start, s.end)

CheckStage2ExtentFree(t) ==
    \/ t.gpt = "ok" /\ CheckGPTExtentFree(t)
    \/ t.gpt = "none" /\ MBRReadable(t)
       /\ \A e \in MBRPartitions(t) : ~Conflicts(e.start, e.start + e.count - 1)

-----------------------------------------------------------------------------
(* The table itself, by which the checks are judged. *)

\* Sectors someone else owns: those of a used entry, and the GPT array's own.
Claimed(t, first, last) ==
    IF t.gpt = "ok"
    THEN \E s \in t.slots : ~(s.start = first /\ s.end = last) /\ s.start <= last /\ first <= s.end
    ELSE t.mbr # "ok" \/ \E e \in t.entries :
             /\ e.count > 0 /\ ~(e.start = first /\ e.count = last - first + 1)
             /\ e.start <= last /\ first <= e.start + e.count - 1
HoldsArray(t, first, last) ==
    t.gpt = "ok" /\ \E n \in 0..(t.num - 1) :
        LET at == t.lba + (n * t.size) \div SectorSize IN first <= at /\ at <= last

\* Arrays the walks do not read entry by entry: the entry count goes round in uint32, so
\* no entry is read; or the entry size does not divide a sector, so entries straddle its
\* end ("extra handling this code doesn't do", gpt_find_partition).
CountWraps(t) == t.size # 0 /\ t.num + (SectorSize \div t.size) - 1 >= U32
Straddles(t) == t.size # 0 /\ SectorSize % t.size # 0
Misread(t) == CountWraps(t) \/ Straddles(t)

-----------------------------------------------------------------------------
(* stage2 *)

\* A slip: the walk ends one sector early when the last one is partly filled.
FoundInWholeSectors(t, type) ==
    {s \in Walked(t) : s.type = type
                       /\ s.at \div EntriesPerSector(t) < t.num \div EntriesPerSector(t)}
\* gpt_find_partition, mbr_find_partition: the slots of that type; the first is taken
FoundByStage2(t, type) == {s \in Walked(t) : s.type = type}
GPTFindReads(t) == t.size >= 48 /\ t.size <= SectorSize /\ t.num # 0
Earliest(slots) == CHOOSE s \in slots : \A o \in slots : s.at <= o.at

\* Where stage2 looks for the ESP; 0 where it finds none.
Stage2ESP(t) ==
    IF t.gpt = "ok"
    THEN IF GPTFindReads(t) /\ FoundByStage2(t, "esp") # {}
         THEN Earliest(FoundByStage2(t, "esp")).start ELSE 0
    ELSE IF t.mbr \in {"ok", "fat"} /\ \E e \in MBRPartitions(t) : e.type = "esp"
         THEN (CHOOSE e \in MBRPartitions(t) : e.type = "esp").start ELSE 0

-----------------------------------------------------------------------------
(* Device names: a stem, a unit number where the class ends whole disks in a digit
   (NoUnit otherwise), and a partition number (0 for the whole disk). *)

NoUnit == -1
Name(stem, unit, part) == [stem |-> stem, unit |-> unit, part |-> part]
WholeDisk(name) == Name(name.stem, name.unit, 0)
PSuffixWholeDisk == {"nvme0n", "mmcblk", "loop", "nbd", "md"}

\* DevicePartitionBase: a digit-ending disk of a class the tool does not know loses its
\* unit.
DevicePartitionBase(name) ==
    IF name.unit # NoUnit /\ name.part = 0 /\ name.stem \notin PSuffixWholeDisk
    THEN Name(name.stem, NoUnit, 0)
    ELSE WholeDisk(name)

\* DiskOfESP: only a partition of a plain disk
PlainDisk(name) == name.stem \notin {"md", "dm-"}
DiskOfESP(name) == name.part # 0 /\ PlainDisk(name)

\* checkMountInfo
MountInfo(found, fstype, dev) == [found |-> found, fstype |-> fstype, dev |-> dev]
CheckMountInfo(m, diskArg) ==
    m.found /\ m.fstype = "vfat" /\ DevicePartitionBase(m.dev) = DevicePartitionBase(diskArg)
=============================================================================
