------------------------------- MODULE BlkSum -------------------------------
(***************************************************************************)
(* EFI/ALPINE/BLKSUM and its agreement with CHECKSUM: written, decoded and *)
(* verified by the tool (internal/payloadsum) and read by stage2           *)
(* (bios/blkverify.c, blksum_load in bios/stage2_main.c), two programs in  *)
(* two languages that a comment asks to "keep in step".                    *)
(*                                                                         *)
(* A digest is what was hashed: the content of the part of a file that is  *)
(* loaded and how much of it.  A sector that fails its own hash is not     *)
(* intact.                                                                 *)
(***************************************************************************)
EXTENDS Integers

CONSTANTS B,           \* BlockSize, BLKSUM_BLOCK
          PerSector,   \* EntriesPerSect, BLKSUM_PER_SECTOR
          U32          \* the modulus of uint32

ASSUME BlkSumAssumption ==
    B \in Nat \ {0} /\ PerSector \in Nat \ {0} /\ U32 \in Nat /\ B < U32 /\ PerSector < U32

Names == {"KERNEL", "INITRD"}

\* A file: for a kernel, whether it is a bzImage and its setup_sects; the content is
\* that of the loaded part.
File(bz, setup, size, content) == [bz |-> bz, setup |-> setup, size |-> size, content |-> content]

\* KernelRAMOffset, and 0 for the initrd
KernelRAMOffset(k) == ((IF k.setup = 0 THEN 4 ELSE k.setup) + 1) * 512
IsKernel(k) == k.bz /\ KernelRAMOffset(k) < k.size
Offset(files, n) == IF n = "KERNEL" THEN KernelRAMOffset(files[n]) ELSE 0
Length(files, n) == files[n].size - Offset(files, n)

Blocks(length) == (length + B - 1) \div B
SectorsFor(entries) == (entries + PerSector - 1) \div PerSector

Digest(content, length) == [of |-> content, upTo |-> length, final |-> TRUE]
State(content, n) == [of |-> content, upTo |-> n, final |-> FALSE]
Zero == [of |-> "zero", upTo |-> 0, final |-> FALSE]

\* chainEntries: the chaining state after each block, the digest after the last
ChainEntry(content, length, k) ==
    IF k + 1 = Blocks(length) THEN Digest(content, length) ELSE State(content, (k + 1) * B)

\* New: what CHECKSUM records of each file
Entry(size, offset, sum) == [size |-> size, offset |-> offset, sum |-> sum]
Checksum(files) ==
    [n \in Names |-> Entry(files[n].size, Offset(files, n), Digest(files[n].content, Length(files, n)))]

-----------------------------------------------------------------------------
(* A BLKSUM file: the header, which describes both files, and its table sectors. *)

Described(size, offset, blocks, first, sum) ==
    [size |-> size, offset |-> offset, blocks |-> blocks, first |-> first, sum |-> sum]
Table(intact, version, block, per, file, sectors, table) ==
    [intact |-> intact, version |-> version, block |-> block, per |-> per, file |-> file,
     sectors |-> sectors, table |-> table]
TableSector(intact, slots) == [intact |-> intact, slots |-> slots]

\* GenerateBlkSum: the kernel's entries from sector 1 on, then the initrd's
SlotOf(files, n, k) ==
    IF k < Blocks(Length(files, n)) THEN ChainEntry(files[n].content, Length(files, n), k) ELSE Zero
FirstOf(files, n) == IF n = "KERNEL" THEN 1 ELSE 1 + SectorsFor(Blocks(Length(files, "KERNEL")))
Describe(files, n) ==
    Described(files[n].size, Offset(files, n), Blocks(Length(files, n)), FirstOf(files, n),
              Digest(files[n].content, Length(files, n)))
OwnerOf(files, s) == IF s < FirstOf(files, "INITRD") THEN "KERNEL" ELSE "INITRD"
SlotsOf(files, s) ==
    [slot \in 0 .. PerSector - 1 |->
        SlotOf(files, OwnerOf(files, s), (s - FirstOf(files, OwnerOf(files, s))) * PerSector + slot)]
TableSectors(files) == FirstOf(files, "INITRD") + SectorsFor(Blocks(Length(files, "INITRD"))) - 1
GenerateBlkSum(files) ==
    Table(TRUE, 1, B, PerSector, [n \in Names |-> Describe(files, n)], TableSectors(files),
          [s \in 1 .. TableSectors(files) |-> TableSector(TRUE, SlotsOf(files, s))])

-----------------------------------------------------------------------------
(* The tool *)

\* (l + BlockSize - 1) / BlockSize in uint32
DecodedBlocks(d) == ((d.size - d.offset + B - 1) % U32) \div B
DecodeBlkSum(t) ==
    /\ t.intact /\ \A s \in 1 .. t.sectors : t.table[s].intact
    /\ t.version = 1 /\ t.block = B /\ t.per = PerSector
    /\ \A n \in Names :
          LET d == t.file[n]
          IN /\ d.offset <= d.size /\ d.first # 0
             /\ d.blocks = DecodedBlocks(d)
             /\ d.first + SectorsFor(d.blocks) <= 1 + t.sectors

Agrees(d, e) == d.size = e.size /\ d.offset = e.offset /\ d.sum = e.sum

\* VerifyBlkSum finds nothing; an entry the table does not have stops the tool
VerifyBlkSum(t, sums, files) ==
    /\ IsKernel(files["KERNEL"])
    /\ \A n \in Names :
          LET d == t.file[n]
          IN /\ Agrees(d, sums[n])
             /\ files[n].size = d.size /\ Offset(files, n) = d.offset
             /\ \A k \in 0 .. Blocks(Length(files, n)) - 1 :
                   /\ k < d.blocks
                   /\ t.table[d.first + k \div PerSector].slots[k % PerSector]
                         = ChainEntry(files[n].content, Length(files, n), k)

-----------------------------------------------------------------------------
(* stage2 *)

\* blksum_parse_header
HeaderBlocks(d) ==
    (d.size - d.offset) \div B + (IF (d.size - d.offset) % B # 0 THEN 1 ELSE 0)
ParseHeader(t) ==
    /\ t.intact /\ t.version = 1 /\ t.block = B /\ t.per = PerSector
    /\ \A n \in Names :
          LET d == t.file[n]
          IN d.offset <= d.size /\ d.first # 0 /\ d.blocks = HeaderBlocks(d)

\* blksum_load
BlkSumLoad(t, sums) == ParseHeader(t) /\ \A n \in Names : Agrees(t.file[n], sums[n])

\* hook_entry and blksum_sector: the sector of entry k, where it can be read
EntrySector(t, n, k) == (t.file[n].first + k \div PerSector) % U32
HasEntry(t, n, k) ==
    EntrySector(t, n, k) \in 1 .. t.sectors /\ t.table[EntrySector(t, n, k)].intact
HookEntry(t, n, k) == t.table[EntrySector(t, n, k)].slots[k % PerSector]

-----------------------------------------------------------------------------
(* What the files can be, and what can be in EFI/ALPINE/BLKSUM. *)

WellFormedFiles(files) ==
    \A n \in Names : files[n].size \in 0 .. U32 - 1 /\ files[n].setup \in 0 .. 255
WellFormedTable(t) ==
    /\ t.sectors \in 0 .. U32 - 2
    /\ \A n \in Names :
          LET d == t.file[n]
          IN {d.size, d.offset, d.blocks, d.first} \subseteq 0 .. U32 - 1

\* The counts of DecodeBlkSum do not go round: no loaded part within a block of 4 GiB.
Counted(files) == \A n \in Names : Length(files, n) + B - 1 < U32
=============================================================================
