------------------------- MODULE PayloadLoadProofs -------------------------
(***************************************************************************)
(* EnforceRunsOnlyRight, OnlyEnforceRefuses and CountsEveryWrong for files *)
(* and blocks of every size and every bound on retries and stray writes,   *)
(* and that the manifest the tool generates is the one stage2 checks by.   *)
(***************************************************************************)
EXTENDS PayloadLoad, TLAPS

\* A leaf is tried with Zenon, then with the SMT solver, then with Zenon for longer.
USE ZenonT(2), SMT, Zenon

USE BlkSumAssumption

(* The tool and stage2 are in step about BLKSUM, for files of every size,  *)
(* every block size and every number of entries to a sector.               *)

(* Quotient and remainder by c. *)
LEMMA DivMod ==
    ASSUME NEW l \in Nat, NEW c \in Nat \ {0}
    PROVE  /\ l \div c \in Nat /\ l % c \in 0 .. c - 1
           /\ l = c * (l \div c) + (l % c)
<1> DEFINE q == l \div c
           r == l % c
<1>1. q \in Nat /\ r \in 0 .. c - 1
  OBVIOUS
<1>2. l = c * q + r
  OBVIOUS
<1> QED BY <1>1, <1>2

(* What is a multiple of c and a remainder has that quotient and remainder. *)
LEMMA DivUnique ==
    ASSUME NEW q \in Nat, NEW c \in Nat \ {0}, NEW r \in 0 .. c - 1
    PROVE  (c * q + r) \div c = q /\ (c * q + r) % c = r
  OBVIOUS

(* The tool's and stage2's formulas for a count rounded up are the same. *)
LEMMA RoundedUp ==
    ASSUME NEW l \in Nat, NEW c \in Nat \ {0}
    PROVE  (l + c - 1) \div c = l \div c + (IF l % c # 0 THEN 1 ELSE 0)
<1> DEFINE q == l \div c
           r == l % c
<1>1. q \in Nat /\ r \in 0 .. c - 1 /\ l = c * q + r
  BY DivMod
<1> HIDE DEF q, r
<1>2. CASE r = 0
  <2>1. l + c - 1 = c * q + (c - 1) /\ c - 1 \in 0 .. c - 1
    BY <1>1, <1>2
  <2>2. (l + c - 1) \div c = q
    BY <2>1, <1>1, DivUnique
  <2> QED BY <2>2, <1>2 DEF q, r
<1>3. CASE r # 0
  <2>1. l + c - 1 = c * (q + 1) + (r - 1) /\ r - 1 \in 0 .. c - 1 /\ q + 1 \in Nat
    BY <1>1, <1>3
  <2>2. (l + c - 1) \div c = q + 1
    BY <2>1, DivUnique, SMTT(60)
  <2> QED BY <2>2, <1>3 DEF q, r
<1> QED BY <1>2, <1>3

(* n entries of c to a sector: entry k < n is in one of the first sectors. *)
LEMMA WithinSectors ==
    ASSUME NEW n \in Nat, NEW c \in Nat \ {0}, NEW k \in 0 .. n - 1
    PROVE  k \div c < (n + c - 1) \div c /\ k \div c \in Nat /\ (n + c - 1) \div c \in Nat
<1> DEFINE a == k \div c
           r == k % c
           b == (n + c - 1) \div c
           s == (n + c - 1) % c
<1>1. a \in Nat /\ r \in 0 .. c - 1 /\ k = c * a + r
  <2>1. k \in Nat
    OBVIOUS
  <2> QED BY <2>1, DivMod
<1>2. n + c - 1 \in Nat
  OBVIOUS
<1>3. b \in Nat /\ s \in 0 .. c - 1 /\ n + c - 1 = c * b + s
  BY <1>2, DivMod
<1> HIDE DEF a, r, b, s
<1>4. c * b >= n
  BY <1>3
<1>5. c * a < c * b
  BY <1>1, <1>3, <1>4
<1>6. a < b
  BY <1>1, <1>3, <1>5
<1> QED BY <1>1, <1>3, <1>6 DEF a, b

(* "keep the two in step" (blksum.go, blkverify.h), from the tool to the   *)
(* loader: a BLKSUM of any content with which `alpine-zfsboot verify` finds *)
(* no fault is one stage2 uses, with the tool's number of blocks, and every *)
(* entry stage2 looks up is in the file and is the one of that block of the *)
(* installed file, so that a block read right is never judged bad.          *)
THEOREM VerifiedIsUsed ==
    ASSUME NEW t, NEW sums, NEW files,
           WellFormedTable(t), WellFormedFiles(files),
           DecodeBlkSum(t), VerifyBlkSum(t, sums, files)
    PROVE  /\ BlkSumLoad(t, sums)
           /\ \A n \in Names :
                 /\ t.file[n].blocks = Blocks(Length(files, n))
                 /\ \A k \in 0 .. Blocks(Length(files, n)) - 1 :
                       /\ HasEntry(t, n, k)
                       /\ HookEntry(t, n, k) = ChainEntry(files[n].content, Length(files, n), k)
<1> USE BlkSumAssumption
<1>1. ASSUME NEW n \in Names
      PROVE  /\ t.file[n].blocks = Blocks(Length(files, n))
             /\ t.file[n].blocks = HeaderBlocks(t.file[n])
             /\ \A k \in 0 .. Blocks(Length(files, n)) - 1 :
                   /\ HasEntry(t, n, k)
                   /\ HookEntry(t, n, k) = ChainEntry(files[n].content, Length(files, n), k)
  <2> DEFINE d == t.file[n]
             l == Length(files, n)
  <2>1. d.size \in Nat /\ d.offset \in Nat /\ d.offset <= d.size /\ d.size < U32
    BY DEF WellFormedTable, DecodeBlkSum
  <2>2. l = d.size - d.offset /\ l \in 0 .. U32 - 1
    <3>1. files[n].size = d.size /\ Offset(files, n) = d.offset
      BY DEF VerifyBlkSum
    <3>2. l = d.size - d.offset
      BY <3>1 DEF Length
    <3> HIDE DEF d, l
    <3> QED BY <2>1, <3>2
  <2>3. d.blocks = ((l + B - 1) % U32) \div B
    BY <2>2 DEF DecodeBlkSum, DecodedBlocks
  <2>4. d.first \in 1 .. U32 - 1 /\ d.first + SectorsFor(d.blocks) <= 1 + t.sectors
        /\ t.sectors \in 0 .. U32 - 2
    BY DEF WellFormedTable, DecodeBlkSum
  <2>5. \A k \in 0 .. Blocks(l) - 1 :
           /\ k < d.blocks
           /\ t.table[d.first + k \div PerSector].slots[k % PerSector]
                 = ChainEntry(files[n].content, l, k)
    BY DEF VerifyBlkSum
  <2> HIDE DEF d, l
  <2>6. l + B - 1 < U32
    <3>1. SUFFICES ASSUME l + B - 1 >= U32 PROVE FALSE
      BY <2>2
    <3>2. (l + B - 1) % U32 = l + B - 1 - U32 /\ l + B - 1 - U32 \in 0 .. B - 1
      BY <2>2, <3>1
    <3>3. d.blocks = 0
      BY <2>3, <3>2
    <3>4. l >= 1 /\ l + B - 1 >= B
      BY <2>2, <3>1
    <3>5. Blocks(l) >= 1
      BY <2>2, <3>4 DEF Blocks
    <3>6. 0 \in 0 .. Blocks(l) - 1
      BY <2>2, <3>5 DEF Blocks
    <3> QED BY <2>5, <3>3, <3>6
  <2>7. (l + B - 1) % U32 = l + B - 1
    BY <2>2, <2>6
  <2>8. d.blocks = Blocks(l) /\ Blocks(l) \in Nat
    BY <2>2, <2>3, <2>7 DEF Blocks
  <2>9. d.blocks = HeaderBlocks(d)
    <3>1. (l + B - 1) \div B = l \div B + (IF l % B # 0 THEN 1 ELSE 0)
      <4>1. l \in Nat
        BY <2>2
      <4> QED BY <4>1, RoundedUp
    <3> QED BY <2>2, <2>8, <3>1 DEF Blocks, HeaderBlocks
  <2>10. ASSUME NEW k \in 0 .. Blocks(l) - 1
         PROVE  HasEntry(t, n, k) /\ HookEntry(t, n, k) = ChainEntry(files[n].content, l, k)
    <3>1. k \div PerSector < SectorsFor(d.blocks) /\ k \div PerSector \in Nat
          /\ SectorsFor(d.blocks) \in Nat
      BY <2>8, WithinSectors DEF SectorsFor
    <3>2. d.first + k \div PerSector \in 1 .. t.sectors
      BY <2>4, <3>1
    <3>3. (d.first + k \div PerSector) % U32 = d.first + k \div PerSector
      BY <2>4, <3>2
    <3>4. EntrySector(t, n, k) = d.first + k \div PerSector
      BY <3>3 DEF EntrySector, d
    <3>5. t.table[d.first + k \div PerSector].intact
      BY <3>2 DEF DecodeBlkSum
    <3> QED BY <2>5, <3>2, <3>4, <3>5 DEF HasEntry, HookEntry
  <2> QED BY <2>8, <2>9, <2>10 DEF d, l
<1>2. BlkSumLoad(t, sums)
  BY <1>1 DEF BlkSumLoad, ParseHeader, DecodeBlkSum, VerifyBlkSum
<1> QED BY <1>1, <1>2
-----------------------------------------------------------------------------
(* Sizes and counts of files that can be installed. *)
LEMMA Counts ==
    ASSUME NEW files, WellFormedFiles(files), IsKernel(files["KERNEL"]), NEW n \in Names
    PROVE  /\ files[n].size \in Nat /\ Offset(files, n) \in Nat /\ Offset(files, n) <= files[n].size
           /\ Length(files, n) \in Nat /\ Blocks(Length(files, n)) \in Nat
           /\ SectorsFor(Blocks(Length(files, n))) \in Nat
<1> USE BlkSumAssumption
<1>1. files[n].size \in Nat /\ files[n].setup \in Nat
  BY DEF WellFormedFiles
<1>2. Offset(files, n) \in Nat /\ Offset(files, n) <= files[n].size
  BY <1>1 DEF Offset, IsKernel, KernelRAMOffset, Names
<1>3. Length(files, n) \in Nat
  BY <1>1, <1>2 DEF Length
<1>4. Blocks(Length(files, n)) \in Nat
  BY <1>3 DEF Blocks
<1>5. SectorsFor(Blocks(Length(files, n))) \in Nat
  BY <1>4 DEF SectorsFor
<1> QED BY <1>1, <1>2, <1>3, <1>4, <1>5

(* GenerateBlkSum puts entry k of a file where it is looked for. *)
LEMMA Placed ==
    ASSUME NEW files, WellFormedFiles(files), IsKernel(files["KERNEL"]), NEW n \in Names,
           NEW k \in 0 .. Blocks(Length(files, n)) - 1
    PROVE  /\ FirstOf(files, n) + k \div PerSector \in 1 .. TableSectors(files)
           /\ SlotsOf(files, FirstOf(files, n) + k \div PerSector)[k % PerSector]
                 = ChainEntry(files[n].content, Length(files, n), k)
<1> USE BlkSumAssumption
<1> DEFINE nb(m) == Blocks(Length(files, m))
           q == k \div PerSector
           r == k % PerSector
           s == FirstOf(files, n) + q
<1>1. \A m \in Names : nb(m) \in Nat /\ SectorsFor(nb(m)) \in Nat
  BY Counts
<1>2. k \in Nat /\ k < nb(n)
  BY <1>1
<1>3. q \in Nat /\ r \in 0 .. PerSector - 1 /\ k = PerSector * q + r
  BY <1>2, DivMod
<1>4. q < SectorsFor(nb(n))
  BY <1>1, <1>2, WithinSectors DEF SectorsFor
<1>5. /\ FirstOf(files, "KERNEL") = 1
      /\ FirstOf(files, "INITRD") = 1 + SectorsFor(nb("KERNEL"))
      /\ TableSectors(files) = SectorsFor(nb("KERNEL")) + SectorsFor(nb("INITRD"))
  BY <1>1 DEF FirstOf, TableSectors, Names
<1> HIDE DEF nb, q, r
<1>6. s \in 1 .. TableSectors(files) /\ OwnerOf(files, s) = n
  BY <1>1, <1>3, <1>4, <1>5 DEF OwnerOf, Names
<1>7. (s - FirstOf(files, n)) * PerSector + r = k
  BY <1>1, <1>3, <1>5 DEF Names
<1> HIDE DEF s
<1>8. SlotsOf(files, s)[r] = SlotOf(files, n, k)
  BY <1>3, <1>6, <1>7 DEF SlotsOf
<1>9. SlotOf(files, n, k) = ChainEntry(files[n].content, Length(files, n), k)
  BY <1>2 DEF SlotOf, nb
<1> QED BY <1>6, <1>8, <1>9 DEF s, q, r

(* The other way round: what the tool generates for an installable kernel  *)
(* and initrd, next to the CHECKSUM it generates, its own decoding and     *)
(* `verify` accept (and so stage2 does), unless a file is so close to      *)
(* 4 GiB that the decoder's uint32 count goes round.                       *)
THEOREM GeneratedVerifies ==
    ASSUME NEW files, WellFormedFiles(files), IsKernel(files["KERNEL"]), Counted(files)
    PROVE  /\ DecodeBlkSum(GenerateBlkSum(files))
           /\ VerifyBlkSum(GenerateBlkSum(files), Checksum(files), files)
<1> USE BlkSumAssumption
<1> DEFINE t == GenerateBlkSum(files)
<1>1. /\ t.intact /\ t.version = 1 /\ t.block = B /\ t.per = PerSector
      /\ t.sectors = TableSectors(files)
      /\ \A n \in Names : t.file[n] = Describe(files, n)
      /\ \A s \in 1 .. TableSectors(files) :
            t.table[s].intact /\ t.table[s].slots = SlotsOf(files, s)
  BY DEF GenerateBlkSum, Table, TableSector
<1> HIDE DEF t
<1>2. ASSUME NEW n \in Names
      PROVE  /\ t.file[n].size = files[n].size
             /\ t.file[n].offset = Offset(files, n)
             /\ t.file[n].blocks = Blocks(Length(files, n))
             /\ t.file[n].first = FirstOf(files, n)
             /\ t.file[n].sum = Digest(files[n].content, Length(files, n))
  <2>1. t.file[n] = Describe(files, n)
    BY <1>1
  <2> QED BY <2>1 DEF Describe, Described
<1>3. ASSUME NEW n \in Names
      PROVE  /\ t.file[n].offset <= t.file[n].size /\ t.file[n].first # 0
             /\ t.file[n].blocks = DecodedBlocks(t.file[n])
             /\ t.file[n].first + SectorsFor(t.file[n].blocks) <= 1 + t.sectors
  <2>1. t.file[n].offset <= t.file[n].size
    BY <1>2, Counts
  <2>2. /\ SectorsFor(Blocks(Length(files, "KERNEL"))) \in Nat
        /\ SectorsFor(Blocks(Length(files, "INITRD"))) \in Nat
    BY Counts DEF Names
  <2>3. t.file[n].first # 0 /\ t.file[n].first + SectorsFor(t.file[n].blocks) <= 1 + t.sectors
    <3> DEFINE sk == SectorsFor(Blocks(Length(files, "KERNEL")))
               si == SectorsFor(Blocks(Length(files, "INITRD")))
    <3>1. t.sectors = 1 + sk + si - 1
      <4>1. t.sectors = FirstOf(files, "INITRD") + si - 1
        BY <1>1 DEF TableSectors
      <4>2. FirstOf(files, "INITRD") = 1 + sk
        BY DEF FirstOf
      <4> QED BY <4>1, <4>2
    <3>2. t.file[n].first = FirstOf(files, n) /\ t.file[n].blocks = Blocks(Length(files, n))
      BY <1>2
    <3>3. CASE n = "KERNEL"
      <4>1. t.file[n].first = 1 /\ SectorsFor(t.file[n].blocks) = sk
        BY <3>2, <3>3 DEF FirstOf
      <4> HIDE DEF sk, si
      <4>2. sk \in Nat /\ si \in Nat
        BY <2>2 DEF sk, si
      <4> QED BY <3>1, <4>1, <4>2
    <3>4. CASE n = "INITRD"
      <4>1. t.file[n].first = 1 + sk /\ SectorsFor(t.file[n].blocks) = si
        BY <3>2, <3>4 DEF FirstOf
      <4> HIDE DEF sk, si
      <4>2. sk \in Nat /\ si \in Nat
        BY <2>2 DEF sk, si
      <4> QED BY <3>1, <4>1, <4>2
    <3> QED BY <3>3, <3>4 DEF Names
  <2>4. Length(files, n) \in Nat /\ Length(files, n) + B - 1 < U32
    BY Counts DEF Counted
  <2>5. (Length(files, n) + B - 1) % U32 = Length(files, n) + B - 1
    BY <2>4
  <2>6. t.file[n].size - t.file[n].offset = Length(files, n)
    BY <1>2 DEF Length
  <2>7. t.file[n].blocks = DecodedBlocks(t.file[n])
    BY <1>2, <2>5, <2>6 DEF DecodedBlocks, Blocks
  <2> QED BY <2>1, <2>3, <2>7
<1>4. DecodeBlkSum(t)
  BY <1>1, <1>3 DEF DecodeBlkSum
<1>5. ASSUME NEW n \in Names, NEW k \in 0 .. Blocks(Length(files, n)) - 1
      PROVE  /\ k < t.file[n].blocks
             /\ t.table[t.file[n].first + k \div PerSector].slots[k % PerSector]
                   = ChainEntry(files[n].content, Length(files, n), k)
  <2>1. k < Blocks(Length(files, n))
    BY Counts
  <2>2. t.file[n].first = FirstOf(files, n) /\ t.file[n].blocks = Blocks(Length(files, n))
    BY <1>2
  <2>3. t.table[FirstOf(files, n) + k \div PerSector].slots = SlotsOf(files, FirstOf(files, n) + k \div PerSector)
    BY <1>1, Placed
  <2> QED BY <2>1, <2>2, <2>3, Placed
<1>6. \A n \in Names : Agrees(t.file[n], Checksum(files)[n])
  BY <1>2 DEF Agrees, Checksum, Entry
<1>7. VerifyBlkSum(t, Checksum(files), files)
  BY <1>2, <1>5, <1>6 DEF VerifyBlkSum
<1> QED BY <1>4, <1>7 DEF t

-----------------------------------------------------------------------------
(* The policy's part of the state: mode enforce with a manifest that was   *)
(* read keeps checking on until the end, and only it refuses.              *)
PolicyInv ==
    /\ why # "none" => pc = "dead"
    /\ loaded => sum # "none"
    /\ sum # "none" /\ mode = "enforce" /\ pc # "dead" => loaded
    /\ EnforceRunsOnlyRight
    /\ OnlyEnforceRefuses

(* A step that leaves the policy alone, and does not jump, keeps it. *)
LEMMA PolicyKept ==
    ASSUME PolicyInv, UNCHANGED policy, pc \notin {"dead", "jumped"}, pc' # "jumped",
           UNCHANGED why \/ (pc' = "dead" /\ why' \in {"read", "unfit"})
    PROVE  PolicyInv'
BY DEF PolicyInv, policy, EnforceRunsOnlyRight, OnlyEnforceRefuses

(* stage2_main starts with no manifest loaded and nothing in RAM. *)
LEMMA PolicyInit == Init => PolicyInv
BY DEF Init, PolicyInv, EnforceRunsOnlyRight, OnlyEnforceRefuses

(* The retry loops before the payload is loaded touch neither the manifest *)
(* nor RAM.                                                                *)
LEMMA AttemptKeepsPolicy ==
    ASSUME PolicyInv, NEW at, NEW then, at \notin {"dead", "jumped"}, then # "jumped", Attempt(at, then)
    PROVE  PolicyInv'
BY PolicyKept DEF Attempt, Failed, Goto, Die

(* Every step of stage2_main keeps what is known of manifest, mode and     *)
(* result.                                                                 *)
LEMMA PolicyStep == PolicyInv /\ [Next]_vars => PolicyInv'
<1> SUFFICES ASSUME PolicyInv, [Next]_vars PROVE PolicyInv'
  OBVIOUS
<1>1. CASE GptHeader
  <2>1. CASE Attempt("gpt", "partition")
    BY <2>1, AttemptKeepsPolicy
  <2>2. CASE pc = "gpt" /\ Goto("mbr") /\ UNCHANGED <<policy, loading>>
    BY <2>2, PolicyKept DEF Goto
  <2> QED BY <1>1, <2>1, <2>2 DEF GptHeader
<1>2. CASE FindPartition
  BY <1>2, AttemptKeepsPolicy DEF FindPartition
<1>3. CASE MbrPartition
  <2>1. CASE Attempt("mbr_find", "mount")
    BY <2>1, AttemptKeepsPolicy
  <2>2. CASE pc = "mbr" /\ Goto("mbr_find") /\ UNCHANGED <<policy, loading>>
    BY <2>2, PolicyKept DEF Goto
  <2> QED BY <1>3, <2>1, <2>2 DEF MbrPartition
<1>4. CASE Mount
  BY <1>4, AttemptKeepsPolicy DEF Mount
<1>5. CASE Open
  BY <1>5, AttemptKeepsPolicy DEF Open
<1>6. CASE Unfit
  BY <1>6, PolicyKept DEF Unfit, Die
<1>7. CASE ReadCmdline
  BY <1>7, PolicyKept DEF ReadCmdline, Goto, Die
<1>8. CASE ReadOptions
  <2>1. PICK s \in Manifests, line \in Modes, option \in Modes \cup {"none"}, fits \in BOOLEAN :
          LET m == IF option # "none" THEN option ELSE line
              c == CheckFile(fits, m, s # "none" /\ m # "off")
          IN /\ sum' = s
             /\ mode' = IF s = "none" THEN mode ELSE m
             /\ loaded' = c.loaded
             /\ IF c.dies THEN Die("integrity") /\ tries' = 0 ELSE Goto("header")
    BY <1>8 DEF ReadOptions
  <2> DEFINE m == IF option # "none" THEN option ELSE line
             l == s # "none" /\ m # "off"
  <2>2. loaded' <=> l /\ fits
    BY <2>1 DEF CheckFile
  <2>3. sum' = s /\ (s # "none" => mode' = m)
    BY <2>1
  <2>4. CASE l /\ ~fits /\ m = "enforce"
    BY <2>1, <2>2, <2>3, <2>4 DEF CheckFile, Die, PolicyInv, EnforceRunsOnlyRight, OnlyEnforceRefuses
  <2>5. CASE ~(l /\ ~fits /\ m = "enforce")
    <3>1. pc' = "header" /\ why' = why /\ pc = "options"
      BY <1>8, <2>1, <2>5 DEF CheckFile, Goto, ReadOptions
    <3> QED BY <2>2, <2>3, <2>5, <3>1 DEF PolicyInv, EnforceRunsOnlyRight, OnlyEnforceRefuses
  <2> QED BY <2>4, <2>5
<1>9. CASE Header
  BY <1>9, AttemptKeepsPolicy DEF Header
<1>10. CASE CheckOffset
  <2>1. PICK fits \in BOOLEAN :
          LET c == CheckFile(fits, mode, loaded)
          IN /\ loaded' = c.loaded
             /\ IF c.dies THEN Die("integrity") /\ tries' = 0 ELSE Goto("load")
    BY <1>10 DEF CheckOffset
  <2>2. loaded' <=> loaded /\ fits
    BY <2>1 DEF CheckFile
  <2>3. sum' = sum /\ mode' = mode /\ pc = "offset"
    BY <1>10 DEF CheckOffset
  <2>4. CASE loaded /\ ~fits /\ mode = "enforce"
    BY <2>1, <2>2, <2>3, <2>4 DEF CheckFile, Die, PolicyInv, EnforceRunsOnlyRight, OnlyEnforceRefuses
  <2>5. CASE ~(loaded /\ ~fits /\ mode = "enforce")
    <3>1. pc' = "load" /\ why' = why
      BY <2>1, <2>5 DEF CheckFile, Goto
    <3> QED BY <2>2, <2>3, <2>5, <3>1 DEF PolicyInv, EnforceRunsOnlyRight, OnlyEnforceRefuses
  <2> QED BY <2>4, <2>5
<1>11. CASE Deliver
  BY <1>11, PolicyKept DEF Deliver
<1>12. CASE LoadFailed
  BY <1>12, PolicyKept DEF LoadFailed, Die
<1>13. CASE Landed
  BY <1>13, PolicyKept DEF Landed
<1>14. CASE SkipBlock
  BY <1>14, PolicyKept DEF SkipBlock, Complete
<1>15. CASE CheckBlock
  BY <1>15, PolicyKept DEF CheckBlock, Complete
<1>16. CASE Reread
  BY <1>16, PolicyKept DEF Reread
<1>17. CASE Second
  BY <1>17, PolicyKept DEF Second
<1>18. CASE FileDone
  <2>1. CASE Checking /\ bad[file] # {} /\ mode = "enforce"
    BY <1>18, <2>1 DEF FileDone, Checking, Die, policy, PolicyInv, EnforceRunsOnlyRight, OnlyEnforceRefuses
  <2>2. CASE ~(Checking /\ bad[file] # {} /\ mode = "enforce")
    BY <1>18, <2>2, PolicyKept DEF FileDone, Goto
  <2> QED BY <2>1, <2>2
<1>19. CASE Verify
  <2>1. UNCHANGED <<sum, mode, loaded, ram>> /\ pc = "verify"
    BY <1>19 DEF Verify, policy, loading
  <2>2. CASE loaded /\ ~RamRight /\ mode = "enforce"
    BY <1>19, <2>1, <2>2 DEF Verify, Die, PolicyInv, EnforceRunsOnlyRight, OnlyEnforceRefuses
  <2>3. CASE ~(loaded /\ ~RamRight /\ mode = "enforce")
    <3>1. pc' = "jumped" /\ why' = why
      BY <1>19, <2>3 DEF Verify
    <3>2. RamRight' <=> RamRight
      BY <2>1 DEF RamRight
    <3> QED BY <2>1, <2>3, <3>1, <3>2 DEF PolicyInv, EnforceRunsOnlyRight, OnlyEnforceRefuses
  <2> QED BY <2>2, <2>3
<1>20. CASE Overwrite
  BY <1>20, PolicyKept DEF Overwrite
<1>21. CASE UNCHANGED vars
  BY <1>21 DEF vars, PolicyInv, EnforceRunsOnlyRight, OnlyEnforceRefuses, RamRight
<1> QED BY <1>1, <1>2, <1>3, <1>4, <1>5, <1>6, <1>7, <1>8, <1>9, <1>10, <1>11, <1>12, <1>13, <1>14,
           <1>15, <1>16, <1>17, <1>18, <1>19, <1>20, <1>21 DEF Next, Step

(* verify_loaded and the checks before it: mode enforce enters the kernel  *)
(* only with both files right in RAM.                                      *)
THEOREM EnforceIsSafe == Spec => []EnforceRunsOnlyRight
<1>1. PolicyInv => EnforceRunsOnlyRight
  BY DEF PolicyInv
<1> QED BY <1>1, PolicyInit, PolicyStep, PTL DEF Spec

(* Modes warn and off never refuse to boot over integrity. *)
THEOREM RefusalIsOptIn == Spec => []OnlyEnforceRefuses
<1>1. PolicyInv => OnlyEnforceRefuses
  BY DEF PolicyInv
<1> QED BY <1>1, PolicyInit, PolicyStep, PTL DEF Spec
-----------------------------------------------------------------------------
(* What the count of wrong blocks rests on: the blocks judged lie below    *)
(* what has been delivered, so nothing but a stray write touches them.     *)
RamShape == DOMAIN ram = Files /\ \A f \in Files : DOMAIN ram[f] = Units(f)

CountTypes ==
    /\ file \in Files /\ done \in Nat
    /\ next \in [Files -> Nat] /\ judged \in [Files -> SUBSET Nat] /\ bad \in [Files -> SUBSET Nat]

BelowDone ==
    /\ \A f \in Files : \A k \in judged[f] : k < next[f]
    /\ \A k \in judged[file] : End(file, k) <= done
    /\ file = "KERNEL" => judged["INITRD"] = {}
    /\ pc = "reread" => End(file, next[file]) <= done

CountInv == RamShape /\ CountTypes /\ BelowDone /\ CountsEveryWrong

USE SizeAssumption

(* Before loading no block has been judged. *)
LEMMA CountInit == Init => CountInv
<1> SUFFICES ASSUME Init PROVE CountInv
  OBVIOUS
<1>1. RamShape
  BY DEF Init, RamShape
<1>2. CountTypes
  BY DEF Init, CountTypes, Files
<1>3. BelowDone /\ CountsEveryWrong
  BY DEF Init, BelowDone, CountsEveryWrong, Files
<1> QED BY <1>1, <1>2, <1>3 DEF CountInv

(* A block ends where the next one starts, or earlier. *)
LEMMA BlocksInOrder ==
    ASSUME NEW f \in Files, NEW k \in Nat, NEW j \in Nat, k < j
    PROVE  End(f, k) <= j * B /\ End(f, k) \in Nat /\ Block(f, k) \subseteq Units(f)
<1>1. k * B \in Nat /\ (k + 1) * B \in Nat /\ j * B \in Nat /\ Size[f] \in Nat
  OBVIOUS
<1>2. (k + 1) * B <= j * B
  <2>1. j * B = (k + 1) * B + (j - (k + 1)) * B
    OBVIOUS
  <2>2. (j - (k + 1)) * B \in Nat
    <3>1. j - (k + 1) \in Nat
      OBVIOUS
    <3> QED BY <3>1
  <2> QED BY <1>1, <2>1, <2>2
<1>3. End(f, k) <= j * B /\ End(f, k) \in Nat /\ End(f, k) <= Size[f]
  BY <1>1, <1>2 DEF End
<1>4. Block(f, k) \subseteq Units(f)
  BY <1>1, <1>3 DEF Block, Units
<1> QED BY <1>3, <1>4

(* A read above every judged block leaves them as they are. *)
LEMMA PutKeeps ==
    ASSUME CountInv, NEW a \in Nat, NEW b \in Nat, Put(file, a, b),
           \A k \in judged[file] : End(file, k) <= a
    PROVE  /\ RamShape'
           /\ \A f \in Files : \A k \in judged[f] : \A u \in Block(f, k) : ram'[f][u] = ram[f][u]
<1> DEFINE New(val) == [u \in Units(file) |-> IF u \in a .. b - 1 THEN val[u] ELSE ram[file][u]]
<1>1. PICK val \in [a .. b - 1 -> {"right", "wrong"}] : ram' = [ram EXCEPT ![file] = New(val)]
  BY DEF Put
<1>2. file \in Files /\ DOMAIN ram = Files /\ \A f \in Files : judged[f] \subseteq Nat
  BY DEF CountInv, RamShape, CountTypes
<1>3. DOMAIN ram' = Files /\ ram'[file] = New(val) /\ \A f \in Files : f # file => ram'[f] = ram[f]
  BY <1>1, <1>2
<1>4. RamShape'
  BY <1>2, <1>3 DEF CountInv, RamShape
<1>5. ASSUME NEW k \in judged[file], NEW u \in Block(file, k)
      PROVE  ram'[file][u] = ram[file][u]
  <2>1. k \in Nat
    BY <1>2
  <2>2. Block(file, k) \subseteq Units(file) /\ End(file, k) \in Nat /\ k * B \in Nat
    BY <1>2, <2>1, BlocksInOrder
  <2>3. u \in Units(file) /\ u < End(file, k) /\ u \in Int
    BY <2>2 DEF Block
  <2>4. u \notin a .. b - 1
    BY <2>2, <2>3
  <2> QED BY <1>3, <2>3, <2>4
<1> QED BY <1>3, <1>4, <1>5

(* A step that judges nothing keeps the count. *)
LEMMA CountKept ==
    ASSUME CountInv, RamShape', CountTypes',
           UNCHANGED <<judged, bad>>, over \subseteq over',
           \A f \in Files : \A k \in judged[f] : \A u \in Block(f, k) :
               ram'[f][u] = ram[f][u] \/ <<f, u>> \in over'
    PROVE  CountsEveryWrong'
BY DEF CountInv, CountsEveryWrong

(* A block that was judged as it is in RAM now. *)
LEMMA JudgeCounts ==
    ASSUME CountInv, NEW k \in Nat, k = next[file], Judge(k), UNCHANGED <<file, done, over>>,
           End(file, k) <= done, RamShape', bad' \in [Files -> SUBSET Nat],
           \A f \in Files : \A j \in judged[f] : \A u \in Block(f, j) : ram'[f][u] = ram[f][u],
           \A f \in Files : bad[f] \subseteq bad'[f],
           k \in bad'[file] \/ \A u \in Block(file, k) : ram'[file][u] = "right",
           pc' # "reread"
    PROVE  CountInv'
<1>1. file \in Files /\ judged' = [judged EXCEPT ![file] = judged[file] \cup {k}]
      /\ next' = [next EXCEPT ![file] = k + 1]
  BY DEF CountInv, CountTypes, Judge
<1>2. CountTypes'
  BY <1>1 DEF CountInv, CountTypes
<1>3. BelowDone'
  BY <1>1 DEF CountInv, CountTypes, BelowDone, Files
<1>4. CountsEveryWrong'
  <2> SUFFICES ASSUME NEW f \in Files, NEW j \in judged'[f] \ bad'[f], NEW u \in Block(f, j)
               PROVE  ram'[f][u] = "right" \/ <<f, u>> \in over
    BY DEF CountsEveryWrong
  <2>1. CASE f = file /\ j = k
    BY <2>1
  <2>2. CASE ~(f = file /\ j = k)
    <3>1. j \in judged[f] \ bad[f]
      BY <1>1, <2>2 DEF CountInv, CountTypes
    <3> QED BY <3>1 DEF CountInv, CountsEveryWrong
  <2> QED BY <2>1, <2>2
<1> QED BY <1>2, <1>3, <1>4 DEF CountInv

(* A step that neither judges a block nor touches RAM keeps it all. *)
LEMMA CountIdle ==
    ASSUME CountInv, UNCHANGED <<file, done, ram, judged, bad, over>>, pc' = "reread" => pc = "reread",
           next' \in [Files -> Nat], \A f \in Files : next[f] <= next'[f],
           pc' = "reread" => next' = next
    PROVE  CountInv'
<1>1. RamShape' /\ CountTypes'
  BY DEF CountInv, RamShape, CountTypes
<1>2. BelowDone'
  BY DEF CountInv, CountTypes, BelowDone
<1>3. CountsEveryWrong'
  BY DEF CountInv, CountsEveryWrong
<1> QED BY <1>1, <1>2, <1>3 DEF CountInv

(* load_progress delivers above every block judged so far. *)
LEMMA DeliverCounts == CountInv /\ Deliver => CountInv'
<1> SUFFICES ASSUME CountInv, Deliver PROVE CountInv'
  OBVIOUS
<1>1. PICK n \in 1 .. Batch : Put(file, done, done + n) /\ done' = done + n
  BY DEF Deliver
<1>2. UNCHANGED <<file, next, judged, bad, over>> /\ pc' # "reread"
  BY DEF Deliver, verifier
<1>3. done \in Nat /\ done' \in Nat /\ done <= done'
  BY <1>1 DEF CountInv, CountTypes
<1>4. RamShape' /\ \A f \in Files : \A k \in judged[f] : \A u \in Block(f, k) : ram'[f][u] = ram[f][u]
  BY <1>1, <1>3, PutKeeps DEF CountInv, BelowDone
<1>5. CountTypes'
  BY <1>2, <1>3 DEF CountInv, CountTypes
<1>6. BelowDone'
  <2>1. \A k \in judged[file] : End(file, k) <= done'
    <3>1. ASSUME NEW k \in judged[file] PROVE End(file, k) \in Nat /\ k \in Nat /\ k + 1 \in Nat
      BY BlocksInOrder DEF CountInv, CountTypes
    <3> QED BY <1>3, <3>1 DEF CountInv, BelowDone
  <2> QED BY <1>2, <2>1 DEF CountInv, BelowDone
<1>7. CountsEveryWrong'
  BY <1>2, <1>4, <1>5, CountKept
<1> QED BY <1>4, <1>5, <1>6, <1>7 DEF CountInv

(* check_block's re-reads and the second source write to the block that is *)
(* being judged only.                                                      *)
LEMMA BlockBelow ==
    ASSUME CountInv
    PROVE  /\ next[file] \in Nat /\ file \in Files /\ next[file] * B \in Nat
           /\ \A k \in judged[file] : End(file, k) <= next[file] * B
           /\ End(file, next[file]) \in Nat
<1>1. next[file] \in Nat /\ file \in Files /\ judged[file] \subseteq Nat
  BY DEF CountInv, CountTypes
<1>2. \A k \in judged[file] : End(file, k) <= next[file] * B
  BY <1>1, BlocksInOrder DEF CountInv, BelowDone
<1>3. next[file] + 1 \in Nat /\ next[file] < next[file] + 1
  BY <1>1
<1>4. End(file, next[file]) \in Nat
  BY <1>1, <1>3, BlocksInOrder
<1> QED BY <1>1, <1>2, <1>4

(* check_block judges a block right only if RAM holds what the table was   *)
(* made for.                                                               *)
LEMMA CheckCounts == CountInv /\ CheckBlock => CountInv'
<1> SUFFICES ASSUME CountInv, CheckBlock PROVE CountInv'
  OBVIOUS
<1> DEFINE k == next[file]
<1>1. PICK honest \in BOOLEAN :
        IF chain /\ honest /\ BlockRight(file, k)
        THEN Judge(k) /\ UNCHANGED <<pc, bad, chain, try, cap0>>
        ELSE IF RereadsLeft(file)
        THEN pc' = "reread" /\ try' = 1 /\ cap0' = cap /\ UNCHANGED <<next, judged, bad, chain>>
        ELSE /\ Judge(k) /\ bad' = [bad EXCEPT ![file] = bad[file] \cup {k}]
             /\ Resume(k, honest) /\ UNCHANGED <<pc, try, cap0>>
  BY DEF CheckBlock
<1>2. UNCHANGED <<file, done, ram, over>> /\ pc = "check" /\ End(file, k) <= done
  BY BlockBelow DEF CheckBlock, Complete, CountInv, CountTypes
<1>3. k \in Nat /\ file \in Files /\ RamShape'
  BY <1>2 DEF CountInv, CountTypes, RamShape
<1>4. CASE Judge(k) /\ UNCHANGED <<pc, bad>> /\ BlockRight(file, k)
  BY <1>2, <1>3, <1>4, JudgeCounts DEF BlockRight, CountInv, CountTypes
<1>5. CASE pc' = "reread" /\ UNCHANGED <<next, judged, bad>>
  BY <1>2, <1>3, <1>5 DEF CountInv, CountTypes, BelowDone, CountsEveryWrong
<1>6. CASE Judge(k) /\ bad' = [bad EXCEPT ![file] = bad[file] \cup {k}] /\ UNCHANGED pc
  <2>1. bad' \in [Files -> SUBSET Nat] /\ k \in bad'[file] /\ \A f \in Files : bad[f] \subseteq bad'[f]
    BY <1>3, <1>6 DEF CountInv, CountTypes
  <2> QED BY <1>2, <1>3, <1>6, <2>1, JudgeCounts
<1> QED BY <1>1, <1>4, <1>5, <1>6

(* What a (re-)read of the block under judgement does to the count: judged *)
(* right, judged bad, or not judged yet.                                   *)
LEMMA BlockReadCounts ==
    ASSUME CountInv, pc = "reread", NEW b \in Nat, Put(file, next[file] * B, b),
           UNCHANGED <<file, done, over>>,
           \/ UNCHANGED <<pc, next, judged, bad>>
           \/ /\ Judge(next[file]) /\ pc' # "reread" /\ UNCHANGED bad
              /\ \A u \in Block(file, next[file]) : ram'[file][u] = "right"
           \/ /\ Judge(next[file]) /\ pc' # "reread"
              /\ bad' = [bad EXCEPT ![file] = bad[file] \cup {next[file]}]
    PROVE  CountInv'
<1> DEFINE k == next[file]
<1>1. k \in Nat /\ file \in Files /\ k * B \in Nat /\ \A j \in judged[file] : End(file, j) <= k * B
  BY BlockBelow
<1>2. RamShape' /\ \A f \in Files : \A j \in judged[f] : \A u \in Block(f, j) : ram'[f][u] = ram[f][u]
  BY <1>1, PutKeeps
<1>3. End(file, k) <= done
  BY DEF CountInv, BelowDone
<1>4. CASE UNCHANGED <<pc, next, judged, bad>>
  <2>1. CountTypes' /\ BelowDone'
    BY <1>4 DEF CountInv, CountTypes, BelowDone
  <2> QED BY <1>2, <1>4, <2>1, CountKept DEF CountInv
<1>5. CASE /\ Judge(k) /\ pc' # "reread" /\ UNCHANGED bad
           /\ \A u \in Block(file, k) : ram'[file][u] = "right"
  BY <1>1, <1>2, <1>3, <1>5, JudgeCounts DEF CountInv, CountTypes
<1>6. CASE Judge(k) /\ pc' # "reread" /\ bad' = [bad EXCEPT ![file] = bad[file] \cup {k}]
  <2>1. bad' \in [Files -> SUBSET Nat] /\ k \in bad'[file] /\ \A f \in Files : bad[f] \subseteq bad'[f]
    BY <1>1, <1>6 DEF CountInv, CountTypes
  <2> QED BY <1>1, <1>2, <1>3, <1>6, <2>1, JudgeCounts
<1> QED BY <1>4, <1>5, <1>6

(* A re-read by check_block ends in a block that is right, or counted, or  *)
(* still under judgement.                                                  *)
LEMMA RereadCounts == CountInv /\ Reread => CountInv'
<1> SUFFICES ASSUME CountInv, Reread PROVE CountInv'
  OBVIOUS
<1> DEFINE k == next[file]
<1>1. pc = "reread" /\ UNCHANGED <<file, done, bad, over>>
  BY DEF Reread
<1>2. End(file, k) \in Nat /\ k * B \in Nat
  BY BlockBelow
<1>3. CASE /\ Put(file, k * B, End(file, k))
           /\ IF Repaired(k)
              THEN Judge(k) /\ pc' = "check"
              ELSE UNCHANGED <<pc, next, judged>>
  BY <1>1, <1>2, <1>3, BlockReadCounts DEF Repaired
<1>4. ASSUME NEW n \in 0 .. B, Put(file, k * B, k * B + n), UNCHANGED <<pc, next, judged>>
      PROVE  CountInv'
  <2>1. k * B + n \in Nat
    BY <1>2
  <2> QED BY <1>1, <1>4, <2>1, BlockReadCounts
<1> QED BY <1>3, <1>4 DEF Reread

(* The second source of hook_second heals the block or leaves it counted. *)
LEMMA SecondCounts == CountInv /\ Second => CountInv'
<1> SUFFICES ASSUME CountInv, Second PROVE CountInv'
  OBVIOUS
<1> DEFINE k == next[file]
<1>1. pc = "reread" /\ pc' # "reread" /\ UNCHANGED <<file, done, over>>
  BY DEF Second
<1>2. End(file, k) \in Nat /\ k * B \in Nat
  BY BlockBelow
<1>3. CASE /\ Put(file, k * B, End(file, k))
           /\ IF Repaired(k) THEN Judge(k) /\ UNCHANGED bad ELSE GiveUp(k)
  BY <1>1, <1>2, <1>3, BlockReadCounts DEF Repaired, GiveUp
<1>4. ASSUME NEW n \in 0 .. B, Put(file, k * B, k * B + n), GiveUp(k)
      PROVE  CountInv'
  <2>1. k * B + n \in Nat
    BY <1>2
  <2> QED BY <1>1, <1>4, <2>1, BlockReadCounts DEF GiveUp
<1> QED BY <1>3, <1>4 DEF Second

(* A stray write goes to the history of overwritten units, which the count *)
(* does not speak of.                                                      *)
LEMMA OverwriteCounts == CountInv /\ Overwrite => CountInv'
<1> SUFFICES ASSUME CountInv, Overwrite PROVE CountInv'
  OBVIOUS
<1>1. PICK f \in Files : \E u \in Units(f) :
        /\ ram' = [ram EXCEPT ![f] = [ram[f] EXCEPT ![u] = "wrong"]]
        /\ over' = over \cup {<<f, u>>}
  BY DEF Overwrite
<1>2. PICK u \in Units(f) : /\ ram' = [ram EXCEPT ![f] = [ram[f] EXCEPT ![u] = "wrong"]]
                            /\ over' = over \cup {<<f, u>>}
  BY <1>1
<1>3. UNCHANGED <<pc, file, done, next, judged, bad>>
  BY DEF Overwrite, verifier
<1>4. RamShape'
  BY <1>2 DEF CountInv, RamShape
<1>5. CountTypes' /\ BelowDone'
  BY <1>3 DEF CountInv, CountTypes, BelowDone
<1>6. \A g \in Files : \A k \in judged[g] : \A v \in Block(g, k) : ram'[g][v] = ram[g][v] \/ <<g, v>> \in over'
  <2> SUFFICES ASSUME NEW g \in Files, NEW k \in judged[g], NEW v \in Block(g, k)
               PROVE  ram'[g][v] = ram[g][v] \/ <<g, v>> \in over'
    OBVIOUS
  <2>1. k \in Nat /\ k + 1 \in Nat /\ k < k + 1
    BY DEF CountInv, CountTypes
  <2>2. v \in Units(g)
    BY <2>1, BlocksInOrder
  <2> QED BY <1>2, <2>2 DEF CountInv, RamShape
<1>7. CountsEveryWrong'
  BY <1>2, <1>3, <1>4, <1>5, <1>6, CountKept
<1> QED BY <1>4, <1>5, <1>7 DEF CountInv

(* When load_file goes on to the next file the blocks of the first stay    *)
(* judged.                                                                 *)
LEMMA FileDoneCounts == CountInv /\ FileDone => CountInv'
<1> SUFFICES ASSUME CountInv, FileDone PROVE CountInv'
  OBVIOUS
<1>1. UNCHANGED <<ram, next, judged, bad, over>> /\ pc' # "reread"
  BY DEF FileDone, Goto, Die
<1>2. CASE UNCHANGED <<file, done>>
  BY <1>1, <1>2, CountIdle DEF CountInv, CountTypes
<1>3. CASE file = "KERNEL" /\ file' = "INITRD" /\ done' = 0
  <2>1. RamShape' /\ CountTypes'
    BY <1>1, <1>3 DEF CountInv, RamShape, CountTypes, Files
  <2>2. BelowDone'
    BY <1>1, <1>3 DEF CountInv, BelowDone
  <2>3. CountsEveryWrong'
    BY <1>1 DEF CountInv, CountsEveryWrong
  <2> QED BY <2>1, <2>2, <2>3 DEF CountInv
<1> QED BY <1>2, <1>3 DEF FileDone

(* Every step of stage2_main keeps the count of wrong blocks complete. *)
LEMMA CountStep == CountInv /\ [Next]_vars => CountInv'
<1> SUFFICES ASSUME CountInv, [Next]_vars PROVE CountInv'
  OBVIOUS
<1>1. next \in [Files -> Nat] /\ \A f \in Files : next[f] <= next[f]
  BY DEF CountInv, CountTypes
<1>2. ASSUME UNCHANGED loading, pc' # "reread" PROVE CountInv'
  BY <1>1, <1>2, CountIdle DEF loading, verifier
<1>3. ASSUME NEW at, NEW then, at # "reread", then # "reread", Attempt(at, then) PROVE CountInv'
  BY <1>2, <1>3 DEF Attempt, Failed, Goto, Die
<1>4. CASE GptHeader \/ FindPartition \/ MbrPartition \/ Mount \/ Open \/ Header
  BY <1>2, <1>3, <1>4 DEF GptHeader, FindPartition, MbrPartition, Mount, Open, Header, Goto
<1>5. CASE Unfit \/ ReadCmdline \/ ReadOptions \/ CheckOffset
  BY <1>2, <1>5 DEF Unfit, ReadCmdline, ReadOptions, CheckOffset, Goto, Die
<1>6. CASE Landed \/ Verify
  BY <1>2, <1>6 DEF Landed, Verify, Die
<1>7. CASE LoadFailed
  BY <1>1, <1>7, CountIdle DEF LoadFailed, Die, verifier
<1>8. CASE SkipBlock
  <2>1. next' \in [Files -> Nat] /\ \A f \in Files : next[f] <= next'[f]
    BY <1>1, <1>8 DEF SkipBlock, CountInv, CountTypes
  <2> QED BY <1>8, <2>1, CountIdle DEF SkipBlock, Complete
<1>9. CASE UNCHANGED vars
  BY <1>1, <1>9, CountIdle DEF vars
<1> QED BY <1>4, <1>5, <1>6, <1>7, <1>8, <1>9, DeliverCounts, CheckCounts, RereadCounts, SecondCounts,
           OverwriteCounts, FileDoneCounts DEF Next, Step

(* check_block: every judged block that is wrong in RAM is counted, for    *)
(* files and blocks of any size.                                           *)
THEOREM WrongIsCounted == Spec => []CountsEveryWrong
<1>1. CountInv => CountsEveryWrong
  BY DEF CountInv
<1> QED BY <1>1, CountInit, CountStep, PTL DEF Spec

=============================================================================
