------------------------------ MODULE FatRead ------------------------------
(***************************************************************************)
(* The FAT32 reader of the BIOS loader (bios/fat.c): the cluster-chain     *)
(* cursor with its half-speed second pointer, the two one-sector caches of *)
(* the FAT, the directory search of fat_open and the batched copy of       *)
(* fat_read_range; and the two ways stage2 calls them again after a        *)
(* failure (fat_open_retry, load_file of bios/stage2_main.c).              *)
(*                                                                         *)
(* The reader is sequential.  What varies is the volume, and what the BIOS *)
(* does with a read: fail it, or report success for a sector of another    *)
(* place.  A byte is known by its address in the data area, so that two    *)
(* different bytes are never equal by chance.                              *)
(***************************************************************************)
EXTENDS Integers, Sequences, FiniteSets

CONSTANTS N,         \* total_clusters
          Bps,       \* bytes_per_sector
          PerFat,    \* FAT entries of a sector
          Batch,     \* FAT_IO_BATCH_SECTORS
          Attempts,  \* GPT_RETRY_ATTEMPTS
          Calls      \* what is asked of which volume, and how the disk behaves

Clusters == 2 .. N + 1
End == N + 2                       \* any entry that is no data cluster
Entries == Clusters \cup {End}
Marks == {"more", "match", "other", "stop"}

(* A call: op on a file or directory that starts at first; mark is what    *)
(* the entries of a directory's cluster come to: the name is there with    *)
(* the right type or the wrong one, the free rest of the directory begins, *)
(* or none of these.  Up to faults reads fail or lie, and the progress     *)
(* callback reads from the volume itself if nested.                        *)
CallTypes == [op : {"open", "read"}, fat : [Clusters -> Entries], mark : [Clusters -> Marks],
              first : Entries, size : Nat, spc : Nat \ {0}, offset : Nat, length : Nat,
              faults : Nat, nested : BOOLEAN]

ASSUME VolumeAssumption == N \in Nat \ {0} /\ Bps \in Nat \ {0} /\ PerFat \in Nat \ {0}
ASSUME ReaderAssumption == Batch \in Nat \ {0} /\ Attempts \in Nat \ {0}
ASSUME CallAssumption == \A c \in Calls : c \in CallTypes

VARIABLES call,                     \* the operation and its arguments
          pc, err, tries,           \* err: g_fat_error.reason
          hare, tortoise, hops, due, \* struct fat_chain_walk
          todo,                     \* hops still to make before going on
          remaining, inCluster, inSector, \* remaining, sector_in_cluster, sector_off
          run, probe,               \* run_sectors, probe_cluster
          slot, slot2,              \* g_fat_table_cache, g_fat_table_cache2
          buf, dst,                 \* g_fat_io_buf; the bytes delivered
          faults, lied, since       \* history: faults so far, wrong FAT sectors
                                    \* in use, bytes delivered when the caches
                                    \* were last dropped

walk == <<hare, tortoise, hops, due>>
place == <<remaining, inCluster, inSector>>
caches == <<slot, slot2>>
history == <<faults, lied, since>>
vars == <<call, pc, err, tries, walk, todo, place, run, probe, caches, buf, dst, history>>

ClusterBytes == call.spc * Bps
Least(a, b) == IF a < b THEN a ELSE b
InRange(c) == c >= 2 /\ c < N + 2
-----------------------------------------------------------------------------
(* Reads of the FAT.  A slot holds the sector it was asked for (lba) and   *)
(* what the disk delivered for it (holds), the same unless the disk lied.  *)
Empty == [lba |-> -1, holds |-> -1]
FatSector(c) == c \div PerFat
FatSectors == 0 .. FatSector(N + 1)
Found(s, c) == LET e == (s.holds * PerFat) + (c % PerFat)
               IN IF e \in Clusters THEN call.fat[e] ELSE End

(* fat_get_next_cluster_slot: every way it can end, with the slot it       *)
(* leaves, the entry (0: the read failed) and the fault it took.           *)
Lookup(s, c) ==
    IF s.lba = FatSector(c)
    THEN {[slot |-> s, entry |-> Found(s, c), fault |-> 0]}
    ELSE LET Delivered(h) == [lba |-> FatSector(c), holds |-> h]
             Ok(h, f) == [slot |-> Delivered(h), entry |-> Found(Delivered(h), c), fault |-> f]
         IN {Ok(FatSector(c), 0)} \cup
            (IF faults < call.faults
             THEN {[slot |-> Empty, entry |-> 0, fault |-> 1]} \cup
                  {Ok(h, 1) : h \in FatSectors \ {FatSector(c)}}
             ELSE {})

Lies(r) == r.entry # 0 /\ r.fault = 1
Took(r) == faults' = faults + r.fault /\ lied' = (lied \/ Lies(r)) /\ UNCHANGED since

Fail(reason) == pc' = "failed" /\ err' = reason
Goto(at) == pc' = at /\ UNCHANGED err
-----------------------------------------------------------------------------
(* fat_chain_walk_init *)
WalkFrom(c) == hare' = c /\ tortoise' = c /\ hops' = 0 /\ due' = TRUE

(* Mutant: a resumed read starts at the first byte again. *)
DoneNothing == 0

(* lc->done: the bytes load_progress has reported. *)
Done == Len(dst)

(* The checks at the top of fat_read_range, and the first cluster.         *)
ReadCall ==
    /\ pc = "call" /\ call.op = "read"
    /\ LET off == call.offset + Done
           len == call.length - Done
       IN IF off > call.size \/ len > call.size - off
          THEN Fail("RANGE") /\ UNCHANGED <<walk, todo, place>>
          ELSE IF len = 0
          THEN pc' = "done" /\ err' = "NONE" /\ UNCHANGED <<walk, todo, place>>
          ELSE IF ~InRange(call.first)
          THEN Fail("START_CLUSTER") /\ UNCHANGED <<walk, todo, place>>
          ELSE /\ pc' = "hop" /\ err' = "NONE"
               /\ WalkFrom(call.first)
               /\ todo' = off \div ClusterBytes
               /\ inCluster' = (off % ClusterBytes) \div Bps
               /\ inSector' = off % Bps
               /\ remaining' = len
    /\ UNCHANGED <<call, tries, run, probe, caches, buf, dst, history>>

OpenCall ==
    /\ pc = "call" /\ call.op = "open"
    /\ IF InRange(call.first)
       THEN Goto("scan") /\ WalkFrom(call.first)
       ELSE pc' = "failed" /\ UNCHANGED <<err, walk>>
    /\ UNCHANGED <<call, tries, todo, place, run, probe, caches, buf, dst, history>>

Matches(m) == m = "match"

(* fat_find_in_dir, one cluster of the directory. *)
Scan ==
    /\ pc = "scan"
    /\ \/ /\ call.mark[hare] = "more" /\ Goto("hop") /\ todo' = 1 /\ UNCHANGED faults
       \/ /\ Matches(call.mark[hare]) /\ Goto("done") /\ UNCHANGED <<todo, faults>>
       \/ /\ call.mark[hare] # "more" /\ ~Matches(call.mark[hare])
          /\ pc' = "failed" /\ UNCHANGED <<err, todo, faults>>
       \/ /\ faults < call.faults /\ faults' = faults + 1        \* the sector does not read
          /\ pc' = "failed" /\ UNCHANGED <<err, todo>>
    /\ UNCHANGED <<call, tries, walk, place, run, probe, caches, buf, dst, lied, since>>
-----------------------------------------------------------------------------
(* fat_chain_advance, the hare; the tortoise moves on every second hop. *)
Hop ==
    /\ pc = "hop" /\ todo > 0 /\ hops' = hops + 1
    /\ IF hops > N
       THEN Fail("CHAIN_LONG") /\ UNCHANGED <<hare, due, slot, faults, lied, since>>
       ELSE \E r \in Lookup(slot, hare) :
              /\ slot' = r.slot /\ Took(r)
              /\ IF r.entry = 0
                 THEN Fail("FAT_READ") /\ UNCHANGED <<hare, due>>
                 ELSE IF ~InRange(r.entry)
                 THEN Fail("CHAIN_END") /\ UNCHANGED <<hare, due>>
                 ELSE hare' = r.entry /\ due' = ~due /\ Goto(IF due' THEN "tortoise" ELSE "hopped")
    /\ UNCHANGED <<call, tries, tortoise, todo, place, run, probe, slot2, buf, dst>>

Meet(t) == t = hare

Tortoise ==
    /\ pc = "tortoise"
    /\ \E r \in Lookup(slot2, tortoise) :
         /\ slot2' = r.slot /\ Took(r)
         /\ IF r.entry = 0
            THEN Fail("FAT_READ") /\ UNCHANGED tortoise
            ELSE IF ~InRange(r.entry)
            THEN Fail("CHAIN_END") /\ UNCHANGED tortoise
            ELSE /\ tortoise' = r.entry
                 /\ IF Meet(r.entry) THEN Fail("CHAIN_CYCLE") ELSE Goto("hopped")
    /\ UNCHANGED <<call, tries, hare, hops, due, todo, place, run, probe, slot, buf, dst>>

(* Mutant: the cursor starts anew after every hop. *)
HoppedFresh ==
    /\ pc = "hopped" /\ Goto("hop") /\ todo' = todo - 1 /\ WalkFrom(hare)
    /\ UNCHANGED <<call, tries, place, run, probe, caches, buf, dst, history>>

(* One hop made: the next of this loop, or what the caller does after it. *)
Hopped ==
    /\ pc = "hopped" /\ Goto("hop") /\ todo' = todo - 1
    /\ UNCHANGED <<call, tries, walk, place, run, probe, caches, buf, dst, history>>

(* Every hop made: the directory's next cluster, the next run, or the end. *)
Arrived ==
    /\ pc = "hop" /\ todo = 0
    /\ \/ call.op = "open" /\ Goto("scan") /\ UNCHANGED <<run, probe>>
       \/ call.op = "read" /\ remaining = 0 /\ Goto("done") /\ UNCHANGED <<run, probe>>
       \/ /\ call.op = "read" /\ remaining > 0 /\ Goto("probe")
          /\ run' = call.spc - inCluster /\ probe' = hare
    /\ UNCHANGED <<call, tries, walk, todo, place, caches, buf, dst, history>>
-----------------------------------------------------------------------------
(* The loop of fat_read_range.  First the run: the rest of this cluster    *)
(* and the whole clusters that follow it on disk.                          *)
Adjoins(next) == next = probe + 1 /\ InRange(next)

Probe ==
    /\ pc = "probe"
    /\ IF run + call.spc <= Batch
       THEN \E r \in Lookup(slot, probe) :
              /\ slot' = r.slot /\ Took(r)
              /\ IF r.entry # 0 /\ Adjoins(r.entry)
                 THEN run' = run + call.spc /\ probe' = r.entry /\ Goto("probe")
                 ELSE Goto("read") /\ UNCHANGED <<run, probe>>
       ELSE Goto("read") /\ UNCHANGED <<run, probe, slot, faults, lied, since>>
    /\ UNCHANGED <<call, tries, walk, todo, place, slot2, buf, dst>>

RunSectors == Least(run, Batch)
RunBytes == Least(remaining, RunSectors * Bps - inSector)
SectorsNeeded == (inSector + RunBytes + Bps - 1) \div Bps
RunAt == ((hare - 2) * call.spc + inCluster) * Bps

(* fat_read_sectors into g_fat_io_buf; a run the BIOS fails ends the call. *)
ReadRun ==
    /\ pc = "read"
    /\ \/ /\ buf' = [i \in 1 .. SectorsNeeded * Bps |-> RunAt + i - 1]
          /\ Goto("copy") /\ UNCHANGED faults
       \/ /\ faults < call.faults /\ faults' = faults + 1
          /\ Fail("DATA_READ") /\ UNCHANGED buf
    /\ UNCHANGED <<call, tries, walk, todo, place, run, probe, caches, dst, lied, since>>

Copied == dst' = dst \o SubSeq(buf, inSector + 1, inSector + RunBytes)

Copy ==
    /\ pc = "copy" /\ Copied /\ Goto("callback")
    /\ UNCHANGED <<call, tries, walk, todo, place, run, probe, caches, buf, history>>

Consumed == inCluster + SectorsNeeded

(* The progress callback, which may read this volume (a block again, a     *)
(* sector of BLKSUM) through the same buffer and the same caches, and then *)
(* the bookkeeping after it.                                               *)
SlotStates == {Empty} \cup [lba : FatSectors, holds : FatSectors]
Wrong(s) == s.lba # s.holds

Callback ==
    /\ pc = "callback"
    /\ remaining' = remaining - RunBytes
    /\ inCluster' = Consumed % call.spc
    /\ inSector' = 0
    /\ todo' = IF remaining' = 0 THEN 0 ELSE Consumed \div call.spc
    /\ Goto("hop")
    /\ \/ UNCHANGED <<caches, buf, faults, lied>>
       \/ /\ call.nested /\ buf' = <<>>
          /\ slot' \in SlotStates /\ slot2' \in SlotStates
          /\ faults' = faults + Cardinality({s \in {slot', slot2'} \ {slot, slot2} : Wrong(s)})
          /\ faults' <= call.faults
          /\ lied' = (lied \/ Wrong(slot') \/ Wrong(slot2'))
    /\ UNCHANGED <<call, tries, walk, run, probe, dst, since>>
-----------------------------------------------------------------------------
(* Mutant: only the hare's slot is dropped. *)
InvalidateFirst == slot' = Empty /\ UNCHANGED slot2

(* fat_cache_invalidate *)
Invalidate == slot' = Empty /\ slot2' = Empty

(* load_file: again from the first byte not delivered, caches dropped. *)
Resume ==
    /\ pc = "failed" /\ call.op = "read"
    /\ tries' = tries + 1
    /\ IF tries + 1 >= Attempts
       THEN Goto("dead") /\ UNCHANGED <<caches, lied, since>>
       ELSE Goto("call") /\ Invalidate /\ lied' = FALSE /\ since' = Len(dst)
    /\ UNCHANGED <<call, walk, todo, place, run, probe, buf, dst, faults>>

(* fat_open_retry: again at once. *)
Reopen ==
    /\ pc = "failed" /\ call.op = "open"
    /\ tries' = tries + 1
    /\ Goto(IF tries + 1 >= Attempts THEN "dead" ELSE "call")
    /\ UNCHANGED <<call, walk, todo, place, run, probe, caches, buf, dst, history>>

Init ==
    /\ call \in Calls /\ pc = "call" /\ err = "NONE" /\ tries = 0
    /\ hare = 2 /\ tortoise = 2 /\ hops = 0 /\ due = TRUE /\ todo = 0
    /\ remaining = 0 /\ inCluster = 0 /\ inSector = 0 /\ run = 0 /\ probe = 2
    /\ slot = Empty /\ slot2 = Empty /\ buf = <<>> /\ dst = <<>>
    /\ faults = 0 /\ lied = FALSE /\ since = 0

Next == \/ ReadCall \/ OpenCall \/ Scan \/ Hop \/ Tortoise \/ Hopped \/ Arrived
        \/ Probe \/ ReadRun \/ Copy \/ Callback \/ Resume \/ Reopen

Spec == Init /\ [][Next]_vars
(* The loader is one thread that nothing else stops. *)
FairSpec == Spec /\ WF_vars(Next)
-----------------------------------------------------------------------------
(* The volume as a reader of the FAT specification sees it: the cluster    *)
(* after k links, End once the chain has ended.                            *)
Chain == LET c[k \in 0 .. 2 * N + 4] ==
               IF k = 0 THEN call.first
               ELSE LET p == c[k - 1] IN IF p \in Clusters THEN call.fat[p] ELSE End
         IN c
FileByte(i) == (Chain[i \div ClusterBytes] - 2) * ClusterBytes + (i % ClusterBytes)

(* The links a call needs: to the end of the range, or to the cluster of   *)
(* the directory that settles the search.                                  *)
Links == (call.offset + call.length - 1) \div ClusterBytes
Distinct(n) == \A j, k \in 0 .. n : j < k => Chain[j] # Chain[k]
Sound(n) == n <= N /\ Distinct(n) /\ \A k \in 0 .. n : Chain[k] \in Clusters
Settles == {k \in 0 .. N + 1 : Chain[k] \in Clusters /\ call.mark[Chain[k]] # "more"}
InDirectory == \E k \in Settles : /\ call.mark[Chain[k]] = "match"
                                  /\ \A j \in Settles : j >= k

(* What fat_read_range has put in place since the caches were last dropped *)
(* is the file's own bytes in order, at every step and whatever fails      *)
(* later: load_file resumes at the first byte not delivered, so a byte of  *)
(* an abandoned call is never read again.  Wrong sectors of the FAT are    *)
(* the only exception.  And a success is complete: the whole range is in   *)
(* place, or the name that fat_open found is in the directory.             *)
DeliversFile ==
    /\ ~lied => \A i \in since + 1 .. Len(dst) : dst[i] = FileByte(call.offset + i - 1)
    /\ pc = "done" => IF call.op = "read" THEN Len(dst) = call.length
                      ELSE lied \/ InDirectory

(* A chain is given up (CHAIN_END, CHAIN_CYCLE, CHAIN_LONG) only if it     *)
(* does end, loop or leave the volume within the range asked for, or if a  *)
(* FAT sector in use was delivered wrong: no sound file is refused, and    *)
(* what a dropped cache held no longer counts.  Nor does a search miss a   *)
(* name that is there while no read goes wrong.                            *)
RefusalExplained ==
    pc = "failed" =>
       /\ (call.op = "read" /\ ~lied /\ err \in {"CHAIN_END", "CHAIN_CYCLE", "CHAIN_LONG"})
             => ~Sound(Links)
       /\ (call.op = "open" /\ faults = 0) => ~InDirectory

(* Every call ends: fat_open too, which no byte count bounds, on every     *)
(* directory, the ones that loop included.                                 *)
Ends == <>(pc \in {"done", "dead"})
=============================================================================
