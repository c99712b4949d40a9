---------------------------- MODULE PayloadLoad ----------------------------
(***************************************************************************)
(* stage2 of the BIOS loader from the partition table to the jump into the *)
(* kernel (bios/stage2_main.c), with the check of every block as it lands  *)
(* (bios/blkverify.c) and the policy of CHECKSUM (bios/payload_sum.c).     *)
(*                                                                         *)
(* The BIOS may fail a read and may report success for wrong data.  A unit *)
(* of a file in RAM is "right" when it is what CHECKSUM was written for,   *)
(* so a payload replaced without its manifest is one of which every read   *)
(* is wrong.  A block is B units, the last one of a file may be shorter.   *)
(***************************************************************************)
EXTENDS BlkSum, FiniteSets

CONSTANTS Size,        \* units of KERNEL (from its real-mode offset on) and INITRD
          Batch,       \* most units one call of the progress callback reports
          Tries,       \* BLKV_TRIES
          BadLimit,    \* BLKV_BAD_LIMIT
          Attempts,    \* GPT_RETRY_ATTEMPTS
          Chunk,       \* the transfer size in force when loading starts
          TableLies,   \* may a table sector arrive from the wrong LBA?
          Partial,     \* may a re-read fail after it has delivered something?
          Overwrites   \* bound on stray writes into what was loaded

Files == {"KERNEL", "INITRD"}
Modes == {"warn", "enforce", "off"}

ASSUME SizeAssumption == Size \in [Files -> Nat \ {0}] /\ Batch \in Nat \ {0}
ASSUME TableAssumption == TableLies \in BOOLEAN
ASSUME RetryAssumption ==
    /\ Tries \in Nat \ {0} /\ BadLimit \in Nat \ {0} /\ Attempts \in Nat \ {0}
    /\ Partial \in BOOLEAN
ASSUME ChunkAssumption == Chunk \in Nat \ {0} /\ Overwrites \in Nat

Units(f) == 0 .. Size[f] - 1
NBlocks(f) == Blocks(Size[f])
End(f, k) == IF (k + 1) * B < Size[f] THEN (k + 1) * B ELSE Size[f]
Block(f, k) == k * B .. End(f, k) - 1

VARIABLES pc,      \* where stage2_main is; "jumped" and "dead" are the ends
          why,     \* what stopped it: a read, the integrity check, another check
          tries,   \* failures of the current step (i, t)
          mode,    \* g_sum.mode
          sum,     \* CHECKSUM as read: absent or unusable, right, or misread
          loaded,  \* g_sum_loaded
          blk,     \* g_blk_loaded
          file, done,   \* load_file: which, and lc->done (= b->landed)
          ram,
          next, off, bad, fixed, retries,   \* struct blkv of each file
          chain,   \* the running hash is the one the table was made with
          want,    \* the table sector in g_blk_sec: <<file, index, honest>>
          try, cap0,    \* check_block: t and cap0
          cap,     \* the transfer size in use (g_chunk)
          alt,     \* g_alt: not probed, none, found
          judged, over  \* history: blocks checked, units overwritten

vars == <<pc, why, tries, mode, sum, loaded, blk, file, done, ram, next, off, bad, fixed, retries,
          chain, want, try, cap0, cap, alt, judged, over>>
policy == <<mode, sum, loaded, blk>>
verifier == <<next, off, bad, fixed, retries, chain, want, try, cap0, alt, judged>>
loading == <<file, done, ram, verifier, cap, over>>

Init ==
    /\ pc = "gpt" /\ why = "none" /\ tries = 0
    /\ mode = "warn" /\ sum = "none" /\ loaded = FALSE /\ blk = FALSE
    /\ file = "KERNEL" /\ done = 0
    /\ ram = [f \in Files |-> [u \in Units(f) |-> "none"]]
    /\ next = [f \in Files |-> 0] /\ off = [f \in Files |-> FALSE]
    /\ bad = [f \in Files |-> {}] /\ judged = [f \in Files |-> {}]
    /\ fixed = [f \in Files |-> 0] /\ retries = [f \in Files |-> 0]
    /\ chain = TRUE /\ want = <<"KERNEL", -1, TRUE>>
    /\ try = 0 /\ cap0 = Chunk /\ cap = Chunk /\ alt = "unknown"
    /\ over = {}

Die(w) == pc' = "dead" /\ why' = w
Goto(at) == pc' = at /\ tries' = 0 /\ UNCHANGED why
-----------------------------------------------------------------------------
(* One of the read-and-validate steps before loading: again at once until  *)
(* it has failed Attempts times.                                           *)
Failed(at) ==
    /\ pc = at /\ tries' = tries + 1
    /\ IF tries + 1 = Attempts
       THEN IF at = "gpt" THEN pc' = "mbr" /\ UNCHANGED why ELSE Die("read")
       ELSE UNCHANGED <<pc, why>>

Attempt(at, then) ==
    /\ \/ pc = at /\ Goto(then)
       \/ Failed(at)
    /\ UNCHANGED <<policy, loading>>

(* No signature: not a GPT disk, no point in trying again. *)
GptHeader ==
    \/ Attempt("gpt", "partition")
    \/ pc = "gpt" /\ Goto("mbr") /\ UNCHANGED <<policy, loading>>

(* mbr_find_partition's loop starts at 0 whatever the GPT loop counted. *)
FindPartition == Attempt("partition", "mount")

MbrPartition ==
    \/ pc = "mbr" /\ Goto("mbr_find") /\ UNCHANGED <<policy, loading>>
    \/ Attempt("mbr_find", "mount")

Mount == Attempt("mount", "open_kernel")

(* The three files, then the sanity of their sizes. *)
Open ==
    \/ Attempt("open_kernel", "open_initrd")
    \/ Attempt("open_initrd", "open_cmdline")
    \/ Attempt("open_cmdline", "cmdline")

(* Sizes out of range, a kernel smaller than its header, a destination the *)
(* memory map does not have, A20, initrd_addr_max.                         *)
Unfit ==
    /\ \/ pc \in {"cmdline", "header", "offset"}
       \/ pc = "load" /\ file = "INITRD" /\ done = 0
    /\ Die("unfit") /\ UNCHANGED <<tries, policy, loading>>

(* The command line is read once. *)
ReadCmdline ==
    /\ pc = "cmdline"
    /\ \/ Goto("options")
       \/ tries' = tries + 1 /\ Die("read")
    /\ UNCHANGED <<policy, loading>>
-----------------------------------------------------------------------------
(* Mutant: a stale manifest turns checking off in every mode. *)
CheckFileLax(fits, m, l) == [dies |-> FALSE, loaded |-> l /\ fits]

(* Mutant: a stale manifest stops the boot in every mode. *)
CheckFileStrict(fits, m, l) == [dies |-> l /\ ~fits, loaded |-> l /\ fits]

(* payload_sum_check_file: a manifest that does not describe the file      *)
(* stops the boot in mode enforce and is dropped otherwise.                *)
CheckFile(fits, m, l) == [dies |-> l /\ ~fits /\ m = "enforce", loaded |-> l /\ fits]

(* payload_sum_load: no manifest, one without a usable format or one that  *)
(* stays unreadable; the manifest; or a misread one that still parses.     *)
Manifests == {"none", "right", "wrong"}

(* blksum_load: only with a manifest, and only when it describes the same. *)
Tables(l, s) == IF l /\ s = "right" THEN BOOLEAN ELSE {FALSE}

(* read_options: payload_sum_load, the command line's mode over the file's *)
(* (anything else is warn), the file sizes, and then BLKSUM, which must    *)
(* describe what CHECKSUM describes.                                       *)
ReadOptions ==
    /\ pc = "options"
    /\ \E s \in Manifests, line \in Modes, option \in Modes \cup {"none"}, fits \in BOOLEAN :
          LET m == IF option # "none" THEN option ELSE line
              c == CheckFile(fits, m, s # "none" /\ m # "off")
          IN /\ sum' = s
             /\ mode' = IF s = "none" THEN mode ELSE m
             /\ loaded' = c.loaded
             /\ blk' \in Tables(c.loaded, s)
             /\ IF c.dies THEN Die("integrity") /\ tries' = 0 ELSE Goto("header")
    /\ UNCHANGED loading

Header == Attempt("header", "offset")

(* The kernel's offset against CHECKSUM; then the memory map and A20, and  *)
(* load_file for the kernel.                                               *)
CheckOffset ==
    /\ pc = "offset"
    /\ \E fits \in BOOLEAN :
          LET c == CheckFile(fits, mode, loaded)
          IN /\ loaded' = c.loaded
             /\ IF c.dies THEN Die("integrity") /\ tries' = 0 ELSE Goto("load")
    /\ UNCHANGED <<mode, sum, blk, loading>>
-----------------------------------------------------------------------------
Checking == blk /\ loaded

(* disk_read_lba may have halved the transfer size on the way. *)
Shrinks(c) == cap' = c \/ (c > 1 /\ cap' = c \div 2)

(* Units from a to b - 1 of f are read into RAM, each right or wrong. *)
Put(f, a, b) ==
    \E val \in [a .. b - 1 -> {"right", "wrong"}] :
        ram' = [ram EXCEPT ![f] = [u \in Units(f) |-> IF u \in a .. b - 1 THEN val[u] ELSE ram[f][u]]]

(* fat_read_range delivers units, and load_progress counts them. *)
Deliver ==
    /\ pc = "load" /\ done < Size[file]
    /\ \E n \in 1 .. Batch :
          /\ done + n <= Size[file]
          /\ Put(file, done, done + n)
          /\ done' = done + n
    /\ pc' = IF Checking THEN "check" ELSE "load"
    /\ Shrinks(cap)
    /\ UNCHANGED <<why, tries, policy, file, verifier, over>>

(* Mutant: the count of failures wraps before the limit. *)
LoadFailedForever ==
    /\ pc = "load" /\ done < Size[file]
    /\ tries' = (tries + 1) % Attempts
    /\ UNCHANGED <<pc, why>> /\ Shrinks(cap)
    /\ UNCHANGED <<policy, file, done, ram, verifier, over>>

(* fat_read_range fails: load_file resumes from lc->done. *)
LoadFailed ==
    /\ pc = "load" /\ done < Size[file]
    /\ tries' = tries + 1
    /\ IF tries + 1 >= Attempts THEN Die("read") ELSE UNCHANGED <<pc, why>>
    /\ Shrinks(cap)
    /\ UNCHANGED <<policy, file, done, ram, verifier, over>>
-----------------------------------------------------------------------------
BlockRight(f, k) == \A u \in Block(f, k) : ram[f][u] = "right"

(* blkv_landed: nothing (more) to check, back to the read. *)
Landed ==
    /\ pc = "check"
    /\ next[file] = NBlocks(file) \/ done < End(file, next[file])
    /\ pc' = "load"
    /\ UNCHANGED <<why, tries, policy, loading>>

Complete == pc = "check" /\ next[file] < NBlocks(file) /\ done >= End(file, next[file])
Judge(k) == /\ next' = [next EXCEPT ![file] = k + 1]
            /\ judged' = [judged EXCEPT ![file] = judged[file] \cup {k}]

(* The chain goes on from what the table says of block k. *)
Resume(k, honest) == chain' = IF k + 1 < NBlocks(file) THEN honest ELSE FALSE

(* blksum_sector: the sector at hand, or one read now that passes its own  *)
(* hash, which another sector of the table does too.                       *)
AtHand(s) == <<want[1], want[2]>> = <<file, s>>

(* A table that could not be read: no more checks of this file's blocks. *)
SkipBlock ==
    /\ Complete
    /\ next' = [next EXCEPT ![file] = next[file] + 1]
    /\ \/ off[file] /\ UNCHANGED <<off, want>>
       \/ /\ ~off[file] /\ ~AtHand(next[file] \div PerSector)
          /\ off' = [off EXCEPT ![file] = TRUE] /\ want' = <<file, -1, TRUE>>
    /\ UNCHANGED <<pc, why, tries, policy, file, done, ram, bad, fixed, retries, chain, try, cap0, cap,
                   alt, judged, over>>

(* BLKV_BAD_LIMIT: after that many unhealed blocks the rest is counted. *)
RereadsLeft(f) == Cardinality(bad[f]) < BadLimit

(* check_block up to the first re-read. *)
CheckBlock ==
    /\ Complete /\ ~off[file]
    /\ \E honest \in BOOLEAN :
          LET k == next[file]
              s == k \div PerSector
          IN /\ IF <<want[1], want[2]>> = <<file, s>> THEN honest = want[3] ELSE honest \/ TableLies
             /\ want' = <<file, s, honest>>
             /\ IF chain /\ honest /\ BlockRight(file, k)
                THEN Judge(k) /\ UNCHANGED <<pc, bad, chain, try, cap0>>
                ELSE IF RereadsLeft(file)
                THEN pc' = "reread" /\ try' = 1 /\ cap0' = cap /\ UNCHANGED <<next, judged, bad, chain>>
                ELSE /\ Judge(k) /\ bad' = [bad EXCEPT ![file] = bad[file] \cup {k}]
                     /\ Resume(k, honest) /\ UNCHANGED <<pc, try, cap0>>
    /\ UNCHANGED <<why, tries, policy, file, done, ram, off, fixed, retries, cap, alt, over>>

Repaired(k) == chain /\ want[3] /\ \A u \in Block(file, k) : ram'[file][u] = "right"
Size0(t) == IF cap0 \div 2^(t - 1) < 1 THEN 1 ELSE cap0 \div 2^(t - 1)

(* One re-read, at the same size first, then at half, ...  One that fails  *)
(* is not hashed, whatever it has delivered.                               *)
Reread ==
    /\ pc = "reread" /\ try <= Tries
    /\ retries' = [retries EXCEPT ![file] = retries[file] + 1]
    /\ LET k == next[file]
       IN \/ /\ Put(file, k * B, End(file, k)) /\ Shrinks(Size0(try))
             /\ IF Repaired(k)
                THEN /\ Judge(k) /\ pc' = "check" /\ UNCHANGED try
                     /\ fixed' = [fixed EXCEPT ![file] = fixed[file] + 1]
                ELSE try' = try + 1 /\ UNCHANGED <<pc, next, judged, fixed>>
          \/ /\ \E n \in 0 .. B :
                   /\ n = 0 \/ (Partial /\ k * B + n <= End(file, k))
                   /\ Put(file, k * B, k * B + n)
             /\ Shrinks(Size0(try))
             /\ try' = try + 1 /\ UNCHANGED <<pc, next, judged, fixed>>
    /\ UNCHANGED <<why, tries, policy, file, done, off, bad, chain, want, cap0, alt, over>>

Restored == cap0

(* Mutant: a block that no source could heal is not counted. *)
GiveUpSilently(k) == Judge(k) /\ Resume(k, want[3]) /\ UNCHANGED <<bad, fixed>>

(* The block stays wrong: counted, reported, and the chain resumed. *)
GiveUp(k) ==
    /\ Judge(k) /\ Resume(k, want[3])
    /\ bad' = [bad EXCEPT ![file] = bad[file] \cup {k}]
    /\ UNCHANGED fixed

(* Another BIOS drive with the same payload, looked for once in a boot. *)
Alternate == IF alt = "unknown" THEN {"none", "found"} ELSE {alt}

(* The re-reads are used up: the size in force before them again, then     *)
(* hook_second, another drive's copy, looked for once in a boot, then the  *)
(* block is given up.                                                      *)
Second ==
    /\ pc = "reread" /\ try > Tries
    /\ alt' \in Alternate
    /\ LET k == next[file]
       IN \/ /\ alt' = "found" /\ Put(file, k * B, End(file, k))
             /\ IF Repaired(k)
                THEN Judge(k) /\ fixed' = [fixed EXCEPT ![file] = fixed[file] + 1] /\ UNCHANGED <<bad, chain>>
                ELSE GiveUp(k)
          \/ /\ \E n \in 0 .. B :
                   /\ n = 0 \/ (alt' = "found" /\ Partial /\ k * B + n <= End(file, k))
                   /\ Put(file, k * B, k * B + n)
             /\ GiveUp(k)
    /\ cap' = Restored /\ pc' = "check"
    /\ UNCHANGED <<why, tries, policy, file, done, off, retries, want, try, cap0, over>>
-----------------------------------------------------------------------------
(* The end of load_file: mode enforce stops at a block that stayed wrong.  *)
(* Then the next file, with a verifier of its own, or the final check.     *)
FileDone ==
    /\ pc = "load" /\ done = Size[file]
    /\ IF Checking /\ bad[file] # {} /\ mode = "enforce"
       THEN Die("integrity") /\ UNCHANGED <<tries, file, done, chain>>
       ELSE IF file = "KERNEL"
       THEN Goto("load") /\ file' = "INITRD" /\ done' = 0 /\ chain' = TRUE
       ELSE Goto("verify") /\ UNCHANGED <<file, done, chain>>
    /\ UNCHANGED <<policy, ram, next, off, bad, fixed, retries, want, try, cap0, cap, alt, judged, over>>

RamRight == sum = "right" /\ \A f \in Files : \A u \in Units(f) : ram[f][u] = "right"

(* verify_loaded: the digests of what is in RAM now; then the jump. *)
Verify ==
    /\ pc = "verify"
    /\ IF loaded /\ ~RamRight /\ mode = "enforce" THEN Die("integrity") ELSE pc' = "jumped" /\ UNCHANGED why
    /\ UNCHANGED <<tries, policy, loading>>

(* Something overwrites a unit that was loaded. *)
Overwrite ==
    /\ pc \notin {"jumped", "dead"} /\ Cardinality(over) < Overwrites
    /\ \E f \in Files : \E u \in Units(f) :
          /\ ram[f][u] # "none"
          /\ ram' = [ram EXCEPT ![f] = [ram[f] EXCEPT ![u] = "wrong"]]
          /\ over' = over \cup {<<f, u>>}
    /\ UNCHANGED <<pc, why, tries, policy, file, done, verifier, cap>>

Step ==
    \/ GptHeader \/ FindPartition \/ MbrPartition \/ Mount \/ Open \/ Unfit \/ ReadCmdline
    \/ ReadOptions \/ Header \/ CheckOffset
    \/ Deliver \/ LoadFailed \/ Landed \/ SkipBlock \/ CheckBlock \/ Reread \/ Second
    \/ FileDone \/ Verify

Next == Step \/ Overwrite

Spec == Init /\ [][Next]_vars

(* stage2 is the only program on the machine and every BIOS call returns. *)
FairSpec == Spec /\ WF_vars(Step)
-----------------------------------------------------------------------------
(* Every variable keeps to its type. *)
TypeOK ==
    /\ pc \in {"gpt", "partition", "mbr", "mbr_find", "mount", "open_kernel", "open_initrd", "open_cmdline",
              "cmdline", "options", "header", "offset", "load", "check", "reread", "verify", "jumped", "dead"}
    /\ why \in {"none", "read", "integrity", "unfit"} /\ tries \in 0 .. Attempts
    /\ mode \in Modes /\ sum \in {"none", "right", "wrong"} /\ loaded \in BOOLEAN /\ blk \in BOOLEAN
    /\ file \in Files /\ done \in 0 .. Size[file]
    /\ \A f \in Files : ram[f] \in [Units(f) -> {"none", "right", "wrong"}]
    /\ \A f \in Files : next[f] \in 0 .. NBlocks(f) /\ bad[f] \subseteq judged[f] /\ judged[f] \subseteq 0 .. next[f] - 1
    /\ off \in [Files -> BOOLEAN] /\ fixed \in [Files -> Nat] /\ retries \in [Files -> Nat]
    /\ chain \in BOOLEAN /\ want[1] \in Files /\ want[2] \in Int /\ want[3] \in BOOLEAN
    /\ try \in 0 .. Tries + 1 /\ cap0 \in 1 .. Chunk /\ cap \in 1 .. Chunk
    /\ alt \in {"unknown", "none", "found"}

(* "enforce: refuse to boot on a mismatch" (payload_sum.h): once CHECKSUM  *)
(* was read and the mode is enforce, the kernel is entered only with every *)
(* unit of both files right, whatever was read wrong, re-read, served by   *)
(* another drive, left unchecked or overwritten after its check.           *)
EnforceRunsOnlyRight == pc = "jumped" /\ sum # "none" /\ mode = "enforce" => RamRight

(* "`bad` still counts every wrong block" (blkverify.h): a block that was  *)
(* judged and is wrong in RAM, by no later overwriting, is counted; also   *)
(* after the limit, after a lying table sector, and after failed re-reads. *)
CountsEveryWrong ==
    \A f \in Files : \A k \in judged[f] \ bad[f] :
        \A u \in Block(f, k) : ram[f][u] = "right" \/ <<f, u>> \in over

(* Without mode enforce no integrity result keeps the machine from         *)
(* booting: "on a mismatch print both digests and boot anyway".            *)
OnlyEnforceRefuses == why = "integrity" => mode = "enforce" /\ sum # "none"

(* The boot comes to an end, in the kernel or with a message. *)
BootEnds == <>(pc \in {"jumped", "dead"})
=============================================================================
