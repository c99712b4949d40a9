----------------------------- MODULE BiosUpdate -----------------------------
(***************************************************************************)
(* The BIOS half of `alpine-zfsboot install/update/integrity/verify        *)
(* --repair` on one disk and its ESP (cmd/tool/main.go, internal/biosboot, *)
(* internal/espconfig): stage2 and stage1 are written to the disk, then    *)
(* KERNEL, INITRD, CMDLINE, METADATA, BLKSUM and CHECKSUM to the FAT       *)
(* volume, with a rollback on every failing step.  The process may be      *)
(* killed, and the machine may lose power, between any two steps.          *)
(*                                                                         *)
(* File contents are abstracted to stamps: the build a payload file came   *)
(* from; for a manifest, the builds of the kernel, initrd and cmdline it   *)
(* describes (their digests), and the MODE line of CHECKSUM.               *)
(***************************************************************************)
EXTENDS Integers, FiniteSets

CONSTANTS Builds,      \* build stamps of releases, ordered: a set of positive integers
          Modes,       \* integrity modes of CHECKSUM: off, warn, enforce
          MaxFaults,   \* bound on failing reads, writes, removals and syncs
          MaxCrashes   \* bound on kills and power losses

ASSUME BuildsAssumption == Builds \subseteq Nat \ {0}
ASSUME ModesAssumption == "warn" \in Modes /\ "none" \notin Modes
ASSUME BoundsAssumption == MaxFaults \in Nat /\ MaxCrashes \in Nat

Payload == {"KERNEL", "INITRD", "CMDLINE", "METADATA"}
Files == Payload \cup {"BLKSUM", "CHECKSUM"}

\* What a file holds; Absent is a file that does not exist.
Stamp(k, i, c, mode) == [k |-> k, i |-> i, c |-> c, mode |-> mode]
Absent == Stamp(0, 0, 0, "none")
Stamps == {Absent} \cup [k : Builds, i : Builds, c : Builds, mode : Modes \cup {"none"}]
WithMode(s, mode) == Stamp(s.k, s.i, s.c, mode)

\* The stage2 region of the disk: 0 holds no alpine-zfsboot stage2 (a fresh disk),
\* Torn is a region a failed write left half written.
Torn == -1
Regions == {0, Torn} \cup Builds

Steps == {"idle", "backup", "stage2", "stage1", "undo1", "undo2",
          "rmCHECKSUM", "rmBLKSUM", "KERNEL", "INITRD", "CMDLINE", "verify", "METADATA",
          "BLKSUM", "CHECKSUM",
          "rbCHECKSUM", "rbBLKSUM", "rbKERNEL", "rbINITRD", "rbCMDLINE", "rbMETADATA",
          "putBLKSUM", "putCHECKSUM", "addMETADATA", "addBLKSUM", "addCHECKSUM"}

VARIABLES esp,      \* Files -> Stamps: the directory EFI/ALPINE as a running system sees it
          synced,   \* the same directory as it is on the medium
          stage1, stage2,           \* the two boot loader regions of the disk
          prev1, prev2,             \* what writeStage1/writeStage2 returned as previous
          step,     \* the next thing the running command does
          new,      \* Files -> Stamps: what the running command writes
          backup,   \* payloadBackup: what backupPayload read
          ok,       \* rollbackPayload's ok: every restore so far succeeded
          result,   \* how the last command ended
          before,   \* history: esp when the last command started
          stuck,    \* history: rollbackPayload once could not remove CHECKSUM
          cut,      \* history: the machine once lost power during a command
          lost2,    \* history: a write of stage2 was interrupted, or its rollback failed
          faults, crashes

vars == <<esp, synced, stage1, stage2, prev1, prev2, step, new, backup, ok, result,
          before, stuck, cut, lost2, faults, crashes>>

stages == <<stage1, stage2, prev1, prev2, lost2>>
dir == <<esp, synced>>
run == <<new, backup, before>>
-----------------------------------------------------------------------------
(* What a build puts in each file. *)
FilesOf(b, mode) ==
    [f \in Files |-> Stamp(b, b, b, IF f = "CHECKSUM" THEN mode ELSE "none")]

(* The stamp of a manifest generated from the installed files. *)
Describe(e, mode) == Stamp(e["KERNEL"].k, e["INITRD"].i, e["CMDLINE"].c, mode)

(* The installations an earlier run of the tool can have left: none, a     *)
(* build from before CHECKSUM existed (with or without METADATA), one with *)
(* CHECKSUM but from before BLKSUM existed, a complete one.                *)
Installed(b, mode) ==
    LET full == FilesOf(b, mode)
        noBlkSum == [full EXCEPT !["BLKSUM"] = Absent]
        noSums == [noBlkSum EXCEPT !["CHECKSUM"] = Absent]
    IN {full, noBlkSum, noSums, [noSums EXCEPT !["METADATA"] = Absent]}

Init ==
    /\ \/ /\ esp = [f \in Files |-> Absent]
          /\ stage1 = 0 /\ stage2 = 0
       \/ \E b \in Builds, mode \in Modes :
            /\ esp \in Installed(b, mode)
            /\ stage1 = b /\ stage2 = b
    /\ synced = esp
    /\ prev1 = 0 /\ prev2 = 0
    /\ step = "idle"
    /\ new = [f \in Files |-> Absent]
    /\ backup = [f \in Files |-> Absent]
    /\ ok = TRUE
    /\ result = "none"
    /\ before = esp
    /\ stuck = FALSE /\ cut = FALSE /\ lost2 = FALSE
    /\ faults = 0 /\ crashes = 0

Fault == faults < MaxFaults /\ faults' = faults + 1
NoFault == UNCHANGED faults

End(r) == step' = "idle" /\ result' = r
-----------------------------------------------------------------------------
(* Starting a command. *)

(* checkBIOSUpToDate: the CMDLINE's build stamp against the new build's.   *)
UpToDate(b) == esp["CMDLINE"].c # 0 /\ b <= esp["CMDLINE"].c

(* updateIntegrityMode: --integrity (opt) if given, else the installed     *)
(* CHECKSUM's mode, else warn.                                             *)
KeptMode == IF esp["CHECKSUM"] = Absent THEN "warn" ELSE esp["CHECKSUM"].mode

Begin(b, mode) ==
    /\ step' = "stage2"
    /\ new' = FilesOf(b, mode)
    /\ before' = esp
    /\ ok' = TRUE /\ result' = "none"
    /\ UNCHANGED <<dir, stages, backup, stuck, faults, cut, crashes>>

Update(b, opt) ==
    /\ step = "idle" /\ stage2 # 0
    /\ ~UpToDate(b)
    /\ Begin(b, IF opt = "none" THEN KeptMode ELSE opt)

Install(b, mode) == step = "idle" /\ Begin(b, mode)

(* readInstalledKernelInitrd succeeds. *)
HasPayload == \A f \in {"KERNEL", "INITRD", "CMDLINE"} : esp[f] # Absent

(* setIntegrityMode: a CHECKSUM that is there only gets another MODE; a    *)
(* missing one is created from the installed files, its BLKSUM first.      *)
SetIntegrityMode(mode) ==
    /\ step = "idle"
    /\ \/ /\ esp["CHECKSUM"] # Absent
          /\ step' = "addCHECKSUM"
          /\ new' = [new EXCEPT !["CHECKSUM"] = WithMode(esp["CHECKSUM"], mode)]
       \/ /\ esp["CHECKSUM"] = Absent /\ HasPayload
          /\ step' = "addBLKSUM"
          /\ new' = [new EXCEPT !["BLKSUM"] = Describe(esp, "none"), !["CHECKSUM"] = Describe(esp, mode)]
    /\ before' = esp /\ ok' = TRUE /\ result' = "none"
    /\ UNCHANGED <<dir, stages, backup, stuck, faults, cut, crashes>>

(* An update that finds the build installed only sets the integrity mode,  *)
(* if --integrity was given.  (setInt13Chunk keeps the stamp of CMDLINE.)  *)
UpdateUpToDate(b, opt) ==
    /\ step = "idle" /\ stage2 # 0
    /\ UpToDate(b)
    /\ IF opt # "none" THEN SetIntegrityMode(opt)
       ELSE /\ result' = "uptodate" /\ before' = esp
            /\ UNCHANGED <<dir, stages, step, new, backup, ok, stuck, faults, cut, crashes>>

(* verifyMetadata's comparison of METADATA with the installed files. *)
MetadataMatches == esp["METADATA"] = Describe(esp, "none")

(* payloadsum.Verify: CHECKSUM's sizes and digests against the installed kernel and initrd. *)
SumMatches == esp["CHECKSUM"].k = esp["KERNEL"].k /\ esp["CHECKSUM"].i = esp["INITRD"].i

(* What verifyPayloadSum and verifyBlkSum repair: no CHECKSUM (both are    *)
(* written), or a CHECKSUM that verifies with no BLKSUM next to it.        *)
BlkSumMissing == esp["CHECKSUM"] = Absent \/ (SumMatches /\ esp["BLKSUM"] = Absent)

(* verify --repair: METADATA if it is missing, then, only when METADATA    *)
(* agrees with the files, CHECKSUM (never enforce) if it is missing, or    *)
(* BLKSUM next to a CHECKSUM that verifies.                                *)
Repair ==
    /\ step = "idle"
    /\ HasPayload
    /\ \/ esp["METADATA"] = Absent /\ step' = "addMETADATA"
       \/ MetadataMatches /\ BlkSumMissing /\ step' = "addBLKSUM"
    /\ new' = [new EXCEPT !["METADATA"] = Describe(esp, "none"),
                          !["BLKSUM"] = Describe(esp, "none"),
                          !["CHECKSUM"] = Describe(esp, "warn")]
    /\ before' = esp /\ ok' = TRUE /\ result' = "none"
    /\ UNCHANGED <<dir, stages, backup, stuck, faults, cut, crashes>>
-----------------------------------------------------------------------------
(* writeBIOSStagesWithRollback: stage2 first, stage1 last.  writeStage2    *)
(* fails before writing (previous is nil), or after the region was written *)
(* in full or in part; the previous content then goes back.                *)
Build == new["KERNEL"].k

WriteStage2 ==
    /\ step = "stage2"
    /\ prev2' = stage2
    /\ \/ /\ stage2' = Build /\ step' = "stage1"
          /\ NoFault /\ UNCHANGED result
       \/ /\ Fault /\ End("failed")
          /\ UNCHANGED stage2
       \/ /\ Fault /\ step' = "undo2"
          /\ stage2' \in {stage2, Torn, Build}
          /\ UNCHANGED result
    /\ UNCHANGED <<dir, stage1, prev1, lost2, run, ok, stuck, cut, crashes>>

(* The 440 bytes of stage1 lie in one sector: old or new, never torn. *)
WriteStage1 ==
    /\ step = "stage1"
    /\ prev1' = stage1
    /\ \/ /\ stage1' = Build /\ step' = "backup"
          /\ NoFault
       \/ /\ Fault /\ step' = "undo2"
          /\ UNCHANGED stage1
       \/ /\ Fault /\ step' = "undo1"
          /\ stage1' \in {stage1, Build}
    /\ UNCHANGED <<dir, stage2, prev2, lost2, run, ok, result, stuck, cut, crashes>>

RollbackStage1 ==
    /\ step = "undo1"
    /\ \/ stage1' = prev1 /\ NoFault
       \/ stage1' \in {stage1, prev1} /\ Fault
    /\ step' = "undo2"
    /\ UNCHANGED <<dir, stage2, prev1, prev2, lost2, run, ok, result, stuck, cut, crashes>>

(* Mutant: only stage1 is rolled back. *)
RollbackStage2Skipped ==
    /\ step = "undo2"
    /\ NoFault /\ End("failed")
    /\ UNCHANGED <<dir, stage1, stage2, prev1, prev2, lost2, run, ok, stuck, cut, crashes>>

RollbackStage2 ==
    /\ step = "undo2"
    /\ \/ stage2' = prev2 /\ NoFault /\ UNCHANGED lost2
       \/ stage2' \in {stage2, Torn, prev2} /\ Fault /\ lost2' = TRUE
    /\ End("failed")
    /\ UNCHANGED <<dir, stage1, prev1, prev2, run, ok, stuck, cut, crashes>>
-----------------------------------------------------------------------------
(* writePayloadWithRollback. *)

(* Mutant: an unreadable file counts as absent. *)
BackupPayloadLenient ==
    /\ step = "backup"
    /\ \/ backup' = esp /\ NoFault
       \/ Fault /\ \E f \in Files : backup' = [esp EXCEPT ![f] = Absent]
    /\ step' = "rmCHECKSUM"
    /\ UNCHANGED <<dir, stages, new, before, ok, result, stuck, cut, crashes>>

(* backupPayload: an unreadable file refuses before the first write. *)
BackupPayload ==
    /\ step = "backup"
    /\ \/ backup' = esp /\ step' = "rmCHECKSUM" /\ NoFault /\ UNCHANGED result
       \/ Fault /\ End("refused") /\ UNCHANGED backup
    /\ UNCHANGED <<dir, stages, new, before, ok, stuck, cut, crashes>>

(* Mutant: the manifests stay until they are overwritten. *)
RemoveManifestLater(at, f, next) ==
    /\ step = at
    /\ step' = next /\ NoFault
    /\ UNCHANGED <<dir, stages, run, ok, result, stuck, cut, crashes>>

(* removeManifestFile: os.Remove, with no sync of the directory. *)
RemoveManifest(at, f, next) ==
    /\ step = at
    /\ \/ esp' = [esp EXCEPT ![f] = Absent] /\ step' = next /\ NoFault
       \/ Fault /\ step' = "rbCHECKSUM" /\ UNCHANGED esp
    /\ UNCHANGED <<synced, stages, run, ok, result, stuck, cut, crashes>>

(* Mutant: WriteFile does not sync the directory. *)
WrittenUnsynced(f, s) == esp' = [esp EXCEPT ![f] = s] /\ UNCHANGED synced

(* espconfig.WriteFile: temp file, fsync, rename, fsync of the directory.  *)
(* It reports an error with the file unchanged, or after the rename (the   *)
(* directory sync failed); reading the file back (VerifyFile) may fail     *)
(* too.                                                                    *)
Written(f, s) == esp' = [esp EXCEPT ![f] = s] /\ synced' = esp'
RenamedOnly(f, s) == esp' = [esp EXCEPT ![f] = s] /\ UNCHANGED synced

WriteFile(f, next) ==
    /\ step = f
    /\ \/ Written(f, new[f]) /\ step' = next /\ NoFault
          /\ IF next = "idle" THEN result' = "ok" ELSE UNCHANGED result
       \/ /\ Fault /\ step' = "rbCHECKSUM" /\ UNCHANGED result
          /\ \/ UNCHANGED dir
             \/ RenamedOnly(f, new[f])
    /\ UNCHANGED <<stages, run, ok, stuck, cut, crashes>>

(* VerifyPayload re-reads KERNEL, INITRD and CMDLINE. *)
VerifyPayload ==
    /\ step = "verify"
    /\ \/ step' = "METADATA" /\ NoFault
       \/ step' = "rbCHECKSUM" /\ Fault
    /\ UNCHANGED <<dir, stages, run, ok, result, stuck, cut, crashes>>

(* rollbackPayload: both manifests away, the four files back, and the      *)
(* manifests only if everything so far succeeded.                          *)
Restored(f) ==
    IF backup[f] = Absent
    THEN esp' = [esp EXCEPT ![f] = Absent] /\ UNCHANGED synced
    ELSE Written(f, backup[f])

RollbackRemove(at, f, next) ==
    /\ step = at
    /\ \/ /\ esp' = [esp EXCEPT ![f] = Absent]
          /\ NoFault /\ UNCHANGED <<ok, stuck>>
       \/ /\ Fault /\ ok' = FALSE
          /\ stuck' = (stuck \/ f = "CHECKSUM")
          /\ UNCHANGED esp
    /\ step' = next
    /\ UNCHANGED <<synced, stages, run, result, cut, crashes>>

RollbackRestore(at, f, next) ==
    /\ step = at
    /\ \/ Restored(f) /\ NoFault /\ UNCHANGED ok
       \/ /\ Fault /\ ok' = FALSE
          /\ \/ UNCHANGED dir
             \/ backup[f] # Absent /\ RenamedOnly(f, backup[f])
    /\ step' = next
    /\ UNCHANGED <<stages, run, result, stuck, cut, crashes>>

(* Mutant: the manifests are restored whether or not the rest was. *)
RollbackManifestAlways(at, f, next) ==
    /\ step = at
    /\ \/ Restored(f) /\ NoFault /\ UNCHANGED ok
       \/ Fault /\ ok' = FALSE /\ UNCHANGED dir
    /\ step' = next
    /\ IF next = "idle" THEN result' = (IF ok' THEN "failed" ELSE "critical") ELSE UNCHANGED result
    /\ UNCHANGED <<stages, run, stuck, cut, crashes>>

RollbackManifest(at, f, next) ==
    /\ step = at
    /\ IF ok /\ backup[f] # Absent
       THEN \/ Written(f, backup[f]) /\ NoFault /\ UNCHANGED ok
            \/ /\ Fault /\ ok' = FALSE
               /\ \/ UNCHANGED dir
                  \/ RenamedOnly(f, backup[f])
       ELSE UNCHANGED <<dir, ok>> /\ NoFault
    /\ step' = next
    /\ IF next = "idle" THEN result' = (IF ok' THEN "failed" ELSE "critical") ELSE UNCHANGED result
    /\ UNCHANGED <<stages, run, stuck, cut, crashes>>

(* setIntegrityMode and verify --repair write without a rollback. *)
Add(at, f, next) ==
    /\ step = at
    /\ \/ /\ Written(f, new[f]) /\ NoFault
          /\ step' = next
          /\ IF next = "idle" THEN result' = "added" ELSE UNCHANGED result
       \/ /\ Fault /\ End("partial")
          /\ \/ UNCHANGED dir
             \/ RenamedOnly(f, new[f])
    /\ UNCHANGED <<stages, run, ok, stuck, cut, crashes>>

AddMetadata == Add("addMETADATA", "METADATA", IF BlkSumMissing THEN "addBLKSUM" ELSE "idle")
AddBlkSum == Add("addBLKSUM", "BLKSUM", IF esp["CHECKSUM"] = Absent THEN "addCHECKSUM" ELSE "idle")
AddCheckSum == Add("addCHECKSUM", "CHECKSUM", "idle")
-----------------------------------------------------------------------------
(* What an interruption leaves of the stages: a write under way was not    *)
(* begun, or done; one of stage2 (32 KiB) may be torn.                     *)
Interrupted ==
    \/ UNCHANGED <<stage1, stage2>>
    \/ step = "stage2" /\ stage2' \in {Torn, Build} /\ UNCHANGED stage1
    \/ step = "undo2" /\ stage2' \in {Torn, prev2} /\ UNCHANGED stage1
    \/ step = "stage1" /\ stage1' = Build /\ UNCHANGED stage2
    \/ step = "undo1" /\ stage1' = prev1 /\ UNCHANGED stage2

(* The process is killed: the running system keeps what it saw. *)
Dead == step # "idle" /\ crashes < MaxCrashes /\ crashes' = crashes + 1 /\ End("crashed")

Kill ==
    /\ Dead
    /\ Interrupted
    /\ lost2' = (lost2 \/ step \in {"stage2", "undo2"})
    /\ UNCHANGED <<dir, prev1, prev2, run, ok, stuck, cut, faults>>

(* The steps at which a WriteFile renames f to its new, or its old, content. *)
NewAt(f) == {f} \cup (IF f = "METADATA" THEN {"addMETADATA"}
                      ELSE IF f = "BLKSUM" THEN {"addBLKSUM"}
                      ELSE IF f = "CHECKSUM" THEN {"addCHECKSUM"} ELSE {})
OldAt == [KERNEL |-> "rbKERNEL", INITRD |-> "rbINITRD", CMDLINE |-> "rbCMDLINE",
          METADATA |-> "rbMETADATA", BLKSUM |-> "putBLKSUM", CHECKSUM |-> "putCHECKSUM"]

(* The machine loses power: of the directory entries changed since the     *)
(* last sync, and the one a WriteFile is renaming, any may have reached    *)
(* the medium.                                                             *)
LosePower ==
    /\ Dead
    /\ \E kept \in SUBSET {f \in Files : esp[f] # synced[f]}, renamed \in BOOLEAN :
         esp' = [f \in Files |->
                   IF renamed /\ step \in NewAt(f) THEN new[f]
                   ELSE IF renamed /\ step = OldAt[f] /\ (ok \/ f \in Payload) THEN backup[f]
                   ELSE IF f \in kept THEN esp[f] ELSE synced[f]]
    /\ synced' = esp'
    /\ Interrupted
    /\ lost2' = (lost2 \/ step \in {"stage2", "undo2"})
    /\ cut' = TRUE
    /\ UNCHANGED <<prev1, prev2, run, ok, stuck, faults>>
-----------------------------------------------------------------------------
Command ==
    \/ \E b \in Builds, opt \in Modes \cup {"none"} : UpdateUpToDate(b, opt) \/ Update(b, opt)
    \/ \E b \in Builds, mode \in Modes : Install(b, mode)
    \/ \E mode \in Modes : SetIntegrityMode(mode)
    \/ Repair

WriteStages == WriteStage2 \/ WriteStage1 \/ RollbackStage1 \/ RollbackStage2

WritePayload ==
    \/ BackupPayload
    \/ RemoveManifest("rmCHECKSUM", "CHECKSUM", "rmBLKSUM")
    \/ RemoveManifest("rmBLKSUM", "BLKSUM", "KERNEL")
    \/ WriteFile("KERNEL", "INITRD")
    \/ WriteFile("INITRD", "CMDLINE")
    \/ WriteFile("CMDLINE", "verify")
    \/ VerifyPayload
    \/ WriteFile("METADATA", "BLKSUM")
    \/ WriteFile("BLKSUM", "CHECKSUM")
    \/ WriteFile("CHECKSUM", "idle")

RollbackPayload ==
    \/ RollbackRemove("rbCHECKSUM", "CHECKSUM", "rbBLKSUM")
    \/ RollbackRemove("rbBLKSUM", "BLKSUM", "rbKERNEL")
    \/ RollbackRestore("rbKERNEL", "KERNEL", "rbINITRD")
    \/ RollbackRestore("rbINITRD", "INITRD", "rbCMDLINE")
    \/ RollbackRestore("rbCMDLINE", "CMDLINE", "rbMETADATA")
    \/ RollbackRestore("rbMETADATA", "METADATA", "putBLKSUM")
    \/ RollbackManifest("putBLKSUM", "BLKSUM", "putCHECKSUM")
    \/ RollbackManifest("putCHECKSUM", "CHECKSUM", "idle")

AddManifest == AddMetadata \/ AddBlkSum \/ AddCheckSum

Next == Command \/ WriteStages \/ WritePayload \/ RollbackPayload \/ AddManifest \/ Kill \/ LosePower

Spec == Init /\ [][Next]_vars
-----------------------------------------------------------------------------
Results == {"none", "ok", "uptodate", "failed", "refused", "critical", "added", "partial", "crashed"}

(* Every variable keeps to its type. *)
TypeOK ==
    /\ esp \in [Files -> Stamps] /\ synced \in [Files -> Stamps]
    /\ stage1 \in Regions /\ stage2 \in Regions /\ prev1 \in Regions /\ prev2 \in Regions
    /\ step \in Steps /\ result \in Results
    /\ new \in [Files -> Stamps] /\ backup \in [Files -> Stamps] /\ before \in [Files -> Stamps]
    /\ ok \in BOOLEAN /\ stuck \in BOOLEAN /\ cut \in BOOLEAN /\ lost2 \in BOOLEAN
    /\ faults \in 0 .. MaxFaults /\ crashes \in 0 .. MaxCrashes

(* A CHECKSUM on the ESP describes the KERNEL and INITRD next to it, at    *)
(* every step and after every kill, unless rollbackPayload was unable to   *)
(* remove it ("may leave no manifest ... but never a stale one") or the    *)
(* machine lost power: the removal of CHECKSUM is not synced.              *)
ManifestNeverStale == stuck \/ cut \/ esp["CHECKSUM"] = Absent \/ SumMatches

(* A CHECKSUM without BLKSUM, as the previous release installed it. *)
Bare(e) == e["CHECKSUM"] # Absent /\ e["BLKSUM"] = Absent

(* A CHECKSUM never stands without its BLKSUM (stage2 heals blocks only    *)
(* with a BLKSUM that agrees with CHECKSUM): they appear BLKSUM first and  *)
(* go CHECKSUM first, rollback included.  Only where the command found a   *)
(* CHECKSUM without BLKSUM, an installation of the previous release, may   *)
(* it leave one, and then for the same KERNEL and INITRD: after a change   *)
(* of the mode, or restored by a rollback.                                 *)
SumHasItsBlkSum ==
    \/ stuck \/ cut
    \/ esp["CHECKSUM"] = Absent
    \/ esp["BLKSUM"].k = esp["CHECKSUM"].k /\ esp["BLKSUM"].i = esp["CHECKSUM"].i
    \/ /\ Bare(esp) /\ Bare(before)
       /\ esp["CHECKSUM"].k = before["CHECKSUM"].k /\ esp["CHECKSUM"].i = before["CHECKSUM"].i

(* A command that reports success has written all six files of the build;  *)
(* one that fails with every restore successful, or refuses, leaves all    *)
(* six as they were: integrity mode enforce included.                      *)
AllOrNothing ==
    /\ result = "ok" => \A f \in Files : esp[f] = new[f]
    /\ result \in {"failed", "refused"} => esp = before

(* The boot loader pair stays bootable through every failure, and through  *)
(* a kill or a power loss at every other step: the stage2 region is half   *)
(* written only while its rollback is pending, unless the write of the     *)
(* 32 KiB, or of their rollback, was itself interrupted or rolled back in  *)
(* vain.                                                                   *)
BootablePair == stage2 = Torn => step = "undo2" \/ lost2

(* When power fails, the entries removed and renamed since the last sync   *)
(* of the directory may or may not be on the medium.  WriteFile syncs the  *)
(* directory before INITRD is touched, so a CHECKSUM that comes back is at *)
(* most one file, KERNEL, behind or ahead.                                 *)
PowerLossReachesKernelOnly == \/ stuck
                              \/ esp["CHECKSUM"] = Absent
                              \/ esp["CHECKSUM"].i = esp["INITRD"].i
=============================================================================
