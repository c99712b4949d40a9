----------------------------- MODULE UefiUpdate -----------------------------
(***************************************************************************)
(* Installing and updating the UEFI loader of one ESP (cmd/tool:           *)
(* loadUEFIAsset, updateUEFITarget, writeUEFIGenerationWithRollback;       *)
(* internal/uefiboot), from the fetch of the asset (ReleaseFetch) to the   *)
(* last write, with the rollback, failing writes, kills and power losses.  *)
(*                                                                         *)
(* A file is what a reader sees now (loader, meta, previous) and the set   *)
(* of contents it may have after a power loss (mayLoader, ...): a rename   *)
(* adds the new content, the fsync of the directory leaves only it, and    *)
(* data renamed into place without an fsync may come back Torn.  The       *)
(* medium spoils no METADATA and no restored file: the code reads back     *)
(* only the new loader.                                                    *)
(***************************************************************************)
EXTENDS ReleaseFetch

CONSTANTS Machine,     \* this machine's architecture
          Jobs,        \* the commands that may be asked for first, second, ...
          Locals,      \* what a local --file may hold
          MaxFaults, MaxCrashes   \* bounds

ASSUME MachineAssumption == Machine \in Arches
ASSUME BoundsAssumption == MaxFaults \in Nat /\ MaxCrashes \in Nat
ASSUME JobsAssumption ==
    \A n \in DOMAIN Jobs : \A j \in Jobs[n] :
        /\ j \in [slots : Seq(AssetNames), from : Seq({"file", "url", "default"})]
        /\ j.slots # <<>> /\ Len(j.from) = Len(j.slots)
ASSUME LocalsAssumption == Locals \subseteq Contents

Torn == Content("torn", "none", 0)

VARIABLES loader, meta, previous,            \* EFI/BOOT/BOOT*.EFI, METADATA, *.previous
          mayLoader, mayMeta, mayPrevious,   \* what each may hold after a power loss
          pc,          \* next step of the command
          seed,        \* the target is installed without comparing builds
          old, asset,  \* backupUEFIGeneration's record; the bytes to install
          critical,    \* a restore failed
          outcome,     \* how the last command ended
          since,       \* history: the newest release when the command began
          held,        \* history: every content installed or begun
          jobs, faults, crashes

esp == <<loader, meta, previous, mayLoader, mayMeta, mayPrevious>>
ctl == <<pc, seed, old, asset, critical, outcome, since, held>>
counters == <<jobs, faults, crashes>>
vars == <<fetchVars, esp, ctl, counters>>

\* cmdline.Read succeeds on a UEFI build and on nothing else
Reads(c) == c.asset = "efi"

-----------------------------------------------------------------------------
Init ==
    /\ pub = <<Machine>> /\ job = Job(<<>>, <<>>) /\ fetch = NoFetch
    /\ loader \in {Absent, Content("efi", Machine, 1)}
    /\ meta \in {Absent, loader}
    /\ previous = Absent
    /\ mayLoader = {loader} /\ mayMeta = {meta} /\ mayPrevious = {previous}
    /\ pc = "idle" /\ seed = FALSE
    /\ old = [loader |-> loader, meta |-> meta] /\ asset = Absent
    /\ critical = FALSE /\ outcome = "none" /\ since = 0
    /\ held = {loader, meta}
    /\ jobs = 0 /\ faults = 0 /\ crashes = 0

Fault == faults < MaxFaults /\ faults' = faults + 1 /\ UNCHANGED <<jobs, crashes>>
NoFault == UNCHANGED counters
Goto(next) == pc' = next /\ UNCHANGED <<seed, old, asset, critical, outcome, since, held>>
EndAs(how) ==
    /\ pc' = "idle" /\ outcome' = how
    /\ UNCHANGED <<seed, old, asset, critical, since, held>>

Command(j, s) ==
    /\ pc = "idle" /\ jobs < Len(Jobs) /\ j \in Jobs[jobs + 1]
    /\ s => j.slots = <<"efi">>
    /\ StartFetch(j)
    /\ pc' = "load" /\ seed' = s /\ outcome' = "none" /\ critical' = FALSE /\ since' = Len(pub)
    /\ jobs' = jobs + 1
    /\ UNCHANGED <<pub, esp, old, asset, held, faults, crashes>>

Fetching == pc = "load" /\ (\E c \in Locals : FetchStep(c)) /\ UNCHANGED <<esp, ctl, counters>>

\* A slip: a fetch that failed is started again, for as long as it fails.
LoadRetrying ==
    /\ pc = "load" /\ job.slots = <<"efi">> /\ fetch.pc = "failed"
    /\ StartFetch(job)
    /\ UNCHANGED <<pub, esp, ctl, counters>>

\* loadUEFIAsset: nothing of a build that failed to arrive, or is not a UEFI build,
\* reaches the ESP.
LoadUEFIAsset ==
    /\ pc = "load" /\ job.slots = <<"efi">>
    /\ \/ fetch.pc = "failed" /\ EndAs("failed")
       \/ fetch.pc = "fetched" /\ ~Reads(fetch.got[1]) /\ EndAs("failed")
       \/ /\ fetch.pc = "fetched" /\ Reads(fetch.got[1])
          /\ asset' = fetch.got[1] /\ pc' = "target"
          /\ UNCHANGED <<seed, old, critical, outcome, since, held>>
    /\ fetch' = NoFetch
    /\ NoFault /\ UNCHANGED <<pub, job, esp>>

\* loadBIOSAssets: the five files of a BIOS build, refused when a stage has the wrong
\* size, go on to BiosTarget and BiosUpdate.
LoadBIOSAssets ==
    /\ pc = "load" /\ job.slots # <<"efi">>
    /\ \/ fetch.pc \in {"failed", "fetched"} /\ EndAs("failed")
       \/ fetch.pc = "fetched" /\ EndAs("fetched")
    /\ fetch' = NoFetch
    /\ NoFault /\ UNCHANGED <<pub, job, esp>>

\* A slip: a build of another architecture is not refused.
CheckAnyArch == loader.arch = loader.arch
\* uefiboot.CheckArchMatch
CheckArchMatch == asset.arch = loader.arch

\* updateUEFITarget, or runInstall's UEFI half, up to the first write; without -y the
\* operator is asked
UpdateUEFITarget ==
    /\ pc = "target"
    /\ \/ seed /\ (Goto("backup") \/ Goto("prompt"))
       \/ ~seed /\ (~Reads(loader) \/ ~CheckArchMatch) /\ EndAs("failed")
       \/ /\ ~seed /\ Reads(loader) /\ CheckArchMatch
          /\ \/ asset.tag <= loader.tag /\ EndAs("current")
             \/ asset.tag > loader.tag /\ (Goto("backup") \/ Goto("prompt"))
    /\ NoFault /\ UNCHANGED <<fetchVars, esp>>

\* confirm: the operator answers, or never does
Answer ==
    /\ pc = "prompt"
    /\ Goto("backup") \/ EndAs("declined")
    /\ NoFault /\ UNCHANGED <<fetchVars, esp>>

\* backupUEFIGeneration: refuses before anything is written when it cannot read
BackupUEFIGeneration ==
    /\ pc = "backup"
    /\ \/ /\ NoFault
          /\ old' = [loader |-> loader, meta |-> meta]
          /\ held' = held \cup {asset}
          /\ pc' = "previous"
          /\ UNCHANGED <<seed, asset, critical, outcome, since>>
       \/ Fault /\ EndAs("failed")
    /\ UNCHANGED <<fetchVars, esp>>

\* BackupPrevious, in WriteLoader: best effort; the copy is renamed into place unsynced
BackupPrevious ==
    /\ pc = "previous"
    /\ \/ /\ loader # Absent /\ NoFault
          /\ previous' = loader
          /\ mayPrevious' = mayPrevious \cup {loader, Torn}
       \/ loader = Absent /\ NoFault /\ UNCHANGED <<previous, mayPrevious>>
       \/ Fault /\ UNCHANGED <<previous, mayPrevious>>
    /\ Goto("rename")
    /\ UNCHANGED <<fetchVars, loader, meta, mayLoader, mayMeta>>

\* WriteLoader: the new bytes go to a temporary file, are synced, and renamed over the
\* loader.  The medium may spoil them.
RenameLoader ==
    /\ pc = "rename"
    /\ \/ \E c \in {asset, Bad} :
             /\ IF c = Bad THEN Fault ELSE NoFault
             /\ loader' = c /\ mayLoader' = mayLoader \cup {c}
             /\ Goto("dirsync")
       \/ Fault /\ Goto("undoLoader") /\ UNCHANGED <<loader, mayLoader>>
    /\ UNCHANGED <<fetchVars, meta, previous, mayMeta, mayPrevious>>

\* WriteLoader's fsync of EFI/BOOT, which also holds .previous
SyncLoaderDir ==
    /\ pc = "dirsync"
    /\ \/ /\ NoFault /\ Goto("verify")
          /\ mayLoader' = {loader}
          /\ mayPrevious' = mayPrevious \cap {previous, Torn}
       \/ Fault /\ Goto("undoLoader") /\ UNCHANGED <<mayLoader, mayPrevious>>
    /\ UNCHANGED <<fetchVars, loader, meta, previous, mayMeta>>

\* VerifyLoader
VerifyLoader ==
    /\ pc = "verify"
    /\ \/ NoFault /\ Goto(IF loader = asset THEN "meta" ELSE "undoLoader")
       \/ Fault /\ Goto("undoLoader")
    /\ UNCHANGED <<fetchVars, esp>>

\* writeUEFIMetadata: METADATA is rendered from the asset and written atomically
WriteUEFIMetadata ==
    /\ pc = "meta"
    /\ \/ /\ NoFault /\ Goto("metasync")
          /\ meta' = asset /\ mayMeta' = mayMeta \cup {asset}
       \/ Fault /\ Goto("undoLoader") /\ UNCHANGED <<meta, mayMeta>>
    /\ UNCHANGED <<fetchVars, loader, previous, mayLoader, mayPrevious>>

SyncMetadataDir ==
    /\ pc = "metasync"
    /\ \/ NoFault /\ EndAs("ok") /\ mayMeta' = {meta}
       \/ Fault /\ Goto("undoLoader") /\ UNCHANGED mayMeta
    /\ UNCHANGED <<fetchVars, loader, meta, previous, mayLoader, mayPrevious>>

\* A slip: a file that did not exist is left where the update put it.
RestoreOnlyFiles(now, was, may) ==
    IF was = Absent THEN {<<now, may, FALSE>>} ELSE {<<was, {was}, FALSE>>}
\* rollbackUEFIGeneration's restore of one file: what it holds, and may hold, after;
\* the third component says that restoring reported an error.  Removing a file is not
\* synced; WriteFile may fail before the rename or after it.
Restored(now, was, may) ==
    IF was = Absent THEN {<<Absent, may \cup {Absent}, FALSE>>, <<now, may, TRUE>>}
    ELSE {<<was, {was}, FALSE>>, <<now, may, TRUE>>, <<was, may \cup {was}, TRUE>>}

RestoreLoader ==
    /\ pc = "undoLoader"
    /\ \E r \in Restored(loader, old.loader, mayLoader) :
          /\ IF r[3] THEN Fault ELSE NoFault
          /\ loader' = r[1] /\ mayLoader' = r[2]
          /\ critical' = r[3]
    /\ pc' = "undoMeta"
    /\ UNCHANGED <<fetchVars, meta, previous, mayMeta, mayPrevious,
                   seed, old, asset, outcome, since, held>>

RestoreMetadata ==
    /\ pc = "undoMeta"
    /\ \E r \in Restored(meta, old.meta, mayMeta) :
          /\ IF r[3] THEN Fault ELSE NoFault
          /\ meta' = r[1] /\ mayMeta' = r[2]
          /\ EndAs(IF critical \/ r[3] THEN "critical" ELSE "failed")
    /\ UNCHANGED <<fetchVars, loader, previous, mayLoader, mayPrevious>>

\* The power is lost: each file is one of those it may be.
PowerLoss ==
    /\ crashes < MaxCrashes /\ crashes' = crashes + 1
    /\ loader' \in mayLoader /\ meta' \in mayMeta /\ previous' \in mayPrevious
    /\ mayLoader' = {loader'} /\ mayMeta' = {meta'} /\ mayPrevious' = {previous'}
    /\ fetch' = NoFetch
    /\ EndAs("lost")
    /\ UNCHANGED <<pub, job, jobs, faults>>

\* The command is killed.
Kill ==
    /\ pc # "idle" /\ crashes < MaxCrashes /\ crashes' = crashes + 1
    /\ fetch' = NoFetch
    /\ EndAs("lost")
    /\ UNCHANGED <<pub, job, esp, jobs, faults>>

Releases == \E a \in Arches : Publish(a) /\ UNCHANGED <<esp, ctl, counters>>

Step ==
    \/ Fetching
    \/ LoadUEFIAsset \/ LoadBIOSAssets
    \/ UpdateUEFITarget
    \/ BackupUEFIGeneration
    \/ BackupPrevious
    \/ RenameLoader
    \/ SyncLoaderDir
    \/ VerifyLoader
    \/ WriteUEFIMetadata
    \/ SyncMetadataDir
    \/ RestoreLoader
    \/ RestoreMetadata

Next ==
    \/ \E j \in UNION {Jobs[n] : n \in DOMAIN Jobs}, s \in BOOLEAN : Command(j, s)
    \/ Step
    \/ Answer
    \/ PowerLoss
    \/ Kill
    \/ Releases

Spec == Init /\ [][Next]_vars
\* The command is one process, always able to take its next step; whether the operator
\* answers its prompt is not up to it.
FairSpec == Spec /\ WF_vars(Step)

-----------------------------------------------------------------------------
Writing == {"previous", "rename", "dirsync", "verify", "meta", "metasync",
            "undoLoader", "undoMeta"}

\* What a boot file can hold: a UEFI build, or nothing.
Installable == [asset : {"efi", "absent"}, arch : Arches \cup {"none"}, tag : Nat]

BG == INSTANCE BootGeneration
        WITH Builds  <- Installable,
             Damaged <- Bad,
             new     <- asset,
             busy    <- pc \in Writing

\* The ESP's loader and METADATA behave as BootGeneration promises, through failing
\* writes, failing rollbacks, kills and power losses: a command that ends with every
\* restore successful leaves the full new generation or the full old one ("never a mix",
\* rollbackUEFIGeneration), a critical one says so, and an interrupted one leaves each
\* file whole.
Implements == BG!Spec

\* What is installed comes from a release: when a command that took its build from a URL
\* or the latest release says it succeeded, the loader is a published UEFI build, and
\* without a URL one not older than the latest release when the command began (as the
\* API names it); an update (not a seeded install) keeps the architecture and never goes
\* back.
Authentic ==
    outcome = "ok" =>
        /\ job.from # <<"file">> => \E t \in Tags : asset = Asset("efi", t)
        /\ job.from = <<"default">> => asset.tag >= since
        /\ ~seed => asset.arch = old.loader.arch /\ asset.tag > old.loader.tag

\* Every command ends, or comes to wait at its prompt, whatever the servers and the ESP
\* answer; once the prompt is answered it ends: it writes, refuses, rolls back or fails.
Ends ==
    /\ pc # "idle" ~> pc \in {"idle", "prompt"}
    /\ pc \notin {"idle", "load", "target", "prompt"} ~> pc = "idle"
=============================================================================
