# TLA+ models of alpine-zfsboot

alpine-zfsboot boots Linux from ZFS: a tool installs and updates the boot chain,
a BIOS or UEFI loader starts a rescue kernel with an initramfs, and the
initramfs imports the pool, unlocks the root and boots the chosen dataset by
kexec. These modules model the parts of it where order, failure and concurrency
decide whether a machine still boots, check them with TLC on small instances and
prove the main properties with TLAPS for every value of the constants.

## 1. The system and what is modelled

| Component | State it keeps | Operations | Modules |
|---|---|---|---|
| BIOS install/update of one disk (`cmd/tool/main.go`, `internal/biosboot`, `internal/espconfig`) | stage1, stage2, six files in `EFI/ALPINE`, backups | install, update, integrity, verify --repair, rollback | `BiosUpdate` |
| What may be written, and where (`cmd/tool`, `internal/bootenv`, `internal/biosboot`) | partition table, sector size, stage pair, CMDLINE | checks before and at each write, int13chunk | `BiosTarget`, `CmdlineWords` |
| Partition tables (`internal/parttable`, `internal/bootenv`, `bios/gpt.c`, `bios/mbr.c`) | none (readers) | the tool's walk and stage2's | `PartTable` |
| UEFI install/update (`cmd/tool/main.go`, `internal/uefiboot`) | loader, METADATA, `.previous` | install, update, backup, read-back, rollback | `UefiUpdate`, `BootGeneration` |
| Release assets (`internal/release`) | tag, SHA256SUMS, files so far | resolve, download, verify | `ReleaseFetch` |
| Mirrored boot set (`cmd/tool/mirror.go`, `espcmd.go`, `internal/espmember`) | per ESP: boot chain, setting, list, marker with generation | install, update, repair, settings, add, remove, adopt | `MirrorSet` |
| ESP selection (`internal/bootenv/espset.go`, `init/esp-select.sh`) | none (a function of the ESPs found) | scan, select | `HostSelect`, `EspSelect` |
| Mounting of ESPs (`internal/bootenv/bootenv.go`, `cmd/tool/main.go`, `mirror.go`) | mount table, registered cleanups, a mutex | probe, attach, register, release, signal | `EspMount` |
| BLKSUM (`internal/payloadsum`, `bios/blkverify.c`) | none (a file format) | generate, decode, verify, look up | `BlkSum` |
| stage2 (`bios/stage2_main.c`, `blkverify.c`, `payload_sum.c`) | RAM, manifest, block verdicts, counters | find, mount, open, load, check, re-read, verify, jump | `PayloadLoad` |
| FAT32 reader (`bios/fat.c`) | chain cursor, two FAT caches, staging buffer | open, read range, invalidate | `FatRead` |
| INT 13h reads (`bios/disk_policy.c`, `bios/disk.c`) | transfer size, drive, request, buffer | select, set chunk, read by LBA or CHS | `DiskRead` |
| Directory locks (`init/boot-dataset.sh`, `init/zfs-unlock.sh`) | a directory and its pid file | acquire, poll, reclaim, release | `DirLock` |
| Unlocking the root (`init/zfs-unlock.sh`, `boot-dataset.sh`, `menu.py`) | key, staged secret, mounts, two locks | unlock, lock, boot, chroot, cleanup | `KeyState` |

The parts without a module are in section 5.

How they interact. A command selects its ESPs (`HostSelect`), mounts them
(`EspMount`), fetches a build (`ReleaseFetch`) and writes one ESP after another
(`MirrorSet`); what it does to one ESP is `BiosTarget` and `BiosUpdate`, or
`UefiUpdate`. `MirrorSet` extends `HostSelect` and `UefiUpdate` extends
`ReleaseFetch`, so these are checked together; between the others, one module's
outcome is the other's nondeterministic choice: a member's write in `MirrorSet`
succeeds or leaves the ESP as it was, which is `AllOrNothing` of `BiosUpdate`
and `Implements` of `UefiUpdate`. At boot, init selects its ESP by rules of its
own (`EspSelect` compares them with the tool's). The tool writes what stage2
reads: `BlkSum` relates the two programs' views of the file, `PartTable` their
views of the table, `BiosUpdate` says in which combinations the six files can be
found, and `PayloadLoad` asks what stage2 does with a CHECKSUM that is there,
absent or unusable. `PayloadLoad` calls `fat_read_range` (`FatRead`), which
calls `disk_read_lba` (`DiskRead`); each layer's promise is the next one's
assumption. `DiskRead` shows that a read that reports success has put each
sector in its place, unless the BIOS lied; `FatRead` starts from reads that
succeed, fail or deliver another FAT sector, and shows that a range is delivered
in order and can be resumed; `PayloadLoad` adds wrong data under a reported
success. In the initramfs, `KeyState` uses two locks as exclusive and `DirLock`
shows when they are.

What makes each of them correct:

| Component | Correct when |
|---|---|
| BIOS install/update | a manifest on the ESP describes the files next to it; a command is all or nothing; stage1 and stage2 stay a bootable pair |
| What may be written | no stage is written over a partition or a GPT array, also when the table changes between the checks, the prompt and the writes of a command; stage1 accepts stage2 at every moment; the transfer size survives |
| Partition tables | stage2 finds the ESP on every table the tool accepts, where entries do not straddle sectors |
| UEFI install/update | loader and METADATA are of one build, or the old pair is back |
| Release assets | what is installed was published, is of one release and not older than the latest one when the command began |
| Mirrored boot set | the highest generation is never on the older build; an update brings the members in line; no update removes a setting; a foreign ESP is not touched unasked |
| ESP selection | the tool and init choose the same ESPs, never a clone, never two installations |
| Mounting of ESPs | a run releases its own mounts once, however it ends, and a signal ends it |
| BLKSUM | a file the tool verified is one that stage2 accepts and looks up alike |
| stage2 | enforce enters the kernel only with right bytes; any other mode always boots; every wrong block is counted; the boot ends |
| FAT32 reader | a range is the file's bytes in order; a sound chain is never refused; every call ends |
| INT 13h reads | success means each sector in its place and none beyond; calls stay within the interface; a request ends |
| Directory locks | one owner at a time; a dead owner's lock can be taken |
| Unlocking the root | no staged secret without its key; a staged secret opens the root; no lock is held across a prompt; prompts end when they are moot |

What is hard here, and hardly reached by tests: a kill or power loss between two
of the tool's steps and a failure inside a rollback; several ESPs of which some
are away, stale, damaged or another machine's; a partition table, a release or a
mount that changes under a running command; several consoles and SSH sessions
running the same scripts at once; a BIOS that fails reads, delivers part of
them, or reports success for wrong data, while the code that checks the data
reads it through the same path. `PROJECT.json` lists each of these at its line.

## 2. The modules

Each module maps to the code definition by definition (`map` in
`PROJECT.json`). An `MC` module of the same name instantiates it, one `.cfg` per
question. A definition whose comment begins with "A slip" is a variant of the
one after it with a plausible bug; nothing uses it but the entries of `mutants`,
which show that a property can fail.

### BiosUpdate

One step per write, removal, read-back or restore of
`writeBIOSStagesWithRollback`, `writePayloadWithRollback`, `rollbackPayload`,
`setIntegrityMode` and `verify --repair`. A file is the stamp of the build it
came from; a manifest is the builds it describes. A command starts from no
installation, from one that an earlier release left (without METADATA and
CHECKSUM, or with a CHECKSUM but without BLKSUM), or from a complete one; an
update that finds its build installed only sets the integrity mode. `WriteFile`
fails before or after its rename; a kill leaves what the running system saw, a
power loss any subset of the entries changed since the last directory sync, and
both may cut off the write of a stage (`Interrupted`); that of stage2 is then
torn, as the comment in `WriteStage2` says (`biosboot.go:146`), and
`BootablePair` excepts it. `stuck` (a rollback could not remove CHECKSUM), `cut`
(power was lost), `lost2` (a write of stage2, or its rollback, was cut off, or
the rollback failed) and `before` are history. `setIntegrityMode` rewrites a
CHECKSUM without looking for BLKSUM, and a rollback restores what it found;
`SumHasItsBlkSum` therefore lets a command leave a CHECKSUM without BLKSUM where
it found one, for the same KERNEL and INITRD. The comment in `main.go` says a
crash leaves "never a stale" CHECKSUM; the two exceptions of
`ManifestNeverStale` are the cases the code leaves open: the removal of CHECKSUM
is not synced before the next rename, and a rollback goes on restoring old files
after the removal of the new CHECKSUM failed.

### PartTable, CmdlineWords, BiosTarget

`PartTable` has the readers as operators over a table: header state, entry count
and size, the used slots, the MBR entries. Counts of array sectors are taken
modulo `U32`, as `uint32` does. Both walks read so many entries from the start
of each sector (`Offset`), while the entries lie one after the other: where
their size does not divide a sector a walk finds an entry only where one begins,
and elsewhere whatever the bytes there decode to (`skewed`). A device name is a
stem, a unit and a partition number, as `DevicePartitionBase` and `DiskOfESP`
take it apart. A table with two MBR ESP entries is not told apart by order.
`CmdlineWords` is CMDLINE as a sequence of words with the tool's editors and
stage2's reader: both take the first `int13chunk=` word, and an invalid one
counts as none. `BiosTarget` puts both under the commands: an install or update
checks table, sector size, mount, disk and images, may wait at a prompt, and
checks the extent again in each call that writes a stage (`CheckBeforeWrite`),
then opens the disk, reads the old bytes and writes: two steps. Another program
may replace the table at any step. `raced` (it was replaced between the two
steps of the call that writes) and `forced` are history; `WriteSafe` excepts
`raced`, since no check of the code can see it. Every stage1 the tool writes is
one that checks sums.

### ReleaseFetch, UefiUpdate, BootGeneration

`ReleaseFetch` resolves the tag, fetches SHA256SUMS, then each asset with its
signature; a server may at each request answer with an older release's file,
another asset, a damaged file, or not at all. The API's answer is not signed:
the tag it names is taken for the latest, as the code takes it, and "not older"
rests on it. A release may have been built for another architecture than its
name says. A hash is the content; a signature binds a content to the tag and
asset its trusted comment names. `UefiUpdate` extends it with the ESP: backup,
loader, METADATA, read-back, rollback. For each file it keeps what a reader sees
now and what it may hold after a power loss: a rename adds, the sync of the
directory settles, data renamed without an fsync may come back `Torn`. An update
without `--yes` waits at its prompt (`prompt`) until somebody answers
(`Answer`). The medium may spoil the new loader, which the code reads back;
METADATA and a restored file are not read back (`main.go:2215`), and the model
lets them arrive. `BootGeneration` is the abstract specification: two files that
change only inside an update, between old and new, and an outcome that tells the
truth. `Implements` is the refinement, with `busy`, `old` and `new` read off the
command's position.

### HostSelect, EspSelect

`HostSelect` is the scan and `SelectHost`: by list, by marker, by the booted or
mounted ESP, or the one legacy ESP. FAT UUIDs are numbers, since the code only
compares and orders them. `EspSelect` attaches disks one by one and then runs
both programs on them; `esp-select.sh` is written from the shell code, with the
payload check as one bit (`sizes`) of a volume.

### MirrorSet

A run is one record: the host as discovered, the phase, the members this phase
has still to go over. Each command is a sequence of phases (`Phases`), each a
loop over some members (`Over`), and each step handles one member; a kill may
come between any two. On one ESP it keeps the build, whether the payload is
damaged (and whether its CHECKSUM shows it), one setting, the list and the
marker. `unordered` is history: some commands leave the order of copies open
(see `LeavesOpen`). A copy of a boot chain that fails (`copyBootChain`) may have
replaced the files and not the list. All damaged payloads count as the same
content, which is right with one fault. `verify`'s comparison is `Stale` and
`OtherGeneration`.

### EspMount

Two goroutines per run, the command and the signal handler, over one mount
table. A command is a list of phases (scan, attach, register, add, work), which
differ in where `withCleanup` stands; `Orders` is all such lists. Volumes are
numbers, in the order of the scan. A mountpoint of the tool is the run, the
volume and the use it was made for, as `os.MkdirTemp` makes no name twice.
`runActiveCleanup` holds its mutex across all unmounts. `registered` and `busy`
are history.

### BlkSum

Operators only: the generator, decoder and verifier of the tool, and the reader
of stage2, each with its own arithmetic. A digest is what was hashed and how
much of it. `PayloadLoad` extends it and looks blocks up through it.

### PayloadLoad

From the partition table to the jump, with the block check that runs inside the
progress callback. A unit of RAM is right, wrong or not loaded; a table sector
is honest, unreadable, or (with `TableLies`) another one, which passes its own
hash: right blocks are then counted bad, never the other way. `Partial` lets a
re-read fail after it has delivered; `Overwrite` is a stray write after loading.
The memory-map and A20 checks are one nondeterministic refusal (`Unfit`).

### FatRead

The reader is sequential; the volume varies, and what the BIOS does with a read
of the FAT: deliver it, fail it, or deliver another sector of the FAT. A byte is
its address. A cache slot remembers which sector it was asked for and which one
it holds. The progress callback may re-enter the reader: the buffer is then lost
and both slots may hold anything. `Resume` is `load_file`'s loop, `Reopen` that
of `fat_open_retry`. A call says how many reads may go wrong and whether the
callback reads. A read shorter than the detection of a loop may deliver a
cluster twice, as a comment of `bios/tests/build_fat_fixtures.py` notes;
`DeliversFile` compares with the chain as linked. Reads of directory sectors
fail but do not lie, and a path is one component.

### DiskRead

A request is split by the chunk size, halved on refusal, retried once at one
sector. A sector's content is its LBA, so a misplaced sector is seen. The CHS
path packs cylinder, head and sector into registers as the code does; a call
does not run on into the next track.

### DirLock

Every shell command of the lock protocol is a step and names the directory by
path, so `mv` moves whatever is there. `PollOutlasts` is a timing assumption:
one sleep of the poll is longer than a sequence of commands without sleep, so a
process that reads an empty pid file waits for the writer. `found` is the lock
as the first caller finds it. The source says of the reclaim that "a residual
TOCTOU race" stays (`init/zfs-unlock.sh`), and exclusion has its limits in the
model too: two callers that both poll out a directory without a pid may both get
in (the exception in `MutualExclusion`), and so may two callers that retry
(`Attempts` = 2), or three (`lock_three`).

### KeyState

Sessions run unlock, lock, boot or chroot (`Plans` says which side by side);
every command that reads or changes the key, the stage, the mounts or a lock is
a step. A signal runs the traps, a SIGKILL runs nothing. Assumed: SIGKILL takes
the running child command with it; no session imports the pool again after an
export; the locks exclude, and a dead owner's lock is free.

## 3. The runs

| Run | Bounds | What it shows |
|---|---|---|
| `bios_update` | 2 builds, 2 modes, 2 faults, 1 kill or power loss | no stale CHECKSUM, none that lost its BLKSUM, all or nothing, a bootable stage pair; after a power loss a CHECKSUM is at most one file (KERNEL) off |
| `bios_target` | 153 tables at the edges of the stage2 extent, entries of 64 to 512 bytes (192 and 384 straddle sectors), `U32` = 16, 3 commands or changes, 3 hand-written command lines | no stage over a partition or an array unless the table was replaced inside the call that writes, or straddles; every pair of stages starts, the transfer size is kept, stage2 finds the ESP |
| `uefi_update` | 2 releases, 2 architectures, 2 commands, 3 wrong answers, 2 faults, 1 kill or power loss | builds are authentic and of one release; the ESP implements `BootGeneration`; every command ends or waits at its prompt |
| `mirror_set` | 3 ESPs in 3 arrangements, 2 commands of any kind, 2 builds, 1 fault, 1 kill, BIOS | the highest generation is not the older build, an update leaves nothing stale, settings and foreign ESPs are kept |
| `esp_select` | 3 disks: 34, 36 and 32 contents, every list, primary and firmware | both programs choose alike, never a clone, never two installations |
| `esp_mount` | 2 runs, 2 volumes, 8 pairs of commands, /boot/efi mounted or not, a signal to one run | no double or foreign unmount, registered mounts are released, a signal ends the run |
| `dir_lock` | 2 processes, a lock that is free, abandoned or half made, 1 kill, 5 polls | mutual exclusion of two; someone gets in |
| `lock_three` | 3 processes, 5 polls | two owners at once (a violation, see below) |
| `keys_two` | 2 sessions, every pair of commands, 2 attempts, 1 signal or kill | no staged secret while the key is not loaded; staged and carried secrets open the root; nobody waits for a human with the lock; an unlock elsewhere ends the prompts |
| `disk_read` | requests of up to 5 sectors across head wrap, cylinder 256 and the end of the disk; chunk limit 5 | exact reads, calls within the interface, a refusal is final after two; every request returns |
| `fat_read` | every FAT of 4 clusters, 1, 2, 4 sectors per cluster, batch 3; 6 FATs with 2 faults and a re-entrant callback | the file's bytes in order, also when resumed after the caches were dropped; no sound chain refused; every call ends |
| `payload_load` | KERNEL of 1 block, INITRD of 3, one short; 2 re-reads, limit 1, 1 stray write | enforce runs only right bytes, every wrong block is counted, only enforce refuses; the boot ends |

Why these bounds are enough to be interesting. Two faults let a failure hit the
handling of a failure; one kill at any step is a kill at every step. In
`uefi_update` the second command meets what the killed first one left, and three
wrong answers let a file, its SHA256SUMS and its signature all be of another
release. In `mirror_set` one command makes the members differ and the second one
has to deal with it; the arrangements are a mirror beside another machine's
stick, a mirror with a member behind and a blank disk, and two ESPs from before
there were markers. In `bios_target` an array of 6 or 13 entries fills its last
sector in part, and counts near 16 go round as counts near 2^32 do. Three
sectors to a batch let a run start inside a sector, cross contiguous clusters
and be clamped; four clusters allow every shape of tail and loop up to length
four; two blocks beyond the re-read limit make the limit bite. The sessions of
`KeyState` are interchangeable, so each pair of commands is tried once. What the
proofs of section 4 cover holds for all bounds.

`CHECK_DEADLOCK FALSE` is set where the system comes to rest: locks, sessions, a
boot, and commands whose number is bounded.

### Fairness

Weak fairness is assumed only of processes that nothing keeps from running:
`Acquire(p)` of a lock (a script with bounded sleeps), `Run(s)` of a session
(commands end; a human's answer is not in it), the loader's steps (one thread,
interrupts return), `Step` of a UEFI command (requests have timeouts, writes
return). `Answer` is not in `Step`: `Ends` says that a command ends or comes to
its prompt, and that once past it, it ends. In `EspMount` only the way out of a
run is fair (`CleanupStep`): a command may wait at its prompt or for a download,
and a signal must end it all the same. No human, signal, kill, release or fault
is fair. A BIOS call is assumed to return; the code has no timeout for one that
does not.

### Where code and comments disagree

`lock_three` ends in a violation: a caller whose `mkdir` failed just before a
release polls a lock that does not exist, and then condemns the next owner's
directory before its pid is written, so two callers own the lock. The finding
quotes the comments.

The other disagreements met while modelling are in the models as the code has
them, and the properties are stated so as to hold with them:

- `checkBIOSUpToDate` compares the stamp in CMDLINE only: after an update killed
  between two files the next one says "up to date" with METADATA of another
  build (`main.go:1838` "NEVER ends up with a good payload but no metadata").
  The integrity mode is stored only in CHECKSUM, so after a kill the next update
  writes warn where enforce was set.
- A lock directory moved back by `zfs-unlock.sh:535` after its owner released it
  keeps the pid of a live process, and nobody can take it
  (`zfs-unlock.sh:530` "permanently wedge a directory with no owner ... is not").
- `staged_by_me` stays set after the boot consumed its stage, so a failing boot
  may remove one that another session published
  (`boot-dataset.sh:242` "only ever removes a stage it actually created itself").
- A last re-read that fails after it has healed the block is not looked at, and
  the block counts as bad (`blkverify.h:74` "A block still wrong after that").
- `fat_open_retry` does not drop the cached FAT sector that makes it fail.
- An update killed after the payloads and before MEMBER, then run again, finds
  nothing to write, and the generation stays what it was with the old build
  (`README.md:824` of the repository, "raised by every install/update that wrote
  this ESP"; `mirror.go:1324`). `NewestWins` therefore compares with what a
  member held when its generation was recorded.
- `esp adopt` takes every listed member for its own (`attach` with `foreign`
  false), so a foreign one on the list gets list and marker without
  `--force-adopt` (`README.md:909`), and members other than the ones named get
  lists and markers too (`espcmd.go:555` "Nothing else is written"). For adopt,
  `ForeignUntouched` says nothing. A member that is named along with
  a new ESP is not touched, and the new one gets its generation
  (`espcmd.go:677` "it can never tie with them").
- `esp add` copies a damaged payload and makes a new CHECKSUM for it, which then
  hides the damage; `repairMember` refuses to (`mirror.go:1430` "Never spread a
  damaged copy"). On an unmarked set it gives every member one generation.
- A setting written while a member is away, followed by a new release, leaves
  the settings different: the member is rewritten with its own
  (`mirror.go:841` "brings the others to the setting").
- `esp-select.sh:9` says "The same rules as internal/bootenv.SelectHost". They
  differ on a list that does not parse, on an unmarked booted ESP, in ties that
  the tool breaks by the primary, on a foreign first entry of a list, and on
  unmarked clones with an agreed list. `SameRules` has its premises for this.
- `GPTPartitions` computes its sector count in `uint32`; a header with an entry
  count near 2^32 has no entry walked, and no overlap is seen. Nor does either
  walk follow entries that straddle sectors ("extra handling this code doesn't
  do", `gpt.c:121`), while `CheckStage2ExtentFree` accepts such a table: a
  partition in the stage2 extent may then go unseen, and stage2 may miss the ESP
  or take other bytes for it. `Misread` leaves both kinds out of `FindsESP` and
  of the part of `WriteSafe` that speaks of partitions. BLKSUM's decoder has
  the like near 4 GiB; stage2's form does not go round.
- A new member's transfer size is copied from the last `int13chunk=` word of its
  source, while stage2 and the tool itself use the first.
- Two runs share a mount: B reuses A's private mount, A unmounts it and removes
  the directory, B makes the path again, writes and verifies there and reports
  success (`main.go:2523` "every write verified byte-for-byte").
- A signal during discovery, before `withCleanup`, or a mount attached after the
  handler has cleaned up, leaves the mount behind (`main.go:70` "so both gaps
  close through one mechanism"); a read-only probe left behind makes a later
  update refuse. `RegisteredAreUndone` speaks of registered mounts.
- The removal in the UEFI rollback is not followed by a directory sync and the
  `.previous` copy is not synced at all; `BootGeneration` lets a power loss
  choose accordingly.
- `DevicePartitionBase` cuts the unit off whole disks of unknown classes that
  end in a digit; it ends in a refusal.

## 4. The proofs

Proved for every value of the constants allowed by the named `ASSUME`s:

| Theorem | States | Along |
|---|---|---|
| `BiosUpdateProofs!TypeCorrect` | `TypeOK` of `BiosUpdate` | one step per action |
| `ManifestSafe`, `BlkSumSafe` | `ManifestNeverStale`, `SumHasItsBlkSum` | `Inv`: what is on the ESP at each step; needed because the properties say nothing of `backup` and `new`, which a later step writes. `BareInv` adds that a CHECKSUM without BLKSUM is the one the command found, and so is what a rollback restores |
| `UpdateIsAtomic` | `AllOrNothing`, power losses included | `AtomicInv`: which files are already written, or restored, at each step |
| `PairStaysBootable` | `BootablePair` | `PairInv` adds that what would be restored is not torn |
| `PowerLossSafe` | `PowerLossReachesKernelOnly` for any number of power losses | `SyncInv`: a CHECKSUM in the directory or on the medium stands next to the same INITRD in both, since the sync of KERNEL brings the removal of CHECKSUM to the medium before INITRD is written |
| `DiskAndKeyProofs!WritesAreSafe` | `WriteSafe` for any set of well-formed tables | between the check and the write of a call the table is an accepted one unless `raced`; `ExtentFree`: the tool's walk sees every entry of an array it does not misread (`WalkedAll`) and every sector of any array (`ByteOf`), so an accepted table claims nothing of the extent |
| `StagesStart` | `PairStarts` | `Inv`: an image is checked before it is written, and what the rollback writes back was accepted before |
| `Stage2FindsESP` | `FindsESP` | stage2's walk, for any entry size that divides a sector and any count that does not go round, is the whole array |
| `ReadExact` | `ReadIsExact` for every geometry, chunk and request | `IInv` = types, what is delivered so far, what is untouched behind it; `ChsRoundTrip` shows that the packed registers name the sector wanted |
| `CallsWithinInterface` | `WithinInterface` | the same invariant, with the chunk below its limit |
| `FailureIsFinal` | `FinalAfterTwo` | the same, with what each count of refusals says of the call that was refused |
| `SessionsTyped`, `NoLie`, `SecretIsRight`, `LockIsBrief` | `KeyTypeOK`, `NoSemanticLie`, `SecretOpensRoot`, `LockNotHeldIdle` for any set of sessions | `LockInv` (who is in a critical step owns the lock), `KeyInv` (what each critical step has established) |
| `UefiUpdateProofs!FetchIsOneRelease` | `OneRelease` for any number of releases and wrong answers | `FetchInv`: every asset taken so far is the one the tag and the slot name (`Signed`) |
| `InstallsReleases` | `Authentic` | `AuthInv`: where the bytes to be installed come from, and that tags only grow |
| `ImplementsBootGeneration` | `Implements`, the refinement | `GenInv`: at each step, what each file is and what it may become after a power loss, in terms of old and new |
| `MirrorSetProofs!ForeignSafe` | `ForeignUntouched` for any number of ESPs, commands, faults and kills | `RunOK`: the first loop of an update or a setting puts every foreign member among the failed ones (`Sorted`), and every loop that writes without asking goes over what is left (`Aimed`) |
| `SettingsSurvive` | `SettingKept` | the same, with "no boot chain, no setting" (`EspInv`), since a seeded ESP takes the source's setting |
| `UpdateAligns` | `UpdatedAgree` for any number of ESPs and any history | `UpdateInv`: a run that has not failed has brought the members its loops are through with to the latest build (`Levelled`), to the source's list (`Synced`) and to one marker (`Sealed`); a run with nobody to copy from has nobody to copy to (`Grounded`) |
| `EspMountProofs!EachMountUndoneOnce` | `UnmountsOwnOnce` for any runs, commands, volumes and signals | `MountInv`, below |
| `RegisteredMountsUndone` | `RegisteredAreUndone` | the same |
| `InitScriptProofs!ClonesNeverTaken` | `ClonesRefused` for any number of devices with any volumes on them | the choice of either program is taken apart into the rules it can come from (`PickFrom`, `HostFrom`); each looks for clones before it takes |
| `InstallationsApart` | `OneInstallation` | the same cases, each with the marker its rule asks for |
| `RulesAreTheSame` | `SameRules` | the cases of both side by side; `BestExists`: the order in which the tool sorts its members has a first one, so that both find it |
| `OneOfTwoGetsIn` | `MutualExclusion` for two callers that try once (`TwoCallers`), any polls and kills | `LockInv`: of two callers one is out, or the directory is untouched, or one has reclaimed or created it, or has it moved aside for a dead owner's and about to be put back (`Misjudged`) |
| `FatReadProofs!ReaderDelivers` | `DeliversFile` for every FAT, range, batch and number of faults | `FatInv`, below |
| `ReaderRefuses` | `RefusalExplained` for the same | the same |
| `PayloadLoadProofs!EnforceIsSafe`, `RefusalIsOptIn` | `EnforceRunsOnlyRight`, `OnlyEnforceRefuses` | `PolicyInv`: enforce with a manifest keeps checking on |
| `WrongIsCounted` | `CountsEveryWrong` for any block size, table, number of re-reads | `CountInv`: judged blocks lie below what has been delivered, so no later delivery touches them |
| `VerifiedIsUsed` | a BLKSUM the tool verifies is accepted by stage2 and read alike | `RoundedUp`, `WithinSectors`: the counts of Go and C agree though the expressions differ |
| `GeneratedVerifies` | what the tool generates, it verifies | `Placed`: each block's entry is where the decoder looks |

`MountInv` is about the whole mount table. The two properties speak of the
cleanups of one run, but whether an unmount finds its mount depends on the whole
table. `ScanOK` and `AttachOK` say that a run mounts each volume at most once
for each use, so that a mountpoint of its own has one line of the table and one
place in `cleanups`; another run's mountpoints are other names (`Mountpoints`),
so its steps are out of the way (`OtherRuns`). `LockOK` says that whoever walks
the list holds the mutex and that a registered cleanup is one the command will
run on its way out; `CleanupsOK` that the entries below the position of the walk
are mounted; `RegisteredOK` that a registered mount is undone, or stands before
a walk that is still to come.

`FatInv` ties the reader's cursor to the chain. The chain is a recursive function
of the FAT; instead of an induction, `ChainUnfolds` and the lemmas after it look
at the least length at which the defining equation, or what is claimed of the
walk, would fail (`LeastExists`). `CacheInv` says that a cached FAT sector is
the right one unless a wrong one was delivered since the caches were last
dropped; `WalkInv` that the first pointer is then at the chain's cluster `hops`
and the second at `hops \div 2`, so that two equal clusters are a loop and a
sound chain shows none; `PlaceInv` that the bytes delivered and remaining make
up the range, and that sector and byte point at the first one that remains;
`RunInv` that a run covers clusters adjoining on disk and in the chain, which is
what makes one batched read of them right; `SearchInv` that the search has passed
only directory clusters that do not settle it. The properties themselves say
nothing of the cursor, so none of this can be left out.

TLC finds `MountInv`, `SyncInv`, `UpdateInv`, `FatInv` and the `LockInv` of
`DirLock` true in every state of the component's run.

The assumptions on constants are types and bounds; these say more.
`TablesAssumption`: the slots of a table are slots of its array.
`BiosTarget`'s `NamesAssumption`: whether disks of a class are numbered is a
matter of the class. `HostsAssumption`: an ESP without a boot chain has no
setting. `BlkSumAssumption`: block and sector sizes are below 2^32.
`VolumesAssumption`: a FAT volume has a UUID and a generation is not negative.
`CallAssumption`: a FAT entry is a data cluster or ends the chain.
`PidsAssumption`: a pid found in the lock is that of no caller.
`JobsAssumption`: a command has each of its phases once and works last.
`FoundAssumption` and `EspMount`'s `NamesAssumption`: nobody has a mount in a
directory that `os.MkdirTemp` is still to make.

`OneOfTwoGetsIn` has a hypothesis, `TwoCallers`, and needs all of it: TLC finds
two owners with three callers (`lock_three`), with two attempts, and without the
timing assumption `PollOutlasts`. The boot lock meets it for two sessions, since
its callers try once; `zfs_op_lock_retry` does not.

Only model-checked, and why:

- all liveness properties: the prover has no ENABLED;
- `NewestWins`: it holds for the arrangements of `mirror_set` and not for every
  `Hosts`. Markers and builds that contradict each other from the start stay
  so, and which arrangements a history of commands can leave is itself a
  statement about all histories;
- `ChunkKept`: the command line is edited with `SelectSeq`, a recursive function
  of its words.

## 5. What is not modelled, and why

- `fat_mount`'s checks of the boot sector: a row of independent refusals over
  one sector, with unit tests for each; `FatRead` starts from an accepted volume.
- Memory map and boot parameters: a pure algorithm over ranges with tests of its
  own; `PayloadLoad` has its outcome as a nondeterministic refusal.
- CD-ROM backend: a dialogue with device registers whose timing the source does
  not fix. UEFI loader: a straight line of firmware calls without retries.
- `efibootmgr`, and the firmware's boot entries: one call of an external program
  whose failure is a warning.
- Boot of a dataset beyond lock and secret: mounting, the choice of a kernel,
  export and kexec. Two sessions share /mnt/root (`boot-dataset.sh:413`,
  `menu.py:519`); a model needs the kernel's mount semantics under busy files
  and lazy unmounts, which the scripts leave to the return codes of `umount`.
- Failed-boot counter: the property that matters, how many unconfirmed boots
  follow one another, depends on the confirm service of the booted system, which
  is not in the repository.
- Rescue SSH and the interrupt prompt: start and stop of one daemon by its pid
  file, and readers that race with sleeps; what could go wrong is a number used
  again by the kernel, or timing, neither of which the source fixes.
- Network configuration, pool import, dialogs: sequences of external commands.
- Parsers of one buffer (bzImage, PE, nvlist, key=value files), the bytes of
  manifests and markers, cryptography: data without state.
- Machine code, console output, build and release scripts.

In what is modelled, these are bounds rather than choices: `mirror_set` runs the
BIOS host only (the proofs cover both), a path in `FatRead` has one component,
and the payload writer of a member in `MirrorSet` is one step, whose inside is
`BiosUpdate` or `UefiUpdate`.

Details of modelled code that the models leave out:

- `BiosTarget`: refusals that depend on nothing in the model
  (`preflightBIOSMetadata`, the validity of `--integrity`); sector numbers at
  which 64-bit arithmetic goes round.
- `CmdlineWords`: words are split alike; the tool splits at any white space,
  stage2 only at blanks (`cmdline_opt.c:20`).
- `ReleaseFetch`: a server that answers with the file of the same release for
  the other architecture (its name is part of the signature's comment).
- `EspSelect`: a marker is well formed or not; `_esp_read_member`
  (`esp-select.sh:94`) accepts some that `Decode` (`espmember.go:169`) refuses.
- `MirrorSet`: the integrity mode of a seeded member, a member whose disk cannot
  be determined, the list of `/proc/cmdline`, more than one `--add-esp`, and "no"
  at the prompt of a member.
- `DiskRead`: a refused read by CHS (AH=02h) leaves the buffer as it was.
- `BlkSum`: the product of a block's index and 512 does not go round in 32 bits
  (`stage2_main.c:660`).
- `FatRead`: reads of data fail but do not lie (`PayloadLoad` has reads that do),
  and the caches are empty at first.
- `EspMount`: mounting and adding the cleanup to the list of the host is one
  step, and the scan of a reused mount holds no file open, so that another run's
  unmount does not fail for it.
