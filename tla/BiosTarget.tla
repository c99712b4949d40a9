----------------------------- MODULE BiosTarget -----------------------------
(***************************************************************************)
(* What the tool asks of a disk and an ESP before, and while, it writes a  *)
(* BIOS boot chain (updateBIOSTarget, newInstallCmd and runInstall's BIOS  *)
(* half, internal/biosboot), and what it does to CMDLINE.  The partition   *)
(* table may be changed by another program between any two steps: also     *)
(* between the check a write begins with and the write itself, while the   *)
(* disk is opened and its old bytes are read.  Writes that fail, are torn  *)
(* or killed, the payload's writes and every rollback of these are         *)
(* BiosUpdate's; a command that is refused changes nothing.                *)
(***************************************************************************)
EXTENDS PartTable, CmdlineWords

CONSTANTS Tables,     \* partition tables the disk may have
          Changed,    \* tables another program may write
          Manual,     \* command lines an administrator writes by hand
          Release,    \* the command line of a release
          Images,     \* stage2 images offered
          Mounts, Disks,   \* mounts and disk arguments given to install
          Asked, Lists, Self,
          MaxOps      \* bound on changes and commands

ASSUME TablesAssumption == \A t \in Tables \cup Changed : WellFormed(t)
\* Whether the disks of a stem are numbered is a matter of their class.
ASSUME NamesAssumption ==
    \A m \in Mounts, d \in Disks : m.dev.stem = d.stem => (m.dev.unit = NoUnit <=> d.unit = NoUnit)

\* A stage2 image: its magic word, whether it announces a checksum, whether that adds up,
\* and whether it carries the version text.
Image(magic, marked, sums, version) ==
    [magic |-> magic, marked |-> marked, sums |-> sums, version |-> version]
NoImage == Image(FALSE, FALSE, FALSE, FALSE)

VARIABLES table, sector,       \* the disk
          stage1, stage2,      \* the stages on it: whether stage1 checks sums; the image
          words,               \* CMDLINE; <<>> when there is none
          doing, op,           \* the running command
          prev,                \* stage2 as WriteStage2 returned it
          raced,               \* history: the table changed between the check and the
                               \* write of the running WriteStage1 or WriteStage2
          forced,              \* history: a stage2 was once written with --force
          ops

vars == <<table, sector, stage1, stage2, words, doing, op, prev, raced, forced, ops>>

Op(kind, image, asked, list, force, src, mount, disk) ==
    [kind |-> kind, image |-> image, asked |-> asked, list |-> list, force |-> force,
     src |-> src, mount |-> mount, disk |-> disk]
NoMount == MountInfo(FALSE, "none", Name("none", NoUnit, 0))
NoOp == Op("none", NoImage, NotAsked, Default, FALSE, <<>>, NoMount, Name("none", NoUnit, 0))

Init ==
    /\ table \in Tables /\ sector \in {512, 4096}
    /\ stage1 \in {"none", "old", "new"}
    /\ stage2 = IF stage1 = "none" THEN NoImage ELSE Image(TRUE, stage1 = "new", stage1 = "new", TRUE)
    /\ words = IF stage1 = "none" THEN <<>> ELSE Release
    /\ doing = "idle" /\ op = NoOp /\ prev = NoImage /\ raced = FALSE /\ forced = FALSE /\ ops = 0

\* biosboot.CheckStage2
CheckStage2(image) == image.magic /\ (image.marked => image.sums)
\* biosboot.Stage1Accepts: what stage1 jumps into
Stage1Accepts(one, image) ==
    image.magic /\ (one = "new" => CheckStage2(image))
\* A slip: only the magic word is looked at.
CheckMagic(image, force) == image.magic \/ force
\* checkStagePair
CheckStagePair(image, force) == CheckStage2(image) \/ force
\* biosboot.CheckSectorSize
CheckSectorSize == sector = SectorSize
\* checkUpdateEligible: the disk carries a stage2 with the version text
CheckUpdateEligible == stage2.version

Counted == ops < MaxOps /\ ops' = ops + 1

\* install, up to its first write (a refused command changes nothing)
Install(image, asked, list, force, mount, disk) ==
    /\ doing = "idle" /\ Counted
    /\ CheckMountInfo(mount, disk) /\ DiskOfESP(mount.dev)
    /\ CheckSectorSize /\ CheckStagePair(image, force)
    /\ CheckStage2ExtentFree(table)
    /\ op' = Op("install", image, asked, list, force, <<>>, mount, disk)
    /\ doing' = "stage2"
    /\ UNCHANGED <<table, sector, stage1, stage2, words, prev, raced, forced>>

\* updateBIOSTarget, up to its first write, on a disk that is not up to date; a new
\* member is seeded from the command line of another one
Update(image, asked, list, force, seed, src) ==
    /\ doing = "idle" /\ Counted
    /\ src # <<>> => seed /\ words = <<>>
    /\ CheckSectorSize
    /\ seed \/ CheckUpdateEligible
    /\ CheckStagePair(image, force)
    /\ CheckStage2ExtentFree(table)
    /\ op' = Op("update", image, asked, list, force, src, NoMount, NoOp.disk)
    /\ doing' = "stage2"
    /\ UNCHANGED <<table, sector, stage1, stage2, words, prev, raced, forced>>

\* prepareBIOSInstall: the command line an installation starts from
PrepareBIOSInstall(asked) == ApplyInt13Chunk(Release, <<>>, asked)

NewWords ==
    IF op.kind = "install"
    THEN LET c == SetCmdlineWord(PrepareBIOSInstall(op.asked), "self", Self)
         IN IF op.list # Default THEN SetCmdlineWord(c, "uuids", op.list) ELSE c
    ELSE CmdlineEditor(ApplyInt13Chunk(Release, words, op.asked), words, op.src, op.asked,
                       op.list, Self)

\* A slip: the table read before the command is trusted.
CheckNothing(at, next, refused) ==
    /\ doing = at /\ raced' = FALSE /\ doing' = next
    /\ UNCHANGED <<table, sector, stage1, stage2, words, op, forced, ops>>
\* WriteStage1 and WriteStage2 begin with a check of the extent; then the disk is opened
\* and its old bytes are read.  A refusal writes nothing.
CheckBeforeWrite(at, next, refused) ==
    /\ doing = at /\ raced' = FALSE
    /\ doing' = IF CheckStage2ExtentFree(table) THEN next ELSE refused
    /\ UNCHANGED <<table, sector, stage1, stage2, words, op, forced, ops>>

\* WriteStage2, up to its write.  The command line is checked before it.
CheckStage2Write ==
    /\ prev' = stage2
    /\ CheckBeforeWrite("stage2", IF CheckCmdlineLength(NewWords) THEN "write2" ELSE "idle", "idle")

WriteStage2 ==
    /\ doing = "write2" /\ doing' = "stage1"
    /\ stage2' = op.image /\ forced' = (forced \/ op.force)
    /\ raced' = FALSE
    /\ UNCHANGED <<table, sector, stage1, words, op, prev, ops>>

\* WriteStage1, up to its write; where it refuses, the stage2 is put back.
CheckStage1Write == CheckBeforeWrite("stage1", "write1", "undo") /\ UNCHANGED prev

WriteStage1 ==
    /\ doing = "write1" /\ doing' = "payload"
    /\ stage1' = "new" /\ raced' = FALSE
    /\ UNCHANGED <<table, sector, stage2, words, op, prev, forced, ops>>

\* rollbackStage2: a WriteStage2 of the old bytes, with its own check
CheckRollback == CheckBeforeWrite("undo", "rewrite2", "idle") /\ UNCHANGED prev

RollbackStage2 ==
    /\ doing = "rewrite2" /\ doing' = "idle"
    /\ stage2' = prev /\ raced' = FALSE
    /\ UNCHANGED <<table, sector, stage1, words, op, prev, forced, ops>>

\* The CMDLINE of the payload that is written then
WriteCmdline ==
    /\ doing = "payload" /\ doing' = "idle"
    /\ words' = NewWords
    /\ UNCHANGED <<table, sector, stage1, stage2, op, prev, raced, forced, ops>>

\* setInt13Chunk (`int13chunk N`, or update --int13chunk on an up-to-date disk)
SetInt13Chunk(v) ==
    LET out == SetCmdlineWord(words, "chunk", v)
    IN /\ doing = "idle" /\ words # <<>> /\ Counted
       /\ words' = IF out # words /\ CheckCmdlineLength(out) THEN out ELSE words
       /\ op' = [NoOp EXCEPT !.kind = "chunk", !.asked = v]
       /\ UNCHANGED <<table, sector, stage1, stage2, doing, prev, raced, forced>>

\* Another program writes the table; an administrator edits CMDLINE.
Repartition(t) ==
    /\ Counted /\ t # table /\ table' = t
    /\ raced' = (raced \/ doing \in {"write2", "write1", "rewrite2"})
    /\ UNCHANGED <<sector, stage1, stage2, words, doing, op, prev, forced>>
Edit(w) ==
    /\ doing = "idle" /\ words # <<>> /\ Counted
    /\ words' = w /\ op' = [NoOp EXCEPT !.kind = "edit"]
    /\ UNCHANGED <<table, sector, stage1, stage2, doing, prev, raced, forced>>

Next ==
    \/ \E i \in Images, a \in Asked, l \in Lists, f \in BOOLEAN, m \in Mounts, d \in Disks :
          Install(i, a, l, f, m, d)
    \/ \E i \in Images, a \in Asked, l \in Lists, f, s \in BOOLEAN,
          src \in Manual \cup {<<>>} : Update(i, a, l, f, s, src)
    \/ CheckStage2Write \/ WriteStage2
    \/ CheckStage1Write \/ WriteStage1
    \/ CheckRollback \/ RollbackStage2
    \/ WriteCmdline
    \/ \E v \in Asked \ {NotAsked} : SetInt13Chunk(v)
    \/ \E t \in Changed : Repartition(t)
    \/ \E w \in Manual : Edit(w)

Spec == Init /\ [][Next]_vars

-----------------------------------------------------------------------------
\* "Any OTHER overlap ... fails closed" (CheckStage2ExtentFree): however often the table
\* is replaced while a command waits at its prompt, or between its writes, a stage is
\* written only where no partition other than the stage2 reservation itself, and no GPT
\* array, has a sector of the stage2 extent, on a disk of 512-byte sectors; an install
\* writes the disk that carries the mounted ESP.  What escapes is a table replaced inside
\* the call that writes, between its check and its write (raced), and a partition of an
\* array that GPTPartitions does not read entry by entry (Misread).
WriteSafe ==
    [][stage1' # stage1 \/ stage2' # stage2 =>
          /\ \/ raced
             \/ /\ ~HoldsArray(table, Stage2LBA, Stage2End)
                /\ Misread(table) \/ ~Claimed(table, Stage2LBA, Stage2End)
          /\ sector = 512
          /\ op.kind = "install" => WholeDisk(op.mount.dev) = WholeDisk(op.disk)]_vars

\* A machine that is switched off between the write of stage2 and of stage1 starts:
\* the stage1 on the disk, old or new, accepts the stage2 there, unless --force wrote it.
PairStarts == stage1 # "none" /\ ~forced => Stage1Accepts(stage1, stage2)

\* The transfer size stage2 will use survives an update that does not name one
\* (applyInt13Chunk), whatever the installed CMDLINE says, and becomes the one asked for
\* where one is asked for.
ChunkKept ==
    [][words' # words /\ words # <<>> /\ op'.kind \in {"update", "chunk"} =>
          Stage2Chunk(words') =
              (IF op'.asked = NotAsked THEN Stage2Chunk(words)
               ELSE IF op'.asked = Default THEN Int13ChunkDefault ELSE op'.asked)]_vars

\* On a table the tool accepts, stage2's walk of the array (gpt_find_partition) finds the
\* first ESP entry there is, also in a last sector that is only partly filled.  Left out
\* are arrays whose entries straddle sectors, and counts that go round in uint32.
FindsESP ==
    CheckStage2ExtentFree(table) /\ table.gpt = "ok" /\ ~Misread(table) =>
        LET esps == {s \in table.slots : s.type = "esp"}
        IN Stage2ESP(table) = IF esps = {} THEN 0 ELSE Earliest(esps).start
=============================================================================
