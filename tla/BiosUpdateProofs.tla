-------------------------- MODULE BiosUpdateProofs --------------------------
(***************************************************************************)
(* Proofs about BiosUpdate, for every set of builds and every number of    *)
(* faults and kills: its type invariant; that CHECKSUM is never stale, and *)
(* never loses its BLKSUM, as long as the machine does not lose power, and *)
(* at most KERNEL disagrees with it when it does; that a command is all or *)
(* nothing; that the boot loader pair stays bootable.                      *)
(***************************************************************************)
EXTENDS BiosUpdate, TLAPS

\* A leaf is tried with Zenon, then with the SMT solver, then with Zenon for longer.
USE ZenonT(2), SMT, Zenon

(* CHECKSUM is absent, or describes the KERNEL and INITRD in e; the BLKSUM *)
(* in e agrees with it or is absent.                                       *)
Good(e) ==
    \/ e["CHECKSUM"] = Absent
    \/ /\ e["CHECKSUM"].k = e["KERNEL"].k /\ e["CHECKSUM"].i = e["INITRD"].i
       /\ \/ e["BLKSUM"].k = e["CHECKSUM"].k /\ e["BLKSUM"].i = e["CHECKSUM"].i
          \/ e["BLKSUM"] = Absent

(* The manifests in n are those of the kernel and initrd in e. *)
ManifestsOf(n, e) ==
    /\ n["BLKSUM"].k = e["KERNEL"].k /\ n["BLKSUM"].i = e["INITRD"].i
    /\ n["CHECKSUM"].k = e["KERNEL"].k /\ n["CHECKSUM"].i = e["INITRD"].i

Quiet == {"idle", "stage2", "stage1", "undo1", "undo2", "backup", "rmCHECKSUM", "rbCHECKSUM"}
AfterKernel == {"INITRD", "CMDLINE", "verify", "METADATA", "BLKSUM", "CHECKSUM"}
AfterInitrd == AfterKernel \ {"INITRD"}
Writing == {"rmBLKSUM", "KERNEL"} \cup AfterKernel
Restoring == {"rbBLKSUM", "rbKERNEL", "rbINITRD", "rbCMDLINE", "rbMETADATA", "putBLKSUM", "putCHECKSUM"}
Adding == {"addMETADATA", "addBLKSUM", "addCHECKSUM"}

(* Outside the write and restore sequences the manifests are in order. *)
QuietInv == step \in Quiet \cup Adding => Good(esp)

(* From its removal on there is no CHECKSUM until the last write, which    *)
(* finds the new kernel, initrd and BLKSUM in place.                       *)
WritingInv ==
    /\ step \in Writing => esp["CHECKSUM"] = Absent
    /\ step \in AfterKernel => esp["KERNEL"] = new["KERNEL"]
    /\ step \in AfterInitrd => esp["INITRD"] = new["INITRD"]
    /\ step = "CHECKSUM" => esp["BLKSUM"] = new["BLKSUM"]
    /\ step \in (Quiet \cup Writing) \ {"idle"} => ManifestsOf(new, new)

(* The same for a rollback whose restores all succeeded so far; what it    *)
(* puts back was in order when it was backed up.                           *)
RestoringInv ==
    /\ step \in {"rmCHECKSUM", "rbCHECKSUM"} \cup Writing \cup Restoring => Good(backup)
    /\ step \in Restoring => esp["CHECKSUM"] = Absent
    /\ ok /\ step \in Restoring \ {"rbBLKSUM", "putCHECKSUM"} => esp["BLKSUM"] = Absent
    /\ ok /\ step \in Restoring \ {"rbBLKSUM", "rbKERNEL"} => esp["KERNEL"] = backup["KERNEL"]
    /\ ok /\ step \in {"rbCMDLINE", "rbMETADATA", "putBLKSUM", "putCHECKSUM"}
          => esp["INITRD"] = backup["INITRD"]
    /\ ok /\ step = "putCHECKSUM" => esp["BLKSUM"] = backup["BLKSUM"]

(* integrity and verify --repair add manifests of the installed files. *)
AddingInv ==
    /\ step \in {"addMETADATA", "addBLKSUM"} => ManifestsOf(new, esp)
    /\ step = "addCHECKSUM" =>
         /\ new["CHECKSUM"].k = esp["KERNEL"].k /\ new["CHECKSUM"].i = esp["INITRD"].i
         /\ \/ esp["BLKSUM"].k = esp["KERNEL"].k /\ esp["BLKSUM"].i = esp["INITRD"].i
            \/ esp["BLKSUM"] = Absent

ManifestInv == stuck \/ cut \/ (QuietInv /\ WritingInv /\ RestoringInv /\ AddingInv)

Inv == TypeOK /\ ManifestInv
-----------------------------------------------------------------------------
(* The stamps the model builds are stamps. *)
LEMMA StampType ==
    /\ Absent \in Stamps
    /\ \A b \in Builds, m \in Modes \cup {"none"} : FilesOf(b, m) \in [Files -> Stamps]
    /\ \A e \in [Files -> Stamps], m \in Modes \cup {"none"} :
         e["KERNEL"] # Absent /\ e["INITRD"] # Absent /\ e["CMDLINE"] # Absent
           => Describe(e, m) \in Stamps \ {Absent}
    /\ \A s \in Stamps \ {Absent}, m \in Modes : WithMode(s, m) \in Stamps \ {Absent}
<1>1. Absent \in Stamps
  BY DEF Stamps
<1>2. \A k \in Builds, i \in Builds, c \in Builds, m \in Modes \cup {"none"} :
        Stamp(k, i, c, m) \in Stamps \ {Absent}
  BY BuildsAssumption DEF Stamps, Stamp, Absent
<1>3. \A s \in Stamps \ {Absent} : s.k \in Builds /\ s.i \in Builds /\ s.c \in Builds
  BY DEF Stamps
<1>4. \A e \in [Files -> Stamps] : e["KERNEL"] \in Stamps /\ e["INITRD"] \in Stamps /\ e["CMDLINE"] \in Stamps
  BY DEF Files, Payload
<1>5. \A b \in Builds, m \in Modes \cup {"none"} : FilesOf(b, m) \in [Files -> Stamps]
  BY <1>2 DEF FilesOf
<1>6. \A e \in [Files -> Stamps], m \in Modes \cup {"none"} :
        e["KERNEL"] # Absent /\ e["INITRD"] # Absent /\ e["CMDLINE"] # Absent
          => Describe(e, m) \in Stamps \ {Absent}
  <2> SUFFICES ASSUME NEW e \in [Files -> Stamps], NEW m \in Modes \cup {"none"},
                      e["KERNEL"] # Absent, e["INITRD"] # Absent, e["CMDLINE"] # Absent
               PROVE  Stamp(e["KERNEL"].k, e["INITRD"].i, e["CMDLINE"].c, m) \in Stamps \ {Absent}
    BY DEF Describe
  <2>1. e["KERNEL"].k \in Builds /\ e["INITRD"].i \in Builds /\ e["CMDLINE"].c \in Builds
    BY <1>3, <1>4
  <2> QED
    BY <2>1, <1>2
<1>7. \A s \in Stamps \ {Absent}, m \in Modes : WithMode(s, m) \in Stamps \ {Absent}
  BY <1>2, <1>3 DEF WithMode
<1> QED
  BY <1>1, <1>5, <1>6, <1>7

(* The region a build is written to holds a region value, not a torn one. *)
LEMMA BuildType == TypeOK => Build \in Regions \ {Torn}
<1> SUFFICES ASSUME TypeOK PROVE Build \in {0} \cup Builds
  BY BuildsAssumption DEF Regions, Torn
<1>1. new["KERNEL"] \in Stamps
  BY DEF TypeOK, Files, Payload
<1> QED
  BY <1>1 DEF Build, Stamps, Absent, Stamp

(* What an installation holds: KERNEL and INITRD of one build, and         *)
(* manifests of that build or none.                                        *)
LEMMA InstalledFiles ==
    ASSUME NEW b \in Builds, NEW mode \in Modes, NEW e \in Installed(b, mode)
    PROVE  /\ e["KERNEL"] = Stamp(b, b, b, "none") /\ e["INITRD"] = Stamp(b, b, b, "none")
           /\ e["BLKSUM"] \in {Absent, Stamp(b, b, b, "none")}
           /\ e["CHECKSUM"] \in {Absent, Stamp(b, b, b, mode)}
<1>1. /\ FilesOf(b, mode)["KERNEL"] = Stamp(b, b, b, "none")
      /\ FilesOf(b, mode)["INITRD"] = Stamp(b, b, b, "none")
      /\ FilesOf(b, mode)["BLKSUM"] = Stamp(b, b, b, "none")
      /\ FilesOf(b, mode)["CHECKSUM"] = Stamp(b, b, b, mode)
  BY DEF FilesOf, Files, Payload
<1>2. FilesOf(b, mode) = [f \in Files |-> FilesOf(b, mode)[f]]
  BY DEF FilesOf
<1> HIDE DEF FilesOf
<1> QED
  BY <1>1, <1>2 DEF Installed, Files, Payload

(* One step of the tool, of a kill or of a power loss keeps the types. *)
LEMMA TypeStep == TypeOK /\ [Next]_vars => TypeOK'
<1> SUFFICES ASSUME TypeOK, [Next]_vars PROVE TypeOK'
  OBVIOUS
<1> USE StampType, ModesAssumption, BoundsAssumption
<1>1. CASE Command
  <2>2. ASSUME NEW b \in Builds, NEW mode \in Modes \cup {"none"}, Begin(b, mode) PROVE TypeOK'
    BY <2>2 DEF Begin, TypeOK, Results, Steps, dir, stages
  <2>3. ASSUME NEW b \in Builds, NEW opt \in Modes \cup {"none"}, Update(b, opt) PROVE TypeOK'
    <3>1. KeptMode \in Modes \cup {"none"}
      BY DEF KeptMode, TypeOK, Files, Stamps
    <3> QED
      BY <2>3, <2>2, <3>1 DEF Update
  <2>4. ASSUME NEW b \in Builds, NEW mode \in Modes, Install(b, mode) PROVE TypeOK'
    BY <2>4, <2>2 DEF Install
  <2>5. ASSUME NEW mode \in Modes, SetIntegrityMode(mode) PROVE TypeOK'
    BY <2>5 DEF SetIntegrityMode, HasPayload, TypeOK, Results, Steps, Files, Payload, dir, stages
  <2>6. ASSUME Repair PROVE TypeOK'
    BY <2>6 DEF Repair, HasPayload, TypeOK, Results, Steps, dir, stages
  <2>1. ASSUME NEW b \in Builds, NEW opt \in Modes \cup {"none"}, UpdateUpToDate(b, opt) PROVE TypeOK'
    <3>1. CASE opt = "none"
      BY <2>1, <3>1 DEF UpdateUpToDate, TypeOK, Results, dir, stages
    <3>2. CASE opt # "none"
      BY <2>1, <3>2, <2>5 DEF UpdateUpToDate
    <3> QED
      BY <3>1, <3>2
  <2> QED
    BY <1>1, <2>1, <2>3, <2>4, <2>5, <2>6 DEF Command
<1>2. CASE WriteStages
  <2> USE BuildType DEF TypeOK, Steps, Results, Regions, Fault, NoFault, End, dir, run
  <2>1. CASE WriteStage2
    BY <2>1 DEF WriteStage2
  <2>2. CASE WriteStage1
    BY <2>2 DEF WriteStage1
  <2>3. CASE RollbackStage1
    BY <2>3 DEF RollbackStage1
  <2>4. CASE RollbackStage2
    <3>1. lost2' \in BOOLEAN
      BY <2>4, ZenonT(60) DEF RollbackStage2
    <3> QED
      BY <2>4, <3>1 DEF RollbackStage2
  <2> QED
    BY <1>2, <2>1, <2>2, <2>3, <2>4 DEF WriteStages
<1>3. CASE WritePayload
  <2> USE DEF TypeOK, Steps, Results, Fault, NoFault, End, dir, run, stages
  <2>1. CASE BackupPayload
    BY <2>1 DEF BackupPayload
  <2>2. ASSUME NEW at \in Steps, NEW f \in Files, NEW next \in Steps,
               RemoveManifest(at, f, next)
        PROVE  TypeOK'
    BY <2>2 DEF RemoveManifest
  <2>3. ASSUME NEW f \in Files, NEW next \in Steps, WriteFile(f, next)
        PROVE  TypeOK'
    BY <2>3 DEF WriteFile, Written, RenamedOnly
  <2>4. CASE VerifyPayload
    BY <2>4 DEF VerifyPayload
  <2> QED
    BY <1>3, <2>1, <2>2, <2>3, <2>4, ZenonT(60) DEF WritePayload, Files, Payload
<1>4. CASE RollbackPayload
  <2> USE DEF TypeOK, Steps, Results, Fault, NoFault, End, dir, run, stages
  <2>1. ASSUME NEW at \in Steps, NEW f \in Files, NEW next \in Steps,
               RollbackRemove(at, f, next)
        PROVE  TypeOK'
    <3>1. ok' \in BOOLEAN /\ stuck' \in BOOLEAN
      BY <2>1, ZenonT(60) DEF RollbackRemove
    <3> QED
      BY <2>1, <3>1 DEF RollbackRemove
  <2>2. ASSUME NEW at \in Steps, NEW f \in Files, NEW next \in Steps,
               RollbackRestore(at, f, next)
        PROVE  TypeOK'
    <3>1. ok' \in BOOLEAN
      BY <2>2, ZenonT(60) DEF RollbackRestore
    <3>2. esp' \in [Files -> Stamps] /\ synced' \in [Files -> Stamps]
      BY <2>2 DEF RollbackRestore, Restored, Written, RenamedOnly
    <3> QED
      BY <2>2, <3>1, <3>2 DEF RollbackRestore
  <2>3. ASSUME NEW at \in Steps, NEW f \in Files, NEW next \in Steps,
               RollbackManifest(at, f, next)
        PROVE  TypeOK'
    <3>1. ok' \in BOOLEAN
      BY <2>3, ZenonT(60) DEF RollbackManifest
    <3>2. esp' \in [Files -> Stamps] /\ synced' \in [Files -> Stamps]
      BY <2>3 DEF RollbackManifest, Written, RenamedOnly
    <3> QED
      BY <2>3, <3>1, <3>2 DEF RollbackManifest
  <2> QED
    BY <1>4, <2>1, <2>2, <2>3, ZenonT(60) DEF RollbackPayload, Files, Payload
<1>5. CASE AddManifest
  <2>1. ASSUME NEW at \in Steps, NEW f \in Files, NEW next \in Steps, Add(at, f, next)
        PROVE  TypeOK'
    BY <2>1 DEF Add, TypeOK, Steps, Results, Fault, NoFault, End, dir, run, stages, Written, RenamedOnly
  <2> QED
    BY <1>5, <2>1 DEF AddManifest, AddMetadata, AddBlkSum, AddCheckSum, Steps, Files, Payload
<1>6. CASE Kill
  BY <1>6, BuildType DEF Kill, Interrupted, Dead, End, TypeOK, Steps, Results, Regions, dir, run
<1>7. CASE LosePower
  <2>1. esp' \in [Files -> Stamps]
    BY <1>7 DEF LosePower, TypeOK
  <2> QED
    BY <1>7, <2>1, BuildType DEF LosePower, Interrupted, Dead, End, TypeOK, Steps, Results, Regions, dir, run
<1>8. CASE UNCHANGED vars
  BY <1>8 DEF vars, TypeOK
<1> QED
  BY <1>1, <1>2, <1>3, <1>4, <1>5, <1>6, <1>7, <1>8 DEF Next

(* Every variable of BiosUpdate keeps to its type in every behaviour: the  *)
(* commands of cmd/tool/main.go, their rollbacks, kills and power losses.  *)
THEOREM TypeCorrect == Spec => []TypeOK
<1>1. Init => TypeOK
  <2> SUFFICES ASSUME Init PROVE TypeOK
    OBVIOUS
  <2>1. esp \in [Files -> Stamps]
    BY StampType DEF Init, Installed
  <2>2. ok \in BOOLEAN /\ stuck \in BOOLEAN /\ cut \in BOOLEAN /\ lost2 \in BOOLEAN
    BY ZenonT(60) DEF Init
  <2>3. stage1 \in Regions /\ stage2 \in Regions
    BY DEF Init, Regions
  <2> QED
    BY <2>1, <2>2, <2>3, StampType, BoundsAssumption DEF Init, TypeOK, Regions, Steps, Results
<1> QED
  BY <1>1, TypeStep, PTL DEF Spec
-----------------------------------------------------------------------------
(* Once rollbackPayload could not remove CHECKSUM, or the machine lost     *)
(* power, the history flags stay.                                          *)
LEMMA ExceptionStays == TypeOK /\ [Next]_vars /\ (stuck \/ cut) => stuck' \/ cut'
<1> SUFFICES ASSUME TypeOK, [Next]_vars, stuck \/ cut PROVE stuck' \/ cut'
  OBVIOUS
<1>1. ASSUME UNCHANGED <<stuck, cut>> PROVE stuck' \/ cut'
  BY <1>1
<1>2. CASE Command
  BY <1>1, <1>2 DEF Command, UpdateUpToDate, Update, Install, Begin, SetIntegrityMode, Repair
<1>3. CASE WriteStages
  BY <1>1, <1>3 DEF WriteStages, WriteStage2, WriteStage1, RollbackStage1, RollbackStage2
<1>4. CASE WritePayload
  BY <1>1, <1>4 DEF WritePayload, BackupPayload, RemoveManifest, WriteFile, VerifyPayload
<1>5. CASE RollbackPayload
  <2>1. ASSUME NEW at, NEW f, NEW next, RollbackRemove(at, f, next) PROVE stuck' \/ cut'
    BY <2>1, ZenonT(60) DEF RollbackRemove
  <2> QED
    BY <1>1, <1>5, <2>1 DEF RollbackPayload, RollbackRestore, RollbackManifest
<1>6. CASE AddManifest
  BY <1>1, <1>6 DEF AddManifest, AddMetadata, AddBlkSum, AddCheckSum, Add
<1>7. CASE Kill \/ LosePower
  BY <1>1, <1>7 DEF Kill, LosePower
<1> QED
  BY <1>1, <1>2, <1>3, <1>4, <1>5, <1>6, <1>7 DEF Next, vars

(* What a build brings agrees with itself. *)
LEMMA NewManifests == \A b, m : ManifestsOf(FilesOf(b, m), FilesOf(b, m))
BY DEF ManifestsOf, FilesOf, Stamp, Files, Payload

(* One step keeps the manifests in order until an exception has happened. *)
LEMMA ManifestStep == TypeOK /\ ManifestInv /\ [Next]_vars => ManifestInv'
<1> SUFFICES ASSUME TypeOK, ManifestInv, [Next]_vars, ~stuck, ~cut
             PROVE  ManifestInv'
  BY ExceptionStays DEF ManifestInv
<1> DEFINE Parts == QuietInv /\ WritingInv /\ RestoringInv /\ AddingInv
<1>0. Parts
  BY DEF ManifestInv
<1>a. SUFFICES ASSUME ~stuck', ~cut' PROVE Parts'
  BY DEF ManifestInv
<1> HIDE DEF Parts
<1> USE DEF Quiet, AfterKernel, AfterInitrd, Writing, Restoring, Adding
<1>t. /\ esp \in [Files -> Stamps] /\ new \in [Files -> Stamps] /\ backup \in [Files -> Stamps]
      /\ ok \in BOOLEAN
  BY DEF TypeOK
<1>1. CASE Command
  <2>2. ASSUME NEW b \in Builds, NEW mode, Begin(b, mode), step = "idle" PROVE Parts'
    BY <2>2, <1>0, NewManifests
       DEF Parts, Begin, QuietInv, WritingInv, RestoringInv, AddingInv, dir, stages
  <2>3. ASSUME NEW mode \in Modes, SetIntegrityMode(mode) PROVE Parts'
    BY <2>3, <1>0, <1>t
       DEF Parts, SetIntegrityMode, QuietInv, WritingInv, RestoringInv, AddingInv, dir, stages,
           Good, ManifestsOf, Describe, WithMode, Stamp, Files, Payload
  <2>4. ASSUME Repair PROVE Parts'
    BY <2>4, <1>0, <1>t
       DEF Parts, Repair, QuietInv, WritingInv, RestoringInv, AddingInv, dir, stages,
           Good, ManifestsOf, Describe, Stamp, Files, Payload
  <2>1. ASSUME NEW b \in Builds, NEW opt \in Modes \cup {"none"}, UpdateUpToDate(b, opt) PROVE Parts'
    <3>1. CASE opt = "none"
      BY <2>1, <3>1, <1>0
         DEF Parts, UpdateUpToDate, QuietInv, WritingInv, RestoringInv, AddingInv, dir, stages
    <3>2. CASE opt # "none"
      BY <2>1, <3>2, <2>3 DEF UpdateUpToDate
    <3> QED
      BY <3>1, <3>2
  <2> QED
    BY <1>1, <2>1, <2>2, <2>3, <2>4 DEF Command, Update, Install
<1>2. CASE WriteStages
  <2> USE <1>0 DEF Parts, QuietInv, WritingInv, RestoringInv, AddingInv, dir, run, End
  <2>1. CASE WriteStage2
    BY <2>1 DEF WriteStage2
  <2>2. CASE WriteStage1
    BY <2>2 DEF WriteStage1
  <2>3. CASE RollbackStage1
    BY <2>3 DEF RollbackStage1
  <2>4. CASE RollbackStage2
    BY <2>4 DEF RollbackStage2
  <2> QED
    BY <1>2, <2>1, <2>2, <2>3, <2>4 DEF WriteStages
<1>3. CASE WritePayload
  <2> USE <1>0, <1>t DEF Parts, QuietInv, WritingInv, RestoringInv, AddingInv,
                         dir, run, stages, End, Files, Payload, Good
  <2>1. CASE BackupPayload
    BY <2>1 DEF BackupPayload
  <2>2. CASE RemoveManifest("rmCHECKSUM", "CHECKSUM", "rmBLKSUM")
    BY <2>2 DEF RemoveManifest
  <2>3. CASE RemoveManifest("rmBLKSUM", "BLKSUM", "KERNEL")
    BY <2>3 DEF RemoveManifest
  <2>4. CASE WriteFile("KERNEL", "INITRD")
    BY <2>4 DEF WriteFile, Written, RenamedOnly
  <2>5. CASE WriteFile("INITRD", "CMDLINE")
    BY <2>5 DEF WriteFile, Written, RenamedOnly
  <2>6. CASE WriteFile("CMDLINE", "verify")
    BY <2>6 DEF WriteFile, Written, RenamedOnly
  <2>7. CASE VerifyPayload
    BY <2>7 DEF VerifyPayload
  <2>8. CASE WriteFile("METADATA", "BLKSUM")
    BY <2>8 DEF WriteFile, Written, RenamedOnly
  <2>9. CASE WriteFile("BLKSUM", "CHECKSUM")
    BY <2>9 DEF WriteFile, Written, RenamedOnly
  <2>10. CASE WriteFile("CHECKSUM", "idle")
    BY <2>10 DEF WriteFile, Written, RenamedOnly, ManifestsOf
  <2> QED
    BY <1>3, <2>1, <2>2, <2>3, <2>4, <2>5, <2>6, <2>7, <2>8, <2>9, <2>10 DEF WritePayload
<1>4. CASE RollbackPayload
  <2> USE <1>0, <1>t DEF Parts, QuietInv, WritingInv, RestoringInv, AddingInv,
                         dir, run, stages, Files, Payload, Good
  <2>1. CASE RollbackRemove("rbCHECKSUM", "CHECKSUM", "rbBLKSUM")
    BY <2>1, <1>a DEF RollbackRemove
  <2>2. CASE RollbackRemove("rbBLKSUM", "BLKSUM", "rbKERNEL")
    BY <2>2 DEF RollbackRemove
  <2>3. CASE RollbackRestore("rbKERNEL", "KERNEL", "rbINITRD")
    BY <2>3 DEF RollbackRestore, Restored, Written, RenamedOnly
  <2>4. CASE RollbackRestore("rbINITRD", "INITRD", "rbCMDLINE")
    BY <2>4, SMTT(60) DEF RollbackRestore, Restored, Written, RenamedOnly
  <2>5. CASE RollbackRestore("rbCMDLINE", "CMDLINE", "rbMETADATA")
    BY <2>5 DEF RollbackRestore, Restored, Written, RenamedOnly
  <2>6. CASE RollbackRestore("rbMETADATA", "METADATA", "putBLKSUM")
    BY <2>6 DEF RollbackRestore, Restored, Written, RenamedOnly
  <2>7. CASE RollbackManifest("putBLKSUM", "BLKSUM", "putCHECKSUM")
    BY <2>7 DEF RollbackManifest, Written, RenamedOnly
  <2>8. CASE RollbackManifest("putCHECKSUM", "CHECKSUM", "idle")
    BY <2>8 DEF RollbackManifest, Written, RenamedOnly
  <2> QED
    BY <1>4, <2>1, <2>2, <2>3, <2>4, <2>5, <2>6, <2>7, <2>8 DEF RollbackPayload
<1>5. CASE AddManifest
  <2> USE <1>0, <1>t DEF Parts, QuietInv, WritingInv, RestoringInv, AddingInv, dir, run, stages,
                         End, Files, Payload, Good, ManifestsOf, Add, Written, RenamedOnly
  <2>1. CASE AddMetadata
    BY <2>1 DEF AddMetadata, BlkSumMissing
  <2>2. CASE AddBlkSum
    BY <2>2 DEF AddBlkSum
  <2>3. CASE AddCheckSum
    BY <2>3 DEF AddCheckSum
  <2> QED
    BY <1>5, <2>1, <2>2, <2>3 DEF AddManifest
<1>6. CASE Kill
  <2>1. Good(esp)
    BY <1>0 DEF TypeOK, Steps, Parts, QuietInv, WritingInv, RestoringInv, Good
  <2> QED
    BY <1>6, <2>1 DEF Kill, Dead, End, Parts, QuietInv, WritingInv, RestoringInv, AddingInv, dir, run, Good
<1>7. CASE LosePower
  BY <1>7, <1>a DEF LosePower
<1>8. CASE UNCHANGED vars
  BY <1>8, <1>0 DEF vars, Parts, QuietInv, WritingInv, RestoringInv, AddingInv
<1> QED
  BY <1>1, <1>2, <1>3, <1>4, <1>5, <1>6, <1>7, <1>8 DEF Next

(* The inductive invariant puts the manifests in order in every state. *)
LEMMA InvIsGood == TypeOK /\ ManifestInv => stuck \/ cut \/ Good(esp)
BY DEF TypeOK, Steps, ManifestInv, QuietInv, WritingInv, RestoringInv, Good,
       Quiet, AfterKernel, AfterInitrd, Writing, Restoring, Adding

(* The inductive invariant of ManifestSafe, on which BlkSumSafe rests too: *)
(* what is on the ESP at each step of the payload's writes, restores and   *)
(* repairs.                                                                *)
LEMMA ManifestInvariant == Spec => []Inv
<1>1. Init => ManifestInv
  <2> SUFFICES ASSUME Init PROVE ManifestInv
    OBVIOUS
  <2>1. Good(esp)
    <3>1. CASE esp = [f \in Files |-> Absent]
      BY <3>1 DEF Good, Files, Payload
    <3>2. CASE \E b \in Builds, mode \in Modes : esp \in Installed(b, mode)
      <4>1. PICK b \in Builds, mode \in Modes : esp \in Installed(b, mode)
        BY <3>2
      <4>2. /\ esp["KERNEL"] = Stamp(b, b, b, "none") /\ esp["INITRD"] = Stamp(b, b, b, "none")
            /\ esp["BLKSUM"] \in {Absent, Stamp(b, b, b, "none")}
            /\ esp["CHECKSUM"] \in {Absent, Stamp(b, b, b, mode)}
        BY <4>1, InstalledFiles
      <4> QED
        BY <4>2 DEF Good, Stamp
    <3> QED
      BY <3>1, <3>2 DEF Init
  <2> QED
    BY <2>1 DEF Init, ManifestInv, QuietInv, WritingInv, RestoringInv, AddingInv,
                Quiet, AfterKernel, AfterInitrd, Writing, Restoring, Adding
<1>2. TypeOK /\ ManifestInv /\ [Next]_vars => ManifestInv'
  BY ManifestStep
<1> QED
  BY <1>1, <1>2, TypeCorrect, PTL DEF Spec, Inv

(* Whatever fails and whenever the tool is killed, the commands            *)
(* (writePayloadWithRollback, rollbackPayload, setIntegrityMode, verify    *)
(* --repair) leave no CHECKSUM that disagrees with the installed KERNEL    *)
(* and INITRD, until rollbackPayload fails to remove one or the machine    *)
(* loses power: for every set of builds and any number of failures and     *)
(* kills.                                                                  *)
THEOREM ManifestSafe == Spec => []ManifestNeverStale
<1>1. Inv => ManifestNeverStale
  BY InvIsGood DEF Inv, Good, SumMatches, ManifestNeverStale
<1> QED
  BY <1>1, ManifestInvariant, PTL
-----------------------------------------------------------------------------
(* What has been written, and what has been restored, when each step runs. *)
AtomicWrite ==
    /\ step \in AfterKernel => esp["KERNEL"] = new["KERNEL"]
    /\ step \in AfterInitrd => esp["INITRD"] = new["INITRD"]
    /\ step \in {"verify", "METADATA", "BLKSUM", "CHECKSUM"} => esp["CMDLINE"] = new["CMDLINE"]
    /\ step \in {"BLKSUM", "CHECKSUM"} => esp["METADATA"] = new["METADATA"]
    /\ step = "CHECKSUM" => esp["BLKSUM"] = new["BLKSUM"]

AtomicRollback == ok =>
    /\ step \in Restoring => esp["CHECKSUM"] = Absent
    /\ step \in Restoring \ {"rbBLKSUM", "putCHECKSUM"} => esp["BLKSUM"] = Absent
    /\ step \in Restoring \ {"rbBLKSUM", "rbKERNEL"} => esp["KERNEL"] = backup["KERNEL"]
    /\ step \in {"rbCMDLINE", "rbMETADATA", "putBLKSUM", "putCHECKSUM"}
         => esp["INITRD"] = backup["INITRD"]
    /\ step \in {"rbMETADATA", "putBLKSUM", "putCHECKSUM"} => esp["CMDLINE"] = backup["CMDLINE"]
    /\ step \in {"putBLKSUM", "putCHECKSUM"} => esp["METADATA"] = backup["METADATA"]
    /\ step = "putCHECKSUM" => esp["BLKSUM"] = backup["BLKSUM"]

AtomicInv ==
    /\ AtomicWrite /\ AtomicRollback
    /\ step \in {"stage2", "stage1", "undo1", "undo2", "backup"} => esp = before
    /\ step \in {"rmCHECKSUM", "rbCHECKSUM"} \cup Writing \cup Restoring => backup = before
    /\ result \in {"ok", "failed", "refused"} => step = "idle"
    /\ AllOrNothing

(* Two directories that agree on the six files are equal. *)
LEMMA SameFiles ==
    ASSUME NEW d \in [Files -> Stamps], NEW e \in [Files -> Stamps],
           d["KERNEL"] = e["KERNEL"], d["INITRD"] = e["INITRD"], d["CMDLINE"] = e["CMDLINE"],
           d["METADATA"] = e["METADATA"], d["BLKSUM"] = e["BLKSUM"], d["CHECKSUM"] = e["CHECKSUM"]
    PROVE  d = e
<1>1. \A f \in Files : d[f] = e[f]
  BY DEF Files, Payload
<1> QED
  BY <1>1

(* Every step keeps the record of which files an unfinished command has    *)
(* changed, the inductive invariant of UpdateIsAtomic.                     *)
LEMMA AtomicStep == TypeOK /\ AtomicInv /\ [Next]_vars => AtomicInv'
<1> SUFFICES ASSUME TypeOK, AtomicInv, [Next]_vars PROVE AtomicInv'
  OBVIOUS
<1> USE DEF AfterKernel, AfterInitrd, Writing, Restoring
<1>t. /\ esp \in [Files -> Stamps] /\ new \in [Files -> Stamps] /\ backup \in [Files -> Stamps]
      /\ ok \in BOOLEAN
  BY DEF TypeOK
<1>u. esp' \in [Files -> Stamps] /\ new' \in [Files -> Stamps] /\ backup' \in [Files -> Stamps]
  BY TypeStep DEF TypeOK
<1>1. CASE Command
  BY <1>1 DEF Command, UpdateUpToDate, Update, Install, Begin, SetIntegrityMode, Repair,
              AtomicInv, AtomicWrite, AtomicRollback, AllOrNothing, dir, stages
<1>2. CASE WriteStages
  BY <1>2 DEF WriteStages, WriteStage2, WriteStage1, RollbackStage1, RollbackStage2, End,
              AtomicInv, AtomicWrite, AtomicRollback, AllOrNothing, dir, run
<1>3. CASE WritePayload
  <2> USE <1>t DEF AtomicInv, AtomicWrite, AtomicRollback, AllOrNothing,
                   dir, run, stages, End, Files, Payload
  <2>1. CASE BackupPayload
    BY <2>1 DEF BackupPayload
  <2>2. CASE RemoveManifest("rmCHECKSUM", "CHECKSUM", "rmBLKSUM")
    BY <2>2 DEF RemoveManifest
  <2>3. CASE RemoveManifest("rmBLKSUM", "BLKSUM", "KERNEL")
    BY <2>3 DEF RemoveManifest
  <2>4. CASE WriteFile("KERNEL", "INITRD")
    BY <2>4 DEF WriteFile, Written, RenamedOnly
  <2>5. CASE WriteFile("INITRD", "CMDLINE")
    BY <2>5 DEF WriteFile, Written, RenamedOnly
  <2>6. CASE WriteFile("CMDLINE", "verify")
    BY <2>6 DEF WriteFile, Written, RenamedOnly
  <2>7. CASE VerifyPayload
    BY <2>7 DEF VerifyPayload
  <2>8. CASE WriteFile("METADATA", "BLKSUM")
    BY <2>8 DEF WriteFile, Written, RenamedOnly
  <2>9. CASE WriteFile("BLKSUM", "CHECKSUM")
    BY <2>9 DEF WriteFile, Written, RenamedOnly
  <2>10. CASE WriteFile("CHECKSUM", "idle")
    BY <2>10 DEF WriteFile, Written, RenamedOnly
  <2> QED
    BY <1>3, <2>1, <2>2, <2>3, <2>4, <2>5, <2>6, <2>7, <2>8, <2>9, <2>10 DEF WritePayload
<1>4. CASE RollbackPayload
  <2> USE <1>t DEF AtomicInv, AtomicWrite, AtomicRollback, AllOrNothing,
                   dir, run, stages, Files, Payload
  <2>1. CASE RollbackRemove("rbCHECKSUM", "CHECKSUM", "rbBLKSUM")
    BY <2>1 DEF RollbackRemove
  <2>2. CASE RollbackRemove("rbBLKSUM", "BLKSUM", "rbKERNEL")
    BY <2>2 DEF RollbackRemove
  <2>3. CASE RollbackRestore("rbKERNEL", "KERNEL", "rbINITRD")
    BY <2>3 DEF RollbackRestore, Restored, Written, RenamedOnly
  <2>4. CASE RollbackRestore("rbINITRD", "INITRD", "rbCMDLINE")
    BY <2>4 DEF RollbackRestore, Restored, Written, RenamedOnly
  <2>5. CASE RollbackRestore("rbCMDLINE", "CMDLINE", "rbMETADATA")
    BY <2>5 DEF RollbackRestore, Restored, Written, RenamedOnly
  <2>6. CASE RollbackRestore("rbMETADATA", "METADATA", "putBLKSUM")
    BY <2>6 DEF RollbackRestore, Restored, Written, RenamedOnly
  <2>7. CASE RollbackManifest("putBLKSUM", "BLKSUM", "putCHECKSUM")
    BY <2>7 DEF RollbackManifest, Written, RenamedOnly
  <2>8. CASE RollbackManifest("putCHECKSUM", "CHECKSUM", "idle")
    BY <2>8, <1>u, SameFiles DEF RollbackManifest, Written, RenamedOnly
  <2> QED
    BY <1>4, <2>1, <2>2, <2>3, <2>4, <2>5, <2>6, <2>7, <2>8 DEF RollbackPayload
<1>5. CASE AddManifest
  BY <1>5 DEF AddManifest, AddMetadata, AddBlkSum, AddCheckSum, Add, End,
              AtomicInv, AtomicWrite, AtomicRollback, AllOrNothing, dir, run, stages
<1>6. CASE Kill \/ LosePower
  BY <1>6 DEF Kill, LosePower, Dead, End, AtomicInv, AtomicWrite, AtomicRollback, AllOrNothing, run
<1>7. CASE UNCHANGED vars
  BY <1>7 DEF vars, AtomicInv, AtomicWrite, AtomicRollback, AllOrNothing
<1> QED
  BY <1>1, <1>2, <1>3, <1>4, <1>5, <1>6, <1>7 DEF Next

(* The inductive invariant of UpdateIsAtomic holds in every behaviour: what *)
(* a command has changed of the six files, and what its backup holds.      *)
LEMMA AtomicInvariant == Spec => []AtomicInv
<1>1. Init => AtomicInv
  BY DEF Init, AtomicInv, AtomicWrite, AtomicRollback, AllOrNothing,
         AfterKernel, AfterInitrd, Writing, Restoring
<1> QED
  BY <1>1, AtomicStep, TypeCorrect, PTL DEF Spec

(* An install or update that reports success has written all six files; a  *)
(* failure with every restore successful leaves all six, the integrity     *)
(* mode included, as they were: in every behaviour, power losses included. *)
THEOREM UpdateIsAtomic == Spec => []AllOrNothing
<1>1. AtomicInv => AllOrNothing
  BY DEF AtomicInv
<1> QED
  BY <1>1, AtomicInvariant, PTL
-----------------------------------------------------------------------------
(* A CHECKSUM without BLKSUM is the one the command found. *)
CarriedOver ==
    Bare(esp) => /\ Bare(before)
                 /\ esp["CHECKSUM"].k = before["CHECKSUM"].k
                 /\ esp["CHECKSUM"].i = before["CHECKSUM"].i

(* A command that is to write CHECKSUM, and found none without BLKSUM, has *)
(* a BLKSUM to write, or has written it.                                   *)
BareInv == \/ stuck \/ cut
           \/ /\ CarriedOver
              /\ step \in (Quiet \cup Writing \cup {"addMETADATA", "addBLKSUM"}) \ {"idle"}
                   => new["BLKSUM"] # Absent
              /\ step = "addCHECKSUM" => esp["BLKSUM"] # Absent \/ Bare(esp)

(* What a build brings has a BLKSUM. *)
LEMMA NewBlkSum == \A b \in Builds : \A m : FilesOf(b, m)["BLKSUM"] # Absent
BY BuildsAssumption DEF FilesOf, Absent, Stamp, Files, Payload

(* One step leaves no CHECKSUM without BLKSUM but the one the command      *)
(* found, until an exception has happened.                                 *)
LEMMA BareStep == TypeOK /\ ManifestInv /\ AtomicInv /\ BareInv /\ [Next]_vars => BareInv'
<1> SUFFICES ASSUME TypeOK, ManifestInv, AtomicInv, BareInv, [Next]_vars, ~stuck, ~cut
             PROVE  BareInv'
  BY ExceptionStays DEF BareInv
<1>a. SUFFICES ASSUME ~stuck', ~cut' PROVE BareInv'
  BY DEF BareInv
<1>m. QuietInv /\ WritingInv /\ RestoringInv /\ AddingInv
  BY DEF ManifestInv
<1>t. /\ esp \in [Files -> Stamps] /\ new \in [Files -> Stamps] /\ backup \in [Files -> Stamps]
      /\ before \in [Files -> Stamps] /\ ok \in BOOLEAN
  BY DEF TypeOK
<1> USE DEF Quiet, AfterKernel, AfterInitrd, Writing, Restoring, Adding
<1>1. CASE Command
  <2>2. ASSUME NEW b \in Builds, NEW mode, Begin(b, mode) PROVE BareInv'
    BY <2>2, NewBlkSum DEF Begin, BareInv, CarriedOver, Bare, dir
  <2>3. ASSUME NEW mode \in Modes, SetIntegrityMode(mode) PROVE BareInv'
    BY <2>3, <1>t, StampType
       DEF SetIntegrityMode, HasPayload, BareInv, CarriedOver, Bare, Files, Payload, dir
  <2>4. ASSUME Repair PROVE BareInv'
    BY <2>4, <1>t, StampType DEF Repair, HasPayload, BareInv, CarriedOver, Bare, Files, Payload, dir
  <2>1. ASSUME NEW b \in Builds, NEW opt \in Modes \cup {"none"}, UpdateUpToDate(b, opt) PROVE BareInv'
    <3>1. CASE opt = "none"
      BY <2>1, <3>1 DEF UpdateUpToDate, BareInv, CarriedOver, Bare, dir
    <3>2. CASE opt # "none"
      BY <2>1, <3>2, <2>3 DEF UpdateUpToDate
    <3> QED
      BY <3>1, <3>2
  <2> QED
    BY <1>1, <2>1, <2>2, <2>3, <2>4 DEF Command, Update, Install
<1>2. CASE WriteStages
  BY <1>2 DEF WriteStages, WriteStage2, WriteStage1, RollbackStage1, RollbackStage2, End,
              BareInv, CarriedOver, Bare, dir, run
<1>3. CASE WritePayload
  <2> USE <1>t, <1>m DEF BareInv, CarriedOver, Bare, dir, run, End, Files, Payload
  <2>1. CASE BackupPayload
    BY <2>1 DEF BackupPayload
  <2>2. CASE RemoveManifest("rmCHECKSUM", "CHECKSUM", "rmBLKSUM")
    BY <2>2 DEF RemoveManifest
  <2>3. CASE RemoveManifest("rmBLKSUM", "BLKSUM", "KERNEL")
    BY <2>3 DEF RemoveManifest, WritingInv
  <2>4. ASSUME NEW f \in Payload, NEW next \in Writing, WriteFile(f, next) PROVE BareInv'
    BY <2>4 DEF WriteFile, Written, RenamedOnly, WritingInv
  <2>5. CASE WriteFile("BLKSUM", "CHECKSUM")
    BY <2>5 DEF WriteFile, Written, RenamedOnly, WritingInv
  <2>6. CASE WriteFile("CHECKSUM", "idle")
    BY <2>6 DEF WriteFile, Written, RenamedOnly, WritingInv
  <2>7. CASE VerifyPayload
    BY <2>7 DEF VerifyPayload
  <2> QED
    BY <1>3, <2>1, <2>2, <2>3, <2>4, <2>5, <2>6, <2>7 DEF WritePayload
<1>4. CASE RollbackPayload
  <2> USE <1>t, <1>m DEF BareInv, CarriedOver, Bare, dir, run, Files, Payload, RestoringInv
  <2>1. CASE RollbackRemove("rbCHECKSUM", "CHECKSUM", "rbBLKSUM")
    BY <2>1, <1>a DEF RollbackRemove
  <2>2. CASE RollbackRemove("rbBLKSUM", "BLKSUM", "rbKERNEL")
    BY <2>2 DEF RollbackRemove
  <2>3. ASSUME NEW at \in Restoring, NEW f \in Payload, NEW next \in Restoring,
               RollbackRestore(at, f, next)
        PROVE  BareInv'
    BY <2>3 DEF RollbackRestore, Restored, Written, RenamedOnly
  <2>4. CASE RollbackManifest("putBLKSUM", "BLKSUM", "putCHECKSUM")
    BY <2>4 DEF RollbackManifest, Written, RenamedOnly
  <2>5. CASE RollbackManifest("putCHECKSUM", "CHECKSUM", "idle")
    <3>1. backup = before
      BY <2>5 DEF RollbackManifest, AtomicInv
    <3> QED
      BY <2>5, <3>1 DEF RollbackManifest, Written, RenamedOnly
  <2> QED
    BY <1>4, <2>1, <2>2, <2>3, <2>4, <2>5 DEF RollbackPayload
<1>5. CASE AddManifest
  <2> USE <1>t, <1>m DEF BareInv, CarriedOver, Bare, dir, run, End, Files, Payload,
                         Add, Written, RenamedOnly
  <2>1. CASE AddMetadata
    BY <2>1 DEF AddMetadata
  <2>2. CASE AddBlkSum
    BY <2>2 DEF AddBlkSum
  <2>3. CASE AddCheckSum
    BY <2>3 DEF AddCheckSum, QuietInv, Good, AddingInv
  <2> QED
    BY <1>5, <2>1, <2>2, <2>3 DEF AddManifest
<1>6. CASE Kill
  BY <1>6 DEF Kill, Dead, End, BareInv, CarriedOver, Bare, dir, run
<1>7. CASE LosePower
  BY <1>7, <1>a DEF LosePower
<1>8. CASE UNCHANGED vars
  BY <1>8 DEF vars, BareInv, CarriedOver, Bare
<1> QED
  BY <1>1, <1>2, <1>3, <1>4, <1>5, <1>6, <1>7, <1>8 DEF Next

(* No command of the tool, however it fails and whenever it is killed,     *)
(* leaves a CHECKSUM without the BLKSUM that agrees with it, unless it     *)
(* found just that CHECKSUM without BLKSUM (an installation of the         *)
(* previous release): rollbackPayload restores no more than there was, and *)
(* setIntegrityMode changes only the mode.                                 *)
THEOREM BlkSumSafe == Spec => []SumHasItsBlkSum
<1>1. Init => BareInv
  BY DEF Init, BareInv, CarriedOver, Bare, Quiet, AfterKernel, Writing
<1>2. Inv /\ BareInv => SumHasItsBlkSum
  BY InvIsGood DEF Inv, Good, SumHasItsBlkSum, BareInv, CarriedOver, Bare
<1>3. Inv /\ AtomicInv /\ BareInv /\ [Next]_vars => BareInv'
  BY BareStep DEF Inv
<1> QED
  BY <1>1, <1>2, <1>3, ManifestInvariant, AtomicInvariant, PTL DEF Spec
-----------------------------------------------------------------------------
(* What rollbackStage2 restores is never a half-written stage2. *)
PairInv == BootablePair /\ (prev2 = Torn => lost2)

(* A half-written stage2 never outlives writeBIOSStagesWithRollback,       *)
(* unless the write of stage2 or its rollback was interrupted, or the      *)
(* rollback failed.                                                        *)
THEOREM PairStaysBootable == Spec => []BootablePair
<1>1. Init => PairInv
  BY BuildsAssumption DEF Init, PairInv, BootablePair, Torn
<1>2. TypeOK /\ PairInv /\ [Next]_vars => PairInv'
  <2> SUFFICES ASSUME TypeOK, PairInv, [Next]_vars PROVE PairInv'
    OBVIOUS
  <2>0. Build # Torn
    BY BuildType
  <2> USE DEF PairInv, BootablePair
  <2>1. ASSUME UNCHANGED stages, step # "undo2" PROVE PairInv'
    BY <2>1 DEF stages
  <2>2. CASE Command
    BY <2>1, <2>2 DEF Command, UpdateUpToDate, Update, Install, Begin, SetIntegrityMode, Repair
  <2>3. CASE WriteStages
    <3>1. CASE WriteStage2
      BY <3>1, <2>0 DEF WriteStage2, End
    <3>2. CASE WriteStage1
      BY <3>2 DEF WriteStage1
    <3>3. CASE RollbackStage1
      BY <3>3 DEF RollbackStage1
    <3>4. CASE RollbackStage2
      BY <3>4 DEF RollbackStage2, End
    <3> QED
      BY <2>3, <3>1, <3>2, <3>3, <3>4 DEF WriteStages
  <2>4. CASE WritePayload
    BY <2>1, <2>4 DEF WritePayload, BackupPayload, RemoveManifest, WriteFile, VerifyPayload
  <2>5. CASE RollbackPayload
    BY <2>1, <2>5 DEF RollbackPayload, RollbackRemove, RollbackRestore, RollbackManifest
  <2>6. CASE AddManifest
    BY <2>1, <2>6 DEF AddManifest, AddMetadata, AddBlkSum, AddCheckSum, Add
  <2>7. CASE Kill \/ LosePower
    <3>1. CASE step \in {"stage2", "undo2"}
      BY <2>7, <3>1, ZenonT(60) DEF Kill, LosePower
    <3>2. CASE step \notin {"stage2", "undo2"}
      BY <2>7, <3>2, ZenonT(60) DEF Kill, LosePower, Interrupted
    <3> QED
      BY <3>1, <3>2
  <2>9. CASE UNCHANGED vars
    BY <2>9 DEF vars
  <2> QED
    BY <2>2, <2>3, <2>4, <2>5, <2>6, <2>7, <2>9 DEF Next
<1>3. PairInv => BootablePair
  BY DEF PairInv
<1> QED
  BY <1>1, <1>2, <1>3, TypeCorrect, PTL DEF Spec
-----------------------------------------------------------------------------
(* A CHECKSUM describes the INITRD next to it, which is there. *)
Sound(e) ==
    \/ e["CHECKSUM"] = Absent
    \/ e["CHECKSUM"].i = e["INITRD"].i /\ e["INITRD"] # Absent

(* Whatever mixture of the directory and the medium a power loss leaves,   *)
(* the CHECKSUM of either stands next to the same INITRD.                  *)
SameInitrd ==
    /\ Sound(esp) /\ Sound(synced)
    /\ esp["CHECKSUM"] # Absent \/ synced["CHECKSUM"] # Absent => esp["INITRD"] = synced["INITRD"]

(* The first WriteFile, of KERNEL, brings the removal of CHECKSUM to the   *)
(* medium; each later one leaves nothing behind.                           *)
SyncWriting ==
    /\ step \in Writing => esp["CHECKSUM"] = Absent
    /\ step \in {"rmCHECKSUM", "rmBLKSUM", "KERNEL"} => esp["INITRD"] = backup["INITRD"]
    /\ step \in AfterKernel => synced = esp
    /\ step \in AfterInitrd => esp["INITRD"] = new["INITRD"]
    /\ step \in {"stage2", "stage1", "undo1", "undo2", "backup", "rmCHECKSUM"} \cup Writing
         => new["CHECKSUM"].i = new["INITRD"].i /\ new["INITRD"] # Absent

(* A rollback that finds a CHECKSUM on the medium restores the INITRD that *)
(* is there already, and it puts CHECKSUM back behind a synced INITRD.     *)
SyncRestoring ==
    /\ step \in {"rmCHECKSUM", "rbCHECKSUM"} \cup Writing \cup Restoring => Sound(backup)
    /\ step \in Restoring => esp["CHECKSUM"] = Absent
    /\ step \in {"rbCHECKSUM"} \cup Restoring /\ synced["CHECKSUM"] # Absent
         => esp["INITRD"] = backup["INITRD"]
    /\ ok /\ step \in {"rbCMDLINE", "rbMETADATA", "putBLKSUM", "putCHECKSUM"}
         => /\ esp["INITRD"] = backup["INITRD"]
            /\ backup["INITRD"] # Absent => synced["INITRD"] = backup["INITRD"]

(* A manifest is added for the INITRD that is on the medium. *)
SyncAdding ==
    /\ step \in Adding => new["CHECKSUM"].i = esp["INITRD"].i /\ esp["INITRD"] # Absent
    /\ step = "addCHECKSUM" => synced["INITRD"] = esp["INITRD"]

SyncInv == stuck \/ (SameInitrd /\ SyncWriting /\ SyncRestoring /\ SyncAdding)

(* Once rollbackPayload could not remove CHECKSUM, that stays known. *)
LEMMA StuckStays == TypeOK /\ [Next]_vars /\ stuck => stuck'
<1> SUFFICES ASSUME TypeOK, [Next]_vars, stuck PROVE stuck'
  OBVIOUS
<1>1. ASSUME UNCHANGED stuck PROVE stuck'
  BY <1>1
<1>2. CASE Command
  BY <1>1, <1>2 DEF Command, UpdateUpToDate, Update, Install, Begin, SetIntegrityMode, Repair
<1>3. CASE WriteStages
  BY <1>1, <1>3 DEF WriteStages, WriteStage2, WriteStage1, RollbackStage1, RollbackStage2
<1>4. CASE WritePayload
  BY <1>1, <1>4 DEF WritePayload, BackupPayload, RemoveManifest, WriteFile, VerifyPayload
<1>5. CASE RollbackPayload
  <2>1. ASSUME NEW at, NEW f, NEW next, RollbackRemove(at, f, next) PROVE stuck'
    BY <2>1, ZenonT(60) DEF RollbackRemove
  <2> QED
    BY <1>1, <1>5, <2>1 DEF RollbackPayload, RollbackRestore, RollbackManifest
<1>6. CASE AddManifest
  BY <1>1, <1>6 DEF AddManifest, AddMetadata, AddBlkSum, AddCheckSum, Add
<1>7. CASE Kill \/ LosePower
  BY <1>1, <1>7 DEF Kill, LosePower
<1> QED
  BY <1>1, <1>2, <1>3, <1>4, <1>5, <1>6, <1>7 DEF Next, vars

(* What a build brings has an INITRD, and its CHECKSUM describes it. *)
LEMMA NewSound ==
    ASSUME NEW b \in Builds, NEW m
    PROVE  /\ FilesOf(b, m)["CHECKSUM"].i = FilesOf(b, m)["INITRD"].i
           /\ FilesOf(b, m)["INITRD"] # Absent
BY BuildsAssumption DEF FilesOf, Absent, Stamp, Files, Payload

(* After a power loss the medium is what is left: any mixture of the       *)
(* directory and the medium, with the file under way renamed or not.       *)
LEMMA PowerLossSound ==
    ASSUME TypeOK, SameInitrd, SyncWriting, SyncRestoring, SyncAdding, LosePower
    PROVE  Sound(esp')
<1>t. esp \in [Files -> Stamps] /\ synced \in [Files -> Stamps]
  BY DEF TypeOK
<1>1. PICK kept \in SUBSET {f \in Files : esp[f] # synced[f]}, renamed \in BOOLEAN :
         esp' = [f \in Files |->
                   IF renamed /\ step \in NewAt(f) THEN new[f]
                   ELSE IF renamed /\ step = OldAt[f] /\ (ok \/ f \in Payload) THEN backup[f]
                   ELSE IF f \in kept THEN esp[f] ELSE synced[f]]
  BY DEF LosePower
<1>2. "CHECKSUM" \in Files /\ "INITRD" \in Files /\ "CHECKSUM" \notin Payload /\ "INITRD" \in Payload
  BY DEF Files, Payload
<1>3. /\ NewAt("CHECKSUM") = {"CHECKSUM", "addCHECKSUM"} /\ NewAt("INITRD") = {"INITRD"}
      /\ OldAt["CHECKSUM"] = "putCHECKSUM" /\ OldAt["INITRD"] = "rbINITRD"
  BY DEF NewAt, OldAt
<1>4. /\ \/ renamed /\ step \in {"CHECKSUM", "addCHECKSUM"} /\ esp'["CHECKSUM"] = new["CHECKSUM"]
         \/ renamed /\ step = "putCHECKSUM" /\ ok /\ esp'["CHECKSUM"] = backup["CHECKSUM"]
         \/ esp'["CHECKSUM"] \in {esp["CHECKSUM"], synced["CHECKSUM"]}
      /\ \/ renamed /\ step = "INITRD" /\ esp'["INITRD"] = new["INITRD"]
         \/ renamed /\ step = "rbINITRD" /\ esp'["INITRD"] = backup["INITRD"]
         \/ esp'["INITRD"] \in {esp["INITRD"], synced["INITRD"]}
  BY <1>1, <1>2, <1>3
<1> USE DEF Writing, AfterKernel, AfterInitrd, Restoring, Adding
<1>5. CASE step = "INITRD"
  BY <1>4, <1>5 DEF Sound, SyncWriting
<1>6. CASE step = "rbINITRD"
  BY <1>4, <1>6 DEF Sound, SameInitrd, SyncRestoring
<1>7. CASE step = "CHECKSUM"
  BY <1>4, <1>7 DEF Sound, SyncWriting
<1>8. CASE step = "addCHECKSUM"
  BY <1>4, <1>8 DEF Sound, SameInitrd, SyncAdding
<1>9. CASE step = "putCHECKSUM"
  BY <1>4, <1>9 DEF Sound, SameInitrd, SyncRestoring
<1>10. CASE step \notin {"INITRD", "rbINITRD", "CHECKSUM", "addCHECKSUM", "putCHECKSUM"}
  BY <1>4, <1>10 DEF Sound, SameInitrd
<1> QED
  BY <1>5, <1>6, <1>7, <1>8, <1>9, <1>10

(* Every step, power losses included, keeps what the directory and the     *)
(* medium hold in agreement about INITRD.                                  *)
LEMMA SyncStep == TypeOK /\ SyncInv /\ [Next]_vars => SyncInv'
<1> SUFFICES ASSUME TypeOK, SyncInv, [Next]_vars, ~stuck PROVE SyncInv'
  BY StuckStays DEF SyncInv
<1> DEFINE Parts == SameInitrd /\ SyncWriting /\ SyncRestoring /\ SyncAdding
<1>0. Parts
  BY DEF SyncInv
<1>a. SUFFICES ASSUME ~stuck' PROVE Parts'
  BY DEF SyncInv
<1> HIDE DEF Parts
<1> USE DEF AfterKernel, AfterInitrd, Writing, Restoring, Adding
<1>t. /\ esp \in [Files -> Stamps] /\ synced \in [Files -> Stamps]
      /\ new \in [Files -> Stamps] /\ backup \in [Files -> Stamps] /\ ok \in BOOLEAN
  BY DEF TypeOK
<1>1. CASE Command
  <2>2. ASSUME NEW b \in Builds, NEW mode, Begin(b, mode), step = "idle" PROVE Parts'
    BY <2>2, <1>0, NewSound
       DEF Parts, Begin, SameInitrd, SyncWriting, SyncRestoring, SyncAdding, dir, stages
  <2>3. ASSUME NEW mode \in Modes, SetIntegrityMode(mode) PROVE Parts'
    BY <2>3, <1>0, <1>t
       DEF Parts, SetIntegrityMode, SameInitrd, SyncWriting, SyncRestoring, SyncAdding, dir, stages,
           Sound, HasPayload, Describe, WithMode, Stamp, Files, Payload
  <2>4. ASSUME Repair PROVE Parts'
    BY <2>4, <1>0, <1>t
       DEF Parts, Repair, SameInitrd, SyncWriting, SyncRestoring, SyncAdding, dir, stages,
           HasPayload, Describe, Stamp, Files, Payload
  <2>1. ASSUME NEW b \in Builds, NEW opt \in Modes \cup {"none"}, UpdateUpToDate(b, opt) PROVE Parts'
    <3>1. CASE opt = "none"
      BY <2>1, <3>1, <1>0
         DEF Parts, UpdateUpToDate, SameInitrd, SyncWriting, SyncRestoring, SyncAdding, dir, stages
    <3>2. CASE opt # "none"
      BY <2>1, <3>2, <2>3 DEF UpdateUpToDate
    <3> QED
      BY <3>1, <3>2
  <2> QED
    BY <1>1, <2>1, <2>2, <2>3, <2>4 DEF Command, Update, Install
<1>2. CASE WriteStages
  <2> USE <1>0 DEF Parts, SameInitrd, SyncWriting, SyncRestoring, SyncAdding, dir, run, End
  <2>1. CASE WriteStage2
    BY <2>1 DEF WriteStage2
  <2>2. CASE WriteStage1
    BY <2>2 DEF WriteStage1
  <2>3. CASE RollbackStage1
    BY <2>3 DEF RollbackStage1
  <2>4. CASE RollbackStage2
    BY <2>4 DEF RollbackStage2
  <2> QED
    BY <1>2, <2>1, <2>2, <2>3, <2>4 DEF WriteStages
<1>3. CASE WritePayload
  <2> USE <1>0, <1>t DEF Parts, SameInitrd, SyncWriting, SyncRestoring, SyncAdding,
                         dir, run, stages, End, Files, Payload, Sound
  <2>1. CASE BackupPayload
    BY <2>1 DEF BackupPayload
  <2>2. CASE RemoveManifest("rmCHECKSUM", "CHECKSUM", "rmBLKSUM")
    BY <2>2 DEF RemoveManifest
  <2>3. CASE RemoveManifest("rmBLKSUM", "BLKSUM", "KERNEL")
    BY <2>3 DEF RemoveManifest
  <2>4. CASE WriteFile("KERNEL", "INITRD")
    BY <2>4 DEF WriteFile, Written, RenamedOnly
  <2>5. CASE WriteFile("INITRD", "CMDLINE")
    BY <2>5 DEF WriteFile, Written, RenamedOnly
  <2>6. CASE WriteFile("CMDLINE", "verify")
    BY <2>6 DEF WriteFile, Written, RenamedOnly
  <2>7. CASE VerifyPayload
    BY <2>7 DEF VerifyPayload
  <2>8. CASE WriteFile("METADATA", "BLKSUM")
    BY <2>8 DEF WriteFile, Written, RenamedOnly
  <2>9. CASE WriteFile("BLKSUM", "CHECKSUM")
    BY <2>9 DEF WriteFile, Written, RenamedOnly
  <2>10. CASE WriteFile("CHECKSUM", "idle")
    BY <2>10 DEF WriteFile, Written, RenamedOnly
  <2> QED
    BY <1>3, <2>1, <2>2, <2>3, <2>4, <2>5, <2>6, <2>7, <2>8, <2>9, <2>10 DEF WritePayload
<1>4. CASE RollbackPayload
  <2> USE <1>0, <1>t DEF Parts, SameInitrd, SyncWriting, SyncRestoring, SyncAdding,
                         dir, run, stages, Files, Payload, Sound
  <2>1. CASE RollbackRemove("rbCHECKSUM", "CHECKSUM", "rbBLKSUM")
    BY <2>1, <1>a DEF RollbackRemove
  <2>2. CASE RollbackRemove("rbBLKSUM", "BLKSUM", "rbKERNEL")
    BY <2>2 DEF RollbackRemove
  <2>3. CASE RollbackRestore("rbKERNEL", "KERNEL", "rbINITRD")
    BY <2>3 DEF RollbackRestore, Restored, Written, RenamedOnly
  <2>4. CASE RollbackRestore("rbINITRD", "INITRD", "rbCMDLINE")
    BY <2>4 DEF RollbackRestore, Restored, Written, RenamedOnly
  <2>5. CASE RollbackRestore("rbCMDLINE", "CMDLINE", "rbMETADATA")
    BY <2>5 DEF RollbackRestore, Restored, Written, RenamedOnly
  <2>6. CASE RollbackRestore("rbMETADATA", "METADATA", "putBLKSUM")
    BY <2>6 DEF RollbackRestore, Restored, Written, RenamedOnly
  <2>7. CASE RollbackManifest("putBLKSUM", "BLKSUM", "putCHECKSUM")
    BY <2>7 DEF RollbackManifest, Written, RenamedOnly
  <2>8. CASE RollbackManifest("putCHECKSUM", "CHECKSUM", "idle")
    BY <2>8 DEF RollbackManifest, Written, RenamedOnly
  <2> QED
    BY <1>4, <2>1, <2>2, <2>3, <2>4, <2>5, <2>6, <2>7, <2>8 DEF RollbackPayload
<1>5. CASE AddManifest
  <2> USE <1>0, <1>t DEF Parts, SameInitrd, SyncWriting, SyncRestoring, SyncAdding, dir, run, stages,
                         End, Files, Payload, Sound, Add, Written, RenamedOnly
  <2>1. CASE AddMetadata
    BY <2>1 DEF AddMetadata
  <2>2. CASE AddBlkSum
    BY <2>2 DEF AddBlkSum
  <2>3. CASE AddCheckSum
    BY <2>3 DEF AddCheckSum
  <2> QED
    BY <1>5, <2>1, <2>2, <2>3 DEF AddManifest
<1>6. CASE Kill
  BY <1>6, <1>0 DEF Kill, Dead, End, Parts, SameInitrd, SyncWriting, SyncRestoring, SyncAdding, dir, run
<1>7. CASE LosePower
  <2>1. Sound(esp')
    BY <1>7, <1>0, PowerLossSound DEF Parts
  <2>2. step' = "idle" /\ synced' = esp'
    BY <1>7 DEF LosePower, Dead, End
  <2> QED
    BY <2>1, <2>2 DEF Parts, SameInitrd, SyncWriting, SyncRestoring, SyncAdding
<1>8. CASE UNCHANGED vars
  BY <1>8, <1>0 DEF vars, Parts, SameInitrd, SyncWriting, SyncRestoring, SyncAdding
<1> QED
  BY <1>1, <1>2, <1>3, <1>4, <1>5, <1>6, <1>7, <1>8 DEF Next

(* A power loss at any moment of writePayloadWithRollback, its rollback or *)
(* a repair leaves no CHECKSUM that disagrees with INITRD, because         *)
(* espconfig.WriteFile syncs the directory before INITRD is touched: for   *)
(* every set of builds and any number of failures and power losses.        *)
THEOREM PowerLossSafe == Spec => []PowerLossReachesKernelOnly
<1>1. Init => SyncInv
  <2> SUFFICES ASSUME Init PROVE SyncInv
    OBVIOUS
  <2>1. Sound(esp)
    <3>1. CASE esp = [f \in Files |-> Absent]
      BY <3>1 DEF Sound, Files, Payload
    <3>2. CASE \E b \in Builds, mode \in Modes : esp \in Installed(b, mode)
      <4>1. PICK b \in Builds, mode \in Modes : esp \in Installed(b, mode)
        BY <3>2
      <4>2. /\ esp["KERNEL"] = Stamp(b, b, b, "none") /\ esp["INITRD"] = Stamp(b, b, b, "none")
            /\ esp["BLKSUM"] \in {Absent, Stamp(b, b, b, "none")}
            /\ esp["CHECKSUM"] \in {Absent, Stamp(b, b, b, mode)}
        BY <4>1, InstalledFiles
      <4> QED
        BY <4>2, BuildsAssumption DEF Sound, Stamp, Absent
    <3> QED
      BY <3>1, <3>2 DEF Init
  <2> QED
    BY <2>1 DEF Init, SyncInv, SameInitrd, SyncWriting, SyncRestoring, SyncAdding,
                AfterKernel, AfterInitrd, Writing, Restoring, Adding
<1>2. SyncInv => PowerLossReachesKernelOnly
  BY DEF SyncInv, SameInitrd, Sound, PowerLossReachesKernelOnly
<1> QED
  BY <1>1, <1>2, SyncStep, TypeCorrect, PTL DEF Spec
=============================================================================
