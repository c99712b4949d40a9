-------------------------- MODULE UefiUpdateProofs --------------------------
(***************************************************************************)
(* What ReleaseFetch and UefiUpdate promise for any releases, jobs, local  *)
(* files and bounds: a fetch that succeeds took everything from one        *)
(* release, a command that succeeds installed a published build, and the   *)
(* loader and its METADATA behave as BootGeneration says.                  *)
(***************************************************************************)
EXTENDS UefiUpdate, TLAPS

\* A leaf is tried with Zenon, then with the SMT solver, then with Zenon for longer.
USE ZenonT(2), SMT, Zenon

JobOK(j) ==
    /\ j \in [slots : Seq(AssetNames), from : Seq({"file", "url", "default"})]
    /\ Len(j.from) = Len(j.slots)

FetchPcs == {"none", "tag", "sums", "slot", "check", "fetched", "failed"}

FetchType ==
    /\ pub \in Seq(Arches) /\ pub # <<>>
    /\ JobOK(job)
    /\ fetch \in [pc : FetchPcs, tag : Nat, sums : SUBSET Contents, file : Contents,
                  got : Seq(Contents), wrong : Nat]

(* A content that was taken for slot n is what its source promises.        *)
Right(n, c) ==
    /\ job.from[n] = "default" => fetch.tag \in Tags /\ c = Asset(job.slots[n], fetch.tag)
    /\ job.from[n] = "url" => \E t \in Tags : c = Asset(job.slots[n], t)

FetchInv ==
    /\ FetchType
    /\ Len(fetch.got) <= Len(job.slots)
    /\ fetch.pc \in {"tag", "sums", "slot", "check"} => Len(fetch.got) < Len(job.slots)
    /\ fetch.pc = "fetched" => Len(fetch.got) = Len(job.slots)
    /\ fetch.pc \in {"tag", "sums"} => fetch.got = <<>>
    /\ (fetch.pc \in {"sums", "slot", "check", "fetched"} /\ NeedDefault(job)) => fetch.tag \in Tags
    /\ \A n \in DOMAIN fetch.got : Right(n, fetch.got[n])

-----------------------------------------------------------------------------
(* ReleaseFetch *)

(* A published asset is a content. *)
LEMMA AssetType ==
    ASSUME FetchType, NEW s \in AssetNames, NEW t \in Tags
    PROVE  /\ Asset(s, t) \in Contents
           /\ Asset(s, t).asset = s /\ Asset(s, t).tag = t /\ Asset(s, t).arch = pub[t]
  BY DEF FetchType, Asset, Content, Contents, Tags, AssetNames

(* The slots of a release are names of assets. *)
LEMMA SlotsType == FetchType => \A s \in Slots : s \in AssetNames
<1> SUFFICES ASSUME FetchType, NEW n \in DOMAIN job.slots PROVE job.slots[n] \in AssetNames
  BY DEF Slots
<1> QED
  BY DEF FetchType, JobOK

(* What is published is content. *)
LEMMA PublishedType == FetchType => \A c \in Published : c \in Contents
<1> SUFFICES ASSUME FetchType, NEW s \in Slots, NEW t \in Tags PROVE Asset(s, t) \in Contents
  BY DEF Published
<1> QED
  BY AssetType, SlotsType

(* So are no file and a bad one. *)
LEMMA SpecialTypes == Absent \in Contents /\ Bad \in Contents
  BY DEF Absent, Bad, Content, Contents, AssetNames

(* A signature that verifies for a slot is the one made with the file's    *)
(* release: a key nobody trusts, the old algorithm and an altered comment  *)
(* do not verify.                                                          *)
LEMMA Signed ==
    ASSUME FetchType, NEW slot \in AssetNames, NEW tag, NEW file, NEW sig \in Signatures(slot),
           VerifySignatureAtURL(file, sig, slot, tag)
    PROVE  /\ \E t \in Tags : file = Asset(slot, t)
           /\ tag # 0 /\ tag \in Tags => file = Asset(slot, tag)
<1> DEFINE here == {c \in Published : c.asset = slot}
<1>1. PICK c \in Published : sig = SignedAs(c)
  <2>1. sig.algo = "ED" /\ sig.key = "key2026" /\ sig.sealed
    BY DEF VerifySignatureAtURL, Verify, TrustedKeys
  <2>2. \A c : sig # ByOtherKey(c) /\ sig # Legacy(c)
    BY <2>1 DEF ByOtherKey, Legacy, Sig
  <2>3. \A c, t : sig # Altered(c, t)
    BY <2>1 DEF Altered, Sig
  <2> QED
    BY <2>2, <2>3 DEF Signatures
<1>2. PICK s \in Slots, t \in Tags : c = Asset(s, t)
  BY <1>1 DEF Published
<1>3. file = c /\ c.asset = slot /\ (tag # 0 => c.tag = tag)
  BY <1>1 DEF VerifySignatureAtURL, Verify, SignedAs, Sig
<1>4. s = slot /\ c.tag = t
  BY <1>2, <1>3, AssetType, SlotsType
<1> QED
  BY <1>2, <1>3, <1>4

(* A fetch that fails has taken nothing. *)
LEMMA CleanedInv ==
    ASSUME FetchInv, UNCHANGED <<pub, job>>, NEW w \in Nat,
           fetch' = Cleaned(w)
    PROVE  FetchInv'
<1>1. fetch' = Fetch("failed", fetch.tag, fetch.sums, Absent, <<>>, w)
  BY DEF Cleaned
<1>2. FetchType'
  BY <1>1, SpecialTypes DEF FetchInv, FetchType, FetchPcs, JobOK, Fetch
<1>3. fetch'.pc = "failed" /\ fetch'.got = <<>>
  BY <1>1 DEF Fetch
<1>4. 0 <= Len(job'.slots)
  BY DEF FetchInv, FetchType, JobOK
<1> QED
  BY <1>2, <1>3, <1>4 DEF FetchInv

(* Taking the content of the next slot, when it is the right one. *)
LEMMA TookInv ==
    ASSUME FetchInv, UNCHANGED <<pub, job>>, NEW c \in Contents, NEW w \in Nat,
           fetch.pc \in {"slot", "check"}, Right(Len(fetch.got) + 1, c),
           fetch' = Took(c, w)
    PROVE  FetchInv'
<1> DEFINE got == Append(fetch.got, c)
           next == IF Len(got) = Len(job.slots) THEN "fetched" ELSE "slot"
<1>1. fetch' = Fetch(next, fetch.tag, fetch.sums, Absent, got, w)
  BY DEF Took
<1>2. got \in Seq(Contents) /\ Len(got) = Len(fetch.got) + 1
  BY DEF FetchInv, FetchType
<1>3. FetchType'
  BY <1>1, <1>2, SpecialTypes DEF FetchInv, FetchType, FetchPcs, JobOK, Fetch
<1>4. fetch'.pc = next /\ fetch'.got = got /\ fetch'.tag = fetch.tag
  BY <1>1 DEF Fetch
<1>5. Len(got) <= Len(job.slots)
  BY <1>2 DEF FetchInv, FetchType, JobOK
<1>6. ASSUME NEW n \in DOMAIN fetch'.got PROVE Right(n, fetch.got[n])'
  <2>1. DOMAIN fetch'.got = 1..(Len(fetch.got) + 1) /\ DOMAIN fetch.got = 1..Len(fetch.got)
    BY <1>2, <1>4 DEF FetchInv, FetchType
  <2>2. Len(fetch.got) \in Nat /\ n \in 1..(Len(fetch.got) + 1)
    BY <2>1 DEF FetchInv, FetchType
  <2>3. CASE n \in DOMAIN fetch.got
    <3>1. fetch'.got[n] = fetch.got[n]
      BY <1>4, <2>3 DEF FetchInv, FetchType
    <3>2. Right(n, fetch.got[n])
      BY <2>3 DEF FetchInv
    <3> QED
      BY <3>1, <3>2, <1>4 DEF Right, Asset, Tags
  <2>4. CASE n = Len(fetch.got) + 1
    <3>1. fetch'.got[n] = c
      BY <1>4, <2>4 DEF FetchInv, FetchType
    <3> QED
      BY <2>4, <3>1, <1>4 DEF Right, Asset, Tags
  <2> QED
    BY <2>1, <2>2, <2>3, <2>4
<1>7. next \in {"slot", "fetched"} /\ (next = "slot" => Len(got) # Len(job.slots))
                                  /\ (next = "fetched" => Len(got) = Len(job.slots))
  OBVIOUS
<1>8. Len(got) \in Nat /\ Len(job.slots) \in Nat
  BY <1>2 DEF FetchInv, FetchType, JobOK
<1> HIDE DEF got, next
<1> QED
  <2>1. NeedDefault(job') => fetch'.tag \in Tags'
    BY <1>4 DEF FetchInv, NeedDefault, Tags
  <2>2. Len(fetch'.got) <= Len(job'.slots)
    BY <1>4, <1>5
  <2>3. /\ fetch'.pc = "slot" => Len(fetch'.got) < Len(job'.slots)
        /\ fetch'.pc = "fetched" => Len(fetch'.got) = Len(job'.slots)
        /\ fetch'.pc \in {"slot", "fetched"}
    BY <1>4, <1>5, <1>7, <1>8
  <2> QED
    BY <1>3, <1>6, <2>1, <2>2, <2>3 DEF FetchInv

(* A download keeps FetchInv. *)
LEMMA FetchStepInv ==
    ASSUME FetchInv, NEW local \in Contents, FetchStep(local)
    PROVE  FetchInv'
<1>1. UNCHANGED <<pub, job>>
  BY DEF FetchStep, ResolveTag, FetchChecksums, CopyToTemp, DownloadAsset, CheckAsset
<1>2. ASSUME Fails PROVE FetchInv'
  <2>1. fetch.wrong + 1 \in Nat
    BY DEF FetchInv, FetchType
  <2> QED
    BY <1>1, <1>2, <2>1, CleanedInv DEF Fails
<1>3. CASE ResolveTag
  <2>1. CASE fetch' = [fetch EXCEPT !.pc = "sums", !.tag = Len(pub)]
    <3>1. fetch' = Fetch("sums", Len(pub), fetch.sums, fetch.file, fetch.got, fetch.wrong)
      BY <2>1 DEF FetchInv, FetchType, Fetch
    <3>2. fetch.got = <<>>
      BY <1>3 DEF FetchInv, ResolveTag, At
    <3>3. FetchType' /\ Len(pub) \in Tags'
      BY <1>1, <3>1 DEF FetchInv, FetchType, FetchPcs, JobOK, Fetch, Tags
    <3>4. 0 < Len(job'.slots)
      BY <1>1, <1>3, <3>2 DEF FetchInv, FetchType, JobOK, ResolveTag, At
    <3>5. fetch'.pc = "sums" /\ fetch'.got = <<>> /\ fetch'.tag = Len(pub)
      BY <3>1, <3>2 DEF Fetch
    <3> QED
      BY <3>3, <3>4, <3>5 DEF FetchInv
  <2> QED
    BY <1>2, <1>3, <2>1 DEF ResolveTag
<1>4. CASE FetchChecksums
  <2>1. ASSUME NEW t \in Tags, NEW w \in Nat,
               fetch' = [fetch EXCEPT !.pc = "slot", !.wrong = w, !.sums = {Asset(s, t) : s \in Slots}]
        PROVE  FetchInv'
    <3> DEFINE sums == {Asset(s, t) : s \in Slots}
    <3>1. fetch' = Fetch("slot", fetch.tag, sums, fetch.file, fetch.got, w)
      BY <2>1 DEF FetchInv, FetchType, Fetch
    <3>2. fetch.got = <<>>
      BY <1>4 DEF FetchInv, FetchChecksums, At
    <3>3. sums \subseteq Contents
      BY AssetType, SlotsType DEF FetchInv
    <3> HIDE DEF sums
    <3>4. FetchType'
      BY <1>1, <3>1, <3>3 DEF FetchInv, FetchType, FetchPcs, JobOK, Fetch
    <3>5. NeedDefault(job') => fetch'.tag \in Tags'
      BY <1>1, <1>4, <3>1 DEF FetchInv, FetchChecksums, At, NeedDefault, Tags, Fetch
    <3>6. 0 < Len(job'.slots)
      BY <1>1, <1>4, <3>2 DEF FetchInv, FetchType, JobOK, FetchChecksums, At
    <3>7. fetch'.pc = "slot" /\ fetch'.got = <<>>
      BY <3>1, <3>2 DEF Fetch
    <3> QED
      BY <3>4, <3>5, <3>6, <3>7 DEF FetchInv
  <2>2. CASE \E t \in Tags : LET n == IF t = fetch.tag THEN 0 ELSE 1
                             IN fetch' = [fetch EXCEPT !.pc = "slot", !.wrong = @ + n,
                                                       !.sums = {Asset(s, t) : s \in Slots}]
    <3>1. fetch.wrong + 0 \in Nat /\ fetch.wrong + 1 \in Nat
      BY DEF FetchInv, FetchType
    <3> QED
      BY <2>1, <2>2, <3>1
  <2> QED
    BY <1>2, <1>4, <2>2 DEF FetchChecksums
<1>5. CASE CopyToTemp(local)
  <2>1. CASE fetch' = Took(local, fetch.wrong)
    <3>1. fetch.pc = "slot" /\ job.from[Len(fetch.got) + 1] = "file"
      BY <1>5 DEF CopyToTemp, At, From
    <3>2. Right(Len(fetch.got) + 1, local) /\ fetch.wrong \in Nat
      BY <3>1 DEF Right, FetchInv, FetchType
    <3> QED
      BY <1>1, <2>1, <3>1, <3>2, TookInv
  <2> QED
    BY <1>2, <1>5, <2>1 DEF CopyToTemp
<1>6. CASE DownloadAsset
  <2>1. ASSUME NEW body \in Contents, NEW w \in Nat,
               fetch' = [fetch EXCEPT !.pc = "check", !.file = body, !.wrong = w]
        PROVE  FetchInv'
    <3>1. fetch' = Fetch("check", fetch.tag, fetch.sums, body, fetch.got, w)
      BY <2>1 DEF FetchInv, FetchType, Fetch
    <3>2. FetchType'
      BY <1>1, <3>1 DEF FetchInv, FetchType, FetchPcs, JobOK, Fetch
    <3>3. fetch'.pc = "check" /\ fetch'.got = fetch.got /\ fetch'.tag = fetch.tag
      BY <3>1 DEF Fetch
    <3>4. fetch.pc = "slot"
      BY <1>6 DEF DownloadAsset, At
    <3>5. \A n \in DOMAIN fetch'.got : Right(n, fetch.got[n])'
      BY <1>1, <3>3 DEF FetchInv, Right, Asset, Tags
    <3>6. NeedDefault(job') => fetch'.tag \in Tags'
      BY <1>1, <3>3, <3>4 DEF FetchInv, NeedDefault, Tags
    <3> QED
      BY <1>1, <3>2, <3>3, <3>4, <3>5, <3>6 DEF FetchInv
  <2>2. ASSUME NEW body \in Published \cup {Bad}, NEW n \in {0, 1},
               fetch' = [fetch EXCEPT !.pc = "check", !.file = body, !.wrong = @ + n]
        PROVE  FetchInv'
    <3>1. body \in Contents /\ fetch.wrong + n \in Nat
      BY PublishedType, SpecialTypes DEF FetchInv, FetchType
    <3> QED
      BY <2>1, <2>2, <3>1
  <2> QED
    BY <1>2, <1>6, <2>2 DEF DownloadAsset
<1>7. CASE CheckAsset
  <2> DEFINE default == From = "default"
             tag == IF default THEN fetch.tag ELSE 0
  <2>1. ASSUME NEW sig \in Signatures(Slot), NEW w \in Nat,
               VerifySignatureAtURL(fetch.file, sig, Slot, tag),
               fetch' = Took(fetch.file, w)
        PROVE  FetchInv'
    <3>1. fetch.pc = "check" /\ fetch.file \in Contents
      BY <1>7 DEF CheckAsset, At, FetchInv, FetchType
    <3>2. Len(fetch.got) + 1 \in DOMAIN job.slots /\ Slot \in AssetNames
      BY <3>1 DEF FetchInv, FetchType, JobOK, Slot
    <3>3. \E t \in Tags : fetch.file = Asset(Slot, t)
      BY <2>1, <3>2, Signed DEF FetchInv
    <3>4. ASSUME default PROVE fetch.tag \in Tags /\ fetch.file = Asset(Slot, fetch.tag)
      <4>1. Len(fetch.got) + 1 \in DOMAIN job.from
        BY <3>2 DEF FetchInv, FetchType, JobOK
      <4>2. fetch.tag \in Tags
        BY <3>1, <3>4, <4>1 DEF FetchInv, NeedDefault, From
      <4>3. fetch.tag # 0
        BY <4>2 DEF FetchInv, FetchType, Tags
      <4> QED
        BY <2>1, <3>2, <3>4, <4>2, <4>3, Signed DEF FetchInv
    <3>5. Right(Len(fetch.got) + 1, fetch.file)
      BY <3>3, <3>4 DEF Right, From, Slot
    <3> QED
      BY <1>1, <2>1, <3>1, <3>5, TookInv
  <2>2. ASSUME NEW w \in Nat, fetch' = Cleaned(w) PROVE FetchInv'
    BY <1>1, <2>2, CleanedInv
  <2>3. \A n \in {0, 1} : fetch.wrong + n \in Nat
    BY DEF FetchInv, FetchType
  <2> QED
    BY <1>2, <1>7, <2>1, <2>2, <2>3 DEF CheckAsset
<1> QED
  BY <1>3, <1>4, <1>5, <1>6, <1>7 DEF FetchStep

(* A release that appears changes none of those before it. *)
LEMMA PublishInv ==
    ASSUME FetchInv, NEW a \in Arches, Publish(a)
    PROVE  FetchInv'
<1>1. pub' = Append(pub, a) /\ UNCHANGED <<job, fetch>>
  BY DEF Publish
<1>2. pub' \in Seq(Arches) /\ pub' # <<>> /\ Tags \subseteq Tags' /\ \A t \in Tags : pub'[t] = pub[t]
  BY <1>1 DEF FetchInv, FetchType, Tags
<1>3. \A s : \A t \in Tags : Asset(s, t)' = Asset(s, t)
  BY <1>2 DEF Asset
<1>4. FetchType'
  BY <1>1, <1>2 DEF FetchInv, FetchType, JobOK
<1>5. ASSUME NEW n \in DOMAIN fetch.got PROVE Right(n, fetch.got[n])'
  <2>1. Right(n, fetch.got[n])
    BY DEF FetchInv
  <2> QED
    BY <1>1, <1>2, <1>3, <2>1 DEF Right
<1> QED
  BY <1>1, <1>2, <1>4, <1>5 DEF FetchInv, NeedDefault

(* No fetch, with the same or another job. *)
LEMMA NoFetchInv ==
    ASSUME FetchInv, pub' = pub, job' = job, fetch' = NoFetch
    PROVE  FetchInv'
<1>1. fetch'.pc = "none" /\ fetch'.got = <<>> /\ 0 <= Len(job'.slots)
  BY DEF NoFetch, Fetch, FetchInv, FetchType, JobOK
<1>2. FetchType'
  BY SpecialTypes DEF NoFetch, Fetch, FetchInv, FetchType, JobOK, FetchPcs
<1> QED
  BY <1>1, <1>2 DEF FetchInv

(* So does the start of one. *)
LEMMA StartFetchInv ==
    ASSUME FetchInv, pub' = pub, NEW j, JobOK(j), j.slots # <<>>, StartFetch(j)
    PROVE  FetchInv'
<1> DEFINE first == IF NeedDefault(j) THEN "tag" ELSE "slot"
<1>1. job' = j /\ fetch' = Fetch(first, 0, {}, Absent, <<>>, 0)
  BY DEF StartFetch
<1>2. fetch'.pc = first /\ fetch'.got = <<>>
  BY <1>1 DEF Fetch
<1>3. 0 < Len(job'.slots)
  BY <1>1 DEF JobOK
<1>4. FetchType'
  BY <1>1, SpecialTypes DEF Fetch, FetchInv, FetchType, JobOK, FetchPcs
<1> QED
  BY <1>1, <1>2, <1>3, <1>4 DEF FetchInv

(* So does a step that downloads nothing. *)
LEMMA FetchUnchanged == FetchInv /\ UNCHANGED fetchVars => FetchInv'
  BY DEF fetchVars, FetchInv, FetchType, JobOK, Right, NeedDefault, Tags, Asset

-----------------------------------------------------------------------------
(* UefiUpdate *)

Ready == {"target", "prompt", "backup"} \cup Writing

(* What is on the ESP, or may be after a power loss, was installed or is   *)
(* being installed, or the medium spoilt it; and what each step knows.     *)
GenInv ==
    /\ asset \in Installable
    /\ loader \in held \cup {Bad} /\ meta \in held
    /\ mayLoader \subseteq held \cup {Bad} /\ mayMeta \subseteq held
    /\ old.loader \in held \cup {Bad} /\ old.meta \in held
    /\ pc \in Writing => asset \in held
    /\ pc \in {"meta", "metasync"} => loader = asset
    /\ pc = "metasync" => meta = asset
    /\ pc = "undoMeta" => (critical \/ loader = old.loader)

(* Where the build to install came from. *)
Origin ==
    /\ job.from # <<"file">> => \E t \in Tags : asset = Asset("efi", t)
    /\ job.from = <<"default">> => asset.tag >= since
Newer(file) == ~seed => asset.arch = file.arch /\ asset.tag > file.tag

AuthInv ==
    /\ since \in Nat /\ since <= Len(pub)
    /\ pc \in {"idle", "load"} \cup Ready
    /\ pc # "idle" => outcome = "none"
    /\ (fetch.pc \in {"sums", "slot", "check", "fetched"} /\ NeedDefault(job)) => fetch.tag >= since
    /\ (pc \in Ready \/ outcome = "ok") => Origin
    /\ pc \in {"prompt", "backup"} => Newer(loader)
    /\ (pc \in Writing \/ outcome = "ok") => Newer(old.loader)

Inv == FetchInv /\ GenInv /\ AuthInv

(* Inv holds at the start. *)
LEMMA InitInv == Init => Inv
<1> SUFFICES ASSUME Init PROVE Inv
  OBVIOUS
<1>1. FetchInv
  <2>1. fetch.pc = "none" /\ fetch.got = <<>> /\ job.slots = <<>> /\ job.from = <<>>
    BY DEF Init, NoFetch, Fetch, Job
  <2>2. pub \in Seq(Arches) /\ pub # <<>>
    BY MachineAssumption DEF Init
  <2>3. job \in [slots : Seq(AssetNames), from : Seq({"file", "url", "default"})]
    BY DEF Init, Job
  <2>4. FetchType
    BY <2>1, <2>2, <2>3, SpecialTypes DEF Init, FetchType, FetchPcs, JobOK, NoFetch, Fetch
  <2> QED
    BY <2>1, <2>4 DEF FetchInv
<1>2. GenInv
  <2>1. asset \in Installable
    BY DEF Init, Absent, Content, Installable
  <2>2. pc = "idle"
    BY DEF Init
  <2>3. loader \in held /\ meta \in held /\ mayLoader \subseteq held /\ mayMeta \subseteq held
        /\ old.loader = loader /\ old.meta = meta
    BY DEF Init
  <2> QED
    BY <2>1, <2>2, <2>3 DEF GenInv, Writing
<1>3. AuthInv
  <2>1. since = 0 /\ pc = "idle" /\ outcome = "none" /\ fetch.pc = "none"
    BY DEF Init, NoFetch, Fetch
  <2>2. 0 <= Len(pub)
    BY <1>1 DEF FetchInv, FetchType
  <2> QED
    BY <2>1, <2>2 DEF AuthInv, Ready, Writing
<1> QED
  BY <1>1, <1>2, <1>3 DEF Inv

(* Every step keeps FetchInv. *)
LEMMA FetchInvStep == Inv /\ Next => FetchInv'
<1> SUFFICES ASSUME Inv, Next PROVE FetchInv'
  OBVIOUS
<1> USE DEF Inv
<1>1. ASSUME NEW n \in DOMAIN Jobs, NEW j \in Jobs[n], NEW s \in BOOLEAN, Command(j, s) PROVE FetchInv'
  <2>1. JobOK(j) /\ j.slots # <<>>
    BY JobsAssumption DEF JobOK
  <2> QED
    BY <1>1, <2>1, StartFetchInv DEF Command
<1>2. CASE Fetching
  BY <1>2, LocalsAssumption, FetchStepInv DEF Fetching
<1>3. CASE LoadUEFIAsset \/ LoadBIOSAssets \/ PowerLoss \/ Kill
  BY <1>3, NoFetchInv DEF LoadUEFIAsset, LoadBIOSAssets, PowerLoss, Kill
<1>4. CASE Releases
  BY <1>4, PublishInv DEF Releases
<1>5. CASE \/ UpdateUEFITarget \/ Answer \/ BackupUEFIGeneration \/ BackupPrevious \/ RenameLoader \/ SyncLoaderDir
           \/ VerifyLoader \/ WriteUEFIMetadata \/ SyncMetadataDir \/ RestoreLoader \/ RestoreMetadata
  <2>1. UNCHANGED fetchVars
    BY <1>5 DEF UpdateUEFITarget, Answer, BackupUEFIGeneration, BackupPrevious, RenameLoader, SyncLoaderDir,
                VerifyLoader, WriteUEFIMetadata, SyncMetadataDir, RestoreLoader, RestoreMetadata
  <2> QED
    BY <2>1, FetchUnchanged
<1> QED
  BY <1>1, <1>2, <1>3, <1>4, <1>5 DEF Next, Step

(* A restore leaves the file as it was, or as it is and says so. *)
LEMMA RestoredFile ==
    ASSUME NEW now, NEW was, NEW may, NEW r \in Restored(now, was, may)
    PROVE  /\ r[1] \in {now, was} /\ (~r[3] => r[1] = was)
           /\ r[2] \subseteq may \cup {was}
<1>1. CASE r = <<was, {was}, FALSE>>
  BY <1>1
<1>2. CASE r = <<was, may \cup {was}, FALSE>>
  BY <1>2
<1>3. CASE r = <<was, may \cup {was}, TRUE>>
  BY <1>3
<1>4. CASE r = <<now, may, TRUE>>
  BY <1>4
<1> QED
  BY <1>1, <1>2, <1>3, <1>4 DEF Restored

(* Every step keeps GenInv. *)
LEMMA GenInvStep == Inv /\ Next => GenInv'
<1> SUFFICES ASSUME Inv, Next PROVE GenInv'
  OBVIOUS
<1> USE DEF Inv, GenInv, Writing, esp, ctl, Goto, EndAs
<1>1. ASSUME NEW j, NEW s, Command(j, s) PROVE GenInv'
  BY <1>1 DEF Command
<1>2. CASE Fetching \/ Releases
  BY <1>2 DEF Fetching, Releases
<1>3. CASE LoadUEFIAsset
  <2>1. asset' \in Installable
    <3>1. CASE asset' = fetch.got[1] /\ fetch.pc = "fetched" /\ Reads(fetch.got[1]) /\ job.slots = <<"efi">>
      <4>1. fetch.got[1] \in Contents
        BY <3>1 DEF FetchInv, FetchType, JobOK
      <4> QED
        BY <3>1, <4>1 DEF Contents, Installable, Reads
    <3> QED
      BY <1>3, <3>1 DEF LoadUEFIAsset
  <2> QED
    BY <1>3, <2>1 DEF LoadUEFIAsset
<1>4. CASE LoadBIOSAssets \/ UpdateUEFITarget \/ Answer
  BY <1>4 DEF LoadBIOSAssets, UpdateUEFITarget, Answer
<1>5. CASE BackupUEFIGeneration
  BY <1>5 DEF BackupUEFIGeneration
<1>6. CASE BackupPrevious
  BY <1>6 DEF BackupPrevious
<1>7. CASE RenameLoader
  BY <1>7 DEF RenameLoader
<1>8. CASE SyncLoaderDir
  BY <1>8 DEF SyncLoaderDir
<1>9. CASE VerifyLoader
  BY <1>9 DEF VerifyLoader
<1>10. CASE WriteUEFIMetadata
  BY <1>10 DEF WriteUEFIMetadata
<1>11. CASE SyncMetadataDir
  BY <1>11 DEF SyncMetadataDir
<1>12. CASE RestoreLoader
  BY <1>12, RestoredFile DEF RestoreLoader
<1>13. CASE RestoreMetadata
  BY <1>13, RestoredFile DEF RestoreMetadata
<1>14. CASE PowerLoss
  BY <1>14 DEF PowerLoss
<1>15. CASE Kill
  BY <1>15 DEF Kill
<1> QED
  BY <1>1, <1>2, <1>3, <1>4, <1>5, <1>6, <1>7, <1>8, <1>9, <1>10, <1>11, <1>12, <1>13, <1>14, <1>15
     DEF Next, Step

(* While a fetch runs, its release is not older than the command. *)
LEMMA TagStep ==
    ASSUME Inv, NEW local, FetchStep(local),
           fetch'.pc \in {"sums", "slot", "check", "fetched"}, NeedDefault(job')
    PROVE  fetch'.tag >= since
<1> USE DEF Inv, AuthInv, FetchInv, FetchType
<1>1. job' = job
  BY DEF FetchStep, ResolveTag, FetchChecksums, CopyToTemp, DownloadAsset, CheckAsset
<1>2. CASE ResolveTag
  <2>1. CASE fetch' = [fetch EXCEPT !.pc = "sums", !.tag = Len(pub)]
    BY <2>1
  <2> QED
    BY <1>2, <2>1 DEF ResolveTag, Fails, Cleaned, Fetch
<1>3. ASSUME ~ResolveTag PROVE fetch'.tag = fetch.tag /\ fetch.pc \in {"sums", "slot", "check"}
  <2>1. CASE FetchChecksums
    <3>1. \A w, sums : [fetch EXCEPT !.pc = "slot", !.wrong = w, !.sums = sums].tag = fetch.tag
      OBVIOUS
    <3>2. CASE Fails
      BY <2>1, <3>2 DEF FetchChecksums, At, Fails, Cleaned, Fetch
    <3>3. CASE \E t \in Tags, n \in {0, 1} :
                  fetch' = [fetch EXCEPT !.pc = "slot", !.wrong = @ + n, !.sums = {Asset(s, t) : s \in Slots}]
      BY <2>1, <3>1, <3>3 DEF FetchChecksums, At
    <3> QED
      BY <2>1, <3>2, <3>3 DEF FetchChecksums
  <2>2. CASE CopyToTemp(local)
    BY <2>2 DEF CopyToTemp, Fails, Cleaned, Took, Fetch, At
  <2>3. CASE DownloadAsset
    <3>1. \A w, body : [fetch EXCEPT !.pc = "check", !.file = body, !.wrong = w].tag = fetch.tag
      OBVIOUS
    <3>2. CASE Fails
      BY <2>3, <3>2 DEF DownloadAsset, At, Fails, Cleaned, Fetch
    <3>3. CASE \E body \in Published \cup {Bad}, n \in {0, 1} :
                  fetch' = [fetch EXCEPT !.pc = "check", !.file = body, !.wrong = @ + n]
      BY <2>3, <3>1, <3>3 DEF DownloadAsset, At
    <3> QED
      BY <2>3, <3>2, <3>3 DEF DownloadAsset
  <2>4. CASE CheckAsset
    <3>1. fetch.pc = "check"
      BY <2>4 DEF CheckAsset, At
    <3>2. \A c, w : Took(c, w).tag = fetch.tag /\ Cleaned(w).tag = fetch.tag
      BY DEF Took, Cleaned, Fetch
    <3>3. \E c, w : fetch' = Took(c, w) \/ fetch' = Cleaned(w)
      BY <2>4 DEF CheckAsset, Fails
    <3> QED
      BY <3>1, <3>2, <3>3
  <2> QED
    BY <1>3, <2>1, <2>2, <2>3, <2>4 DEF FetchStep
<1> QED
  BY <1>1, <1>2, <1>3

(* The build a UEFI command loads is of the release it resolved. *)
LEMMA LoadedOrigin ==
    ASSUME Inv, pc = "load", job.slots = <<"efi">>, fetch.pc = "fetched",
           asset' = fetch.got[1], UNCHANGED <<pub, job, since>>
    PROVE  Origin'
<1> USE DEF Inv, FetchInv, FetchType, JobOK
<1>1. Len(job.from) = 1 /\ 1 \in DOMAIN fetch.got /\ job.slots[1] = "efi"
  OBVIOUS
<1>2. job.from = <<job.from[1]>> /\ job.from[1] \in {"file", "url", "default"}
  BY <1>1
<1>3. Right(1, fetch.got[1])
  BY <1>1
<1>4. ASSUME job.from[1] = "default" PROVE asset' = Asset("efi", fetch.tag) /\ fetch.tag \in Tags /\ asset'.tag >= since
  <2>1. asset' = Asset("efi", fetch.tag) /\ fetch.tag \in Tags
    BY <1>1, <1>3, <1>4 DEF Right
  <2>2. Asset("efi", fetch.tag).tag = fetch.tag
    BY <2>1 DEF Asset, Content
  <2>3. NeedDefault(job)
    BY <1>1, <1>4 DEF NeedDefault
  <2>4. fetch.tag >= since
    BY <2>3 DEF AuthInv
  <2> QED
    BY <2>1, <2>2, <2>4
<1>5. ASSUME job.from[1] = "url" PROVE \E t \in Tags : asset' = Asset("efi", t)
  BY <1>1, <1>3, <1>5 DEF Right
<1> QED
  BY <1>2, <1>4, <1>5 DEF Origin, Asset, Tags

(* Every step keeps AuthInv. *)
LEMMA AuthInvStep == Inv /\ Next => AuthInv'
<1> SUFFICES ASSUME Inv, Next PROVE AuthInv'
  OBVIOUS
<1> USE DEF Inv, AuthInv, Ready, Writing, Newer, esp, ctl, fetchVars, Goto, EndAs
<1>0. Len(pub) \in Nat
  BY DEF FetchInv, FetchType
<1>1. ASSUME NEW j, NEW s, Command(j, s) PROVE AuthInv'
  <2>1. pc' = "load" /\ outcome' = "none" /\ since' = Len(pub) /\ pub' = pub
    BY <1>1 DEF Command
  <2>2. fetch'.pc \in {"tag", "slot"} /\ job' = j /\ (fetch'.pc = "slot" => ~NeedDefault(j))
    BY <1>1 DEF Command, StartFetch, Fetch
  <2> QED
    BY <1>0, <2>1, <2>2
<1>2. CASE Fetching
  <2>1. UNCHANGED <<esp, ctl, pub, job>> /\ pc = "load"
    BY <1>2 DEF Fetching, FetchStep, ResolveTag, FetchChecksums, CopyToTemp, DownloadAsset, CheckAsset
  <2>2. (fetch'.pc \in {"sums", "slot", "check", "fetched"} /\ NeedDefault(job')) => fetch'.tag >= since'
    BY <1>2, <2>1, TagStep DEF Fetching
  <2> QED
    BY <2>1, <2>2
<1>3. CASE Releases
  <2>1. UNCHANGED <<esp, ctl, job, fetch>> /\ Len(pub') = Len(pub) + 1 /\ Tags \subseteq Tags'
        /\ \A t \in Tags : pub'[t] = pub[t]
    BY <1>3 DEF Releases, Publish, FetchInv, FetchType, Tags
  <2>2. Origin => Origin'
    BY <2>1 DEF Origin, Asset
  <2>3. since \in Nat /\ since <= Len(pub) /\ since' = since
    BY <2>1
  <2>4. since' <= Len(pub')
    <3> HIDE DEF Inv, AuthInv, Ready, Writing, Newer, esp, ctl, fetchVars, Goto, EndAs
    <3> QED
      BY <1>0, <2>1, <2>3
  <2> QED
    BY <2>1, <2>2, <2>4 DEF NeedDefault
<1>4. CASE LoadUEFIAsset
  <2>1. fetch'.pc = "none" /\ UNCHANGED <<pub, job, since, seed>>
    BY <1>4 DEF LoadUEFIAsset, NoFetch, Fetch
  <2>2. CASE pc' = "idle" /\ outcome' = "failed"
    BY <2>1, <2>2
  <2>3. CASE pc' = "target" /\ fetch.pc = "fetched" /\ asset' = fetch.got[1] /\ outcome' = outcome
    <3>1. Origin'
      BY <1>4, <2>1, <2>3, LoadedOrigin DEF LoadUEFIAsset
    <3> QED
      BY <1>4, <2>1, <2>3, <3>1 DEF LoadUEFIAsset
  <2> QED
    BY <1>4, <2>2, <2>3 DEF LoadUEFIAsset
<1>5. CASE LoadBIOSAssets \/ Kill
  <2>1. /\ fetch'.pc = "none" /\ UNCHANGED <<pub, job, since>>
        /\ pc' = "idle" /\ outcome' # "ok"
    BY <1>5 DEF LoadBIOSAssets, Kill, NoFetch, Fetch
  <2> QED
    BY <2>1
<1>6. CASE PowerLoss
  <2>1. /\ fetch'.pc = "none" /\ UNCHANGED <<pub, job, since>>
        /\ pc' = "idle" /\ outcome' # "ok"
    BY <1>6 DEF PowerLoss, NoFetch, Fetch
  <2> QED
    BY <2>1
<1>7. ASSUME UNCHANGED <<pub, job, asset, since>> PROVE (Origin => Origin') /\ (NeedDefault(job') = NeedDefault(job))
  BY <1>7 DEF Origin, Asset, Tags, NeedDefault
<1>8. CASE UpdateUEFITarget
  <2>1. asset.tag \in Nat
    BY DEF GenInv, Installable
  <2> QED
    BY <1>7, <1>8 DEF UpdateUEFITarget, CheckArchMatch
<1>9. CASE Answer \/ BackupUEFIGeneration
  BY <1>7, <1>9 DEF Answer, BackupUEFIGeneration
<1>10. CASE BackupPrevious \/ RenameLoader
  BY <1>7, <1>10 DEF BackupPrevious, RenameLoader
<1>11. CASE SyncLoaderDir \/ VerifyLoader
  BY <1>7, <1>11 DEF SyncLoaderDir, VerifyLoader
<1>12. CASE WriteUEFIMetadata
  BY <1>7, <1>12 DEF WriteUEFIMetadata
<1>13. CASE SyncMetadataDir
  BY <1>7, <1>13 DEF SyncMetadataDir
<1>14. CASE RestoreLoader
  BY <1>7, <1>14 DEF RestoreLoader
<1>15. CASE RestoreMetadata
  BY <1>7, <1>15 DEF RestoreMetadata
<1> QED
  BY <1>1, <1>2, <1>3, <1>4, <1>5, <1>6, <1>8, <1>9, <1>10, <1>11, <1>12, <1>13, <1>14, <1>15 DEF Next, Step

(* Inv holds in every reachable state. *)
LEMMA Invariant == Spec => []Inv
<1>1. Inv /\ UNCHANGED vars => Inv'
  <2> SUFFICES ASSUME Inv, UNCHANGED vars PROVE Inv'
    OBVIOUS
  <2>1. FetchInv'
    BY FetchUnchanged DEF Inv, vars
  <2>2. GenInv' /\ AuthInv'
    BY DEF vars, fetchVars, esp, ctl, Inv, GenInv, AuthInv, Origin, Newer, Asset, Tags, NeedDefault
  <2> QED
    BY <2>1, <2>2 DEF Inv
<1>2. Inv /\ [Next]_vars => Inv'
  BY <1>1, FetchInvStep, GenInvStep, AuthInvStep DEF Inv
<1> QED
  BY <1>2, InitInv, PTL DEF Spec

-----------------------------------------------------------------------------
(* When a fetch succeeds, its default assets are all of the release whose  *)
(* tag was resolved, and its assets from URLs are published ones: resolve, *)
(* ResolveEFI and ResolveBIOS, whatever the servers answer and whatever    *)
(* is published meanwhile.                                                 *)
THEOREM FetchIsOneRelease == Spec => []OneRelease
<1>1. Inv => OneRelease
  <2> SUFFICES ASSUME Inv, fetch.pc = "fetched", NEW n \in DOMAIN job.slots
               PROVE  Right(n, fetch.got[n])
    BY DEF OneRelease, Right
  <2>1. n \in DOMAIN fetch.got
    BY DEF Inv, FetchInv, FetchType, JobOK
  <2> QED
    BY <2>1 DEF Inv, FetchInv
<1> QED
  BY <1>1, Invariant, PTL

(* A command that says it succeeded installed a published build, not older *)
(* than the latest release when it began; an update kept the architecture  *)
(* and went forward (loadUEFIAsset, updateUEFITarget).                     *)
THEOREM InstallsReleases == Spec => []Authentic
<1>1. Inv => Authentic
  BY DEF Inv, AuthInv, Origin, Newer, Authentic
<1> QED
  BY <1>1, Invariant, PTL

(* Every step of the update is a step of BootGeneration or none: whatever  *)
(* fails, is killed or loses power, writeUEFIGenerationWithRollback leaves *)
(* the generation that its outcome names.                                  *)
THEOREM ImplementsBootGeneration == Spec => Implements
<1>1. Init => BG!Init
  <2> SUFFICES ASSUME Init PROVE BG!Init
    OBVIOUS
  <2>1. loader \in Installable /\ meta \in Installable /\ asset \in Installable
    BY MachineAssumption DEF Init, Absent, Content, Installable
  <2>2. ~(pc \in Writing)
    BY DEF Init, Writing
  <2> QED
    BY <2>1, <2>2 DEF Init, BG!Init
<1>2. Inv /\ Inv' /\ [Next]_vars => [BG!Next]_(BG!absVars)
  <2> SUFFICES ASSUME Inv, Inv', [Next]_vars PROVE BG!Next \/ UNCHANGED BG!absVars
    OBVIOUS
  <2> USE DEF Writing, esp, ctl, Goto, EndAs, BG!absVars, BG!Next
  <2>1. ASSUME NEW j, NEW s, Command(j, s) PROVE BG!Refuse
    <3>1. /\ pc = "idle" /\ pc' = "load" /\ outcome' = "none"
          /\ UNCHANGED <<loader, meta, old, asset, held>>
      BY <2>1 DEF Command
    <3>2. asset \in Installable
      BY DEF Inv, GenInv
    <3> QED
      BY <3>1, <3>2 DEF BG!Refuse
  <2>2. CASE Fetching \/ Releases \/ UNCHANGED vars
    BY <2>2 DEF Fetching, Releases, vars
  <2>3. CASE LoadUEFIAsset
    <3>1. pc = "load" /\ pc' \in {"idle", "target"} /\ outcome' \in {"failed", "none"}
      BY <2>3 DEF LoadUEFIAsset, Inv, AuthInv
    <3>2. asset' \in Installable /\ UNCHANGED <<loader, meta, old, held>>
      BY <2>3 DEF LoadUEFIAsset, Inv, GenInv
    <3> QED
      BY <3>1, <3>2 DEF BG!Refuse
  <2>4. CASE LoadBIOSAssets
    BY <2>4 DEF LoadBIOSAssets, Inv, GenInv, BG!Refuse
  <2>5. CASE UpdateUEFITarget \/ Answer
    <3>1. UNCHANGED <<loader, meta, old, asset, held>> /\ asset \in Installable
      BY <2>5 DEF UpdateUEFITarget, Answer, Inv, GenInv
    <3>2. pc \in {"target", "prompt"} /\ pc' \in {"prompt", "backup", "idle"}
          /\ (outcome' \in {"failed", "current", "declined"} \/ outcome' = outcome)
      BY <2>5 DEF UpdateUEFITarget, Answer
    <3> QED
      BY <3>1, <3>2 DEF BG!Refuse
  <2>6. CASE BackupUEFIGeneration
    BY <2>6 DEF BackupUEFIGeneration, Inv, GenInv, BG!Refuse, BG!Begin
  <2>7. CASE BackupPrevious \/ VerifyLoader \/ SyncLoaderDir
    BY <2>7 DEF BackupPrevious, VerifyLoader, SyncLoaderDir
  <2>8. CASE RenameLoader
    <3>1. pc \in Writing /\ pc' \in Writing /\ UNCHANGED <<old, asset, held, outcome, meta>>
      BY <2>8 DEF RenameLoader
    <3>2. loader' \in {asset, Bad, loader}
      BY <2>8 DEF RenameLoader
    <3> QED
      BY <3>1, <3>2 DEF BG!Write, BG!Touch
  <2>9. CASE WriteUEFIMetadata
    <3>1. pc \in Writing /\ pc' \in Writing /\ UNCHANGED <<old, asset, held, outcome, loader>>
      BY <2>9 DEF WriteUEFIMetadata
    <3>2. meta' \in {asset, meta}
      BY <2>9 DEF WriteUEFIMetadata
    <3> QED
      BY <3>1, <3>2 DEF BG!Write, BG!Touch
  <2>10. CASE SyncMetadataDir
    BY <2>10 DEF SyncMetadataDir, Inv, GenInv, BG!End
  <2>11. CASE RestoreLoader
    BY <2>11, RestoredFile DEF RestoreLoader, BG!Write, BG!Touch
  <2>12. CASE RestoreMetadata
    BY <2>12, RestoredFile DEF RestoreMetadata, Inv, GenInv, BG!End, BG!Touch
  <2>13. CASE PowerLoss
    BY <2>13 DEF PowerLoss, Inv, GenInv, BG!Lose
  <2>14. CASE Kill
    BY <2>14 DEF Kill, BG!Lose
  <2> QED
    BY <2>1, <2>2, <2>3, <2>4, <2>5, <2>6, <2>7, <2>8, <2>9, <2>10, <2>11, <2>12, <2>13, <2>14
       DEF Next, Step, BG!Next
<1> QED
  BY <1>1, <1>2, Invariant, PTL DEF Spec, Implements, BG!Spec
=============================================================================
