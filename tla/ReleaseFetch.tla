---------------------------- MODULE ReleaseFetch ----------------------------
(***************************************************************************)
(* Where the bytes of an install or update come from                       *)
(* (internal/release): each asset of a job is a local file, an explicit    *)
(* URL or, by default, the asset of the latest release.  Releases are      *)
(* published while a job runs; a server may answer with an older or        *)
(* another file, a damaged one, another release's SHA256SUMS or signature, *)
(* or not at all.                                                          *)
(*                                                                         *)
(* What a file holds is the asset it was built as, its architecture and    *)
(* its release (BuildStamp order); a hash is the content itself.           *)
(***************************************************************************)
EXTENDS Integers, Sequences

CONSTANTS Arches,     \* architectures
          MaxTag,     \* bound on releases
          MaxWrong    \* bound on wrong or missing answers of a server, per job

ASSUME MaxTagAssumption == MaxTag \in Nat /\ MaxWrong \in Nat

Content(asset, arch, tag) == [asset |-> asset, arch |-> arch, tag |-> tag]
AssetNames == {"efi", "stage1", "stage2", "kernel", "initrd", "cmdline"}
Contents == [asset : AssetNames \cup {"absent", "bad", "torn"}, arch : Arches \cup {"none"},
             tag : Nat]
Absent == Content("absent", "none", 0)
Bad == Content("bad", "none", 0)         \* damaged on the wire or on the medium

VARIABLES pub,    \* sequence of releases: the architecture its files were built for
          job,    \* the assets asked for and where each comes from
          fetch   \* the state of ResolveEFI / ResolveBIOS
fetchVars == <<pub, job, fetch>>

Job(slots, from) == [slots |-> slots, from |-> from]
Fetch(pc, tag, sums, file, got, wrong) ==
    [pc |-> pc, tag |-> tag, sums |-> sums, file |-> file, got |-> got, wrong |-> wrong]
NoFetch == Fetch("none", 0, {}, Absent, <<>>, 0)

Tags == DOMAIN pub
Asset(slot, tag) == Content(slot, pub[tag], tag)
Slots == {job.slots[n] : n \in DOMAIN job.slots}
Published == {Asset(s, t) : s \in Slots, t \in Tags}
NeedDefault(j) == \E n \in DOMAIN j.from : j.from[n] = "default"

\* BIOSAssetNames: the loose files of a BIOS build, in ResolveBIOS's order.
BIOSSlots == <<"stage1", "stage2", "kernel", "initrd", "cmdline">>

-----------------------------------------------------------------------------
(* minisign: a signature binds a content to a trusted comment, which names a tag and
   an asset; it counts when a trusted key made it, prehashed, and the comment is
   covered by it. *)

Sig(content, key, algo, tag, slot, sealed) ==
    [content |-> content, key |-> key, algo |-> algo, tag |-> tag, slot |-> slot, sealed |-> sealed]
TrustedKeys == {"key2026"}
SignedAs(c) == Sig(c, "key2026", "ED", c.tag, c.asset, TRUE)
ByOtherKey(c) == Sig(c, "other", "ED", c.tag, c.asset, TRUE)
Legacy(c) == Sig(c, "key2026", "Ed", c.tag, c.asset, TRUE)
Altered(c, tag) == Sig(c, "key2026", "ED", tag, c.asset, FALSE)
Verify(message, sig) ==
    sig.algo = "ED" /\ sig.key \in TrustedKeys /\ sig.content = message /\ sig.sealed

\* What a server may hold next to a file: a signature of any published file, one by
\* another key, one in the legacy algorithm, one with another file's comment.
Signatures(slot) ==
    LET here == {c \in Published : c.asset = slot}
    IN {SignedAs(c) : c \in Published}
       \cup {ByOtherKey(c) : c \in here}
       \cup {Legacy(c) : c \in here}
       \cup {Altered(c, t) : c \in here, t \in Tags}

\* A slip: the comment's release is not compared.
VerifySignatureAnyTag(content, sig, slot, tag) == Verify(content, sig) /\ sig.slot = slot
\* verifySignatureAtURL: the comment must name the asset, and the tag where one is known.
VerifySignatureAtURL(content, sig, slot, tag) ==
    Verify(content, sig) /\ sig.slot = slot /\ (tag # 0 => sig.tag = tag)

\* verifyChecksum: sums is the set of contents SHA256SUMS lists.
VerifyChecksum(content, slot, sums) == content \in sums /\ content.asset = slot

-----------------------------------------------------------------------------
Cleaned(wrong) == Fetch("failed", fetch.tag, fetch.sums, Absent, <<>>, wrong)
Wrong(n) == fetch.wrong + n <= MaxWrong
At(pc) == fetch.pc = pc
Slot == job.slots[Len(fetch.got) + 1]
From == job.from[Len(fetch.got) + 1]
Fails == Wrong(1) /\ fetch' = Cleaned(fetch.wrong + 1)

StartFetch(j) ==
    /\ job' = j
    /\ fetch' = Fetch(IF NeedDefault(j) THEN "tag" ELSE "slot", 0, {}, Absent, <<>>, 0)

\* resolveTag: the latest release at this moment; the answer of the API is not signed and
\* is taken as right
ResolveTag ==
    /\ At("tag")
    /\ fetch' = [fetch EXCEPT !.pc = "sums", !.tag = Len(pub)] \/ Fails
    /\ UNCHANGED <<pub, job>>

\* fetchChecksums: the sums of that tag, or of another one
FetchChecksums ==
    /\ At("sums")
    /\ \/ \E t \in Tags :
             LET n == IF t = fetch.tag THEN 0 ELSE 1
             IN /\ Wrong(n)
                /\ fetch' = [fetch EXCEPT !.pc = "slot", !.wrong = @ + n,
                                          !.sums = {Asset(s, t) : s \in Slots}]
       \/ Fails
    /\ UNCHANGED <<pub, job>>

Took(content, wrong) ==
    LET got == Append(fetch.got, content)
    IN Fetch(IF Len(got) = Len(job.slots) THEN "fetched" ELSE "slot",
             fetch.tag, fetch.sums, Absent, got, wrong)

\* copyToTemp: a local file is taken as it is
CopyToTemp(local) ==
    /\ At("slot") /\ From = "file"
    /\ fetch' = Took(local, fetch.wrong) \/ Fails
    /\ UNCHANGED <<pub, job>>

\* downloadAsset
DownloadAsset ==
    /\ At("slot") /\ From # "file"
    /\ \/ \E body \in Published \cup {Bad} :
             LET n == IF From = "url" \/ body = Asset(Slot, fetch.tag) THEN 0 ELSE 1
             IN Wrong(n) /\ fetch' = [fetch EXCEPT !.pc = "check", !.file = body, !.wrong = @ + n]
       \/ Fails
    /\ UNCHANGED <<pub, job>>

\* The checks of Source.resolve (a URL) and of the default assets; the wrong file and
\* all files before it are removed.
CheckAsset ==
    LET default == From = "default"
        tag     == IF default THEN fetch.tag ELSE 0
    IN /\ At("check")
       /\ \/ \E sig \in Signatures(Slot) :
                LET n  == IF ~default \/ sig = SignedAs(Asset(Slot, fetch.tag)) THEN 0 ELSE 1
                    ok == /\ default => VerifyChecksum(fetch.file, Slot, fetch.sums)
                          /\ VerifySignatureAtURL(fetch.file, sig, Slot, tag)
                IN /\ Wrong(n)
                   /\ fetch' = IF ok THEN Took(fetch.file, fetch.wrong + n) ELSE Cleaned(fetch.wrong + n)
          \/ Fails
       /\ UNCHANGED <<pub, job>>

\* A release is published; a build made wrong carries another architecture.
Publish(arch) ==
    /\ Len(pub) < MaxTag
    /\ pub' = Append(pub, arch)
    /\ UNCHANGED <<job, fetch>>

FetchStep(local) == ResolveTag \/ FetchChecksums \/ CopyToTemp(local) \/ DownloadAsset \/ CheckAsset

-----------------------------------------------------------------------------
\* "all five (or none) come from one real, specific, immutable release" (resolveTag):
\* when a fetch succeeds, every default asset is the asset of its slot in the one release
\* whose tag was resolved, whatever was published or served wrongly meanwhile, and every
\* asset from a URL is a published asset of its slot.
OneRelease ==
    fetch.pc = "fetched" =>
        \A n \in DOMAIN job.slots :
            /\ job.from[n] = "default" => fetch.got[n] = Asset(job.slots[n], fetch.tag)
            /\ job.from[n] = "url" => \E t \in Tags : fetch.got[n] = Asset(job.slots[n], t)
=============================================================================
