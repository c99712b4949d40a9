-------------------------- MODULE InitScriptProofs --------------------------
(***************************************************************************)
(* The initramfs scripts.  ClonesRefused, OneInstallation and SameRules    *)
(* (init/esp-select.sh against the tool) for any number of devices, any    *)
(* volumes on them, and every list, marker and booted ESP.  Then           *)
(* MutualExclusion of the lock directory (init/boot-dataset.sh).           *)
(***************************************************************************)
EXTENDS EspSelect, DirLock, WellFoundedInduction, TLAPS

\* A leaf is tried with Zenon, then with the SMT solver, then with Zenon for longer.
USE ZenonT(2), SMT, Zenon

(* A set of naturals has a least element. *)
LEMMA LeastExists ==
    ASSUME NEW D, D \subseteq Nat, D # {}
    PROVE  \E d \in D : \A e \in D : d <= e
<1>1. PICK d \in D : \A e \in D : ~(<<e, d>> \in OpToRel(<, Nat))
  BY NatLessThanWellFounded, WFMin, Zenon
<1>2. \A e \in D : ~(e < d)
  BY <1>1 DEF OpToRel
<1> QED BY <1>2

(* A relation that is transitive and irreflexive on some of the first n    *)
(* numbers leaves one of them with nothing before it.                      *)
LEMMA UndominatedExists ==
    ASSUME NEW n \in Nat, NEW D \in SUBSET (1 .. n), D # {}, NEW R,
           \A x \in D : <<x, x>> \notin R,
           \A x, y, z \in D : <<x, y>> \in R /\ <<y, z>> \in R => <<x, z>> \in R
    PROVE  \E d \in D : \A e \in D : <<e, d>> \notin R
<1> DEFINE Good(E) == \E d \in E : \A e \in E : <<e, d>> \notin R
           Bad == {k \in 0 .. n : \E E \in SUBSET D : E \subseteq 1 .. k /\ E # {} /\ ~Good(E)}
<1> SUFFICES ASSUME ~Good(D) PROVE FALSE
  OBVIOUS
<1>1. Bad \subseteq Nat /\ n \in Bad
  OBVIOUS
<1> HIDE DEF Good, Bad
<1>2. PICK x \in Bad : \A k \in Bad : x <= k
  BY <1>1, LeastExists, Zenon
<1>3. PICK E \in SUBSET D : E \subseteq 1 .. x /\ E # {} /\ ~Good(E)
  BY <1>2 DEF Bad
<1>4. x \in 0 .. n /\ x # 0
  <2>1. x \in 0 .. n
    BY <1>2 DEF Bad
  <2>2. 1 .. 0 = {}
    OBVIOUS
  <2> QED BY <2>1, <2>2, <1>3
<1>5. \A G \in SUBSET D : G \subseteq 1 .. (x - 1) => G = {} \/ Good(G)
  <2>1. x - 1 \in 0 .. n /\ ~(x <= x - 1)
    BY <1>4
  <2> QED BY <1>2, <2>1 DEF Bad
<1> DEFINE F == E \ {x}
<1>6. x \in E /\ F \in SUBSET D /\ (F = {} \/ Good(F))
  <2>1. \A G \in SUBSET E : x \notin G => G \subseteq 1 .. (x - 1)
    BY <1>3, <1>4
  <2>2. x \in E
    BY <1>3, <1>5, <2>1
  <2> QED BY <1>3, <1>5, <2>1, <2>2
<1> USE DEF Good
<1>7. CASE F = {}
  <2>1. \A e \in E : e = x
    BY <1>7
  <2> QED BY <2>1, <1>3, <1>6
<1>8. CASE Good(F)
  <2>1. PICK y \in F : \A e \in F : <<e, y>> \notin R
    BY <1>8
  <2>2. CASE <<x, y>> \in R
    <3>1. \A e \in E : <<e, x>> \notin R
      <4> SUFFICES ASSUME NEW e \in E, <<e, x>> \in R PROVE FALSE
        OBVIOUS
      <4>1. e # x /\ e \in F
        BY <1>3, <1>6
      <4>2. <<e, y>> \in R
        BY <2>1, <2>2, <1>3, <1>6, <4>1
      <4> QED BY <4>1, <4>2, <2>1
    <3> QED BY <3>1, <1>3, <1>6
  <2>3. CASE <<x, y>> \notin R
    <3>1. \A e \in E : <<e, y>> \notin R
      BY <2>1, <2>3
    <3> QED BY <3>1, <1>3, <2>1
  <2> QED BY <2>2, <2>3
<1> QED BY <1>6, <1>7, <1>8

-----------------------------------------------------------------------------
(* What a scan learns: of some devices a UUID, a generation and a list; a  *)
(* marker that counts names an installation.                               *)
Scanned(infos) ==
    /\ DOMAIN infos \subseteq Devices /\ DOMAIN infos \subseteq Nat \ {0}
    /\ \A d \in DOMAIN infos :
           /\ infos[d].uuid \in UUIDs /\ infos[d].list \in Seq(UUIDs)
           /\ Generation(infos[d]) \in Nat
           /\ ValidMember(infos[d]) => infos[d].member.id # NoId

(* A listed UUID has a position, another has none. *)
LEMMA RankType ==
    ASSUME NEW list \in Seq(UUIDs), NEW u
    PROVE  Rank(list, u) \in Nat /\ (Rank(list, u) # 0 <=> u \in Listed(list))
BY DEF Rank, Listed

(* orderMembers' less is irreflexive, and transitive where either all are  *)
(* listed or none is.                                                      *)
LEMMA BeforeOrder ==
    ASSUME NEW i, NEW j, NEW k, NEW primary, NEW list,
           {Generation(i), Generation(j), Generation(k)} \subseteq Nat,
           {i.uuid, j.uuid, k.uuid} \subseteq Nat,
           {Rank(list, i.uuid), Rank(list, j.uuid), Rank(list, k.uuid)} \subseteq Nat,
           Rank(list, i.uuid) = 0 <=> Rank(list, j.uuid) = 0,
           Rank(list, j.uuid) = 0 <=> Rank(list, k.uuid) = 0
    PROVE  /\ ~Before(i, i, primary, list)
           /\ Before(i, j, primary, list) /\ Before(j, k, primary, list) => Before(i, k, primary, list)
BY DEF Before

(* The members have a best one. *)
LEMMA BestExists ==
    ASSUME NEW infos, Scanned(infos), NEW D \in SUBSET DOMAIN infos, D # {}, NEW primary, NEW list \in Seq(UUIDs),
           list = <<>> \/ \A d \in D : infos[d].uuid \in Listed(list)
    PROVE  Best(infos, D, primary, list) \in D
<1> DEFINE R == {de \in D \X D : Before(infos[de[1]], infos[de[2]], primary, list)}
<1>1. \A d, e \in D : <<d, e>> \in R <=> Before(infos[d], infos[e], primary, list)
  OBVIOUS
<1> HIDE DEF R
<1>2. NDevices \in Nat /\ D \in SUBSET (1 .. NDevices)
  BY DevicesAssumption DEF Scanned, Devices
<1>3. \A d \in D : /\ Generation(infos[d]) \in Nat /\ infos[d].uuid \in Nat
                   /\ Rank(list, infos[d].uuid) \in Nat
  BY RankType, UUIDsAssumption DEF Scanned
<1>4. \A d, e \in D : Rank(list, infos[d].uuid) = 0 <=> Rank(list, infos[e].uuid) = 0
  <2>1. CASE list = <<>>
    <3>1. Listed(list) = {}
      BY <2>1 DEF Listed
    <3> QED BY <3>1, RankType
  <2>2. CASE \A d \in D : infos[d].uuid \in Listed(list)
    BY <2>2, RankType
  <2> QED BY <2>1, <2>2
<1>5. \A d \in D : <<d, d>> \notin R
  BY <1>1, <1>3, BeforeOrder
<1>6. \A d, e, f \in D : <<d, e>> \in R /\ <<e, f>> \in R => <<d, f>> \in R
  <2> TAKE d, e, f \in D
  <2>1. Before(infos[d], infos[e], primary, list) /\ Before(infos[e], infos[f], primary, list)
            => Before(infos[d], infos[f], primary, list)
    <3> DEFINE i == infos[d]
               j == infos[e]
               k == infos[f]
    <3>1. /\ {Generation(i), Generation(j), Generation(k)} \subseteq Nat /\ {i.uuid, j.uuid, k.uuid} \subseteq Nat
          /\ {Rank(list, i.uuid), Rank(list, j.uuid), Rank(list, k.uuid)} \subseteq Nat
      BY <1>3
    <3>2. /\ Rank(list, i.uuid) = 0 <=> Rank(list, j.uuid) = 0
          /\ Rank(list, j.uuid) = 0 <=> Rank(list, k.uuid) = 0
      BY <1>4
    <3> HIDE DEF i, j, k
    <3>3. Before(i, j, primary, list) /\ Before(j, k, primary, list) => Before(i, k, primary, list)
      BY <3>1, <3>2, BeforeOrder
    <3> QED BY <3>3 DEF i, j, k
  <2> QED BY <1>1, <2>1
<1>7. \E d \in D : \A e \in D : <<e, d>> \notin R
  BY <1>2, <1>5, <1>6, UndominatedExists
<1>8. \E d \in D : \A e \in D \ {d} : ~Before(infos[e], infos[d], primary, list)
  BY <1>1, <1>7
<1> QED BY <1>8 DEF Best

(* The walk over the candidates ends with a usable one, if there is one. *)
LEMMA FirstUsableType ==
    ASSUME NEW infos, Scanned(infos), NEW D \in SUBSET DOMAIN infos, NEW list \in Seq(UUIDs),
           list = <<>> \/ \A d \in D : infos[d].uuid \in Listed(list)
    PROVE  /\ FirstUsable(infos, D, list) # NoDevice => FirstUsable(infos, D, list) \in D
           /\ (\E d \in D : infos[d].qual) => FirstUsable(infos, D, list) # NoDevice
<1> DEFINE usable == {d \in D : infos[d].qual}
           passed == {d \in usable : vols[d].sizes}
<1>1. passed # {} => Best(infos, passed, NoUUID, list) \in passed
  BY BestExists
<1>2. usable # {} => Best(infos, usable, NoUUID, list) \in usable
  BY BestExists
<1>3. NoDevice \notin D
  BY DEF Scanned, NoDevice
<1>4. FirstUsable(infos, D, list) = IF passed # {} THEN Best(infos, passed, NoUUID, list)
                                    ELSE IF usable # {} THEN Best(infos, usable, NoUUID, list) ELSE NoDevice
  BY DEF FirstUsable
<1> QED BY <1>1, <1>2, <1>3, <1>4

(* The first of some devices in scan order. *)
LEMMA FirstType ==
    ASSUME NEW D, D \subseteq Nat, D # {}
    PROVE  First(D) \in D
BY LeastExists DEF First

(* A set of one member is that member. *)
LEMMA OnlyMember ==
    ASSUME NEW S
    PROVE  /\ Lone(S) => S = {CHOOSE x \in S : TRUE}
           /\ ~Lone({})
           /\ \A x : Lone({x})
<1>1. ASSUME NEW x, S = {x} PROVE S = {CHOOSE y \in S : TRUE}
  BY <1>1
<1> QED BY <1>1 DEF Lone

-----------------------------------------------------------------------------
(* The outcome of the tool and of init for one question, and the volumes   *)
(* it was asked about.                                                     *)
Answered(infos, list, primary, self) ==
    /\ infos = ScanESPs(vols)
    /\ list \in Seq(UUIDs) /\ ParsesUUIDList(list)
    /\ self \in {NoUUID, primary}
    /\ asked = Ask(TRUE, list, primary, self)
    /\ tool = SelectHost(infos, list, primary)
    /\ picked = EspSelect(infos, list, self)

VolumesOK ==
    /\ DOMAIN vols = Devices
    /\ \A d \in Devices : vols[d] = Blank \/ vols[d] \in Volumes[d]

(* Nothing is selected before the question; then the selection is the one  *)
(* the volumes still call for.                                             *)
SelectInv ==
    /\ VolumesOK
    /\ \/ asked = NotAsked /\ tool = Refused /\ picked = NoDevice
       \/ \E infos, list, primary, self : Answered(infos, list, primary, self)

(* init's choice is a matter of the volumes and the question alone. *)
LEMMA PickStays ==
    ASSUME NEW infos, UNCHANGED vols
    PROVE  \A list, self : EspSelect(infos, list, self)' = EspSelect(infos, list, self)
<1>1. \A D, list : FirstUsable(infos, D, list)' = FirstUsable(infos, D, list)
  BY DEF FirstUsable
<1>2. \A list, id : EspSelectList(infos, list, id)' = EspSelectList(infos, list, id)
  BY <1>1 DEF EspSelectList
<1>3. \A id : EspSelectGroup(infos, id)' = EspSelectGroup(infos, id)
  BY <1>1, <1>2 DEF EspSelectGroup
<1>4. EspSelectLegacy(infos)' = EspSelectLegacy(infos)
  <2> DEFINE named == {d \in DOMAIN infos : infos[d].efi /\ infos[d].qual /\ infos[d].member = NoMarker}
             clean == {d \in named : ~infos[d].bad}
             leg   == IF clean = {} /\ Lone(named) THEN named ELSE clean
             lists == {infos[d].list : d \in leg} \ {<<>>}
             agreed == Lone(lists) /\ \A l \in lists : ParsesUUIDList(l)
             stop == leg = {} \/ \E d \in leg : Cloned(infos, infos[d].uuid)
             list == CHOOSE l \in lists : TRUE
             only == IF Lone(leg) THEN CHOOSE d \in leg : TRUE ELSE NoDevice
  <2>1. EspSelectLegacy(infos) =
           IF stop THEN NoDevice ELSE IF agreed THEN EspSelectList(infos, list, NoId) ELSE only
    BY Zenon DEF EspSelectLegacy
  <2>2. EspSelectLegacy(infos)' =
           IF stop THEN NoDevice ELSE IF agreed THEN EspSelectList(infos, list, NoId)' ELSE only
    BY Zenon DEF EspSelectLegacy
  <2> HIDE DEF named, clean, leg, lists, agreed, stop, list, only
  <2> QED BY <1>2, <2>1, <2>2
<1> QED BY <1>2, <1>3, <1>4 DEF EspSelect

(* Every step keeps it. *)
LEMMA SelectInvariant == Spec => []SelectInv
<1>1. Init => SelectInv
  BY DEF Init, SelectInv, VolumesOK
<1>2. SelectInv /\ [Next]_vars => SelectInv'
  <2> SUFFICES ASSUME SelectInv, [Next]_vars PROVE SelectInv'
    OBVIOUS
  <2>1. ASSUME NEW d \in Devices, NEW v \in Volumes[d], Attach(d, v) PROVE SelectInv'
    <3>1. asked = NotAsked /\ \A infos, list, primary, self : ~Answered(infos, list, primary, self)
      BY <2>1 DEF Attach, Answered, Ask, NotAsked
    <3>2. asked' = NotAsked /\ tool' = Refused /\ picked' = NoDevice
      BY <2>1, <3>1 DEF SelectInv, Attach
    <3>3. VolumesOK'
      BY <2>1 DEF SelectInv, VolumesOK, Attach
    <3> QED BY <3>2, <3>3 DEF SelectInv
  <2>2. ASSUME NEW list \in CmdLists, NEW primary, NEW uefi \in BOOLEAN, Select(list, primary, uefi)
        PROVE  SelectInv'
    <3> DEFINE self == IF uefi THEN NoUUID ELSE primary
    <3> PICK infos : infos = ScanESPs(vols)
      OBVIOUS
    <3>0. vols' = vols /\ EspSelect(infos, list, self)' = EspSelect(infos, list, self)
      BY <2>2, PickStays DEF Select
    <3>1. Answered(infos, list, primary, self)'
      BY <2>2, <3>0, CmdListsAssumption DEF Select, Answered
    <3>2. VolumesOK'
      BY <2>2 DEF SelectInv, VolumesOK, Select
    <3> QED BY <3>1, <3>2 DEF SelectInv
  <2>3. CASE UNCHANGED vars
    <3>1. \A infos, list, primary, self : Answered(infos, list, primary, self) => Answered(infos, list, primary, self)'
      BY <2>3, PickStays DEF vars, Answered
    <3>2. VolumesOK'
      BY <2>3 DEF vars, SelectInv, VolumesOK
    <3> QED BY <2>3, <3>1, <3>2 DEF vars, SelectInv
  <2> QED BY <2>1, <2>2, <2>3 DEF Next
<1> QED BY <1>1, <1>2, PTL DEF Spec

(* The scan reports of a volume its UUID and list, and its marker only     *)
(* where Decode accepts it.                                                *)
LEMMA ScanReports ==
    ASSUME VolumesOK
    PROVE  /\ Scanned(ScanESPs(vols))
           /\ \A d \in DOMAIN ScanESPs(vols) :
                  /\ d \in Devices /\ vols[d].fat /\ ScanESPs(vols)[d].uuid = vols[d].uuid
                  /\ ScanESPs(vols)[d].list \in {<<>>, vols[d].list}
                  /\ ValidMember(ScanESPs(vols)[d]) => ScanESPs(vols)[d].member = vols[d].marker
<1> DEFINE infos == ScanESPs(vols)
<1>1. DOMAIN infos = {d \in Devices : vols[d].fat}
  BY DEF ScanESPs, ScanFATVolumes, VolumesOK
<1>2. DOMAIN infos \subseteq Devices /\ DOMAIN infos \subseteq Nat \ {0}
  BY <1>1, DevicesAssumption DEF Devices
<1>3. ASSUME NEW d \in DOMAIN infos
      PROVE  /\ infos[d].uuid = vols[d].uuid /\ infos[d].list \in {<<>>, vols[d].list}
             /\ infos[d].member \in {NoMarker, vols[d].marker}
             /\ infos[d].member # NoMarker => Decodes(vols[d].marker)
  <2>1. infos[d] = ProbeESPFiles(vols[d])
    BY <1>1 DEF ScanESPs, ScanFATVolumes, VolumesOK
  <2>2. CASE vols[d].mounts
    BY <2>1, <2>2 DEF ProbeESPFiles, ProbeMounted, Info
  <2>3. CASE ~vols[d].mounts
    BY <2>1, <2>3 DEF ProbeESPFiles, Info
  <2> QED BY <2>2, <2>3
<1>4. ASSUME NEW d \in DOMAIN infos
      PROVE  d \in Devices /\ vols[d].fat /\ vols[d].uuid \in UUIDs /\ vols[d].marker.gen \in Nat
             /\ vols[d].list \in Seq(UUIDs)
  <2>1. d \in Devices /\ vols[d].fat
    BY <1>1
  <2>2. vols[d] # Blank
    BY <2>1 DEF Blank
  <2> QED BY <2>1, <2>2, VolumesAssumption DEF VolumesOK
<1> HIDE DEF infos
<1>5. ASSUME NEW d \in DOMAIN infos
      PROVE  /\ infos[d].list \in Seq(UUIDs)
             /\ Generation(infos[d]) \in Nat
             /\ ValidMember(infos[d]) => infos[d].member.id # NoId
  <2>0. <<>> \in Seq(UUIDs)
    OBVIOUS
  <2>1. infos[d].list \in Seq(UUIDs)
    BY <1>3, <1>4, <2>0, Zenon
  <2>2. ValidMember(infos[d]) => infos[d].member = vols[d].marker /\ vols[d].marker.id # NoId
    BY <1>3 DEF ValidMember, Decodes
  <2> QED BY <2>1, <2>2, <1>4 DEF Generation
<1>6. Scanned(infos)
  BY <1>2, <1>3, <1>4, <1>5 DEF Scanned
<1> QED BY <1>3, <1>4, <1>6 DEF infos, ValidMember

-----------------------------------------------------------------------------
(* Clones.  What either side takes is the only device with its UUID. *)

Single(infos, D) == \A d \in D : d \in DOMAIN infos /\ ~Cloned(infos, infos[d].uuid)

(* A list is refused where one of its UUIDs is on two devices. *)
LEMMA SelectListSingle ==
    ASSUME NEW infos, NEW list, NEW primary
    PROVE  Single(infos, SelectList(infos, list, primary).members)
BY DEF SelectList, HostSet, Refused, Single

(* dupError for the unmarked ESP. *)
LEMMA SelectLegacySingle ==
    ASSUME NEW infos, Scanned(infos)
    PROVE  Single(infos, SelectLegacy(infos).members)
<1> DEFINE named == {d \in DOMAIN infos : infos[d].efi /\ infos[d].qual /\ infos[d].member = NoMarker}
           clean == {d \in named : ~infos[d].bad}
           qual  == IF clean = {} /\ Lone(named) THEN named ELSE clean
           lists == {infos[d].list : d \in qual} \ {<<>>}
           one   == CHOOSE d \in qual : TRUE
           whole == HostSet("legacy", NoId, qual, {}, {infos[one].uuid}, NoUUID, <<>>)
           set   == SelectLegacy(infos)
<1>1. qual \subseteq DOMAIN infos
  OBVIOUS
<1>2. \/ Lone(qual) /\ ~Cloned(infos, infos[one].uuid) /\ set = whole
      \/ set = SelectList(infos, CHOOSE l \in lists : TRUE, NoUUID)
      \/ set = Refused
  BY DEF SelectLegacy
<1> HIDE DEF qual, lists, set
<1>3. CASE Lone(qual) /\ ~Cloned(infos, infos[one].uuid) /\ set = whole
  <2>1. qual = {one}
    BY <1>1, <1>3, OnlyMember
  <2>2. set.members = {one}
    BY <2>1, <1>3 DEF HostSet
  <2> QED BY <2>1, <2>2, <1>1, <1>3 DEF Single, set
<1>4. CASE set = SelectList(infos, CHOOSE l \in lists : TRUE, NoUUID)
  BY <1>4, SelectListSingle DEF set
<1>5. CASE set = Refused
  BY <1>5 DEF Refused, HostSet, Single, set
<1> QED BY <1>2, <1>3, <1>4, <1>5

(* A group is refused where one of its members has a clone. *)
LEMMA SelectGroupSingle ==
    ASSUME NEW infos, NEW id, NEW primary
    PROVE  Single(infos, SelectGroup(infos, id, primary).members)
<1> DEFINE members == {d \in DOMAIN infos : ValidMember(infos[d]) /\ infos[d].member.id = id}
           best    == infos[Best(infos, members, primary, <<>>)]
           set     == SelectGroup(infos, id, primary)
<1>1. \/ set = Refused
      \/ /\ \A d \in members : ~Cloned(infos, infos[d].uuid)
         /\ set = HostSet("member", id, members, {},
                          best.member.members \cup {infos[d].uuid : d \in members}, primary, <<>>)
      \/ set = SelectList(infos, best.list, primary)
  BY DEF SelectGroup
<1>2. members \subseteq DOMAIN infos
  OBVIOUS
<1> HIDE DEF members, best, set
<1>3. CASE set = Refused
  BY <1>3 DEF Refused, HostSet, Single, set
<1>4. CASE set = SelectList(infos, best.list, primary)
  BY <1>4, SelectListSingle DEF set
<1>5. CASE /\ \A d \in members : ~Cloned(infos, infos[d].uuid)
           /\ set.members = members
  BY <1>2, <1>5 DEF Single, set
<1> QED BY <1>1, <1>3, <1>4, <1>5 DEF HostSet

(* The tool never takes an ESP that has a clone. *)
LEMMA SelectHostSingle ==
    ASSUME NEW infos, Scanned(infos), NEW list, NEW primary
    PROVE  Single(infos, SelectHost(infos, list, primary).members)
<1> DEFINE set == SelectHost(infos, list, primary)
<1>1. \/ set = SelectList(infos, list, primary)
      \/ set = SelectLegacy(infos)
      \/ set = Refused
      \/ \E id : set = SelectGroup(infos, id, primary)
  BY DEF SelectHost
<1>2. Single(infos, Refused.members)
  BY DEF Refused, HostSet, Single
<1> QED BY <1>1, <1>2, SelectListSingle, SelectLegacySingle, SelectGroupSingle

(* _esp_select_list takes a listed ESP, and none where a listed UUID is on *)
(* two devices.                                                            *)
LEMMA PickListSingle ==
    ASSUME NEW infos, Scanned(infos), NEW list \in Seq(UUIDs), NEW id, EspSelectList(infos, list, id) # NoDevice
    PROVE  Single(infos, {EspSelectList(infos, list, id)})
<1> DEFINE present == {d \in DOMAIN infos : infos[d].uuid \in Listed(list)}
           pick    == EspSelectList(infos, list, id)
<1>1. PICK foreign : /\ ~\E u \in Listed(list) : Cloned(infos, u)
                     /\ pick = FirstUsable(infos, present \ foreign, list)
  BY DEF EspSelectList
<1>2. pick \in present
  BY <1>1, FirstUsableType
<1> QED BY <1>1, <1>2 DEF Single

(* The markers that count, and the installations they name. *)
Marked(infos) == {d \in DOMAIN infos : ValidMember(infos[d])}
IdsOf(infos) == {infos[d].member.id : d \in Marked(infos)}

(* Rule 3 of esp_select, and the list a member's config may hold. *)
LEMMA PickGroupSingle ==
    ASSUME NEW infos, Scanned(infos), NEW id \in IdsOf(infos), EspSelectGroup(infos, id) # NoDevice
    PROVE  Single(infos, {EspSelectGroup(infos, id)})
<1> DEFINE cands == {d \in DOMAIN infos : ValidMember(infos[d]) /\ infos[d].member.id = id}
           list  == infos[Best(infos, cands, NoUUID, <<>>)].list
           pick  == EspSelectGroup(infos, id)
<1>0. <<>> \in Seq(UUIDs)
  OBVIOUS
<1>1. /\ \A d \in cands : ~Cloned(infos, infos[d].uuid)
      /\ \/ pick = EspSelectList(infos, list, id)
         \/ pick = FirstUsable(infos, cands, <<>>)
  BY DEF EspSelectGroup
<1>2. CASE pick = FirstUsable(infos, cands, <<>>)
  <2>1. pick \in cands
    BY <1>0, <1>2, FirstUsableType
  <2> QED BY <2>1, <1>1 DEF Single
<1>3. CASE pick = EspSelectList(infos, list, id)
  <2>1. cands # {}
    BY DEF IdsOf, Marked
  <2>2. list \in Seq(UUIDs)
    BY <1>0, <2>1, BestExists DEF Scanned
  <2> QED BY <1>3, <2>2, PickListSingle
<1> QED BY <1>1, <1>2, <1>3

(* Rule 4 looks for clones before anything else. *)
LEMMA PickLegacySingle ==
    ASSUME NEW infos, Scanned(infos), EspSelectLegacy(infos) # NoDevice
    PROVE  Single(infos, {EspSelectLegacy(infos)})
<1> DEFINE named == {d \in DOMAIN infos : infos[d].efi /\ infos[d].qual /\ infos[d].member = NoMarker}
           clean == {d \in named : ~infos[d].bad}
           leg   == IF clean = {} /\ Lone(named) THEN named ELSE clean
           lists == {infos[d].list : d \in leg} \ {<<>>}
           pick  == EspSelectLegacy(infos)
<1>1. leg \subseteq DOMAIN infos
  OBVIOUS
<1>2. /\ \A d \in leg : ~Cloned(infos, infos[d].uuid)
      /\ \/ /\ Lone(lists)
            /\ pick = EspSelectList(infos, CHOOSE l \in lists : TRUE, NoId)
         \/ leg # {} /\ pick = CHOOSE d \in leg : TRUE
  BY DEF EspSelectLegacy
<1>3. \A l \in lists : l \in Seq(UUIDs)
  BY <1>1 DEF Scanned
<1> HIDE DEF leg, lists
<1>4. CASE leg # {} /\ pick = CHOOSE d \in leg : TRUE
  BY <1>1, <1>2, <1>4 DEF Single
<1>5. CASE Lone(lists) /\ pick = EspSelectList(infos, CHOOSE l \in lists : TRUE, NoId)
  <2>1. (CHOOSE l \in lists : TRUE) \in lists
    BY <1>1, <1>5, OnlyMember
  <2> QED BY <2>1, <1>3, <1>5, PickListSingle
<1> QED BY <1>2, <1>4, <1>5

(* One marked ESP, not labelled EFI, next to an unmarked LABEL=EFI one. *)
Stick(infos) ==
    /\ Lone(Marked(infos))
    /\ \A d \in Marked(infos) : ~infos[d].efi
    /\ \E d \in DOMAIN infos : infos[d].efi /\ infos[d].qual /\ Unmarked(infos[d])

(* Where init's choice comes from: the list, the booted ESP, its group,    *)
(* the unmarked ESPs or the only group there is.                           *)
BootedPick(infos, self, pick) == Devs(infos, self) # {} /\ pick = First(Devs(infos, self))
BootedGroup(infos, self, pick) ==
    /\ Devs(infos, self) # {} /\ First(Devs(infos, self)) \in Marked(infos)
    /\ pick = EspSelectGroup(infos, infos[First(Devs(infos, self))].member.id)
LegacyPick(infos, pick) == (IdsOf(infos) = {} \/ Stick(infos)) /\ pick = EspSelectLegacy(infos)
OnlyGroup(infos, pick) == ~Stick(infos) /\ \E id : IdsOf(infos) = {id} /\ pick = EspSelectGroup(infos, id)

(* The ways in which esp_select comes to the ESP it takes. *)
LEMMA PickFrom ==
    ASSUME NEW infos, Scanned(infos), NEW list, NEW self, NEW pick,
           pick = EspSelect(infos, list, self), pick # NoDevice
    PROVE  \/ list # <<>> /\ pick = EspSelectList(infos, list, NoId)
           \/ /\ list = <<>> /\ ~Cloned(infos, self)
              /\ \/ BootedPick(infos, self, pick)
                 \/ BootedGroup(infos, self, pick)
                 \/ LegacyPick(infos, pick)
                 \/ OnlyGroup(infos, pick)
<1> DEFINE ids    == IdsOf(infos)
           booted == Devs(infos, self)
           me     == infos[First(booted)]
<1>1. Lone(ids) => ids = {CHOOSE id \in ids : TRUE}
  BY OnlyMember
<1>2. booted # {} => First(booted) \in booted /\ booted \subseteq DOMAIN infos
  BY FirstType DEF Scanned, Devs
<1>3. \/ list # <<>> /\ pick = EspSelectList(infos, list, NoId)
      \/ /\ list = <<>> /\ ~Cloned(infos, self)
         /\ \/ booted # {} /\ pick = First(booted)
            \/ booted # {} /\ ValidMember(me) /\ pick = EspSelectGroup(infos, me.member.id)
            \/ (ids = {} \/ Stick(infos)) /\ pick = EspSelectLegacy(infos)
            \/ ~Stick(infos) /\ Lone(ids) /\ pick = EspSelectGroup(infos, CHOOSE id \in ids : TRUE)
  BY DEF EspSelect, IdsOf, Marked, Stick
<1>4. booted # {} /\ ValidMember(me) => First(booted) \in Marked(infos)
  BY <1>2 DEF Marked
<1> HIDE DEF ids, booted, me
<1> QED BY <1>1, <1>3, <1>4 DEF ids, booted, me, BootedPick, BootedGroup, LegacyPick, OnlyGroup

(* init never takes an ESP that has a clone. *)
LEMMA PickSingle ==
    ASSUME NEW infos, Scanned(infos), NEW list \in Seq(UUIDs), NEW self, EspSelect(infos, list, self) # NoDevice
    PROVE  Single(infos, {EspSelect(infos, list, self)})
<1> DEFINE pick == EspSelect(infos, list, self)
<1> HIDE DEF pick
<1> SUFFICES ASSUME pick # NoDevice PROVE Single(infos, {pick})
  BY DEF pick
<1>1. CASE pick = EspSelectList(infos, list, NoId)
  BY <1>1, PickListSingle
<1>2. CASE ~Cloned(infos, self) /\ BootedPick(infos, self, pick)
  <2>1. pick \in Devs(infos, self)
    BY <1>2, FirstType DEF Scanned, Devs, BootedPick
  <2> QED BY <2>1, <1>2 DEF Single, Devs
<1>3. CASE BootedGroup(infos, self, pick)
  BY <1>3, PickGroupSingle DEF BootedGroup, IdsOf
<1>4. CASE LegacyPick(infos, pick)
  BY <1>4, PickLegacySingle DEF LegacyPick
<1>5. CASE OnlyGroup(infos, pick)
  BY <1>5, PickGroupSingle DEF OnlyGroup
<1> QED BY <1>1, <1>2, <1>3, <1>4, <1>5, PickFrom DEF pick

(* dupError in espset.go, "Refusing to guess" in esp-select.sh: neither    *)
(* the tool nor init ever takes an ESP whose FAT UUID is on two devices.   *)
THEOREM ClonesNeverTaken == Spec => []ClonesRefused
<1>1. SelectInv => ClonesRefused
  <2> SUFFICES ASSUME SelectInv PROVE ClonesRefused
    OBVIOUS
  <2> DEFINE taken == tool.members \cup ({picked} \ {NoDevice})
  <2>1. CASE asked = NotAsked /\ tool = Refused /\ picked = NoDevice
    BY <2>1 DEF ClonesRefused, Refused, HostSet
  <2>2. ASSUME NEW infos, NEW list, NEW primary, NEW self, Answered(infos, list, primary, self)
        PROVE  ClonesRefused
    <3>1. Scanned(infos) /\ \A d \in DOMAIN infos : infos[d].uuid = vols[d].uuid
      BY <2>2, ScanReports DEF SelectInv, Answered
    <3>2. Single(infos, tool.members)
      BY <2>2, <3>1, SelectHostSingle DEF Answered
    <3>3. picked # NoDevice => Single(infos, {picked})
      BY <2>2, <3>1, PickSingle DEF Answered
    <3>4. Single(infos, taken)
      BY <3>2, <3>3 DEF Single
    <3> HIDE DEF taken
    <3>5. \A d \in taken : ~Cloned(ScanESPs(vols), vols[d].uuid)
      BY <2>2, <3>1, <3>4 DEF Single, Answered
    <3> QED BY <3>5 DEF ClonesRefused, taken
  <2> QED BY <2>1, <2>2 DEF SelectInv
<1> QED BY <1>1, SelectInvariant, PTL

-----------------------------------------------------------------------------
(* Installations, where no list names the set. *)

NameOf(infos, d) == IF ValidMember(infos[d]) THEN infos[d].member.id ELSE NoId
ListFree(infos) == \A d \in DOMAIN infos : infos[d].list = <<>>

(* The unmarked ESPs of both sides. *)
LegacyNamed(infos) == {d \in DOMAIN infos : infos[d].efi /\ infos[d].qual /\ infos[d].member = NoMarker}
LegacySet(infos) ==
    LET clean == {d \in LegacyNamed(infos) : ~infos[d].bad}
    IN IF clean = {} /\ Lone(LegacyNamed(infos)) THEN LegacyNamed(infos) ELSE clean
LegacyLists(infos) == {infos[d].list : d \in LegacySet(infos)} \ {<<>>}

(* They carry no marker. *)
LEMMA LegacyFacts ==
    ASSUME NEW infos, Scanned(infos)
    PROVE  /\ LegacySet(infos) \subseteq DOMAIN infos
           /\ \A d \in LegacySet(infos) : infos[d].qual /\ NameOf(infos, d) = NoId
           /\ LegacyLists(infos) \subseteq Seq(UUIDs)
<1>1. LegacySet(infos) \subseteq LegacyNamed(infos)
  BY DEF LegacySet
<1>2. LegacySet(infos) \subseteq DOMAIN infos
  BY <1>1 DEF LegacyNamed
<1>3. \A d \in LegacySet(infos) : infos[d].qual /\ NameOf(infos, d) = NoId
  BY <1>1 DEF LegacyNamed, NameOf, ValidMember
<1>4. LegacyLists(infos) \subseteq Seq(UUIDs)
  BY <1>2 DEF LegacyLists, Scanned
<1> QED BY <1>2, <1>3, <1>4

(* SelectLegacy and rule 4 in terms of them. *)
LEMMA ToolLegacy ==
    ASSUME NEW infos
    PROVE  LET one == CHOOSE d \in LegacySet(infos) : TRUE
           IN SelectLegacy(infos) =
                  IF Lone(LegacySet(infos)) /\ ~Cloned(infos, infos[one].uuid) /\ LegacyLists(infos) = {}
                  THEN HostSet("legacy", NoId, LegacySet(infos), {}, {infos[one].uuid}, NoUUID, <<>>)
                  ELSE IF /\ Lone(LegacyLists(infos))
                          /\ \A l \in LegacyLists(infos) : ParsesUUIDList(l)
                          /\ Lone(LegacySet(infos)) => ~Cloned(infos, infos[one].uuid)
                  THEN SelectList(infos, CHOOSE l \in LegacyLists(infos) : TRUE, NoUUID)
                  ELSE Refused
BY DEF SelectLegacy, LegacySet, LegacyLists, LegacyNamed

(* esp_select_legacy, read as the cases it decides. *)
LEMMA InitLegacy ==
    ASSUME NEW infos
    PROVE  EspSelectLegacy(infos) =
               IF LegacySet(infos) = {} \/ \E d \in LegacySet(infos) : Cloned(infos, infos[d].uuid) THEN NoDevice
               ELSE IF Lone(LegacyLists(infos)) /\ \A l \in LegacyLists(infos) : ParsesUUIDList(l)
               THEN EspSelectList(infos, CHOOSE l \in LegacyLists(infos) : TRUE, NoId)
               ELSE IF Lone(LegacySet(infos)) THEN CHOOSE d \in LegacySet(infos) : TRUE
               ELSE NoDevice
BY DEF EspSelectLegacy, LegacySet, LegacyLists, LegacyNamed

(* Without lists, either side's legacy choice carries no marker that       *)
(* counts.                                                                 *)
LEMMA LegacyUnnamed ==
    ASSUME NEW infos, Scanned(infos), ListFree(infos)
    PROVE  /\ SelectLegacy(infos).ok => /\ SelectLegacy(infos).id = NoId
                                        /\ SelectLegacy(infos).members \subseteq DOMAIN infos
                                        /\ \A d \in SelectLegacy(infos).members : NameOf(infos, d) = NoId
           /\ EspSelectLegacy(infos) # NoDevice => /\ EspSelectLegacy(infos) \in DOMAIN infos
                                                   /\ NameOf(infos, EspSelectLegacy(infos)) = NoId
<1>1. LegacyLists(infos) = {} /\ ~Lone(LegacyLists(infos))
  <2>1. LegacyLists(infos) = {}
    BY LegacyFacts DEF LegacyLists, ListFree
  <2> QED BY <2>1, OnlyMember
<1>2. SelectLegacy(infos).ok => SelectLegacy(infos).id = NoId /\ SelectLegacy(infos).members = LegacySet(infos)
  <2> DEFINE one == CHOOSE d \in LegacySet(infos) : TRUE
  <2>1. \/ SelectLegacy(infos) = HostSet("legacy", NoId, LegacySet(infos), {}, {infos[one].uuid}, NoUUID, <<>>)
        \/ SelectLegacy(infos) = Refused
    BY <1>1, ToolLegacy
  <2> QED BY <2>1 DEF HostSet, Refused
<1>3. EspSelectLegacy(infos) # NoDevice => EspSelectLegacy(infos) \in LegacySet(infos)
  BY <1>1, InitLegacy
<1> QED BY <1>2, <1>3, LegacyFacts

(* Without lists, either side's group is of the installation asked for. *)
LEMMA GroupNamed ==
    ASSUME NEW infos, Scanned(infos), ListFree(infos), NEW id \in IdsOf(infos), NEW primary
    PROVE  /\ SelectGroup(infos, id, primary).ok =>
                  /\ SelectGroup(infos, id, primary).id = id
                  /\ SelectGroup(infos, id, primary).members \subseteq DOMAIN infos
                  /\ \A d \in SelectGroup(infos, id, primary).members : NameOf(infos, d) = id
           /\ EspSelectGroup(infos, id) # NoDevice => /\ EspSelectGroup(infos, id) \in DOMAIN infos
                                                      /\ NameOf(infos, EspSelectGroup(infos, id)) = id
<1> DEFINE members == {d \in DOMAIN infos : ValidMember(infos[d]) /\ infos[d].member.id = id}
           best(p) == infos[Best(infos, members, p, <<>>)]
<1>0. <<>> \in Seq(UUIDs)
  OBVIOUS
<1>1. members # {}
  BY DEF IdsOf, Marked
<1>2. \A p : best(p).list = <<>>
  BY <1>0, <1>1, BestExists DEF ListFree
<1>3. SelectGroup(infos, id, primary).ok =>
          SelectGroup(infos, id, primary).id = id /\ SelectGroup(infos, id, primary).members = members
  <2> HIDE DEF members
  <2>1. \/ SelectGroup(infos, id, primary) = Refused
        \/ SelectGroup(infos, id, primary) =
               HostSet("member", id, members, {},
                       best(primary).member.members \cup {infos[d].uuid : d \in members}, primary, <<>>)
    BY <1>2 DEF SelectGroup, members
  <2> QED BY <2>1 DEF HostSet, Refused
<1>4. EspSelectGroup(infos, id) # NoDevice => EspSelectGroup(infos, id) \in members
  <2>1. EspSelectGroup(infos, id) # NoDevice => EspSelectGroup(infos, id) = FirstUsable(infos, members, <<>>)
    BY <1>2 DEF EspSelectGroup
  <2>2. members \in SUBSET DOMAIN infos
    OBVIOUS
  <2> HIDE DEF members
  <2> QED BY <1>0, <2>1, <2>2, FirstUsableType
<1>5. \A d \in members : NameOf(infos, d) = id
  BY DEF NameOf
<1> QED BY <1>3, <1>4, <1>5

(* Where the tool's set comes from, the same way. *)
HostPrimary(infos, primary, set) ==
    /\ Devs(infos, primary) # {} /\ First(Devs(infos, primary)) \in Marked(infos)
    /\ ~Cloned(infos, primary)
    /\ set = SelectGroup(infos, infos[First(Devs(infos, primary))].member.id, primary)
HostLegacy(infos, primary, set) ==
    /\ \/ IdsOf(infos) = {}
       \/ Stick(infos) /\ (Devs(infos, primary) = {} \/ First(Devs(infos, primary)) \notin Marked(infos))
    /\ set = SelectLegacy(infos)
HostOnly(infos, primary, set) ==
    /\ ~Stick(infos) /\ (Devs(infos, primary) = {} \/ First(Devs(infos, primary)) \notin Marked(infos))
    /\ \E id : IdsOf(infos) = {id} /\ set = SelectGroup(infos, id, primary)

(* The ways in which SelectHost of the tool comes to its set. *)
LEMMA HostFrom ==
    ASSUME NEW infos, Scanned(infos), NEW list, NEW primary, NEW set,
           set = SelectHost(infos, list, primary), set.ok
    PROVE  \/ list # <<>> /\ set = SelectList(infos, list, primary)
           \/ /\ list = <<>>
              /\ \/ HostPrimary(infos, primary, set)
                 \/ HostLegacy(infos, primary, set)
                 \/ HostOnly(infos, primary, set)
<1> DEFINE D    == Devs(infos, primary)
           ids  == IdsOf(infos)
           prim == {d \in D : d = First(D) /\ d \in Marked(infos)}
<1>1. Lone(ids) => ids = {CHOOSE id \in ids : TRUE}
  BY OnlyMember
<1>2. D # {} => First(D) \in D
  BY FirstType DEF Scanned, Devs
<1>3. ~Refused.ok
  BY DEF Refused, HostSet
<1>4. \/ list # <<>> /\ set = SelectList(infos, list, primary)
      \/ list = <<>> /\ (ids = {} \/ (Stick(infos) /\ prim = {})) /\ set = SelectLegacy(infos)
      \/ list = <<>> /\ prim # {} /\ ~Cloned(infos, primary)
         /\ set = SelectGroup(infos, infos[CHOOSE d \in prim : TRUE].member.id, primary)
      \/ list = <<>> /\ prim = {} /\ ~Stick(infos) /\ Lone(ids)
         /\ set = SelectGroup(infos, CHOOSE id \in ids : TRUE, primary)
  BY <1>3 DEF SelectHost, IdsOf, Marked, Stick
<1>5. prim # {} => D # {} /\ First(D) \in Marked(infos) /\ prim = {First(D)}
  OBVIOUS
<1>6. prim = {} => D = {} \/ First(D) \notin Marked(infos)
  BY <1>2
<1>7. prim # {} => (CHOOSE d \in prim : TRUE) = First(D)
  BY <1>5
<1> HIDE DEF prim, D, ids
<1> QED BY <1>1, <1>4, <1>5, <1>6, <1>7 DEF D, ids, HostPrimary, HostLegacy, HostOnly

(* No device has UUID 0: nothing is booted where no ESP is named. *)
LEMMA NothingBooted ==
    ASSUME NEW infos, Scanned(infos)
    PROVE  Devs(infos, NoUUID) = {} /\ ~Cloned(infos, NoUUID)
<1>1. Devs(infos, NoUUID) = {}
  BY UUIDsAssumption DEF Devs, Scanned, NoUUID
<1> QED BY <1>1 DEF Cloned

(* An ESP that init takes and one the tool would write are of the same     *)
(* installation, or init's carries no marker that counts.                  *)
LEMMA NamesAgree ==
    ASSUME NEW infos, Scanned(infos), ListFree(infos), NEW primary, NEW self \in {NoUUID, primary},
           NEW set, set = SelectHost(infos, <<>>, primary), set.ok
    PROVE  /\ set.members \subseteq DOMAIN infos
           /\ \A d \in set.members : NameOf(infos, d) = set.id
           /\ EspSelect(infos, <<>>, self) # NoDevice =>
                  /\ EspSelect(infos, <<>>, self) \in DOMAIN infos
                  /\ NameOf(infos, EspSelect(infos, <<>>, self)) \in {NoId, set.id}
<1> DEFINE pick == EspSelect(infos, <<>>, self)
<1>1. \A d \in DOMAIN infos : NameOf(infos, d) \in {NoId} \cup IdsOf(infos)
  BY DEF NameOf, IdsOf, Marked
<1>2. Devs(infos, self) # {} => /\ self = primary
                                /\ First(Devs(infos, self)) \in DOMAIN infos
  BY NothingBooted, FirstType DEF Scanned, Devs
<1>3. \A d \in Marked(infos) : infos[d].member.id \in IdsOf(infos) /\ NameOf(infos, d) = infos[d].member.id
  BY DEF IdsOf, NameOf, Marked
<1>4. \A d \in DOMAIN infos : d \notin Marked(infos) => NameOf(infos, d) = NoId
  BY DEF NameOf, Marked
<1>5. ASSUME pick # NoDevice
      PROVE  /\ pick \in DOMAIN infos
             /\ \/ BootedPick(infos, self, pick)
                \/ BootedGroup(infos, self, pick) /\ NameOf(infos, pick) = infos[First(Devs(infos, self))].member.id
                \/ NameOf(infos, pick) = NoId
                \/ ~Stick(infos) /\ IdsOf(infos) = {NameOf(infos, pick)}
  <2> HIDE DEF pick
  <2>1. \/ BootedPick(infos, self, pick) \/ BootedGroup(infos, self, pick)
        \/ LegacyPick(infos, pick) \/ OnlyGroup(infos, pick)
    BY <1>5, PickFrom DEF pick
  <2>2. CASE BootedPick(infos, self, pick)
    BY <1>2, <2>2 DEF BootedPick
  <2>3. CASE BootedGroup(infos, self, pick)
    BY <1>3, <1>5, <2>3, GroupNamed DEF BootedGroup
  <2>4. CASE LegacyPick(infos, pick)
    BY <1>5, <2>4, LegacyUnnamed DEF LegacyPick
  <2>5. CASE OnlyGroup(infos, pick)
    <3>1. PICK id : ~Stick(infos) /\ IdsOf(infos) = {id} /\ pick = EspSelectGroup(infos, id)
      BY <2>5 DEF OnlyGroup
    <3>2. id \in IdsOf(infos)
      BY <3>1
    <3>3. pick \in DOMAIN infos /\ NameOf(infos, pick) = id
      BY <1>5, <3>1, <3>2, GroupNamed
    <3> QED BY <3>1, <3>3
  <2> QED BY <2>1, <2>2, <2>3, <2>4, <2>5
<1> HIDE DEF pick
<1> SUFFICES /\ set.members \subseteq DOMAIN infos
             /\ \A d \in set.members : NameOf(infos, d) = set.id
             /\ pick # NoDevice => NameOf(infos, pick) \in {NoId, set.id}
  BY <1>5 DEF pick
<1>6. CASE HostPrimary(infos, primary, set)
  <2> DEFINE id == infos[First(Devs(infos, primary))].member.id
  <2>1. id \in IdsOf(infos) /\ NameOf(infos, First(Devs(infos, primary))) = id
    BY <1>3, <1>6 DEF HostPrimary
  <2>2. set = SelectGroup(infos, id, primary)
    BY <1>6 DEF HostPrimary
  <2> HIDE DEF id
  <2>3. set.id = id /\ set.members \subseteq DOMAIN infos /\ \A d \in set.members : NameOf(infos, d) = id
    BY <2>1, <2>2, GroupNamed
  <2>4. pick # NoDevice => NameOf(infos, pick) \in {NoId, id}
    BY <1>2, <1>5, <2>1 DEF BootedPick, BootedGroup, id
  <2> QED BY <2>3, <2>4
<1>7. CASE HostLegacy(infos, primary, set)
  <2>1. set.id = NoId /\ set.members \subseteq DOMAIN infos /\ \A d \in set.members : NameOf(infos, d) = NoId
    BY <1>7, LegacyUnnamed DEF HostLegacy
  <2>2. CASE IdsOf(infos) = {}
    BY <1>1, <1>5, <2>1, <2>2
  <2>3. CASE Stick(infos) /\ (Devs(infos, primary) = {} \/ First(Devs(infos, primary)) \notin Marked(infos))
    <3>1. pick # NoDevice => NameOf(infos, pick) = NoId
      BY <1>2, <1>4, <1>5, <2>3 DEF BootedPick, BootedGroup
    <3> QED BY <2>1, <3>1
  <2> QED BY <1>7, <2>2, <2>3 DEF HostLegacy
<1>8. CASE HostOnly(infos, primary, set)
  <2>1. PICK id : IdsOf(infos) = {id} /\ set = SelectGroup(infos, id, primary)
    BY <1>8 DEF HostOnly
  <2>2. set.id = id /\ set.members \subseteq DOMAIN infos /\ \A d \in set.members : NameOf(infos, d) = id
    BY <2>1, GroupNamed
  <2>3. pick # NoDevice => NameOf(infos, pick) \in {NoId, id}
    BY <1>1, <1>5, <2>1
  <2> QED BY <2>2, <2>3
<1> QED BY <1>6, <1>7, <1>8, HostFrom

(* Where no list names the set, the tool's members and the ESP init reads  *)
(* are never of two installations.                                         *)
THEOREM InstallationsApart == Spec => []OneInstallation
<1>1. SelectInv => OneInstallation
  <2> SUFFICES ASSUME SelectInv, tool.ok, NoLists
               PROVE  /\ picked # NoDevice => IdOf(picked) \in {NoId, tool.id}
                      /\ \A d \in tool.members : IdOf(d) = tool.id
    BY DEF OneInstallation
  <2>1. tool # Refused
    <3>1. ~Refused.ok
      BY DEF Refused, HostSet
    <3> QED BY <3>1
  <2>2. PICK infos, list, primary, self : Answered(infos, list, primary, self)
    BY <2>1 DEF SelectInv
  <2>3. infos = ScanESPs(vols) /\ list = <<>> /\ tool = SelectHost(infos, <<>>, primary)
        /\ picked = EspSelect(infos, <<>>, self) /\ self \in {NoUUID, primary}
    BY <2>2 DEF Answered, NoLists, Ask
  <2>4. Scanned(infos)
    BY <2>3, ScanReports DEF SelectInv
  <2>5. ListFree(infos)
    BY <2>3, ScanReports DEF SelectInv, NoLists, ListFree
  <2>6. \A d \in DOMAIN infos : IdOf(d) = NameOf(infos, d)
    BY <2>3, ScanReports DEF SelectInv, IdOf, NameOf
  <2> QED BY <2>3, <2>4, <2>5, <2>6, NamesAgree
<1> QED BY <1>1, SelectInvariant, PTL

-----------------------------------------------------------------------------
(* The same rules on both sides, where no ESP is known as booted or        *)
(* mounted.                                                                *)

(* init's pick agrees with the tool's set: it is one of the tool's own     *)
(* members, and there is one where a usable member has no clone.           *)
Agree(infos, set, pick) ==
    /\ pick # NoDevice => set.ok /\ pick \in set.members \ set.foreign
    /\ (/\ set.ok /\ \A u \in UUIDs : ~Cloned(infos, u)
        /\ \E d \in set.members \ set.foreign : infos[d].qual) => pick # NoDevice

(* The first listed marker exists where a listed ESP has one. *)
LEMMA NamerExists ==
    ASSUME NEW infos, NEW list \in Seq(UUIDs), NEW D, D # {}
    PROVE  (CHOOSE d \in D : \A e \in D : Rank(list, infos[d].uuid) <= Rank(list, infos[e].uuid)) \in D
<1> DEFINE ranks == {Rank(list, infos[d].uuid) : d \in D}
<1>1. ranks \subseteq Nat /\ ranks # {}
  BY RankType
<1>2. PICK r \in ranks : \A s \in ranks : r <= s
  BY <1>1, LeastExists
<1>3. \E d \in D : \A e \in D : Rank(list, infos[d].uuid) <= Rank(list, infos[e].uuid)
  BY <1>2
<1> QED BY <1>3

(* A list: both sides take the same present and the same foreign ESPs, the *)
(* given identity being the only installation there is, or none.           *)
LEMMA ListsAgree ==
    ASSUME NEW infos, Scanned(infos), NEW list \in Seq(UUIDs), NEW primary, NEW id,
           id = NoId \/ IdsOf(infos) = {id}
    PROVE  Agree(infos, SelectList(infos, list, primary), EspSelectList(infos, list, id))
<1> DEFINE present == {d \in DOMAIN infos : infos[d].uuid \in Listed(list)}
           marked  == {d \in present : ValidMember(infos[d])}
           namer   == CHOOSE d \in marked : \A e \in marked :
                          Rank(list, infos[d].uuid) <= Rank(list, infos[e].uuid)
           name    == IF marked = {} THEN NoId ELSE infos[namer].member.id
           own     == IF id # NoId \/ marked = {} THEN id ELSE infos[namer].member.id
           foreign == {d \in marked : infos[d].member.id # name}
           strange == {d \in marked : own # NoId /\ infos[d].member.id # own}
           clones  == \E u \in Listed(list) : Cloned(infos, u)
           set     == SelectList(infos, list, primary)
           pick    == EspSelectList(infos, list, id)
<1>1. marked # {} => namer \in marked
  BY NamerExists
<1>2. \A d \in marked : d \in DOMAIN infos /\ infos[d].member.id # NoId /\ infos[d].member.id \in IdsOf(infos)
  BY DEF Scanned, IdsOf, Marked
<1>3. present \in SUBSET DOMAIN infos /\ \A d \in present : infos[d].uuid \in Listed(list)
  OBVIOUS
<1>4. marked \subseteq present
  OBVIOUS
<1>5. set = IF present = {} \/ clones THEN Refused
            ELSE HostSet("list", name, present, foreign, Listed(list), primary, list)
  BY DEF SelectList
<1>6. pick = IF clones THEN NoDevice ELSE FirstUsable(infos, present \ strange, list)
  BY DEF EspSelectList
<1> HIDE DEF present, marked, namer, clones, set, pick
<1>7. foreign = strange
  <2>1. CASE marked = {}
    BY <2>1
  <2>2. CASE marked # {}
    <3>1. own = name /\ name # NoId
      BY <1>1, <1>2, <2>2
    <3> QED BY <3>1
  <2> QED BY <2>1, <2>2
<1> HIDE DEF foreign, strange
<1>8. /\ FirstUsable(infos, present \ strange, list) # NoDevice
             => FirstUsable(infos, present \ strange, list) \in present \ strange
      /\ (\E d \in present \ strange : infos[d].qual) => FirstUsable(infos, present \ strange, list) # NoDevice
  BY <1>3, FirstUsableType
<1>9. CASE present = {} \/ clones
  <2>1. pick = NoDevice
    BY <1>6, <1>8, <1>9
  <2>2. ~set.ok
    BY <1>5, <1>9 DEF Refused, HostSet
  <2> QED BY <2>1, <2>2 DEF Agree, set, pick
<1>10. CASE ~(present = {} \/ clones)
  <2>1. set.ok /\ set.members = present /\ set.foreign = foreign
    BY <1>5, <1>10 DEF HostSet
  <2>2. pick = FirstUsable(infos, present \ strange, list)
    BY <1>6, <1>10
  <2> QED BY <1>7, <1>8, <2>1, <2>2 DEF Agree, set, pick
<1> QED BY <1>9, <1>10

Parsed(infos) == \A d \in DOMAIN infos : ParsesUUIDList(infos[d].list)

(* Rule 4 and SelectLegacy. *)
LEMMA LegacyAgrees ==
    ASSUME NEW infos, Scanned(infos), Parsed(infos)
    PROVE  Agree(infos, SelectLegacy(infos), EspSelectLegacy(infos))
<1> DEFINE leg   == LegacySet(infos)
           lists == LegacyLists(infos)
           one   == CHOOSE d \in leg : TRUE
           list  == CHOOSE l \in lists : TRUE
           set   == SelectLegacy(infos)
           pick  == EspSelectLegacy(infos)
           whole == HostSet("legacy", NoId, leg, {}, {infos[one].uuid}, NoUUID, <<>>)
<1>1. /\ leg \subseteq DOMAIN infos
      /\ lists \subseteq Seq(UUIDs) /\ lists = {infos[d].list : d \in leg} \ {<<>>}
  BY LegacyFacts DEF LegacyLists
<1>2. \A l \in lists : ParsesUUIDList(l)
  BY <1>1 DEF Parsed
<1>3. NoDevice \notin leg /\ \A d \in leg : infos[d].uuid \in UUIDs
  BY <1>1 DEF Scanned, NoDevice
<1>4. set = IF Lone(leg) /\ ~Cloned(infos, infos[one].uuid) /\ lists = {} THEN whole
            ELSE IF Lone(lists) /\ (Lone(leg) => ~Cloned(infos, infos[one].uuid))
            THEN SelectList(infos, list, NoUUID)
            ELSE Refused
  <2>1. set = IF Lone(leg) /\ ~Cloned(infos, infos[one].uuid) /\ lists = {} THEN whole
              ELSE IF /\ Lone(lists)
                      /\ \A l \in lists : ParsesUUIDList(l)
                      /\ Lone(leg) => ~Cloned(infos, infos[one].uuid)
              THEN SelectList(infos, list, NoUUID)
              ELSE Refused
    BY ToolLegacy
  <2> HIDE DEF leg, lists, one, list, whole, set
  <2> QED BY <1>2, <2>1
<1>5. pick = IF leg = {} \/ \E d \in leg : Cloned(infos, infos[d].uuid) THEN NoDevice
             ELSE IF Lone(lists) THEN EspSelectList(infos, list, NoId)
             ELSE IF Lone(leg) THEN one
             ELSE NoDevice
  BY <1>2, InitLegacy
<1> HIDE DEF leg, lists, set, pick
<1>6. Lone(leg) => leg = {one}
  BY <1>1, OnlyMember
<1>7. Lone(lists) => lists = {list}
  BY <1>1, OnlyMember
<1>8. ~Refused.ok
  BY DEF Refused, HostSet
<1>9. CASE Lone(lists)
  <2>1. list \in Seq(UUIDs) /\ leg # {} /\ lists # {}
    BY <1>1, <1>7, <1>9
  <2>2. Agree(infos, SelectList(infos, list, NoUUID), EspSelectList(infos, list, NoId))
    BY <2>1, ListsAgree
  <2>3. set = IF Lone(leg) => ~Cloned(infos, infos[one].uuid)
              THEN SelectList(infos, list, NoUUID) ELSE Refused
    BY <1>4, <1>9, <2>1
  <2>4. pick = IF \E d \in leg : Cloned(infos, infos[d].uuid) THEN NoDevice ELSE EspSelectList(infos, list, NoId)
    BY <1>5, <1>9, <2>1
  <2>5. CASE \E d \in leg : Cloned(infos, infos[d].uuid)
    BY <1>3, <2>4, <2>5 DEF Agree, set, pick
  <2>6. CASE ~\E d \in leg : Cloned(infos, infos[d].uuid)
    <3>1. set = SelectList(infos, list, NoUUID) /\ pick = EspSelectList(infos, list, NoId)
      BY <1>6, <2>3, <2>4, <2>6
    <3> QED BY <2>2, <3>1 DEF set, pick
  <2> QED BY <2>5, <2>6
<1>10. CASE ~Lone(lists)
  <2>1. Lone(leg) => lists = {}
    <3>1. ASSUME Lone(leg), lists # {} PROVE FALSE
      <4>1. lists = {infos[one].list}
        BY <1>1, <1>6, <3>1
      <4> QED BY <4>1, <1>10, OnlyMember
    <3> QED BY <3>1
  <2>2. set = IF Lone(leg) /\ ~Cloned(infos, infos[one].uuid) THEN whole ELSE Refused
    BY <1>4, <1>10, <2>1
  <2>3. pick = IF Lone(leg) /\ ~Cloned(infos, infos[one].uuid) THEN one ELSE NoDevice
    <3>1. Lone(leg) => leg # {} /\ \A d \in leg : d = one
      BY <1>6
    <3> QED BY <1>5, <1>10, <3>1
  <2>4. CASE Lone(leg) /\ ~Cloned(infos, infos[one].uuid)
    <3>1. set.ok /\ set.members = {one} /\ set.foreign = {}
      BY <1>6, <2>2, <2>4 DEF HostSet
    <3>2. pick = one /\ one # NoDevice
      BY <1>3, <1>6, <2>3, <2>4
    <3> QED BY <3>1, <3>2 DEF Agree, set, pick
  <2>5. CASE ~(Lone(leg) /\ ~Cloned(infos, infos[one].uuid))
    BY <1>8, <2>2, <2>3, <2>5 DEF Agree, set, pick
  <2> QED BY <2>4, <2>5
<1> QED BY <1>9, <1>10

(* Rule 3 and SelectGroup, for the only installation there is. *)
LEMMA GroupsAgree ==
    ASSUME NEW infos, Scanned(infos), Parsed(infos), NEW id, IdsOf(infos) = {id}
    PROVE  Agree(infos, SelectGroup(infos, id, NoUUID), EspSelectGroup(infos, id))
<1> DEFINE members == {d \in DOMAIN infos : ValidMember(infos[d]) /\ infos[d].member.id = id}
           best    == infos[Best(infos, members, NoUUID, <<>>)]
           clones  == \E d \in members : Cloned(infos, infos[d].uuid)
           set     == SelectGroup(infos, id, NoUUID)
           pick    == EspSelectGroup(infos, id)
<1>0. <<>> \in Seq(UUIDs)
  OBVIOUS
<1>1. members # {} /\ members \in SUBSET DOMAIN infos
  <2>1. id \in IdsOf(infos)
    OBVIOUS
  <2> QED BY <2>1 DEF IdsOf, Marked
<1>2. best.list \in Seq(UUIDs) /\ ParsesUUIDList(best.list)
  <2>1. Best(infos, members, NoUUID, <<>>) \in members
    BY <1>0, <1>1, BestExists
  <2> QED BY <2>1 DEF Scanned, Parsed
<1>3. set = IF clones THEN Refused
            ELSE IF best.list = <<>>
            THEN HostSet("member", id, members, {},
                         best.member.members \cup {infos[d].uuid : d \in members}, NoUUID, <<>>)
            ELSE SelectList(infos, best.list, NoUUID)
  BY <1>2 DEF SelectGroup
<1>4. pick = IF clones THEN NoDevice
             ELSE IF best.list # <<>> THEN EspSelectList(infos, best.list, id)
             ELSE FirstUsable(infos, members, <<>>)
  BY <1>2 DEF EspSelectGroup
<1> HIDE DEF members, best, clones, set, pick
<1>5. CASE clones
  <2>1. ~set.ok /\ pick = NoDevice
    BY <1>3, <1>4, <1>5 DEF Refused, HostSet
  <2> QED BY <2>1 DEF Agree, set, pick
<1>6. CASE ~clones /\ best.list # <<>>
  <2>1. Agree(infos, SelectList(infos, best.list, NoUUID), EspSelectList(infos, best.list, id))
    BY <1>2, ListsAgree
  <2> QED BY <1>3, <1>4, <1>6, <2>1 DEF set, pick
<1>7. CASE ~clones /\ best.list = <<>>
  <2>1. set.ok /\ set.members = members /\ set.foreign = {}
    BY <1>3, <1>7 DEF HostSet
  <2>2. pick = FirstUsable(infos, members, <<>>)
    BY <1>4, <1>7
  <2>3. /\ FirstUsable(infos, members, <<>>) # NoDevice => FirstUsable(infos, members, <<>>) \in members
        /\ (\E d \in members : infos[d].qual) => FirstUsable(infos, members, <<>>) # NoDevice
    BY <1>0, <1>1, FirstUsableType
  <2> QED BY <2>1, <2>2, <2>3 DEF Agree, set, pick
<1> QED BY <1>5, <1>6, <1>7

(* SelectHost and esp_select, where nothing is booted or mounted. *)
LEMMA SelectionsAgree ==
    ASSUME NEW infos, Scanned(infos), Parsed(infos), NEW list \in Seq(UUIDs), ParsesUUIDList(list)
    PROVE  Agree(infos, SelectHost(infos, list, NoUUID), EspSelect(infos, list, NoUUID))
<1> DEFINE ids  == IdsOf(infos)
           set  == SelectHost(infos, list, NoUUID)
           pick == EspSelect(infos, list, NoUUID)
<1>1. Lone(ids) => ids = {CHOOSE id \in ids : TRUE}
  BY OnlyMember
<1>2. set = IF list # <<>> THEN SelectList(infos, list, NoUUID)
            ELSE IF ids = {} \/ Stick(infos) THEN SelectLegacy(infos)
            ELSE IF Lone(ids) THEN SelectGroup(infos, CHOOSE id \in ids : TRUE, NoUUID)
            ELSE Refused
  <2> DEFINE D == Devs(infos, NoUUID)
             prim == {d \in D : d = First(D) /\ d \in Marked(infos)}
  <2>1. prim = {}
    BY NothingBooted
  <2> HIDE DEF prim
  <2>2. set = IF list # <<>> THEN SelectList(infos, list, NoUUID)
              ELSE IF ids = {} \/ (Stick(infos) /\ prim = {}) THEN SelectLegacy(infos)
              ELSE IF prim # {}
              THEN IF Cloned(infos, NoUUID) THEN Refused
                   ELSE SelectGroup(infos, infos[CHOOSE d \in prim : TRUE].member.id, NoUUID)
              ELSE IF Lone(ids) THEN SelectGroup(infos, CHOOSE id \in ids : TRUE, NoUUID)
              ELSE Refused
    BY Zenon DEF SelectHost, IdsOf, Marked, Stick, prim
  <2> HIDE DEF ids, set
  <2> QED BY <2>1, <2>2
<1>3. pick = IF list # <<>> THEN EspSelectList(infos, list, NoId)
             ELSE IF ids = {} \/ Stick(infos) THEN EspSelectLegacy(infos)
             ELSE IF Lone(ids) THEN EspSelectGroup(infos, CHOOSE id \in ids : TRUE)
             ELSE NoDevice
  <2> DEFINE booted == Devs(infos, NoUUID)
             me     == infos[First(booted)]
             gid    == IF booted # {} /\ ValidMember(me) THEN me.member.id ELSE NoId
  <2>1. booted = {} /\ gid = NoId /\ ~Cloned(infos, NoUUID)
    BY NothingBooted
  <2>2. pick = IF list # <<>>
               THEN IF ParsesUUIDList(list) THEN EspSelectList(infos, list, NoId) ELSE NoDevice
               ELSE IF Cloned(infos, NoUUID) THEN NoDevice
               ELSE IF booted # {} /\ me.qual /\ (ValidMember(me) \/ Unmarked(me)) THEN First(booted)
               ELSE IF gid # NoId THEN EspSelectGroup(infos, gid)
               ELSE IF ids = {} \/ Stick(infos) THEN EspSelectLegacy(infos)
               ELSE IF Lone(ids) THEN EspSelectGroup(infos, CHOOSE id \in ids : TRUE)
               ELSE NoDevice
    BY Zenon DEF EspSelect, IdsOf, Marked, Stick
  <2> HIDE DEF ids, pick, booted, me, gid
  <2> QED BY <2>1, <2>2
<1>4. Agree(infos, SelectList(infos, list, NoUUID), EspSelectList(infos, list, NoId))
  BY ListsAgree
<1>5. Agree(infos, SelectLegacy(infos), EspSelectLegacy(infos))
  BY LegacyAgrees
<1>6. Lone(ids) => Agree(infos, SelectGroup(infos, CHOOSE id \in ids : TRUE, NoUUID),
                                    EspSelectGroup(infos, CHOOSE id \in ids : TRUE))
  BY <1>1, GroupsAgree
<1>7. Agree(infos, Refused, NoDevice)
  BY DEF Agree, Refused, HostSet
<1> HIDE DEF ids, set, pick
<1>8. Agree(infos, set, pick)
  BY <1>2, <1>3, <1>4, <1>5, <1>6, <1>7
<1> QED BY <1>8 DEF set, pick

(* "The same rules as internal/bootenv.SelectHost": with no booted or      *)
(* mounted ESP known, init reads one of the ESPs the tool writes, and      *)
(* finds one whenever there is one.                                        *)
THEOREM RulesAreTheSame == Spec => []SameRules
<1>1. SelectInv => SameRules
  <2> SUFFICES ASSUME SelectInv, asked.ran, asked.primary = NoUUID, ListsParse
               PROVE  /\ picked # NoDevice => tool.ok /\ picked \in Own
                      /\ (tool.ok /\ NoClones /\ \E d \in Own : ScanESPs(vols)[d].qual) => picked # NoDevice
    BY DEF SameRules
  <2>1. asked # NotAsked
    BY DEF NotAsked, Ask
  <2>2. PICK infos, list, primary, self : Answered(infos, list, primary, self)
    BY <2>1 DEF SelectInv
  <2>3. infos = ScanESPs(vols) /\ primary = NoUUID /\ self = NoUUID /\ list \in Seq(UUIDs)
        /\ tool = SelectHost(infos, list, NoUUID) /\ picked = EspSelect(infos, list, NoUUID)
    BY <2>2 DEF Answered, Ask
  <2>4. Scanned(infos)
    BY <2>3, ScanReports DEF SelectInv
  <2>5. Parsed(infos)
    <3>1. ParsesUUIDList(<<>>)
      BY DEF ParsesUUIDList
    <3> QED BY <2>3, <3>1, ScanReports, Zenon DEF SelectInv, ListsParse, Parsed
  <2>6. ParsesUUIDList(list)
    BY <2>2 DEF Answered
  <2>7. Agree(infos, tool, picked)
    BY <2>3, <2>4, <2>5, <2>6, SelectionsAgree
  <2> QED BY <2>3, <2>7 DEF Agree, Own, NoClones
<1> QED BY <1>1, SelectInvariant, PTL
-----------------------------------------------------------------------------
(* The lock directory.  Two callers that try once: the boot lock, which    *)
(* the boot and the remote unlock compete for.                             *)
TwoCallers ==
    /\ \A p, q, r \in Procs : p = q \/ q = r \/ p = r
    /\ Attempts = 1 /\ PollOutlasts

LockType ==
    /\ dir \in Dirs \cup {None}
    /\ aside \in [Procs -> Dirs \cup {None}]
    /\ pc = [p \in Procs |-> pc[p]]
    /\ lockPid \in [Procs -> Procs \cup {Gone, NoPid}]
    /\ waiting \in [Procs -> SUBSET Procs]
    /\ tries = [p \in Procs |-> 1]

\* No longer after the lock, for good.
Out == {"rmdir", "done", "lost", "dead"}
\* p has not looked at the lock yet, or has seen that its owner is dead.
Early(p) ==
    /\ pc[p] \in {"mkdir", "read", "judge", "steal"}
    /\ pc[p] \in {"judge", "steal"} => lockPid[p] = Gone
\* p has moved the dead owner's directory aside.
Reclaiming(p) ==
    /\ pc[p] \in {"peek", "rm", "mkdirAgain"} /\ lockPid[p] = Gone
    /\ pc[p] = "peek" => PidIn(aside[p]) = Gone
\* q polls, and its sleep outlasts the short sequence that p is in.
Polling(q, p) == pc[q] = "poll" /\ (pc[p] \in Short => p \in waiting[q])

\* Nobody has changed the lock that was found.
Untouched(p, q) ==
    \/ dir = None /\ pc[p] = "mkdir" /\ pc[q] = "mkdir"
    \/ dir # None /\ PidIn(dir) = Gone /\ Early(p) /\ Early(q)
\* p is about to create it anew.
Reclaimed(p, q) == dir = None /\ Reclaiming(p) /\ (Early(q) \/ Polling(q, p))
\* p has created it.
Created(p, q) ==
    /\ pc[p] \in {"writePid", "held"}
    /\ dir # None /\ PidIn(dir) = (IF pc[p] = "held" THEN p ELSE NoPid)
    /\ \/ Early(q) \/ Reclaiming(q) \/ Polling(q, p)
       \/ pc[q] = "judge" /\ lockPid[q] = p
\* p has created it, and q moved it aside for the dead owner's: it goes back.
Misjudged(p, q) ==
    /\ pc[p] \in {"writePid", "held"}
    /\ dir = None /\ pc[q] \in {"peek", "check", "back"} /\ lockPid[q] = Gone
    /\ PidIn(aside[q]) \in {NoPid, p}

Apart(p, q) ==
    \/ pc[p] \in Out \/ pc[q] \in Out \/ Untouched(p, q)
    \/ Reclaimed(p, q) \/ Created(p, q) \/ Misjudged(p, q)
    \/ Reclaimed(q, p) \/ Created(q, p) \/ Misjudged(q, p)

LockInv ==
    /\ LockType
    /\ \/ found # None /\ PidIn(found) = NoPid
       \/ \A p, q \in Procs : p # q => Apart(p, q)

(* What `cat pid` prints of the directories the commands make. *)
LEMMA PidFacts ==
    /\ PidIn(None) = NoPid
    /\ NewDir \in Dirs /\ PidIn(NewDir) = NoPid
    /\ \A d \in Dirs : d # None /\ PidIn(d) \in Procs \cup {Gone, NoPid}
    /\ \A d \in Dirs : \A x \in Procs \cup {Gone, NoPid} :
          [d EXCEPT !.pid = x] \in Dirs /\ PidIn([d EXCEPT !.pid = x]) = x
    /\ \A d \in Dirs :
          [d EXCEPT !.nested = TRUE] \in Dirs /\ PidIn([d EXCEPT !.nested = TRUE]) = PidIn(d)
BY PidsAssumption DEF PidIn, NewDir, Dirs

(* With one attempt every failure is final. *)
LEMMA FailureFinal ==
    ASSUME TwoCallers, LockType, NEW p \in Procs, ReturnFailure(p)
    PROVE  Goto(p, "lost") /\ tries' = tries
BY DEF ReturnFailure, TwoCallers, LockType

(* A step of one caller leaves the program counters and the polls well     *)
(* typed.                                                                  *)
LEMMA GotoTyped ==
    ASSUME LockType, NEW p \in Procs, NEW c, Goto(p, c)
    PROVE  pc' = [r \in Procs |-> pc'[r]] /\ waiting' \in [Procs -> SUBSET Procs]
BY DEF Goto, LockType

(* What the commands leave of the types. *)
LEMMA LockTypeStep ==
    ASSUME TwoCallers, LockType, NEW p \in Procs, Acquire(p) \/ Release(p) \/ Exit(p) \/ Kill(p)
    PROVE  LockType' /\ found' = found
<1> DEFINE Moved == pc' = [r \in Procs |-> pc'[r]] /\ waiting' \in [Procs -> SUBSET Procs]
           FilesTyped == dir' \in Dirs \cup {None} /\ aside' \in [Procs -> Dirs \cup {None}]
           PidTyped == lockPid' \in [Procs -> Procs \cup {Gone, NoPid}]
<1>f. \A c : Goto(p, c) => Moved
  <2> SUFFICES ASSUME NEW c, Goto(p, c) PROVE Moved
    OBVIOUS
  <2> QED BY GotoTyped
<1>g. ReturnFailure(p) => Moved /\ tries' = tries
  BY <1>f, FailureFinal
<1>h. PidIn(dir) \in Procs \cup {Gone, NoPid}
  BY PidFacts DEF LockType
<1> HIDE DEF Moved
<1>1. CASE Mkdir(p)
  <2>1. Moved /\ tries' = tries /\ found' = found
    BY <1>1, <1>f, <1>g DEF Mkdir
  <2>2. FilesTyped
    BY <1>1, PidFacts DEF Mkdir, LockType
  <2>3. PidTyped
    BY <1>1, <1>h DEF Mkdir, LockType
  <2> QED BY <2>1, <2>2, <2>3 DEF LockType, Moved
<1>2. CASE WritePid(p)
  <2>1. Moved /\ tries' = tries /\ found' = found
    BY <1>2, <1>f, <1>g DEF WritePid
  <2>2. FilesTyped
    BY <1>2, PidFacts DEF WritePid, LockType
  <2>3. PidTyped
    BY <1>2, <1>h DEF WritePid, LockType
  <2> QED BY <2>1, <2>2, <2>3 DEF LockType, Moved
<1>3. CASE ReadPid(p)
  <2>1. Moved /\ tries' = tries /\ found' = found
    BY <1>3, <1>g DEF ReadPid, LockType, Moved
  <2>2. FilesTyped
    BY <1>3, PidFacts DEF ReadPid, LockType
  <2>3. PidTyped
    BY <1>3, <1>h DEF ReadPid, LockType
  <2> QED BY <2>1, <2>2, <2>3 DEF LockType, Moved
<1>4. CASE Poll(p)
  <2>1. Moved /\ tries' = tries /\ found' = found
    BY <1>4, <1>g DEF Poll, LockType, Moved, Sleep
  <2>2. FilesTyped
    BY <1>4, PidFacts DEF Poll, LockType
  <2>3. PidTyped
    BY <1>4, <1>h DEF Poll, LockType
  <2> QED BY <2>1, <2>2, <2>3 DEF LockType, Moved
<1>5. CASE Judge(p)
  <2>1. Moved /\ tries' = tries /\ found' = found
    BY <1>5, <1>f, <1>g DEF Judge
  <2>2. FilesTyped
    BY <1>5, PidFacts DEF Judge, LockType
  <2>3. PidTyped
    BY <1>5, <1>h DEF Judge, LockType
  <2> QED BY <2>1, <2>2, <2>3 DEF LockType, Moved
<1>6. CASE Steal(p)
  <2>1. Moved /\ tries' = tries /\ found' = found
    BY <1>6, <1>f, <1>g DEF Steal
  <2>2. FilesTyped
    BY <1>6, PidFacts DEF Steal, LockType
  <2>3. PidTyped
    BY <1>6, <1>h DEF Steal, LockType
  <2> QED BY <2>1, <2>2, <2>3 DEF LockType, Moved
<1>7. CASE Peek(p)
  <2>1. Moved /\ tries' = tries /\ found' = found
    BY <1>7, <1>f, <1>g DEF Peek
  <2>2. FilesTyped
    BY <1>7, PidFacts DEF Peek, LockType
  <2>3. PidTyped
    BY <1>7, <1>h DEF Peek, LockType
  <2> QED BY <2>1, <2>2, <2>3 DEF LockType, Moved
<1>8. CASE CheckFree(p)
  <2>1. Moved /\ tries' = tries /\ found' = found
    BY <1>8, <1>f, <1>g DEF CheckFree
  <2>2. FilesTyped
    BY <1>8, PidFacts DEF CheckFree, LockType
  <2>3. PidTyped
    BY <1>8, <1>h DEF CheckFree, LockType
  <2> QED BY <2>1, <2>2, <2>3 DEF LockType, Moved
<1>9. CASE MoveBack(p)
  <2>1. Moved /\ tries' = tries /\ found' = found
    BY <1>9, <1>f, <1>g DEF MoveBack
  <2>2. FilesTyped
    BY <1>9, PidFacts DEF MoveBack, LockType
  <2>3. PidTyped
    BY <1>9, <1>h DEF MoveBack, LockType
  <2> QED BY <2>1, <2>2, <2>3 DEF LockType, Moved
<1>10. CASE RemoveAside(p)
  <2>1. Moved /\ tries' = tries /\ found' = found
    BY <1>10, <1>f, <1>g DEF RemoveAside
  <2>2. FilesTyped
    BY <1>10, PidFacts DEF RemoveAside, LockType
  <2>3. PidTyped
    BY <1>10, <1>h DEF RemoveAside, LockType
  <2> QED BY <2>1, <2>2, <2>3 DEF LockType, Moved
<1>11. CASE MkdirAgain(p)
  <2>1. Moved /\ tries' = tries /\ found' = found
    BY <1>11, <1>f, <1>g DEF MkdirAgain
  <2>2. FilesTyped
    BY <1>11, PidFacts DEF MkdirAgain, LockType
  <2>3. PidTyped
    BY <1>11, <1>h DEF MkdirAgain, LockType
  <2> QED BY <2>1, <2>2, <2>3 DEF LockType, Moved
<1>12. CASE RemovePid(p)
  <2>1. Moved /\ tries' = tries /\ found' = found
    BY <1>12, <1>f, <1>g DEF RemovePid
  <2>2. FilesTyped
    BY <1>12, PidFacts DEF RemovePid, LockType
  <2>3. PidTyped
    BY <1>12, <1>h DEF RemovePid, LockType
  <2> QED BY <2>1, <2>2, <2>3 DEF LockType, Moved
<1>13. CASE Rmdir(p)
  <2>1. Moved /\ tries' = tries /\ found' = found
    BY <1>13, <1>f, <1>g DEF Rmdir
  <2>2. FilesTyped
    BY <1>13, PidFacts DEF Rmdir, LockType
  <2>3. PidTyped
    BY <1>13, <1>h DEF Rmdir, LockType
  <2> QED BY <2>1, <2>2, <2>3 DEF LockType, Moved
<1>14. CASE Exit(p)
  <2>1. Moved /\ tries' = tries /\ found' = found
    BY <1>14, <1>f, <1>g DEF Exit
  <2>2. FilesTyped
    BY <1>14, PidFacts DEF Exit, LockType
  <2>3. PidTyped
    BY <1>14, <1>h DEF Exit, LockType
  <2> QED BY <2>1, <2>2, <2>3 DEF LockType, Moved
<1>15. CASE Kill(p)
  <2>1. Moved /\ tries' = tries /\ found' = found
    BY <1>15, <1>f, <1>g DEF Kill
  <2>2. FilesTyped
    BY <1>15, PidFacts DEF Kill, LockType
  <2>3. PidTyped
    BY <1>15, <1>h DEF Kill, LockType
  <2> QED BY <2>1, <2>2, <2>3 DEF LockType, Moved
<1> QED BY <1>1, <1>2, <1>3, <1>4, <1>5, <1>6, <1>7, <1>8, <1>9, <1>10, <1>11, <1>12, <1>13, <1>14, <1>15 DEF Acquire, Release

(* The first mkdir succeeds only where no directory is, so for one of the  *)
(* two.                                                                    *)
LEMMA MkdirApart ==
    ASSUME TwoCallers, LockType, NEW p \in Procs, NEW q \in Procs, p # q, Apart(p, q), Mkdir(p)
    PROVE  Apart(p, q)'
<1> QED BY PidFacts, PidsAssumption
     DEF Mkdir, Goto, ReturnFailure, TwoCallers, LockType, Short, Out, Early, Reclaiming,
         Polling, Untouched, Reclaimed, Created, Misjudged, Apart

(* The pid goes into the directory the caller has made. *)
LEMMA WritePidApart ==
    ASSUME TwoCallers, LockType, NEW p \in Procs, NEW q \in Procs, p # q, Apart(p, q), WritePid(p)
    PROVE  Apart(p, q)'
<1> QED BY PidFacts, PidsAssumption
     DEF WritePid, Goto, ReturnFailure, TwoCallers, LockType, Short, Out, Early, Reclaiming,
         Polling, Untouched, Reclaimed, Created, Misjudged, Apart

(* Reading the pid decides only where the reader goes. *)
LEMMA ReadPidApart ==
    ASSUME TwoCallers, LockType, NEW p \in Procs, NEW q \in Procs, p # q, Apart(p, q), ReadPid(p)
    PROVE  Apart(p, q)'
<1> QED BY PidFacts, PidsAssumption
     DEF ReadPid, Goto, ReturnFailure, TwoCallers, LockType, Short, Out, Early, Reclaiming,
         Polling, Untouched, Reclaimed, Created, Misjudged, Apart

(* A poll decides only where the waiter goes, and sleeps longer than the   *)
(* other needs for its pid.                                                *)
LEMMA PollApart ==
    ASSUME TwoCallers, LockType, NEW p \in Procs, NEW q \in Procs, p # q, Apart(p, q), Poll(p)
    PROVE  Apart(p, q)'
<1> QED BY PidFacts, PidsAssumption
     DEF Poll, Sleep, Goto, ReturnFailure, TwoCallers, LockType, Short, Out, Early, Reclaiming,
         Polling, Untouched, Reclaimed, Created, Misjudged, Apart

(* A holder is judged dead only when it is. *)
LEMMA JudgeApart ==
    ASSUME TwoCallers, LockType, NEW p \in Procs, NEW q \in Procs, p # q, Apart(p, q), Judge(p)
    PROVE  Apart(p, q)'
<1> QED BY PidFacts, PidsAssumption
     DEF Judge, Alive, Goto, ReturnFailure, TwoCallers, LockType, Short, Out, Early, Reclaiming,
         Polling, Untouched, Reclaimed, Created, Misjudged, Apart

(* Moving the directory aside keeps the two callers apart. *)
LEMMA StealApart ==
    ASSUME TwoCallers, LockType, NEW p \in Procs, NEW q \in Procs, p # q, Apart(p, q), Steal(p)
    PROVE  Apart(p, q)'
<1> QED BY PidFacts, PidsAssumption
     DEF Steal, Goto, ReturnFailure, TwoCallers, LockType, Short, Out, Early, Reclaiming,
         Polling, Untouched, Reclaimed, Created, Misjudged, Apart

(* So does looking into what was moved aside. *)
LEMMA PeekApart ==
    ASSUME TwoCallers, LockType, NEW p \in Procs, NEW q \in Procs, p # q, Apart(p, q), Peek(p)
    PROVE  Apart(p, q)'
<1> QED BY PidFacts, PidsAssumption
     DEF Peek, Goto, ReturnFailure, TwoCallers, LockType, Short, Out, Early, Reclaiming,
         Polling, Untouched, Reclaimed, Created, Misjudged, Apart

(* So does the test before it is moved back. *)
LEMMA CheckFreeApart ==
    ASSUME TwoCallers, LockType, NEW p \in Procs, NEW q \in Procs, p # q, Apart(p, q), CheckFree(p)
    PROVE  Apart(p, q)'
<1> QED BY PidFacts, PidsAssumption
     DEF CheckFree, Goto, ReturnFailure, TwoCallers, LockType, Short, Out, Early, Reclaiming,
         Polling, Untouched, Reclaimed, Created, Misjudged, Apart

(* So does moving it back. *)
LEMMA MoveBackApart ==
    ASSUME TwoCallers, LockType, NEW p \in Procs, NEW q \in Procs, p # q, Apart(p, q), MoveBack(p)
    PROVE  Apart(p, q)'
<1> QED BY PidFacts, PidsAssumption
     DEF MoveBack, Goto, ReturnFailure, TwoCallers, LockType, Short, Out, Early, Reclaiming,
         Polling, Untouched, Reclaimed, Created, Misjudged, Apart

(* So does removing what was moved aside. *)
LEMMA RemoveAsideApart ==
    ASSUME TwoCallers, LockType, NEW p \in Procs, NEW q \in Procs, p # q, Apart(p, q), RemoveAside(p)
    PROVE  Apart(p, q)'
<1> QED BY PidFacts, PidsAssumption
     DEF RemoveAside, Goto, ReturnFailure, TwoCallers, LockType, Short, Out, Early, Reclaiming,
         Polling, Untouched, Reclaimed, Created, Misjudged, Apart

(* The second mkdir succeeds only where no directory is. *)
LEMMA MkdirAgainApart ==
    ASSUME TwoCallers, LockType, NEW p \in Procs, NEW q \in Procs, p # q, Apart(p, q), MkdirAgain(p)
    PROVE  Apart(p, q)'
<1> QED BY PidFacts, PidsAssumption
     DEF MkdirAgain, Goto, ReturnFailure, TwoCallers, LockType, Short, Out, Early, Reclaiming,
         Polling, Untouched, Reclaimed, Created, Misjudged, Apart

(* The holder removes its own pid file. *)
LEMMA RemovePidApart ==
    ASSUME TwoCallers, LockType, NEW p \in Procs, NEW q \in Procs, p # q, Apart(p, q), RemovePid(p)
    PROVE  Apart(p, q)'
<1> QED BY PidFacts, PidsAssumption
     DEF RemovePid, Goto, ReturnFailure, TwoCallers, LockType, Short, Out, Early, Reclaiming,
         Polling, Untouched, Reclaimed, Created, Misjudged, Apart

(* The holder removes its own directory. *)
LEMMA RmdirApart ==
    ASSUME TwoCallers, LockType, NEW p \in Procs, NEW q \in Procs, p # q, Apart(p, q), Rmdir(p)
    PROVE  Apart(p, q)'
<1> QED BY PidFacts, PidsAssumption
     DEF Rmdir, Goto, ReturnFailure, TwoCallers, LockType, Short, Out, Early, Reclaiming,
         Polling, Untouched, Reclaimed, Created, Misjudged, Apart

(* A caller that has left holds nothing. *)
LEMMA ExitApart ==
    ASSUME TwoCallers, LockType, NEW p \in Procs, NEW q \in Procs, p # q, Apart(p, q), Exit(p)
    PROVE  Apart(p, q)'
<1> QED BY PidFacts, PidsAssumption
     DEF Exit, Goto, ReturnFailure, TwoCallers, LockType, Short, Out, Early, Reclaiming,
         Polling, Untouched, Reclaimed, Created, Misjudged, Apart

(* A killed caller leaves its directory and its pid, and is never inside   *)
(* again.                                                                  *)
LEMMA KillApart ==
    ASSUME TwoCallers, LockType, NEW p \in Procs, NEW q \in Procs, p # q, Apart(p, q), Kill(p)
    PROVE  Apart(p, q)'
<1> QED BY PidFacts, PidsAssumption
     DEF Kill, Goto, ReturnFailure, TwoCallers, LockType, Short, Out, Early, Reclaiming,
         Polling, Untouched, Reclaimed, Created, Misjudged, Apart

(* LockInv holds at the start. *)
LEMMA LockInitInv == TwoCallers /\ LockInit => LockInv
<1> SUFFICES ASSUME TwoCallers, LockInit PROVE LockInv
  OBVIOUS
<1>1. LockType
  <2>1. dir \in Dirs \cup {None}
    BY PidsAssumption DEF LockInit, Dirs
  <2> QED BY <2>1 DEF LockInit, LockType
<1>2. dir # None => PidIn(dir) \in {Gone, NoPid}
  BY PidsAssumption DEF LockInit, PidIn
<1>3. CASE found # None /\ PidIn(found) = NoPid
  BY <1>1, <1>3 DEF LockInv
<1>4. CASE ~(found # None /\ PidIn(found) = NoPid)
  <2>1. \A p, q \in Procs : Untouched(p, q)
    BY <1>2, <1>4 DEF LockInit, Untouched, Early
  <2> QED BY <1>1, <2>1 DEF LockInv, Apart
<1> QED BY <1>3, <1>4

(* Every step keeps LockInv. *)
LEMMA LockStepInv ==
    ASSUME TwoCallers, LockInv, [LockNext]_lockVars
    PROVE  LockInv'
<1>1. CASE UNCHANGED lockVars
  <2>1. LockType'
    BY <1>1 DEF LockInv, LockType, lockVars
  <2>2. ASSUME NEW p \in Procs, NEW q \in Procs
        PROVE  /\ Early(p)' = Early(p) /\ Reclaiming(p)' = Reclaiming(p) /\ Polling(q, p)' = Polling(q, p)
               /\ (PidIn(found))' = PidIn(found)
    BY <1>1 DEF Early, Reclaiming, Polling, PidIn, lockVars
  <2>3. ASSUME NEW p \in Procs, NEW q \in Procs
        PROVE  /\ Untouched(p, q)' = Untouched(p, q) /\ Reclaimed(p, q)' = Reclaimed(p, q)
               /\ Created(p, q)' = Created(p, q) /\ Misjudged(p, q)' = Misjudged(p, q)
    BY <1>1, <2>2 DEF Untouched, Reclaimed, Created, Misjudged, PidIn, lockVars
  <2>4. \A p, q \in Procs : Apart(p, q) => Apart(p, q)'
    BY <1>1, <2>3 DEF Apart, lockVars
  <2> QED BY <1>1, <2>1, <2>4 DEF LockInv, PidIn, lockVars
<1>2. CASE LockNext
  <2>1. PICK p \in Procs : Acquire(p) \/ Release(p) \/ Exit(p) \/ Kill(p)
    BY <1>2 DEF LockNext
  <2>2. LockType' /\ found' = found
    BY <2>1, LockTypeStep DEF LockInv
  <2>3. CASE found # None /\ PidIn(found) = NoPid
    BY <2>2, <2>3 DEF LockInv, PidIn
  <2>4. CASE \A q, r \in Procs : q # r => Apart(q, r)
    <3>1. \A q \in Procs : p # q => Apart(p, q)'
      BY <2>1, <2>4, MkdirApart, WritePidApart, ReadPidApart, PollApart, JudgeApart, StealApart,
         PeekApart, CheckFreeApart, MoveBackApart, RemoveAsideApart, MkdirAgainApart,
         RemovePidApart, RmdirApart, ExitApart, KillApart DEF LockInv, Acquire, Release
    <3>2. \A q \in Procs : p # q => Apart(q, p)'
      BY <3>1 DEF Apart, Untouched
    <3>3. \A q, r \in Procs : q # r => q = p \/ r = p
      BY DEF TwoCallers
    <3> QED BY <2>2, <3>1, <3>2, <3>3 DEF LockInv
  <2> QED BY <2>3, <2>4 DEF LockInv
<1> QED BY <1>1, <1>2

(* Two callers that are kept apart are not inside together. *)
LEMMA ApartExcludes == LockInv => MutualExclusion
<1> SUFFICES ASSUME LockInv, ~(found # None /\ PidIn(found) = NoPid),
                    NEW p \in Procs, NEW q \in Procs, pc[p] = "held", pc[q] = "held", p # q
             PROVE  FALSE
  BY DEF MutualExclusion
<1>1. Apart(p, q)
  BY DEF LockInv
<1> QED BY <1>1 DEF Apart, Out, Untouched, Reclaimed, Created, Misjudged, Early, Reclaiming, Polling

(* Of two callers that compete for the lock, each with one attempt, at     *)
(* most one is past it (boot_lock_acquire), however often each polls,      *)
(* whichever is killed and whenever, unless the lock was abandoned without *)
(* a pid, and as long as a poll's sleep outlasts the few commands between  *)
(* mkdir and the pid, or between moving a directory aside and creating it. *)
THEOREM OneOfTwoGetsIn == TwoCallers => (LockSpec => []MutualExclusion)
<1> SUFFICES ASSUME TwoCallers PROVE LockSpec => []MutualExclusion
  OBVIOUS
<1>1. LockInit => LockInv
  BY LockInitInv
<1>2. LockInv /\ [LockNext]_lockVars => LockInv'
  BY LockStepInv
<1>3. LockInv => MutualExclusion
  BY ApartExcludes
<1> QED BY <1>1, <1>2, <1>3, PTL DEF LockSpec
=============================================================================
