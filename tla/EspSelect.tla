------------------------------ MODULE EspSelect ------------------------------
(***************************************************************************)
(* The two implementations of ESP selection side by side: the tool's       *)
(* (HostSelect) decides which ESPs a command writes, init/esp-select.sh    *)
(* decides which ESP a boot takes its config and keys from.  Disks are     *)
(* attached one by one; then both look at the same volumes, the same       *)
(* esp-uuids list on the kernel command line and the same booted ESP.      *)
(***************************************************************************)
EXTENDS HostSelect

CONSTANTS NDevices,     \* block devices: 1 .. NDevices, in scan order
          Volumes,      \* Devices -> what may be on that device
          CmdLists      \* esp-uuids lists of the kernel command line

Devices == 1 .. NDevices

ASSUME DevicesAssumption == NDevices \in Nat
\* A FAT volume has a UUID; a generation is an unsigned number; a list holds UUIDs.
ASSUME VolumesAssumption ==
    \A d \in Devices : \A v \in Volumes[d] :
        /\ v.fat \in BOOLEAN
        /\ v.fat => v.uuid \in UUIDs /\ v.marker.gen \in Nat /\ v.list \in Seq(UUIDs)
ASSUME CmdListsAssumption == CmdLists \subseteq Seq(UUIDs)

NoDevice == 0
Blank == [fat |-> FALSE]

VARIABLES vols,     \* Devices -> a volume, or Blank
          asked,    \* the inputs both were run with
          tool,     \* SelectHost's HostSet
          picked    \* ESP_SELECTED_DEV of init, or NoDevice

vars == <<vols, asked, tool, picked>>

-----------------------------------------------------------------------------
(* init/esp-select.sh, over the rows of _esp_scan (the same facts as infos). *)

\* The walk over candidates in rank order: the first usable one that passes its
\* payload check, else the first usable one (_esp_fallback), else nothing.
FirstUsable(infos, cands, list) ==
    LET usable == {d \in cands : infos[d].qual}
        passed == {d \in usable : vols[d].sizes}      \* _esp_payload_ok
        Pick(D) == Best(infos, D, NoUUID, list)
    IN IF passed # {} THEN Pick(passed) ELSE IF usable # {} THEN Pick(usable) ELSE NoDevice

\* _esp_select_list: the identity is the given one, else the first listed marker's.
EspSelectList(infos, list, id) ==
    LET present == {d \in DOMAIN infos : infos[d].uuid \in Listed(list)}
        marked  == {d \in present : ValidMember(infos[d])}
        namer   == CHOOSE d \in marked : \A e \in marked :
                       Rank(list, infos[d].uuid) <= Rank(list, infos[e].uuid)
        own     == IF id # NoId \/ marked = {} THEN id ELSE infos[namer].member.id
        foreign == {d \in marked : own # NoId /\ infos[d].member.id # own}
    IN IF \E u \in Listed(list) : Cloned(infos, u) THEN NoDevice
       ELSE FirstUsable(infos, present \ foreign, list)

\* A slip: the newest marked ESP, of whichever installation.
EspSelectGroupAny(infos, id) ==
    LET cands == {d \in DOMAIN infos : ValidMember(infos[d])}
    IN IF \E d \in cands : Cloned(infos, infos[d].uuid) THEN NoDevice ELSE FirstUsable(infos, cands, <<>>)
\* Rule 3 of esp_select, for the installation id.
EspSelectGroup(infos, id) ==
    LET cands == {d \in DOMAIN infos : ValidMember(infos[d]) /\ infos[d].member.id = id}
        list  == infos[Best(infos, cands, NoUUID, <<>>)].list
    IN IF \E d \in cands : Cloned(infos, infos[d].uuid) THEN NoDevice
       ELSE IF list # <<>> /\ ParsesUUIDList(list) THEN EspSelectList(infos, list, id)
       ELSE FirstUsable(infos, cands, <<>>)

\* A slip: among several unmarked ESPs the first is taken.
EspSelectLegacyFirst(infos) ==
    FirstUsable(infos, {d \in DOMAIN infos : infos[d].efi /\ infos[d].member = NoMarker /\ ~infos[d].bad}, <<>>)
\* Rule 4: no marker counts.
EspSelectLegacy(infos) ==
    LET named == {d \in DOMAIN infos : infos[d].efi /\ infos[d].qual /\ infos[d].member = NoMarker}
        clean == {d \in named : ~infos[d].bad}
        leg   == IF clean = {} /\ Lone(named) THEN named ELSE clean
        lists == {infos[d].list : d \in leg} \ {<<>>}
        agreed == Lone(lists) /\ \A l \in lists : ParsesUUIDList(l)
    IN IF leg = {} \/ \E d \in leg : Cloned(infos, infos[d].uuid) THEN NoDevice
       ELSE IF agreed THEN EspSelectList(infos, CHOOSE l \in lists : TRUE, NoId)
       ELSE IF Lone(leg) THEN CHOOSE d \in leg : TRUE
       ELSE NoDevice

EspSelect(infos, list, self) ==
    LET marked == {d \in DOMAIN infos : ValidMember(infos[d])}
        ids    == {infos[d].member.id : d \in marked}
        booted == Devs(infos, self)
        me     == infos[First(booted)]
        gid    == IF booted # {} /\ ValidMember(me) THEN me.member.id ELSE NoId
        stick  == /\ Lone(marked)
                  /\ \A d \in marked : ~infos[d].efi
                  /\ \E d \in DOMAIN infos : infos[d].efi /\ infos[d].qual /\ Unmarked(infos[d])
    IN IF list # <<>>
       THEN IF ParsesUUIDList(list) THEN EspSelectList(infos, list, NoId) ELSE NoDevice
       ELSE IF Cloned(infos, self) THEN NoDevice
       ELSE IF booted # {} /\ me.qual /\ (ValidMember(me) \/ Unmarked(me)) THEN First(booted)
       ELSE IF gid # NoId THEN EspSelectGroup(infos, gid)
       ELSE IF ids = {} \/ stick THEN EspSelectLegacy(infos)
       ELSE IF Lone(ids) THEN EspSelectGroup(infos, CHOOSE id \in ids : TRUE)
       ELSE NoDevice

-----------------------------------------------------------------------------
Ask(ran, list, primary, self) == [ran |-> ran, list |-> list, primary |-> primary, self |-> self]
NotAsked == Ask(FALSE, <<>>, NoUUID, NoUUID)

Init ==
    /\ vols = [d \in Devices |-> Blank]
    /\ asked = NotAsked
    /\ tool = Refused
    /\ picked = NoDevice

Attach(d, v) ==
    /\ asked = NotAsked
    /\ d = First({e \in Devices : vols[e] = Blank})
    /\ vols' = [vols EXCEPT ![d] = v]
    /\ UNCHANGED <<asked, tool, picked>>

\* A boot, and the tool run on the booted system.  On BIOS the booted ESP is known
\* to both through esp-self=; on UEFI only the tool knows a primary, the ESP that
\* is mounted at /boot/efi.
Select(list, primary, uefi) ==
    LET infos == ScanESPs(vols)
        self  == IF uefi THEN NoUUID ELSE primary
    IN /\ asked = NotAsked
       /\ ParsesUUIDList(list)
       /\ primary # NoUUID => Devs(infos, primary) # {}
       /\ asked' = Ask(TRUE, list, primary, self)
       /\ tool' = SelectHost(infos, list, primary)
       /\ picked' = EspSelect(infos, list, self)
       /\ UNCHANGED vols

Next ==
    \/ \E d \in {d \in Devices : vols[d] = Blank} : \E v \in Volumes[d] : Attach(d, v)
    \/ \E list \in CmdLists, primary \in UUIDs \cup {NoUUID}, uefi \in BOOLEAN : Select(list, primary, uefi)

Spec == Init /\ [][Next]_vars

-----------------------------------------------------------------------------
\* Every list on a disk is one ParseUUIDList accepts.
ListsParse == \A d \in Devices : vols[d].fat => ParsesUUIDList(vols[d].list)
NoLists == asked.list = <<>> /\ \A d \in Devices : vols[d].fat => vols[d].list = <<>>
NoClones == \A u \in UUIDs : ~Cloned(ScanESPs(vols), u)
Own == tool.members \ tool.foreign
IdOf(d) == IF ValidMember(ScanESPs(vols)[d]) THEN vols[d].marker.id ELSE NoId

\* "The same rules as internal/bootenv.SelectHost" (esp-select.sh:9), where no ESP is
\* known as the booted or the mounted one: init takes its config from one of the ESPs
\* the tool would write and from none when the tool refuses; and it finds one whenever
\* one of those is usable and no UUID is on two devices.
SameRules ==
    (asked.ran /\ asked.primary = NoUUID /\ ListsParse)
        => /\ picked # NoDevice => tool.ok /\ picked \in Own
           /\ (tool.ok /\ NoClones /\ \E d \in Own : ScanESPs(vols)[d].qual) => picked # NoDevice

\* An ESP whose FAT UUID is also on another device (a dd clone, one half of an md
\* mirror) is neither written by the tool nor read by init, whatever lists, markers
\* and booted ESP say: dupError in espset.go, "Refusing to guess" in esp-select.sh.
ClonesRefused ==
    \A d \in tool.members \cup ({picked} \ {NoDevice}) : ~Cloned(ScanESPs(vols), vols[d].uuid)

\* Where no list names the set, the tool never mixes installations, and when both
\* choose, the marker of the ESP init reads names the tool's installation, or the ESP
\* has no valid marker: keys of one machine never reach another by a moved disk.
OneInstallation ==
    (tool.ok /\ NoLists)
        => /\ picked # NoDevice => IdOf(picked) \in {NoId, tool.id}
           /\ \A d \in tool.members : IdOf(d) = tool.id
=============================================================================
