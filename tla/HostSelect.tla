----------------------------- MODULE HostSelect -----------------------------
(***************************************************************************)
(* Which EFI system partitions (ESPs) belong to this host, as the tool     *)
(* decides it: internal/bootenv/espset.go scans every FAT volume, reads    *)
(* its MEMBER marker (internal/espmember) and its esp-uuids list, and      *)
(* SelectHost picks the set the commands then write.                       *)
(*                                                                         *)
(* FAT UUIDs are numbers (the code only compares and orders them), devices *)
(* are numbers in scan order.  A uuid list is a sequence; a repeated entry *)
(* stands for every list ParseUUIDList refuses.                            *)
(***************************************************************************)
EXTENDS Integers, FiniteSets, Sequences

CONSTANTS UUIDs,   \* FAT volume UUIDs: a set of positive integers
          Ids,     \* installation ids, as NewInstallID makes them
          NoId     \* no installation id

ASSUME UUIDsAssumption == UUIDs \subseteq Nat \ {0}
ASSUME IdsAssumption == NoId \notin Ids

NoUUID == 0

\* The MEMBER file: its format number (0: there is no file) and its fields.
Marker(format, id, gen, uuid, members) ==
    [format |-> format, id |-> id, gen |-> gen, uuid |-> uuid, members |-> members]
NoMarker == Marker(0, NoId, 0, NoUUID, {})

\* Broken: the file is there and Decode refuses it (another format, a missing or
\* malformed field).
Decodes(m) == m.format = 1 /\ m.id # NoId /\ m.uuid # NoUUID
Broken(m) == m.format # 0 /\ ~Decodes(m)

\* A list ParseUUIDList accepts has no repeated entry.
Listed(list) == {list[n] : n \in DOMAIN list}
ParsesUUIDList(list) == \A m, n \in DOMAIN list : list[m] = list[n] => m = n

-----------------------------------------------------------------------------
(* The scan.  A volume is what is on a block device; an info is what the scan
   learns about it (ESPInfo): nothing but its UUID and label when it does not
   mount. *)

Info(uuid, efi, alpine, qual, member, bad, list) ==
    [uuid |-> uuid, efi |-> efi, alpine |-> alpine, qual |-> qual,
     member |-> member, bad |-> bad, list |-> list]

\* a boot file, and one of config, keys and host key
Qualifies(v) == v.boot /\ v.keys
ProbeMounted(v) ==
    Info(v.uuid, v.efi, v.alpine, Qualifies(v),
         IF Decodes(v.marker) THEN v.marker ELSE NoMarker, Broken(v.marker), v.list)
ProbeESPFiles(v) ==
    IF v.mounts THEN ProbeMounted(v)
    ELSE Info(v.uuid, v.efi, FALSE, FALSE, NoMarker, FALSE, <<>>)
ScanFATVolumes(vols) == {d \in DOMAIN vols : vols[d].fat}
ScanESPs(vols) == [d \in ScanFATVolumes(vols) |-> ProbeESPFiles(vols[d])]

ValidMember(i) == i.member # NoMarker /\ i.member.uuid = i.uuid
Generation(i) == IF ValidMember(i) THEN i.member.gen ELSE 0
Unmarked(i) == i.member = NoMarker /\ ~i.bad

-----------------------------------------------------------------------------
(* Order and selection.  Sets of members are sets of devices. *)

\* countUUIDs, infoByUUID
Devs(infos, u) == {d \in DOMAIN infos : infos[d].uuid = u}
Cloned(infos, u) == \E d, e \in Devs(infos, u) : d # e
\* exactly one
Lone(S) == \E x \in S : S = {x}
First(D) == CHOOSE d \in D : \A e \in D : d <= e

\* Position of u in the list, 0 when it is not there (no rank).
Rank(list, u) == IF u \in Listed(list) THEN CHOOSE n \in DOMAIN list : list[n] = u ELSE 0

\* orderMembers' less: generation, then the primary, then list position, then UUID.
Before(i, j, primary, list) ==
    IF Generation(i) # Generation(j) THEN Generation(i) > Generation(j)
    ELSE IF (i.uuid = primary) # (j.uuid = primary) THEN i.uuid = primary
    ELSE IF Rank(list, i.uuid) # 0 /\ Rank(list, j.uuid) # 0 /\ Rank(list, i.uuid) # Rank(list, j.uuid)
         THEN Rank(list, i.uuid) < Rank(list, j.uuid)
    ELSE i.uuid < j.uuid
Best(infos, D, primary, list) ==
    CHOOSE d \in D : \A e \in D \ {d} : ~Before(infos[e], infos[d], primary, list)

\* HostSet: the outcome, its members (best first under primary and list) and the
\* UUIDs it expects; ~ok is an error, and the caller stops.
HostSet(mode, id, members, foreign, expected, primary, list) ==
    [ok |-> TRUE, mode |-> mode, id |-> id, members |-> members, foreign |-> foreign,
     expected |-> expected, primary |-> primary, list |-> list]
Refused == [HostSet("none", NoId, {}, {}, {}, NoUUID, <<>>) EXCEPT !.ok = FALSE]

Missing(infos, set) == {u \in set.expected : Devs(infos, u) = {}}

\* The set is the listed ESPs; the first listed one with a valid marker names the
\* installation, and listed members of another one are foreign.
SelectList(infos, list, primary) ==
    LET members == {d \in DOMAIN infos : infos[d].uuid \in Listed(list)}
        marked  == {d \in members : ValidMember(infos[d])}
        namer   == CHOOSE d \in marked : \A e \in marked :
                       Rank(list, infos[d].uuid) <= Rank(list, infos[e].uuid)
        id      == IF marked = {} THEN NoId ELSE infos[namer].member.id
    IN IF members = {} \/ \E u \in Listed(list) : Cloned(infos, u) THEN Refused
       ELSE HostSet("list", id, members, {d \in marked : infos[d].member.id # id},
                    Listed(list), primary, list)

\* No marker counts: one qualifying LABEL=EFI ESP (or the one with a broken
\* marker), or the list all of several agree on.
SelectLegacy(infos) ==
    LET named == {d \in DOMAIN infos : infos[d].efi /\ infos[d].qual /\ infos[d].member = NoMarker}
        clean == {d \in named : ~infos[d].bad}
        qual  == IF clean = {} /\ Lone(named) THEN named ELSE clean
        lists == {infos[d].list : d \in qual} \ {<<>>}
        one   == CHOOSE d \in qual : TRUE
    IN IF Lone(qual) /\ ~Cloned(infos, infos[one].uuid) /\ lists = {}
       THEN HostSet("legacy", NoId, qual, {}, {infos[one].uuid}, NoUUID, <<>>)
       ELSE IF /\ Lone(lists)
               /\ \A l \in lists : ParsesUUIDList(l)
               /\ Lone(qual) => ~Cloned(infos, infos[one].uuid)
       THEN SelectList(infos, CHOOSE l \in lists : TRUE, NoUUID)
       ELSE Refused

\* A slip: clones of a member are not looked for.
SelectGroupClones(infos, id, primary) ==
    LET members == {d \in DOMAIN infos : ValidMember(infos[d]) /\ infos[d].member.id = id}
    IN HostSet("member", id, members, {}, {infos[d].uuid : d \in members}, primary, <<>>)
\* The marker group of installation id; a list in its best member's config replaces it.
SelectGroup(infos, id, primary) ==
    LET members == {d \in DOMAIN infos : ValidMember(infos[d]) /\ infos[d].member.id = id}
        best    == infos[Best(infos, members, primary, <<>>)]
    IN IF \E d \in members : Cloned(infos, infos[d].uuid) THEN Refused
       ELSE IF best.list = <<>>
       THEN HostSet("member", id, members, {},
                    best.member.members \cup {infos[d].uuid : d \in members}, primary, <<>>)
       ELSE IF ParsesUUIDList(best.list) THEN SelectList(infos, best.list, primary)
       ELSE Refused

SelectHost(infos, list, primary) ==
    LET marked == {d \in DOMAIN infos : ValidMember(infos[d])}
        ids    == {infos[d].member.id : d \in marked}
        prim   == {d \in Devs(infos, primary) : d = First(Devs(infos, primary)) /\ d \in marked}
        \* one marked ESP, not labelled EFI, next to an unmarked LABEL=EFI one
        stick  == /\ Lone(marked)
                  /\ \A d \in marked : ~infos[d].efi
                  /\ \E d \in DOMAIN infos : infos[d].efi /\ infos[d].qual /\ Unmarked(infos[d])
    IN IF list # <<>> THEN SelectList(infos, list, primary)
       ELSE IF ids = {} \/ (stick /\ prim = {}) THEN SelectLegacy(infos)
       ELSE IF prim # {}
       THEN IF Cloned(infos, primary) THEN Refused
            ELSE SelectGroup(infos, infos[CHOOSE d \in prim : TRUE].member.id, primary)
       ELSE IF Lone(ids) THEN SelectGroup(infos, CHOOSE id \in ids : TRUE, primary)
       ELSE Refused
=============================================================================
