----------------------------- MODULE MCEspSelect -----------------------------
(* The volumes of the selection check: two disks of this host, and one that
   may be a stick, a moved disk or a clone. *)
EXTENDS EspSelect

CONSTANTS mine, other

Vol(uuid, efi, keys, marker, list, sizes, mounts) ==
    [fat |-> TRUE, mounts |-> mounts, uuid |-> uuid, efi |-> efi, alpine |-> TRUE, boot |-> TRUE,
     keys |-> keys, marker |-> marker, list |-> list, sizes |-> sizes]
HostDisk ==
    {Vol(1, efi, TRUE, m, l, TRUE, TRUE) : efi \in BOOLEAN,
        m \in {NoMarker, Marker(2, mine, 1, 1, {}), Marker(1, mine, 1, 1, {1, 2}), Marker(1, mine, 2, 1, {1, 2})},
        l \in {<<>>, <<1, 2>>, <<1, 1>>, <<3, 1>>}}
    \cup {Vol(1, TRUE, FALSE, Marker(1, mine, 2, 1, {1, 2}), l, TRUE, TRUE) : l \in {<<>>, <<3, 1>>}}
SecondDisk ==
    {Vol(2, TRUE, TRUE, m, l, sizes, mounts) : sizes \in BOOLEAN, mounts \in BOOLEAN,
        m \in {NoMarker, Marker(1, mine, 1, 2, {1, 2}), Marker(1, mine, 2, 2, {1, 2})},
        l \in {<<>>, <<1, 2>>, <<2>>}}
OtherDisk ==
    {Vol(u, efi, TRUE, m, l, TRUE, TRUE) : u \in {3, 1}, efi \in BOOLEAN,
        m \in {NoMarker, Marker(1, mine, 1, 1, {1, 2}), Marker(1, mine, 1, 3, {1, 2, 3}), Marker(1, other, 2, 3, {3})},
        l \in {<<>>, <<3, 1>>}}
MCVolumes == <<HostDisk, SecondDisk, OtherDisk>>
MCCmdLists == {<<>>, <<1, 2>>, <<3, 2>>}
=============================================================================
