---------------------------- MODULE MCMirrorSet ----------------------------
EXTENDS MirrorSet

CONSTANTS mine, other, third

Member(u, gen) == ESP(TRUE, 1, "no", 0, <<>>, Marker(1, mine, gen, u, {1, 2}))
Stick == ESP(TRUE, 1, "no", 0, <<>>, Marker(1, other, 2, 3, {3}))
Legacy == ESP(TRUE, 1, "no", 0, <<>>, NoMarker)
Empty == ESP(FALSE, 0, "no", 0, <<>>, NoMarker)

Newer == ESP(TRUE, 2, "no", 0, <<>>, Marker(1, mine, 2, 1, {1, 2}))

\* a mirror next to a stick of another machine; a mirror with a member behind and a
\* blank disk; two ESPs from before there were markers
MCHosts == {<<Member(1, 1), Member(2, 1), Stick>>, <<Newer, Member(2, 1), Empty>>,
            <<Legacy, Legacy, Empty>>}
MCLists == {<<>>, <<1, 3>>}
=============================================================================
