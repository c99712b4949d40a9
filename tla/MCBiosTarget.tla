---------------------------- MODULE MCBiosTarget ----------------------------
(* Tables at the edges of the stage2 extent (sectors 34..97): arrays that end  *)
(* before it, reach into it or follow it; partitions that touch its first or   *)
(* last sector, fill it exactly or miss it by one; counts that fill their last *)
(* sector in part, and ones near the end of uint32 (U32 = 16 here); entries of *)
(* 192 and 384 bytes, which straddle sectors, with and without something that  *)
(* looks like an entry where the walks look for one.                           *)
EXTENDS BiosTarget

Ranges == {<<34, 97>>, <<20, 34>>, <<97, 120>>, <<98, 120>>, <<30, 33>>, <<34, 98>>}
UsedSlots(num) ==
    {{Slot(at, "other", r[1], r[2]), Slot(0, "esp", 2048, 4095)} :
        at \in {num - 1} \ {-1, 0}, r \in Ranges}
    \cup {{Slot(at, "esp", 2048, 4095)} : at \in {num - 1} \ {-1}}
Counts == {0, 1, 6, 13}
Sizes == {0, 64, 128, 512}
GPTs == {Table("ok", lba, num, size, {}, "ok", {}) : lba \in {2, 33, 98}, num \in Counts, size \in Sizes}
        \cup UNION {{Table("ok", 2, num, size, slots, "ok", {}) :
                        size \in Sizes, slots \in UsedSlots(num)} : num \in Counts}
Straddling ==
    {[Table("ok", 2, 9, size, {Slot(esp, "esp", 2048, 4095), Slot(other, "other", 97, 120)}, "ok", {})
         EXCEPT !.skewed = skewed] :
        size \in {192, 384}, esp \in {1, 8}, other \in {0, 2},
        skewed \in {{}, {Slot(2, "esp", 512, 600)}, {Slot(2, "other", 60, 61)}}}
MBRs == {Table("none", 0, 0, 0, {}, m, {MBREntry("esp", 2048, 2048), MBREntry("other", r[1], r[2] - r[1] + 1)}) :
            m \in {"none", "fat", "ok"}, r \in Ranges}
        \cup {Table("none", 0, 0, 0, {}, "ok", {MBREntry("other", 40, 0)})}
MCTables == GPTs \cup Straddling \cup MBRs \cup {Table("bad", 2, 6, 128, {}, "ok", {}), Table("unread", 2, 6, 128, {}, "ok", {})}
MCChanged == {Table("ok", 2, 6, 128, {Slot(5, "other", 20, 34)}, "ok", {}),
              Table("none", 0, 0, 0, {}, "ok", {MBREntry("other", 98, 10)})}

MCRelease == <<Word("other", 1)>>
MCManual == {<<Word("chunk", 0), Word("chunk", 8), Word("other", 1)>>,
             <<Word("chunk", 8), Word("chunk", 127), Word("self", 2)>>,
             <<Word("uuids", 3), Word("other", 1), Word("chunk", 128)>>}
MCImages == {Image(TRUE, TRUE, TRUE, TRUE), Image(TRUE, TRUE, FALSE, TRUE)}
MCMounts == {MountInfo(TRUE, "vfat", Name("sda", NoUnit, 1)), MountInfo(TRUE, "vfat", Name("zd", 0, 1)),
             MountInfo(TRUE, "vfat", Name("zd", 0, 0)), MountInfo(FALSE, "none", Name("none", NoUnit, 0))}
MCDisks == {Name("sda", NoUnit, 0), Name("zd", 1, 0), Name("zd", 0, 0)}
MCWidth == [chunk |-> 1, uuids |-> 1, self |-> 1, other |-> 1]
MCDefaults == {-2, -1, 8}
MCLists == {-1, 3}
=============================================================================
