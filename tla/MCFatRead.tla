---------------------------- MODULE MCFatRead ----------------------------
(* Calls on volumes of four clusters: files of up to twelve bytes, with    *)
(* one, two or four sectors to a cluster, and directories.                 *)
EXTENDS FatRead

Plain == [c \in Clusters |-> "more"]
NameAt(c, m) == [Plain EXCEPT ![c] = m]
MCFile(fat, first, spc, range) ==
    [op |-> "read", fat |-> fat, mark |-> Plain, first |-> first, size |-> 12, spc |-> spc,
     offset |-> range[1], length |-> range[2], faults |-> 0, nested |-> FALSE]
MCDir(fat, first, mark) ==
    [op |-> "open", fat |-> fat, mark |-> mark, first |-> first, size |-> 0, spc |-> 1,
     offset |-> 0, length |-> 0, faults |-> 0, nested |-> FALSE]

Fats == [Clusters -> Entries]
(* In order, in pieces, backwards, too short, a loop of one cluster, a     *)
(* loop of three entered by the second link.                               *)
Shapes == { <<3, 4, 5, 6>>, <<4, 5, 3, 6>>, <<6, 2, 3, 4>>, <<3, 6, 6, 6>>, <<3, 3, 6, 6>>, <<3, 4, 5, 3>> }
FewFats == { [c \in Clusters |-> s[c - 1]] : s \in Shapes }

Odd == { MCFile([c \in Clusters |-> End], End, 1, <<0, 1>>), MCFile([c \in Clusters |-> End], 2, 1, <<9, 6>>),
         MCFile([c \in Clusters |-> End], 2, 1, <<12, 0>>), MCDir([c \in Clusters |-> End], End, Plain) }

(* Every FAT of four clusters, with reads that all succeed. *)
SoundReads ==
    { MCFile(f, first, spc, r) : f \in Fats, first \in {2, 4}, spc \in {1, 2, 4},
                                 r \in {<<0, 8>>, <<3, 9>>, <<5, 2>>} }
    \cup { MCDir(f, 2, NameAt(c, m)) : f \in Fats, c \in {4, 5}, m \in {"match", "other", "stop"} }
    \cup Odd

(* A few FATs, where two reads may fail or lie and the callback reads too. *)
Few ==
    { MCFile(f, first, spc, r) : f \in FewFats, first \in {2, 5}, spc \in {1, 2}, r \in {<<0, 8>>, <<3, 9>>} }
    \cup { MCDir(f, 2, NameAt(c, m)) : f \in FewFats, c \in {4, 5}, m \in {"match", "stop"} }
Faulty(n, nested) == { [c EXCEPT !.faults = n, !.nested = nested] : c \in Few }

MCCalls == SoundReads \cup Faulty(2, TRUE)
=============================================================================
