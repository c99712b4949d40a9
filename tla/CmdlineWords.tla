---------------------------- MODULE CmdlineWords ----------------------------
(***************************************************************************)
(* EFI/ALPINE/CMDLINE as a sequence of words, a word being a key and a     *)
(* value: how the tool edits it (cmd/tool: int13chunk.go, mirror.go) and   *)
(* how stage2 reads it (bios/cmdline_opt.c).  A value of int13chunk= is a  *)
(* number of sectors; 0 stands for a text that is no number.               *)
(***************************************************************************)
EXTENDS Integers, Sequences, Functions

CONSTANTS Width,       \* width of a word by key, in the unit of CmdlineMax
          CmdlineMax   \* layout.CmdlineMaxBytes

Int13ChunkMax == 127
Int13ChunkDefault == 16

Word(key, value) == [key |-> key, value |-> value]
Without(words, key) == SelectSeq(words, LAMBDA w : w.key # key)
OfKey(words, key) == SelectSeq(words, LAMBDA w : w.key = key)

ValidChunk(v) == v \in 1..Int13ChunkMax

\* cmdlineInt13Chunk and installedInt13Chunk: the first word, when it is valid
\* ("" is Default).
Default == -1
InstalledInt13Chunk(words) ==
    LET set == OfKey(words, "chunk")
    IN IF set # <<>> /\ ValidChunk(Head(set).value) THEN Head(set).value ELSE Default

\* setCmdlineWord, setCmdlineInt13Chunk
SetCmdlineWord(words, key, value) ==
    IF value = Default THEN Without(words, key)
    ELSE Append(Without(words, key), Word(key, value))

\* cmdlineValue: the last word
CmdlineValue(words, key) ==
    LET set == OfKey(words, key) IN IF set = <<>> THEN Default ELSE set[Len(set)].value

\* checkCmdlineLength
CmdlineLength(words) == FoldFunction(LAMBDA w, n : n + Width[w.key], 0, words)
CheckCmdlineLength(words) == CmdlineLength(words) <= CmdlineMax

NotAsked == -2      \* no --int13chunk; Default is --int13chunk=default
\* A slip: an update keeps nothing of the installed command line.
ApplyAskedOnly(release, installed, asked) ==
    IF asked # NotAsked THEN SetCmdlineWord(release, "chunk", asked) ELSE release
\* applyInt13Chunk: what is asked, else what is installed
ApplyInt13Chunk(release, installed, asked) ==
    IF asked # NotAsked THEN SetCmdlineWord(release, "chunk", asked)
    ELSE IF InstalledInt13Chunk(installed) # Default
         THEN SetCmdlineWord(release, "chunk", InstalledInt13Chunk(installed))
         ELSE release

\* cmdlineEditor: the explicit list, or the one this ESP has, and this ESP's UUID; a new
\* member takes the list and the chunk of the member it is seeded from.
CmdlineEditor(words, installed, src, asked, list, self) ==
    LET seeded == installed = <<>> /\ src # <<>>
        from   == IF seeded THEN src ELSE installed
        chunk  == CmdlineValue(src, "chunk")
        kept   == IF seeded /\ asked = NotAsked /\ chunk # Default
                  THEN SetCmdlineWord(words, "chunk", chunk) ELSE words
    IN SetCmdlineWord(
           SetCmdlineWord(kept, "uuids", IF list # Default THEN list ELSE CmdlineValue(from, "uuids")),
           "self", self)

\* stage2: the cap of a disk read, from the first int13chunk= word, if valid
Stage2Chunk(words) ==
    LET set == OfKey(words, "chunk")
    IN IF set # <<>> /\ ValidChunk(Head(set).value) THEN Head(set).value ELSE Int13ChunkDefault
=============================================================================
