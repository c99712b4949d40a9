------------------------------ MODULE MCDirLock ------------------------------
(* DirLock with its processes as interchangeable model values, and a lock  *)
(* that an earlier process left with its pid or before it wrote one.       *)
EXTENDS DirLock, TLC

MCInitialPids == {Gone, NoPid}

Symmetry == Permutations(Procs)
=============================================================================
