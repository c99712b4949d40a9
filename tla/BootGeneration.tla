--------------------------- MODULE BootGeneration ---------------------------
(***************************************************************************)
(* What an install or update of a UEFI loader promises of the ESP, whatever *)
(* goes wrong: the loader and its METADATA file change only inside an      *)
(* update, each only between what it was and what it is to become; an      *)
(* update that says it succeeded left the new generation and one that says *)
(* it failed left the old one; a power loss leaves each file whole, as     *)
(* something that was installed or was to be.                              *)
(***************************************************************************)
CONSTANTS Builds,     \* what a file can hold: the builds, and none
          Damaged     \* a loader the medium spoilt

VARIABLES loader, meta,     \* the two files
          old,              \* what they were when the update began
          new,              \* the build to install
          held,             \* every content installed so far or begun
          busy,             \* an update is between its first and last write
          outcome           \* what the last update said
absVars == <<loader, meta, old, new, held, busy, outcome>>

Init ==
    /\ loader \in Builds /\ meta \in Builds
    /\ old = [loader |-> loader, meta |-> meta]
    /\ new \in Builds
    /\ held = {loader, meta}
    /\ busy = FALSE
    /\ outcome = "none"

\* A new build is chosen, and what is there is recorded; nothing is written yet.
Begin ==
    /\ ~busy
    /\ busy' = TRUE
    /\ old' = [loader |-> loader, meta |-> meta]
    /\ new' \in Builds
    /\ held' = held \cup {new'}
    /\ UNCHANGED <<loader, meta, outcome>>

\* One file is replaced, by the new build's or by the one it had.
Touch ==
    \/ loader' \in {old.loader, new, Damaged} /\ meta' = meta
    \/ meta' \in {old.meta, new} /\ loader' = loader

Write == busy /\ Touch /\ UNCHANGED <<old, new, held, busy, outcome>>

\* The update ends and says how.
End ==
    /\ busy
    /\ busy' = FALSE
    /\ Touch \/ UNCHANGED <<loader, meta>>
    /\ \/ outcome' = "ok" /\ loader' = new /\ meta' = new
       \/ outcome' = "failed" /\ loader' = old.loader /\ meta' = old.meta
       \/ outcome' = "critical"
    /\ UNCHANGED <<old, new, held>>

\* An update that ends, is refused or not needed, before it writes
Refuse ==
    /\ ~busy
    /\ UNCHANGED <<loader, meta, old, held, busy>>
    /\ new' \in Builds
    /\ outcome' \in {"none", "failed", "current", "fetched", "declined"}

\* The process is killed, or the power is lost.
Lose ==
    /\ loader' \in held \cup {loader, Damaged}
    /\ meta' \in held \cup {meta}
    /\ busy' = FALSE
    /\ outcome' = "lost"
    /\ UNCHANGED <<old, new, held>>

Next == Begin \/ Write \/ End \/ Refuse \/ Lose
Spec == Init /\ [][Next]_absVars
=============================================================================
