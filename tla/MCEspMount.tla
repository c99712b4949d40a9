----------------------------- MODULE MCEspMount -----------------------------
(* Two runs of the tool, on two volumes; a signal may reach the first. *)
EXTENDS EspMount, TLC

CONSTANTS a, b, efi

MCProcs == {a, b}
MCSignalled == {a}

(* status and update --add-esp, esp adopt, install --add-esp.  The phases *)
(* of status are also those of verify, integrity, int13chunk and esp      *)
(* remove, and those of update --add-esp are also those of esp add.       *)
Job(readonly, added, phases) == [readonly |-> readonly, added |-> added, phases |-> phases]
Status == Job(TRUE, 0, <<"scan", "attach", "register", "work">>)
UpdateAdd == Job(FALSE, 2, <<"scan", "attach", "register", "add", "work">>)
Adopt == Job(FALSE, 0, <<"scan", "register", "attach", "work">>)
InstallAdd == Job(FALSE, 2, <<"register", "scan", "attach", "add", "work">>)
MCJobs == { (a :> one) @@ (b :> other) : one \in {Status, UpdateAdd, Adopt, InstallAdd},
                                        other \in {Status, Adopt} }

(* Nothing is mounted, or the first ESP is at /boot/efi. *)
BootEfi == [dev |-> 1, at |-> efi, rw |-> TRUE]
MCShared == {efi}
MCFound == { <<>>, <<BootEfi>> }
=============================================================================
