---------------------------- MODULE MCUefiUpdate ----------------------------
(* Two architectures, two releases (the second appears at any moment), one *)
(* command and one more after it; the UEFI asset from each source, and the *)
(* five files of a BIOS build, one of them from a URL.                     *)
EXTENDS UefiUpdate

EfiJobs == {Job(<<"efi">>, <<from>>) : from \in {"file", "url", "default"}}
BiosJob == Job(BIOSSlots, [n \in 1..5 |-> IF n = 3 THEN "url" ELSE "default"])
MCJobs == <<EfiJobs \cup {BiosJob}, EfiJobs>>
MCLocals == {Bad, Content("efi", Machine, MaxTag + 1)}
=============================================================================
