----------------------------- MODULE MCDiskRead -----------------------------
(* The disk reader with a small geometry: requests inside one track, over  *)
(* track, head and cylinder boundaries, over the 8-bit boundary of the     *)
(* cylinder register and over the end of what CHS can address.             *)
EXTENDS DiskRead

MCKinds == {"edd", "lba", "chs"}
MCLbas == {0, 2, 1534, 1797}
=============================================================================
