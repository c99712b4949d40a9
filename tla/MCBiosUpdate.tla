--------------------------- MODULE MCBiosUpdate ---------------------------
(* BiosUpdate with the builds 1 and 2. *)
EXTENDS BiosUpdate

MCBuilds == 1 .. 2
=============================================================================
