----------------------------- MODULE MCKeyState -----------------------------
(* KeyState on two sessions a and b, for TLC. *)
EXTENDS KeyState

CONSTANTS a, b

(* Every pair of commands, up to the names of the sessions. *)
Order == [unlock |-> 1, boot |-> 2, lock |-> 3, chroot |-> 4]
MCPlans == {c \in [Sessions -> Commands] : Order[c[a]] <= Order[c[b]]}

(* Two sessions that unlock, one or both of them to boot. *)
BootPlans == [Sessions -> {"unlock", "boot"}]
=============================================================================
