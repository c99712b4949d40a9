------------------------------ MODULE KeyState ------------------------------
(***************************************************************************)
(* The key of one encryption root, the passphrase staged for the kexec     *)
(* handoff, and the sessions that work on both at once: zfs_unlock and     *)
(* zfs_lock (init/zfs-unlock.sh, run by the zfs-unlock wrapper or by       *)
(* boot-dataset.sh itself), the boot of a dataset (init/boot-dataset.sh)   *)
(* and menu.py's chroot.  Every command that reads or changes shared state *)
(* is one step.  The operation lock and the boot lock are taken to exclude *)
(* (DirLock models how they are kept); a dead owner's lock is free.        *)
(***************************************************************************)
EXTENDS Naturals

CONSTANTS Sessions,      \* consoles and rescue SSH sessions, one command each
          None,          \* no staged secret, no owner of a lock
          Plans,         \* which commands the sessions may run side by side
          Attempts,      \* passphrase attempts of zfs_unlock, 3 in the code
          MaxSignals     \* bound on signals and SIGKILLs

Commands == {"unlock", "lock", "boot", "chroot"}
ASSUME PlansAssumption == Plans \subseteq [Sessions -> Commands]
ASSUME AttemptsAssumption == Attempts \in Nat \ {0} /\ MaxSignals \in Nat
ASSUME NoneAssumption == None \notin Sessions

VARIABLES imported,     \* the pool is imported
          key,          \* the key is loaded
          stage,        \* the secret at zfs_key_stage_path, or None
          mounted,      \* mount points in use: "root" is /mnt/root, "chroot" /mnt/chroot
          opLock,       \* owner of zfs_op_lock
          bootLock,     \* owner of boot_lock_dir
          prompt,       \* keylocation=prompt, not a file or https key
          command,      \* what each session runs
          pc,           \* its next step
          attempt,      \* $attempt
          available,    \* $keystatus as last read without the lock, = available
          passphrase,   \* $passphrase: "right", "wrong"
          after,        \* where zfs_op_unlock returns to
          stagedByMe,   \* $staged_by_me
          initrd,       \* the secret in the combined initrd, or "plain"
          carried,      \* what the kexec'd kernel was given, "none" before the jump
          signals

shared == <<imported, key, stage, mounted>>
locks == <<opLock, bootLock>>
local == <<attempt, available, passphrase, after, stagedByMe, initrd>>
fixed == <<prompt, command>>
keyVars == <<shared, locks, local, fixed, pc, carried, signals>>

Secrets == [by : Sessions, pass : {"right", "wrong"}]
Secret(s, p) == [by |-> s, pass |-> p]

Unlocking == {"peek", "peekStage", "prompt", "retry", "reread", "verify", "load", "write",
              "publish", "try", "rereadFile", "loadFile", "final", "release"}
Locking == {"lock", "lockRead", "removeOnly", "busy", "remove", "unload"}
Booting == {"bootLock", "mount", "prepare", "handoff", "combine", "consume", "kexecLoad",
            "umount", "export", "jump", "fail", "trap", "trapRelease"}
Places == Unlocking \cup Locking \cup Booting
            \cup {"unlocked", "failed", "chroot", "inChroot", "ended", "dead"}

(* The commands run while zfs_op_lock is held. *)
Critical == {"reread", "verify", "load", "write", "publish", "rereadFile", "loadFile",
             "lockRead", "removeOnly", "busy", "remove", "unload", "release"}

KeyInit ==
    /\ imported = TRUE /\ key \in BOOLEAN /\ stage = None /\ mounted = {}
    /\ opLock = None /\ bootLock = None
    /\ prompt \in BOOLEAN
    /\ command \in Plans
    /\ pc = [s \in Sessions |-> IF command[s] = "lock" THEN "lock" ELSE "peek"]
    /\ attempt = [s \in Sessions |-> 0]
    /\ available = [s \in Sessions |-> FALSE]
    /\ passphrase = [s \in Sessions |-> "wrong"]
    /\ after = [s \in Sessions |-> "failed"]
    /\ stagedByMe = [s \in Sessions |-> FALSE]
    /\ initrd = [s \in Sessions |-> "plain"]
    /\ carried = "none" /\ signals = 0

Available == imported /\ key        \* `zfs get keystatus` prints available
Unavailable == imported /\ ~key
Free(owner) == owner = None \/ pc[owner] = "dead"
Goto(s, c) == pc' = [pc EXCEPT ![s] = c]
Return(s, c) == Goto(s, "release") /\ after' = [after EXCEPT ![s] = c]
-----------------------------------------------------------------------------
(* zfs_unlock: the peek without the lock, keystatus and then the stage. *)
Peek(s) ==
    /\ pc[s] = "peek" /\ attempt[s] < Attempts
    /\ attempt' = [attempt EXCEPT ![s] = @ + 1]
    /\ available' = [available EXCEPT ![s] = Available]
    /\ Goto(s, "peekStage")
    /\ UNCHANGED <<shared, locks, fixed, passphrase, after, stagedByMe, initrd, carried, signals>>

PeekStage(s) ==
    /\ pc[s] = "peekStage"
    /\ Goto(s, IF available[s] /\ stage # None THEN "unlocked" ELSE IF prompt THEN "prompt" ELSE "try")
    /\ UNCHANGED <<shared, locks, local, fixed, carried, signals>>

(* _zfs_prompt_once: 0, a passphrase was typed. *)
PromptAnswer(s) ==
    /\ pc[s] = "prompt"
    /\ \E p \in {"right", "wrong"} : passphrase' = [passphrase EXCEPT ![s] = p]
    /\ Goto(s, "retry")
    /\ UNCHANGED <<shared, locks, fixed, attempt, available, after, stagedByMe, initrd, carried, signals>>

(* 2, cancelled; 3 and 5, no dialog or no safe terminal. *)
PromptQuit(s) ==
    /\ pc[s] = "prompt"
    /\ Goto(s, "peek") \/ Goto(s, "final")
    /\ UNCHANGED <<shared, locks, local, fixed, carried, signals>>

(* Mutant: the poll runs for the dialog that need not be interrupted. *)
PromptSupersededSwapped(s) ==
    /\ pc[s] = "prompt" /\ available[s] /\ Available
    /\ Goto(s, "peek")
    /\ UNCHANGED <<shared, locks, local, fixed, carried, signals>>

(* 4, the poll sees the key loaded by someone else; not for a dialog shown *)
(* with the key loaded already (verify_only).                              *)
PromptSuperseded(s) ==
    /\ pc[s] = "prompt" /\ ~available[s] /\ Available
    /\ Goto(s, "peek")
    /\ UNCHANGED <<shared, locks, local, fixed, carried, signals>>

(* zfs_op_lock_retry; it may give up while someone else holds the lock. *)
Retry(s) ==
    /\ pc[s] = "retry"
    /\ IF Free(opLock) THEN opLock' = s /\ Goto(s, "reread")
                       ELSE UNCHANGED opLock /\ Goto(s, "peek")
    /\ UNCHANGED <<shared, bootLock, local, fixed, carried, signals>>

(* The authoritative reading, under the lock. *)
Reread(s) ==
    /\ pc[s] = "reread"
    /\ IF ~Available THEN Goto(s, "load") /\ UNCHANGED after
       ELSE IF stage # None THEN Return(s, "unlocked")
       ELSE Goto(s, "verify") /\ UNCHANGED after
    /\ UNCHANGED <<shared, locks, fixed, attempt, available, passphrase, stagedByMe, initrd, carried, signals>>

(* Mutant: the passphrase typed for a loaded key is staged unverified. *)
VerifyNothing(s) ==
    /\ pc[s] = "verify"
    /\ Goto(s, "write") /\ UNCHANGED after
    /\ UNCHANGED <<shared, locks, fixed, attempt, available, passphrase, stagedByMe, initrd, carried, signals>>

(* zfs load-key -n: the passphrase is checked against the loaded key. *)
Verify(s) ==
    /\ pc[s] = "verify"
    /\ IF Available /\ passphrase[s] = "right"
       THEN Goto(s, "write") /\ UNCHANGED after
       ELSE Return(s, "peek")
    /\ UNCHANGED <<shared, locks, fixed, attempt, available, passphrase, stagedByMe, initrd, carried, signals>>

(* zfs load-key with the passphrase; it fails on a key loaded meanwhile. *)
LoadKey(s) ==
    /\ pc[s] = "load"
    /\ IF Unavailable /\ passphrase[s] = "right"
       THEN key' = TRUE /\ Goto(s, "write") /\ UNCHANGED after
       ELSE UNCHANGED key /\ Return(s, "peek")
    /\ UNCHANGED <<imported, stage, mounted, locks, fixed, attempt, available, passphrase,
                   stagedByMe, initrd, carried, signals>>

(* zfs_stage_secret: the private temporary, then staged_by_me=1. *)
WriteTmp(s) ==
    /\ pc[s] = "write"
    /\ \/ stagedByMe' = [stagedByMe EXCEPT ![s] = TRUE] /\ Goto(s, "publish") /\ UNCHANGED after
       \/ UNCHANGED stagedByMe /\ Return(s, "unlocked")
    /\ UNCHANGED <<shared, locks, fixed, attempt, available, passphrase, initrd, carried, signals>>

(* mv to the stage path; a failure clears staged_by_me. *)
Publish(s) ==
    /\ pc[s] = "publish"
    /\ \/ stage' = Secret(s, passphrase[s]) /\ UNCHANGED stagedByMe
       \/ UNCHANGED stage /\ stagedByMe' = [stagedByMe EXCEPT ![s] = FALSE]
    /\ Return(s, "unlocked")
    /\ UNCHANGED <<imported, key, mounted, locks, fixed, attempt, available, passphrase, initrd,
                   carried, signals>>

(* Mutant: a retry goes back to the prompt with the lock still held. *)
OpUnlockSometimes(s) ==
    /\ pc[s] = "release"
    /\ opLock' = IF opLock = s /\ after[s] # "peek" THEN None ELSE opLock
    /\ Goto(s, after[s])
    /\ UNCHANGED <<shared, bootLock, local, fixed, carried, signals>>

(* zfs_op_unlock *)
OpUnlock(s) ==
    /\ pc[s] = "release"
    /\ opLock' = IF opLock = s THEN None ELSE opLock
    /\ Goto(s, after[s])
    /\ UNCHANGED <<shared, bootLock, local, fixed, carried, signals>>

(* A key from a file or a URL: one transaction under the lock, which is    *)
(* tried once.                                                             *)
Try(s) ==
    /\ pc[s] = "try"
    /\ IF Free(opLock) THEN opLock' = s /\ Goto(s, "rereadFile")
                       ELSE UNCHANGED opLock /\ Goto(s, "failed")
    /\ UNCHANGED <<shared, bootLock, local, fixed, carried, signals>>

RereadFile(s) ==
    /\ pc[s] = "rereadFile"
    /\ IF Available THEN Return(s, "unlocked") ELSE Goto(s, "loadFile") /\ UNCHANGED after
    /\ UNCHANGED <<shared, locks, fixed, attempt, available, passphrase, stagedByMe, initrd, carried, signals>>

LoadFile(s) ==
    /\ pc[s] = "loadFile"
    /\ \/ Unavailable /\ key' = TRUE /\ Return(s, "unlocked")
       \/ UNCHANGED key /\ Return(s, "failed")
    /\ UNCHANGED <<imported, stage, mounted, locks, fixed, attempt, available, passphrase,
                   stagedByMe, initrd, carried, signals>>

(* Out of attempts: the outcome is read from the key's state. *)
Final(s) ==
    /\ pc[s] = "final" \/ (pc[s] = "peek" /\ attempt[s] = Attempts)
    /\ Goto(s, IF Available THEN "unlocked" ELSE "failed")
    /\ UNCHANGED <<shared, locks, local, fixed, carried, signals>>

(* What the caller does with zfs_unlock's result. *)
Unlocked(s) ==
    /\ pc[s] = "unlocked"
    /\ Goto(s, IF command[s] = "boot" THEN "bootLock"
               ELSE IF command[s] = "chroot" THEN "chroot" ELSE "ended")
    /\ UNCHANGED <<shared, locks, local, fixed, carried, signals>>

Failed(s) ==
    /\ pc[s] = "failed"
    /\ Goto(s, IF command[s] = "boot" THEN "fail" ELSE "ended")
    /\ UNCHANGED <<shared, locks, local, fixed, carried, signals>>
-----------------------------------------------------------------------------
(* zfs_lock *)
Lock(s) ==
    /\ pc[s] = "lock"
    /\ IF Free(opLock) THEN opLock' = s /\ Goto(s, "lockRead")
                       ELSE UNCHANGED opLock /\ Goto(s, "ended")
    /\ UNCHANGED <<shared, bootLock, local, fixed, carried, signals>>

LockRead(s) ==
    /\ pc[s] = "lockRead"
    /\ Goto(s, IF Unavailable THEN "removeOnly" ELSE "busy")
    /\ UNCHANGED <<shared, locks, local, fixed, carried, signals>>

(* Already locked: a stage left behind is removed all the same. *)
RemoveOnly(s) ==
    /\ pc[s] = "removeOnly"
    /\ stage' = None
    /\ Return(s, "failed")
    /\ UNCHANGED <<imported, key, mounted, locks, fixed, attempt, available, passphrase,
                   stagedByMe, initrd, carried, signals>>

(* Mutant: the stage is left to be removed after unload-key. *)
BusyThenUnload(s) ==
    /\ pc[s] = "busy"
    /\ IF mounted # {} THEN Return(s, "failed") ELSE Goto(s, "unload") /\ UNCHANGED after
    /\ UNCHANGED <<shared, locks, fixed, attempt, available, passphrase, stagedByMe, initrd, carried, signals>>

(* Nothing that shares the key may be mounted. *)
Busy(s) ==
    /\ pc[s] = "busy"
    /\ IF mounted # {} THEN Return(s, "failed") ELSE Goto(s, "remove") /\ UNCHANGED after
    /\ UNCHANGED <<shared, locks, fixed, attempt, available, passphrase, stagedByMe, initrd, carried, signals>>

Remove(s) ==
    /\ pc[s] = "remove"
    /\ stage' = None
    /\ Goto(s, "unload")
    /\ UNCHANGED <<imported, key, mounted, locks, local, fixed, carried, signals>>

(* zfs unload-key, which ZFS refuses while a dataset is mounted. *)
Unload(s) ==
    /\ pc[s] = "unload"
    /\ \/ Available /\ mounted = {} /\ key' = FALSE
       \/ UNCHANGED key
    /\ Return(s, "failed")
    /\ UNCHANGED <<imported, stage, mounted, locks, fixed, attempt, available, passphrase,
                   stagedByMe, initrd, carried, signals>>
-----------------------------------------------------------------------------
(* boot-dataset.sh after the unlock.  A loser of the boot lock leaves its  *)
(* stage to the winner.                                                    *)
BootLock(s) ==
    /\ pc[s] = "bootLock"
    /\ IF Free(bootLock)
       THEN bootLock' = s /\ Goto(s, "mount") /\ UNCHANGED stagedByMe
       ELSE UNCHANGED bootLock /\ Goto(s, "ended") /\ stagedByMe' = [stagedByMe EXCEPT ![s] = FALSE]
    /\ UNCHANGED <<shared, opLock, fixed, attempt, available, passphrase, after, initrd, carried, signals>>

(* umount, then mount -t zfs, which needs the key. *)
Mount(s) ==
    /\ pc[s] = "mount"
    /\ \/ Available /\ mounted' = mounted \cup {"root"} /\ Goto(s, "prepare")
       \/ mounted' = mounted \ {"root"} /\ Goto(s, "fail")
    /\ UNCHANGED <<imported, key, stage, locks, local, fixed, carried, signals>>

(* The kernel, its initramfs and the command line are read from /mnt/root. *)
Prepare(s) ==
    /\ pc[s] = "prepare"
    /\ ("root" \in mounted /\ Goto(s, "handoff")) \/ Goto(s, "fail")
    /\ UNCHANGED <<shared, locks, local, fixed, carried, signals>>

(* The staged secret is copied into the handoff archive. *)
Handoff(s) ==
    /\ pc[s] = "handoff"
    /\ IF stage = None
       THEN initrd' = [initrd EXCEPT ![s] = "plain"] /\ Goto(s, "kexecLoad")
       ELSE initrd' = [initrd EXCEPT ![s] = stage.pass] /\ Goto(s, "combine")
    /\ UNCHANGED <<shared, locks, fixed, attempt, available, passphrase, after, stagedByMe, carried, signals>>

(* The archive is unpacked again and compared with the stage; on a         *)
(* difference, a vanished stage or a failed write the plain initrd is used.*)
Combine(s) ==
    /\ pc[s] = "combine"
    /\ \/ stage # None /\ stage.pass = initrd[s] /\ UNCHANGED initrd
       \/ initrd' = [initrd EXCEPT ![s] = "plain"]
    /\ Goto(s, "consume")
    /\ UNCHANGED <<shared, locks, fixed, attempt, available, passphrase, after, stagedByMe, carried, signals>>

Consume(s) ==
    /\ pc[s] = "consume"
    /\ stage' = None
    /\ Goto(s, "kexecLoad")
    /\ UNCHANGED <<imported, key, mounted, locks, local, fixed, carried, signals>>

KexecLoad(s) ==
    /\ pc[s] = "kexecLoad"
    /\ ("root" \in mounted /\ Goto(s, "umount")) \/ Goto(s, "fail")
    /\ UNCHANGED <<shared, locks, local, fixed, carried, signals>>

(* umount, and nothing else of the pool may be mounted. *)
Umount(s) ==
    /\ pc[s] = "umount"
    /\ mounted' = mounted \ {"root"}
    /\ Goto(s, IF mounted' = {} THEN "export" ELSE "fail")
    /\ UNCHANGED <<imported, key, stage, locks, local, fixed, carried, signals>>

(* zpool export unloads the key. *)
Export(s) ==
    /\ pc[s] = "export"
    /\ \/ imported /\ mounted = {} /\ imported' = FALSE /\ key' = FALSE /\ Goto(s, "jump")
       \/ UNCHANGED <<imported, key>> /\ Goto(s, "fail")
    /\ UNCHANGED <<stage, mounted, locks, local, fixed, carried, signals>>

(* kexec -e, which takes every process with it. *)
Jump(s) ==
    /\ pc[s] = "jump"
    /\ \/ carried' = initrd[s] /\ pc' = [t \in Sessions |-> "dead"]
       \/ UNCHANGED carried /\ Goto(s, "fail")
    /\ UNCHANGED <<shared, locks, local, fixed, signals>>

(* fail and the signal trap share _cleanup_secrets, which takes no lock;   *)
(* only fail unmounts /mnt/root.                                           *)
CleanupSecrets(s) ==
    /\ pc[s] \in {"fail", "trap"}
    /\ mounted' = IF pc[s] = "fail" THEN mounted \ {"root"} ELSE mounted
    /\ stage' = IF stagedByMe[s] THEN None ELSE stage
    /\ Goto(s, "trapRelease")
    /\ UNCHANGED <<imported, key, locks, local, fixed, carried, signals>>

(* _zfs_unlock_release_held_lock and release_boot_lock, then a recovery    *)
(* shell or the end of the process.                                        *)
ReleaseLocks(s) ==
    /\ pc[s] = "trapRelease"
    /\ opLock' = IF opLock = s THEN None ELSE opLock
    /\ bootLock' = IF bootLock = s THEN None ELSE bootLock
    /\ Goto(s, "ended")
    /\ UNCHANGED <<shared, local, fixed, carried, signals>>
-----------------------------------------------------------------------------
(* menu.py's chroot_be, once ensure_key_loaded succeeded. *)
Chroot(s) ==
    /\ pc[s] = "chroot"
    /\ \/ Available /\ mounted' = mounted \cup {"chroot"} /\ Goto(s, "inChroot")
       \/ mounted' = mounted \ {"chroot"} /\ Goto(s, "ended")
    /\ UNCHANGED <<imported, key, stage, locks, local, fixed, carried, signals>>

LeaveChroot(s) ==
    /\ pc[s] = "inChroot"
    /\ mounted' = mounted \ {"chroot"}
    /\ Goto(s, "ended")
    /\ UNCHANGED <<imported, key, stage, locks, local, fixed, carried, signals>>

(* INT, TERM, HUP: boot-dataset.sh cleans up, the zfs-unlock wrapper only  *)
(* releases the lock it holds.                                             *)
Signal(s) ==
    /\ pc[s] \notin {"ended", "dead", "trap", "trapRelease"}
    /\ signals < MaxSignals /\ signals' = signals + 1
    /\ Goto(s, IF command[s] = "boot" THEN "trap" ELSE "trapRelease")
    /\ UNCHANGED <<shared, locks, local, fixed, carried>>

(* SIGKILL, the OOM killer: nothing runs, and the locks stay. *)
SigKill(s) ==
    /\ pc[s] \notin {"ended", "dead"}
    /\ signals < MaxSignals /\ signals' = signals + 1
    /\ Goto(s, "dead")
    /\ UNCHANGED <<shared, locks, local, fixed, carried>>

(* A bare `zfs load-key` in the rescue shell. *)
LoadKeyByHand ==
    /\ Unavailable /\ key' = TRUE
    /\ UNCHANGED <<imported, stage, mounted, locks, local, fixed, pc, carried, signals>>
-----------------------------------------------------------------------------
Unlock(s) ==
    \/ Peek(s) \/ PeekStage(s) \/ PromptSuperseded(s) \/ Retry(s) \/ Reread(s) \/ Verify(s)
    \/ LoadKey(s) \/ WriteTmp(s) \/ Publish(s) \/ OpUnlock(s) \/ Try(s) \/ RereadFile(s)
    \/ LoadFile(s) \/ Final(s) \/ Unlocked(s) \/ Failed(s)
LockKey(s) == Lock(s) \/ LockRead(s) \/ RemoveOnly(s) \/ Busy(s) \/ Remove(s) \/ Unload(s)
Boot(s) ==
    \/ BootLock(s) \/ Mount(s) \/ Prepare(s) \/ Handoff(s) \/ Combine(s) \/ Consume(s)
    \/ KexecLoad(s) \/ Umount(s) \/ Export(s) \/ Jump(s) \/ CleanupSecrets(s) \/ ReleaseLocks(s)
Human(s) == PromptAnswer(s) \/ PromptQuit(s) \/ LeaveChroot(s)
Run(s) == Unlock(s) \/ LockKey(s) \/ Boot(s) \/ Chroot(s)

KeyNext == (\E s \in Sessions : Run(s) \/ Human(s) \/ Signal(s) \/ SigKill(s)) \/ LoadKeyByHand

KeySpec == KeyInit /\ [][KeyNext]_keyVars

(* Every process is scheduled; nobody need answer a prompt. *)
FairKeySpec == KeySpec /\ \A s \in Sessions : WF_keyVars(Run(s))
-----------------------------------------------------------------------------
(* The scripts' variables and the shared files stay well formed. *)
KeyTypeOK ==
    /\ imported \in BOOLEAN /\ key \in BOOLEAN /\ prompt \in BOOLEAN
    /\ stage \in Secrets \cup {None} /\ mounted \subseteq {"root", "chroot"}
    /\ opLock \in Sessions \cup {None} /\ bootLock \in Sessions \cup {None}
    /\ command \in [Sessions -> Commands] /\ pc \in [Sessions -> Places]
    /\ attempt \in [Sessions -> 0 .. Attempts] /\ available \in [Sessions -> BOOLEAN]
    /\ passphrase \in [Sessions -> {"right", "wrong"}]
    /\ after \in [Sessions -> {"unlocked", "failed", "peek"}]
    /\ stagedByMe \in [Sessions -> BOOLEAN]
    /\ initrd \in [Sessions -> {"plain", "right", "wrong"}]
    /\ carried \in {"none", "plain", "right", "wrong"}
    /\ signals \in 0 .. MaxSignals

(* zfs-unlock.sh's "semantic lie": a key that is not loaded never coexists *)
(* with a staged secret, whatever the sessions do and wherever one dies.   *)
NoSemanticLie == Unavailable => stage = None

(* A staged secret, and the one a booted kernel is given, opens the root:  *)
(* load-key or load-key -n accepted it under the lock.                     *)
SecretOpensRoot ==
    /\ stage # None => stage.pass = "right"
    /\ \A s \in Sessions : initrd[s] # "wrong"
    /\ carried # "wrong"

(* zfs_unlock's one rule: the operation lock is never held by a session    *)
(* that waits for a human, nor by one that is through with it.             *)
LockNotHeldIdle ==
    opLock # None => pc[opLock] \notin {"prompt", "inChroot", "ended"}

(* A key some session loaded for good ends every dialog that asks for it,  *)
(* even when nobody is there to answer (the poll of _zfs_prompt_once).     *)
UnlockReleasesPrompts ==
    \A s \in Sessions : <>[]Available => []<>~(pc[s] = "prompt" /\ ~available[s])
=============================================================================
