------------------------- MODULE DiskAndKeyProofs -------------------------
(***************************************************************************)
(* Three components the boot disk and its key depend on.                   *)
(*                                                                         *)
(* KeyState, for any set of sessions.  The argument is the usual one for a *)
(* lock: whoever runs a critical command owns opLock, so no other session  *)
(* is between load-key and the publication of a secret while zfs_lock is   *)
(* between the removal of the stage and unload-key.                        *)
(*                                                                         *)
(* The BIOS disk.  What the tool writes to it can be started, and hits no  *)
(* partition and no GPT array that its check could see, for any tables,    *)
(* images, mounts and bound on changes (BiosTarget); what stage2 reads     *)
(* from it is what is there, for every geometry, chunk size and request    *)
(* (DiskRead).                                                             *)
(***************************************************************************)
EXTENDS DiskRead, BiosTarget, KeyState, TLAPS

\* A leaf is tried with Zenon, then with the SMT solver, then with Zenon for longer.
USE ZenonT(2), SMT, Zenon

(***************************************************************************)
(* Keys: NoSemanticLie, SecretOpensRoot and LockNotHeldIdle.               *)
(***************************************************************************)

(* A session in a critical command owns the operation lock, and the owner  *)
(* is in one, on its way out through the trap, or dead.                    *)
LockInv ==
    /\ \A s \in Sessions : pc[s] \in Critical => opLock = s
    /\ \A s \in Sessions : opLock = s => pc[s] \in Critical \cup {"trap", "trapRelease", "dead"}

(* What is known about the key and the stage at the commands that matter.  *)
KeyInv ==
    /\ \A s \in Sessions : pc[s] \in {"write", "publish"} => passphrase[s] = "right" /\ (imported => key)
    /\ \A s \in Sessions : pc[s] = "unload" => stage = None
    /\ NoSemanticLie
    /\ SecretOpensRoot

SessionInv == KeyTypeOK /\ LockInv /\ KeyInv

(* Every step of every session keeps the variables well typed. *)
LEMMA SessionTypeStep == KeyTypeOK /\ [KeyNext]_keyVars => KeyTypeOK'
<1> SUFFICES ASSUME KeyTypeOK, [KeyNext]_keyVars PROVE KeyTypeOK'
  OBVIOUS
<1> USE AttemptsAssumption
<1> USE DEF Goto, Return, shared, locks, local, fixed, KeyTypeOK
<1>1. ASSUME NEW s \in Sessions, Unlock(s) PROVE KeyTypeOK'
  <2> USE DEF Places, Unlocking
  <2>1. CASE Peek(s)
    BY <2>1 DEF Peek, Available
  <2>2. CASE PeekStage(s) \/ PromptSuperseded(s)
    BY <2>2, ZenonT(60) DEF PeekStage, PromptSuperseded
  <2>3. CASE Retry(s) \/ Try(s)
    BY <2>3, ZenonT(60) DEF Retry, Try
  <2>4. CASE Reread(s)
    BY <2>4 DEF Reread
  <2>11. CASE Verify(s)
    BY <2>11 DEF Verify
  <2>10. CASE LoadKey(s)
    <3>1. key' \in BOOLEAN
      BY <2>10, ZenonT(60) DEF LoadKey
    <3> QED
      BY <2>10, <3>1 DEF LoadKey
  <2>5. CASE WriteTmp(s)
    BY <2>5, ZenonT(60) DEF WriteTmp
  <2>6. CASE Publish(s)
    <3>1. Secret(s, passphrase[s]) \in Secrets
      BY DEF Secret, Secrets
    <3> QED
      BY <2>6, <3>1 DEF Publish
  <2>7. CASE OpUnlock(s)
    BY <2>7 DEF OpUnlock
  <2>8. CASE RereadFile(s) \/ LoadFile(s) \/ Final(s)
    BY <2>8, ZenonT(60) DEF RereadFile, LoadFile, Final
  <2>9. CASE Unlocked(s) \/ Failed(s)
    BY <2>9, ZenonT(60) DEF Unlocked, Failed, Booting
  <2> HIDE DEF KeyTypeOK
  <2> QED
    BY <1>1, <2>1, <2>2, <2>3, <2>4, <2>5, <2>6, <2>7, <2>8, <2>9, <2>10, <2>11 DEF Unlock
<1>2. ASSUME NEW s \in Sessions, LockKey(s) PROVE KeyTypeOK'
  <2> USE DEF Places, Unlocking, Locking
  <2>1. CASE Lock(s) \/ LockRead(s)
    BY <2>1, ZenonT(60) DEF Lock, LockRead
  <2>2. CASE RemoveOnly(s)
    BY <2>2 DEF RemoveOnly
  <2>3. CASE Busy(s)
    BY <2>3 DEF Busy
  <2>4. CASE Remove(s)
    BY <2>4 DEF Remove
  <2>5. CASE Unload(s)
    <3>1. key' \in BOOLEAN
      BY <2>5, ZenonT(60) DEF Unload
    <3> QED
      BY <2>5, <3>1 DEF Unload
  <2> HIDE DEF KeyTypeOK
  <2> QED
    BY <1>2, <2>1, <2>2, <2>3, <2>4, <2>5 DEF LockKey
<1>3. ASSUME NEW s \in Sessions, Boot(s) PROVE KeyTypeOK'
  <2> USE DEF Places, Booting
  <2>1. CASE BootLock(s)
    BY <2>1, ZenonT(60) DEF BootLock
  <2>2. CASE Mount(s) \/ Prepare(s) \/ KexecLoad(s) \/ Umount(s)
    BY <2>2, ZenonT(60) DEF Mount, Prepare, KexecLoad, Umount
  <2>3. CASE Handoff(s)
    BY <2>3, SMTT(60) DEF Handoff, Secrets
  <2>4. CASE Combine(s) \/ Consume(s)
    BY <2>4, ZenonT(60) DEF Combine, Consume
  <2>5. CASE Export(s) \/ Jump(s)
    BY <2>5, ZenonT(60) DEF Export, Jump
  <2>6. CASE CleanupSecrets(s) \/ ReleaseLocks(s)
    BY <2>6, ZenonT(60) DEF CleanupSecrets, ReleaseLocks
  <2> HIDE DEF KeyTypeOK
  <2> QED
    BY <1>3, <2>1, <2>2, <2>3, <2>4, <2>5, <2>6 DEF Boot
<1>4. ASSUME NEW s \in Sessions, Chroot(s) \/ Human(s) PROVE KeyTypeOK'
  <2> USE DEF Places, Unlocking
  <2>1. CASE Chroot(s)
    BY <2>1 DEF Chroot
  <2>2. CASE PromptAnswer(s)
    BY <2>2 DEF PromptAnswer
  <2>3. CASE PromptQuit(s)
    BY <2>3 DEF PromptQuit
  <2>4. CASE LeaveChroot(s)
    BY <2>4 DEF LeaveChroot
  <2> HIDE DEF KeyTypeOK
  <2> QED
    BY <1>4, <2>1, <2>2, <2>3, <2>4 DEF Human
<1>5. ASSUME NEW s \in Sessions, Signal(s) \/ SigKill(s) PROVE KeyTypeOK'
  <2>1. signals' \in 0 .. MaxSignals
    BY <1>5 DEF Signal, SigKill
  <2> QED
    <3>1. CASE Signal(s)
      BY <2>1, <3>1 DEF Signal, Places, Booting
    <3>2. CASE SigKill(s)
      BY <2>1, <3>2 DEF SigKill, Places
    <3> QED
      BY <1>5, <3>1, <3>2
<1>6. CASE LoadKeyByHand
  BY <1>6 DEF LoadKeyByHand
<1>7. CASE UNCHANGED keyVars
  BY <1>7 DEF keyVars
<1> HIDE DEF KeyTypeOK
<1> QED
  BY <1>1, <1>2, <1>3, <1>4, <1>5, <1>6, <1>7 DEF KeyNext, Run

(* A session enters a critical command only with a free lock, and leaves   *)
(* the critical commands with the lock released, in its trap, or dead.     *)
LEMMA LockStep == KeyTypeOK /\ LockInv /\ [KeyNext]_keyVars => LockInv'
<1> SUFFICES ASSUME KeyTypeOK, LockInv, [KeyNext]_keyVars PROVE LockInv'
  OBVIOUS
<1> USE NoneAssumption
<1>0. pc \in [Sessions -> Places] /\ opLock \in Sessions \cup {None}
  BY DEF KeyTypeOK
<1>a. after \in [Sessions -> {"unlocked", "failed", "peek"}]
  BY DEF KeyTypeOK
<1> USE <1>0 DEF LockInv, Critical, Goto, Return, Free, shared, locks, local, fixed
<1>1. ASSUME NEW s \in Sessions, Unlock(s) PROVE LockInv'
  <2>1. CASE Peek(s)
    BY <2>1, SMTT(60) DEF Peek
  <2>2. CASE PeekStage(s)
    BY <2>2, SMTT(60) DEF PeekStage
  <2>3. CASE PromptSuperseded(s)
    BY <2>3, SMTT(60) DEF PromptSuperseded
  <2>4. CASE Retry(s)
    BY <2>4, SMTT(60) DEF Retry
  <2>5. CASE Reread(s)
    BY <2>5, SMTT(60) DEF Reread
  <2>6. CASE Verify(s)
    BY <2>6, SMTT(60) DEF Verify
  <2>7. CASE LoadKey(s)
    BY <2>7, SMTT(60) DEF LoadKey
  <2>8. CASE WriteTmp(s)
    BY <2>8, SMTT(60) DEF WriteTmp
  <2>9. CASE Publish(s)
    BY <2>9, SMTT(60) DEF Publish
  <2>10. CASE OpUnlock(s)
    BY <1>a, <2>10, SMTT(60) DEF OpUnlock
  <2>11. CASE Try(s)
    BY <2>11, SMTT(60) DEF Try
  <2>12. CASE RereadFile(s)
    BY <2>12, SMTT(60) DEF RereadFile
  <2>13. CASE LoadFile(s)
    BY <2>13, SMTT(60) DEF LoadFile
  <2>14. CASE Final(s)
    BY <2>14, SMTT(60) DEF Final
  <2>15. CASE Unlocked(s)
    BY <2>15, SMTT(60) DEF Unlocked
  <2>16. CASE Failed(s)
    BY <2>16, SMTT(60) DEF Failed
  <2> HIDE DEF LockInv
  <2> QED
    BY <1>1, <2>1, <2>2, <2>3, <2>4, <2>5, <2>6, <2>7, <2>8, <2>9, <2>10, <2>11, <2>12, <2>13, <2>14, <2>15, <2>16 DEF Unlock
<1>2. ASSUME NEW s \in Sessions, LockKey(s) PROVE LockInv'
  <2>1. CASE Lock(s)
    BY <2>1, SMTT(60) DEF Lock
  <2>2. CASE LockRead(s)
    BY <2>2, SMTT(60) DEF LockRead
  <2>3. CASE RemoveOnly(s)
    BY <2>3, SMTT(60) DEF RemoveOnly
  <2>4. CASE Busy(s)
    BY <2>4, SMTT(60) DEF Busy
  <2>5. CASE Remove(s)
    BY <2>5, SMTT(60) DEF Remove
  <2>6. CASE Unload(s)
    BY <2>6, SMTT(60) DEF Unload
  <2> HIDE DEF LockInv
  <2> QED
    BY <1>2, <2>1, <2>2, <2>3, <2>4, <2>5, <2>6 DEF LockKey
<1>3. ASSUME NEW s \in Sessions, Boot(s) PROVE LockInv'
  <2>1. CASE BootLock(s)
    BY <2>1, SMTT(60) DEF BootLock
  <2>2. CASE Mount(s)
    BY <2>2, SMTT(60) DEF Mount
  <2>3. CASE Prepare(s)
    BY <2>3, SMTT(60) DEF Prepare
  <2>4. CASE Handoff(s)
    BY <2>4, SMTT(60) DEF Handoff
  <2>5. CASE Combine(s)
    BY <2>5, SMTT(60) DEF Combine
  <2>6. CASE Consume(s)
    BY <2>6, SMTT(60) DEF Consume
  <2>7. CASE KexecLoad(s)
    BY <2>7, SMTT(60) DEF KexecLoad
  <2>8. CASE Umount(s)
    BY <2>8, SMTT(60) DEF Umount
  <2>9. CASE Export(s)
    BY <2>9, SMTT(60) DEF Export
  <2>10. CASE Jump(s)
    BY <2>10, SMTT(60) DEF Jump
  <2>11. CASE CleanupSecrets(s)
    BY <2>11, SMTT(60) DEF CleanupSecrets
  <2>12. CASE ReleaseLocks(s)
    BY <2>12, SMTT(60) DEF ReleaseLocks
  <2> HIDE DEF LockInv
  <2> QED
    BY <1>3, <2>1, <2>2, <2>3, <2>4, <2>5, <2>6, <2>7, <2>8, <2>9, <2>10, <2>11, <2>12 DEF Boot
<1>4. ASSUME NEW s \in Sessions, Chroot(s) PROVE LockInv'
  BY <1>4, SMTT(60) DEF Chroot
<1>5. ASSUME NEW s \in Sessions, PromptAnswer(s) PROVE LockInv'
  BY <1>5, SMTT(60) DEF PromptAnswer
<1>6. ASSUME NEW s \in Sessions, PromptQuit(s) PROVE LockInv'
  BY <1>6, SMTT(60) DEF PromptQuit
<1>7. ASSUME NEW s \in Sessions, LeaveChroot(s) PROVE LockInv'
  BY <1>7, SMTT(60) DEF LeaveChroot
<1>8. ASSUME NEW s \in Sessions, Signal(s) PROVE LockInv'
  BY <1>8, SMTT(60) DEF Signal
<1>9. ASSUME NEW s \in Sessions, SigKill(s) PROVE LockInv'
  BY <1>9, SMTT(60) DEF SigKill
<1>10. CASE LoadKeyByHand
  BY <1>10, SMTT(60) DEF LoadKeyByHand
<1>11. CASE UNCHANGED keyVars
  BY <1>11, SMTT(60) DEF keyVars
<1> HIDE DEF LockInv
<1> QED
  BY <1>1, <1>2, <1>3, <1>4, <1>5, <1>6, <1>7, <1>8, <1>9, <1>10, <1>11 DEF KeyNext, Run, Human

(* Every step keeps what KeyInv says of the key and the stage; only the    *)
(* owner of the lock publishes a secret or unloads the key.                *)
LEMMA KeyStep == KeyTypeOK /\ LockInv /\ KeyInv /\ [KeyNext]_keyVars => KeyInv'
<1> SUFFICES ASSUME KeyTypeOK, LockInv, KeyInv, [KeyNext]_keyVars PROVE KeyInv'
  OBVIOUS
<1> USE NoneAssumption
<1>0. /\ imported \in BOOLEAN /\ key \in BOOLEAN
      /\ pc \in [Sessions -> Places] /\ available \in [Sessions -> BOOLEAN]
      /\ passphrase \in [Sessions -> {"right", "wrong"}] /\ stagedByMe \in [Sessions -> BOOLEAN]
      /\ initrd \in [Sessions -> {"plain", "right", "wrong"}]
  BY DEF KeyTypeOK
<1>a. after \in [Sessions -> {"unlocked", "failed", "peek"}]
  BY DEF KeyTypeOK
<1> USE <1>0 DEF LockInv, KeyInv, NoSemanticLie, SecretOpensRoot, Available, Unavailable, Critical,
            Goto, Return, Secrets, Secret, shared, locks, local, fixed
<1>1. ASSUME NEW s \in Sessions, Unlock(s) PROVE KeyInv'
  <2>1. CASE Peek(s)
    BY <2>1, SMTT(60) DEF Peek
  <2>2. CASE PeekStage(s)
    BY <2>2, SMTT(60) DEF PeekStage
  <2>3. CASE PromptSuperseded(s)
    BY <2>3, SMTT(60) DEF PromptSuperseded
  <2>4. CASE Retry(s)
    BY <2>4, SMTT(60) DEF Retry
  <2>5. CASE Reread(s)
    BY <2>5, SMTT(60) DEF Reread
  <2>6. CASE Verify(s)
    BY <2>6, SMTT(60) DEF Verify
  <2>7. CASE LoadKey(s)
    BY <2>7, SMTT(60) DEF LoadKey
  <2>8. CASE WriteTmp(s)
    BY <2>8, SMTT(60) DEF WriteTmp
  <2>9. CASE Publish(s)
    BY <2>9, SMTT(60) DEF Publish
  <2>10. CASE OpUnlock(s)
    BY <1>a, <2>10, SMTT(60) DEF OpUnlock
  <2>11. CASE Try(s)
    BY <2>11, SMTT(60) DEF Try
  <2>12. CASE RereadFile(s)
    BY <2>12, SMTT(60) DEF RereadFile
  <2>13. CASE LoadFile(s)
    BY <2>13, SMTT(60) DEF LoadFile
  <2>14. CASE Final(s)
    BY <2>14, SMTT(60) DEF Final
  <2>15. CASE Unlocked(s)
    BY <2>15, SMTT(60) DEF Unlocked
  <2>16. CASE Failed(s)
    BY <2>16, SMTT(60) DEF Failed
  <2> HIDE DEF LockInv, KeyInv
  <2> QED
    BY <1>1, <2>1, <2>2, <2>3, <2>4, <2>5, <2>6, <2>7, <2>8, <2>9, <2>10, <2>11, <2>12, <2>13, <2>14, <2>15, <2>16 DEF Unlock
<1>2. ASSUME NEW s \in Sessions, LockKey(s) PROVE KeyInv'
  <2>1. CASE Lock(s)
    BY <2>1, SMTT(60) DEF Lock
  <2>2. CASE LockRead(s)
    BY <2>2, SMTT(60) DEF LockRead
  <2>3. CASE RemoveOnly(s)
    BY <2>3, SMTT(60) DEF RemoveOnly
  <2>4. CASE Busy(s)
    BY <2>4, SMTT(60) DEF Busy
  <2>5. CASE Remove(s)
    BY <2>5, SMTT(60) DEF Remove
  <2>6. CASE Unload(s)
    BY <2>6, SMTT(60) DEF Unload
  <2> HIDE DEF LockInv, KeyInv
  <2> QED
    BY <1>2, <2>1, <2>2, <2>3, <2>4, <2>5, <2>6 DEF LockKey
<1>3. ASSUME NEW s \in Sessions, Boot(s) PROVE KeyInv'
  <2>1. CASE BootLock(s)
    BY <2>1, SMTT(60) DEF BootLock
  <2>2. CASE Mount(s)
    BY <2>2, SMTT(60) DEF Mount
  <2>3. CASE Prepare(s)
    BY <2>3, SMTT(60) DEF Prepare
  <2>4. CASE Handoff(s)
    BY <2>4, SMTT(60) DEF Handoff
  <2>5. CASE Combine(s)
    BY <2>5, SMTT(60) DEF Combine
  <2>6. CASE Consume(s)
    BY <2>6, SMTT(60) DEF Consume
  <2>7. CASE KexecLoad(s)
    BY <2>7, SMTT(60) DEF KexecLoad
  <2>8. CASE Umount(s)
    BY <2>8, SMTT(60) DEF Umount
  <2>9. CASE Export(s)
    BY <2>9, SMTT(60) DEF Export
  <2>10. CASE Jump(s)
    BY <2>10, SMTT(60) DEF Jump
  <2>11. CASE CleanupSecrets(s)
    BY <2>11, SMTT(60) DEF CleanupSecrets
  <2>12. CASE ReleaseLocks(s)
    BY <2>12, SMTT(60) DEF ReleaseLocks
  <2> HIDE DEF LockInv, KeyInv
  <2> QED
    BY <1>3, <2>1, <2>2, <2>3, <2>4, <2>5, <2>6, <2>7, <2>8, <2>9, <2>10, <2>11, <2>12 DEF Boot
<1>4. ASSUME NEW s \in Sessions, Chroot(s) PROVE KeyInv'
  BY <1>4, SMTT(60) DEF Chroot
<1>5. ASSUME NEW s \in Sessions, PromptAnswer(s) PROVE KeyInv'
  BY <1>5, SMTT(60) DEF PromptAnswer
<1>6. ASSUME NEW s \in Sessions, PromptQuit(s) PROVE KeyInv'
  BY <1>6, SMTT(60) DEF PromptQuit
<1>7. ASSUME NEW s \in Sessions, LeaveChroot(s) PROVE KeyInv'
  BY <1>7, SMTT(60) DEF LeaveChroot
<1>8. ASSUME NEW s \in Sessions, Signal(s) PROVE KeyInv'
  BY <1>8, SMTT(60) DEF Signal
<1>9. ASSUME NEW s \in Sessions, SigKill(s) PROVE KeyInv'
  BY <1>9, SMTT(60) DEF SigKill
<1>10. CASE LoadKeyByHand
  BY <1>10, SMTT(60) DEF LoadKeyByHand
<1>11. CASE UNCHANGED keyVars
  BY <1>11, SMTT(60) DEF keyVars
<1> HIDE DEF LockInv, KeyInv
<1> QED
  BY <1>1, <1>2, <1>3, <1>4, <1>5, <1>6, <1>7, <1>8, <1>9, <1>10, <1>11 DEF KeyNext, Run, Human

(* The inductive invariant holds at the start and after every step. *)
LEMMA SessionInvariance == KeySpec => []SessionInv
<1>1. KeyInit => SessionInv
  <2> SUFFICES ASSUME KeyInit PROVE SessionInv
    OBVIOUS
  <2>1. KeyTypeOK
    <3>1. command \in [Sessions -> Commands]
      BY PlansAssumption DEF KeyInit
    <3> QED
      BY <3>1, AttemptsAssumption DEF KeyInit, KeyTypeOK, Places, Unlocking, Locking
  <2>2. LockInv
    BY NoneAssumption DEF KeyInit, LockInv, Critical
  <2>3. KeyInv
    BY DEF KeyInit, KeyInv, NoSemanticLie, SecretOpensRoot
  <2> QED
    BY <2>1, <2>2, <2>3 DEF SessionInv
<1>2. SessionInv /\ [KeyNext]_keyVars => SessionInv'
  BY SessionTypeStep, LockStep, KeyStep DEF SessionInv
<1> QED
  BY <1>1, <1>2, PTL DEF KeySpec

(* The scripts' variables keep their types for any set of sessions. *)
THEOREM SessionsTyped == KeySpec => []KeyTypeOK
BY SessionInvariance, PTL DEF SessionInv

(* For any number of sessions, signals and kills, a key that is not loaded *)
(* never coexists with a staged secret (zfs-unlock.sh's "semantic lie").   *)
THEOREM NoLie == KeySpec => []NoSemanticLie
BY SessionInvariance, PTL DEF SessionInv, KeyInv

(* For any number of sessions, a staged or handed-over secret opens the    *)
(* root: it was accepted by load-key or load-key -n under the lock.        *)
THEOREM SecretIsRight == KeySpec => []SecretOpensRoot
BY SessionInvariance, PTL DEF SessionInv, KeyInv

(* For any number of sessions, nobody waits for a human, or ends, with the *)
(* operation lock held.                                                    *)
THEOREM LockIsBrief == KeySpec => []LockNotHeldIdle
<1>1. SessionInv => LockNotHeldIdle
  BY NoneAssumption DEF SessionInv, KeyTypeOK, LockInv, LockNotHeldIdle, Critical
<1> QED
  BY <1>1, SessionInvariance, PTL

(***************************************************************************)
(* Writes: no stage over a partition or a GPT array, stage1 starts every   *)
(* stage2 it may meet, and stage2 finds the ESP.                           *)
(***************************************************************************)

(* One to four entries of a readable array fit in a sector. *)
LEMMA PerSector ==
    ASSUME NEW t, WellFormed(t), GPTReadable(t)
    PROVE  /\ EntriesPerSector(t) \in 1..4
           /\ EntriesPerSector(t) * t.size <= 512
<1> DEFINE size == t.size
<1>1. size \in 128..512
  BY DEF WellFormed, GPTReadable, SectorSize
<1> HIDE DEF size
<1>2. (512 \div size) \in 1..4 /\ (512 \div size) * size <= 512
  <2>1. \/ size = 128 /\ 512 \div size = 4
        \/ size \in 129..170 /\ 512 \div size = 3
        \/ size \in 171..256 /\ 512 \div size = 2
        \/ size \in 257..512 /\ 512 \div size = 1
    BY <1>1, SMTT(60)
  <2> QED
    BY <2>1
<1> QED
  BY <1>2 DEF EntriesPerSector, SectorSize, size

(* The sector of entry n of an array of num entries, k to a sector. *)
LEMMA SectorOf ==
    ASSUME NEW k \in 1..4, NEW num \in Nat, NEW n \in 0..(num - 1)
    PROVE  n \div k < (num + k - 1) \div k
<1>1. CASE k = 1
  BY <1>1
<1>2. CASE k = 2
  BY <1>2
<1>3. CASE k = 3
  BY <1>3
<1>4. CASE k = 4
  BY <1>4
<1> QED
  BY <1>1, <1>2, <1>3, <1>4

(* n entries of size bytes, k to a sector, take at most n div k whole      *)
(* sectors.                                                                *)
LEMMA ByteOf ==
    ASSUME NEW k \in 1..4, NEW size \in Nat, k * size <= 512, NEW n \in Nat
    PROVE  (n * size) \div 512 \in Nat /\ (n * size) \div 512 <= n \div k
<1> DEFINE q == n \div k
           r == n % k
<1>1. n = q * k + r /\ q \in Nat /\ r \in 0..(k - 1)
  <2>1. CASE k = 1
    BY <2>1
  <2>2. CASE k = 2
    BY <2>2
  <2>3. CASE k = 3
    BY <2>3
  <2>4. CASE k = 4
    BY <2>4
  <2> QED
    BY <2>1, <2>2, <2>3, <2>4
<1> HIDE DEF q, r
<1>2. n * size \in Nat
  OBVIOUS
<1>3. n * size < (q + 1) * 512
  <2>1. n * size = q * (k * size) + r * size
    BY <1>1
  <2>2. q * (k * size) <= q * 512
    BY <1>1
  <2>3. r * size < 512
    <3>1. r * size <= (k - 1) * size
      BY <1>1
    <3>2. (k - 1) * size < 512
      <4>1. CASE k = 1
        BY <4>1
      <4>2. CASE k = 2
        BY <4>2
      <4>3. CASE k = 3
        BY <4>3
      <4>4. CASE k = 4
        BY <4>4
      <4> QED
        BY <4>1, <4>2, <4>3, <4>4
    <3> QED
      BY <1>1, <3>1, <3>2
  <2> QED
    BY <1>1, <2>1, <2>2, <2>3
<1>4. \A x \in Nat : x < (q + 1) * 512 => x \div 512 \in Nat /\ x \div 512 <= q
  BY <1>1
<1> QED
  BY <1>2, <1>3, <1>4 DEF q

(* An entry size that divides a sector, and how many entries that makes. *)
LEMMA WholeEntries ==
    ASSUME NEW t, WellFormed(t), GPTReadable(t), ~Straddles(t)
    PROVE  \/ t.size = 128 /\ EntriesPerSector(t) = 4
           \/ t.size = 256 /\ EntriesPerSector(t) = 2
           \/ t.size = 512 /\ EntriesPerSector(t) = 1
<1> DEFINE size == t.size
<1>1. size \in 128..512 /\ 512 % size = 0
  BY DEF WellFormed, GPTReadable, SectorSize, Straddles
<1> HIDE DEF size
<1>2. size \in {128, 256, 512}
  BY <1>1, SMTT(60)
<1>3. 512 \div 128 = 4 /\ 512 \div 256 = 2 /\ 512 \div 512 = 1
  BY SMT
<1> QED
  BY <1>2, <1>3 DEF EntriesPerSector, SectorSize, size

(* Where entries do not straddle sectors, the p-th read begins where the   *)
(* p-th entry does.                                                        *)
LEMMA OffsetIs ==
    ASSUME NEW t, WellFormed(t), GPTReadable(t), ~Straddles(t), NEW p \in Nat
    PROVE  /\ Offset(t, p) = p * t.size
           /\ \A n \in Nat : n * t.size = p * t.size => n = p
<1>1. CASE t.size = 128 /\ EntriesPerSector(t) = 4
  BY <1>1 DEF Offset, SectorSize
<1>2. CASE t.size = 256 /\ EntriesPerSector(t) = 2
  BY <1>2 DEF Offset, SectorSize
<1>3. CASE t.size = 512 /\ EntriesPerSector(t) = 1
  BY <1>3 DEF Offset, SectorSize
<1> QED
  BY <1>1, <1>2, <1>3, WholeEntries

(* Unless the count goes round, the walk makes one read for each entry. *)
LEMMA AllPositions ==
    ASSUME NEW t, WellFormed(t), GPTReadable(t), ~CountWraps(t)
    PROVE  Positions(t) = 0..(t.num - 1)
<1> DEFINE k == EntriesPerSector(t)
<1>1. k \in 1..4 /\ t.num \in Nat
  BY PerSector DEF WellFormed
<1>2. (t.num + k - 1) % U32 = t.num + k - 1
  <2>1. t.size # 0 /\ k = SectorSize \div t.size
    BY DEF GPTReadable, EntriesPerSector
  <2>2. t.num + k - 1 < U32
    BY <1>1, <2>1, U32Assumption DEF CountWraps
  <2>3. t.num + k - 1 \in Nat
    BY <1>1
  <2>4. \A x \in Nat : x < U32 => x % U32 = x
    BY U32Assumption
  <2> QED
    BY <2>2, <2>3, <2>4
<1>3. TotalSectors(t) = (t.num + k - 1) \div k
  BY <1>2 DEF TotalSectors
<1> HIDE DEF k
<1>4. ASSUME NEW p \in 0..(t.num - 1) PROVE p \div k < TotalSectors(t)
  BY <1>1, <1>3, SectorOf
<1> QED
  BY <1>4 DEF Positions, k

(* A walk that makes one read for each entry, where it begins, meets every *)
(* used slot and nothing else.                                             *)
LEMMA WalkedAll ==
    ASSUME NEW t, WellFormed(t), GPTReadable(t), ~Misread(t)
    PROVE  Walked(t) = t.slots
<1>1. ~Straddles(t) /\ ~CountWraps(t) /\ t.num \in Nat /\ t.slots \subseteq GPTSlots
  BY DEF Misread, WellFormed
<1>2. ASSUME NEW p \in 0..(t.num - 1)
      PROVE  DecodedAt(t, p) = {e \in t.slots : e.at = p}
  <2>1. p \in Nat
    BY <1>1
  <2>2. Offset(t, p) = p * t.size /\ \A n \in Nat : n * t.size = p * t.size => n = p
    BY <1>1, <2>1, OffsetIs
  <2>3. EntryBegins(t, Offset(t, p))
    BY <2>2 DEF EntryBegins
  <2>4. {e \in t.slots : e.at * t.size = Offset(t, p)} = {e \in t.slots : e.at = p}
    <3>1. \A e \in t.slots : e.at \in Nat
      BY <1>1 DEF GPTSlots
    <3> QED BY <2>2, <3>1
  <2>5. \A e \in t.slots : [e EXCEPT !.at = e.at] = e
    BY <1>1 DEF GPTSlots
  <2> QED
    <3>1. DecodedAt(t, p) = {[e EXCEPT !.at = p] : e \in {x \in t.slots : x.at = p}}
      BY <2>3, <2>4, Zenon DEF DecodedAt
    <3> QED BY <2>5, <3>1
<1>3. Positions(t) = 0..(t.num - 1)
  BY <1>1, AllPositions
<1>4. \A e \in t.slots : e.at \in 0..(t.num - 1)
  BY <1>1 DEF WellFormed, GPTSlots
<1>5. Walked(t) = UNION {DecodedAt(t, p) : p \in 0..(t.num - 1)}
  BY <1>3, Zenon DEF Walked
<1> QED
  BY <1>2, <1>4, <1>5

(* A table that CheckStage2ExtentFree accepts leaves the extent to stage2: *)
(* no sector of it is the array's, whatever the entries' size and count,   *)
(* and none is a partition's where GPTPartitions reads every entry.        *)
LEMMA ExtentFree ==
    ASSUME NEW t, WellFormed(t), CheckStage2ExtentFree(t)
    PROVE  /\ ~HoldsArray(t, Stage2LBA, Stage2End)
           /\ Misread(t) \/ ~Claimed(t, Stage2LBA, Stage2End)
<1> USE DEF Stage2End, Stage2LBA, Stage2Sectors
<1>1. CASE t.gpt = "ok"
  <2>1. CheckGPTExtentFree(t) /\ GPTReadable(t)
    BY <1>1 DEF CheckStage2ExtentFree, CheckGPTExtentFree
  <2>2. Misread(t) \/ \A s \in t.slots : ~Conflicts(s.start, s.end)
    BY <2>1, WalkedAll DEF CheckGPTExtentFree, GPTPartitions
  <2>3. ASSUME NEW n \in 0..(t.num - 1)
        PROVE  LET at == t.lba + (n * t.size) \div SectorSize IN ~(34 <= at /\ at <= 97)
    <3> DEFINE k == EntriesPerSector(t)
               sectors == (t.num + k - 1) \div k
               off == (n * t.size) \div 512
    <3>1. k \in 1..4 /\ k * t.size <= 512 /\ t.num \in Nat /\ t.size \in Nat /\ t.lba \in Nat /\ n \in Nat
      BY <2>1, PerSector DEF WellFormed
    <3>2. ArraySectors(t) = sectors
      BY <3>1 DEF ArraySectors, EntriesPerSector
    <3>3. off \in Nat /\ off <= n \div k
      BY <3>1, ByteOf
    <3>4. n \div k < sectors
      BY <3>1, SectorOf
    <3>5. sectors \in Nat /\ n \div k \in Int
      BY <3>1
    <3> HIDE DEF sectors, off, k
    <3>6. off <= sectors - 1 /\ sectors > 0
      <4>1. \A a, b, c \in Int : a \in Nat /\ a <= b /\ b < c => a <= c - 1 /\ c > 0
        OBVIOUS
      <4> QED
        BY <3>3, <3>4, <3>5, <4>1
    <3>7. ~LbaRangesOverlap(34, 97, t.lba, t.lba + sectors - 1)
      BY <2>1, <3>2, <3>6 DEF CheckGPTExtentFree
    <3> QED
      BY <3>1, <3>3, <3>5, <3>6, <3>7 DEF LbaRangesOverlap, off, SectorSize
  <2>4. ASSUME ~Misread(t), NEW s \in t.slots
        PROVE  (s.start = 34 /\ s.end = 97) \/ ~(s.start <= 97 /\ 34 <= s.end)
    BY <2>2, <2>4 DEF Conflicts, LbaRangesOverlap, WellFormed, GPTSlots
  <2>5. ~HoldsArray(t, Stage2LBA, Stage2End)
    BY <2>3 DEF HoldsArray
  <2>6. Misread(t) \/ ~Claimed(t, Stage2LBA, Stage2End)
    BY <1>1, <2>4 DEF Claimed
  <2> QED
    BY <2>5, <2>6
<1>2. CASE t.gpt # "ok"
  <2>1. t.mbr = "ok" /\ \A e \in t.entries : e.count # 0 => ~Conflicts(e.start, e.start + e.count - 1)
    BY <1>2 DEF CheckStage2ExtentFree, MBRReadable, MBRPartitions
  <2>2. ASSUME NEW e \in t.entries, e.count > 0
        PROVE  (e.start = 34 /\ e.count = 64) \/ ~(e.start <= 97 /\ 34 <= e.start + e.count - 1)
    BY <2>1, <2>2 DEF Conflicts, LbaRangesOverlap, WellFormed
  <2> QED
    <3> SUFFICES ASSUME NEW e \in t.entries, e.count > 0, ~(e.start = 34 /\ e.count = 64),
                        e.start <= 97, 34 <= e.start + e.count - 1
                 PROVE  FALSE
      BY <1>2, <2>1 DEF Claimed, HoldsArray
    <3> QED BY <2>2
<1> QED
  BY <1>1, <1>2

(* An ESP's disk and the disk argument that checkMountInfo accepts are one. *)
LEMMA SameDisk ==
    ASSUME NEW m \in Mounts, NEW d \in Disks, CheckMountInfo(m, d), DiskOfESP(m.dev)
    PROVE  WholeDisk(m.dev) = WholeDisk(d)
<1>1. DevicePartitionBase(m.dev) = WholeDisk(m.dev) /\ DevicePartitionBase(d) = WholeDisk(m.dev)
  BY DEF CheckMountInfo, DiskOfESP, DevicePartitionBase
<1>2. CASE DevicePartitionBase(d) = Name(d.stem, NoUnit, 0)
  <2>1. m.dev.stem = d.stem /\ m.dev.unit = NoUnit
    BY <1>1, <1>2 DEF WholeDisk, Name
  <2> QED
    BY <2>1, NamesAssumption DEF WholeDisk
<1> QED
  BY <1>1, <1>2 DEF DevicePartitionBase

-----------------------------------------------------------------------------
Checks == {"stage2", "stage1", "undo"}
RawWrites == {"write2", "write1", "rewrite2"}
Undoable == {"stage1", "write1", "undo", "rewrite2"}

(* What the checks before the first write established; what the check of a *)
(* call still tells at its write; and what stage1 accepts on the way.      *)
Inv ==
    /\ table \in Tables \cup Changed
    /\ doing \in {"idle", "payload"} \cup Checks \cup RawWrites
    /\ doing \in Checks \cup RawWrites =>
          /\ sector = 512
          /\ op.kind = "install" => WholeDisk(op.mount.dev) = WholeDisk(op.disk)
    /\ doing \in RawWrites => raced \/ CheckStage2ExtentFree(table)
    /\ doing \in {"stage2", "write2"} => CheckStage2(op.image) \/ op.force
    /\ doing = "write2" => prev = stage2
    /\ doing \in Undoable /\ ~forced => CheckStage2(stage2)
    /\ doing \in Undoable /\ ~forced /\ stage1 # "none" => Stage1Accepts(stage1, prev)
    /\ PairStarts

(* Inv holds at the start. *)
LEMMA InitInv == Init => Inv
<1> SUFFICES ASSUME Init PROVE Inv
  OBVIOUS
<1>1. PairStarts
  BY DEF Init, PairStarts, Stage1Accepts, CheckStage2, Image
<1> QED
  BY <1>1 DEF Init, Inv, Checks, RawWrites, Undoable

(* Every step keeps Inv. *)
LEMMA InvStep == Inv /\ [Next]_vars => Inv'
<1> SUFFICES ASSUME Inv, [Next]_vars PROVE Inv'
  OBVIOUS
<1>1. ASSUME NEW i, NEW a, NEW l, NEW f, NEW m \in Mounts, NEW d \in Disks, Install(i, a, l, f, m, d)
      PROVE  Inv'
  <2>1. WholeDisk(m.dev) = WholeDisk(d)
    <3>1. CheckMountInfo(m, d) /\ DiskOfESP(m.dev)
      BY <1>1, Zenon DEF Install
    <3> QED BY <3>1, SameDisk
  <2>2. op'.mount = m /\ op'.disk = d /\ op'.image = i /\ op'.force = f
    BY <1>1 DEF Install, Op
  <2>3. CheckStage2(i) \/ f
    BY <1>1 DEF Install, CheckStagePair
  <2> QED
    <3>1. doing' = "stage2" /\ sector = 512 /\ UNCHANGED <<table, sector, stage1, stage2, forced>>
      BY <1>1 DEF Install, CheckSectorSize, SectorSize
    <3>2. PairStarts'
      BY <3>1 DEF Inv, PairStarts, Stage1Accepts
    <3>3. table' \in Tables \cup Changed
      BY <3>1 DEF Inv
    <3> QED BY <2>1, <2>2, <2>3, <3>1, <3>2, <3>3 DEF Inv, Checks, RawWrites, Undoable
<1>2. ASSUME NEW i, NEW a, NEW l, NEW f, NEW s, NEW src, Update(i, a, l, f, s, src) PROVE Inv'
  <2>1. op'.kind = "update" /\ op'.image = i /\ op'.force = f
    BY <1>2 DEF Update, Op
  <2>2. CheckStage2(i) \/ f
    BY <1>2 DEF Update, CheckStagePair
  <2> QED
    <3>1. doing' = "stage2" /\ sector = 512 /\ UNCHANGED <<table, sector, stage1, stage2, forced>>
      BY <1>2 DEF Update, CheckSectorSize, SectorSize
    <3>2. PairStarts'
      BY <3>1 DEF Inv, PairStarts, Stage1Accepts
    <3>3. table' \in Tables \cup Changed
      BY <3>1 DEF Inv
    <3> QED BY <2>1, <2>2, <3>1, <3>2, <3>3 DEF Inv, Checks, RawWrites, Undoable
<1>3. CASE CheckStage2Write
  <2>1. /\ doing = "stage2" /\ doing' \in {"idle", "write2"} /\ prev' = stage2
        /\ doing' = "write2" => CheckStage2ExtentFree(table)
        /\ UNCHANGED <<table, sector, stage1, stage2, op, forced>>
    BY <1>3 DEF CheckStage2Write, CheckBeforeWrite
  <2>2. doing' = "write2" => CheckStage2ExtentFree(table')
    BY <2>1
  <2>3. PairStarts'
    BY <2>1 DEF Inv, PairStarts, Stage1Accepts
  <2> QED
    BY <2>1, <2>2, <2>3 DEF Inv, Checks, RawWrites, Undoable
<1>4. CASE WriteStage2
  <2>1. /\ doing = "write2" /\ doing' = "stage1" /\ stage2' = op.image
        /\ forced' = (forced \/ op.force)
        /\ UNCHANGED <<table, sector, stage1, op, prev>>
    BY <1>4 DEF WriteStage2
  <2>2. ~forced' => CheckStage2(stage2')
    BY <2>1 DEF Inv
  <2>3. ~forced' /\ stage1' # "none" => Stage1Accepts(stage1', prev')
    BY <2>1 DEF Inv, PairStarts
  <2>4. PairStarts'
    BY <2>1, <2>2 DEF PairStarts, Stage1Accepts, CheckStage2
  <2> QED
    BY <2>1, <2>2, <2>3, <2>4 DEF Inv, Checks, RawWrites, Undoable
<1>5. CASE CheckStage1Write \/ CheckRollback
  <2>1. /\ doing \in {"stage1", "undo"} /\ doing' \in {"idle", "write1", "undo", "rewrite2"}
        /\ doing' \in {"write1", "rewrite2"} => CheckStage2ExtentFree(table)
        /\ UNCHANGED <<table, sector, stage1, stage2, op, forced, prev>>
    BY <1>5 DEF CheckStage1Write, CheckRollback, CheckBeforeWrite
  <2>2. doing' \in {"write1", "rewrite2"} => CheckStage2ExtentFree(table')
    BY <2>1
  <2>3. PairStarts'
    BY <2>1 DEF Inv, PairStarts, Stage1Accepts
  <2> QED
    BY <2>1, <2>2, <2>3 DEF Inv, Checks, RawWrites, Undoable
<1>6. CASE WriteStage1
  <2>1. /\ doing = "write1" /\ doing' = "payload" /\ stage1' = "new"
        /\ UNCHANGED <<table, sector, stage2, op, prev, forced>>
    BY <1>6 DEF WriteStage1
  <2>2. PairStarts'
    BY <2>1 DEF Inv, Undoable, PairStarts, Stage1Accepts, CheckStage2
  <2> QED
    BY <2>1, <2>2 DEF Inv, Checks, RawWrites, Undoable
<1>7. CASE RollbackStage2
  <2>1. /\ doing = "rewrite2" /\ doing' = "idle" /\ stage2' = prev
        /\ UNCHANGED <<table, sector, stage1, op, prev, forced>>
    BY <1>7 DEF RollbackStage2
  <2>2. PairStarts'
    BY <2>1 DEF Inv, Undoable, PairStarts
  <2> QED
    BY <2>1, <2>2 DEF Inv, Checks, RawWrites, Undoable
<1>8. CASE WriteCmdline
  BY <1>8 DEF WriteCmdline, Inv, Checks, RawWrites, Undoable, PairStarts, Stage1Accepts
<1>9. ASSUME NEW v, SetInt13Chunk(v) PROVE Inv'
  BY <1>9 DEF SetInt13Chunk, Inv, Checks, RawWrites, Undoable, PairStarts, Stage1Accepts
<1>10. ASSUME NEW t \in Changed, Repartition(t) PROVE Inv'
  BY <1>10 DEF Repartition, Inv, Checks, RawWrites, Undoable, PairStarts, Stage1Accepts
<1>11. ASSUME NEW w, Edit(w) PROVE Inv'
  BY <1>11 DEF Edit, Inv, Checks, RawWrites, Undoable, PairStarts, Stage1Accepts
<1>12. CASE UNCHANGED vars
  BY <1>12 DEF vars, Inv, Checks, RawWrites, Undoable, PairStarts, Stage1Accepts
<1> QED
  BY <1>1, <1>2, <1>3, <1>4, <1>5, <1>6, <1>7, <1>8, <1>9, <1>10, <1>11, <1>12 DEF Next

(* Inv always holds. *)
LEMMA Invariant == Spec => []Inv
  BY InitInv, InvStep, PTL DEF Spec

-----------------------------------------------------------------------------
(* Between the write of stage2 and of stage1, and at every other moment,   *)
(* the stage1 on the disk accepts the stage2 on it (checkStagePair,        *)
(* WriteStage2, WriteStage1, rollbackStage2), unless --force wrote it.     *)
THEOREM StagesStart == Spec => []PairStarts
<1>1. Inv => PairStarts
  BY DEF Inv
<1> QED
  BY <1>1, Invariant, PTL

(* A stage is written only where nothing else owns a sector of the extent, *)
(* on a disk of 512-byte sectors that carries the mounted ESP, unless the  *)
(* table was replaced between the check (CheckStage2ExtentFree) and the    *)
(* write of that same WriteStage1 or WriteStage2, or has an array that     *)
(* GPTPartitions does not read entry by entry.                             *)
THEOREM WritesAreSafe == Spec => WriteSafe
<1> DEFINE Safe == /\ \/ raced
                      \/ /\ ~HoldsArray(table, Stage2LBA, Stage2End)
                         /\ Misread(table) \/ ~Claimed(table, Stage2LBA, Stage2End)
                   /\ sector = 512
                   /\ op.kind = "install" => WholeDisk(op.mount.dev) = WholeDisk(op.disk)
<1>1. Inv /\ [Next]_vars => [stage1' # stage1 \/ stage2' # stage2 => Safe]_vars
  <2> SUFFICES ASSUME Inv, Next, stage1' # stage1 \/ stage2' # stage2 PROVE Safe
    BY DEF vars
  <2>1. doing \in RawWrites
    <3>1. CASE WriteStage2 \/ WriteStage1 \/ RollbackStage2
      BY <3>1 DEF WriteStage2, WriteStage1, RollbackStage2, RawWrites
    <3>2. CASE UNCHANGED <<stage1, stage2>>
      BY <3>2
    <3> QED
      BY <3>1, <3>2 DEF Next, Install, Update, CheckStage2Write, CheckStage1Write, CheckRollback,
                        CheckBeforeWrite, WriteCmdline, SetInt13Chunk, Repartition, Edit
  <2>2. WellFormed(table)
    BY TablesAssumption DEF Inv
  <2>3. sector = 512 /\ (op.kind = "install" => WholeDisk(op.mount.dev) = WholeDisk(op.disk))
    BY <2>1 DEF Inv
  <2>4. raced \/ CheckStage2ExtentFree(table)
    BY <2>1 DEF Inv
  <2> QED BY <2>2, <2>3, <2>4, ExtentFree
<1> QED
  BY <1>1, Invariant, PTL DEF Spec, WriteSafe

(* stage2's walk finds the first ESP of every table the tool accepts       *)
(* (gpt_find_partition against CheckStage2ExtentFree) whose entries fill   *)
(* sectors evenly and whose count does not go round.                       *)
THEOREM Stage2FindsESP == Spec => []FindsESP
<1>1. Inv => FindsESP
  <2> SUFFICES ASSUME Inv, CheckStage2ExtentFree(table), table.gpt = "ok", ~Misread(table)
               PROVE  LET esps == {s \in table.slots : s.type = "esp"}
                      IN Stage2ESP(table) = IF esps = {} THEN 0 ELSE Earliest(esps).start
    BY DEF FindsESP
  <2>1. WellFormed(table) /\ GPTReadable(table)
    <3>1. table \in Tables \cup Changed
      BY DEF Inv
    <3>2. GPTReadable(table)
      BY DEF CheckStage2ExtentFree, CheckGPTExtentFree
    <3> QED BY <3>1, <3>2, TablesAssumption
  <2>2. GPTFindReads(table)
    BY <2>1 DEF GPTReadable, GPTFindReads, WellFormed
  <2>3. FoundByStage2(table, "esp") = {s \in table.slots : s.type = "esp"}
    BY <2>1, WalkedAll DEF FoundByStage2
  <2> QED
    BY <2>2, <2>3 DEF Stage2ESP
<1> QED
  BY <1>1, Invariant, PTL

(***************************************************************************)
(* Reads: ReadIsExact, WithinInterface and FinalAfterTwo.                  *)
(***************************************************************************)

(* Dividing by a product is dividing twice: the cylinder of a sector is    *)
(* the track number divided by the heads.                                  *)
LEMMA DivDiv == ASSUME NEW l \in Nat, NEW a \in Nat \ {0}, NEW b \in Nat \ {0}
                PROVE  l \div (a * b) = (l \div b) \div a
<1> DEFINE q == l \div b
           r == l % b
           s == q \div a
           t == q % a
<1>1. q \in Nat /\ r \in 0 .. b - 1 /\ l = b * q + r
  OBVIOUS
<1>2. s \in Nat /\ t \in 0 .. a - 1 /\ q = a * s + t
  BY <1>1
<1> HIDE DEF q, r, s, t
<1>3. l = (a * b) * s + (b * t + r)
  BY <1>1, <1>2
<1>4. b * t <= b * (a - 1)
  BY <1>2
<1>5. b * t + r \in 0 .. (a * b) - 1
  BY <1>1, <1>2, <1>4
<1>6. a * b \in Nat \ {0}
  OBVIOUS
<1>7. \A k \in Nat \ {0}, e \in Nat : e < k => (k * s + e) \div k = s
  BY <1>2
<1> QED BY <1>3, <1>5, <1>6, <1>7 DEF q, s

(* The BIOS reads, for the registers of a sector, that sector: cylinder    *)
(* bits 8 and 9 in the top of CL, the sector number in its lower six bits. *)
LEMMA ChsRoundTrip == ASSUME NEW l \in Nat, Addressable(l)
                      PROVE  SectorAt(Registers(l)) = l /\ Registers(l).cl % 64 = (l % Spt) + 1
<1> DEFINE c == Cylinder(l)
           tr == l \div Spt
           sec == l % Spt
<1>1. Heads \in Nat \ {0} /\ Spt \in Nat \ {0} /\ Spt <= 63
  BY GeometryAssumption
<1>2. tr \in Nat /\ sec \in 0 .. Spt - 1 /\ l = tr * Spt + sec
  BY <1>1
<1>3. c = tr \div Heads
  BY <1>1, DivDiv DEF Cylinder
<1>4. c \in 0 .. 1023
  BY <1>1, <1>2, <1>3 DEF Addressable
<1>5. tr = c * Heads + (tr % Heads) /\ tr % Heads \in Nat
  BY <1>1, <1>2, <1>3
<1> DEFINE hi == (c \div 256) % 4
           cl == 64 * hi + sec + 1
<1>6. (c % 256) + 256 * hi = c /\ hi \in 0 .. 3
  BY <1>4
<1>7. cl \div 64 = hi /\ cl % 64 = sec + 1
  BY <1>1, <1>2, <1>6
<1>8. Registers(l) = [ch |-> c % 256, cl |-> cl, dh |-> tr % Heads]
  BY DEF Registers
<1> HIDE DEF c, tr, sec, hi, cl
<1>9. SectorAt(Registers(l)) = (((c % 256) + 256 * (cl \div 64)) * Heads + (tr % Heads)) * Spt + (cl % 64) - 1
  BY <1>8 DEF SectorAt
<1>10. SectorAt(Registers(l)) = (c * Heads + (tr % Heads)) * Spt + (sec + 1) - 1
  BY <1>6, <1>7, <1>9
<1>11. Registers(l).cl % 64 = (l % Spt) + 1
  BY <1>7, <1>8 DEF sec
<1> QED BY <1>1, <1>2, <1>5, <1>10, <1>11
-----------------------------------------------------------------------------
(* What holds while a request runs: the sectors before pos, and those of   *)
(* the tracks already read of this call, are in their place.               *)
Progress ==
    /\ result \in {"busy", "ok"} => pos + count = wanted /\ lba = first + pos
    /\ result = "busy" => count > 0 /\ done < CallSize
    /\ result = "ok" => count = 0
    /\ mode = "lba" => done = 0
    /\ result \in {"busy", "ok"} => \A i \in 0 .. pos + done - 1 : buf[i] = first + i
    /\ result # "busy" => done = 0

Untouched == \A i \in Slots : i >= wanted => buf[i] = Old

Types ==
    /\ kind \in Kinds \cup {"none"} /\ mode \in {"lba", "chs"}
    /\ limit \in Nat /\ chunk \in 1 .. limit /\ chunk <= ChunkLimit
    /\ mode = "chs" => limit = Spt
    /\ first \in Nat /\ wanted \in 0 .. MaxCount
    /\ lba \in Nat /\ count \in 0 .. MaxCount /\ pos \in 0 .. MaxCount
    /\ again \in BOOLEAN /\ done \in 0 .. MaxCount
    /\ buf \in [Slots -> Int] /\ result \in {"none", "busy", "ok", "error"}

IInv == Types /\ Progress /\ Untouched

USE LbasAssumption, ChunkAssumption, GeometryAssumption

(* Before the first disk_select the buffer is untouched and the default    *)
(* chunk is within its limit.                                              *)
LEMMA InitHolds == ReadInit => IInv
<1> SUFFICES ASSUME ReadInit PROVE IInv
  OBVIOUS
<1>1. Types
  <2>1. again \in BOOLEAN
    BY ZenonT(60) DEF ReadInit
  <2> QED BY <2>1 DEF ReadInit, Types, Slots, Old
<1>2. Progress
  BY DEF ReadInit, Progress
<1>3. Untouched
  BY DEF ReadInit, Untouched
<1> QED BY <1>1, <1>2, <1>3 DEF IInv

(* disk_set_chunk keeps the invariant: a size it accepts is clamped to the *)
(* limit of the drive.                                                     *)
LEMMA SetChunkStep == IInv /\ (\E n \in 0 .. ChunkLimit + 1 : SetChunk(n)) => IInv'
<1> SUFFICES ASSUME IInv, NEW n \in 0 .. ChunkLimit + 1, SetChunk(n) PROVE IInv'
  OBVIOUS
<1>1. chunk' \in 1 .. limit /\ chunk' <= ChunkLimit /\ result # "busy"
  BY DEF IInv, Types, SetChunk, SetChunkTo, Least, Idle
<1>2. again' \in BOOLEAN
  BY ZenonT(60) DEF IInv, Types, SetChunk, request
<1>3. Types'
  BY <1>1, <1>2 DEF IInv, Types, SetChunk, request
<1>4. Progress' /\ Untouched'
  BY <1>1 DEF IInv, Progress, Untouched, SetChunk, request
<1> QED BY <1>3, <1>4 DEF IInv

(* disk_select keeps the invariant: the chunk in force is clamped again to *)
(* the new drive.                                                          *)
LEMMA SelectStep == IInv /\ (\E k \in Kinds : Select(k)) => IInv'
<1> SUFFICES ASSUME IInv, NEW k \in Kinds, Select(k) PROVE IInv'
  OBVIOUS
<1>1. again' \in BOOLEAN
  BY ZenonT(60) DEF IInv, Types, Select, request
<1>2. /\ chunk' \in 1 .. limit' /\ chunk' <= ChunkLimit /\ limit' \in Nat /\ mode' \in {"lba", "chs"}
      /\ mode' = "chs" => limit' = Spt
  BY DEF IInv, Types, Select, SetChunkTo, Least
<1>3. Types'
  BY <1>1, <1>2 DEF IInv, Types, Select, request
<1>4. UNCHANGED request /\ result # "busy"
  BY DEF Select, Idle
<1>5. Progress'
  BY <1>4 DEF IInv, Progress, request
<1>6. Untouched'
  BY <1>4 DEF IInv, Untouched, request
<1> QED BY <1>3, <1>5, <1>6 DEF IInv

(* A new request of disk_read_lba starts with nothing delivered. *)
LEMMA RequestStep == IInv /\ (\E l \in Lbas, c \in 0 .. MaxCount : Request(l, c)) => IInv'
<1> SUFFICES ASSUME IInv, NEW l \in Lbas, NEW c \in 0 .. MaxCount, Request(l, c) PROVE IInv'
  OBVIOUS
<1>1. again' \in BOOLEAN
  BY ZenonT(60) DEF Request
<1>2. Types'
  BY <1>1 DEF IInv, Types, Request, Slots, Old
<1>3. Progress'
  <2>1. /\ first' = l /\ wanted' = c /\ lba' = l /\ count' = c /\ pos' = 0 /\ done' = 0 /\ ~again'
        /\ result' = (IF c = 0 THEN "ok" ELSE "busy") /\ chunk' = chunk
    BY DEF Request
  <2>2. l \in Nat /\ c \in Nat /\ chunk \in Nat /\ chunk >= 1
    BY DEF IInv, Types
  <2>3. c > 0 => 0 < CallSize'
    BY <2>1, <2>2 DEF CallSize, Least
  <2> QED BY <2>1, <2>2, <2>3 DEF Progress
<1>4. Untouched'
  BY DEF Untouched, Request
<1> QED BY <1>2, <1>3, <1>4 DEF IInv

(* What the types say of the numbers. *)
LEMMA Numbers ==
    ASSUME IInv
    PROVE  /\ limit \in Nat /\ chunk \in 1 .. limit /\ chunk <= ChunkLimit
           /\ first \in Nat /\ wanted \in 0 .. MaxCount /\ lba \in Nat
           /\ count \in 0 .. MaxCount /\ pos \in 0 .. MaxCount /\ done \in 0 .. MaxCount
           /\ buf \in [Slots -> Int]
BY DEF IInv, Types

(* A call asks for at least one of the sectors that are left. *)
LEMMA CallInRange == IInv /\ result = "busy" => CallSize \in 1 .. count
BY DEF IInv, Types, Progress, CallSize, Least

(* What is known while a request runs. *)
LEMMA Running ==
    ASSUME IInv, result = "busy"
    PROVE  /\ CallSize \in 1 .. count /\ pos + count = wanted /\ lba = first + pos
           /\ done < CallSize /\ (mode = "lba" => done = 0)
           /\ \A i \in 0 .. pos + done - 1 : buf[i] = first + i
           /\ \A i \in Slots : i >= wanted => buf[i] = Old
BY CallInRange DEF IInv, Progress, Untouched

(* A refused call leaves what was delivered before it in place. *)
LEMMA RefusedStep ==
    ASSUME IInv, result = "busy", Refused,
           UNCHANGED <<kind, mode, limit, first, wanted>>,
           buf' \in [Slots -> Int],
           \A i \in Slots : i \notin pos .. pos + CallSize - 1 => buf'[i] = buf[i]
    PROVE  IInv'
<1>1. CallSize \in 1 .. count
  BY CallInRange
<1>2. again' \in BOOLEAN
  BY ZenonT(60) DEF IInv, Types, Refused
<1>3. chunk' \in 1 .. limit /\ chunk' <= ChunkLimit
  BY <1>1 DEF IInv, Types, Refused, CallSize, Least
<1>4. Types'
  BY <1>1, <1>2, <1>3 DEF IInv, Types, Refused
<1>5. Progress'
  <2>1. pos + count = wanted /\ lba = first + pos /\ count > 0
    BY DEF IInv, Progress
  <2>2. \A i \in 0 .. pos - 1 : buf'[i] = first + i
    BY <1>1, <2>1 DEF IInv, Types, Progress, Slots
  <2>3. count \in Nat /\ chunk' \in Nat \ {0}
    BY <1>3 DEF IInv, Types
  <2>4. CallSize' > 0
    BY <2>1, <2>3 DEF Refused, CallSize, Least
  <2>5. pos \in Nat /\ (mode = "lba" => done = 0)
    BY DEF IInv, Types, Progress
  <2> QED BY <2>1, <2>2, <2>4, <2>5 DEF Progress, Refused
<1>6. Untouched'
  BY <1>1 DEF IInv, Types, Progress, Untouched, Slots
<1> QED BY <1>4, <1>5, <1>6 DEF IInv

(* A call that succeeded has put its sectors behind the ones before it. *)
LEMMA SucceedStep ==
    ASSUME IInv, result = "busy", Succeed(CallSize),
           UNCHANGED <<kind, mode, limit, first, wanted>>,
           buf' \in [Slots -> Int],
           \A i \in 0 .. pos + CallSize - 1 : buf'[i] = first + i,
           \A i \in Slots : i >= pos + CallSize => buf'[i] = buf[i]
    PROVE  IInv'
<1>1. CallSize \in 1 .. count
  BY CallInRange
<1>2. again' \in BOOLEAN
  BY ZenonT(60) DEF Succeed
<1>3. Types'
  BY <1>1, <1>2 DEF IInv, Types, Progress, Succeed
<1>4. Progress'
  <2>1. pos + count = wanted /\ lba = first + pos
    BY DEF IInv, Progress
  <2>2. count' \in Nat /\ chunk' \in Nat \ {0} /\ pos \in Nat /\ count \in Nat /\ first \in Nat
    BY <1>3 DEF IInv, Types
  <2>3. result' = "busy" => CallSize' > 0
    BY <2>2 DEF Succeed, CallSize, Least
  <2> QED BY <1>1, <2>1, <2>2, <2>3 DEF Progress, Succeed
<1>5. Untouched'
  BY <1>1 DEF IInv, Types, Progress, Untouched, Slots
<1> QED BY <1>3, <1>4, <1>5 DEF IInv

(* One extended INT 13h call keeps the invariant, whether it is refused or *)
(* succeeds.                                                               *)
LEMMA ReadLbaStep == IInv /\ ReadLba => IInv'
<1> SUFFICES ASSUME IInv, ReadLba PROVE IInv'
  OBVIOUS
<1>0. /\ first \in Nat /\ wanted \in 0 .. MaxCount /\ lba \in Nat /\ count \in 0 .. MaxCount
      /\ pos \in 0 .. MaxCount /\ done \in 0 .. MaxCount /\ buf \in [Slots -> Int]
  BY Numbers
<1>1. CallSize \in 1 .. count /\ result = "busy" /\ done = 0 /\ lba = first + pos /\ pos + count = wanted
  BY Running DEF ReadLba
<1>r. \A i \in 0 .. pos + done - 1 : buf[i] = first + i
  BY <1>1, Running
<1>2. CASE buf' = Deliver(pos, CallSize, lba) /\ Succeed(CallSize)
  <2>1. buf' \in [Slots -> Int]
    BY <1>1, <1>2, <1>0 DEF Deliver, Slots
  <2>2. \A i \in 0 .. pos + CallSize - 1 : buf'[i] = first + i
    BY <1>1, <1>2, <1>0, <1>r DEF Deliver, Slots
  <2>3. \A i \in Slots : i >= pos + CallSize => buf'[i] = buf[i]
    BY <1>1, <1>2, <1>0 DEF Deliver, Slots
  <2> QED BY <1>1, <1>2, <2>1, <2>2, <2>3, SucceedStep DEF ReadLba
<1>3. CASE Refused /\ UNCHANGED buf
  BY <1>1, <1>3, <1>0, RefusedStep DEF ReadLba
<1>4. CASE Refused /\ buf' = [i \in Slots |-> IF i \in pos .. pos + CallSize - 1 THEN Garbage ELSE buf[i]]
  <2>1. buf' \in [Slots -> Int] /\ \A i \in Slots : i \notin pos .. pos + CallSize - 1 => buf'[i] = buf[i]
    BY <1>4, <1>0 DEF Garbage
  <2> QED BY <1>1, <1>4, <2>1, RefusedStep DEF ReadLba
<1> QED BY <1>2, <1>3, <1>4 DEF ReadLba

(* One AH=02h call of int13_read_chs keeps the invariant: by ChsRoundTrip  *)
(* the registers name the next sector wanted, and the call stays within    *)
(* its track.                                                              *)
LEMMA ReadTrackStep == IInv /\ ReadTrack => IInv'
<1> SUFFICES ASSUME IInv, ReadTrack PROVE IInv'
  OBVIOUS
<1>0. /\ first \in Nat /\ wanted \in 0 .. MaxCount /\ lba \in Nat /\ count \in 0 .. MaxCount
      /\ pos \in 0 .. MaxCount /\ done \in 0 .. MaxCount /\ buf \in [Slots -> Int]
  BY Numbers
<1> DEFINE l == lba + done
           n == Least(CallSize - done, LeftInTrack(l))
<1>1. /\ CallSize \in 1 .. count /\ result = "busy" /\ mode = "chs"
      /\ lba = first + pos /\ pos + count = wanted /\ done \in 0 .. CallSize - 1
  <2>1. result = "busy" /\ mode = "chs"
    BY DEF ReadTrack
  <2> QED BY <2>1, <1>0, Running
<1>r. \A i \in 0 .. pos + done - 1 : buf[i] = first + i
  BY <1>1, Running
<1>2. l \in Nat /\ l = first + pos + done
  BY <1>1, <1>0
<1>3. LeftInTrack(l) \in Nat \ {0}
  BY <1>2 DEF LeftInTrack
<1>4. n \in 1 .. CallSize - done
  BY <1>1, <1>3, <1>0 DEF Least
<1>5. CASE /\ Addressable(l)
           /\ buf' = DeliverTrack(pos + done, n, Registers(l))
           /\ IF done + n = CallSize THEN Succeed(CallSize)
              ELSE done' = done + n /\ UNCHANGED <<lba, pos, count, again, result, chunk, refused>>
  <2>1. buf' = Deliver(pos + done, n, first + pos + done)
    <3>1. SectorAt(Registers(l)) = l /\ Registers(l).cl % 64 = (l % Spt) + 1
      BY <1>2, <1>5, ChsRoundTrip
    <3>2. n <= Spt - (l % Spt) /\ l % Spt \in Nat
      BY <1>2, <1>3, <1>1, <1>0 DEF Least, LeftInTrack
    <3> DEFINE r == Registers(l)
               m == l % Spt
    <3> HIDE DEF n, l, r, m
    <3>3. \A i \in Slots : i \in pos + done .. pos + done + n - 1 => (m + 1) + (i - (pos + done)) <= Spt
      BY <1>1, <1>4, <3>2, <1>0 DEF Slots, m
    <3>4. buf' = DeliverTrack(pos + done, n, r)
      BY <1>5 DEF r
    <3>5. SectorAt(r) = first + pos + done /\ r.cl % 64 = m + 1
      BY <1>2, <3>1 DEF r, m
    <3> QED BY <3>3, <3>4, <3>5 DEF Deliver, DeliverTrack
  <2> HIDE DEF n, l
  <2>2. buf' \in [Slots -> Int]
    BY <1>1, <1>4, <2>1, <1>0 DEF Deliver, Slots
  <2>3. \A i \in 0 .. pos + done + n - 1 : buf'[i] = first + i
    BY <1>1, <1>4, <2>1, <1>0, <1>r DEF Deliver, Slots
  <2>4. \A i \in Slots : i >= pos + done + n => buf'[i] = buf[i]
    BY <1>1, <1>4, <2>1, <1>0 DEF Deliver, Slots
  <2>5. CASE done + n = CallSize /\ Succeed(CallSize)
    <3>1. pos + done + n = pos + CallSize
      BY <1>1, <1>4, <2>5, <1>0
    <3>2. UNCHANGED <<kind, mode, limit, first, wanted>>
      BY DEF ReadTrack
    <3>3. \A i \in 0 .. pos + CallSize - 1 : buf'[i] = first + i
      BY <1>1, <1>4, <2>3, <3>1, <1>0
    <3>4. \A i \in Slots : i >= pos + CallSize => buf'[i] = buf[i]
      BY <2>4, <3>1
    <3> QED BY <1>1, <2>2, <2>5, <3>2, <3>3, <3>4, SucceedStep
  <2>6. CASE /\ done + n # CallSize /\ done' = done + n
             /\ UNCHANGED <<lba, pos, count, again, result, chunk, refused>>
    <3>1. again' \in BOOLEAN
      BY <2>6, ZenonT(60) DEF IInv, Types
    <3>2. CallSize' = CallSize
      BY <2>6 DEF CallSize
    <3>3. done + n < CallSize /\ done + n \in 0 .. MaxCount
      BY <1>1, <1>4, <2>6, <1>0
    <3>4. Types'
      BY <2>2, <2>6, <3>1, <3>3 DEF IInv, Types, ReadTrack
    <3>5. Progress'
      <4>1. UNCHANGED <<mode, first, wanted, lba, pos, count, result>> /\ done' = done + n
        BY <2>6 DEF ReadTrack
      <4>2. \A i \in 0 .. pos' + done' - 1 : buf'[i] = first' + i
        <5>1. pos' + done' - 1 = pos + done + n - 1
          BY <1>1, <1>4, <4>1, <1>0
        <5> QED BY <2>3, <4>1, <5>1
      <4> QED BY <1>1, <3>2, <3>3, <4>1, <4>2 DEF IInv, Progress
    <3>6. Untouched'
      <4>1. wanted \in Nat /\ pos + done + n <= wanted /\ UNCHANGED wanted
        BY <1>1, <1>4, <1>0 DEF ReadTrack
      <4>2. \A i \in Slots : i \in Int
        BY DEF Slots
      <4>3. pos \in Int /\ done \in Int /\ n \in Int
        BY <1>4, <1>0
      <4> QED BY <1>1, <2>4, <4>1, <4>2, <4>3, Running DEF Untouched
    <3> QED BY <3>4, <3>5, <3>6 DEF IInv
  <2>7. IF done + n = CallSize THEN Succeed(CallSize)
        ELSE done' = done + n /\ UNCHANGED <<lba, pos, count, again, result, chunk, refused>>
    BY <1>5
  <2> QED BY <2>5, <2>6, <2>7
<1>6. CASE Refused /\ UNCHANGED buf
  BY <1>1, <1>6, <1>0, RefusedStep DEF ReadTrack
<1> QED BY <1>5, <1>6 DEF ReadTrack

(* The request under way is always partly, and only partly, in place. *)
LEMMA Invariance == ReadSpec => []IInv
<1>1. IInv /\ [ReadNext]_readVars => IInv'
  <2> SUFFICES ASSUME IInv, [ReadNext]_readVars PROVE IInv'
    OBVIOUS
  <2>1. CASE ReadNext
    BY <2>1, SetChunkStep, SelectStep, RequestStep, ReadLbaStep, ReadTrackStep DEF ReadNext, Call
  <2>2. CASE UNCHANGED readVars
    <3>1. again' \in BOOLEAN
      BY <2>2, ZenonT(60) DEF IInv, Types, readVars
    <3> QED BY <2>2, <3>1 DEF IInv, Types, Progress, Untouched, CallSize, readVars
  <2> QED BY <2>1, <2>2
<1> QED BY InitHolds, <1>1, PTL DEF ReadSpec

(* disk_read_lba: success means every sector in its place, nothing behind  *)
(* the request's buffer is ever touched.                                   *)
THEOREM ReadExact == ReadSpec => []ReadIsExact
<1>1. IInv => ReadIsExact
  BY DEF IInv, Types, Progress, Untouched, ReadIsExact
<1> QED BY <1>1, Invariance, PTL

(* disk_set_chunk, disk_select and the halving keep every call within the  *)
(* drive's interface.                                                      *)
THEOREM CallsWithinInterface == ReadSpec => []WithinInterface
<1>1. IInv => WithinInterface
  BY DEF IInv, Types, WithinInterface
<1> QED BY <1>1, Invariance, PTL
-----------------------------------------------------------------------------
(* How often the sector at lba was refused on its own: never, once when    *)
(* the call under way is its last retry, twice when the request failed.    *)
Retries ==
    /\ result = "busy" => refused = IF again THEN 1 ELSE 0
    /\ result = "error" => refused = 2
    /\ result \in {"none", "ok"} => refused = 0

(* A refused call counts one more refusal of a single sector, or halves.   *)
LEMMA RefusedCounts == IInv /\ Retries /\ result = "busy" /\ Refused => Retries'
<1> SUFFICES ASSUME IInv, Retries, result = "busy", Refused PROVE Retries'
  OBVIOUS
<1>1. CallSize \in Nat /\ CallSize >= 1 /\ (again => CallSize = 1)
  BY CallInRange DEF IInv, Types, CallSize
<1>2. again \in BOOLEAN
  BY DEF IInv, Types
<1> QED BY <1>1, <1>2 DEF Retries, Refused

(* A call that succeeded starts the count anew. *)
LEMMA SucceedCounts == ASSUME NEW n, Succeed(n) PROVE Retries'
BY DEF Retries, Succeed

(* Every step of disk_read_lba keeps the count of refusals. *)
LEMMA RetriesStep == IInv /\ Retries /\ [ReadNext]_readVars => Retries'
<1> SUFFICES ASSUME IInv, Retries, [ReadNext]_readVars PROVE Retries'
  OBVIOUS
<1>1. ASSUME UNCHANGED <<again, result, refused>> PROVE Retries'
  BY <1>1 DEF Retries
<1>2. ASSUME NEW n \in 0 .. ChunkLimit + 1, SetChunk(n) PROVE Retries'
  BY <1>1, <1>2 DEF SetChunk, request
<1>3. ASSUME NEW k \in Kinds, Select(k) PROVE Retries'
  BY <1>1, <1>3 DEF Select, request
<1>4. ASSUME NEW l \in Lbas, NEW c \in 0 .. MaxCount, Request(l, c) PROVE Retries'
  BY <1>4 DEF Request, Retries
<1>5. CASE ReadLba
  BY <1>5, RefusedCounts, SucceedCounts DEF ReadLba
<1>6. CASE ReadTrack
  BY <1>1, <1>6, RefusedCounts, SucceedCounts DEF ReadTrack
<1>7. CASE UNCHANGED readVars
  BY <1>1, <1>7 DEF readVars
<1> QED BY <1>2, <1>3, <1>4, <1>5, <1>6, <1>7 DEF ReadNext, Call

(* The count of refusals is exact in every behaviour. *)
LEMMA RetriesInvariant == ReadSpec => []Retries
<1>1. ReadInit => Retries
  BY DEF ReadInit, Retries
<1> QED BY <1>1, RetriesStep, Invariance, PTL DEF ReadSpec

(* disk_read_lba gives up only on a sector that the BIOS refused twice in  *)
(* a row when asked for that sector alone, however the request was halved. *)
THEOREM FailureIsFinal == ReadSpec => []FinalAfterTwo
<1>1. Retries => FinalAfterTwo
  BY DEF Retries, FinalAfterTwo
<1> QED BY <1>1, RetriesInvariant, PTL
=============================================================================
