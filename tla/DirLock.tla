------------------------------- MODULE DirLock -------------------------------
(***************************************************************************)
(* The lock directory of the initramfs scripts: boot_lock_acquire and      *)
(* release_boot_lock in init/boot-dataset.sh, zfs_op_lock, zfs_op_unlock   *)
(* and zfs_op_lock_retry in init/zfs-unlock.sh (the same protocol).  A     *)
(* lock is a directory with the owner's pid in a file.  A directory whose  *)
(* owner is dead, or that has no pid after a bounded poll, is moved aside, *)
(* looked at again, removed and created anew.  Every shell command is one  *)
(* step, and every command names the directory by its path.                *)
(***************************************************************************)
EXTENDS Naturals, FiniteSets

CONSTANTS Procs,         \* processes that want the lock
          Gone,          \* the pid of a process that died before the first step
          NoPid,         \* what `cat pid` prints when there is no pid file
          None,          \* no directory
          InitialPids,   \* pids an abandoned directory may hold at the start
          Attempts,      \* tries per process: 1, or those of zfs_op_lock_retry
          Polls,         \* reads of an empty pid file before it is given up
          MaxKills,      \* bound on SIGKILLs
          PollOutlasts   \* a sleep of the poll lasts longer than any short command sequence

\* A directory: its pid file, and whether another directory was moved into it.
Dirs == [pid : Procs \cup {Gone, NoPid}, nested : BOOLEAN]

ASSUME BoundsAssumption ==
    /\ Attempts \in Nat \ {0} /\ Polls \in Nat \ {0} /\ MaxKills \in Nat
    /\ PollOutlasts \in BOOLEAN
ASSUME PidsAssumption ==
    /\ InitialPids \subseteq {Gone, NoPid}
    /\ Procs \cap {Gone, NoPid, None} = {} /\ Gone # NoPid /\ None \notin {Gone, NoPid}
    /\ None \notin Dirs

VARIABLES dir,       \* the directory at the lock's path, or None
          aside,     \* aside[p]: the directory at <lock>.stale.<p>, or None
          pc,        \* the next command of each process
          lockPid,   \* $lock_pid
          polls,     \* $_i, the reads done so far
          tries,     \* attempts begun
          waiting,   \* waiting[p]: processes in a short sequence since p's last read
          found,     \* history: the directory as the first caller finds it
          entered,   \* history: processes that once held the lock
          kills

lockVars == <<dir, aside, pc, lockPid, polls, tries, waiting, found, entered, kills>>

NewDir == [pid |-> NoPid, nested |-> FALSE]

\* The commands between which a live process leaves the directory without its
\* pid, or moved aside: no sleep, only a few system calls.
Short == {"writePid", "peek", "check", "back", "rm", "mkdirAgain", "rmdir"}
LockInit ==
    /\ dir \in {None} \cup [pid : InitialPids, nested : {FALSE}]
    /\ aside = [p \in Procs |-> None]
    /\ pc = [p \in Procs |-> "mkdir"]
    /\ lockPid = [p \in Procs |-> NoPid]
    /\ polls = [p \in Procs |-> 0]
    /\ tries = [p \in Procs |-> 1]
    /\ waiting = [p \in Procs |-> {}]
    /\ found = dir
    /\ entered = {}
    /\ kills = 0

PidIn(d) == IF d = None THEN NoPid ELSE d.pid
Alive(p) == p \in Procs /\ pc[p] # "dead"

(* p goes on with command c; whoever polls need not wait for p once it is  *)
(* out of a short sequence.                                                *)
Goto(p, c) ==
    /\ pc' = [pc EXCEPT ![p] = c]
    /\ waiting' = [q \in Procs |-> IF c \in Short THEN waiting[q] ELSE waiting[q] \ {p}]

(* `return 1`: zfs_op_lock_retry tries again, the boot lock does not. *)
ReturnFailure(p) ==
    IF tries[p] < Attempts
    THEN Goto(p, "mkdir") /\ tries' = [tries EXCEPT ![p] = @ + 1]
    ELSE Goto(p, "lost") /\ UNCHANGED tries
-----------------------------------------------------------------------------
Mkdir(p) ==
    /\ pc[p] = "mkdir"
    /\ IF dir = None THEN dir' = NewDir /\ Goto(p, "writePid")
                     ELSE UNCHANGED dir /\ Goto(p, "read")
    /\ UNCHANGED <<aside, lockPid, polls, tries, entered, kills, found>>

(* echo $$ > pid, whose failure is ignored, then held=1. *)
WritePid(p) ==
    /\ pc[p] = "writePid"
    /\ dir' = IF dir = None THEN None ELSE [dir EXCEPT !.pid = p]
    /\ entered' = entered \cup {p}
    /\ Goto(p, "held")
    /\ UNCHANGED <<aside, lockPid, polls, tries, kills, found>>

(* Mutant: no poll, a directory without a pid is left alone. *)
ReadPidOnly(p) ==
    /\ pc[p] = "read"
    /\ lockPid' = [lockPid EXCEPT ![p] = PidIn(dir)]
    /\ IF PidIn(dir) = NoPid THEN ReturnFailure(p)
       ELSE Goto(p, "judge") /\ UNCHANGED tries
    /\ UNCHANGED <<dir, aside, polls, entered, kills, found>>

ReadPid(p) ==
    /\ pc[p] = "read"
    /\ lockPid' = [lockPid EXCEPT ![p] = PidIn(dir)]
    /\ polls' = [polls EXCEPT ![p] = 0]
    /\ pc' = [pc EXCEPT ![p] = IF PidIn(dir) = NoPid THEN "poll" ELSE "judge"]
    /\ waiting' = [waiting EXCEPT ![p] = {q \in Procs : pc[q] \in Short}]
    /\ UNCHANGED <<dir, aside, tries, entered, kills, found>>

(* sleep 0.05.  With PollOutlasts it lasts longer than the few system      *)
(* calls another process has left in its short sequence.                   *)
Sleep(p) ==
    /\ PollOutlasts => waiting[p] = {}
    /\ waiting' = [waiting EXCEPT ![p] = {q \in Procs : pc[q] \in Short}]

(* sleep 0.05 and read again, up to Polls times.  A pid that appears ends  *)
(* the attempt.                                                            *)
Poll(p) ==
    /\ pc[p] = "poll" /\ polls[p] < Polls
    /\ polls' = [polls EXCEPT ![p] = @ + 1]
    /\ lockPid' = [lockPid EXCEPT ![p] = PidIn(dir)]
    /\ IF PidIn(dir) # NoPid
       THEN ReturnFailure(p)
       ELSE /\ Sleep(p)
            /\ pc' = [pc EXCEPT ![p] = IF polls'[p] < Polls THEN "poll" ELSE "steal"]
            /\ UNCHANGED tries
    /\ UNCHANGED <<dir, aside, entered, kills, found>>

(* _pid_alive $lock_pid *)
Judge(p) ==
    /\ pc[p] = "judge"
    /\ IF Alive(lockPid[p]) THEN ReturnFailure(p)
                            ELSE Goto(p, "steal") /\ UNCHANGED tries
    /\ UNCHANGED <<dir, aside, lockPid, polls, entered, kills, found>>

(* mv <lock> <lock>.stale.$$ *)
Steal(p) ==
    /\ pc[p] = "steal"
    /\ IF dir = None
       THEN ReturnFailure(p) /\ UNCHANGED <<dir, aside>>
       ELSE /\ aside' = [aside EXCEPT ![p] = dir]
            /\ dir' = None
            /\ Goto(p, "peek") /\ UNCHANGED tries
    /\ UNCHANGED <<lockPid, polls, entered, kills, found>>

(* Mutant: whatever was moved aside is taken to be the dead owner's. *)
PeekNot(p) ==
    /\ pc[p] = "peek"
    /\ Goto(p, "rm")
    /\ UNCHANGED <<dir, aside, lockPid, polls, tries, entered, kills, found>>

(* moved_pid against lock_pid (empty on the poll's path): a directory that *)
(* changed owner since it was judged goes back.                            *)
Peek(p) ==
    /\ pc[p] = "peek"
    /\ Goto(p, IF PidIn(aside[p]) # lockPid[p] THEN "check" ELSE "rm")
    /\ UNCHANGED <<dir, aside, lockPid, polls, tries, entered, kills, found>>

(* [ ! -e <lock> ], else rm -rf of the one moved aside. *)
CheckFree(p) ==
    /\ pc[p] = "check"
    /\ IF dir = None THEN Goto(p, "back") /\ UNCHANGED <<aside, tries>>
                     ELSE ReturnFailure(p) /\ aside' = [aside EXCEPT ![p] = None]
    /\ UNCHANGED <<dir, lockPid, polls, entered, kills, found>>

(* mv <lock>.stale.$$ <lock>, which nests in a directory that is there. *)
MoveBack(p) ==
    /\ pc[p] = "back"
    /\ dir' = IF dir = None THEN aside[p] ELSE [dir EXCEPT !.nested = TRUE]
    /\ aside' = [aside EXCEPT ![p] = None]
    /\ ReturnFailure(p)
    /\ UNCHANGED <<lockPid, polls, entered, kills, found>>

RemoveAside(p) ==
    /\ pc[p] = "rm"
    /\ aside' = [aside EXCEPT ![p] = None]
    /\ Goto(p, "mkdirAgain")
    /\ UNCHANGED <<dir, lockPid, polls, tries, entered, kills, found>>

MkdirAgain(p) ==
    /\ pc[p] = "mkdirAgain"
    /\ IF dir = None THEN dir' = NewDir /\ Goto(p, "writePid") /\ UNCHANGED tries
                     ELSE UNCHANGED dir /\ ReturnFailure(p)
    /\ UNCHANGED <<aside, lockPid, polls, entered, kills, found>>

(* release_boot_lock, zfs_op_unlock: rm -f pid, rmdir (fails on a          *)
(* directory that is not empty), held=0.                                   *)
RemovePid(p) ==
    /\ pc[p] = "held"
    /\ dir' = IF dir = None THEN None ELSE [dir EXCEPT !.pid = NoPid]
    /\ Goto(p, "rmdir")
    /\ UNCHANGED <<aside, lockPid, polls, tries, entered, kills, found>>

Rmdir(p) ==
    /\ pc[p] = "rmdir"
    /\ dir' = IF dir = NewDir THEN None ELSE dir
    /\ Goto(p, "done")
    /\ UNCHANGED <<aside, lockPid, polls, tries, entered, kills, found>>

(* A process that gave up, or released, ends (or lives on in a shell). *)
Exit(p) ==
    /\ pc[p] \in {"lost", "done"}
    /\ Goto(p, "dead")
    /\ UNCHANGED <<dir, aside, lockPid, polls, tries, entered, kills, found>>

Kill(p) ==
    /\ pc[p] \notin {"lost", "done", "dead"}
    /\ kills < MaxKills /\ kills' = kills + 1
    /\ Goto(p, "dead")
    /\ UNCHANGED <<dir, aside, lockPid, polls, tries, entered, found>>
-----------------------------------------------------------------------------
Acquire(p) ==
    \/ Mkdir(p) \/ WritePid(p) \/ ReadPid(p) \/ Poll(p) \/ Judge(p)
    \/ Steal(p) \/ Peek(p) \/ CheckFree(p) \/ MoveBack(p) \/ RemoveAside(p) \/ MkdirAgain(p)
Release(p) == RemovePid(p) \/ Rmdir(p)

LockNext == \E p \in Procs : Acquire(p) \/ Release(p) \/ Exit(p) \/ Kill(p)

LockSpec == LockInit /\ [][LockNext]_lockVars

(* The kernel schedules every process; the holder need not release. *)
FairLockSpec == LockSpec /\ \A p \in Procs : WF_lockVars(Acquire(p))
-----------------------------------------------------------------------------
(* Only one process at a time is past the lock ("only one process may ever *)
(* proceed past this point to actually mount+kexec"), unless it was        *)
(* abandoned without a pid: two callers that both polled it out cannot     *)
(* tell the other one's fresh directory from it.                           *)
MutualExclusion ==
    \/ found # None /\ PidIn(found) = NoPid
    \/ \A p, q \in Procs : pc[p] = "held" /\ pc[q] = "held" => p = q

(* An abandoned lock, with a dead owner or with no pid, does not shut      *)
(* everyone out: some caller gets the lock, unless one is killed at it.    *)
SomeoneGetsIn == <>(entered # {} \/ kills > 0)
=============================================================================
