------------------------------ MODULE EspMount ------------------------------
(***************************************************************************)
(* How a command of the management tool mounts the ESPs and lets go of     *)
(* them: MountESP and the lookup in /proc/self/mounts (bootenv.go), the    *)
(* scan that mounts every ESP read-only for a moment (espset.go), attach   *)
(* and host.cleanup (mirror.go), and the cleanup that main(), die() and    *)
(* the signal handler share (main.go).  Several runs of the tool may go on *)
(* at once, and each is two goroutines: the command and the handler.       *)
(***************************************************************************)
EXTENDS Integers, Sequences

CONSTANTS Procs,      \* the runs of the tool
          NDevs,      \* the FAT volumes 1 .. NDevs, as /proc/partitions lists them
          Jobs,       \* the commands they may be
          Signalled,  \* the runs a signal may reach
          Shared,     \* mountpoints of others, /boot/efi for one
          Found,      \* the mount tables there may be when the first run starts
          None        \* no mountpoint, nobody

Goroutines == {"main", "handler"}
Devs == 1 .. NDevs
Private == [by : Procs, dev : Devs, use : {"scan", "member"}]

(* A command scans the volumes, attaches what it found, registers the      *)
(* cleanup, attaches the ESP of --add-esp: each at most once, and in an    *)
(* order of its own.  Then it works.                                       *)
Steps == {"scan", "attach", "register", "add", "work"}
Orders == {s \in Seq(Steps) : /\ s # <<>> /\ s[Len(s)] = "work"
                              /\ \A i, k \in DOMAIN s : s[i] = s[k] => i = k}

ASSUME DevsAssumption == NDevs \in Nat
ASSUME JobsAssumption ==
    Jobs \subseteq [Procs -> [readonly : BOOLEAN, added : Devs \union {0}, phases : Orders]]
ASSUME FoundAssumption == Found \subseteq Seq([dev : Devs, at : Shared, rw : BOOLEAN])
ASSUME NamesAssumption ==
    /\ Shared \intersect Private = {}
    /\ None \notin Shared \union Private \union Goroutines

VARIABLES mounts,     \* /proc/self/mounts: a sequence of [dev, at, rw]
          job,        \* the command of each run
          phase,      \* the phases of it that are left
          todo,       \* the volumes the phase has still to go through
          seen,       \* what the lookup for it returned, or None
          probe,      \* the mountpoint the scan reads it at, or None
          member,     \* the mountpoint of each attached ESP, or None
          cleanups,   \* h.cleanups: the mountpoints this run mounted
          active,     \* activeCleanup # nil
          mu,         \* who holds activeCleanupMu
          pos,        \* how far each goroutine is in host.cleanup, 0: not in it
          handler,    \* where the signal handler is
          open,       \* the mountpoint under which the command has a file open
          registered, \* history: the mounts a registered cleanup answers for
          busy        \* history: the mountpoints whose unmount said EBUSY

mountVars == <<mounts, job, phase, todo, seen, probe, member, cleanups, active, mu,
          pos, handler, open, registered, busy>>
commandVars == <<job, phase, todo, seen, probe, member, open>>
cleanupVars == <<cleanups, active, mu, pos, handler, registered, busy>>

(* The volumes a phase goes through: the scan all of them, attach those of *)
(* the set, add the one of --add-esp, the work all that may be members.    *)
Volumes(j, what) ==
    {d \in Devs : \/ what \in {"scan", "work"}
                  \/ what = "attach" /\ d # j.added
                  \/ what = "add" /\ d = j.added}

MountInit ==
    /\ mounts \in Found
    /\ job \in Jobs
    /\ phase = [p \in Procs |-> job[p].phases]
    /\ todo = [p \in Procs |-> Volumes(job[p], Head(job[p].phases))]
    /\ seen = [p \in Procs |-> None]
    /\ probe = [p \in Procs |-> None]
    /\ member = [p \in Procs |-> [d \in Devs |-> None]]
    /\ cleanups = [p \in Procs |-> <<>>]
    /\ active = [p \in Procs |-> FALSE]
    /\ mu = [p \in Procs |-> None]
    /\ pos = [p \in Procs |-> [g \in Goroutines |-> 0]]
    /\ handler = [p \in Procs |-> "waiting"]
    /\ open = [p \in Procs |-> None]
    /\ registered = {}
    /\ busy = {}

Elements(s) == {s[i] : i \in DOMAIN s}
At(p, what) == phase[p] # <<>> /\ Head(phase[p]) = what
Exited(p) == At(p, "exited")
Foremost(p, d) == d \in todo[p] /\ \A e \in todo[p] : d <= e
MountedAt(at) == \E i \in DOMAIN mounts : mounts[i].at = at
-----------------------------------------------------------------------------
(* mount(2) and umount(2), as MountESP uses them: a second mount of a      *)
(* device shares its superblock, which is read-only or not for all of      *)
(* them; an unmount is refused while a file is open below the mountpoint,  *)
(* and fails where nothing is mounted.                                     *)
CanMount(dev, rw) == \A i \in DOMAIN mounts : mounts[i].dev = dev => mounts[i].rw = rw
InUse(at) == \E p \in Procs : open[p] = at
Without(i) == [n \in 1 .. Len(mounts) - 1 |-> mounts[IF n < i THEN n ELSE n + 1]]
Unmounted(at) == IF MountedAt(at) THEN Without(CHOOSE i \in DOMAIN mounts : mounts[i].at = at) ELSE mounts

(* The first line of /proc/self/mounts that names the device. *)
ParseExistingMount(dev, i) ==
    /\ i \in DOMAIN mounts /\ mounts[i].dev = dev
    /\ \A k \in 1 .. i - 1 : mounts[k].dev # dev

FindExistingMount(dev) ==
    IF \A i \in DOMAIN mounts : mounts[i].dev # dev THEN [ok |-> FALSE]
    ELSE LET i == CHOOSE i \in DOMAIN mounts : ParseExistingMount(dev, i)
         IN  [ok |-> TRUE, at |-> mounts[i].at, rw |-> mounts[i].rw]

(* os.MkdirTemp: a directory nobody has. *)
MkdirTemp(p, dev, use) == [by |-> p, dev |-> dev, use |-> use]

(* MountESP after its lookup: reuse the mount that was found, refuse it,   *)
(* or mount the device in a directory of its own.  Another run may have    *)
(* mounted or unmounted in between.  own: there is something to clean up.  *)
MountESP(p, dev, readonly, found, use) ==
    IF found.ok
      THEN [err |-> ~readonly /\ ~found.rw, at |-> found.at, own |-> FALSE]
      ELSE [err |-> ~CanMount(dev, ~readonly), at |-> MkdirTemp(p, dev, use), own |-> TRUE]

Mounted(dev, readonly, m) ==
    IF m.own /\ ~m.err THEN Append(mounts, [dev |-> dev, at |-> m.at, rw |-> ~readonly]) ELSE mounts

Mounting(p) == At(p, "scan") \/ At(p, "attach") \/ At(p, "add")

(* findExistingMount: the first of the two system calls of MountESP. *)
Lookup(p) ==
    /\ Mounting(p) /\ seen[p] = None /\ probe[p] = None
    /\ \E dev \in Devs : Foremost(p, dev) /\ seen' = [seen EXCEPT ![p] = FindExistingMount(dev)]
    /\ UNCHANGED <<mounts, job, phase, todo, probe, member, open, cleanupVars>>

(* probeESPFiles: the volume is read through a read-only mount, which its  *)
(* deferred cleanup unmounts at once (Unprobe).                            *)
Probe(p) ==
    /\ At(p, "scan") /\ seen[p] # None
    /\ \E dev \in Devs :
       LET m == MountESP(p, dev, TRUE, seen[p], "scan") IN
       /\ Foremost(p, dev)
       /\ mounts' = Mounted(dev, TRUE, m)
       /\ IF ~m.err /\ m.own
            THEN probe' = [probe EXCEPT ![p] = m.at] /\ UNCHANGED todo
            ELSE todo' = [todo EXCEPT ![p] = @ \ {dev}] /\ UNCHANGED probe
    /\ seen' = [seen EXCEPT ![p] = None]
    /\ UNCHANGED <<job, phase, member, open, cleanupVars>>

Unprobe(p) ==
    /\ probe[p] # None /\ ~Exited(p)
    /\ IF InUse(probe[p]) THEN busy' = busy \union {probe[p]} /\ UNCHANGED mounts
                          ELSE mounts' = Unmounted(probe[p]) /\ UNCHANGED busy
    /\ probe' = [probe EXCEPT ![p] = None]
    /\ todo' = [todo EXCEPT ![p] = @ \ {probe[p].dev}]
    /\ UNCHANGED <<job, phase, seen, member, open, cleanups, active, mu, pos, handler, registered>>

(* A mount comes in time for the registered cleanup unless the handler is  *)
(* already at it, or through with it and about to exit: what h.cleanups is *)
(* given then, nobody looks at.                                            *)
InTime(p) == mu[p] = None /\ handler[p] # "exit"

(* attach, for the members of the set and for the ESPs of --add-esp: an    *)
(* ESP that cannot be mounted is passed over (mountErr).                   *)
Attach(p) ==
    /\ At(p, "attach") \/ At(p, "add")
    /\ seen[p] # None
    /\ \E dev \in Devs :
       LET readonly == job[p].readonly
           m == MountESP(p, dev, readonly, seen[p], "member")
       IN /\ Foremost(p, dev)
          /\ IF m.err
               THEN UNCHANGED <<mounts, member, cleanups, registered>>
               ELSE /\ mounts' = Mounted(dev, readonly, m)
                    /\ member' = [member EXCEPT ![p][dev] = m.at]
                    /\ cleanups' = IF m.own THEN [cleanups EXCEPT ![p] = Append(@, m.at)] ELSE cleanups
                    /\ registered' = IF m.own /\ active[p] /\ InTime(p)
                                       THEN registered \union {m.at} ELSE registered
          /\ todo' = [todo EXCEPT ![p] = @ \ {dev}]
    /\ seen' = [seen EXCEPT ![p] = None]
    /\ UNCHANGED <<job, phase, probe, open, active, mu, pos, handler, busy>>

(* A lock that is not given back. *)
RegisterLocked(p) ==
    /\ At(p, "register") /\ mu[p] = None
    /\ active' = [active EXCEPT ![p] = TRUE]
    /\ registered' = IF InTime(p) THEN registered \union Elements(cleanups[p]) ELSE registered
    /\ mu' = [mu EXCEPT ![p] = "main"]
    /\ UNCHANGED <<cleanups, pos, handler, busy>>

(* withCleanup, under the lock. *)
Register(p) ==
    /\ At(p, "register") /\ mu[p] = None
    /\ active' = [active EXCEPT ![p] = TRUE]
    /\ registered' = IF InTime(p) THEN registered \union Elements(cleanups[p]) ELSE registered
    /\ UNCHANGED <<cleanups, mu, pos, handler, busy>>

WithCleanup(p) ==
    /\ Register(p)
    /\ phase' = [phase EXCEPT ![p] = Tail(@)]
    /\ todo' = [todo EXCEPT ![p] = Volumes(job[p], phase[p][2])]
    /\ UNCHANGED <<mounts, job, seen, probe, member, open>>

(* The work on a member: a file below its mountpoint is opened, read or    *)
(* written, and closed.  A member that was not mounted is passed over.     *)
OpenFile(p) ==
    /\ At(p, "work") /\ open[p] = None
    /\ \E dev \in Devs :
       /\ Foremost(p, dev)
       /\ IF member[p][dev] = None
            THEN todo' = [todo EXCEPT ![p] = @ \ {dev}] /\ UNCHANGED open
            ELSE open' = [open EXCEPT ![p] = member[p][dev]] /\ UNCHANGED todo
    /\ UNCHANGED <<mounts, job, phase, seen, probe, member, cleanupVars>>

CloseFile(p) ==
    /\ At(p, "work") /\ open[p] # None
    /\ open' = [open EXCEPT ![p] = None]
    /\ \E dev \in Devs : Foremost(p, dev) /\ todo' = [todo EXCEPT ![p] = @ \ {dev}]
    /\ UNCHANGED <<mounts, job, phase, seen, probe, member, cleanupVars>>

(* The command goes on to its next phase when it is through the volumes of *)
(* this one.                                                               *)
NextPhase(p) ==
    /\ Mounting(p) /\ todo[p] = {}
    /\ phase' = [phase EXCEPT ![p] = Tail(@)]
    /\ todo' = [todo EXCEPT ![p] = Volumes(job[p], phase[p][2])]
    /\ UNCHANGED <<mounts, job, seen, probe, member, open, cleanupVars>>

Deferred(p) == "register" \notin Elements(phase[p])

(* It returns, at the end of its work or with an error before (no set, a   *)
(* refusal, a failed step, die): not between attach and withCleanup.  The  *)
(* deferred cleanup runs only where withCleanup came before.               *)
Return(p) ==
    /\ \/ At(p, "scan") /\ todo[p] = {}
       \/ (At(p, "attach") \/ At(p, "add")) /\ seen[p] = None /\ Deferred(p)
       \/ At(p, "work") /\ open[p] = None
    /\ phase' = [phase EXCEPT ![p] = IF Deferred(p) THEN <<"return", "exit">> ELSE <<"exit">>]
    /\ todo' = [todo EXCEPT ![p] = {}]
    /\ UNCHANGED <<mounts, job, seen, probe, member, open, cleanupVars>>
-----------------------------------------------------------------------------
(* runActiveCleanup, by the command's return or die and by the handler:    *)
(* the lock is held from the test of activeCleanup until it is cleared.    *)
Waits(p, g) == IF g = "main" THEN At(p, "return") ELSE handler[p] = "woken" /\ ~Exited(p)
Leaves(p, g) == IF g = "main" THEN phase' = [phase EXCEPT ![p] = Tail(@)] /\ UNCHANGED handler
                              ELSE handler' = [handler EXCEPT ![p] = "exit"] /\ UNCHANGED phase

(* A lock for the pointer alone. *)
TakeNoLock(p, g) ==
    /\ mu[p] = None /\ pos[p][g] = 0
    /\ UNCHANGED mu

TakeLock(p, g) ==
    /\ mu[p] = None /\ pos[p][g] = 0
    /\ mu' = [mu EXCEPT ![p] = g]

RunActiveCleanup(p, g) ==
    /\ Waits(p, g)
    /\ TakeLock(p, g)
    /\ pos' = [pos EXCEPT ![p][g] = IF active[p] THEN Len(cleanups[p]) + 1 ELSE 1]
    /\ UNCHANGED <<mounts, commandVars, cleanups, active, handler, registered, busy>>

(* A cleanup that stops at the first mount it cannot undo. *)
CleanupGivesUp(p, g) ==
    /\ pos[p][g] > 1 /\ Waits(p, g)
    /\ LET at == cleanups[p][pos[p][g] - 1] IN
       IF InUse(at) THEN /\ busy' = busy \union {at}
                         /\ pos' = [pos EXCEPT ![p][g] = 1]
                         /\ UNCHANGED mounts
                    ELSE /\ mounts' = Unmounted(at)
                         /\ pos' = [pos EXCEPT ![p][g] = @ - 1]
                         /\ UNCHANGED busy
    /\ UNCHANGED <<commandVars, cleanups, active, mu, handler, registered>>

(* host.cleanup: the mounts of this run, the last one first.  Where the    *)
(* unmount fails a warning says so, and the next one is tried.             *)
Cleanup(p, g) ==
    /\ pos[p][g] > 1 /\ Waits(p, g)
    /\ LET at == cleanups[p][pos[p][g] - 1] IN
       IF InUse(at) THEN busy' = busy \union {at} /\ UNCHANGED mounts
                    ELSE mounts' = Unmounted(at) /\ UNCHANGED busy
    /\ pos' = [pos EXCEPT ![p][g] = @ - 1]
    /\ UNCHANGED <<commandVars, cleanups, active, mu, handler, registered>>

CleanupDone(p, g) ==
    /\ pos[p][g] = 1 /\ Waits(p, g)
    /\ cleanups' = IF active[p] THEN [cleanups EXCEPT ![p] = <<>>] ELSE cleanups
    /\ active' = [active EXCEPT ![p] = FALSE]
    /\ mu' = [mu EXCEPT ![p] = None]
    /\ pos' = [pos EXCEPT ![p][g] = 0]
    /\ Leaves(p, g)
    /\ UNCHANGED <<mounts, job, todo, seen, probe, member, open, registered, busy>>

(* SIGINT, SIGTERM or SIGHUP wakes the handler, once, at any time. *)
Signal(p) ==
    /\ p \in Signalled /\ handler[p] = "waiting" /\ ~Exited(p)
    /\ handler' = [handler EXCEPT ![p] = "woken"]
    /\ UNCHANGED <<mounts, commandVars, cleanups, active, mu, pos, registered, busy>>

(* os.Exit, by either goroutine: the other one is gone with its files. *)
Exit(p, g) ==
    /\ IF g = "main" THEN At(p, "exit") ELSE handler[p] = "exit" /\ ~Exited(p)
    /\ phase' = [phase EXCEPT ![p] = <<"exited">>]
    /\ open' = [open EXCEPT ![p] = None]
    /\ UNCHANGED <<mounts, job, todo, seen, probe, member, cleanupVars>>

CommandStep(p) ==
    \/ Lookup(p) \/ Probe(p) \/ Unprobe(p) \/ Attach(p) \/ WithCleanup(p)
    \/ OpenFile(p) \/ CloseFile(p) \/ NextPhase(p) \/ Return(p)

CleanupStep(p, g) ==
    RunActiveCleanup(p, g) \/ Cleanup(p, g) \/ CleanupDone(p, g) \/ Exit(p, g)

MountNext == \E p \in Procs :
    CommandStep(p) \/ Signal(p) \/ \E g \in Goroutines : CleanupStep(p, g)

MountSpec == MountInit /\ [][MountNext]_mountVars

(* The goroutines are scheduled; a command may wait for ever for an answer *)
(* to its prompt, or for a download, so only its way out is fair.          *)
FairMountSpec ==
    MountSpec /\ \A p \in Procs, g \in Goroutines : WF_mountVars(CleanupStep(p, g))
-----------------------------------------------------------------------------
(* "a handler and a Run closure's own deferred cleanup both calling        *)
(* MountESP's cleanup (the second unmount(2) then fails and prints a       *)
(* 'remains mounted' warning about a mount that's actually already gone)"  *)
(* (main.go): whoever runs host.cleanup, each unmount it still has to make *)
(* is of a mount of this very run that is there.  So no mount is undone    *)
(* twice, and none that MountESP only reused, /boot/efi or another run's.  *)
UnmountsOwnOnce ==
    \A p \in Procs, g \in Goroutines : \A i \in 1 .. pos[p][g] - 1 :
        cleanups[p][i].by = p /\ MountedAt(cleanups[p][i])

(* "cleanup runs at most once across die(), the signal handler, and the    *)
(* defer, and a caller that arrives while another is running blocks until  *)
(* it finishes" (main.go): when a run is gone, by whichever way, every     *)
(* mount its registered cleanup answered for is undone, unless a file was  *)
(* open below it when its turn came.                                       *)
RegisteredAreUndone ==
    \A at \in registered : Exited(at.by) => ~MountedAt(at) \/ at \in busy

(* A signal ends the run, although the handler waits for a lock the command *)
(* may hold, and although a mount may be busy: "Safe from deadlock only     *)
(* because no cleanup ever calls back into runActiveCleanup/die" (main.go). *)
SignalEnds == \A p \in Procs : handler[p] = "woken" ~> Exited(p)
=============================================================================
