------------------------------ MODULE MirrorSet ------------------------------
(***************************************************************************)
(* The mirrored boot set (cmd/tool/mirror.go, cmd/tool/espcmd.go): the     *)
(* commands that write every ESP of a host - update, install, int13chunk   *)
(* and integrity, esp add, esp remove, esp adopt - one ESP after another,  *)
(* with MEMBER, the marker that carries the generation, written last.      *)
(*                                                                         *)
(* A command discovers its set with HostSelect and works from that scan    *)
(* (run.infos) to its end.  Any write may fail, a run may be killed        *)
(* between any two ESPs, and disks come and go between commands.  What is  *)
(* on one ESP is abstracted to the build of its boot chain, whether the    *)
(* payload is damaged, one operator setting (an int13chunk word), and the  *)
(* esp-uuids list of its config; the writers of a single ESP are the       *)
(* subject of BiosUpdate and UefiUpdate.                                   *)
(***************************************************************************)
EXTENDS HostSelect

CONSTANTS Uefi,          \* the firmware of the host
          Settings,      \* values of the operator setting: positive integers
          ExplicitLists, \* --esp-uuids arguments
          Hosts,         \* UUIDs -> ESP: what the disks hold to begin with
          MaxBuild,      \* bound on releases
          MaxCommands,   \* bound on commands
          MaxFaults,     \* bound on failing mounts and writes
          MaxCrashes     \* bound on killed runs

ASSUME UefiAssumption == Uefi \in BOOLEAN
ASSUME SettingsAssumption == Settings \subseteq Nat \ {0}
ASSUME DisksAssumption == IsFiniteSet(UUIDs)
\* An ESP without a boot chain has no command line, so no setting.
ASSUME HostsAssumption ==
    \A h \in Hosts :
       /\ h = [u \in UUIDs |-> h[u]]
       /\ \A u \in UUIDs : h[u].build = 0 => h[u].set = 0
       /\ \A u \in UUIDs : h[u].build \in Nat /\ h[u].marker.gen \in Nat
ASSUME MirrorBounds == MaxBuild \in Nat /\ MaxCommands \in Nat /\ MaxFaults \in Nat /\ MaxCrashes \in Nat

\* One ESP and, on BIOS, its disk.  build 0 is no boot chain, set 0 no setting.
\* damage: "seen" is a payload its CHECKSUM does not match, "hidden" a damaged one
\* whose CHECKSUM was made from it.
ESP(alpine, build, damage, set, list, marker) ==
    [alpine |-> alpine, build |-> build, damage |-> damage, set |-> set, list |-> list, marker |-> marker]

VARIABLES esp,      \* UUIDs -> ESP
          here,     \* the ESPs whose disk is attached
          primary,  \* the booted ESP, or the one mounted at /boot/efi
          latest,   \* the build of the latest release
          run,      \* the running command, or Idle
          ended,    \* history: how the last command ended
          sealed,   \* history: UUIDs -> the build its ESP held when its generation was recorded
          unordered, \* history: a command that leaves the copies' order open ran (see LeavesOpen)
          commands, faults, crashes

vars == <<esp, here, primary, latest, run, ended, sealed, unordered, commands, faults, crashes>>

-----------------------------------------------------------------------------
(* The host of a run: h.set, h.members, h.added, h.installID, h.explicitList and
   the members' outcomes. *)

Run(op, arg, force, val, phase, todo, infos, set, members, added, id, explicit, dead) ==
    [op |-> op, arg |-> arg, force |-> force, val |-> val, phase |-> phase, todo |-> todo,
     infos |-> infos, set |-> set, members |-> members, added |-> added, id |-> id,
     explicit |-> explicit, dead |-> dead, src |-> NoUUID, bad |-> {}, wrote |-> FALSE, changed |-> FALSE,
     failed |-> FALSE]
Idle == Run("none", NoUUID, FALSE, 0, "idle", {}, <<>>, Refused, {}, {}, NoId, <<>>, {})

Volume(u) ==
    [fat |-> TRUE, mounts |-> TRUE, uuid |-> u, efi |-> TRUE, alpine |-> esp[u].alpine,
     boot |-> esp[u].build # 0, keys |-> esp[u].alpine, marker |-> esp[u].marker, list |-> esp[u].list]
Scan == ScanESPs([u \in here |-> Volume(u)])

Foreign(r) == r.set.foreign
GenOf(r, u) == Generation(r.infos[u])
MaxOf(S) == CHOOSE n \in S \cup {0} : \A m \in S \cup {0} : m <= n
MaxGeneration(r) == MaxOf({GenOf(r, u) : u \in r.members \ Foreign(r)})
Sources(r) == (r.members \ r.added) \ (Foreign(r) \cup r.dead)
BestSource(r) == Best(r.infos, Sources(r), r.set.primary, r.set.list)
\* src of a run: the best source, or none
SourceOf(r) == IF Sources(r) = {} THEN {NoUUID} ELSE {BestSource(r)} \cap Sources(r)
MissingOf(r) == Missing(r.infos, r.set)
Mirrored(r) == Cardinality(r.members) > 1 \/ MissingOf(r) # {} \/ r.set.mode = "list"
Expected(r) == (r.set.expected \cup r.members) \ (IF r.op = "remove" THEN {r.arg} ELSE {})

\* A slip: another installation's ESP is written like one of ours.
UsableForeign(r, u) == u \notin r.dead
\* usable, for writing
Usable(r, u) == u \notin r.dead /\ (u \in Foreign(r) => r.force)

\* The loop order: the set's members best first, then the added ones; esp adopt marks
\* the adopted ones first.
NextOf(r) ==
    LET old == r.todo \ r.added
        new == r.todo \cap r.added
    IN IF old = {} \/ (r.op = "adopt" /\ new # {}) THEN First(new)
       ELSE Best(r.infos, old, r.set.primary, r.set.list)

\* ensureInstallID: the set's, or one no ESP carries.
FreshIds == Ids \ {esp[u].marker.id : u \in UUIDs}
InstallID(id) == IF id = NoId THEN CHOOSE i \in FreshIds : TRUE ELSE id

MarkedFor(u, id) == Decodes(esp[u].marker) /\ esp[u].marker.uuid = u /\ esp[u].marker.id = id
\* What the generations cannot order: a run that does not see the newest copy of its
\* set, and marking copies as they are found (esp adopt, esp add to unmarked members).
LeavesOpen(r) ==
    LET top == MaxOf({GenOf(r, v) : v \in r.members \ (Foreign(r) \cup r.dead)})
    IN \/ \E u \in UUIDs \ (r.members \ r.dead) :
              esp[u].marker # NoMarker /\ r.id \in {NoId, esp[u].marker.id} /\ esp[u].marker.gen > top
       \/ r.op = "adopt"
       \/ r.op = "add" /\ \E u \in r.members \ r.added : GenOf(r, u) = 0

-----------------------------------------------------------------------------
(* The phases of the commands: each is a loop over some of the members, and an empty
   one is skipped. *)

Phases(op) ==
    [update  |-> <<"member", "lists", "record", "sync", "final">>,
     add     |-> <<"copy", "lists", "final">>,
     setting |-> <<"set", "final">>,
     remove  |-> <<"unmark", "lists", "final">>,
     adopt   |-> <<"lists", "final">>,
     install |-> <<"install", "final">>][op]

Good(r) == r.members \ (r.bad \cup r.dead)
Rest(r) == {u \in Good(r) \ Foreign(r) : r.op = "remove" => u # r.arg}
\* recordSettingGeneration's early returns
Recorded(r) ==
    Mirrored(r) /\ r.id # NoId /\ r.changed /\ (Good(r) # r.members \/ MissingOf(r) # {})

\* The members phase p goes over.
Over(r, p) ==
    CASE p \in {"member", "set", "install"} -> r.members
      [] p = "copy"   -> r.added
      [] p = "unmark" -> ({r.arg} \cap r.members) \ r.dead
      [] p = "lists"  -> IF r.op = "update" /\ r.added \cap Good(r) = {} THEN {} ELSE Rest(r)
      [] p = "record" -> IF r.explicit # <<>> THEN {r.src} \ {NoUUID} ELSE {}
      [] p = "sync"   -> IF r.src = NoUUID THEN {} ELSE Good(r) \ {r.src}
      [] p = "final"  -> IF r.op = "setting" THEN IF Recorded(r) THEN Good(r) ELSE {}
                         ELSE IF r.op = "add" THEN Rest(r)
                         ELSE IF r.op = "remove" THEN {u \in Rest(r) : ValidMember(r.infos[u])}
                         ELSE Good(r)

\* The phase that comes next when the loop of phase number n is done; Idle after the last.
Enter(r, n) ==
    LET ps    == Phases(r.op)
        later == {m \in DOMAIN ps : m > n /\ Over(r, ps[m]) # {}}
    IN IF later = {} THEN Idle
       ELSE [r EXCEPT !.phase = ps[First(later)], !.todo = Over(r, ps[First(later)])]
PhaseNr(r) == CHOOSE n \in DOMAIN Phases(r.op) : Phases(r.op)[n] = r.phase

-----------------------------------------------------------------------------
(* Starting a command.  A refusal changes nothing and is no step. *)

Between == run = Idle /\ commands < MaxCommands

Start(r) ==
    /\ Cardinality(r.dead) <= MaxFaults - faults
    /\ r.id = NoId => FreshIds # {}
    /\ \E src \in SourceOf(r) :
       \E s \in {[r EXCEPT !.force = @ /\ Foreign(r) # {}, !.src = src]} : run' = Enter(s, 0)
    /\ unordered' = (unordered \/ LeavesOpen(r))
    /\ commands' = commands + 1
    /\ faults' = faults + Cardinality(r.dead)
    /\ UNCHANGED <<esp, here, primary, latest, ended, sealed, crashes>>

\* discoverHost and addESPs: dead are the members that do not mount.
Discovered(op, arg, force, val, explicit, dead) ==
    LET infos == Scan
        set   == SelectHost(infos, explicit, primary)
        added == IF arg \in {NoUUID} \cup set.members THEN {} ELSE {arg}
    IN Run(op, arg, force, val, "idle", {}, infos, set, set.members \cup added, added, set.id, explicit, dead)
AddRefused(r) ==
    \E u \in r.added : ValidMember(r.infos[u]) /\ r.infos[u].member.id # r.id /\ ~r.force
Deads(r) == r.dead = {} \/ \E u \in r.members : r.dead = {u}

\* runUpdate with --add-esp, --force-adopt, --esp-uuids
Update(add, force, explicit, dead) ==
    \E r \in {Discovered("update", add, force, 0, explicit, dead)} :
       r.set.ok /\ Deads(r) /\ ~AddRefused(r) /\ Start(r)

\* runESPAdd
EspAdd(add, force, dead) ==
    \E r \in {Discovered("add", add, force, 0, <<>>, dead)} :
       /\ r.set.ok /\ Deads(r) /\ Sources(r) # {}
       /\ r.added # {} /\ ~AddRefused(r) /\ add \notin dead
       /\ Start(r)

\* forEachMember: refused while the payloads of a mirrored set differ
PayloadOf(u) == <<esp[u].build, esp[u].damage # "no">>
\* A slip: the payloads are not compared first.
SettingUnchecked(val, dead) ==
    \E r \in {Discovered("setting", NoUUID, FALSE, val, <<>>, dead)} :
       ~Uefi /\ r.set.ok /\ Deads(r) /\ Start(r)
Setting(val, dead) ==
    \E r \in {Discovered("setting", NoUUID, FALSE, val, <<>>, dead)} :
       /\ ~Uefi /\ r.set.ok /\ Deads(r)
       /\ Mirrored(r) => \A u, v \in Sources(r) : PayloadOf(u) = PayloadOf(v)
       /\ Start(r)

\* runESPRemove: a member, or one that is missing; never the last present one
EspRemove(u, dead) ==
    \E r \in {Discovered("remove", NoUUID, FALSE, 0, <<>>, dead)} :
       /\ r.set.ok /\ Deads(r)
       /\ u \in r.members \cup MissingOf(r)
       /\ r.members \ {u} # {}
       /\ \E s \in {[r EXCEPT !.arg = u]} : Start(s)

\* runESPAdopt with several arguments and --yes; a set that cannot be selected is no
\* set.  Members that are named are not touched, the others learn the new set.
AdoptRun(infos, set, args, force, dead) ==
    LET own     == {u \in args : ValidMember(infos[u]) /\ infos[u].member.id = set.id}
        targets == args \ own
    IN Run("adopt", NoUUID, force, 0, "idle", {}, infos,
           HostSet(set.mode, set.id, set.members, {}, set.expected \cup targets, set.primary, set.list),
           targets \cup (set.members \ args), targets, set.id, <<>>, dead)
EspAdopt(args, force, dead) ==
    \E infos \in {Scan} : \E found \in {SelectHost(infos, <<>>, primary)} :
    \E r \in {AdoptRun(infos, IF found.ok THEN found ELSE Refused, args, force, dead)} :
       /\ r.added # {} /\ Deads(r)
       /\ \A u \in r.added : infos[u].alpine /\ (ValidMember(infos[u]) => force)
       /\ Start(r)

\* runInstall onto the ESP mounted for it: with a list, all of it; on a marked ESP, its set.
InstallRun(infos, listed, root, force, explicit) ==
    LET marked == ValidMember(infos[root])
        id     == IF marked THEN infos[root].member.id ELSE IF explicit # <<>> THEN listed.id ELSE NoId
        others == IF explicit # <<>> THEN listed.members \ {root}
                  ELSE {u \in here \ {root} : marked /\ ValidMember(infos[u]) /\ infos[u].member.id = id}
        wanted == IF explicit # <<>> THEN Listed(explicit)
                  ELSE {root} \cup (IF marked THEN infos[root].member.members ELSE {})
        mode   == IF explicit # <<>> THEN "list" ELSE IF marked THEN "member" ELSE "legacy"
    IN Run("install", NoUUID, force, 0, "idle", {}, infos,
           HostSet(mode, id, {root} \cup others, {}, wanted, root, explicit),
           {root} \cup others, {}, id, explicit, {})
Install(root, force, explicit) ==
    \E infos \in {Scan} : \E listed \in {SelectHost(infos, explicit, root)} :
    \E r \in {InstallRun(infos, listed, root, force, explicit)} :
       /\ explicit # <<>> => listed.ok /\ root \in Listed(explicit) /\ Listed(explicit) \subseteq here
       /\ \A u \in r.members \ {root} :
             ValidMember(infos[u]) /\ r.id # NoId /\ infos[u].member.id # r.id => force
       /\ Start(r)

-----------------------------------------------------------------------------
(* The steps of a run: one member of the current phase's loop. *)

GenOn(e) == <<e.marker.id, e.marker.gen>>
\* Member u was handled and holds e now; r is the run with what the step recorded.
Done(u, e, r) ==
    \E rest \in {[r EXCEPT !.todo = @ \ {u}]} :
    \E next \in {IF rest.todo # {} THEN rest ELSE Enter(rest, PhaseNr(rest))} :
       /\ esp' = [esp EXCEPT ![u] = e]
       /\ run' = next
       /\ ended' = IF next = Idle THEN [op |-> r.op, ok |-> ~r.failed, members |-> Good(r) \ Foreign(r)] ELSE ended
       /\ sealed' = [sealed EXCEPT ![u] = IF GenOn(e) # GenOn(esp[u]) THEN e.build ELSE @]
       /\ UNCHANGED <<here, primary, latest, unordered, commands, crashes>>

\* The member whose turn it is in phase p.
Turn(p) == IF run.phase = p THEN {NextOf(run)} \cap run.todo ELSE {}
NoFault == UNCHANGED faults
Fault == faults < MaxFaults /\ faults' = faults + 1

Failing(u) == [run EXCEPT !.bad = @ \cup {u}, !.failed = TRUE]
Wrote == [run EXCEPT !.wrote = TRUE]
With(e, build, damage, set, list) == ESP(TRUE, build, damage, set, list, e.marker)
Marked(e, m) == ESP(TRUE, e.build, e.damage, e.set, e.list, m)
Source == esp[run.src]
HasSource(u) == run.src \notin {NoUUID, u}

\* updateBIOSTarget / updateUEFITarget; a seed is written without the checks.
Seed(u) == u \in run.added \/ (run.set.mode # "legacy" /\ esp[u].build = 0)
UpToDate(u) == ~Seed(u) /\ latest <= esp[u].build
\* the installed setting is kept, a new member takes the source's
SettingOf(u) == IF esp[u].build = 0 /\ HasSource(u) THEN Source.set ELSE esp[u].set

MemberUnusable ==
    \E u \in Turn("member") : ~Usable(run, u) /\ Done(u, esp[u], Failing(u)) /\ NoFault
MemberWrite ==
    \E u \in Turn("member") :
       /\ Usable(run, u) /\ ~UpToDate(u)
       /\ \/ Done(u, With(esp[u], latest, "no", SettingOf(u), esp[u].list), Wrote) /\ NoFault
          \* rolled back; wrote is set when the stages had been written
          \/ \E w \in {run.wrote, TRUE} : Done(u, esp[u], [Failing(u) EXCEPT !.wrote = w]) /\ Fault

\* repairMember: the same build with other content
Differs(u) ==
    /\ HasSource(u) /\ Source.build # 0 /\ Source.build = esp[u].build
    /\ <<Source.damage, Source.set>> # <<esp[u].damage, esp[u].set>>
LostBy(u) == esp[u].set # 0 /\ esp[u].set # Source.set
\* A slip: the setting the member carries is not looked at.
RepairRefusedByDamage(u) == ~Uefi /\ Source.damage = "seen"
RepairRefused(u) == (~Uefi /\ Source.damage = "seen") \/ LostBy(u)
MemberUpToDate ==
    \E u \in Turn("member") :
       /\ Usable(run, u) /\ UpToDate(u)
       /\ \/ ~Differs(u) /\ Done(u, esp[u], run) /\ NoFault
          \/ Differs(u) /\ RepairRefused(u) /\ Done(u, esp[u], Failing(u)) /\ NoFault
          \/ /\ Differs(u) /\ ~RepairRefused(u)
             /\ \/ Done(u, With(esp[u], Source.build, Source.damage, Source.set, Source.list), Wrote) /\ NoFault
                \/ Done(u, esp[u], Failing(u)) /\ Fault

\* copyBootChain for esp add, the payload and then the config; a failure ends the
\* command, before the payload was written (or rolled back) or after
CopyChain ==
    \E u \in Turn("copy") :
    LET damage == IF Source.damage = "seen" /\ ~Uefi THEN "hidden" ELSE Source.damage
        Copied(list) == With(esp[u], Source.build, damage, Source.set, list)
    IN \/ Source.build # 0 /\ NoFault /\ Done(u, Copied(Source.list), run)
       \/ /\ \/ Source.build = 0 /\ NoFault /\ UNCHANGED esp
             \/ Source.build # 0 /\ Fault /\ esp' \in {esp, [esp EXCEPT ![u] = Copied(@.list)]}
          /\ run' = Idle
          /\ ended' = [op |-> run.op, ok |-> FALSE, members |-> {}]
          /\ UNCHANGED <<here, primary, latest, sealed, unordered, commands, crashes>>

\* addUUID, dropUUID; new entries in the order of their UUIDs
Ascending(S) == CHOOSE s \in [1 .. Cardinality(S) -> S] : \A m, n \in DOMAIN s : m < n => s[m] < s[n]
AddUUIDs(list, S) == list \o Ascending(S \ Listed(list))
DropUUID(list, u) == SelectSeq(list, LAMBDA v : v # u)
NewUUIDs == run.added \cap Good(run)
\* addToLists; esp remove's counterpart
Grown(list) ==
    IF run.op = "remove" THEN DropUUID(list, run.arg)
    ELSE IF run.explicit # <<>> THEN AddUUIDs(run.explicit, NewUUIDs)
    ELSE IF list = <<>> THEN list
    ELSE AddUUIDs(list, NewUUIDs)
ListStep ==
    \E u \in Turn("lists") :
    LET new == With(esp[u], esp[u].build, esp[u].damage, esp[u].set, Grown(esp[u].list))
        stop == [run EXCEPT !.failed = TRUE, !.todo = IF run.op = "remove" THEN @ ELSE {u}]
    IN \/ Done(u, new, run) /\ NoFault
       \* addToLists stops; update charges the source with it
       \/ /\ new # esp[u] /\ Fault
          /\ IF run.op = "update" /\ run.src # NoUUID
             THEN Done(u, esp[u], [stop EXCEPT !.bad = @ \cup {run.src}])
             ELSE Done(u, esp[u], [stop EXCEPT !.failed = (run.op # "update" \/ run.failed)])

\* update: the explicit list goes into the source's config first
Explicit == AddUUIDs(run.explicit, NewUUIDs)
RecordStep ==
    \E u \in Turn("record") :
    LET new == With(esp[u], esp[u].build, esp[u].damage, esp[u].set, Explicit)
    IN \/ new = esp[u] /\ Done(u, esp[u], run) /\ NoFault
       \/ new # esp[u] /\ Done(u, new, Wrote) /\ NoFault
       \/ new # esp[u] /\ Done(u, esp[u], Failing(u)) /\ Fault

\* A slip: nothing is copied.
SyncNothing == \E u \in Turn("sync") : Done(u, esp[u], run) /\ NoFault
\* syncConfig from the source
SyncStep ==
    \E u \in Turn("sync") :
    LET new == With(esp[u], esp[u].build, esp[u].damage, esp[u].set, Source.list)
    IN \/ new = esp[u] /\ Done(u, esp[u], run) /\ NoFault
       \/ new # esp[u] /\ Done(u, new, Wrote) /\ NoFault
       \/ new # esp[u] /\ Done(u, esp[u], Failing(u)) /\ Fault

\* setInt13Chunk on one member
SetStep ==
    \E u \in Turn("set") :
    LET new == With(esp[u], esp[u].build, esp[u].damage, run.val, esp[u].list)
    IN \/ Usable(run, u) /\ esp[u].build # 0 /\ NoFault
          /\ Done(u, new, [run EXCEPT !.changed = @ \/ (new # esp[u] /\ u \notin Foreign(run))])
       \/ (~Usable(run, u) \/ esp[u].build = 0) /\ Done(u, esp[u], Failing(u)) /\ NoFault
       \/ Usable(run, u) /\ new # esp[u] /\ Done(u, esp[u], Failing(u)) /\ Fault

\* espmember.Remove
UnmarkStep ==
    \E u \in Turn("unmark") :
       \/ Done(u, Marked(esp[u], NoMarker), run) /\ NoFault
       \/ Done(u, esp[u], [run EXCEPT !.failed = TRUE]) /\ Fault

\* writeBIOSInstall / writeUEFIInstall: payload, then config; no rollback of config
InstallStep ==
    \E u \in Turn("install") :
    LET new == With(esp[u], latest, "no", 0, run.explicit)
    IN \/ Done(u, new, Wrote) /\ NoFault
       \/ \E e \in {esp[u], With(esp[u], latest, "no", 0, esp[u].list)} : Done(u, e, Failing(u)) /\ Fault

\* The generation finalizeMembers records on u.
GenFor(u) ==
    LET max   == MaxGeneration(run)
        own   == GenOf(run, u)
        first == MaxOf({1, GenOf(run, run.src)})
        set   == MaxOf({1} \cup {GenOf(run, v) : v \in run.set.members})
    IN CASE run.op = "update" -> IF run.wrote \/ max = 0 THEN max + 1 ELSE max
         [] run.op \in {"setting", "install"} -> max + 1
         [] run.op = "add"    -> IF u \in run.added \/ own = 0 THEN first ELSE own
         [] run.op = "remove" -> IF own = 0 THEN max ELSE own
         [] run.op = "adopt"  -> IF u \in run.added THEN set ELSE set + 1

\* finalizeMembersAt: MEMBER last
FinalStep ==
    \E u \in Turn("final") :
    LET id == InstallID(run.id)
        r  == [run EXCEPT !.id = id]
        new == Marked(esp[u], Marker(1, id, GenFor(u), u, Expected(run)))
    IN \/ Done(u, new, r) /\ NoFault
       \/ new # esp[u] /\ Done(u, esp[u], [r EXCEPT !.bad = @ \cup {u}, !.failed = run.failed \/ run.op # "setting"]) /\ Fault

\* A kill between two members, or between two phases.
Crash ==
    /\ run # Idle /\ crashes < MaxCrashes
    /\ crashes' = crashes + 1
    /\ run' = Idle
    /\ ended' = [op |-> "crash", ok |-> FALSE, members |-> {}]
    /\ UNCHANGED <<esp, here, primary, latest, sealed, unordered, commands, faults>>

-----------------------------------------------------------------------------
(* Between commands: releases appear, disks come and go, a payload rots. *)

Release ==
    /\ Between /\ latest < MaxBuild /\ latest' = latest + 1
    /\ UNCHANGED <<esp, here, primary, run, ended, sealed, unordered, commands, faults, crashes>>
Plug ==
    /\ Between
    /\ \E u \in UUIDs : here' \in {here \cup {u}, here \ {u}} \ {here, {}}
    /\ UNCHANGED <<esp, primary, latest, run, ended, sealed, unordered, commands, faults, crashes>>
Rot ==
    /\ Between /\ Fault
    /\ \E u \in here : /\ esp[u].build # 0 /\ esp[u].damage = "no"
                       /\ esp' = [esp EXCEPT ![u] = With(esp[u], esp[u].build, "seen", esp[u].set, esp[u].list)]
    /\ UNCHANGED <<here, primary, latest, run, ended, sealed, unordered, commands, crashes>>

-----------------------------------------------------------------------------
Init ==
    /\ esp \in Hosts
    /\ here = UUIDs
    /\ primary = NoUUID
    /\ latest \in 1 .. MaxBuild /\ \A u \in UUIDs : esp[u].build <= latest
    /\ run = Idle
    /\ ended = [op |-> "none", ok |-> TRUE, members |-> {}]
    /\ sealed = [u \in UUIDs |-> esp[u].build]
    /\ unordered = FALSE
    /\ commands = 0 /\ faults = 0 /\ crashes = 0

Command ==
    /\ Between
    /\ \/ \E dead \in {{}} \cup {{u} : u \in here} :
             \/ Update(NoUUID, FALSE, <<>>, dead)
             \/ \E val \in Settings \cup {0} : Setting(val, dead)
             \/ \E u \in UUIDs : EspRemove(u, dead)
             \/ \E add \in here : EspAdd(add, FALSE, dead)
       \/ \E add \in here : EspAdd(add, TRUE, {})
       \/ \E force \in BOOLEAN :
             \/ \E add \in here \cup {NoUUID}, list \in ExplicitLists : Update(add, force, list, {})
             \/ \E args \in SUBSET here \ {{}} : EspAdopt(args, force, {})
             \/ \E root \in here, list \in ExplicitLists : Install(root, force, list)

Step ==
    \/ MemberUnusable \/ MemberWrite \/ MemberUpToDate \/ CopyChain \/ ListStep \/ RecordStep
    \/ SyncStep \/ SetStep \/ UnmarkStep \/ InstallStep \/ FinalStep

Next == Command \/ Step \/ Crash \/ Release \/ Plug \/ Rot

Spec == Init /\ [][Next]_vars

-----------------------------------------------------------------------------
Same(u, v) == MarkedFor(u, esp[v].marker.id) /\ MarkedFor(v, esp[v].marker.id)
Updated == run = Idle /\ ended.op = "update" /\ ended.ok

\* compareMembers of verify: S against its reference, the copy with the highest
\* generation, then the newest build.
Digest(u) == <<esp[u].build, esp[u].damage, esp[u].set, esp[u].list>>
Rated(u) == <<esp[u].marker.gen, esp[u].build>>
Reference(S) ==
    CHOOSE u \in S : \A v \in S :
        Rated(u)[1] > Rated(v)[1] \/ (Rated(u)[1] = Rated(v)[1] /\ Rated(u)[2] >= Rated(v)[2])
Stale(S) ==
    {u \in S : /\ Digest(u) # Digest(Reference(S))
               /\ \E n \in 1 .. 2 : Rated(u)[n] < Rated(Reference(S))[n]}
OtherGeneration(S) ==
    {u \in S : Digest(u) = Digest(Reference(S)) /\ Rated(u)[1] # Rated(Reference(S))[1]}

\* "A crash never leaves a member claiming a newer generation than its files"
\* (espmember.go:31), read across the set: the copy with the higher generation, the one
\* update copies from and a boot takes its config from, holds no older build than any
\* other member held when its own generation was recorded, whatever failed, was killed
\* or was away, as long as no command LeavesOpen.
NewestWins ==
    ~unordered =>
        \A u, v \in UUIDs :
            (esp[u].marker.gen > esp[v].marker.gen /\ Same(u, v)) => esp[u].build >= sealed[v]

\* "'alpine-zfsboot update' brings it in line" (compareMembers): after an update that
\* reports success, verify finds no stale member and no other generation among the
\* members of the installation, whatever state commands, failures and crashes before it
\* left them in; what can still differ is a setting or a damaged payload, never the list.
UpdatedAgree ==
    LET S == ended.members
    IN (Updated /\ S # {})
           => /\ \A u, v \in S : Same(u, v) /\ esp[u].list = esp[v].list
              /\ Stale(S) = {} /\ OtherGeneration(S) = {}

\* "`update` never removes a setting" (README.md:785): neither a new build nor a repair
\* from the best member changes a setting the rewritten member carries.
SettingKept ==
    [][\A u \in UUIDs : (run.op = "update" /\ esp[u].set # 0) => esp'[u].set = esp[u].set]_vars

\* "never write to another installation's ESP": without --force-adopt no phase of any
\* command changes an ESP that discovery found to be foreign, except esp remove the
\* marker of the one it names.  esp adopt takes every listed ESP for its own (attach with
\* foreign false): for it this says nothing.
ForeignUntouched ==
    [][\A u \in UUIDs :
          (u \in Foreign(run) /\ ~run.force /\ (run.op = "remove" => u # run.arg)) => esp'[u] = esp[u]]_vars
=============================================================================
