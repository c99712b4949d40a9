--------------------------- MODULE MirrorSetProofs ---------------------------
(***************************************************************************)
(* Three promises of the commands on a mirrored set, for any number of     *)
(* ESPs, any markers, lists and settings on them and any number of         *)
(* commands, failures and kills: they leave other installations' ESPs      *)
(* alone, an update keeps settings, and after an update that reports       *)
(* success the members agree.                                              *)
(***************************************************************************)
EXTENDS MirrorSet, TLAPS

\* A leaf is tried with Zenon, then with the SMT solver, then with Zenon for longer.
USE ZenonT(2), SMT, Zenon

Fields == {"op", "arg", "force", "val", "phase", "todo", "infos", "set", "members", "added", "id",
           "explicit", "dead", "src", "bad", "wrote", "changed", "failed"}
Ops == {"update", "add", "setting", "remove", "adopt", "install"}
PhasesOf(op) == {Phases(op)[n] : n \in DOMAIN Phases(op)}

\* The loops that write without looking whose ESP it is.
Blind == {"lists", "record", "sync", "install", "final"}
\* The loops that put every foreign member among the failed ones.
Sorting == {"member", "set"}

\* What a running command r knows of foreign ESPs.
Sorted(r) ==
    r.op \in {"update", "setting"} /\ ~r.force =>
        r.set.foreign \cap r.members \subseteq
            r.bad \cup r.dead \cup (IF r.phase \in Sorting THEN r.todo ELSE {})
Own(r) ==
    /\ r.src = NoUUID \/ r.src \notin r.set.foreign
    /\ r.op \in {"install", "adopt"} => r.set.foreign = {}
    /\ r.op = "add" => r.added \cap r.set.foreign = {}
Aimed(r) ==
    /\ r.phase \in Blind /\ ~r.force => r.todo \cap r.set.foreign = {}
    /\ r.phase = "copy" => r.todo \cap r.set.foreign = {}
    /\ r.phase = "unmark" => r.todo \subseteq {r.arg}

\* The state of a run while it runs.
RunOK(r) ==
    /\ DOMAIN r = Fields
    /\ r.op \in Ops /\ r.phase \in PhasesOf(r.op)
    /\ Sorted(r) /\ Own(r) /\ Aimed(r)

RunInv == run = Idle \/ RunOK(run)

-----------------------------------------------------------------------------
(* Numbers below six have a least one: First finds the next phase. *)
LEMMA FirstOfFew ==
    ASSUME NEW S \in SUBSET (1 .. 5), S # {}
    PROVE  First(S) \in S /\ \A n \in S : First(S) <= n
<1>1. \E d \in S : \A e \in S : d <= e
  <2>1. CASE 1 \in S
    BY <2>1
  <2>2. CASE 1 \notin S /\ 2 \in S
    BY <2>2
  <2>3. CASE 1 \notin S /\ 2 \notin S /\ 3 \in S
    BY <2>3
  <2>4. CASE 1 \notin S /\ 2 \notin S /\ 3 \notin S /\ 4 \in S
    BY <2>4
  <2>5. CASE 1 \notin S /\ 2 \notin S /\ 3 \notin S /\ 4 \notin S
    <3>1. \A e \in S : e = 5
      BY <2>5
    <3>2. PICK d \in S : TRUE
      OBVIOUS
    <3> QED
      BY <3>1, <3>2
  <2> QED
    BY <2>1, <2>2, <2>3, <2>4, <2>5
<1> QED
  BY <1>1 DEF First

(* The loops of each command, in order. *)
LEMMA PhaseTable ==
    /\ Phases("update") = <<"member", "lists", "record", "sync", "final">>
    /\ Phases("add") = <<"copy", "lists", "final">>
    /\ Phases("setting") = <<"set", "final">>
    /\ Phases("remove") = <<"unmark", "lists", "final">>
    /\ Phases("adopt") = <<"lists", "final">>
    /\ Phases("install") = <<"install", "final">>
BY DEF Phases

(* No command has more than five phases. *)
LEMMA PhaseNumbers ==
    ASSUME NEW op \in Ops
    PROVE  DOMAIN Phases(op) \in SUBSET (1 .. 5)
BY PhaseTable DEF Ops

(* update and the settings put the foreign members among the failed ones   *)
(* in their first phase, and only there.                                   *)
LEMMA SortFirst ==
    ASSUME NEW op \in {"update", "setting"}
    PROVE  /\ 1 \in DOMAIN Phases(op) /\ Phases(op)[1] \in Sorting
           /\ \A n \in DOMAIN Phases(op) : n > 1 => Phases(op)[n] \notin Sorting
BY PhaseTable DEF Sorting

(* Entering the next loop ends the run or takes the next phase there is. *)
LEMMA Entered ==
    ASSUME NEW r, DOMAIN r = Fields, r.op \in Ops, NEW n \in Nat, Enter(r, n) # Idle
    PROVE  \E m \in DOMAIN Phases(r.op) :
              /\ m > n
              /\ \A k \in DOMAIN Phases(r.op) : (k > n /\ k < m) => Over(r, Phases(r.op)[k]) = {}
              /\ Enter(r, n) = [r EXCEPT !.phase = Phases(r.op)[m], !.todo = Over(r, Phases(r.op)[m])]
<1> DEFINE later == {m \in DOMAIN Phases(r.op) : m > n /\ Over(r, Phases(r.op)[m]) # {}}
<1>1. later # {}
  BY DEF Enter
<1>2. later \in SUBSET (1 .. 5)
  BY PhaseNumbers
<1> DEFINE m == First(later)
<1>3. m \in later /\ \A k \in later : m <= k
  BY <1>1, <1>2, FirstOfFew
<1>4. Enter(r, n) = [r EXCEPT !.phase = Phases(r.op)[m], !.todo = Over(r, Phases(r.op)[m])]
  BY <1>1 DEF Enter
<1>5. \A k \in DOMAIN Phases(r.op) : k \in 1 .. 5
  BY PhaseNumbers
<1> HIDE DEF m
<1>6. m \in DOMAIN Phases(r.op) /\ m > n /\ m \in 1 .. 5
  BY <1>3, <1>5
<1>7. \A k \in DOMAIN Phases(r.op) : (k > n /\ k < m) => Over(r, Phases(r.op)[k]) = {}
  <2> SUFFICES ASSUME NEW k \in DOMAIN Phases(r.op), k > n, k < m PROVE k \notin later
    OBVIOUS
  <2> QED
    BY <1>3, <1>5, <1>6
<1> QED
  BY <1>4, <1>6, <1>7

(* A loop entered by a run that has sorted out the foreign members, or has *)
(* not begun, goes over members it may write.                              *)
LEMMA EnterOK ==
    ASSUME NEW r, DOMAIN r = Fields, r.op \in Ops, Own(r), NEW n \in Nat,
           (r.op \in {"update", "setting"} /\ ~r.force /\ n > 0) =>
               r.set.foreign \cap r.members \subseteq r.bad \cup r.dead
    PROVE  Enter(r, n) = Idle \/ RunOK(Enter(r, n))
<1> SUFFICES ASSUME Enter(r, n) # Idle PROVE RunOK(Enter(r, n))
  OBVIOUS
<1>1. PICK m \in DOMAIN Phases(r.op) :
         /\ m > n
         /\ \A k \in DOMAIN Phases(r.op) : (k > n /\ k < m) => Over(r, Phases(r.op)[k]) = {}
         /\ Enter(r, n) = [r EXCEPT !.phase = Phases(r.op)[m], !.todo = Over(r, Phases(r.op)[m])]
  BY Entered
<1> DEFINE q == Enter(r, n)
           p == Phases(r.op)[m]
<1>2. /\ DOMAIN q = Fields /\ q.phase = p /\ q.todo = Over(r, p)
      /\ q.op = r.op /\ q.arg = r.arg /\ q.force = r.force /\ q.set = r.set /\ q.members = r.members
      /\ q.added = r.added /\ q.dead = r.dead /\ q.src = r.src /\ q.bad = r.bad
  BY <1>1 DEF Fields
<1>3. p \in PhasesOf(r.op) /\ m \in 1 .. 5
  BY PhaseNumbers DEF PhasesOf
<1> HIDE DEF q, p
<1>4. Own(q)
  BY <1>2 DEF Own
<1>5. r.op \in {"update", "setting"} /\ ~r.force =>
         r.set.foreign \cap r.members \subseteq r.bad \cup r.dead \cup (IF p \in Sorting THEN Over(r, p) ELSE {})
  <2> SUFFICES ASSUME r.op \in {"update", "setting"}, ~r.force, n = 0
               PROVE  r.set.foreign \cap r.members \subseteq (IF p \in Sorting THEN Over(r, p) ELSE {})
    OBVIOUS
  <2>1. 1 \in DOMAIN Phases(r.op) /\ Phases(r.op)[1] \in Sorting
    BY SortFirst
  <2>2. Over(r, Phases(r.op)[1]) = r.members
    BY <2>1 DEF Over, Sorting
  <2>3. CASE m = 1
    BY <2>1, <2>2, <2>3 DEF p
  <2>4. CASE m > 1
    BY <1>1, <2>1, <2>2, <2>4
  <2> QED
    BY <1>3, <2>3, <2>4
<1>6. Sorted(q)
  BY <1>2, <1>5 DEF Sorted
<1>7. p \in Blind /\ ~r.force => Over(r, p) \cap r.set.foreign = {}
  <2> SUFFICES ASSUME p \in Blind, ~r.force PROVE Over(r, p) \cap r.set.foreign = {}
    OBVIOUS
  <2>1. Rest(r) \cap r.set.foreign = {}
    BY DEF Rest, Foreign
  <2>2. r.op \in {"update", "setting"} => Good(r) \cap r.set.foreign = {}
    BY <1>5 DEF Good, Blind, Sorting
  <2>3. r.op \in {"install", "adopt"} => r.set.foreign = {}
    BY DEF Own
  <2>4. CASE p = "lists"
    BY <2>1, <2>4 DEF Over
  <2>5. CASE p = "record"
    BY <2>5 DEF Over, Own
  <2>6. p = "sync" => r.op = "update"
    BY <1>3, PhaseTable DEF PhasesOf, Ops
  <2>7. CASE p = "sync"
    BY <2>2, <2>6, <2>7 DEF Over
  <2>8. p = "install" => r.op = "install"
    BY <1>3, PhaseTable DEF PhasesOf, Ops
  <2>9. CASE p = "install"
    BY <2>3, <2>8, <2>9
  <2>10. CASE p = "final"
    BY <2>1, <2>2, <2>3, <2>10 DEF Over, Ops
  <2> QED
    BY <2>4, <2>5, <2>7, <2>9, <2>10 DEF Blind
<1>8. /\ p = "copy" => Over(r, p) \cap r.set.foreign = {}
      /\ p = "unmark" => Over(r, p) \subseteq {r.arg}
  <2>1. p = "copy" => r.op = "add"
    BY <1>3, PhaseTable DEF PhasesOf, Ops
  <2> QED
    BY <2>1 DEF Over, Own
<1>9. Aimed(q)
  BY <1>2, <1>7, <1>8 DEF Aimed
<1> QED
  BY <1>2, <1>3, <1>4, <1>6, <1>9 DEF RunOK, q
-----------------------------------------------------------------------------
(* One member is done.  r is the run with what the step recorded: of what  *)
(* RunOK speaks of, it may add to the failed members and, in a loop that   *)
(* sorts nothing, leave the loop.                                          *)
Carries(r) ==
    /\ DOMAIN r = Fields
    /\ r.op = run.op /\ r.arg = run.arg /\ r.force = run.force /\ r.phase = run.phase
    /\ r.set = run.set /\ r.members = run.members /\ r.added = run.added /\ r.infos = run.infos
    /\ r.dead = run.dead /\ r.src = run.src /\ run.bad \subseteq r.bad
Handled(u, r) ==
    /\ u \in run.todo
    /\ r.todo = run.todo \/ (r.todo = {u} /\ run.phase \notin Sorting)
    /\ (run.phase \in Sorting /\ ~run.force /\ u \in run.set.foreign) => u \in r.bad \cup r.dead

(* A run that is done with one member is in order when it carried its set  *)
(* and handled the member.                                                 *)
LEMMA DoneOK ==
    ASSUME RunOK(run), NEW u, NEW e, NEW r, Done(u, e, r), Carries(r), Handled(u, r)
    PROVE  RunInv'
<1> DEFINE rest == [r EXCEPT !.todo = @ \ {u}]
           n == PhaseNr(rest)
<1>1. run' = IF rest.todo # {} THEN rest ELSE Enter(rest, n)
  BY DEF Done
<1>2. /\ DOMAIN rest = Fields /\ rest.todo = r.todo \ {u}
      /\ rest.op = run.op /\ rest.arg = run.arg /\ rest.force = run.force /\ rest.phase = run.phase
      /\ rest.set = run.set /\ rest.members = run.members /\ rest.added = run.added
      /\ rest.dead = run.dead /\ rest.src = run.src /\ rest.bad = r.bad
  BY DEF Carries, Fields
<1> HIDE DEF rest
<1>3. Own(rest) /\ rest.op \in Ops /\ rest.phase \in PhasesOf(rest.op)
  BY <1>2 DEF RunOK, Own
<1>4. Sorted(rest)
  BY <1>2 DEF RunOK, Sorted, Carries, Handled
<1>5. CASE rest.todo # {}
  <2>1. Aimed(rest)
    BY <1>2 DEF RunOK, Aimed, Handled
  <2> QED
    BY <1>1, <1>2, <1>3, <1>4, <1>5, <2>1 DEF RunOK, RunInv
<1>6. CASE rest.todo = {}
  <2>1. n \in 1 .. 5
    <3>1. \E k \in DOMAIN Phases(rest.op) : Phases(rest.op)[k] = rest.phase
      BY <1>3 DEF PhasesOf
    <3>2. n \in DOMAIN Phases(rest.op)
      BY <3>1 DEF PhaseNr
    <3> QED
      BY <1>3, <3>2, PhaseNumbers
  <2> HIDE DEF n
  <2>2. n \in Nat
    BY <2>1
  <2>3. rest.op \in {"update", "setting"} /\ ~rest.force =>
           rest.set.foreign \cap rest.members \subseteq rest.bad \cup rest.dead
    BY <1>4, <1>6 DEF Sorted
  <2>4. Enter(rest, n) = Idle \/ RunOK(Enter(rest, n))
    BY <1>2, <1>3, <2>2, <2>3, EnterOK
  <2> QED
    BY <1>1, <1>6, <2>4 DEF RunInv
<1> QED
  BY <1>5, <1>6

(* What the steps record besides. *)
LEMMA Records ==
    ASSUME DOMAIN run = Fields
    PROVE  /\ Carries(run) /\ Carries(Wrote) /\ Wrote.todo = run.todo
           /\ \A u : Carries(Failing(u)) /\ Failing(u).todo = run.todo /\ u \in Failing(u).bad
           /\ \A u, w : /\ Carries([Failing(u) EXCEPT !.wrote = w])
                        /\ [Failing(u) EXCEPT !.wrote = w].todo = run.todo
                        /\ u \in [Failing(u) EXCEPT !.wrote = w].bad
           /\ \A c : Carries([run EXCEPT !.changed = c]) /\ [run EXCEPT !.changed = c].todo = run.todo
           /\ \A f : Carries([run EXCEPT !.failed = f]) /\ [run EXCEPT !.failed = f].todo = run.todo
BY DEF Carries, Wrote, Failing, Fields

(* A step that wrote, or did not have to, records nothing else. *)
LEMMA WroteRun ==
    ASSUME DOMAIN run = Fields
    PROVE  \A r \in {run, Wrote} : /\ Carries(r) /\ r.todo = run.todo /\ r.bad = run.bad
                                   /\ r.failed = run.failed /\ r.id = run.id
<1>1. Wrote.bad = run.bad /\ Wrote.failed = run.failed /\ Wrote.id = run.id
  BY DEF Wrote, Fields
<1> QED
  BY <1>1, Records

(* SelectHost selects ESPs that the scan has found. *)
LEMMA SelectedKnown ==
    ASSUME NEW infos, NEW list, NEW prim
    PROVE  SelectHost(infos, list, prim).members \subseteq DOMAIN infos
<1>1. Refused.members = {}
  BY DEF Refused, HostSet
<1>2. \A l, p : SelectList(infos, l, p).members \subseteq DOMAIN infos
  BY <1>1 DEF SelectList, HostSet
<1>3. \A i, p : SelectGroup(infos, i, p).members \subseteq DOMAIN infos
  BY <1>1, <1>2 DEF SelectGroup, HostSet
<1>4. SelectLegacy(infos).members \subseteq DOMAIN infos
  BY <1>1, <1>2 DEF SelectLegacy, HostSet
<1> QED
  BY <1>1, <1>2, <1>3, <1>4 DEF SelectHost

(* The foreign ESPs of a set are members of it. *)
LEMMA ForeignMembers ==
    ASSUME NEW infos, NEW list, NEW prim
    PROVE  SelectHost(infos, list, prim).foreign \subseteq SelectHost(infos, list, prim).members
<1>1. Refused.foreign = {}
  BY DEF Refused, HostSet
<1>2. \A l, p : SelectList(infos, l, p).foreign \subseteq SelectList(infos, l, p).members
  BY <1>1 DEF SelectList, HostSet
<1>3. \A i, p : SelectGroup(infos, i, p).foreign \subseteq SelectGroup(infos, i, p).members
  BY <1>1, <1>2 DEF SelectGroup, HostSet
<1>4. SelectLegacy(infos).foreign \subseteq SelectLegacy(infos).members
  BY <1>1, <1>2 DEF SelectLegacy, HostSet
<1> QED
  BY <1>1, <1>2, <1>3, <1>4 DEF SelectHost

-----------------------------------------------------------------------------
EspInv ==
    /\ esp = [u \in UUIDs |-> esp[u]]
    /\ \A u \in UUIDs : esp[u].build = 0 => esp[u].set = 0
    /\ latest \in Nat \ {0}

Inv == RunInv /\ EspInv

\* A step that leaves e on u, as it should be.
Fits(u, e) ==
    u \in UUIDs =>
        /\ (u \in run.set.foreign /\ ~run.force /\ (run.op = "remove" => u # run.arg)) => e = esp[u]
        /\ (run.op = "update" /\ esp[u].set # 0) => e.set = esp[u].set
        /\ e.build = 0 => e.set = 0
Proper(u, e, r) == Done(u, e, r) /\ Carries(r) /\ Handled(u, r) /\ Fits(u, e)

(* An ESP that stays as it is fits. *)
LEMMA SameFits == ASSUME EspInv, NEW u PROVE Fits(u, esp[u])
BY DEF Fits, EspInv

(* The steps of update on a member are proper. *)
LEMMA MemberSteps ==
    ASSUME RunOK(run), EspInv, MemberUnusable \/ MemberWrite \/ MemberUpToDate
    PROVE  \E u, e, r : Proper(u, e, r)
<1>1. DOMAIN run = Fields
  BY DEF RunOK
<1>2. CASE MemberUnusable
  <2>1. PICK u \in Turn("member") : Done(u, esp[u], Failing(u))
    BY <1>2 DEF MemberUnusable
  <2>2. Carries(Failing(u)) /\ Handled(u, Failing(u))
    BY <1>1, <2>1, Records DEF Turn, Handled
  <2> QED
    BY <2>1, <2>2, SameFits DEF Proper
<1>3. CASE MemberWrite
  <2>1. PICK u \in Turn("member") :
           /\ Usable(run, u)
           /\ \/ Done(u, With(esp[u], latest, "no", SettingOf(u), esp[u].list), Wrote)
              \/ \E w \in {run.wrote, TRUE} : Done(u, esp[u], [Failing(u) EXCEPT !.wrote = w])
    BY <1>3 DEF MemberWrite
  <2>2. CASE Done(u, With(esp[u], latest, "no", SettingOf(u), esp[u].list), Wrote)
    <3>1. Carries(Wrote) /\ Handled(u, Wrote)
      BY <1>1, <2>1, Records DEF Turn, Handled, Usable, Foreign
    <3>2. Fits(u, With(esp[u], latest, "no", SettingOf(u), esp[u].list))
      BY <2>1 DEF Fits, With, ESP, SettingOf, EspInv, Usable, Foreign
    <3> QED
      BY <2>2, <3>1, <3>2 DEF Proper
  <2>3. CASE \E w \in {run.wrote, TRUE} : Done(u, esp[u], [Failing(u) EXCEPT !.wrote = w])
    <3>1. PICK w : Done(u, esp[u], [Failing(u) EXCEPT !.wrote = w])
      BY <2>3
    <3>2. Carries([Failing(u) EXCEPT !.wrote = w]) /\ Handled(u, [Failing(u) EXCEPT !.wrote = w])
      BY <1>1, <2>1, Records DEF Turn, Handled
    <3> QED
      BY <3>1, <3>2, SameFits DEF Proper
  <2> QED
    BY <2>1, <2>2, <2>3
<1>4. CASE MemberUpToDate
  <2> DEFINE new(u) == With(esp[u], Source.build, Source.damage, Source.set, Source.list)
  <2>1. PICK u \in Turn("member") :
           /\ Usable(run, u)
           /\ \/ Done(u, esp[u], run)
              \/ Done(u, esp[u], Failing(u))
              \/ Differs(u) /\ ~RepairRefused(u) /\ Done(u, new(u), Wrote)
    BY <1>4 DEF MemberUpToDate
  <2>2. Carries(run) /\ Handled(u, run)
    BY <1>1, <2>1, Records DEF Turn, Handled, Usable, Foreign
  <2>3. Carries(Failing(u)) /\ Handled(u, Failing(u))
    BY <1>1, <2>1, Records DEF Turn, Handled
  <2>4. CASE Differs(u) /\ ~RepairRefused(u) /\ Done(u, new(u), Wrote)
    <3>1. Carries(Wrote) /\ Handled(u, Wrote)
      BY <1>1, <2>1, Records DEF Turn, Handled, Usable, Foreign
    <3>2. Fits(u, new(u))
      BY <2>1, <2>4 DEF Fits, With, ESP, Differs, RepairRefused, LostBy, Usable, Foreign
    <3> QED
      BY <2>4, <3>1, <3>2 DEF Proper
  <2> QED
    BY <2>1, <2>2, <2>3, <2>4, SameFits DEF Proper
<1> QED
  BY <1>2, <1>3, <1>4
(* Which commands have the loops that are not of every command. *)
LEMMA LoopsOf ==
    ASSUME RunOK(run)
    PROVE  /\ run.phase \in {"copy", "unmark", "set", "install"} => run.op # "update"
           /\ run.phase = "unmark" => run.op = "remove"
           /\ run.phase = "install" => run.op = "install"
BY PhaseTable DEF RunOK, PhasesOf, Ops

\* The run ends in mid-loop, with one ESP written or none.
GivesUp ==
    /\ run' = Idle /\ latest' = latest
    /\ esp' = esp \/ \E u, e : esp' = [esp EXCEPT ![u] = e] /\ Fits(u, e)

(* So is the copy of a chain, or it ends the run. *)
LEMMA CopySteps ==
    ASSUME RunOK(run), EspInv, CopyChain
    PROVE  GivesUp \/ \E u, e, r : Proper(u, e, r)
<1>1. DOMAIN run = Fields
  BY DEF RunOK
<1>2. PICK u, d :
         /\ u \in Turn("copy")
         /\ \/ /\ Source.build # 0
               /\ Done(u, With(esp[u], Source.build, d, Source.set, Source.list), run)
            \/ run' = Idle /\ UNCHANGED <<esp, latest>>
            \/ /\ Source.build # 0 /\ run' = Idle /\ latest' = latest
               /\ esp' = [esp EXCEPT ![u] = With(esp[u], Source.build, d, Source.set, esp[u].list)]
  <2>1. PICK u \in Turn("copy") :
           LET damage == IF Source.damage = "seen" /\ ~Uefi THEN "hidden" ELSE Source.damage
               Copied(list) == With(esp[u], Source.build, damage, Source.set, list)
           IN \/ Source.build # 0 /\ NoFault /\ Done(u, Copied(Source.list), run)
              \/ /\ \/ Source.build = 0 /\ NoFault /\ UNCHANGED esp
                    \/ Source.build # 0 /\ Fault /\ esp' \in {esp, [esp EXCEPT ![u] = Copied(@.list)]}
                 /\ run' = Idle /\ latest' = latest
    BY DEF CopyChain
  <2>2. u \in UUIDs => [esp EXCEPT ![u] = With(esp[u], Source.build,
                             IF Source.damage = "seen" /\ ~Uefi THEN "hidden" ELSE Source.damage,
                             Source.set, @.list)]
                      = [esp EXCEPT ![u] = With(esp[u], Source.build,
                             IF Source.damage = "seen" /\ ~Uefi THEN "hidden" ELSE Source.damage,
                             Source.set, esp[u].list)]
    BY DEF EspInv
  <2> QED
    BY <2>1, <2>2
<1>3. Carries(run) /\ Handled(u, run)
  BY <1>1, <1>2, Records DEF Turn, Handled, Sorting
<1>4. u \notin run.set.foreign /\ run.op # "update"
  BY <1>2, LoopsOf DEF Turn, RunOK, Aimed
<1>5. \A list : Source.build # 0 => Fits(u, With(esp[u], Source.build, d, Source.set, list))
  BY <1>4 DEF Fits, With, ESP
<1> QED
  BY <1>2, <1>3, <1>5 DEF Proper, GivesUp

(* The loops that write the esp-uuids list or the marker keep the rest. *)
LEMMA ListFits ==
    ASSUME RunOK(run), EspInv, NEW p \in Blind, NEW u \in Turn(p), NEW list
    PROVE  Fits(u, With(esp[u], esp[u].build, esp[u].damage, esp[u].set, list))
BY DEF RunOK, Aimed, Turn, Fits, With, ESP, EspInv

(* So is the writing of the list. *)
LEMMA ListSteps ==
    ASSUME RunOK(run), EspInv, ListStep
    PROVE  \E u, e, r : Proper(u, e, r)
<1>1. DOMAIN run = Fields
  BY DEF RunOK
<1> DEFINE stop(u) == [run EXCEPT !.failed = TRUE, !.todo = IF run.op = "remove" THEN @ ELSE {u}]
           bad(u) == [stop(u) EXCEPT !.bad = @ \cup {run.src}]
           fail(u) == [stop(u) EXCEPT !.failed = (run.op # "update" \/ run.failed)]
           new(u) == With(esp[u], esp[u].build, esp[u].damage, esp[u].set, Grown(esp[u].list))
<1>2. PICK u \in Turn("lists") :
         Done(u, new(u), run) \/ Done(u, esp[u], bad(u)) \/ Done(u, esp[u], fail(u))
  BY DEF ListStep
<1>3. u \in run.todo /\ run.phase \notin Sorting
  BY <1>2 DEF Turn, Sorting
<1>4. Carries(run) /\ Handled(u, run)
  BY <1>1, <1>3, Records DEF Handled
<1>5. Carries(bad(u)) /\ bad(u).todo \in {run.todo, {u}} /\ Carries(fail(u)) /\ fail(u).todo \in {run.todo, {u}}
  BY <1>1 DEF Carries, Fields
<1>6. Fits(u, new(u))
  BY <1>2, ListFits DEF Blind
<1> HIDE DEF bad, fail, new
<1>7. Handled(u, bad(u)) /\ Handled(u, fail(u))
  BY <1>3, <1>5 DEF Handled
<1> QED
  BY <1>2, <1>4, <1>5, <1>6, <1>7, SameFits DEF Proper

(* So are the record of the set and the copy of the settings. *)
LEMMA ConfigSteps ==
    ASSUME RunOK(run), EspInv, RecordStep \/ SyncStep
    PROVE  \E u, e, r : Proper(u, e, r)
<1>1. DOMAIN run = Fields
  BY DEF RunOK
<1> DEFINE new(u, list) == With(esp[u], esp[u].build, esp[u].damage, esp[u].set, list)
<1>2. PICK p, u, list :
         /\ p \in {"record", "sync"} /\ u \in Turn(p)
         /\ Done(u, esp[u], run) \/ Done(u, new(u, list), Wrote) \/ Done(u, esp[u], Failing(u))
  BY DEF RecordStep, SyncStep
<1>3. u \in run.todo /\ run.phase \notin Sorting
  BY <1>2 DEF Turn, Sorting
<1>4. Carries(run) /\ Handled(u, run) /\ Carries(Wrote) /\ Handled(u, Wrote)
      /\ Carries(Failing(u)) /\ Handled(u, Failing(u))
  BY <1>1, <1>3, Records DEF Handled
<1>5. Fits(u, new(u, list))
  BY <1>2, ListFits DEF Blind
<1> HIDE DEF new
<1> QED
  BY <1>2, <1>4, <1>5, SameFits DEF Proper

(* So is the change of a setting. *)
LEMMA SetSteps ==
    ASSUME RunOK(run), EspInv, SetStep
    PROVE  \E u, e, r : Proper(u, e, r)
<1>1. DOMAIN run = Fields
  BY DEF RunOK
<1> DEFINE new(u) == With(esp[u], esp[u].build, esp[u].damage, run.val, esp[u].list)
<1>2. PICK u, c :
         /\ u \in Turn("set")
         /\ \/ Usable(run, u) /\ esp[u].build # 0 /\ Done(u, new(u), [run EXCEPT !.changed = c])
            \/ Done(u, esp[u], Failing(u))
  BY DEF SetStep
<1>3. run.op # "update" /\ u \in run.todo
  BY <1>2, LoopsOf DEF Turn
<1>4. Carries(Failing(u)) /\ Handled(u, Failing(u))
  BY <1>1, <1>3, Records DEF Handled
<1>5. CASE Usable(run, u) /\ esp[u].build # 0 /\ Done(u, new(u), [run EXCEPT !.changed = c])
  <2>1. Carries([run EXCEPT !.changed = c]) /\ Handled(u, [run EXCEPT !.changed = c])
    BY <1>1, <1>3, <1>5, Records DEF Handled, Usable, Foreign
  <2>2. Fits(u, new(u))
    BY <1>3, <1>5 DEF Fits, With, ESP, Usable, Foreign
  <2> QED
    BY <1>5, <2>1, <2>2 DEF Proper
<1> QED
  BY <1>2, <1>4, <1>5, SameFits DEF Proper

(* So is the removal of the marker. *)
LEMMA UnmarkSteps ==
    ASSUME RunOK(run), EspInv, UnmarkStep
    PROVE  \E u, e, r : Proper(u, e, r)
<1>1. DOMAIN run = Fields
  BY DEF RunOK
<1>2. PICK u \in Turn("unmark") :
         Done(u, Marked(esp[u], NoMarker), run) \/ Done(u, esp[u], [run EXCEPT !.failed = TRUE])
  BY DEF UnmarkStep
<1>3. u = run.arg /\ run.op = "remove" /\ u \in run.todo /\ run.phase \notin Sorting
  BY <1>2, LoopsOf DEF Turn, RunOK, Aimed, Sorting
<1>4. Carries(run) /\ Handled(u, run)
      /\ Carries([run EXCEPT !.failed = TRUE]) /\ Handled(u, [run EXCEPT !.failed = TRUE])
  BY <1>1, <1>3, Records DEF Handled
<1>5. Fits(u, Marked(esp[u], NoMarker))
  BY <1>3 DEF Fits, Marked, ESP, EspInv
<1> QED
  BY <1>2, <1>4, <1>5, SameFits DEF Proper

(* So is the installation on a member. *)
LEMMA InstallSteps ==
    ASSUME RunOK(run), EspInv, InstallStep
    PROVE  \E u, e, r : Proper(u, e, r)
<1>1. DOMAIN run = Fields
  BY DEF RunOK
<1> DEFINE new(u, list) == With(esp[u], latest, "no", 0, list)
<1>2. PICK u, list :
         /\ u \in Turn("install")
         /\ \/ Done(u, new(u, list), Wrote) \/ Done(u, new(u, list), Failing(u))
            \/ Done(u, esp[u], Failing(u))
  BY DEF InstallStep
<1>3. run.op = "install" /\ u \in run.todo /\ run.phase \notin Sorting
  BY <1>2, LoopsOf DEF Turn, Sorting
<1>4. Carries(Wrote) /\ Handled(u, Wrote) /\ Carries(Failing(u)) /\ Handled(u, Failing(u))
  BY <1>1, <1>3, Records DEF Handled
<1>5. Fits(u, new(u, list))
  BY <1>3 DEF Fits, With, ESP, RunOK, Own
<1> HIDE DEF new
<1> QED
  BY <1>2, <1>4, <1>5, SameFits DEF Proper

(* So is the last step of a run. *)
LEMMA FinalSteps ==
    ASSUME RunOK(run), EspInv, FinalStep
    PROVE  \E u, e, r : Proper(u, e, r)
<1>1. DOMAIN run = Fields
  BY DEF RunOK
<1> DEFINE id == InstallID(run.id)
           ok == [run EXCEPT !.id = id]
           no(u) == [ok EXCEPT !.bad = @ \cup {u}, !.failed = run.failed \/ run.op # "setting"]
<1>2. PICK u, m :
         /\ u \in Turn("final")
         /\ Done(u, Marked(esp[u], m), ok) \/ Done(u, esp[u], no(u))
  BY DEF FinalStep
<1>3. u \in run.todo /\ run.phase \notin Sorting
  BY <1>2 DEF Turn, Sorting
<1>4. Carries(ok) /\ ok.todo = run.todo /\ Carries(no(u)) /\ no(u).todo = run.todo
  BY <1>1 DEF Carries, Fields
<1> HIDE DEF ok, no
<1>5. Handled(u, ok) /\ Handled(u, no(u))
  BY <1>3, <1>4 DEF Handled
<1>6. Fits(u, Marked(esp[u], m))
  BY <1>2 DEF Fits, Marked, ESP, EspInv, RunOK, Aimed, Turn, Blind
<1> QED
  BY <1>2, <1>4, <1>5, <1>6, SameFits DEF Proper

(* Every step of a run is proper or gives up. *)
LEMMA StepIsProper ==
    ASSUME RunOK(run), EspInv, Step
    PROVE  GivesUp \/ \E u, e, r : Proper(u, e, r)
BY MemberSteps, CopySteps, ListSteps, ConfigSteps, SetSteps, UnmarkSteps, InstallSteps, FinalSteps
   DEF Step
-----------------------------------------------------------------------------
(* A command starts with a run that its first loop may go on from. *)
LEMMA StartOK ==
    ASSUME NEW r, DOMAIN r = Fields, r.op \in Ops, Start(r),
           r.op \in {"install", "adopt"} => r.set.foreign = {},
           r.op = "add" => r.added \cap r.set.foreign = {}
    PROVE  RunInv' /\ UNCHANGED <<esp, latest>>
<1>1. PICK src \in SourceOf(r) : run' = Enter([r EXCEPT !.force = @ /\ Foreign(r) # {}, !.src = src], 0)
  BY DEF Start
<1> DEFINE s == [r EXCEPT !.force = @ /\ Foreign(r) # {}, !.src = src]
<1>2. DOMAIN s = Fields /\ s.op = r.op /\ s.arg = r.arg /\ s.set = r.set /\ s.added = r.added /\ s.src = src
  BY DEF Fields
<1>3. run' = Enter(s, 0)
  BY <1>1
<1>4. src = NoUUID \/ src \notin r.set.foreign
  BY <1>1 DEF SourceOf, Sources, Foreign
<1> HIDE DEF s
<1>5. Own(s) /\ s.op \in Ops
  BY <1>2, <1>4 DEF Own
<1>6. Enter(s, 0) = Idle \/ RunOK(Enter(s, 0))
  BY <1>2, <1>5, EnterOK
<1> QED
  BY <1>3, <1>6 DEF RunInv, Start

(* A run that discoverHost starts is of the command that was given. *)
LEMMA DiscoveredRun ==
    ASSUME NEW op, NEW arg, NEW force, NEW val, NEW explicit, NEW dead
    PROVE  LET r == Discovered(op, arg, force, val, explicit, dead)
           IN /\ DOMAIN r = Fields /\ r.op = op /\ r.arg = arg /\ r.added \subseteq {arg}
              /\ r.added \cap r.set.foreign = {}
<1> DEFINE set == SelectHost(Scan, explicit, primary)
           r == Discovered(op, arg, force, val, explicit, dead)
<1>1. set.foreign \subseteq set.members
  BY ForeignMembers
<1> HIDE DEF set
<1>2. /\ DOMAIN r = Fields /\ r.op = op /\ r.arg = arg /\ r.set = set
      /\ r.added = IF arg \in {NoUUID} \cup set.members THEN {} ELSE {arg}
  BY DEF Discovered, Run, Fields, set
<1> HIDE DEF r
<1>3. r.added \subseteq {arg} /\ r.added \cap r.set.foreign = {}
  BY <1>1, <1>2
<1> QED
  BY <1>2, <1>3 DEF r

(* esp adopt starts with a set that has no foreign member. *)
LEMMA AdoptedRun ==
    ASSUME NEW infos, NEW set, NEW args, NEW force, NEW dead
    PROVE  LET r == AdoptRun(infos, set, args, force, dead)
           IN DOMAIN r = Fields /\ r.op = "adopt" /\ r.set.foreign = {}
BY DEF AdoptRun, HostSet, Run, Fields

(* So does install. *)
LEMMA InstalledRun ==
    ASSUME NEW infos, NEW listed, NEW root, NEW force, NEW explicit
    PROVE  LET r == InstallRun(infos, listed, root, force, explicit)
           IN DOMAIN r = Fields /\ r.op = "install" /\ r.set.foreign = {}
BY DEF InstallRun, HostSet, Run, Fields

(* A command starts in order and has not written yet. *)
LEMMA CommandOK ==
    ASSUME Command
    PROVE  RunInv' /\ UNCHANGED <<esp, latest>>
<1>1. ASSUME NEW add, NEW force, NEW list, NEW dead, Update(add, force, list, dead)
      PROVE  RunInv' /\ UNCHANGED <<esp, latest>>
  <2> DEFINE r == Discovered("update", add, force, 0, list, dead)
  <2>1. Start(r)
    BY <1>1 DEF Update
  <2>2. DOMAIN r = Fields /\ r.op = "update"
    BY DiscoveredRun
  <2> HIDE DEF r
  <2> QED
    BY <2>1, <2>2, StartOK DEF Ops
<1>2. ASSUME NEW add, NEW force, NEW dead, EspAdd(add, force, dead)
      PROVE  RunInv' /\ UNCHANGED <<esp, latest>>
  <2> DEFINE r == Discovered("add", add, force, 0, <<>>, dead)
  <2>1. Start(r)
    BY <1>2 DEF EspAdd
  <2>2. DOMAIN r = Fields /\ r.op = "add" /\ r.added \cap r.set.foreign = {}
    BY DiscoveredRun
  <2> HIDE DEF r
  <2> QED
    BY <2>1, <2>2, StartOK DEF Ops
<1>3. ASSUME NEW val, NEW dead, Setting(val, dead)
      PROVE  RunInv' /\ UNCHANGED <<esp, latest>>
  <2> DEFINE r == Discovered("setting", NoUUID, FALSE, val, <<>>, dead)
  <2>1. Start(r)
    BY <1>3 DEF Setting
  <2>2. DOMAIN r = Fields /\ r.op = "setting"
    BY DEF Discovered, Run, Fields
  <2> HIDE DEF r
  <2> QED
    BY <2>1, <2>2, StartOK DEF Ops
<1>4. ASSUME NEW u, NEW dead, EspRemove(u, dead)
      PROVE  RunInv' /\ UNCHANGED <<esp, latest>>
  <2> DEFINE r == Discovered("remove", NoUUID, FALSE, 0, <<>>, dead)
             s == [r EXCEPT !.arg = u]
  <2>1. Start(s)
    BY <1>4 DEF EspRemove
  <2>2. DOMAIN r = Fields /\ r.op = "remove"
    BY DEF Discovered, Run, Fields
  <2> HIDE DEF r
  <2>3. DOMAIN s = Fields /\ s.op = "remove"
    BY <2>2 DEF Fields
  <2> HIDE DEF s
  <2> QED
    BY <2>1, <2>3, StartOK DEF Ops
<1>5. ASSUME NEW args, NEW force, NEW dead, EspAdopt(args, force, dead)
      PROVE  RunInv' /\ UNCHANGED <<esp, latest>>
  <2>1. PICK infos, set : Start(AdoptRun(infos, set, args, force, dead))
    BY <1>5 DEF EspAdopt
  <2> DEFINE r == AdoptRun(infos, set, args, force, dead)
  <2>2. DOMAIN r = Fields /\ r.op = "adopt" /\ r.set.foreign = {}
    BY AdoptedRun
  <2> HIDE DEF r
  <2> QED
    BY <2>1, <2>2, StartOK DEF r, Ops
<1>6. ASSUME NEW root, NEW force, NEW explicit, Install(root, force, explicit)
      PROVE  RunInv' /\ UNCHANGED <<esp, latest>>
  <2>1. PICK infos, listed : Start(InstallRun(infos, listed, root, force, explicit))
    BY <1>6 DEF Install
  <2> DEFINE r == InstallRun(infos, listed, root, force, explicit)
  <2>2. DOMAIN r = Fields /\ r.op = "install" /\ r.set.foreign = {}
    BY InstalledRun
  <2> HIDE DEF r
  <2> QED
    BY <2>1, <2>2, StartOK DEF r, Ops
<1> QED
  BY <1>1, <1>2, <1>3, <1>4, <1>5, <1>6 DEF Command

-----------------------------------------------------------------------------
(* A proper step keeps the invariant, the foreign ESPs and, in an update, the settings. *)
Kept ==
    \A u \in UUIDs :
       /\ (u \in Foreign(run) /\ ~run.force /\ (run.op = "remove" => u # run.arg)) => esp'[u] = esp[u]
       /\ (run.op = "update" /\ esp[u].set # 0) => esp'[u].set = esp[u].set

(* No command, no set. *)
LEMMA IdleRun == Idle.op = "none" /\ Idle.set.foreign = {}
BY DEF Idle, Run, Refused, HostSet

(* A proper step keeps the invariant, the foreign ESPs and the settings. *)
LEMMA ProperKeeps ==
    ASSUME RunOK(run), EspInv, NEW u, NEW e, NEW r, Proper(u, e, r)
    PROVE  Inv' /\ Kept
<1>1. RunInv'
  BY DoneOK DEF Proper
<1>2. esp' = [esp EXCEPT ![u] = e] /\ latest' = latest
  BY DEF Proper, Done
<1>3. DOMAIN esp = UUIDs
  BY DEF EspInv
<1>4. \A v \in UUIDs : esp'[v] = IF v = u THEN e ELSE esp[v]
  BY <1>2, <1>3
<1>5. EspInv'
  <2>1. esp' = [v \in UUIDs |-> esp'[v]]
    BY <1>2, <1>3
  <2> QED
    BY <1>2, <1>4, <2>1 DEF EspInv, Proper, Fits
<1>6. Kept
  BY <1>4 DEF Kept, Proper, Fits, Foreign
<1> QED
  BY <1>1, <1>5, <1>6 DEF Inv

(* So does a step that writes nothing. *)
LEMMA SameKeeps ==
    ASSUME EspInv, RunInv', UNCHANGED <<esp, latest>>
    PROVE  Inv' /\ Kept
BY DEF Inv, EspInv, Kept

(* So does a step that ends the run with one ESP written. *)
LEMMA GivesUpKeeps ==
    ASSUME RunOK(run), EspInv, GivesUp
    PROVE  Inv' /\ Kept
<1>1. RunInv'
  BY DEF GivesUp, RunInv
<1>2. CASE esp' = esp
  BY <1>1, <1>2, SameKeeps DEF GivesUp
<1>3. CASE \E u, e : esp' = [esp EXCEPT ![u] = e] /\ Fits(u, e)
  <2>1. PICK u, e : esp' = [esp EXCEPT ![u] = e] /\ Fits(u, e)
    BY <1>3
  <2>2. DOMAIN esp = UUIDs /\ latest' = latest
    BY DEF EspInv, GivesUp
  <2>3. \A v \in UUIDs : esp'[v] = IF v = u THEN e ELSE esp[v]
    BY <2>1, <2>2
  <2>4. esp' = [v \in UUIDs |-> esp'[v]]
    BY <2>1, <2>2
  <2>5. EspInv'
    BY <2>1, <2>2, <2>3, <2>4 DEF EspInv, Fits
  <2>6. Kept
    BY <2>1, <2>3 DEF Kept, Fits, Foreign
  <2> QED
    BY <1>1, <2>5, <2>6 DEF Inv
<1> QED
  BY <1>2, <1>3 DEF GivesUp

(* So does every step. *)
LEMMA StepKeeps ==
    ASSUME Inv, [Next]_vars
    PROVE  Inv' /\ Kept
<1>1. CASE Command
  BY <1>1, CommandOK, SameKeeps DEF Inv
<1>2. CASE Step
  <2>1. run # Idle
    <3>1. Idle.phase = "idle" /\ Idle.todo = {}
      BY DEF Idle, Run
    <3>2. run = Idle => \A p : Turn(p) = {}
      BY <3>1 DEF Turn
    <3> QED
      BY <1>2, <3>2 DEF Step, MemberUnusable, MemberWrite, MemberUpToDate, CopyChain, ListStep,
            RecordStep, SyncStep, SetStep, UnmarkStep, InstallStep, FinalStep
  <2>2. RunOK(run) /\ EspInv
    BY <2>1 DEF Inv, RunInv
  <2>3. CASE GivesUp
    BY <2>2, <2>3, GivesUpKeeps
  <2>4. CASE \E u, e, r : Proper(u, e, r)
    BY <2>2, <2>4, ProperKeeps
  <2> QED
    BY <1>2, <2>2, <2>3, <2>4, StepIsProper
<1>3. CASE Crash
  BY <1>3, SameKeeps DEF Crash, Inv, RunInv
<1>4. CASE Plug
  BY <1>4, SameKeeps DEF Plug, Inv, RunInv
<1>5. CASE Release
  <2>1. run' = run /\ esp' = esp /\ latest' = latest + 1
    BY <1>5 DEF Release
  <2> QED
    BY <2>1 DEF Inv, RunInv, EspInv, Kept
<1>6. CASE Rot
  <2>1. PICK u \in here :
           /\ esp[u].build # 0
           /\ esp' = [esp EXCEPT ![u] = With(esp[u], esp[u].build, "seen", esp[u].set, esp[u].list)]
    BY <1>6 DEF Rot
  <2>2. run = Idle /\ run' = run /\ latest' = latest
    BY <1>6 DEF Rot, Between
  <2>3. DOMAIN esp = UUIDs
    BY DEF Inv, EspInv
  <2>4. \A v \in UUIDs : (esp'[v].build = 0 => esp'[v].set = 0)
    BY <2>1, <2>3 DEF Inv, EspInv, With, ESP
  <2>5. EspInv'
    BY <2>1, <2>2, <2>3, <2>4 DEF Inv, EspInv
  <2>6. Kept
    BY <2>2, IdleRun DEF Kept, Foreign
  <2> QED
    BY <2>2, <2>5, <2>6 DEF Inv, RunInv
<1>7. CASE UNCHANGED vars
  BY <1>7, SameKeeps DEF vars, Inv, RunInv
<1> QED
  BY <1>1, <1>2, <1>3, <1>4, <1>5, <1>6, <1>7 DEF Next

(* Inv holds at the start. *)
LEMMA InitInv == Init => Inv
<1> SUFFICES ASSUME Init PROVE Inv
  OBVIOUS
<1>1. /\ esp = [u \in UUIDs |-> esp[u]]
      /\ \A u \in UUIDs : esp[u].build = 0 => esp[u].set = 0
  <2>1. esp \in Hosts
    BY DEF Init
  <2>2. esp = [u \in UUIDs |-> esp[u]]
    BY <2>1, HostsAssumption
  <2>3. ASSUME NEW u \in UUIDs, esp[u].build = 0 PROVE esp[u].set = 0
    BY <2>1, <2>3, HostsAssumption
  <2> QED
    BY <2>2, <2>3
<1>2. latest \in Nat \ {0} /\ run = Idle
  BY MirrorBounds DEF Init
<1> QED
  BY <1>1, <1>2 DEF Inv, RunInv, EspInv

(* Inv always holds. *)
LEMMA Invariance == Spec => []Inv
<1>1. Inv /\ [Next]_vars => Inv'
  BY StepKeeps
<1> QED
  BY <1>1, InitInv, PTL DEF Spec

(* No command writes an ESP that discovery found to belong to another         *)
(* installation (usable, remainingMembers and finalizeMembers in mirror.go),  *)
(* unless --force-adopt was given or esp remove names it, whatever is on the  *)
(* ESPs, whatever fails and wherever a run is killed.  esp adopt, which takes *)
(* every listed ESP for its own, is not covered.                              *)
THEOREM ForeignSafe == Spec => ForeignUntouched
<1>1. Inv /\ [Next]_vars =>
         [\A u \in UUIDs : (u \in Foreign(run) /\ ~run.force /\ (run.op = "remove" => u # run.arg)) => esp'[u] = esp[u]]_vars
  BY StepKeeps DEF Kept
<1> QED
  BY <1>1, Invariance, PTL DEF Spec, ForeignUntouched

(* An update keeps a setting an ESP carries (repairMember's refusal and the   *)
(* installed command line kept by updateBIOSTarget), for any set of ESPs.     *)
THEOREM SettingsSurvive == Spec => SettingKept
<1>1. Inv /\ [Next]_vars =>
         [\A u \in UUIDs : (run.op = "update" /\ esp[u].set # 0) => esp'[u].set = esp[u].set]_vars
  BY StepKeeps DEF Kept
<1> QED
  BY <1>1, Invariance, PTL DEF Spec, SettingKept
-----------------------------------------------------------------------------
(* After an update that reports success the members agree.  The loops of   *)
(* update bring every member to the latest build, then to the source's     *)
(* list, then to one marker; a run that has not failed has done so for the *)
(* members its loops are through with.                                     *)

\* What a run has of its ESPs, and does not change until its end.
Known(r) ==
    /\ r.members \subseteq DOMAIN r.infos /\ r.set.members \subseteq DOMAIN r.infos
    /\ DOMAIN r.infos \subseteq UUIDs
    /\ \A u \in DOMAIN r.infos : GenOf(r, u) \in Nat
    /\ r.added \subseteq r.members
    /\ r.op = "update" => r.added \subseteq {r.arg}
Typed(r) ==
    /\ Known(r)
    /\ r.src \in r.members \cup {NoUUID}
    /\ r.op = "add" => r.src # NoUUID
    /\ r.todo \subseteq r.members

\* The generation and the marker an update ends with.
UpGen(r) == IF r.wrote \/ MaxGeneration(r) = 0 THEN MaxGeneration(r) + 1 ELSE MaxGeneration(r)
Seal(r, u) == Marker(1, r.id, UpGen(r), u, Expected(r))

\* d are the ESPs, b the latest build.
Levelled(r, d, b) ==
    \A u \in r.members : (r.phase = "member" /\ u \in r.todo) \/ (u \notin r.dead /\ d[u].build = b)
Synced(r, d) ==
    r.src # NoUUID =>
        \A u \in r.members \ {r.src} : (r.phase = "sync" /\ u \in r.todo) \/ d[u].list = d[r.src].list
Sealed(r, d) ==
    \A u \in r.members : (r.phase = "final" /\ u \in r.todo) \/ (r.id # NoId /\ d[u].marker = Seal(r, u))
Grounded(r, d) ==
    /\ r.bad = {}
    /\ r.src = NoUUID => Sources(r) = {}
    /\ r.phase = "sync" => r.src \notin r.todo
    /\ r.id = NoId => \E i \in Ids : \A u \in UUIDs : d[u].marker.id # i
Brought(r, d, b) ==
    r.op = "update" /\ ~r.failed =>
        /\ Grounded(r, d) /\ Levelled(r, d, b)
        /\ r.phase \in {"sync", "final"} => Synced(r, d)
        /\ r.phase = "final" => Sealed(r, d)

\* One build, one list and one marker, but for the UUID in it.
Alike(S, d) ==
    \A u, v \in S :
        /\ u \in UUIDs
        /\ d[u].build = d[v].build /\ d[u].list = d[v].list
        /\ d[u].marker.format = 1 /\ d[u].marker.uuid = u /\ d[u].marker.id # NoId
        /\ d[u].marker.id = d[v].marker.id /\ d[u].marker.gen = d[v].marker.gen

DiskInv ==
    /\ here \subseteq UUIDs
    /\ \A u \in UUIDs : esp[u].build \in 0 .. latest /\ esp[u].marker.gen \in Nat

UpdateInv ==
    /\ DiskInv
    /\ run = Idle \/ (Typed(run) /\ Brought(run, esp, latest))
    /\ Updated => Alike(ended.members, esp)

-----------------------------------------------------------------------------
(* From loop to loop. *)

(* A phase goes over members of the set. *)
LEMMA OverMembers ==
    ASSUME NEW r, r.added \subseteq r.members, r.src \in r.members \cup {NoUUID},
           r.op \in Ops, NEW p \in PhasesOf(r.op)
    PROVE  Over(r, p) \subseteq r.members
<1>1. Good(r) \subseteq r.members /\ Rest(r) \subseteq r.members
  BY DEF Good, Rest
<1>2. p \in {"member", "set", "install", "copy", "unmark", "lists", "record", "sync", "final"}
  BY PhaseTable DEF PhasesOf, Ops
<1> QED
  BY <1>1, <1>2 DEF Over

\* What Typed and Brought speak of, but for the phase and what is left of it.
SameSet(q, r) ==
    /\ q.op = r.op /\ q.arg = r.arg /\ q.set = r.set /\ q.members = r.members /\ q.added = r.added
    /\ q.infos = r.infos /\ q.dead = r.dead /\ q.src = r.src

(* The seal depends on the set the run works on and on what it has written. *)
LEMMA SameSeal ==
    ASSUME NEW q, NEW r, SameSet(q, r)
    PROVE  /\ q.wrote = r.wrote => UpGen(q) = UpGen(r)
           /\ Expected(q) = Expected(r) /\ Sources(q) = Sources(r)
<1>1. MaxGeneration(q) = MaxGeneration(r)
  BY DEF SameSet, MaxGeneration, GenOf, Foreign
<1> QED
  BY <1>1 DEF SameSet, UpGen, Expected, Sources, Foreign

(* A run with the same set is typed like the one before. *)
LEMMA TypedLike ==
    ASSUME NEW q, NEW r, SameSet(q, r), Typed(r), q.todo \subseteq q.members
    PROVE  Typed(q)
<1>1. \A u \in DOMAIN q.infos : GenOf(q, u) \in Nat
  BY DEF Typed, Known, GenOf, SameSet
<1> QED
  BY <1>1 DEF Typed, Known, SameSet

(* The first loop of an update goes over all members. *)
LEMMA BeginBrought ==
    ASSUME NEW r, DOMAIN r = Fields, r.op = "update", r.src \in r.members \cup {NoUUID},
           r.added \subseteq r.members, Enter(r, 0) # Idle
    PROVE  Enter(r, 0).phase = "member" /\ Enter(r, 0).todo = r.members
<1>1. PICK m \in DOMAIN Phases(r.op) :
         /\ m > 0
         /\ \A k \in DOMAIN Phases(r.op) : (k > 0 /\ k < m) => Over(r, Phases(r.op)[k]) = {}
         /\ Enter(r, 0) = [r EXCEPT !.phase = Phases(r.op)[m], !.todo = Over(r, Phases(r.op)[m])]
  BY Entered DEF Ops
<1>2. DOMAIN Phases(r.op) = 1 .. 5 /\ Phases(r.op)[1] = "member"
  BY PhaseTable
<1>3. Over(r, "member") = r.members
  BY DEF Over
<1>4. CASE m = 1
  BY <1>1, <1>2, <1>3, <1>4 DEF Fields
<1>5. CASE m > 1
  <2>1. r.members = {}
    BY <1>1, <1>2, <1>3, <1>5
  <2>2. Over(r, Phases(r.op)[m]) = {}
    BY <2>1, OverMembers DEF PhasesOf, Ops
  <2> DEFINE later == {k \in DOMAIN Phases(r.op) : k > 0 /\ Over(r, Phases(r.op)[k]) # {}}
  <2>3. later = {}
    BY <2>1, OverMembers DEF PhasesOf, Ops
  <2> QED
    BY <2>3 DEF Enter
<1> QED
  BY <1>1, <1>2, <1>4, <1>5

(* An update that goes on to its next loop has brought its members as far  *)
(* as the loop needs: a loop that is skipped had nothing to bring.         *)
LEMMA EnterBrought ==
    ASSUME NEW r, DOMAIN r = Fields, r.op = "update", Typed(r), r.todo = {},
           r.phase \in PhasesOf("update"), NEW d, NEW b, Brought(r, d, b),
           Enter(r, PhaseNr(r)) # Idle
    PROVE  Brought(Enter(r, PhaseNr(r)), d, b)
<1> DEFINE n == PhaseNr(r)
           q == Enter(r, n)
<1>1. n \in 1 .. 5 /\ Phases("update")[n] = r.phase
  <2>1. \E k \in DOMAIN Phases("update") : Phases("update")[k] = r.phase
    BY DEF PhasesOf
  <2> QED
    BY <2>1, PhaseTable DEF PhaseNr
<1>0. Enter(r, n) # Idle /\ n \in Nat /\ r.op \in Ops
  BY <1>1 DEF Ops
<1> HIDE DEF n
<1>2. PICK m \in DOMAIN Phases(r.op) :
         /\ m > n
         /\ \A k \in DOMAIN Phases(r.op) : (k > n /\ k < m) => Over(r, Phases(r.op)[k]) = {}
         /\ q = [r EXCEPT !.phase = Phases(r.op)[m], !.todo = Over(r, Phases(r.op)[m])]
  BY <1>0, Entered
<1> DEFINE p == Phases(r.op)[m]
<1>3. /\ q.phase = p /\ q.todo = Over(r, p) /\ SameSet(q, r)
      /\ q.bad = r.bad /\ q.wrote = r.wrote /\ q.failed = r.failed /\ q.id = r.id
  BY <1>2 DEF Fields, SameSet
<1> HIDE DEF q
<1> SUFFICES ASSUME ~r.failed
             PROVE  /\ Grounded(q, d) /\ Levelled(q, d, b)
                    /\ q.phase \in {"sync", "final"} => Synced(q, d)
                    /\ q.phase = "final" => Sealed(q, d)
  BY <1>3 DEF Brought, SameSet, q, n
<1>4. /\ Grounded(r, d) /\ Levelled(r, d, b)
      /\ r.phase \in {"sync", "final"} => Synced(r, d)
  BY DEF Brought
<1>5. \A u \in r.members : u \notin r.dead /\ d[u].build = b
  BY <1>4 DEF Levelled
<1>6. Good(r) = r.members
  BY <1>4, <1>5 DEF Good, Grounded
<1>7. m \in 2 .. 5 /\ DOMAIN Phases(r.op) = 1 .. 5
  BY <1>1, <1>2, PhaseTable
<1>8. Levelled(q, d, b)
  BY <1>3, <1>5 DEF Levelled, SameSet
<1>9. Over(r, "sync") = IF r.src = NoUUID THEN {} ELSE r.members \ {r.src}
  BY <1>6 DEF Over
<1>10. Over(r, "final") = r.members
  BY <1>6 DEF Over
<1>11. Sources(q) = Sources(r)
  BY <1>3, SameSeal
<1>12. Grounded(q, d)
  <2>1. q.phase = "sync" => q.src \notin q.todo
    BY <1>3, <1>9 DEF SameSet
  <2> QED
    BY <1>3, <1>4, <1>11, <2>1 DEF Grounded, SameSet
<1>13. q.phase \in {"sync", "final"} => Synced(q, d)
  <2>1. CASE p = "sync"
    BY <1>3, <1>9, <2>1 DEF Synced, SameSet
  <2>2. CASE p = "final"
    <3>1. m = 5
      BY <1>7, <2>2, PhaseTable
    <3>2. CASE n = 4
      <4>1. Synced(r, d)
        BY <1>1, <1>4, <3>2, PhaseTable
      <4> QED
        BY <1>3, <4>1 DEF Synced, SameSet
    <3>3. CASE n < 4
      <4>1. Over(r, "sync") = {}
        BY <1>1, <1>2, <1>7, <3>1, <3>3, PhaseTable
      <4> QED
        BY <1>3, <1>9, <4>1 DEF Synced, SameSet
    <3> QED
      BY <1>1, <1>2, <3>1, <3>2, <3>3
  <2> QED
    BY <1>3, <2>1, <2>2
<1>14. q.phase = "final" => Sealed(q, d)
  BY <1>3, <1>10 DEF Sealed, SameSet
<1> QED
  BY <1>8, <1>12, <1>13, <1>14

(* An update that ends without a failure leaves its members alike. *)
LEMMA EndAlike ==
    ASSUME NEW r, DOMAIN r = Fields, r.op = "update", Typed(r), r.todo = {},
           r.phase \in PhasesOf("update"), NEW d, NEW b, Brought(r, d, b), ~r.failed,
           Enter(r, PhaseNr(r)) = Idle
    PROVE  Alike(Good(r) \ Foreign(r), d)
<1> DEFINE n == PhaseNr(r)
           later == {m \in DOMAIN Phases(r.op) : m > n /\ Over(r, Phases(r.op)[m]) # {}}
<1>1. n \in 1 .. 5 /\ Phases("update")[n] = r.phase
  <2>1. \E k \in DOMAIN Phases("update") : Phases("update")[k] = r.phase
    BY DEF PhasesOf
  <2> QED
    BY <2>1, PhaseTable DEF PhaseNr
<1>2. later = {}
  <2> SUFFICES ASSUME later # {} PROVE FALSE
    OBVIOUS
  <2>1. Idle = [r EXCEPT !.phase = Phases(r.op)[First(later)], !.todo = Over(r, Phases(r.op)[First(later)])]
    BY DEF Enter
  <2>2. Idle.op = "update"
    BY <2>1 DEF Fields
  <2> QED
    BY <2>2, IdleRun
<1> HIDE DEF n
<1>3. /\ Grounded(r, d) /\ Levelled(r, d, b)
      /\ r.phase \in {"sync", "final"} => Synced(r, d)
      /\ r.phase = "final" => Sealed(r, d)
  BY DEF Brought
<1>4. \A u \in r.members : u \notin r.dead /\ d[u].build = b
  BY <1>3 DEF Levelled
<1>5. Good(r) = r.members
  BY <1>3, <1>4 DEF Good, Grounded
<1>6. Over(r, "final") = r.members
  BY <1>5 DEF Over
<1>7. CASE n < 5
  <2>1. r.members = {}
    <3>1. 5 \in DOMAIN Phases(r.op) /\ Phases(r.op)[5] = "final"
      BY PhaseTable
    <3> QED
      BY <1>1, <1>2, <1>6, <1>7, <3>1
  <2> QED
    BY <1>5, <2>1 DEF Alike
<1>8. CASE n = 5
  <2>1. r.phase = "final"
    BY <1>1, <1>8, PhaseTable
  <2>2. \A u \in r.members : r.id # NoId /\ d[u].marker = Seal(r, u)
    BY <1>3, <2>1 DEF Sealed
  <2>3. \A u \in r.members : /\ r.id # NoId /\ d[u].marker.format = 1 /\ d[u].marker.uuid = u
                             /\ d[u].marker.id = r.id /\ d[u].marker.gen = UpGen(r)
    <3> SUFFICES ASSUME NEW u \in r.members
                 PROVE  /\ r.id # NoId /\ d[u].marker.format = 1 /\ d[u].marker.uuid = u
                        /\ d[u].marker.id = r.id /\ d[u].marker.gen = UpGen(r)
      OBVIOUS
    <3> DEFINE x == d[u].marker
               g == UpGen(r)
               all == Expected(r)
    <3>1. r.id # NoId /\ x = Marker(1, r.id, g, u, all)
      BY <2>2 DEF Seal
    <3> HIDE DEF x, g, all
    <3>2. r.id # NoId /\ x.format = 1 /\ x.uuid = u /\ x.id = r.id /\ x.gen = g
      BY <3>1 DEF Marker
    <3> QED
      BY <3>2 DEF x, g
  <2>4. \A u, v \in r.members \ Foreign(r) : d[u].list = d[v].list
    <3>1. CASE r.src # NoUUID
      <4>1. \A u \in r.members : d[u].list = d[r.src].list
        BY <1>3, <2>1, <3>1 DEF Synced
      <4> QED
        BY <4>1
    <3>2. CASE r.src = NoUUID
      <4>1. r.members \ Foreign(r) \subseteq {r.arg}
        BY <1>3, <1>4, <3>2 DEF Grounded, Sources, Typed, Known
      <4> QED
        BY <4>1
    <3> QED
      BY <3>1, <3>2
  <2>5. r.members \subseteq UUIDs
    BY DEF Typed, Known
  <2> QED
    BY <1>4, <1>5, <2>3, <2>4, <2>5 DEF Alike
<1> QED
  BY <1>1, <1>7, <1>8

-----------------------------------------------------------------------------
(* The steps of a run: r is the run with what the step recorded, e what    *)
(* the step left on u.                                                     *)
After(r, u) == [r EXCEPT !.todo = @ \ {u}]
Disks(u, e) == [esp EXCEPT ![u] = e]
Sound(e) == e.build \in 0 .. latest /\ e.marker.gen \in Nat
Onward(u, e, r) ==
    /\ Done(u, e, r) /\ Carries(r) /\ u \in run.members /\ r.todo \subseteq run.todo
    /\ Sound(e)
    /\ Brought(After(r, u), Disks(u, e), latest)
Going == RunOK(run) /\ EspInv /\ DiskInv /\ Typed(run) /\ Brought(run, esp, latest)

(* A run after its turn with u has the same set, and u is no longer to do. *)
LEMMA AfterRun ==
    ASSUME NEW r, NEW u, Carries(r)
    PROVE  /\ DOMAIN After(r, u) = Fields
           /\ SameSet(After(r, u), run) /\ After(r, u).phase = run.phase
           /\ After(r, u).todo = r.todo \ {u} /\ After(r, u).bad = r.bad /\ After(r, u).failed = r.failed
           /\ After(r, u).id = r.id /\ After(r, u).wrote = r.wrote
BY DEF After, Carries, SameSet, Fields

(* A turn that leaves the others to do takes u, and u only, off the list. *)
LEMMA AfterTurn ==
    ASSUME NEW r, NEW u, Carries(r), r.todo = run.todo
    PROVE  /\ SameSet(After(r, u), run) /\ After(r, u).phase = run.phase
           /\ After(r, u).todo = run.todo \ {u}
BY AfterRun

(* What an update that has not failed has brought about so far. *)
LEMMA SoFar ==
    ASSUME Going, ~run.failed, run.op = "update"
    PROVE  /\ Grounded(run, esp) /\ Levelled(run, esp, latest)
           /\ run.phase \in {"sync", "final"} => Synced(run, esp)
           /\ run.phase = "final" => Sealed(run, esp)
BY DEF Going, Brought

(* A turn writes to the disk whose turn it is. *)
LEMMA DisksAt ==
    ASSUME EspInv, NEW u, NEW e
    PROVE  \A v \in UUIDs : Disks(u, e)[v] = IF v = u THEN e ELSE esp[v]
<1>1. DOMAIN esp = UUIDs
  BY DEF EspInv
<1> QED
  BY <1>1 DEF Disks

(* A member in turn is a known, sound disk. *)
LEMMA TurnOf ==
    ASSUME Going, NEW p, NEW u \in Turn(p)
    PROVE  /\ run.phase = p /\ u \in run.todo /\ u \in run.members /\ u \in UUIDs
           /\ DOMAIN run = Fields /\ Sound(esp[u])
<1>1. run.phase = p /\ u \in run.todo
  BY DEF Turn
<1>2. u \in run.members /\ u \in UUIDs
  BY <1>1 DEF Going, Typed, Known
<1> QED
  BY <1>1, <1>2 DEF Going, DiskInv, Sound, RunOK

(* A failure, or another command: nothing more to bring. *)
LEMMA OthersOnward ==
    ASSUME NEW r, NEW u, NEW e, Done(u, e, r), Carries(r), u \in run.members, r.todo \subseteq run.todo,
           Sound(e), r.failed \/ run.op # "update"
    PROVE  Onward(u, e, r)
<1>1. After(r, u).op = run.op /\ After(r, u).failed = r.failed
  BY AfterRun DEF SameSet
<1>2. Brought(After(r, u), Disks(u, e), latest)
  BY <1>1 DEF Brought
<1> QED
  BY <1>2 DEF Onward

(* The loops after the first keep the builds. *)
LEMMA StillLevelled ==
    ASSUME EspInv, Typed(run), Levelled(run, esp, latest), run.phase # "member",
           NEW r, NEW u, NEW e, Carries(r), e.build = esp[u].build
    PROVE  Levelled(After(r, u), Disks(u, e), latest)
<1>1. SameSet(After(r, u), run)
  BY AfterRun
<1>2. \A v \in run.members : v \in UUIDs /\ v \notin run.dead /\ esp[v].build = latest
  BY DEF Levelled, Typed, Known
<1>3. \A v \in run.members : Disks(u, e)[v].build = latest
  BY <1>2, DisksAt
<1> QED
  BY <1>1, <1>2, <1>3 DEF Levelled, SameSet

(* No member has failed and, until the installation has an id, no marker changes. *)
LEMMA StillGrounded ==
    ASSUME EspInv, Grounded(run, esp),
           NEW r, NEW u, NEW e, Carries(r), r.bad = {}, r.todo \subseteq run.todo,
           r.id = NoId => run.id = NoId /\ e.marker.id = esp[u].marker.id
    PROVE  Grounded(After(r, u), Disks(u, e))
<1> DEFINE q == After(r, u)
           d == Disks(u, e)
<1>1. /\ SameSet(q, run) /\ q.phase = run.phase /\ q.todo = r.todo \ {u} /\ q.bad = r.bad /\ q.id = r.id
  BY AfterRun
<1>2. \A v \in UUIDs : d[v] = IF v = u THEN e ELSE esp[v]
  BY DisksAt
<1> HIDE DEF q, d
<1>3. Sources(q) = Sources(run)
  BY <1>1, SameSeal
<1>4. q.id = NoId => \E i \in Ids : \A v \in UUIDs : d[v].marker.id # i
  BY <1>1, <1>2 DEF Grounded
<1> QED
  BY <1>1, <1>3, <1>4 DEF Grounded, SameSet, q, d

-----------------------------------------------------------------------------
(* The first loop brings a member to the latest build. *)
LEMMA LevelOnward ==
    ASSUME Going, NEW u \in Turn("member"), NEW e, NEW r \in {run, Wrote},
           Done(u, e, r), Usable(run, u), e.build = latest, e.marker = esp[u].marker
    PROVE  Onward(u, e, r)
<1>1. run.phase = "member" /\ u \in run.todo /\ u \in run.members /\ u \in UUIDs /\ DOMAIN run = Fields
  BY TurnOf
<1>2. /\ Carries(r) /\ r.todo = run.todo /\ r.bad = run.bad /\ r.failed = run.failed /\ r.id = run.id
  BY <1>1, WroteRun
<1>3. Sound(e)
  BY <1>1 DEF Going, DiskInv, EspInv, Sound
<1>4. CASE run.failed \/ run.op # "update"
  BY <1>1, <1>2, <1>3, <1>4, OthersOnward
<1>5. CASE ~run.failed /\ run.op = "update"
  <2>1. Grounded(run, esp) /\ Levelled(run, esp, latest)
    BY <1>5, SoFar
  <2>2. Grounded(After(r, u), Disks(u, e))
    <3>1. EspInv /\ r.bad = {}
      BY <1>2, <2>1 DEF Going, Grounded
    <3> QED
      BY <1>2, <2>1, <3>1, StillGrounded
  <2> DEFINE q == After(r, u)
             d == Disks(u, e)
  <2>3. SameSet(q, run) /\ q.phase = run.phase /\ q.todo = run.todo \ {u}
    BY <1>2, AfterTurn
  <2>4. \A v \in run.members : v \in UUIDs /\ d[v] = IF v = u THEN e ELSE esp[v]
    BY DisksAt DEF Going, Typed, Known
  <2> HIDE DEF q, d
  <2>5. Levelled(q, d, latest)
    <3>1. \A v \in run.members : (q.phase = "member" /\ v \in q.todo) \/ (v \notin run.dead /\ d[v].build = latest)
      BY <1>1, <2>1, <2>3, <2>4 DEF Levelled, Usable
    <3> QED
      BY <2>3, <3>1 DEF Levelled, SameSet
  <2>6. Brought(q, d, latest)
    BY <1>1, <2>2, <2>3, <2>5 DEF Brought, q, d
  <2> QED
    BY <1>1, <1>2, <1>3, <2>6 DEF Onward, q, d
<1> QED
  BY <1>4, <1>5

(* A turn that fails goes on, with the member among the bad ones. *)
LEMMA FailingOnward ==
    ASSUME Going, NEW p, NEW u \in Turn(p), NEW e, Sound(e), NEW w,
           Done(u, e, Failing(u)) \/ Done(u, e, [Failing(u) EXCEPT !.wrote = w])
    PROVE  \E r : Onward(u, e, r)
<1>1. u \in run.members /\ DOMAIN run = Fields
  BY TurnOf
<1>2. /\ Carries(Failing(u)) /\ Failing(u).todo = run.todo /\ Failing(u).failed
      /\ Carries([Failing(u) EXCEPT !.wrote = w]) /\ [Failing(u) EXCEPT !.wrote = w].todo = run.todo
      /\ [Failing(u) EXCEPT !.wrote = w].failed
  BY <1>1, Records DEF Failing, Fields
<1>3. CASE Done(u, e, Failing(u))
  BY <1>1, <1>2, <1>3, OthersOnward
<1>4. CASE Done(u, e, [Failing(u) EXCEPT !.wrote = w])
  BY <1>1, <1>2, <1>4, OthersOnward
<1> QED
  BY <1>3, <1>4

(* The steps of update on a member go on. *)
LEMMA MemberOnward ==
    ASSUME Going, MemberUnusable \/ MemberWrite \/ MemberUpToDate
    PROVE  \E u, e, r : Onward(u, e, r)
<1>1. CASE MemberUnusable
  <2>1. PICK u \in Turn("member") : Done(u, esp[u], Failing(u))
    BY <1>1 DEF MemberUnusable
  <2>2. Sound(esp[u])
    BY TurnOf
  <2> QED
    BY <2>1, <2>2, FailingOnward
<1>2. CASE MemberWrite
  <2> DEFINE new(u) == With(esp[u], latest, "no", SettingOf(u), esp[u].list)
  <2>1. PICK u \in Turn("member") :
           /\ Usable(run, u)
           /\ \/ Done(u, new(u), Wrote)
              \/ \E w \in {run.wrote, TRUE} : Done(u, esp[u], [Failing(u) EXCEPT !.wrote = w])
    BY <1>2 DEF MemberWrite
  <2>2. new(u).build = latest /\ new(u).marker = esp[u].marker
    BY DEF With, ESP
  <2>3. Sound(esp[u])
    BY TurnOf
  <2> HIDE DEF new
  <2>4. CASE Done(u, new(u), Wrote)
    BY <2>1, <2>2, <2>4, LevelOnward
  <2>5. CASE \E w \in {run.wrote, TRUE} : Done(u, esp[u], [Failing(u) EXCEPT !.wrote = w])
    BY <2>3, <2>5, FailingOnward
  <2> QED
    BY <2>1, <2>4, <2>5
<1>3. CASE MemberUpToDate
  <2> DEFINE new(u) == With(esp[u], Source.build, Source.damage, Source.set, Source.list)
  <2>1. PICK u \in Turn("member") :
           /\ Usable(run, u) /\ UpToDate(u)
           /\ \/ Done(u, esp[u], run)
              \/ Done(u, esp[u], Failing(u))
              \/ Differs(u) /\ Done(u, new(u), Wrote)
    BY <1>3 DEF MemberUpToDate
  <2>2. Sound(esp[u])
    BY TurnOf
  <2>3. esp[u].build = latest
    BY <2>1, <2>2 DEF UpToDate, Sound, Going, EspInv
  <2>4. CASE Done(u, esp[u], run)
    BY <2>1, <2>3, <2>4, LevelOnward
  <2>5. CASE Done(u, esp[u], Failing(u))
    BY <2>2, <2>5, FailingOnward
  <2>6. CASE Differs(u) /\ Done(u, new(u), Wrote)
    <3>1. new(u).build = latest /\ new(u).marker = esp[u].marker
      BY <2>3, <2>6 DEF With, ESP, Differs
    <3> HIDE DEF new
    <3> QED
      BY <2>1, <2>6, <3>1, LevelOnward
  <2> QED
    BY <2>1, <2>4, <2>5, <2>6
<1> QED
  BY <1>1, <1>2, <1>3

(* A loop that writes the list, and one that leaves the ESP alone. *)
LEMMA ListedOnward ==
    ASSUME Going, NEW p \in {"lists", "record", "sync"}, NEW u \in Turn(p), NEW e,
           NEW r \in {run, Wrote}, Done(u, e, r),
           e.build = esp[u].build, e.marker = esp[u].marker,
           p = "sync" => e.list = Source.list
    PROVE  Onward(u, e, r)
<1>1. /\ run.phase = p /\ u \in run.todo /\ u \in run.members /\ u \in UUIDs
      /\ DOMAIN run = Fields /\ Sound(esp[u])
  BY TurnOf
<1>2. /\ Carries(r) /\ r.todo = run.todo /\ r.bad = run.bad /\ r.failed = run.failed /\ r.id = run.id
  BY <1>1, WroteRun
<1>3. Sound(e)
  BY <1>1 DEF Sound
<1>4. CASE run.failed \/ run.op # "update"
  BY <1>1, <1>2, <1>3, <1>4, OthersOnward
<1>5. CASE ~run.failed /\ run.op = "update"
  <2>1. /\ Grounded(run, esp) /\ Levelled(run, esp, latest)
        /\ p = "sync" => Synced(run, esp)
    BY <1>1, <1>5, SoFar
  <2>2. Grounded(After(r, u), Disks(u, e))
    <3>1. EspInv /\ r.bad = {}
      BY <1>2, <2>1 DEF Going, Grounded
    <3> QED
      BY <1>2, <2>1, <3>1, StillGrounded
  <2>3. Levelled(After(r, u), Disks(u, e), latest)
    BY <1>1, <1>2, <2>1, StillLevelled DEF Going
  <2> DEFINE q == After(r, u)
             d == Disks(u, e)
  <2>4. SameSet(q, run) /\ q.phase = p /\ q.todo = run.todo \ {u}
    BY <1>1, <1>2, AfterTurn
  <2>5. \A v \in UUIDs : d[v] = IF v = u THEN e ELSE esp[v]
    BY DisksAt DEF Going
  <2>6. run.members \subseteq UUIDs /\ run.src \in run.members \cup {NoUUID}
    BY DEF Going, Typed, Known
  <2> HIDE DEF q, d
  <2>7. p = "sync" => Synced(q, d)
    <3> SUFFICES ASSUME p = "sync", run.src # NoUUID, NEW v \in run.members \ {run.src}
                 PROVE  v \in q.todo \/ d[v].list = d[run.src].list
      BY <2>4 DEF Synced, SameSet
    <3>1. run.src # u /\ d[run.src] = esp[run.src]
      BY <1>1, <2>1, <2>5, <2>6 DEF Grounded
    <3>2. v \in run.todo \/ esp[v].list = esp[run.src].list
      BY <1>1, <2>1 DEF Synced
    <3>3. d[v] = IF v = u THEN e ELSE esp[v]
      BY <2>5, <2>6
    <3> QED
      BY <2>4, <3>1, <3>2, <3>3 DEF Source
  <2>8. Brought(q, d, latest)
    BY <2>2, <2>3, <2>4, <2>7 DEF Brought, q, d
  <2> QED
    BY <1>1, <1>2, <1>3, <2>8 DEF Onward, q, d
<1> QED
  BY <1>4, <1>5

(* The writing of the list goes on. *)
LEMMA ListOnward ==
    ASSUME Going, ListStep
    PROVE  \E u, e, r : Onward(u, e, r)
<1> DEFINE stop(u) == [run EXCEPT !.failed = TRUE, !.todo = IF run.op = "remove" THEN @ ELSE {u}]
           bad(u) == [stop(u) EXCEPT !.bad = @ \cup {run.src}]
           fail(u) == [stop(u) EXCEPT !.failed = (run.op # "update" \/ run.failed)]
           new(u) == With(esp[u], esp[u].build, esp[u].damage, esp[u].set, Grown(esp[u].list))
<1>1. PICK u \in Turn("lists") :
         Done(u, new(u), run) \/ Done(u, esp[u], bad(u)) \/ Done(u, esp[u], fail(u))
  BY DEF ListStep
<1>2. /\ run.phase = "lists" /\ u \in run.todo /\ u \in run.members /\ u \in UUIDs
      /\ DOMAIN run = Fields /\ Sound(esp[u])
  BY TurnOf
<1>3. CASE Done(u, new(u), run)
  <2>1. new(u).build = esp[u].build /\ new(u).marker = esp[u].marker
    BY DEF With, ESP
  <2> HIDE DEF new
  <2> QED
    BY <1>3, <2>1, ListedOnward
<1>4. CASE Done(u, esp[u], bad(u))
  <2>1. Carries(bad(u)) /\ bad(u).todo \subseteq run.todo /\ bad(u).failed
    BY <1>2 DEF Carries, Fields
  <2> HIDE DEF bad
  <2> QED
    BY <1>2, <1>4, <2>1, OthersOnward
<1>5. CASE Done(u, esp[u], fail(u))
  <2>1. /\ Carries(fail(u)) /\ fail(u).todo \subseteq run.todo /\ fail(u).bad = run.bad /\ fail(u).id = run.id
        /\ fail(u).failed = (run.op # "update" \/ run.failed)
    BY <1>2 DEF Carries, Fields
  <2> HIDE DEF fail
  <2>2. CASE run.failed \/ run.op # "update"
    BY <1>2, <1>5, <2>1, <2>2, OthersOnward
  <2>3. CASE ~run.failed /\ run.op = "update"
    <3>1. Grounded(run, esp) /\ Levelled(run, esp, latest)
      BY <2>3, SoFar
    <3>2. Grounded(After(fail(u), u), Disks(u, esp[u]))
      <4>1. EspInv /\ fail(u).bad = {}
        BY <2>1, <3>1 DEF Going, Grounded
      <4> QED
        BY <2>1, <3>1, <4>1, StillGrounded
    <3>3. Levelled(After(fail(u), u), Disks(u, esp[u]), latest)
      BY <1>2, <2>1, <3>1, StillLevelled DEF Going
    <3>4. After(fail(u), u).phase = "lists"
      BY <1>2, <2>1, AfterRun
    <3>5. Brought(After(fail(u), u), Disks(u, esp[u]), latest)
      BY <3>2, <3>3, <3>4 DEF Brought
    <3> QED
      BY <1>2, <1>5, <2>1, <3>5 DEF Onward
  <2> QED
    BY <2>2, <2>3
<1> QED
  BY <1>1, <1>3, <1>4, <1>5

(* The record of the set and the copy of the settings go on. *)
LEMMA ConfigOnward ==
    ASSUME Going, RecordStep \/ SyncStep
    PROVE  \E u, e, r : Onward(u, e, r)
<1> DEFINE new(u, list) == With(esp[u], esp[u].build, esp[u].damage, esp[u].set, list)
<1>1. PICK p, u, list :
         /\ p \in {"record", "sync"} /\ u \in Turn(p) /\ (p = "sync" => list = Source.list)
         /\ \/ new(u, list) = esp[u] /\ Done(u, esp[u], run)
            \/ Done(u, new(u, list), Wrote)
            \/ Done(u, esp[u], Failing(u))
  BY DEF RecordStep, SyncStep
<1>2. /\ new(u, list).build = esp[u].build /\ new(u, list).marker = esp[u].marker
      /\ new(u, list).list = list
  BY DEF With, ESP
<1> HIDE DEF new
<1>3. CASE new(u, list) = esp[u] /\ Done(u, esp[u], run)
  <2>1. p = "sync" => esp[u].list = Source.list
    BY <1>1, <1>2, <1>3
  <2> QED
    BY <1>1, <1>3, <2>1, ListedOnward
<1>4. CASE Done(u, new(u, list), Wrote)
  BY <1>1, <1>2, <1>4, ListedOnward
<1>5. CASE Done(u, esp[u], Failing(u))
  <2>1. Sound(esp[u])
    BY <1>1, TurnOf
  <2> QED
    BY <1>1, <1>5, <2>1, FailingOnward
<1> QED
  BY <1>1, <1>3, <1>4, <1>5

\* The run ends with an error in mid-loop, with one ESP written or none.
BrokenOff ==
    /\ run' = Idle /\ ended'.ok = FALSE /\ UNCHANGED <<here, latest>>
    /\ esp' = esp \/ \E u, e : Sound(e) /\ esp' = [esp EXCEPT ![u] = e]

(* The steps of the other commands. *)
LEMMA CopyOnward ==
    ASSUME Going, CopyChain
    PROVE  BrokenOff \/ \E u, e, r : Onward(u, e, r)
<1>1. PICK u, d, list :
         /\ u \in Turn("copy")
         /\ \/ Done(u, With(esp[u], Source.build, d, Source.set, list), run)
            \/ run' = Idle /\ ended'.ok = FALSE /\ UNCHANGED <<esp, here, latest>>
            \/ /\ run' = Idle /\ ended'.ok = FALSE /\ UNCHANGED <<here, latest>>
               /\ esp' = [esp EXCEPT ![u] = With(esp[u], Source.build, d, Source.set, list)]
  <2>1. PICK u \in Turn("copy") :
           LET damage == IF Source.damage = "seen" /\ ~Uefi THEN "hidden" ELSE Source.damage
               Copied(list) == With(esp[u], Source.build, damage, Source.set, list)
           IN \/ Done(u, Copied(Source.list), run)
              \/ /\ esp' \in {esp, [esp EXCEPT ![u] = Copied(@.list)]}
                 /\ run' = Idle /\ ended'.ok = FALSE /\ UNCHANGED <<here, latest>>
    BY DEF CopyChain
  <2> DEFINE d == IF Source.damage = "seen" /\ ~Uefi THEN "hidden" ELSE Source.damage
             e(list) == With(esp[u], Source.build, d, Source.set, list)
  <2>2. [esp EXCEPT ![u] = e(@.list)] = [esp EXCEPT ![u] = e(esp[u].list)]
    BY DEF Going, EspInv
  <2>3. \/ Done(u, e(Source.list), run)
        \/ run' = Idle /\ ended'.ok = FALSE /\ UNCHANGED <<esp, here, latest>>
        \/ /\ run' = Idle /\ ended'.ok = FALSE /\ UNCHANGED <<here, latest>>
           /\ esp' = [esp EXCEPT ![u] = e(esp[u].list)]
    BY <2>1, <2>2
  <2> QED
    BY <2>1, <2>3
<1>2. /\ run.phase = "copy" /\ u \in run.todo /\ u \in run.members /\ u \in UUIDs
      /\ DOMAIN run = Fields /\ Sound(esp[u])
  BY <1>1, TurnOf
<1>3. run.op = "add"
  BY <1>2, PhaseTable DEF Going, RunOK, PhasesOf, Ops
<1>4. run.src \in UUIDs
  BY <1>3 DEF Going, Typed, Known
<1> DEFINE e == With(esp[u], Source.build, d, Source.set, list)
<1>5. Sound(e)
  <2>1. esp[run.src].build \in 0 .. latest
    BY <1>4 DEF Going, DiskInv
  <2> QED
    BY <1>2, <2>1 DEF Sound, With, ESP, Source
<1>6. Carries(run)
  BY <1>2, Records
<1> HIDE DEF e
<1> QED
  BY <1>1, <1>2, <1>3, <1>5, <1>6, OthersOnward DEF e, BrokenOff

(* The steps that belong to other commands go on. *)
LEMMA OtherOnward ==
    ASSUME Going, SetStep \/ UnmarkStep \/ InstallStep
    PROVE  \E u, e, r : Onward(u, e, r)
<1>1. PICK p, u, e, r :
         /\ p \in {"set", "unmark", "install"} /\ u \in Turn(p) /\ Done(u, e, r)
         /\ \/ r \in {run, Wrote, Failing(u)} \/ (\E c : r = [run EXCEPT !.changed = c])
            \/ r = [run EXCEPT !.failed = TRUE]
         /\ e.build \in {esp[u].build, latest}
         /\ e.marker \in {esp[u].marker, NoMarker}
  <2>1. CASE SetStep
    <3>1. PICK u, v, c :
             /\ u \in Turn("set")
             /\ \/ Done(u, With(esp[u], esp[u].build, esp[u].damage, v, esp[u].list), [run EXCEPT !.changed = c])
                \/ Done(u, esp[u], Failing(u))
      BY <2>1 DEF SetStep
    <3> DEFINE e == With(esp[u], esp[u].build, esp[u].damage, v, esp[u].list)
    <3>2. e.build = esp[u].build /\ e.marker = esp[u].marker
      BY DEF With, ESP
    <3> HIDE DEF e
    <3> QED
      BY <3>1, <3>2 DEF e
  <2>2. CASE UnmarkStep
    <3>1. PICK u \in Turn("unmark") :
             Done(u, Marked(esp[u], NoMarker), run) \/ Done(u, esp[u], [run EXCEPT !.failed = TRUE])
      BY <2>2 DEF UnmarkStep
    <3> DEFINE e == Marked(esp[u], NoMarker)
    <3>2. e.build = esp[u].build /\ e.marker = NoMarker
      BY DEF Marked, ESP
    <3> HIDE DEF e
    <3> QED
      BY <3>1, <3>2 DEF e
  <2>3. CASE InstallStep
    <3>1. PICK u, list :
             /\ u \in Turn("install")
             /\ \/ Done(u, With(esp[u], latest, "no", 0, list), Wrote)
                \/ Done(u, With(esp[u], latest, "no", 0, list), Failing(u))
                \/ Done(u, esp[u], Failing(u))
      BY <2>3 DEF InstallStep
    <3> DEFINE e == With(esp[u], latest, "no", 0, list)
    <3>2. e.build = latest /\ e.marker = esp[u].marker
      BY DEF With, ESP
    <3> HIDE DEF e
    <3> QED
      BY <3>1, <3>2 DEF e
  <2> QED
    BY <2>1, <2>2, <2>3
<1>2. /\ run.phase = p /\ u \in run.members /\ DOMAIN run = Fields /\ Sound(esp[u])
  BY <1>1, TurnOf
<1>3. run.op # "update"
  BY <1>1, <1>2, LoopsOf DEF Going
<1>4. Carries(r) /\ r.todo = run.todo
  BY <1>1, <1>2, Records
<1>5. Sound(e)
  <2>1. NoMarker.gen = 0
    BY DEF NoMarker, Marker
  <2> QED
    BY <1>1, <1>2, <2>1 DEF Sound, Going, EspInv
<1> QED
  BY <1>1, <1>2, <1>3, <1>4, <1>5, OthersOnward

(* The last loop seals a member with the marker of its set. *)
LEMMA FinalOnward ==
    ASSUME Going, FinalStep, \A u \in run.members : GenFor(u) \in Nat
    PROVE  \E u, e, r : Onward(u, e, r)
<1> DEFINE id == InstallID(run.id)
           ok == [run EXCEPT !.id = id]
           no(u) == [ok EXCEPT !.bad = @ \cup {u}, !.failed = run.failed \/ run.op # "setting"]
           new(u) == Marked(esp[u], Marker(1, id, GenFor(u), u, Expected(run)))
<1>1. PICK u \in Turn("final") : Done(u, new(u), ok) \/ Done(u, esp[u], no(u))
  BY DEF FinalStep
<1>2. /\ run.phase = "final" /\ u \in run.todo /\ u \in run.members /\ u \in UUIDs
      /\ DOMAIN run = Fields /\ Sound(esp[u])
  BY TurnOf
<1>3. Carries(no(u)) /\ no(u).todo = run.todo /\ no(u).failed = (run.failed \/ run.op # "setting")
  BY <1>2 DEF Carries, Fields
<1>4. /\ Carries(ok) /\ ok.todo = run.todo /\ ok.bad = run.bad /\ ok.failed = run.failed
      /\ ok.id = id /\ ok.wrote = run.wrote
  BY <1>2 DEF Carries, Fields
<1>5. /\ new(u).build = esp[u].build /\ new(u).list = esp[u].list
      /\ new(u).marker = Marker(1, id, GenFor(u), u, Expected(run))
  BY DEF Marked, ESP
<1>6. GenFor(u) \in Nat
  BY <1>2
<1>7. new(u).marker.gen \in Nat
  BY <1>5, <1>6 DEF Marker
<1> HIDE DEF no, new, ok, id
<1>8. Sound(new(u))
  BY <1>2, <1>5, <1>7 DEF Sound
<1>9. CASE Done(u, esp[u], no(u))
  <2>1. no(u).failed \/ run.op # "update"
    BY <1>3
  <2> QED
    BY <1>2, <1>3, <1>9, <2>1, OthersOnward
<1>10. CASE Done(u, new(u), ok) /\ (run.failed \/ run.op # "update")
  BY <1>2, <1>4, <1>8, <1>10, OthersOnward
<1>11. CASE Done(u, new(u), ok) /\ ~run.failed /\ run.op = "update"
  <2>1. Grounded(run, esp) /\ Levelled(run, esp, latest) /\ Synced(run, esp) /\ Sealed(run, esp)
    BY <1>2, <1>11, SoFar
  <2>2. id # NoId /\ (run.id # NoId => id = run.id)
    <3>1. CASE run.id # NoId
      BY <3>1 DEF id, InstallID
    <3>2. CASE run.id = NoId
      <4>1. PICK i \in Ids : \A v \in UUIDs : esp[v].marker.id # i
        BY <2>1, <3>2 DEF Grounded
      <4>2. i \in FreshIds
        BY <4>1 DEF FreshIds
      <4>3. id \in FreshIds
        BY <3>2, <4>2 DEF id, InstallID
      <4> QED
        BY <3>2, <4>3, IdsAssumption DEF FreshIds
    <3> QED
      BY <3>1, <3>2
  <2>3. Grounded(After(ok, u), Disks(u, new(u)))
    <3>1. EspInv /\ ok.bad = {} /\ ok.id # NoId
      BY <1>4, <2>1, <2>2 DEF Going, Grounded
    <3> QED
      BY <1>4, <2>1, <3>1, StillGrounded
  <2>4. Levelled(After(ok, u), Disks(u, new(u)), latest)
    BY <1>2, <1>4, <1>5, <2>1, StillLevelled DEF Going
  <2> DEFINE q == After(ok, u)
             d == Disks(u, new(u))
  <2>5. /\ SameSet(q, run) /\ q.phase = "final" /\ q.todo = run.todo \ {u} /\ q.id = id /\ q.wrote = run.wrote
    BY <1>2, <1>4, AfterRun
  <2>6. \A v \in UUIDs : d[v] = IF v = u THEN new(u) ELSE esp[v]
    BY DisksAt DEF Going
  <2>7. run.members \subseteq UUIDs /\ run.src \in run.members \cup {NoUUID}
    BY DEF Going, Typed, Known
  <2> HIDE DEF q, d
  <2>8. Synced(q, d)
    <3>1. \A v \in UUIDs : d[v].list = esp[v].list
      BY <1>5, <2>6
    <3>2. run.src # NoUUID => \A v \in run.members \ {run.src} : esp[v].list = esp[run.src].list
      BY <1>2, <2>1 DEF Synced
    <3>3. run.src # NoUUID => \A v \in run.members \ {run.src} : d[v].list = d[run.src].list
      BY <2>7, <3>1, <3>2
    <3> QED
      BY <2>5, <3>3 DEF Synced, SameSet
  <2>9. UpGen(q) = UpGen(run) /\ Expected(q) = Expected(run)
    BY <2>5, SameSeal
  <2>10. GenFor(u) = UpGen(run)
    BY <1>11 DEF GenFor, UpGen
  <2>11. Sealed(q, d)
    <3> SUFFICES ASSUME NEW v \in run.members, v \notin q.todo
                 PROVE  q.id # NoId /\ d[v].marker = Seal(q, v)
      BY <2>5 DEF Sealed, SameSet
    <3>1. CASE v = u
      <4>1. d[v] = new(u)
        BY <2>6, <2>7, <3>1
      <4> QED
        BY <1>5, <2>2, <2>5, <2>9, <2>10, <3>1, <4>1 DEF Seal
    <3>2. CASE v # u
      <4>1. d[v] = esp[v] /\ v \notin run.todo
        BY <2>5, <2>6, <2>7, <3>2
      <4>2. run.id # NoId /\ esp[v].marker = Seal(run, v)
        BY <1>2, <2>1, <4>1 DEF Sealed
      <4> QED
        BY <2>2, <2>5, <2>9, <4>1, <4>2 DEF Seal
    <3> QED
      BY <3>1, <3>2
  <2>12. Brought(q, d, latest)
    BY <2>3, <2>4, <2>5, <2>8, <2>11 DEF Brought, q, d
  <2> QED
    BY <1>2, <1>4, <1>8, <1>11, <2>12 DEF Onward, q, d
<1> QED
  BY <1>1, <1>9, <1>10, <1>11

(* Every step goes on, or ends the run as failed. *)
LEMMA StepOnward ==
    ASSUME Going, Step, \A u \in run.members : GenFor(u) \in Nat
    PROVE  BrokenOff \/ \E u, e, r : Onward(u, e, r)
BY MemberOnward, CopyOnward, ListOnward, ConfigOnward, OtherOnward, FinalOnward DEF Step

-----------------------------------------------------------------------------
(* What a step leaves behind. *)
LEMMA EnterTyped ==
    ASSUME NEW r, DOMAIN r = Fields, r.op \in Ops, Typed(r), NEW n \in Nat, Enter(r, n) # Idle
    PROVE  /\ Typed(Enter(r, n)) /\ SameSet(Enter(r, n), r) /\ Enter(r, n).bad = r.bad
           /\ Enter(r, n).id = r.id /\ Enter(r, n).failed = r.failed
<1>1. PICK m \in DOMAIN Phases(r.op) :
         /\ m > n
         /\ \A k \in DOMAIN Phases(r.op) : (k > n /\ k < m) => Over(r, Phases(r.op)[k]) = {}
         /\ Enter(r, n) = [r EXCEPT !.phase = Phases(r.op)[m], !.todo = Over(r, Phases(r.op)[m])]
  BY Entered
<1> DEFINE q == Enter(r, n)
           p == Phases(r.op)[m]
<1>2. /\ SameSet(q, r) /\ q.bad = r.bad /\ q.id = r.id /\ q.failed = r.failed /\ q.todo = Over(r, p)
  BY <1>1 DEF SameSet, Fields
<1>3. Over(r, p) \subseteq r.members
  BY OverMembers DEF Typed, Known, PhasesOf
<1> HIDE DEF q, p
<1>4. q.todo \subseteq q.members
  BY <1>2, <1>3 DEF SameSet
<1> QED
  BY <1>2, <1>4, TypedLike DEF q

(* A step that goes on keeps UpdateInv. *)
LEMMA OnwardKeeps ==
    ASSUME Going, NEW u, NEW e, NEW r, Onward(u, e, r)
    PROVE  UpdateInv'
<1> DEFINE q == After(r, u)
           d == Disks(u, e)
           n == PhaseNr(q)
<1>1. /\ esp' = d /\ run' = IF q.todo # {} THEN q ELSE Enter(q, n)
      /\ here' = here /\ latest' = latest
      /\ run' = Idle => ended' = [op |-> r.op, ok |-> ~r.failed, members |-> Good(r) \ Foreign(r)]
  BY DEF Onward, Done, After, Disks
<1>2. /\ DOMAIN q = Fields /\ SameSet(q, run) /\ q.phase = run.phase /\ q.todo = r.todo \ {u}
      /\ q.bad = r.bad /\ q.failed = r.failed
  <2>1. Carries(r)
    BY DEF Onward
  <2> QED
    BY <2>1, AfterRun
<1>3. \A v \in UUIDs : d[v] = IF v = u THEN e ELSE esp[v]
  BY DisksAt DEF Going
<1>4. Brought(q, d, latest) /\ Carries(r) /\ u \in run.members /\ r.todo \subseteq run.todo /\ Sound(e)
  BY DEF Onward
<1> HIDE DEF q, d
<1>5. q.op \in Ops /\ q.phase \in PhasesOf(q.op) /\ run.op \in Ops
  BY <1>2 DEF SameSet, Going, RunOK
<1>6. Typed(q)
  <2>1. q.todo \subseteq q.members /\ Typed(run)
    BY <1>2, <1>4 DEF SameSet, Going, Typed
  <2> QED
    BY <1>2, <2>1, TypedLike
<1>7. DiskInv'
  <2>1. here' \subseteq UUIDs
    BY <1>1 DEF Going, DiskInv
  <2>2. ASSUME NEW v \in UUIDs PROVE esp'[v].build \in 0 .. latest' /\ esp'[v].marker.gen \in Nat
    <3>1. Sound(esp[v])
      BY DEF Going, DiskInv, Sound
    <3>2. Sound(d[v])
      BY <1>3, <1>4, <3>1
    <3> QED
      BY <1>1, <3>2 DEF Sound
  <2> QED
    BY <2>1, <2>2 DEF DiskInv
<1>8. Idle.op \notin Ops
  BY IdleRun DEF Ops
<1>9. n \in Nat
  <2>1. \E k \in DOMAIN Phases(q.op) : Phases(q.op)[k] = q.phase
    BY <1>5 DEF PhasesOf
  <2>2. n \in DOMAIN Phases(q.op)
    BY <2>1 DEF PhaseNr
  <2> QED
    BY <1>5, <2>2, PhaseNumbers
<1>10. CASE q.todo # {}
  <2>1. run' = q /\ run' # Idle
    BY <1>1, <1>5, <1>8, <1>10
  <2>2. Typed(run)' /\ Brought(run, esp, latest)'
    <3>1. Typed(run') /\ Brought(run', esp', latest')
      BY <1>1, <1>4, <1>6, <2>1
    <3> QED
      BY <3>1 DEF Typed, Known, GenOf, Brought, Grounded, Levelled, Synced, Sealed, Sources, Seal, UpGen,
           MaxGeneration, Foreign, Expected
  <2> QED
    BY <1>7, <2>1, <2>2 DEF UpdateInv, Updated
<1>11. CASE q.todo = {} /\ Enter(q, n) # Idle
  <2>1. run' = Enter(q, n) /\ run' # Idle
    BY <1>1, <1>11
  <2>2. Typed(Enter(q, n)) /\ Enter(q, n).op = q.op
    BY <1>2, <1>5, <1>6, <1>9, <1>11, EnterTyped DEF SameSet
  <2>3. CASE q.op = "update"
    <3>1. Brought(Enter(q, n), d, latest)
      BY <1>2, <1>4, <1>5, <1>6, <1>11, <2>3, EnterBrought
    <3> QED
      BY <1>1, <1>7, <2>1, <2>2, <3>1 DEF UpdateInv, Updated
  <2>4. CASE q.op # "update"
    <3>1. Brought(Enter(q, n), d, latest)
      BY <2>2, <2>4 DEF Brought
    <3> QED
      BY <1>1, <1>7, <2>1, <2>2, <3>1 DEF UpdateInv, Updated
  <2> QED
    BY <2>3, <2>4
<1>12. CASE q.todo = {} /\ Enter(q, n) = Idle
  <2>1. run' = Idle /\ ended' = [op |-> r.op, ok |-> ~r.failed, members |-> Good(r) \ Foreign(r)]
    BY <1>1, <1>12
  <2>2. Good(r) \ Foreign(r) = Good(q) \ Foreign(q) /\ r.op = q.op
    BY <1>2, <1>4 DEF Good, Foreign, SameSet, Carries
  <2>3. ASSUME r.op = "update", ~r.failed PROVE Alike(Good(r) \ Foreign(r), d)
    <3>1. q.op = "update" /\ ~q.failed
      BY <1>2, <2>2, <2>3
    <3> QED
      BY <1>2, <1>4, <1>5, <1>6, <1>12, <2>2, <3>1, EndAlike
  <2>4. Updated' => Alike(ended'.members, esp')
    BY <1>1, <2>1, <2>3 DEF Updated
  <2> QED
    BY <1>7, <2>1, <2>4 DEF UpdateInv
<1> QED
  BY <1>10, <1>11, <1>12

-----------------------------------------------------------------------------
(* A command starts from what its scan found. *)

(* The scan finds the disks that are here, each with its generation. *)
LEMMA ScanTyped ==
    ASSUME DiskInv
    PROVE  DOMAIN Scan = here /\ \A u \in here : Generation(Scan[u]) \in Nat
<1> DEFINE vols == [u \in here |-> Volume(u)]
<1>1. DOMAIN vols = here /\ \A u \in here : vols[u] = Volume(u)
  OBVIOUS
<1>2. \A u : Volume(u).fat = TRUE /\ Volume(u).mounts = TRUE /\ Volume(u).marker = esp[u].marker
  BY DEF Volume
<1>3. ScanFATVolumes(vols) = here
  BY <1>1, <1>2 DEF ScanFATVolumes
<1>4. DOMAIN Scan = here /\ \A u \in here : Scan[u] = ProbeESPFiles(Volume(u))
  BY <1>1, <1>3 DEF Scan, ScanESPs
<1>5. NoMarker.gen = 0
  BY DEF NoMarker, Marker
<1>6. ASSUME NEW u \in here PROVE Generation(ProbeESPFiles(Volume(u))) \in Nat
  <2>1. esp[u].marker.gen \in Nat
    BY DEF DiskInv
  <2>2. ProbeESPFiles(Volume(u)).member \in {esp[u].marker, NoMarker}
    BY <1>2 DEF ProbeESPFiles, ProbeMounted, Info
  <2> QED
    BY <1>5, <2>1, <2>2 DEF Generation
<1> QED
  BY <1>4, <1>6

\* A run that is ready to start.
Ready(r) ==
    /\ DOMAIN r = Fields /\ r.op \in Ops /\ r.todo = {} /\ r.bad = {} /\ Known(r)
    /\ r.op = "add" => Sources(r) # {}

(* A run that starts ready keeps UpdateInv. *)
LEMMA StartKeeps ==
    ASSUME EspInv, UpdateInv, run = Idle, NEW r, Ready(r), Start(r)
    PROVE  UpdateInv'
<1>1. PICK src \in SourceOf(r) : run' = Enter([r EXCEPT !.force = @ /\ Foreign(r) # {}, !.src = src], 0)
  BY DEF Start
<1> DEFINE s == [r EXCEPT !.force = @ /\ Foreign(r) # {}, !.src = src]
<1>2. /\ DOMAIN s = Fields /\ SameSet(s, [r EXCEPT !.src = src]) /\ s.src = src /\ s.todo = {} /\ s.bad = {}
      /\ s.id = r.id /\ s.op = r.op
      /\ s.members = r.members /\ s.set = r.set /\ s.infos = r.infos /\ s.added = r.added /\ s.arg = r.arg
      /\ s.dead = r.dead
  BY DEF Fields, SameSet, Ready
<1>3. run' = Enter(s, 0)
  BY <1>1
<1>4. UNCHANGED <<esp, here, latest, ended>> /\ (r.id = NoId => FreshIds # {})
  BY DEF Start
<1> HIDE DEF s
<1>5. /\ Sources(r) = {} => src = NoUUID
      /\ Sources(r) # {} => src \in Sources(r)
  BY <1>1 DEF SourceOf
<1>6. Sources(r) \subseteq r.members /\ r.members \subseteq UUIDs /\ NoUUID \notin UUIDs
  BY UUIDsAssumption DEF Sources, Ready, Known, NoUUID
<1>7. Sources(s) = Sources(r)
  BY <1>2 DEF Sources, Foreign
<1>8. Typed(s)
  <2>1. Known(s)
    BY <1>2 DEF Ready, Known, GenOf
  <2> QED
    BY <1>2, <1>5, <1>6, <2>1 DEF Typed, Ready
<1>9. DiskInv'
  BY <1>4 DEF UpdateInv, DiskInv
<1>10. CASE Enter(s, 0) = Idle
  <2>1. Updated' => Updated
    BY <1>4 DEF Updated
  <2> QED
    BY <1>3, <1>4, <1>9, <1>10, <2>1 DEF UpdateInv
<1>11. CASE Enter(s, 0) # Idle
  <2> DEFINE q == Enter(s, 0)
  <2>1. Typed(q) /\ SameSet(q, s) /\ q.bad = {} /\ q.id = r.id
    BY <1>2, <1>8, <1>11, EnterTyped DEF Ready
  <2>2. Brought(q, esp, latest)
    <3> SUFFICES ASSUME q.op = "update" PROVE Brought(q, esp, latest)
      BY DEF Brought
    <3>1. q.phase = "member" /\ q.todo = s.members
      BY <1>2, <1>8, <1>11, <2>1, BeginBrought DEF SameSet, Typed, Known
    <3> HIDE DEF q
    <3>2. Sources(q) = Sources(r)
      BY <1>7, <2>1, SameSeal
    <3>3. q.id = NoId => \E i \in Ids : \A u \in UUIDs : esp[u].marker.id # i
      <4> SUFFICES ASSUME q.id = NoId PROVE \E i \in Ids : \A u \in UUIDs : esp[u].marker.id # i
        OBVIOUS
      <4>1. PICK i \in FreshIds : TRUE
        BY <1>4, <2>1
      <4> QED
        BY <4>1 DEF FreshIds
    <3>4. Grounded(q, esp)
      BY <1>2, <1>5, <1>6, <2>1, <3>1, <3>2, <3>3 DEF Grounded, SameSet
    <3>5. Levelled(q, esp, latest)
      BY <2>1, <3>1 DEF Levelled, SameSet
    <3> QED
      BY <3>1, <3>4, <3>5 DEF Brought
  <2> HIDE DEF q
  <2>3. run' = q /\ run' # Idle
    BY <1>3, <1>11 DEF q
  <2> QED
    BY <1>4, <1>9, <2>1, <2>2, <2>3 DEF UpdateInv, Updated
<1> QED
  BY <1>10, <1>11

(* A run that discoverHost starts knows its members, and has done none. *)
LEMMA DiscoveredKnown ==
    ASSUME DiskInv, NEW op, NEW arg \in here \cup {NoUUID}, NEW force, NEW val, NEW explicit, NEW dead
    PROVE  LET r == Discovered(op, arg, force, val, explicit, dead)
           IN DOMAIN r = Fields /\ r.op = op /\ r.todo = {} /\ r.bad = {} /\ Known(r)
<1> DEFINE infos == Scan
           set == SelectHost(infos, explicit, primary)
           added == IF arg \in {NoUUID} \cup set.members THEN {} ELSE {arg}
           r == Run(op, arg, force, val, "idle", {}, infos, set, set.members \cup added, added, set.id, explicit, dead)
<1>1. r = Discovered(op, arg, force, val, explicit, dead)
  BY DEF Discovered
<1>2. /\ DOMAIN infos = here /\ \A u \in here : Generation(infos[u]) \in Nat
      /\ set.members \subseteq DOMAIN infos /\ here \subseteq UUIDs
  BY ScanTyped, SelectedKnown DEF DiskInv
<1>3. added \subseteq here /\ added \subseteq {arg}
  BY UUIDsAssumption DEF NoUUID
<1> HIDE DEF infos, set, added
<1>4. /\ DOMAIN r = Fields /\ r.op = op /\ r.todo = {} /\ r.bad = {} /\ r.infos = infos /\ r.set = set
      /\ r.members = set.members \cup added /\ r.added = added /\ r.arg = arg
  BY DEF Run, Fields
<1> HIDE DEF r
<1>5. Known(r)
  BY <1>2, <1>3, <1>4 DEF Known, GenOf
<1> QED
  BY <1>1, <1>4, <1>5

(* esp adopt starts ready. *)
LEMMA AdoptKnown ==
    ASSUME DiskInv, NEW args \in SUBSET here, NEW force, NEW dead, NEW set, set.members \subseteq here
    PROVE  Ready(AdoptRun(Scan, set, args, force, dead))
<1> DEFINE infos == Scan
           r == AdoptRun(infos, set, args, force, dead)
<1>1. /\ DOMAIN infos = here /\ (\A u \in here : Generation(infos[u]) \in Nat) /\ here \subseteq UUIDs
  BY ScanTyped DEF DiskInv
<1> HIDE DEF infos
<1>2. /\ DOMAIN r = Fields /\ r.op = "adopt" /\ r.todo = {} /\ r.bad = {} /\ r.infos = infos
      /\ r.set.members = set.members
      /\ r.added \subseteq args /\ r.added \subseteq r.members /\ r.members \subseteq args \cup set.members
  BY DEF AdoptRun, Run, HostSet, Fields
<1> HIDE DEF r
<1>3. Known(r)
  BY <1>1, <1>2 DEF Known, GenOf
<1> QED
  BY <1>2, <1>3 DEF Ready, Ops, infos, r

(* install starts ready. *)
LEMMA InstallKnown ==
    ASSUME DiskInv, NEW root \in here, NEW force, NEW explicit, NEW listed, listed.members \subseteq here
    PROVE  Ready(InstallRun(Scan, listed, root, force, explicit))
<1> DEFINE infos == Scan
           r == InstallRun(infos, listed, root, force, explicit)
<1>1. /\ DOMAIN infos = here /\ (\A u \in here : Generation(infos[u]) \in Nat) /\ here \subseteq UUIDs
  BY ScanTyped DEF DiskInv
<1> HIDE DEF infos
<1>2. /\ DOMAIN r = Fields /\ r.op = "install" /\ r.todo = {} /\ r.bad = {} /\ r.infos = infos
      /\ r.set.members = r.members /\ r.added = {} /\ r.members \subseteq here
  BY DEF InstallRun, Run, HostSet, Fields
<1> HIDE DEF r
<1>3. Known(r)
  BY <1>1, <1>2 DEF Known, GenOf
<1> QED
  BY <1>2, <1>3 DEF Ready, Ops, infos, r

(* Every command starts ready. *)
LEMMA CommandReady ==
    ASSUME DiskInv, Command
    PROVE  \E r : Ready(r) /\ Start(r)
<1>1. ASSUME NEW add \in here \cup {NoUUID}, NEW force, NEW list, NEW dead, Update(add, force, list, dead)
      PROVE  \E r : Ready(r) /\ Start(r)
  <2> DEFINE r == Discovered("update", add, force, 0, list, dead)
  <2>1. Start(r)
    BY <1>1 DEF Update
  <2>2. DOMAIN r = Fields /\ r.op = "update" /\ r.todo = {} /\ r.bad = {} /\ Known(r)
    BY DiscoveredKnown
  <2> HIDE DEF r
  <2> QED
    BY <2>1, <2>2 DEF Ready, Ops
<1>2. ASSUME NEW add \in here, NEW force, NEW dead, EspAdd(add, force, dead)
      PROVE  \E r : Ready(r) /\ Start(r)
  <2> DEFINE r == Discovered("add", add, force, 0, <<>>, dead)
  <2>1. Start(r) /\ Sources(r) # {}
    BY <1>2 DEF EspAdd
  <2>2. DOMAIN r = Fields /\ r.op = "add" /\ r.todo = {} /\ r.bad = {} /\ Known(r)
    BY DiscoveredKnown
  <2> HIDE DEF r
  <2> QED
    BY <2>1, <2>2 DEF Ready, Ops
<1>3. ASSUME NEW val, NEW dead, Setting(val, dead)
      PROVE  \E r : Ready(r) /\ Start(r)
  <2> DEFINE r == Discovered("setting", NoUUID, FALSE, val, <<>>, dead)
  <2>1. Start(r)
    BY <1>3 DEF Setting
  <2>2. DOMAIN r = Fields /\ r.op = "setting" /\ r.todo = {} /\ r.bad = {} /\ Known(r)
    BY DiscoveredKnown
  <2> HIDE DEF r
  <2> QED
    BY <2>1, <2>2 DEF Ready, Ops
<1>4. ASSUME NEW u, NEW dead, EspRemove(u, dead)
      PROVE  \E r : Ready(r) /\ Start(r)
  <2> DEFINE r == Discovered("remove", NoUUID, FALSE, 0, <<>>, dead)
             s == [r EXCEPT !.arg = u]
  <2>1. Start(s)
    BY <1>4 DEF EspRemove
  <2>2. DOMAIN r = Fields /\ r.op = "remove" /\ r.todo = {} /\ r.bad = {} /\ Known(r)
    BY DiscoveredKnown
  <2> HIDE DEF r
  <2>3. /\ DOMAIN s = Fields /\ s.op = "remove" /\ s.todo = {} /\ s.bad = {}
        /\ s.infos = r.infos /\ s.set = r.set /\ s.members = r.members /\ s.added = r.added
    BY <2>2 DEF Fields
  <2> HIDE DEF s
  <2>4. Known(s)
    BY <2>2, <2>3 DEF Known, GenOf
  <2> QED
    BY <2>1, <2>3, <2>4 DEF Ready, Ops
<1>5. ASSUME NEW args \in SUBSET here, NEW force, NEW dead, EspAdopt(args, force, dead)
      PROVE  \E r : Ready(r) /\ Start(r)
  <2> DEFINE found == SelectHost(Scan, <<>>, primary)
             set == IF found.ok THEN found ELSE Refused
  <2>1. Start(AdoptRun(Scan, set, args, force, dead))
    BY <1>5 DEF EspAdopt
  <2>2. set.members \subseteq here
    <3>1. found.members \subseteq here
      BY ScanTyped, SelectedKnown
    <3>2. Refused.members = {}
      BY DEF Refused, HostSet
    <3> HIDE DEF found
    <3> QED
      BY <3>1, <3>2
  <2> HIDE DEF set
  <2> QED
    BY <2>1, <2>2, AdoptKnown
<1>6. ASSUME NEW root \in here, NEW force, NEW explicit, Install(root, force, explicit)
      PROVE  \E r : Ready(r) /\ Start(r)
  <2> DEFINE listed == SelectHost(Scan, explicit, root)
  <2>1. Start(InstallRun(Scan, listed, root, force, explicit))
    BY <1>6 DEF Install
  <2>2. listed.members \subseteq here
    BY ScanTyped, SelectedKnown
  <2> HIDE DEF listed
  <2> QED
    BY <2>1, <2>2, InstallKnown
<1> QED
  BY <1>1, <1>2, <1>3, <1>4, <1>5, <1>6 DEF Command

-----------------------------------------------------------------------------
(* UpdateInv holds at the start. *)
LEMMA UpdateInit == Init => UpdateInv
<1> SUFFICES ASSUME Init PROVE UpdateInv
  OBVIOUS
<1>1. esp \in Hosts
  BY DEF Init
<1>2. \A u \in UUIDs : esp[u].build \in Nat /\ esp[u].marker.gen \in Nat
  BY <1>1, HostsAssumption
<1>3. latest \in Nat /\ (\A u \in UUIDs : esp[u].build <= latest) /\ here = UUIDs /\ run = Idle
  BY MirrorBounds DEF Init
<1>4. DiskInv
  BY <1>2, <1>3 DEF DiskInv
<1>5. ~Updated
  BY DEF Init, Updated
<1> QED
  BY <1>3, <1>4, <1>5 DEF UpdateInv

(* Steps of no command: the ESPs keep build, list and marker. *)
LEMMA QuietKeeps ==
    ASSUME EspInv, UpdateInv, run' = Idle, here' \subseteq UUIDs, latest' \in {latest, latest + 1},
           \A u \in UUIDs : /\ esp'[u].build = esp[u].build /\ esp'[u].list = esp[u].list
                            /\ esp'[u].marker = esp[u].marker,
           Updated' => run = Idle /\ ended' = ended
    PROVE  UpdateInv'
<1>1. DiskInv'
  BY DEF UpdateInv, DiskInv, EspInv
<1>2. Updated' => Alike(ended'.members, esp')
  <2> SUFFICES ASSUME Updated' PROVE Alike(ended'.members, esp')
    OBVIOUS
  <2>1. Updated /\ ended' = ended
    BY DEF Updated
  <2>2. Alike(ended.members, esp)
    BY <2>1 DEF UpdateInv
  <2> QED
    BY <2>1, <2>2 DEF Alike
<1> QED
  BY <1>1, <1>2 DEF UpdateInv

(* Members that are alike pass verify's comparison. *)
LEMMA AlikeAgree ==
    ASSUME DiskInv, EspInv, NEW S, S # {}, Alike(S, esp)
    PROVE  /\ \A u, v \in S : Same(u, v) /\ esp[u].list = esp[v].list
           /\ Stale(S) = {} /\ OtherGeneration(S) = {}
<1>1. \A u \in S : u \in UUIDs /\ esp[u].marker.gen \in Nat /\ esp[u].build \in Nat /\ u # NoUUID
  BY UUIDsAssumption DEF Alike, DiskInv, EspInv, NoUUID
<1>2. \A u, v \in S : esp[u].marker.gen = esp[v].marker.gen /\ esp[u].build = esp[v].build
  BY DEF Alike
<1>3. ASSUME NEW u \in S, NEW v \in S PROVE Same(u, v) /\ esp[u].list = esp[v].list
  BY <1>1 DEF Same, MarkedFor, Decodes, Alike
<1>4. \A u \in S : Rated(u)[1] = esp[u].marker.gen /\ Rated(u)[2] = esp[u].build
  BY DEF Rated
<1>5. \E u \in S : \A v \in S :
         Rated(u)[1] > Rated(v)[1] \/ (Rated(u)[1] = Rated(v)[1] /\ Rated(u)[2] >= Rated(v)[2])
  <2>1. PICK u \in S : TRUE
    OBVIOUS
  <2>2. \A v \in S : Rated(u)[1] = Rated(v)[1] /\ Rated(u)[2] >= Rated(v)[2]
    BY <1>1, <1>2, <1>4, <2>1
  <2> QED
    BY <2>1, <2>2
<1>6. Reference(S) \in S
  BY <1>5 DEF Reference
<1> DEFINE ref == Reference(S)
<1> HIDE DEF ref
<1>7. ref \in S
  BY <1>6 DEF ref
<1>8. \A u \in S : Rated(u)[1] = Rated(ref)[1] /\ ~(Rated(u)[1] < Rated(ref)[1]) /\ ~(Rated(u)[2] < Rated(ref)[2])
  BY <1>1, <1>2, <1>4, <1>7
<1>9. OtherGeneration(S) = {}
  BY <1>8 DEF OtherGeneration, ref
<1>10. \A u \in S : \A n \in 1 .. 2 : ~(Rated(u)[n] < Rated(ref)[n])
  <2>1. \A n \in 1 .. 2 : n = 1 \/ n = 2
    OBVIOUS
  <2> QED
    BY <1>8, <2>1
<1>11. Stale(S) = {}
  BY <1>10 DEF Stale, ref
<1> QED
  BY <1>3, <1>9, <1>11

-----------------------------------------------------------------------------
(* The generations that are recorded are numbers.  The largest of a finite *)
(* set of numbers is found by looking for the least number above it.       *)
INSTANCE WellFoundedInduction

(* A set of naturals has a least element. *)
LEMMA LeastExists ==
    ASSUME NEW D, D \subseteq Nat, D # {}
    PROVE  \E d \in D : \A e \in D : d <= e
<1>1. PICK d \in D : \A e \in D : ~(<<e, d>> \in OpToRel(<, Nat))
  BY NatLessThanWellFounded, WFMin
<1>2. \A e \in D : ~(e < d)
  BY <1>1 DEF OpToRel
<1> QED
  BY <1>2

(* Generations are numbers: the largest of a bounded set is one. *)
LEMMA MaxOfNat ==
    ASSUME NEW S \in SUBSET Nat, NEW n \in Nat, \A m \in S : m <= n
    PROVE  MaxOf(S) \in Nat
<1> DEFINE Above == {b \in Nat : \A m \in S \cup {0} : m <= b}
<1>1. Above \subseteq Nat /\ n \in Above
  OBVIOUS
<1>2. PICK b \in Above : \A c \in Above : b <= c
  BY <1>1, LeastExists
<1>3. b \in Nat /\ \A m \in S \cup {0} : m <= b
  BY <1>2
<1>4. b \in S \cup {0}
  <2> SUFFICES ASSUME b \notin S \cup {0} PROVE FALSE
    OBVIOUS
  <2>1. b - 1 \in Nat
    BY <1>3
  <2>2. \A m \in S \cup {0} : m <= b - 1
    BY <1>3
  <2>3. b - 1 \in Above
    BY <2>1, <2>2
  <2>4. b <= b - 1
    BY <1>2, <2>3
  <2> QED
    BY <1>3, <2>4
<1>5. \E k \in S \cup {0} : \A m \in S \cup {0} : m <= k
  BY <1>3, <1>4
<1>6. MaxOf(S) \in S \cup {0}
  BY <1>5 DEF MaxOf
<1>7. \A m \in S \cup {0} : m \in Nat
  OBVIOUS
<1> QED
  BY <1>6, <1>7

(* The values of a function on a finite set are bounded. *)
LEMMA BoundedOn ==
    ASSUME NEW T, IsFiniteSet(T), NEW f, \A x \in T : f[x] \in Nat
    PROVE  \E n \in Nat : \A x \in T : f[x] <= n
<1>1. PICK s \in Seq(T) : \A x \in T : \E i \in 1 .. Len(s) : s[i] = x
  BY DEF IsFiniteSet
<1> DEFINE Has(k) == \E n \in Nat : \A i \in 1 .. k : f[s[i]] <= n
           Without == {k \in 0 .. Len(s) : ~Has(k)}
<1>2. Len(s) \in Nat /\ \A i \in 1 .. Len(s) : f[s[i]] \in Nat
  BY <1>1
<1>3. ASSUME NEW k \in Nat, k + 1 \in 0 .. Len(s), Has(k) PROVE Has(k + 1)
  <2>1. PICK n \in Nat : \A i \in 1 .. k : f[s[i]] <= n
    BY <1>3
  <2> DEFINE v == f[s[k + 1]]
  <2>2. v \in Nat
    BY <1>2, <1>3
  <2>3. \A i \in 1 .. k + 1 : i \in 1 .. k \/ i = k + 1
    OBVIOUS
  <2>4. \A i \in 1 .. k : f[s[i]] \in Nat
    BY <1>2, <1>3
  <2>5. \A i \in 1 .. k : f[s[i]] <= n + v
    <3> SUFFICES ASSUME NEW i \in 1 .. k PROVE f[s[i]] <= n + v
      OBVIOUS
    <3> DEFINE w == f[s[i]]
    <3>1. w \in Nat /\ w <= n
      BY <2>1, <2>4
    <3> HIDE DEF v, w
    <3> QED
      BY <2>2, <3>1 DEF w
  <2>6. n + v \in Nat /\ v <= n + v
    <3> HIDE DEF v
    <3> QED
      BY <2>2
  <2>7. \A i \in 1 .. k + 1 : f[s[i]] <= n + v
    BY <2>3, <2>5, <2>6
  <2> QED
    BY <2>6, <2>7
<1>4. Has(0)
  <2>1. \A i \in 1 .. 0 : f[s[i]] <= 0
    OBVIOUS
  <2> QED
    BY <2>1
<1>5. Has(Len(s))
  <2> SUFFICES ASSUME ~Has(Len(s)) PROVE FALSE
    OBVIOUS
  <2> HIDE DEF Has
  <2>1. Without \subseteq Nat /\ Without # {}
    BY <1>2
  <2>2. PICK k \in Without : \A l \in Without : k <= l
    BY <2>1, LeastExists
  <2>3. k \in Nat /\ k \in 0 .. Len(s) /\ ~Has(k) /\ k # 0
    BY <1>2, <1>4, <2>2
  <2>4. k - 1 \in Nat /\ k - 1 \in 0 .. Len(s) /\ ~(k <= k - 1) /\ (k - 1) + 1 = k
    BY <1>2, <2>3
  <2>5. Has(k - 1)
    BY <2>2, <2>4
  <2> QED
    BY <1>3, <2>3, <2>4, <2>5
<1> QED
  BY <1>1, <1>5

(* The generations of known ESPs are numbers, and bounded. *)
LEMMA GensOf ==
    ASSUME NEW r, Typed(r), NEW S, S \subseteq DOMAIN r.infos
    PROVE  /\ {GenOf(r, u) : u \in S} \in SUBSET Nat
           /\ \E n \in Nat : \A m \in {GenOf(r, u) : u \in S} : m <= n
<1> DEFINE f == [u \in UUIDs |-> IF u \in S THEN GenOf(r, u) ELSE 0]
<1>1. \A u \in S : u \in UUIDs /\ GenOf(r, u) \in Nat
  BY DEF Typed, Known
<1>2. \A u \in UUIDs : f[u] \in Nat
  BY <1>1
<1>3. \A u \in S : f[u] = GenOf(r, u)
  BY <1>1
<1> HIDE DEF f
<1>4. PICK n \in Nat : \A u \in UUIDs : f[u] <= n
  BY <1>2, BoundedOn, DisksAssumption
<1>5. \A u \in S : GenOf(r, u) <= n
  BY <1>1, <1>3, <1>4
<1> QED
  BY <1>1, <1>5

(* The generation every command records is a number. *)
LEMMA GenForNat ==
    ASSUME Typed(run), run.op \in Ops, NEW u \in run.members
    PROVE  GenFor(u) \in Nat
<1>1. MaxGeneration(run) \in Nat
  <2>1. run.members \ Foreign(run) \subseteq DOMAIN run.infos
    BY DEF Typed, Known
  <2> QED
    BY <2>1, GensOf, MaxOfNat DEF MaxGeneration
<1>2. GenOf(run, u) \in Nat
  BY DEF Typed, Known
<1>3. run.op = "add" => MaxOf({1, GenOf(run, run.src)}) \in Nat
  <2> SUFFICES ASSUME run.op = "add" PROVE MaxOf({1, GenOf(run, run.src)}) \in Nat
    OBVIOUS
  <2>1. GenOf(run, run.src) \in Nat
    BY DEF Typed, Known
  <2> DEFINE g == GenOf(run, run.src)
  <2> HIDE DEF g
  <2>2. {1, g} \in SUBSET Nat /\ 1 + g \in Nat /\ \A m \in {1, g} : m <= 1 + g
    BY <2>1 DEF g
  <2> QED
    BY <2>2, MaxOfNat DEF g
<1>4. MaxOf({1} \cup {GenOf(run, v) : v \in run.set.members}) \in Nat
  <2> DEFINE G == {GenOf(run, v) : v \in run.set.members}
  <2>1. G \in SUBSET Nat /\ \E n \in Nat : \A m \in G : m <= n
    BY GensOf DEF Typed, Known
  <2> HIDE DEF G
  <2>2. PICK n \in Nat : \A m \in G : m <= n
    BY <2>1
  <2>3. {1} \cup G \in SUBSET Nat /\ n + 1 \in Nat /\ \A m \in {1} \cup G : m <= n + 1
    BY <2>1, <2>2
  <2> QED
    BY <2>3, MaxOfNat DEF G
<1> DEFINE max == MaxGeneration(run)
           own == GenOf(run, u)
           first == MaxOf({1, GenOf(run, run.src)})
           set == MaxOf({1} \cup {GenOf(run, v) : v \in run.set.members})
<1>5. GenFor(u) = CASE run.op = "update" -> IF run.wrote \/ max = 0 THEN max + 1 ELSE max
         [] run.op \in {"setting", "install"} -> max + 1
         [] run.op = "add"    -> IF u \in run.added \/ own = 0 THEN first ELSE own
         [] run.op = "remove" -> IF own = 0 THEN max ELSE own
         [] run.op = "adopt"  -> IF u \in run.added THEN set ELSE set + 1
  BY DEF GenFor
<1> HIDE DEF max, own, first, set
<1>6. max \in Nat /\ own \in Nat /\ set \in Nat /\ (run.op = "add" => first \in Nat)
  BY <1>1, <1>2, <1>3, <1>4 DEF max, own, first, set
<1> QED
  BY <1>5, <1>6 DEF Ops

-----------------------------------------------------------------------------
(* Every step keeps UpdateInv. *)
LEMMA UpdateStep ==
    ASSUME Inv, UpdateInv, [Next]_vars
    PROVE  UpdateInv'
<1>1. EspInv /\ RunInv /\ DiskInv
  BY DEF Inv, UpdateInv
<1>2. CASE Command
  <2>1. run = Idle
    BY <1>2 DEF Command, Between
  <2>2. \E r : Ready(r) /\ Start(r)
    BY <1>1, <1>2, CommandReady
  <2> QED
    BY <1>1, <2>1, <2>2, StartKeeps
<1>3. CASE Step
  <2>1. run # Idle
    <3>1. Idle.phase = "idle" /\ Idle.todo = {}
      BY DEF Idle, Run
    <3>2. run = Idle => \A p : Turn(p) = {}
      BY <3>1 DEF Turn
    <3> QED
      BY <1>3, <3>2 DEF Step, MemberUnusable, MemberWrite, MemberUpToDate, CopyChain, ListStep,
            RecordStep, SyncStep, SetStep, UnmarkStep, InstallStep, FinalStep
  <2>2. Going
    BY <1>1, <2>1 DEF Going, RunInv, UpdateInv
  <2>3. CASE BrokenOff
    <3>1. ~Updated' /\ here' \subseteq UUIDs
      BY <1>1, <2>3 DEF Updated, DiskInv, BrokenOff
    <3>2. CASE esp' = esp
      BY <1>1, <2>3, <3>1, <3>2, QuietKeeps DEF BrokenOff
    <3>3. CASE \E u, e : Sound(e) /\ esp' = [esp EXCEPT ![u] = e]
      <4>1. PICK u, e : Sound(e) /\ esp' = [esp EXCEPT ![u] = e]
        BY <3>3
      <4>2. \A v \in UUIDs : esp'[v] = IF v = u THEN e ELSE esp[v]
        BY <1>1, <4>1 DEF EspInv
      <4>3. DiskInv'
        BY <1>1, <2>3, <3>1, <4>1, <4>2 DEF DiskInv, Sound, BrokenOff
      <4> QED
        BY <2>3, <3>1, <4>3 DEF UpdateInv, BrokenOff
    <3> QED
      BY <2>3, <3>2, <3>3 DEF BrokenOff
  <2>4. CASE \E u, e, r : Onward(u, e, r)
    BY <2>2, <2>4, OnwardKeeps
  <2>5. \A u \in run.members : GenFor(u) \in Nat
    BY <2>2, GenForNat DEF Going, RunOK
  <2> QED
    BY <1>3, <2>2, <2>3, <2>4, <2>5, StepOnward
<1>4. CASE Crash
  <2>1. run' = Idle /\ ended' = [op |-> "crash", ok |-> FALSE, members |-> {}] /\ UNCHANGED <<esp, here, latest>>
    BY <1>4 DEF Crash
  <2>2. ~Updated' /\ here' \subseteq UUIDs
    BY <1>1, <2>1 DEF Updated, DiskInv
  <2> QED
    BY <1>1, <2>1, <2>2, QuietKeeps
<1>5. CASE Release
  <2>1. run = Idle /\ run' = Idle /\ latest' = latest + 1 /\ UNCHANGED <<esp, here, ended>>
    BY <1>5 DEF Release, Between
  <2>2. here' \subseteq UUIDs
    BY <1>1, <2>1 DEF DiskInv
  <2> QED
    BY <1>1, <2>1, <2>2, QuietKeeps
<1>6. CASE Plug
  <2>1. run = Idle /\ run' = Idle /\ UNCHANGED <<esp, latest, ended>>
    BY <1>6 DEF Plug, Between
  <2>2. here' \subseteq UUIDs
    BY <1>1, <1>6 DEF Plug, DiskInv
  <2> QED
    BY <1>1, <2>1, <2>2, QuietKeeps
<1>7. CASE Rot
  <2>1. run = Idle /\ run' = Idle /\ UNCHANGED <<here, latest, ended>>
    BY <1>7 DEF Rot, Between
  <2>2. PICK u \in here :
           esp' = [esp EXCEPT ![u] = With(esp[u], esp[u].build, "seen", esp[u].set, esp[u].list)]
    BY <1>7 DEF Rot
  <2>3. DOMAIN esp = UUIDs /\ here' \subseteq UUIDs
    BY <1>1, <2>1 DEF EspInv, DiskInv
  <2>4. \A v \in UUIDs : /\ esp'[v].build = esp[v].build /\ esp'[v].list = esp[v].list
                         /\ esp'[v].marker = esp[v].marker
    BY <2>2, <2>3 DEF With, ESP
  <2> QED
    BY <1>1, <2>1, <2>3, <2>4, QuietKeeps
<1>8. CASE UNCHANGED vars
  <2>1. UNCHANGED <<esp, here, latest, run, ended>>
    BY <1>8 DEF vars
  <2>2. DiskInv'
    BY <1>1, <2>1 DEF DiskInv
  <2>3. run = Idle \/ (Typed(run') /\ Brought(run', esp', latest'))
    BY <2>1 DEF UpdateInv
  <2>4. Updated' => Alike(ended'.members, esp')
    BY <2>1 DEF UpdateInv, Updated
  <2> QED
    BY <2>1, <2>2, <2>3, <2>4 DEF UpdateInv
<1> QED
  BY <1>2, <1>3, <1>4, <1>5, <1>6, <1>7, <1>8 DEF Next

(* "'alpine-zfsboot update' brings it in line" (compareMembers): after an     *)
(* update that reports success (runUpdate's loops in mirror.go) the members   *)
(* of the installation agree in build, list and generation, for any number of *)
(* ESPs, whatever commands, failures, kills and missing disks left on them.   *)
THEOREM UpdateAligns == Spec => []UpdatedAgree
<1>1. Inv /\ UpdateInv /\ [Next]_vars => UpdateInv'
  BY UpdateStep
<1>2. Inv /\ UpdateInv => UpdatedAgree
  <2> SUFFICES ASSUME Inv, UpdateInv, Updated, ended.members # {} PROVE UpdatedAgree
    BY DEF UpdatedAgree
  <2>1. Alike(ended.members, esp) /\ DiskInv /\ EspInv
    BY DEF UpdateInv, Inv
  <2> QED
    BY <2>1, AlikeAgree DEF UpdatedAgree
<1> QED
  BY <1>1, <1>2, UpdateInit, Invariance, PTL DEF Spec
=============================================================================
