--------------------------- MODULE EspMountProofs ---------------------------
(***************************************************************************)
(* The mounts of runs of the management tool that go on side by side, for  *)
(* any runs, commands, volumes, mounts found at the start, and signals at  *)
(* any moment: host.cleanup (mirror.go) unmounts only what the same run    *)
(* mounted and what is still there, and when a run is gone, what its       *)
(* registered cleanup answered for is undone.                              *)
(*                                                                         *)
(* MountInv says why. A volume is scanned and attached at most once per    *)
(* run, so a mountpoint from MkdirTemp has one line of the mount table at  *)
(* most and one place in the list of cleanups. Whoever walks the list      *)
(* holds activeCleanupMu, so the entries below its position are the ones   *)
(* still mounted; and an entry of the registered cleanup is either undone, *)
(* or still before the walk of somebody, or before a walk that the way out *)
(* of the run is bound to make.                                            *)
(***************************************************************************)
EXTENDS EspMount, TLAPS

\* A leaf is tried with Zenon, then with the SMT solver, then with Zenon for longer.
USE ZenonT(2), SMT, Zenon

\* The lines the mount table can have, and the mountpoints of the scan and of the members.
Lines == [dev : Devs, at : Shared \union Private, rw : BOOLEAN]
Scan(p, d) == MkdirTemp(p, d, "scan")
Member(p, d) == MkdirTemp(p, d, "member")

\* What a command may have left of its order, and its ways out.
Rests == Orders \union {<<"return", "exit">>, <<"exit">>, <<"exited">>}

\* Phases that are still to come after this one; volumes still to be scanned or attached.
Later(p) == Elements(Tail(phase[p]))
Unscanned(p) == {d \in Devs : "scan" \in Later(p) \/ (At(p, "scan") /\ d \in todo[p])}
Unattached(p) == {d \in Devs : \/ "attach" \in Later(p) /\ d # job[p].added
                               \/ "add" \in Later(p) /\ d = job[p].added
                               \/ (At(p, "attach") \/ At(p, "add")) /\ d \in todo[p]}

MountType ==
    /\ mounts \in Seq(Lines)
    /\ \A i, k \in DOMAIN mounts : mounts[i].at = mounts[k].at /\ mounts[i].at \in Private => i = k
    /\ job \in Jobs
    /\ phase \in [Procs -> Rests]
    /\ todo \in [Procs -> SUBSET Devs]
    /\ DOMAIN member = Procs /\ \A p \in Procs : DOMAIN member[p] = Devs
    /\ cleanups \in [Procs -> Seq(Private)]
    /\ pos \in [Procs -> [Goroutines -> Nat]]
    /\ DOMAIN seen = Procs /\ DOMAIN probe = Procs /\ DOMAIN active = Procs
    /\ DOMAIN mu = Procs /\ DOMAIN handler = Procs /\ DOMAIN open = Procs
    /\ registered \subseteq Private

\* The scan has one mount at a time, and none of the volumes before it.
ScanOK(p) ==
    /\ probe[p] # None /\ ~Exited(p) =>
          /\ At(p, "scan") /\ seen[p] = None
          /\ \E d \in todo[p] : probe[p] = Scan(p, d)
    /\ \A d \in Unscanned(p) : probe[p] # Scan(p, d) => ~MountedAt(Scan(p, d))

\* A volume is attached once.
InPlace(p) == \A w \in {"attach", "add"} : At(p, w) => todo[p] \subseteq Volumes(job[p], w)
AttachOK(p) ==
    /\ InPlace(p)
    /\ \A d \in Unattached(p) : member[p][d] = None
    /\ \A d \in Devs : member[p][d] = None =>
          /\ ~MountedAt(Member(p, d))
          /\ Member(p, d) \notin Elements(cleanups[p])
          /\ Member(p, d) \notin registered

\* The lock is held by whoever is in the cleanup, and a cleanup is registered.
LockOK(p) ==
    /\ \A g \in Goroutines : mu[p] # g => pos[p][g] = 0
    /\ \A g \in Goroutines : pos[p][g] <= Len(cleanups[p]) + 1
    /\ \A g \in Goroutines : pos[p][g] > 1 => active[p]
    /\ active[p] => Deferred(p)

\* Entry i of the list is not yet unmounted by the cleanup that is going on.
Standing(p, i) == \A g \in Goroutines : pos[p][g] = 0 \/ i < pos[p][g]

CleanupsOK(p) ==
    /\ \A i \in DOMAIN cleanups[p] : cleanups[p][i] = Member(p, cleanups[p][i].dev)
    /\ \A i, k \in DOMAIN cleanups[p] : cleanups[p][i] = cleanups[p][k] => i = k
    /\ \A i \in DOMAIN cleanups[p] : ~active[p] \/ Standing(p, i) => MountedAt(cleanups[p][i])

\* The mount is gone, or its unmount said EBUSY.
Undone(at) == ~MountedAt(at) \/ at \in busy

\* A mount the registered cleanup has still before it.
Pending(p, at) ==
    /\ active[p] /\ handler[p] # "exit" /\ ~At(p, "exit") /\ ~Exited(p)
    /\ \E i \in DOMAIN cleanups[p] : cleanups[p][i] = at /\ Standing(p, i)

RegisteredOK(p) == \A at \in registered : at.by = p => at.use = "member" /\ (Undone(at) \/ Pending(p, at))

MountInv ==
    /\ MountType
    /\ \A p \in Procs : ScanOK(p) /\ AttachOK(p) /\ LockOK(p) /\ CleanupsOK(p) /\ RegisteredOK(p)

(* Of an order a command runs its phases in, what is left after its first  *)
(* one.                                                                    *)
LEMMA TailOrder ==
    ASSUME NEW s \in Orders
    PROVE  /\ s # <<>> /\ Head(s) \in Steps /\ Head(s) \in Elements(s)
           /\ Elements(Tail(s)) = Elements(s) \ {Head(s)}
           /\ Head(s) # "work" => Tail(s) \in Orders /\ s[2] = Head(Tail(s))
<1>1. /\ s \in Seq(Steps) /\ s # <<>> /\ s[Len(s)] = "work" /\ Len(s) \in Nat \ {0}
      /\ Head(s) = s[1] /\ DOMAIN s = 1 .. Len(s)
      /\ \A i, k \in DOMAIN s : s[i] = s[k] => i = k
  BY DEF Orders
<1>2. Tail(s) \in Seq(Steps) /\ Len(Tail(s)) = Len(s) - 1 /\ DOMAIN Tail(s) = 1 .. Len(s) - 1
  BY <1>1
<1>3. \A i \in 1 .. Len(s) - 1 : Tail(s)[i] = s[i + 1] /\ i + 1 \in DOMAIN s
  BY <1>1
<1>4. Elements(Tail(s)) = Elements(s) \ {Head(s)}
  <2>1. \A x \in Elements(Tail(s)) : x \in Elements(s) /\ x # Head(s)
    BY <1>1, <1>2, <1>3 DEF Elements
  <2>2. ASSUME NEW i \in DOMAIN s, i # 1 PROVE s[i] \in Elements(Tail(s))
    <3>1. i - 1 \in DOMAIN Tail(s) /\ Tail(s)[i - 1] = s[i]
      BY <2>2, <1>1, <1>2, <1>3
    <3> QED BY <3>1 DEF Elements
  <2> QED BY <2>1, <2>2, <1>1 DEF Elements
<1>5. ASSUME Head(s) # "work" PROVE Tail(s) \in Orders /\ s[2] = Head(Tail(s))
  <2>1. Len(s) > 1
    BY <1>1, <1>5
  <2>2. Tail(s) # <<>> /\ Head(Tail(s)) = Tail(s)[1] /\ s[2] = Tail(s)[1]
    BY <2>1, <1>1, <1>2, <1>3
  <2>3. Tail(s)[Len(Tail(s))] = "work"
    BY <2>1, <1>1, <1>2, <1>3
  <2>4. \A i, k \in DOMAIN Tail(s) : Tail(s)[i] = Tail(s)[k] => i = k
    BY <1>1, <1>2, <1>3
  <2> QED BY <1>2, <2>2, <2>3, <2>4 DEF Orders
<1>6. 1 \in DOMAIN s /\ s[1] \in Steps
  BY <1>1
<1>7. Head(s) \in Elements(s)
  BY <1>1, <1>6 DEF Elements
<1> QED BY <1>1, <1>4, <1>5, <1>6, <1>7

(* The ways out. *)
LEMMA EndFacts ==
    /\ <<"return", "exit">> \in Rests /\ <<"exit">> \in Rests /\ <<"exited">> \in Rests
    /\ Head(<<"return", "exit">>) = "return" /\ Head(<<"exit">>) = "exit" /\ Head(<<"exited">>) = "exited"
    /\ <<"return", "exit">> # <<>> /\ <<"exit">> # <<>> /\ <<"exited">> # <<>> /\ Tail(<<"return", "exit">>) = <<"exit">>
    /\ Elements(<<"return", "exit">>) = {"return", "exit"}
    /\ Elements(<<"exit">>) = {"exit"} /\ Elements(<<"exited">>) = {"exited"}
    /\ Elements(Tail(<<"return", "exit">>)) = {"exit"}
    /\ Elements(Tail(<<"exit">>)) = {} /\ Elements(Tail(<<"exited">>)) = {}
BY DEF Rests, Elements

(* A phase that is over does not come back. *)
LEMMA RestFacts ==
    ASSUME NEW s \in Rests
    PROVE  /\ s # <<>> /\ Head(s) \in Elements(s)
           /\ Head(s) \in {"scan", "attach", "add", "register"} =>
                 /\ Tail(s) \in Rests /\ Tail(s) # <<>> /\ s[2] = Head(Tail(s)) /\ Head(Tail(s)) \in Steps
                 /\ Elements(Tail(s)) = Elements(s) \ {Head(s)} /\ Head(Tail(s)) \in Elements(Tail(s))
           /\ Head(s) = "return" => Tail(s) = <<"exit">>
<1>1. CASE s \in Orders
  BY <1>1, TailOrder DEF Rests, Steps
<1>2. CASE s \in {<<"return", "exit">>, <<"exit">>, <<"exited">>}
  <2>1. CASE s = <<"return", "exit">>
    BY <2>1, EndFacts
  <2>2. CASE s = <<"exit">>
    BY <2>2, EndFacts
  <2>3. CASE s = <<"exited">>
    BY <2>3, EndFacts
  <2> QED BY <1>2, <2>1, <2>2, <2>3
<1> QED BY <1>1, <1>2 DEF Rests

(* mount(2) adds one line, umount(2) takes one. *)
LEMMA MountsOne ==
    ASSUME MountType, NEW m \in Lines, m.at \in Private, ~MountedAt(m.at), mounts' = Append(mounts, m)
    PROVE  /\ mounts' \in Seq(Lines)
           /\ \A i, k \in DOMAIN mounts' : mounts'[i].at = mounts'[k].at /\ mounts'[i].at \in Private => i = k
           /\ \A at : MountedAt(at)' <=> MountedAt(at) \/ at = m.at
<1>1. /\ mounts' \in Seq(Lines) /\ Len(mounts') = Len(mounts) + 1 /\ mounts'[Len(mounts) + 1] = m
      /\ \A i \in 1 .. Len(mounts) : mounts'[i] = mounts[i]
      /\ DOMAIN mounts = 1 .. Len(mounts) /\ DOMAIN mounts' = 1 .. Len(mounts) + 1 /\ Len(mounts) \in Nat
  BY DEF MountType
<1>2. \A i \in DOMAIN mounts : mounts[i].at # m.at
  BY DEF MountedAt
<1>3. \A i \in DOMAIN mounts' : i \in DOMAIN mounts \/ i = Len(mounts) + 1
  BY <1>1
<1>4. \A at : MountedAt(at)' <=> MountedAt(at) \/ at = m.at
  BY <1>1, <1>3 DEF MountedAt
<1>5. \A i, k \in DOMAIN mounts' : mounts'[i].at = mounts'[k].at /\ mounts'[i].at \in Private => i = k
  BY <1>1, <1>2, <1>3 DEF MountType
<1> QED BY <1>1, <1>4, <1>5

(* An unmount takes away the line of its mountpoint, and leaves the other  *)
(* lines.                                                                  *)
LEMMA UnmountsOne ==
    ASSUME MountType, NEW at \in Private, mounts' = Unmounted(at)
    PROVE  /\ mounts' \in Seq(Lines)
           /\ \A i, k \in DOMAIN mounts' : mounts'[i].at = mounts'[k].at /\ mounts'[i].at \in Private => i = k
           /\ \A x : MountedAt(x)' <=> MountedAt(x) /\ x # at
<1>1. CASE ~MountedAt(at)
  <2>1. mounts' = mounts
    BY <1>1 DEF Unmounted
  <2>2. \A x : MountedAt(x)' <=> MountedAt(x)
    BY <2>1 DEF MountedAt
  <2> QED BY <1>1, <2>1, <2>2 DEF MountType
<1>2. CASE MountedAt(at)
  <2> DEFINE j == CHOOSE i \in DOMAIN mounts : mounts[i].at = at
  <2>1. j \in DOMAIN mounts /\ mounts[j].at = at
    BY <1>2 DEF MountedAt
  <2>2. mounts' = Without(j)
    BY <1>2 DEF Unmounted
  <2> HIDE DEF j
  <2>3. /\ DOMAIN mounts = 1 .. Len(mounts) /\ Len(mounts) \in Nat
        /\ \A i \in DOMAIN mounts : mounts[i] \in Lines
    BY DEF MountType
  <2>4. /\ mounts' \in Seq(Lines) /\ DOMAIN mounts' = 1 .. Len(mounts) - 1
        /\ \A i \in 1 .. Len(mounts) - 1 : mounts'[i] = mounts[IF i < j THEN i ELSE i + 1]
    BY <2>1, <2>2, <2>3 DEF Without
  <2>5. \A i \in DOMAIN mounts' : \E k \in DOMAIN mounts : k # j /\ k = (IF i < j THEN i ELSE i + 1) /\ mounts'[i] = mounts[k]
    BY <2>1, <2>3, <2>4
  <2>6. \A k \in DOMAIN mounts : k # j => \E i \in DOMAIN mounts' : mounts'[i] = mounts[k]
    <3> SUFFICES ASSUME NEW k \in DOMAIN mounts, k # j PROVE \E i \in DOMAIN mounts' : mounts'[i] = mounts[k]
      OBVIOUS
    <3>1. CASE k < j
      BY <3>1, <2>1, <2>3, <2>4
    <3>2. CASE k > j
      <4>1. k - 1 \in DOMAIN mounts' /\ mounts'[k - 1] = mounts[k]
        BY <3>2, <2>1, <2>3, <2>4
      <4> QED BY <4>1
    <3> QED BY <3>1, <3>2, <2>1, <2>3
  <2>7. \A k \in DOMAIN mounts : mounts[k].at = at => k = j
    BY <2>1 DEF MountType
  <2>8. \A x : MountedAt(x)' <=> MountedAt(x) /\ x # at
    <3>1. ASSUME NEW x, MountedAt(x)' PROVE MountedAt(x) /\ x # at
      BY <3>1, <2>5, <2>7 DEF MountedAt
    <3>2. ASSUME NEW x, MountedAt(x), x # at PROVE MountedAt(x)'
      <4>1. PICK k \in DOMAIN mounts : mounts[k].at = x
        BY <3>2 DEF MountedAt
      <4>2. k # j
        BY <4>1, <3>2, <2>1
      <4> QED BY <4>1, <4>2, <2>6 DEF MountedAt
    <3> QED BY <3>1, <3>2
  <2>9. \A i, k \in DOMAIN mounts' : mounts'[i].at = mounts'[k].at /\ mounts'[i].at \in Private => i = k
    <3> SUFFICES ASSUME NEW i \in DOMAIN mounts', NEW k \in DOMAIN mounts',
                        mounts'[i].at = mounts'[k].at, mounts'[i].at \in Private
                 PROVE  i = k
      OBVIOUS
    <3>1. PICK a \in DOMAIN mounts : a = (IF i < j THEN i ELSE i + 1) /\ mounts'[i] = mounts[a]
      BY <2>5
    <3>2. PICK b \in DOMAIN mounts : b = (IF k < j THEN k ELSE k + 1) /\ mounts'[k] = mounts[b]
      BY <2>5
    <3>3. a = b
      BY <3>1, <3>2 DEF MountType
    <3> QED BY <3>1, <3>2, <3>3, <2>1, <2>3, <2>4
  <2> QED BY <2>4, <2>8, <2>9
<1> QED BY <1>1, <1>2

-----------------------------------------------------------------------------
(* What of a run the invariant speaks of, and when it stays. *)

RunOK(p) == ScanOK(p) /\ AttachOK(p) /\ LockOK(p) /\ CleanupsOK(p) /\ RegisteredOK(p)

\* No mount of p comes or goes.
SameMounts(p) == \A at \in Private : at.by = p => (MountedAt(at)' <=> MountedAt(at))
Narrower(p) == /\ Unscanned(p)' \subseteq Unscanned(p) /\ Unattached(p)' \subseteq Unattached(p)
               /\ InPlace(p)'
SameCleanup(p) == /\ cleanups'[p] = cleanups[p] /\ active'[p] = active[p]
                  /\ pos'[p] = pos[p] /\ mu'[p] = mu[p]

(* MkdirTemp gives every run, volume and use a mountpoint of its own.      *)
LEMMA Mountpoints ==
    ASSUME NEW p \in Procs, NEW d \in Devs
    PROVE  /\ Scan(p, d) \in Private /\ Scan(p, d).by = p /\ Scan(p, d).dev = d /\ Scan(p, d).use = "scan"
           /\ Member(p, d) \in Private /\ Member(p, d).by = p /\ Member(p, d).dev = d /\ Member(p, d).use = "member"
           /\ Scan(p, d) # None /\ Member(p, d) # None
           /\ \A q, e : Scan(p, d) # Member(q, e)
           /\ \A q, e : Member(p, d) = Member(q, e) => q = p /\ e = d
           /\ \A q, e : Scan(p, d) = Scan(q, e) => q = p /\ e = d
<1>1. Scan(p, d) \in Private /\ Member(p, d) \in Private
  BY DEF Scan, Member, MkdirTemp, Private
<1>2. \A q, e : Scan(q, e).by = q /\ Scan(q, e).dev = e /\ Scan(q, e).use = "scan"
  BY DEF Scan, MkdirTemp
<1>3. \A q, e : Member(q, e).by = q /\ Member(q, e).dev = e /\ Member(q, e).use = "member"
  BY DEF Member, MkdirTemp
<1>4. Scan(p, d) # None /\ Member(p, d) # None
  BY <1>1, NamesAssumption
<1>5. \A q, e : Scan(p, d) # Member(q, e)
  <2> SUFFICES ASSUME NEW q, NEW e, Scan(p, d) = Member(q, e) PROVE FALSE
    OBVIOUS
  <2>1. Scan(p, d).use = "scan" /\ Member(q, e).use = "member"
    BY <1>2, <1>3
  <2> QED BY <2>1
<1> QED BY <1>1, <1>2, <1>3, <1>4, <1>5

(* A step that leaves the probe alone, and mounts nothing for a scan,      *)
(* keeps the scan in order.                                                *)
LEMMA ScanKept ==
    ASSUME MountInv, NEW p \in Procs, Narrower(p), probe'[p] = probe[p],
           \A at \in Private : at.by = p /\ at.use = "scan" /\ MountedAt(at)' => MountedAt(at),
           \/ probe[p] = None
           \/ Exited(p)'
           \/ phase'[p] = phase[p] /\ seen'[p] = seen[p] /\ todo'[p] = todo[p]
    PROVE  ScanOK(p)'
<1>1. ScanOK(p)
  BY DEF MountInv
<1>2. \A d \in Unscanned(p)' : probe'[p] # Scan(p, d) => ~MountedAt(Scan(p, d))'
  <2> SUFFICES ASSUME NEW d \in Unscanned(p)', probe'[p] # Scan(p, d) PROVE ~MountedAt(Scan(p, d))'
    OBVIOUS
  <2>1. d \in Unscanned(p) /\ d \in Devs
    BY DEF Narrower, Unscanned
  <2>2. ~MountedAt(Scan(p, d))
    BY <2>1, <1>1 DEF ScanOK
  <2>3. Scan(p, d) \in Private /\ Scan(p, d).by = p /\ Scan(p, d).use = "scan"
    BY <2>1, Mountpoints
  <2> QED BY <2>2, <2>3
<1>3. probe'[p] # None /\ ~Exited(p)' =>
          /\ At(p, "scan")' /\ seen'[p] = None
          /\ \E d \in todo'[p] : probe'[p] = Scan(p, d)
  BY <1>1 DEF ScanOK, Exited, At
<1> QED BY <1>2, <1>3 DEF ScanOK, Scan, MkdirTemp

(* A step that leaves host.members alone, and mounts and registers nothing *)
(* new, keeps a volume attached once.                                      *)
LEMMA AttachKept ==
    ASSUME MountInv, NEW p \in Procs, Narrower(p), member'[p] = member[p],
           \A at \in Private : at.by = p /\ at.use = "member" /\ MountedAt(at)' => MountedAt(at),
           Elements(cleanups'[p]) \subseteq Elements(cleanups[p]),
           \A at \in registered' : at.by = p => at \in registered \/ at \in Elements(cleanups[p])
    PROVE  AttachOK(p)'
<1>1. AttachOK(p)
  BY DEF MountInv
<1>2. \A d \in Unattached(p)' : member'[p][d] = None
  BY <1>1 DEF AttachOK, Narrower
<1>3. ASSUME NEW d \in Devs, member'[p][d] = None
      PROVE  ~MountedAt(Member(p, d))' /\ Member(p, d) \notin Elements(cleanups'[p]) /\ Member(p, d) \notin registered'
  <2>1. ~MountedAt(Member(p, d)) /\ Member(p, d) \notin Elements(cleanups[p]) /\ Member(p, d) \notin registered
    BY <1>1, <1>3 DEF AttachOK
  <2>2. Member(p, d) \in Private /\ Member(p, d).by = p /\ Member(p, d).use = "member"
    BY Mountpoints
  <2> QED BY <2>1, <2>2
<1>4. \A d \in Devs : member'[p][d] = None =>
          /\ ~MountedAt(Member(p, d))'
          /\ Member(p, d) \notin Elements(cleanups'[p])
          /\ Member(p, d) \notin registered'
  BY <1>3
<1>5. InPlace(p)'
  BY DEF Narrower
<1> QED BY <1>2, <1>4, <1>5 DEF AttachOK, Member, MkdirTemp, Elements

(* A step that leaves the list of cleanups and its lock alone keeps what   *)
(* is known of them.                                                       *)
LEMMA LockKept ==
    ASSUME MountInv, NEW p \in Procs, SameCleanup(p), Deferred(p) => Deferred(p)'
    PROVE  LockOK(p)'
BY DEF MountInv, LockOK, SameCleanup

(* The list of cleanups and the position in it are a sequence and a        *)
(* number.                                                                 *)
LEMMA ListType ==
    ASSUME MountInv, NEW p \in Procs
    PROVE  /\ cleanups[p] \in Seq(Private) /\ Len(cleanups[p]) \in Nat /\ DOMAIN cleanups[p] = 1 .. Len(cleanups[p])
           /\ \A g \in Goroutines : pos[p][g] \in Nat
<1>1. cleanups[p] \in Seq(Private)
  BY DEF MountInv, MountType
<1>2. \A g \in Goroutines : pos[p][g] \in Nat
  BY DEF MountInv, MountType
<1> QED BY <1>1, <1>2

(* What the cleanup has to unmount is the run's own. *)
LEMMA OwnList ==
    ASSUME MountInv, NEW p \in Procs, NEW i \in DOMAIN cleanups[p]
    PROVE  cleanups[p][i] \in Private /\ cleanups[p][i].by = p /\ cleanups[p][i].use = "member"
<1>1. cleanups[p][i] \in Private
  BY DEF MountInv, MountType
<1>2. cleanups[p][i] = Member(p, cleanups[p][i].dev)
  BY DEF MountInv, CleanupsOK
<1>3. cleanups[p][i].dev \in Devs
  BY <1>1 DEF Private
<1> QED BY <1>1, <1>2, <1>3, Mountpoints

(* A step that leaves the list alone and unmounts nothing of it keeps its  *)
(* entries mounted.                                                        *)
LEMMA CleanupsKept ==
    ASSUME MountInv, NEW p \in Procs, SameCleanup(p),
           \A at \in Private : at.by = p /\ at.use = "member" /\ MountedAt(at) => MountedAt(at)'
    PROVE  CleanupsOK(p)'
<1>1. CleanupsOK(p)
  BY DEF MountInv
<1>2. \A i \in DOMAIN cleanups[p] : cleanups[p][i] \in Private /\ cleanups[p][i].by = p /\ cleanups[p][i].use = "member"
  BY OwnList
<1>3. \A i : Standing(p, i)' <=> Standing(p, i)
  BY DEF Standing, SameCleanup
<1>4. \A i \in DOMAIN cleanups'[p] : ~active'[p] \/ Standing(p, i)' => MountedAt(cleanups[p][i])'
  BY <1>1, <1>2, <1>3 DEF CleanupsOK, SameCleanup
<1> QED BY <1>1, <1>4 DEF CleanupsOK, SameCleanup, Member, MkdirTemp

(* A step that registers nothing and does not end the run before its       *)
(* cleanup keeps what is registered undone or pending.                     *)
LEMMA RegisteredKept ==
    ASSUME MountInv, NEW p \in Procs, SameCleanup(p), busy \subseteq busy',
           \A at \in Private : at.by = p /\ at.use = "member" /\ MountedAt(at)' => MountedAt(at),
           \A at \in registered' : at.by = p => at \in registered,
           \A at : Pending(p, at) => handler'[p] # "exit" /\ ~At(p, "exit")' /\ ~Exited(p)'
    PROVE  RegisteredOK(p)'
<1> SUFFICES ASSUME NEW at \in registered', at.by = p
             PROVE  at.use = "member" /\ (Undone(at)' \/ Pending(p, at)')
  BY DEF RegisteredOK
<1>1. at \in registered /\ at \in Private /\ at.use = "member" /\ (Undone(at) \/ Pending(p, at))
  BY DEF MountInv, MountType, RegisteredOK
<1>2. CASE Undone(at)
  BY <1>1, <1>2 DEF Undone
<1>3. CASE Pending(p, at)
  <2>1. \A i : Standing(p, i)' <=> Standing(p, i)
    BY DEF Standing, SameCleanup
  <2> QED BY <1>1, <1>3, <2>1 DEF Pending, SameCleanup
<1> QED BY <1>1, <1>2, <1>3

(* A step of another run. *)
SameRun(p) ==
    /\ phase'[p] = phase[p] /\ todo'[p] = todo[p] /\ seen'[p] = seen[p] /\ probe'[p] = probe[p]
    /\ member'[p] = member[p] /\ handler'[p] = handler[p] /\ SameCleanup(p)

(* What is known of a run survives any step that is not its own.           *)
LEMMA OtherRuns ==
    ASSUME MountInv, NEW p \in Procs, SameRun(p), SameMounts(p), job' = job, busy \subseteq busy',
           \A at \in registered' : at.by = p => at \in registered
    PROVE  RunOK(p)'
<1>1. \A w : At(p, w)' <=> At(p, w)
  BY DEF At, SameRun
<1>2. Later(p)' = Later(p) /\ (Deferred(p)' <=> Deferred(p))
  BY DEF Later, Deferred, Elements, SameRun
<1>3. Narrower(p)
  <2>1. InPlace(p)'
    BY <1>1 DEF MountInv, AttachOK, InPlace, SameRun, Volumes
  <2> QED BY <1>1, <1>2, <2>1 DEF Narrower, Unscanned, Unattached, SameRun
<1>4. ScanOK(p)'
  BY <1>3, ScanKept DEF SameRun, SameMounts
<1>5. AttachOK(p)'
  BY <1>3, AttachKept DEF SameRun, SameCleanup, SameMounts
<1>6. LockOK(p)'
  BY <1>2, LockKept DEF SameRun
<1>7. CleanupsOK(p)'
  BY CleanupsKept DEF SameRun, SameMounts
<1>8. RegisteredOK(p)'
  <2>1. \A at : Pending(p, at) => handler'[p] # "exit" /\ ~At(p, "exit")' /\ ~Exited(p)'
    BY <1>1 DEF Pending, Exited, SameRun
  <2> QED BY <2>1, RegisteredKept DEF SameRun, SameMounts
<1> QED BY <1>4, <1>5, <1>6, <1>7, <1>8 DEF RunOK

(* The command goes on, or out. *)
LEMMA GoesOn ==
    ASSUME MountInv, NEW p \in Procs, job' = job,
           Head(phase[p]) \in {"scan", "attach", "add", "register"},
           phase' = [phase EXCEPT ![p] = Tail(@)],
           todo' = [todo EXCEPT ![p] = Volumes(job[p], phase[p][2])]
    PROVE  /\ Narrower(p) /\ ~Exited(p)' /\ ~At(p, "exit")' /\ (Deferred(p) => Deferred(p)')
           /\ Head(phase[p]) = "register" => Deferred(p)'
           /\ phase' \in [Procs -> Rests] /\ todo' \in [Procs -> SUBSET Devs]
<1> DEFINE s == phase[p]
           t == Tail(phase[p])
<1>1. s \in Rests /\ phase \in [Procs -> Rests] /\ todo \in [Procs -> SUBSET Devs]
  BY DEF MountInv, MountType
<1>2. /\ t \in Rests /\ t # <<>> /\ s[2] = Head(t) /\ Head(t) \in Steps
      /\ Elements(t) = Elements(s) \ {Head(s)} /\ Head(t) \in Elements(t)
  BY <1>1, RestFacts
<1>3. phase'[p] = t /\ todo'[p] = Volumes(job[p], Head(t)) /\ phase' \in [Procs -> Rests]
  BY <1>1, <1>2
<1>4. Elements(Tail(t)) \subseteq Elements(t)
  <2>1. CASE Head(t) \in {"scan", "attach", "add", "register"}
    BY <2>1, <1>2, RestFacts
  <2>2. CASE Head(t) = "work"
    <3>1. t \in Orders
      BY <1>2, <2>2, EndFacts DEF Rests
    <3> QED BY <3>1, TailOrder
  <2> QED BY <1>2, <2>1, <2>2 DEF Steps
<1>5. Later(p) = Elements(t) /\ Later(p)' = Elements(Tail(t))
  BY <1>3 DEF Later, Elements
<1>6. \A w : At(p, w)' <=> w = Head(t)
  BY <1>2, <1>3 DEF At
<1>7. \A d \in Volumes(job[p], "attach") : d # job[p].added
  BY DEF Volumes
<1>8. \A d \in Volumes(job[p], "add") : d = job[p].added
  BY DEF Volumes
<1> HIDE DEF s, t
<1>9. Unscanned(p)' \subseteq Unscanned(p)
  BY <1>2, <1>4, <1>5, <1>6 DEF Unscanned
<1>10. Unattached(p)' \subseteq Unattached(p)
  BY <1>2, <1>3, <1>4, <1>5, <1>6, <1>7, <1>8 DEF Unattached
<1>11. ~Exited(p)' /\ ~At(p, "exit")'
  BY <1>2, <1>6 DEF Exited, Steps
<1>12. Elements(phase[p])' = Elements(t)
  BY <1>3 DEF Elements
<1>13. (Deferred(p) => Deferred(p)') /\ (Head(phase[p]) = "register" => Deferred(p)')
  BY <1>2, <1>12 DEF Deferred, s
<1>14. todo' \in [Procs -> SUBSET Devs]
  BY <1>1 DEF Volumes
<1>15. InPlace(p)'
  BY <1>3, <1>6 DEF InPlace, Volumes
<1> QED BY <1>3, <1>9, <1>10, <1>11, <1>13, <1>14, <1>15 DEF Narrower

(* A phase keeps on: volumes are done with. *)
LEMMA StaysOn ==
    ASSUME MountInv, NEW p \in Procs, job' = job, phase' = phase, NEW T \in SUBSET todo[p],
           todo' = [todo EXCEPT ![p] = T]
    PROVE  /\ Narrower(p) /\ (Deferred(p)' <=> Deferred(p)) /\ todo'[p] = T
           /\ \A w : At(p, w)' <=> At(p, w)
           /\ todo' \in [Procs -> SUBSET Devs]
<1>1. todo \in [Procs -> SUBSET Devs]
  BY DEF MountInv, MountType
<1>2. todo'[p] = T /\ todo' \in [Procs -> SUBSET Devs]
  BY <1>1
<1>3. \A w : At(p, w)' <=> At(p, w)
  BY DEF At
<1>4. Later(p)' = Later(p) /\ (Deferred(p)' <=> Deferred(p))
  BY DEF Later, Deferred, Elements
<1>5. Narrower(p)
  <2>1. InPlace(p)'
    BY <1>2, <1>3 DEF MountInv, AttachOK, InPlace, Volumes
  <2> QED BY <1>2, <1>3, <1>4, <2>1 DEF Narrower, Unscanned, Unattached
<1> QED BY <1>2, <1>3, <1>4, <1>5

(* A command that stays in its phase has the same volumes before it.       *)
LEMMA SteadyOn ==
    ASSUME MountInv, NEW p \in Procs, job' = job, phase' = phase, todo' = todo
    PROVE  Narrower(p) /\ (Deferred(p)' <=> Deferred(p)) /\ \A w : At(p, w)' <=> At(p, w)
<1>3. \A w : At(p, w)' <=> At(p, w)
  BY DEF At
<1>4. Later(p)' = Later(p) /\ (Deferred(p)' <=> Deferred(p))
  BY DEF Later, Deferred, Elements
<1>5. InPlace(p)'
  BY <1>3 DEF MountInv, AttachOK, InPlace, Volumes
<1> QED BY <1>3, <1>4, <1>5 DEF Narrower, Unscanned, Unattached

(* A command on its way out has no volume before it.                       *)
LEMMA GoesOut ==
    ASSUME MountInv, NEW p \in Procs, job' = job,
           NEW s \in {<<"return", "exit">>, <<"exit">>, <<"exited">>},
           phase' = [phase EXCEPT ![p] = s]
    PROVE  /\ Narrower(p) /\ Deferred(p)' /\ phase' \in [Procs -> Rests]
           /\ \A w : At(p, w)' <=> w = Head(s)
<1>1. phase'[p] = s /\ phase' \in [Procs -> Rests]
  BY DEF MountInv, MountType, Rests
<1>2. /\ s # <<>> /\ Head(s) \in {"return", "exit", "exited"}
      /\ Elements(s) \subseteq {"return", "exit", "exited"} /\ Elements(Tail(s)) \subseteq {"exit"}
  <2>1. CASE s = <<"return", "exit">>
    BY <2>1, EndFacts
  <2>2. CASE s = <<"exit">>
    BY <2>2, EndFacts
  <2>3. CASE s = <<"exited">>
    BY <2>3, EndFacts
  <2> QED BY <2>1, <2>2, <2>3
<1>3. \A w : At(p, w)' <=> w = Head(s)
  BY <1>1, <1>2 DEF At
<1>4. Later(p)' \subseteq {"exit"} /\ Deferred(p)'
  BY <1>1, <1>2 DEF Later, Deferred, Elements
<1>5. Unscanned(p)' = {} /\ Unattached(p)' = {}
  BY <1>2, <1>3, <1>4 DEF Unscanned, Unattached
<1> QED BY <1>1, <1>2, <1>3, <1>4, <1>5 DEF Narrower, InPlace

(* The mounted mountpoints are those of the table.                         *)
LEMMA NoMounting ==
    ASSUME UNCHANGED mounts
    PROVE  \A at : MountedAt(at)' <=> MountedAt(at)
BY DEF MountedAt

(* What the steps keep that leave mounts and the cleanup alone. *)
LEMMA CommandOnly ==
    ASSUME MountInv, NEW p \in Procs, UNCHANGED <<mounts, job, member, cleanupVars>>, Narrower(p),
           Deferred(p) => Deferred(p)', ~Exited(p)', At(p, "exit")' => ~Deferred(p),
           ScanOK(p)'
    PROVE  RunOK(p)'
<1>1. UNCHANGED <<cleanups, active, mu, pos, handler, registered, busy>> /\ SameCleanup(p)
  BY DEF cleanupVars, SameCleanup
<1>2. \A at : MountedAt(at)' <=> MountedAt(at)
  BY NoMounting
<1>3. AttachOK(p)'
  BY <1>1, <1>2, AttachKept
<1>4. LockOK(p)'
  BY <1>1, LockKept
<1>5. CleanupsOK(p)'
  BY <1>1, <1>2, CleanupsKept
<1>6. \A at : Pending(p, at) => handler'[p] # "exit" /\ ~At(p, "exit")' /\ ~Exited(p)'
  BY <1>1 DEF Pending, MountInv, LockOK
<1>7. RegisteredOK(p)'
  BY <1>1, <1>2, <1>6, RegisteredKept
<1> QED BY <1>3, <1>4, <1>5, <1>7 DEF RunOK

(* The type of what such a step changes. *)
LEMMA CommandType ==
    ASSUME MountInv, UNCHANGED <<mounts, job, member, cleanupVars>>,
           phase' \in [Procs -> Rests], todo' \in [Procs -> SUBSET Devs],
           DOMAIN seen' = Procs, DOMAIN probe' = Procs, DOMAIN open' = Procs
    PROVE  MountType'
BY DEF MountInv, MountType, cleanupVars

(* A step of one run has to be looked at for that run only.                *)
LEMMA OthersKept ==
    ASSUME MountInv, NEW p \in Procs, job' = job, busy \subseteq busy',
           \A q \in Procs \ {p} : SameRun(q) /\ SameMounts(q),
           \A at \in registered' : at.by # p => at \in registered,
           MountType', RunOK(p)'
    PROVE  MountInv'
<1>1. ASSUME NEW q \in Procs, q # p PROVE RunOK(q)'
  BY <1>1, OtherRuns
<1>2. \A q \in Procs : RunOK(q)'
  BY <1>1
<1> QED BY <1>2 DEF MountInv, RunOK

(* For the runs that a command's step does not concern. *)
LEMMA CommandApart ==
    ASSUME MountInv, NEW p \in Procs, UNCHANGED <<mounts, job, member, cleanupVars>>,
           \A q \in Procs \ {p} : /\ phase'[q] = phase[q] /\ todo'[q] = todo[q]
                                  /\ seen'[q] = seen[q] /\ probe'[q] = probe[q],
           MountType', RunOK(p)'
    PROVE  MountInv'
<1>1. UNCHANGED <<cleanups, active, mu, pos, handler, registered, busy, member, job>>
  BY DEF cleanupVars
<1>2. \A at : MountedAt(at)' <=> MountedAt(at)
  BY NoMounting
<1>3. \A q \in Procs \ {p} : SameRun(q) /\ SameMounts(q)
  BY <1>1, <1>2 DEF SameRun, SameMounts, SameCleanup
<1> QED BY <1>1, <1>3, OthersKept

(* findExistingMount reads the mount table and changes nothing of it.      *)
LEMMA LookupStep ==
    ASSUME MountInv, NEW p \in Procs, Lookup(p)
    PROVE  MountInv'
<1>1. /\ UNCHANGED <<mounts, job, phase, todo, probe, member, open, cleanupVars>>
      /\ probe[p] = None /\ Mounting(p) /\ \E x : seen' = [seen EXCEPT ![p] = x]
  BY DEF Lookup
<1>2. Narrower(p) /\ (Deferred(p)' <=> Deferred(p)) /\ \A w : At(p, w)' <=> At(p, w)
  BY <1>1, SteadyOn
<1>3. MountType'
  <2>1. DOMAIN seen' = Procs
    BY <1>1 DEF MountInv, MountType
  <2> QED BY <1>1, <2>1, CommandType DEF MountInv, MountType
<1>4. ScanOK(p)'
  BY <1>1, <1>2, NoMounting, ScanKept
<1>5. ~Exited(p)' /\ ~At(p, "exit")'
  BY <1>1, <1>2 DEF Mounting, At, Exited
<1>6. RunOK(p)'
  BY <1>1, <1>2, <1>4, <1>5, CommandOnly
<1>7. \A q \in Procs \ {p} : seen'[q] = seen[q]
  BY <1>1 DEF MountInv, MountType
<1> QED BY <1>1, <1>3, <1>6, <1>7, CommandApart

(* The work has no probe. *)
LEMMA Unprobed ==
    ASSUME MountInv, NEW p \in Procs, ~Exited(p), ~At(p, "scan") \/ todo[p] = {}
    PROVE  probe[p] = None
BY DEF MountInv, ScanOK

(* Work on the files of an attached volume changes no mount and no list.   *)
LEMMA WorkStep ==
    ASSUME MountInv, NEW p \in Procs, UNCHANGED <<mounts, job, phase, seen, probe, member, cleanupVars>>,
           ~Exited(p), ~At(p, "exit"), ~At(p, "scan"), DOMAIN open' = Procs,
           todo' = todo \/ \E dev \in Devs : todo' = [todo EXCEPT ![p] = @ \ {dev}]
    PROVE  MountInv'
<1>1. PICK T \in SUBSET todo[p] : todo' = [todo EXCEPT ![p] = T]
  BY DEF MountInv, MountType
<1>2. /\ Narrower(p) /\ (Deferred(p)' <=> Deferred(p)) /\ todo' \in [Procs -> SUBSET Devs]
      /\ \A w : At(p, w)' <=> At(p, w)
  BY <1>1, StaysOn
<1>3. MountType'
  BY <1>2, CommandType DEF MountInv, MountType
<1>4. ScanOK(p)'
  BY <1>2, NoMounting, Unprobed, ScanKept
<1>5. ~Exited(p)' /\ ~At(p, "exit")'
  BY <1>2 DEF Exited
<1>6. RunOK(p)'
  BY <1>2, <1>4, <1>5, CommandOnly
<1>7. \A q \in Procs \ {p} : todo'[q] = todo[q]
  BY <1>1 DEF MountInv, MountType
<1> QED BY <1>3, <1>6, <1>7, CommandApart

(* Opening a file is such work.                                            *)
LEMMA OpenFileStep ==
    ASSUME MountInv, NEW p \in Procs, OpenFile(p)
    PROVE  MountInv'
<1>1. /\ UNCHANGED <<mounts, job, phase, seen, probe, member, cleanupVars>> /\ At(p, "work")
      /\ open' = open \/ \E x : open' = [open EXCEPT ![p] = x]
      /\ todo' = todo \/ \E dev \in Devs : todo' = [todo EXCEPT ![p] = @ \ {dev}]
  BY DEF OpenFile
<1>2. ~Exited(p) /\ ~At(p, "exit") /\ ~At(p, "scan")
  BY <1>1 DEF At, Exited
<1>3. DOMAIN open' = Procs
  BY <1>1 DEF MountInv, MountType
<1> QED BY <1>1, <1>2, <1>3, WorkStep

(* A command goes on when no volume is left; the volumes of the next phase *)
(* are all still to be handled.                                            *)
LEMMA NextPhaseStep ==
    ASSUME MountInv, NEW p \in Procs, NextPhase(p)
    PROVE  MountInv'
<1>1. /\ UNCHANGED <<mounts, job, seen, probe, member, open, cleanupVars>>
      /\ phase' = [phase EXCEPT ![p] = Tail(@)] /\ todo' = [todo EXCEPT ![p] = Volumes(job[p], phase[p][2])]
      /\ Mounting(p) /\ todo[p] = {}
  BY DEF NextPhase
<1>2. Head(phase[p]) \in {"scan", "attach", "add", "register"} /\ ~Exited(p)
  BY <1>1 DEF Mounting, At, Exited
<1>3. /\ Narrower(p) /\ ~Exited(p)' /\ ~At(p, "exit")' /\ (Deferred(p) => Deferred(p)')
      /\ phase' \in [Procs -> Rests] /\ todo' \in [Procs -> SUBSET Devs]
  BY <1>1, <1>2, GoesOn
<1>4. MountType'
  BY <1>1, <1>3, CommandType DEF MountInv, MountType
<1>5. ScanOK(p)'
  BY <1>1, <1>2, <1>3, NoMounting, Unprobed, ScanKept
<1>6. RunOK(p)'
  BY <1>1, <1>3, <1>5, CommandOnly
<1>7. \A q \in Procs \ {p} : phase'[q] = phase[q] /\ todo'[q] = todo[q]
  BY <1>1 DEF MountInv, MountType
<1> QED BY <1>1, <1>4, <1>6, <1>7, CommandApart

(* A command that returns or dies has its cleanup still to run.            *)
LEMMA ReturnStep ==
    ASSUME MountInv, NEW p \in Procs, Return(p)
    PROVE  MountInv'
<1> DEFINE s == IF Deferred(p) THEN <<"return", "exit">> ELSE <<"exit">>
<1>1. /\ UNCHANGED <<mounts, job, seen, probe, member, open, cleanupVars>>
      /\ phase' = [phase EXCEPT ![p] = s] /\ todo' = [todo EXCEPT ![p] = {}]
      /\ ~Exited(p) /\ (~At(p, "scan") \/ todo[p] = {})
  BY DEF Return, At, Exited
<1>2. s \in {<<"return", "exit">>, <<"exit">>, <<"exited">>}
  OBVIOUS
<1>3. /\ Narrower(p) /\ Deferred(p)' /\ phase' \in [Procs -> Rests]
      /\ \A w : At(p, w)' <=> w = Head(s)
  BY <1>1, <1>2, GoesOut
<1>4. Head(s) = (IF Deferred(p) THEN "return" ELSE "exit")
  BY EndFacts
<1> HIDE DEF s
<1>5. ~Exited(p)' /\ (At(p, "exit")' => ~Deferred(p))
  BY <1>3, <1>4 DEF Exited
<1>6. todo' \in [Procs -> SUBSET Devs]
  BY <1>1 DEF MountInv, MountType
<1>7. MountType'
  BY <1>1, <1>3, <1>6, CommandType DEF MountInv, MountType
<1>8. ScanOK(p)'
  BY <1>1, <1>3, NoMounting, Unprobed, ScanKept
<1>9. RunOK(p)'
  BY <1>1, <1>3, <1>5, <1>8, CommandOnly
<1>10. \A q \in Procs \ {p} : phase'[q] = phase[q] /\ todo'[q] = todo[q]
  BY <1>1 DEF MountInv, MountType
<1> QED BY <1>1, <1>7, <1>9, <1>10, CommandApart

(* Closing a file changes what may be busy, not the mounts.                *)
LEMMA CloseFileStep ==
    ASSUME MountInv, NEW p \in Procs, CloseFile(p)
    PROVE  MountInv'
<1>1. /\ UNCHANGED <<mounts, job, phase, seen, probe, member, cleanupVars>> /\ At(p, "work")
      /\ open' = [open EXCEPT ![p] = None]
      /\ \E dev \in Devs : todo' = [todo EXCEPT ![p] = @ \ {dev}]
  BY DEF CloseFile
<1>2. ~Exited(p) /\ ~At(p, "exit") /\ ~At(p, "scan")
  BY <1>1 DEF At, Exited
<1>3. DOMAIN open' = Procs
  BY <1>1 DEF MountInv, MountType
<1> QED BY <1>1, <1>2, <1>3, WorkStep

(* The scan's mounts are no one else's, and no member's. *)
LEMMA ScanOnly ==
    ASSUME MountInv, NEW p \in Procs, NEW d \in Devs,
           \A at : at # Scan(p, d) => (MountedAt(at)' <=> MountedAt(at)),
           UNCHANGED <<job, phase, member, open, cleanups, active, mu, pos, handler, registered>>,
           busy \subseteq busy', At(p, "scan"), Narrower(p), ScanOK(p)', MountType',
           \A q \in Procs \ {p} : todo'[q] = todo[q] /\ seen'[q] = seen[q] /\ probe'[q] = probe[q]
    PROVE  MountInv'
<1>1. \A at \in Private : at.by # p \/ at.use = "member" => (MountedAt(at)' <=> MountedAt(at))
  BY Mountpoints
<1>2. SameCleanup(p) /\ (Deferred(p)' <=> Deferred(p)) /\ \A w : At(p, w)' <=> At(p, w)
  BY DEF SameCleanup, Deferred, Elements, At
<1>3. AttachOK(p)'
  BY <1>1, AttachKept
<1>4. LockOK(p)'
  BY <1>2, LockKept
<1>5. CleanupsOK(p)'
  BY <1>1, <1>2, CleanupsKept
<1>6. RegisteredOK(p)'
  <2>1. \A at : Pending(p, at) => handler'[p] # "exit" /\ ~At(p, "exit")' /\ ~Exited(p)'
    BY <1>2 DEF Pending, Exited
  <2> QED BY <1>1, <1>2, <2>1, RegisteredKept
<1>7. \A q \in Procs \ {p} : SameRun(q) /\ SameMounts(q)
  BY <1>1 DEF SameRun, SameMounts, SameCleanup
<1>8. RunOK(p)'
  BY <1>3, <1>4, <1>5, <1>6 DEF RunOK
<1> QED BY <1>7, <1>8, OthersKept

(* The scan mounts the volume at a mountpoint nothing is mounted at.       *)
LEMMA ProbeStep ==
    ASSUME MountInv, NEW p \in Procs, Probe(p)
    PROVE  MountInv'
<1> DEFINE m(dev) == MountESP(p, dev, TRUE, seen[p], "scan")
<1>1. PICK dev \in Devs :
        /\ Foremost(p, dev)
        /\ mounts' = Mounted(dev, TRUE, m(dev))
        /\ IF ~m(dev).err /\ m(dev).own
             THEN probe' = [probe EXCEPT ![p] = m(dev).at] /\ UNCHANGED todo
             ELSE todo' = [todo EXCEPT ![p] = @ \ {dev}] /\ UNCHANGED probe
  BY DEF Probe
<1>2. /\ At(p, "scan") /\ seen[p] # None /\ seen' = [seen EXCEPT ![p] = None]
      /\ UNCHANGED <<job, phase, member, open, cleanups, active, mu, pos, handler, registered, busy>>
  BY DEF Probe, cleanupVars
<1>3. ~Exited(p) /\ probe[p] = None /\ dev \in todo[p] /\ seen'[p] = None
  <2>1. ~Exited(p)
    BY <1>2 DEF At, Exited
  <2> QED BY <1>1, <1>2, <2>1 DEF MountInv, ScanOK, Foremost, MountType
<1>4. \A q \in Procs \ {p} : todo'[q] = todo[q] /\ seen'[q] = seen[q] /\ probe'[q] = probe[q]
  BY <1>1, <1>2 DEF MountInv, MountType
<1>5. DOMAIN seen' = Procs /\ DOMAIN probe' = Procs
  BY <1>1, <1>2 DEF MountInv, MountType
<1>6. CASE ~m(dev).err /\ m(dev).own
  <2>1. /\ m(dev).at = Scan(p, dev) /\ probe' = [probe EXCEPT ![p] = Scan(p, dev)] /\ todo' = todo
        /\ mounts' = Append(mounts, [dev |-> dev, at |-> Scan(p, dev), rw |-> FALSE])
    BY <1>1, <1>6 DEF MountESP, Mounted, Scan
  <2>2. dev \in Unscanned(p) /\ probe[p] # Scan(p, dev)
    BY <1>2, <1>3, Mountpoints DEF Unscanned
  <2>3. ~MountedAt(Scan(p, dev))
    BY <2>2 DEF MountInv, ScanOK
  <2> DEFINE line == [dev |-> dev, at |-> Scan(p, dev), rw |-> FALSE]
  <2>4. line \in Lines /\ line.at = Scan(p, dev) /\ line.at \in Private
    BY Mountpoints DEF Lines
  <2>5. mounts' = Append(mounts, line)
    BY <2>1
  <2> HIDE DEF line
  <2>6. /\ mounts' \in Seq(Lines)
        /\ \A i, k \in DOMAIN mounts' : mounts'[i].at = mounts'[k].at /\ mounts'[i].at \in Private => i = k
        /\ \A at : MountedAt(at)' <=> MountedAt(at) \/ at = Scan(p, dev)
    BY <2>3, <2>4, <2>5, MountsOne DEF MountInv
  <2>7. MountType'
    BY <1>2, <1>5, <2>1, <2>6 DEF MountInv, MountType
  <2>8. Narrower(p) /\ \A w : At(p, w)' <=> At(p, w)
    BY <1>2, <2>1, SteadyOn
  <2>9. probe'[p] = Scan(p, dev)
    BY <2>1 DEF MountInv, MountType
  <2>10. \A d \in Unscanned(p)' : probe'[p] # Scan(p, d) => ~MountedAt(Scan(p, d))'
    <3> SUFFICES ASSUME NEW d \in Unscanned(p)', probe'[p] # Scan(p, d) PROVE ~MountedAt(Scan(p, d))'
      OBVIOUS
    <3>1. d \in Unscanned(p) /\ d \in Devs /\ Scan(p, d) # None
      <4>1. d \in Unscanned(p)
        BY <2>8 DEF Narrower
      <4>2. d \in Devs
        BY <4>1 DEF Unscanned
      <4> QED BY <4>1, <4>2, Mountpoints
    <3>2. ~MountedAt(Scan(p, d))
      BY <1>3, <3>1 DEF MountInv, ScanOK
    <3> QED BY <2>6, <2>9, <3>2
  <2>11. ScanOK(p)'
    <3>1. At(p, "scan")' /\ seen'[p] = None /\ dev \in todo'[p] /\ probe'[p] = Scan(p, dev)
      BY <1>2, <1>3, <2>1, <2>8, <2>9
    <3>2. \E d \in todo'[p] : probe'[p] = Scan(p, d)
      BY <3>1
    <3> QED BY <2>10, <3>1, <3>2 DEF ScanOK, Scan, MkdirTemp
  <2> QED BY <1>2, <1>4, <2>6, <2>7, <2>8, <2>11, ScanOnly
<1>7. CASE ~(~m(dev).err /\ m(dev).own)
  <2>1. mounts' = mounts /\ todo' = [todo EXCEPT ![p] = @ \ {dev}] /\ probe' = probe
    BY <1>1, <1>7 DEF Mounted
  <2> DEFINE T == todo[p] \ {dev}
  <2>2. todo' = [todo EXCEPT ![p] = T] /\ T \in SUBSET todo[p]
    BY <2>1
  <2> HIDE DEF T
  <2>3. Narrower(p) /\ todo' \in [Procs -> SUBSET Devs]
    BY <1>2, <2>2, StaysOn
  <2>4. \A at : MountedAt(at)' <=> MountedAt(at)
    BY <2>1, NoMounting
  <2>5. ScanOK(p)'
    BY <1>3, <2>1, <2>3, <2>4, ScanKept
  <2>6. MountType'
    BY <1>2, <1>5, <2>1, <2>3 DEF MountInv, MountType
  <2> QED BY <1>2, <1>4, <2>3, <2>4, <2>5, <2>6, ScanOnly
<1> QED BY <1>6, <1>7

(* The scan unmounts the volume again, or leaves it mounted when it is     *)
(* busy; it does not come back to it.                                      *)
LEMMA UnprobeStep ==
    ASSUME MountInv, NEW p \in Procs, Unprobe(p)
    PROVE  MountInv'
<1>1. /\ probe[p] # None /\ ~Exited(p) /\ busy \subseteq busy' /\ probe' = [probe EXCEPT ![p] = None]
      /\ todo' = [todo EXCEPT ![p] = @ \ {probe[p].dev}]
      /\ mounts' = mounts \/ mounts' = Unmounted(probe[p])
      /\ UNCHANGED <<job, phase, seen, member, open, cleanups, active, mu, pos, handler, registered>>
  BY DEF Unprobe
<1>2. PICK d \in todo[p] : probe[p] = Scan(p, d)
  BY <1>1 DEF MountInv, ScanOK
<1>3. d \in Devs /\ probe[p].dev = d /\ At(p, "scan") /\ probe'[p] = None /\ DOMAIN probe' = Procs
  <2>1. d \in Devs
    BY DEF MountInv, MountType
  <2>2. probe[p].dev = d
    BY <1>2, <2>1, Mountpoints
  <2>3. At(p, "scan")
    BY <1>1 DEF MountInv, ScanOK
  <2>4. probe'[p] = None /\ DOMAIN probe' = Procs
    BY <1>1 DEF MountInv, MountType
  <2> QED BY <2>1, <2>2, <2>3, <2>4
<1>4. \A at : at # Scan(p, d) => (MountedAt(at)' <=> MountedAt(at))
  <2>1. CASE mounts' = mounts
    BY <2>1, NoMounting
  <2>2. CASE mounts' = Unmounted(probe[p])
    <3>1. mounts' = Unmounted(Scan(p, d)) /\ Scan(p, d) \in Private
      BY <1>2, <1>3, <2>2, Mountpoints
    <3> QED BY <3>1, UnmountsOne DEF MountInv
  <2> QED BY <1>1, <2>1, <2>2
<1>5. /\ mounts' \in Seq(Lines)
      /\ \A i, k \in DOMAIN mounts' : mounts'[i].at = mounts'[k].at /\ mounts'[i].at \in Private => i = k
  <2>1. CASE mounts' = mounts
    BY <2>1 DEF MountInv, MountType
  <2>2. CASE mounts' = Unmounted(probe[p])
    <3>1. mounts' = Unmounted(Scan(p, d)) /\ Scan(p, d) \in Private
      BY <1>2, <1>3, <2>2, Mountpoints
    <3> QED BY <3>1, UnmountsOne DEF MountInv
  <2> QED BY <1>1, <2>1, <2>2
<1> DEFINE T == todo[p] \ {d}
<1>6. todo' = [todo EXCEPT ![p] = T] /\ T \in SUBSET todo[p]
  BY <1>1, <1>3
<1>7. d \notin T
  OBVIOUS
<1> HIDE DEF T
<1>8. /\ Narrower(p) /\ todo' \in [Procs -> SUBSET Devs] /\ todo'[p] = T /\ \A w : At(p, w)' <=> At(p, w)
  BY <1>1, <1>6, StaysOn
<1>9. MountType'
  BY <1>1, <1>3, <1>5, <1>8 DEF MountInv, MountType
<1>10. ScanOK(p)'
  <2>1. "scan" \notin Later(p)'
    <3>1. phase[p] \in Rests /\ Head(phase[p]) = "scan"
      BY <1>3 DEF MountInv, MountType, At
    <3>2. "scan" \notin Elements(Tail(phase[p]))
      BY <3>1, RestFacts
    <3> QED BY <1>1, <3>2 DEF Later, Elements
  <2>2. \A e \in Unscanned(p)' : e # d /\ e \in Devs
    BY <1>7, <1>8, <2>1 DEF Unscanned
  <2>3. \A e \in Unscanned(p)' : ~MountedAt(Scan(p, e))'
    <3> SUFFICES ASSUME NEW e \in Unscanned(p)' PROVE ~MountedAt(Scan(p, e))'
      OBVIOUS
    <3>1. e \in Unscanned(p) /\ Scan(p, e) # Scan(p, d)
      <4>1. e \in Unscanned(p)
        BY <1>8 DEF Narrower
      <4>2. e # d /\ e \in Devs
        BY <2>2
      <4> QED BY <1>3, <4>1, <4>2, Mountpoints
    <3>2. ~MountedAt(Scan(p, e))
      BY <1>2, <3>1 DEF MountInv, ScanOK
    <3> QED BY <1>4, <3>1, <3>2
  <2> QED BY <1>3, <2>3 DEF ScanOK, Scan, MkdirTemp
<1>11. \A q \in Procs \ {p} : todo'[q] = todo[q] /\ seen'[q] = seen[q] /\ probe'[q] = probe[q]
  BY <1>1 DEF MountInv, MountType
<1> QED BY <1>1, <1>3, <1>4, <1>8, <1>9, <1>10, <1>11, ScanOnly

(* A volume that has been gone through is not gone through again. *)
LEMMA AttachedOnce ==
    ASSUME MountInv, NEW p \in Procs, At(p, "attach") \/ At(p, "add"), NEW dev \in todo[p],
           job' = job, phase' = phase, todo' = [todo EXCEPT ![p] = @ \ {dev}]
    PROVE  /\ dev \in Devs /\ dev \in Unattached(p) /\ dev \notin Unattached(p)'
           /\ Narrower(p) /\ todo' \in [Procs -> SUBSET Devs] /\ (Deferred(p)' <=> Deferred(p))
           /\ \A w : At(p, w)' <=> At(p, w)
<1> DEFINE T == todo[p] \ {dev}
<1>1. todo' = [todo EXCEPT ![p] = T] /\ T \in SUBSET todo[p] /\ dev \notin T
  OBVIOUS
<1> HIDE DEF T
<1>2. /\ Narrower(p) /\ (Deferred(p)' <=> Deferred(p)) /\ todo'[p] = T
      /\ (\A w : At(p, w)' <=> At(p, w)) /\ todo' \in [Procs -> SUBSET Devs]
  BY <1>1, StaysOn
<1>3. dev \in Devs /\ dev \in Unattached(p)
  BY DEF MountInv, MountType, Unattached
<1>4. Later(p)' = Later(p)
  BY DEF Later, Elements
<1>5. phase[p] \in Rests /\ Head(phase[p]) \notin Later(p)
  <2>1. phase[p] \in Rests /\ Head(phase[p]) \in {"attach", "add"}
    BY DEF MountInv, MountType, At
  <2> QED BY <2>1, RestFacts DEF Later
<1>6. CASE At(p, "attach")
  <2>1. dev # job[p].added
    BY <1>6 DEF MountInv, AttachOK, InPlace, Volumes
  <2> QED BY <1>1, <1>2, <1>3, <1>4, <1>5, <1>6, <2>1 DEF Unattached, At
<1>7. CASE At(p, "add")
  <2>1. dev = job[p].added
    BY <1>7 DEF MountInv, AttachOK, InPlace, Volumes
  <2> QED BY <1>1, <1>2, <1>3, <1>4, <1>5, <1>7, <2>1 DEF Unattached, At
<1> QED BY <1>6, <1>7

(* The ESP is not mounted, or already was. *)
LEMMA AttachNothing ==
    ASSUME MountInv, NEW p \in Procs, At(p, "attach") \/ At(p, "add"), NEW dev \in todo[p],
           todo' = [todo EXCEPT ![p] = @ \ {dev}], seen' = [seen EXCEPT ![p] = None],
           UNCHANGED <<mounts, cleanups, registered, job, phase, probe, open, active, mu, pos, handler, busy>>,
           member' = member \/ \E at : member' = [member EXCEPT ![p][dev] = at]
    PROVE  MountInv'
<1>1. /\ dev \in Devs /\ dev \in Unattached(p) /\ dev \notin Unattached(p)'
      /\ Narrower(p) /\ todo' \in [Procs -> SUBSET Devs] /\ (Deferred(p)' <=> Deferred(p))
      /\ \A w : At(p, w)' <=> At(p, w)
  BY AttachedOnce
<1>2. \A at : MountedAt(at)' <=> MountedAt(at)
  BY NoMounting
<1>3. ~At(p, "exit") /\ ~Exited(p) /\ ~At(p, "scan")
  BY DEF At, Exited
<1>4. ScanOK(p)'
  BY <1>1, <1>2, <1>3, Unprobed, ScanKept
<1>5. /\ DOMAIN seen' = Procs /\ DOMAIN member' = Procs /\ \A q \in Procs : DOMAIN member'[q] = Devs
      /\ \A d \in Devs : d # dev => member'[p][d] = member[p][d]
      /\ \A q \in Procs \ {p} : member'[q] = member[q] /\ seen'[q] = seen[q] /\ todo'[q] = todo[q]
  BY DEF MountInv, MountType
<1>6. MountType'
  BY <1>1, <1>5 DEF MountInv, MountType
<1>7. AttachOK(p)'
  <2>1. AttachOK(p)
    BY DEF MountInv
  <2>2. InPlace(p)' /\ \A d \in Unattached(p)' : member'[p][d] = None
    <3>1. InPlace(p)'
      BY <1>1 DEF Narrower
    <3>2. \A d \in Unattached(p)' : d \in Unattached(p) /\ d # dev
      BY <1>1 DEF Narrower
    <3>3. \A d \in Unattached(p) : d \in Devs /\ member[p][d] = None
      BY <2>1 DEF AttachOK, Unattached
    <3> QED BY <1>5, <3>1, <3>2, <3>3
  <2>3. \A d \in Devs : member'[p][d] = None => member[p][d] = None
    BY <1>1, <1>5, <2>1 DEF AttachOK
  <2>4. \A d \in Devs : member'[p][d] = None =>
          /\ ~MountedAt(Member(p, d))'
          /\ Member(p, d) \notin Elements(cleanups'[p])
          /\ Member(p, d) \notin registered'
    BY <1>2, <2>1, <2>3 DEF AttachOK
  <2> QED BY <2>2, <2>4 DEF AttachOK, Member, MkdirTemp, Elements
<1>8. SameCleanup(p)
  BY DEF SameCleanup
<1>9. LockOK(p)'
  BY <1>1, <1>8, LockKept
<1>10. CleanupsOK(p)'
  BY <1>2, <1>8, CleanupsKept
<1>11. RegisteredOK(p)'
  <2>1. \A at : Pending(p, at) => handler'[p] # "exit" /\ ~At(p, "exit")' /\ ~Exited(p)'
    BY <1>1 DEF Pending, Exited
  <2> QED BY <1>2, <1>8, <2>1, RegisteredKept
<1>12. \A q \in Procs \ {p} : SameRun(q) /\ SameMounts(q)
  BY <1>2, <1>5 DEF SameRun, SameMounts, SameCleanup
<1>13. RunOK(p)'
  BY <1>4, <1>7, <1>9, <1>10, <1>11 DEF RunOK
<1> QED BY <1>6, <1>12, <1>13, OthersKept

(* The ESP is mounted, and its cleanup appended. *)
LEMMA AttachOwn ==
    ASSUME MountInv, NEW p \in Procs, At(p, "attach") \/ At(p, "add"), NEW dev \in todo[p], NEW rw \in BOOLEAN,
           todo' = [todo EXCEPT ![p] = @ \ {dev}], seen' = [seen EXCEPT ![p] = None],
           UNCHANGED <<job, phase, probe, open, active, mu, pos, handler, busy>>,
           mounts' = Append(mounts, [dev |-> dev, at |-> Member(p, dev), rw |-> rw]),
           member' = [member EXCEPT ![p][dev] = Member(p, dev)],
           cleanups' = [cleanups EXCEPT ![p] = Append(@, Member(p, dev))],
           registered' = IF active[p] /\ InTime(p) THEN registered \union {Member(p, dev)} ELSE registered
    PROVE  MountInv'
<1> DEFINE new == Member(p, dev)
           line == [dev |-> dev, at |-> new, rw |-> rw]
           n == Len(cleanups[p]) + 1
<1>1. /\ dev \in Devs /\ dev \in Unattached(p) /\ dev \notin Unattached(p)'
      /\ Narrower(p) /\ todo' \in [Procs -> SUBSET Devs] /\ (Deferred(p)' <=> Deferred(p))
      /\ \A w : At(p, w)' <=> At(p, w)
  BY AttachedOnce
<1>2. /\ new \in Private /\ new.by = p /\ new.dev = dev /\ new.use = "member" /\ new # None
      /\ \A d : new = Member(p, d) => d = dev
  <2>1. dev \in Devs
    BY <1>1
  <2>2. /\ new \in Private /\ new.by = p /\ new.dev = dev /\ new.use = "member" /\ new # None
    BY <2>1, Mountpoints
  <2>3. \A d : new = Member(p, d) => d = dev
    BY <2>1, Mountpoints
  <2> QED BY <2>2, <2>3
<1>3. member[p][dev] = None /\ ~MountedAt(new) /\ new \notin Elements(cleanups[p]) /\ new \notin registered
  BY <1>1 DEF MountInv, AttachOK
<1>4. line \in Lines /\ line.at = new
  BY <1>1, <1>2 DEF Lines
<1>5. mounts' = Append(mounts, line)
  OBVIOUS
<1>6. cleanups' = [cleanups EXCEPT ![p] = Append(@, new)] /\ member' = [member EXCEPT ![p][dev] = new]
  OBVIOUS
<1>7. registered' = IF active[p] /\ InTime(p) THEN registered \union {new} ELSE registered
  OBVIOUS
<1>8. new = Member(p, new.dev)
  BY <1>2
<1> HIDE DEF new, line
<1>9. /\ mounts' \in Seq(Lines)
      /\ \A i, k \in DOMAIN mounts' : mounts'[i].at = mounts'[k].at /\ mounts'[i].at \in Private => i = k
      /\ \A at : MountedAt(at)' <=> MountedAt(at) \/ at = new
  BY <1>2, <1>3, <1>4, <1>5, MountsOne DEF MountInv
<1>10. /\ DOMAIN seen' = Procs /\ DOMAIN member' = Procs /\ \A q \in Procs : DOMAIN member'[q] = Devs
       /\ \A d \in Devs : d # dev => member'[p][d] = member[p][d]
       /\ member'[p][dev] = new
       /\ \A q \in Procs \ {p} : member'[q] = member[q] /\ seen'[q] = seen[q] /\ todo'[q] = todo[q]
  <2>1. /\ DOMAIN seen = Procs /\ DOMAIN member = Procs /\ \A q \in Procs : DOMAIN member[q] = Devs
        /\ todo \in [Procs -> SUBSET Devs]
    BY DEF MountInv, MountType
  <2>2. /\ DOMAIN member' = Procs /\ \A q \in Procs : DOMAIN member'[q] = Devs
        /\ \A d \in Devs : d # dev => member'[p][d] = member[p][d]
        /\ member'[p][dev] = new
        /\ \A q \in Procs \ {p} : member'[q] = member[q]
    BY <1>1, <1>6, <2>1
  <2>3. DOMAIN seen' = Procs /\ \A q \in Procs \ {p} : seen'[q] = seen[q] /\ todo'[q] = todo[q]
    BY <2>1
  <2> QED BY <2>2, <2>3
<1>11. /\ cleanups' \in [Procs -> Seq(Private)] /\ n \in Nat
       /\ \A q \in Procs \ {p} : cleanups'[q] = cleanups[q]
       /\ Len(cleanups[p]) \in Nat /\ Len(cleanups'[p]) = n
       /\ DOMAIN cleanups[p] = 1 .. Len(cleanups[p]) /\ DOMAIN cleanups'[p] = 1 .. n /\ cleanups'[p][n] = new
       /\ \A i \in DOMAIN cleanups[p] : cleanups'[p][i] = cleanups[p][i]
  <2>1. cleanups \in [Procs -> Seq(Private)]
    BY DEF MountInv, MountType
  <2>2. cleanups[p] \in Seq(Private) /\ Len(cleanups[p]) \in Nat /\ DOMAIN cleanups[p] = 1 .. Len(cleanups[p])
    BY ListType
  <2>3. cleanups'[p] = Append(cleanups[p], new) /\ \A q \in Procs \ {p} : cleanups'[q] = cleanups[q]
    BY <1>6, <2>1
  <2>4. /\ Append(cleanups[p], new) \in Seq(Private) /\ Len(Append(cleanups[p], new)) = n
        /\ DOMAIN Append(cleanups[p], new) = 1 .. n /\ Append(cleanups[p], new)[n] = new
        /\ \A i \in 1 .. Len(cleanups[p]) : Append(cleanups[p], new)[i] = cleanups[p][i]
    BY <1>2, <2>2
  <2>5. cleanups' \in [Procs -> Seq(Private)]
    BY <1>6, <2>1, <2>4
  <2> QED BY <2>2, <2>3, <2>4, <2>5
<1> HIDE DEF n
<1>12. \A i \in DOMAIN cleanups'[p] : i \in DOMAIN cleanups[p] \/ i = n
  BY <1>11 DEF n
<1>13. MountType'
  <2>1. registered' \subseteq Private
    BY <1>2, <1>7 DEF MountInv, MountType
  <2> QED BY <1>1, <1>9, <1>10, <1>11, <2>1 DEF MountInv, MountType
<1>14. ~At(p, "exit") /\ ~Exited(p) /\ ~At(p, "scan")
  BY DEF At, Exited
<1>15. ScanOK(p)'
  <2>1. probe[p] = None
    BY <1>14, Unprobed
  <2>2. \A d \in Unscanned(p)' : ~MountedAt(Scan(p, d))'
    <3> SUFFICES ASSUME NEW d \in Unscanned(p)' PROVE ~MountedAt(Scan(p, d))'
      OBVIOUS
    <3>1. d \in Unscanned(p) /\ d \in Devs
      BY <1>1 DEF Narrower, Unscanned
    <3>2. Scan(p, d).use = "scan" /\ Scan(p, d) # None
      BY <3>1, Mountpoints
    <3>3. ~MountedAt(Scan(p, d))
      BY <2>1, <3>1, <3>2 DEF MountInv, ScanOK
    <3>4. Scan(p, d) # new
      BY <1>2, <3>2
    <3> QED BY <1>9, <3>3, <3>4
  <2> QED BY <2>1, <2>2 DEF ScanOK, Scan, MkdirTemp
<1>16. AttachOK(p)'
  <2>1. AttachOK(p)
    BY DEF MountInv
  <2>2. InPlace(p)' /\ \A d \in Unattached(p)' : member'[p][d] = None
    <3>1. InPlace(p)'
      BY <1>1 DEF Narrower
    <3>2. \A d \in Unattached(p)' : d \in Unattached(p) /\ d # dev
      BY <1>1 DEF Narrower
    <3>3. \A d \in Unattached(p) : d \in Devs /\ member[p][d] = None
      BY <2>1 DEF AttachOK, Unattached
    <3> QED BY <1>10, <3>1, <3>2, <3>3
  <2>3. ASSUME NEW d \in Devs, member'[p][d] = None
        PROVE  ~MountedAt(Member(p, d))' /\ Member(p, d) \notin Elements(cleanups'[p]) /\ Member(p, d) \notin registered'
    <3>1. d # dev /\ member[p][d] = None
      BY <1>2, <1>10, <2>3
    <3>2. ~MountedAt(Member(p, d)) /\ Member(p, d) \notin Elements(cleanups[p]) /\ Member(p, d) \notin registered
      BY <2>1, <3>1 DEF AttachOK
    <3>3. Member(p, d) # new
      BY <1>2, <3>1
    <3>4. ~MountedAt(Member(p, d))' /\ Member(p, d) \notin registered'
      BY <1>7, <1>9, <3>2, <3>3
    <3>5. Member(p, d) \notin Elements(cleanups'[p])
      BY <1>11, <1>12, <3>2, <3>3 DEF Elements
    <3> QED BY <3>4, <3>5
  <2>4. \A d \in Devs : member'[p][d] = None =>
          /\ ~MountedAt(Member(p, d))'
          /\ Member(p, d) \notin Elements(cleanups'[p])
          /\ Member(p, d) \notin registered'
    BY <2>3
  <2> QED BY <2>2, <2>4 DEF AttachOK, Member, MkdirTemp, Elements
<1>17. LockOK(p)'
  <2>1. LockOK(p) /\ \A g \in Goroutines : pos[p][g] \in Nat
    BY ListType DEF MountInv
  <2>2. Len(cleanups[p]) \in Nat /\ Len(cleanups'[p]) = Len(cleanups[p]) + 1
    BY <1>11 DEF n
  <2>3. \A g \in Goroutines : pos[p][g] <= Len(cleanups'[p]) + 1
    BY <2>1, <2>2 DEF LockOK
  <2> QED BY <1>1, <2>1, <2>3 DEF LockOK
<1>18. \A i : Standing(p, i)' <=> Standing(p, i)
  BY DEF Standing
<1>19. CleanupsOK(p)'
  <2>1. CleanupsOK(p)
    BY DEF MountInv
  <2>2. \A i \in DOMAIN cleanups'[p] : cleanups'[p][i] = Member(p, cleanups'[p][i].dev)
    BY <1>8, <1>11, <1>12, <2>1 DEF CleanupsOK
  <2>3. \A i \in DOMAIN cleanups[p] : cleanups[p][i] # new
    BY <1>3 DEF Elements
  <2>4. \A i, k \in DOMAIN cleanups'[p] : cleanups'[p][i] = cleanups'[p][k] => i = k
    <3> SUFFICES ASSUME NEW i \in DOMAIN cleanups'[p], NEW k \in DOMAIN cleanups'[p], cleanups'[p][i] = cleanups'[p][k]
                 PROVE  i = k
      OBVIOUS
    <3>1. CASE i = n \/ k = n
      BY <1>11, <1>12, <2>3, <3>1
    <3>2. CASE i # n /\ k # n
      BY <1>11, <1>12, <2>1, <3>2 DEF CleanupsOK
    <3> QED BY <3>1, <3>2
  <2>5. \A i \in DOMAIN cleanups'[p] : ~active'[p] \/ Standing(p, i)' => MountedAt(cleanups[p][i])'
    <3> SUFFICES ASSUME NEW i \in DOMAIN cleanups'[p], ~active'[p] \/ Standing(p, i)'
                 PROVE  MountedAt(cleanups[p][i])'
      OBVIOUS
    <3> DEFINE at == cleanups'[p][i]
    <3>1. CASE i = n
      BY <1>9, <1>11, <3>1
    <3>2. CASE i \in DOMAIN cleanups[p]
      <4>1. MountedAt(cleanups[p][i])
        BY <1>18, <2>1, <3>2 DEF CleanupsOK
      <4> QED BY <1>9, <1>11, <3>2, <4>1
    <3> QED BY <1>12, <3>1, <3>2
  <2> QED BY <2>2, <2>4, <2>5 DEF CleanupsOK, Member, MkdirTemp
<1>20. RegisteredOK(p)'
  <2> SUFFICES ASSUME NEW at \in registered', at.by = p
               PROVE  at.use = "member" /\ (Undone(at)' \/ Pending(p, at)')
    BY DEF RegisteredOK
  <2>1. CASE at = new
    <3>1. active[p] /\ InTime(p)
      BY <1>3, <1>7, <2>1
    <3>2. mu[p] = None /\ handler[p] # "exit"
      BY <3>1 DEF InTime
    <3>3. Standing(p, n)
      BY <3>2, NamesAssumption DEF Standing, MountInv, LockOK, Goroutines
    <3>4. n \in DOMAIN cleanups'[p] /\ cleanups'[p][n] = at
      BY <1>11, <2>1 DEF n
    <3>5. ~At(p, "exit")' /\ ~Exited(p)'
      BY <1>1, <1>14 DEF Exited
    <3> QED BY <1>2, <1>18, <2>1, <3>1, <3>2, <3>3, <3>4, <3>5 DEF Pending
  <2>2. CASE at # new
    <3>1. at \in registered /\ at.use = "member" /\ (Undone(at) \/ Pending(p, at))
      BY <1>7, <2>2 DEF MountInv, RegisteredOK
    <3>2. CASE Undone(at)
      BY <1>9, <2>2, <3>1, <3>2 DEF Undone
    <3>3. CASE Pending(p, at)
      <4>1. ~At(p, "exit")' /\ ~Exited(p)'
        BY <1>1, <1>14 DEF Exited
      <4>2. PICK i \in DOMAIN cleanups[p] : cleanups[p][i] = at /\ Standing(p, i)
        BY <3>3 DEF Pending
      <4>3. i \in DOMAIN cleanups'[p] /\ cleanups'[p][i] = at
        <5>1. i \in 1 .. n
          BY <1>11, <4>2 DEF n
        <5> QED BY <1>11, <4>2, <5>1
      <4> QED BY <1>18, <3>1, <3>3, <4>1, <4>2, <4>3 DEF Pending
    <3> QED BY <3>1, <3>2, <3>3
  <2> QED BY <2>1, <2>2
<1>21. \A q \in Procs \ {p} : SameRun(q) /\ SameMounts(q)
  BY <1>2, <1>9, <1>10, <1>11 DEF SameRun, SameMounts, SameCleanup
<1>22. RunOK(p)'
  BY <1>15, <1>16, <1>17, <1>19, <1>20 DEF RunOK
<1>23. \A at \in registered' : at.by # p => at \in registered
  BY <1>2, <1>7
<1> QED BY <1>13, <1>21, <1>22, <1>23, OthersKept

(* host.attach takes the mount it found, fails, or makes its own and puts  *)
(* it into the list.                                                       *)
LEMMA AttachStep ==
    ASSUME MountInv, NEW p \in Procs, Attach(p)
    PROVE  MountInv'
<1> DEFINE readonly == job[p].readonly
           m(dev) == MountESP(p, dev, readonly, seen[p], "member")
<1>1. PICK dev \in Devs :
        /\ Foremost(p, dev) /\ todo' = [todo EXCEPT ![p] = @ \ {dev}]
        /\ IF m(dev).err
             THEN UNCHANGED <<mounts, member, cleanups, registered>>
             ELSE /\ mounts' = Mounted(dev, readonly, m(dev))
                  /\ member' = [member EXCEPT ![p][dev] = m(dev).at]
                  /\ cleanups' = IF m(dev).own THEN [cleanups EXCEPT ![p] = Append(@, m(dev).at)] ELSE cleanups
                  /\ registered' = IF m(dev).own /\ active[p] /\ InTime(p)
                                     THEN registered \union {m(dev).at} ELSE registered
  BY DEF Attach
<1>2. /\ At(p, "attach") \/ At(p, "add")
      /\ seen' = [seen EXCEPT ![p] = None]
      /\ UNCHANGED <<job, phase, probe, open, active, mu, pos, handler, busy>>
  BY DEF Attach
<1>3. dev \in todo[p]
  BY <1>1 DEF Foremost
<1>4. CASE m(dev).err
  BY <1>1, <1>2, <1>3, <1>4, AttachNothing
<1>5. CASE ~m(dev).err /\ ~m(dev).own
  <2>1. UNCHANGED <<mounts, cleanups, registered>> /\ member' = [member EXCEPT ![p][dev] = m(dev).at]
    BY <1>1, <1>5 DEF Mounted
  <2> QED BY <1>1, <1>2, <1>3, <2>1, AttachNothing
<1>6. CASE ~m(dev).err /\ m(dev).own
  <2>1. m(dev).at = Member(p, dev)
    BY <1>6 DEF MountESP, Member
  <2>2. readonly \in BOOLEAN
    BY JobsAssumption DEF MountInv, MountType
  <2> HIDE DEF readonly
  <2>3. /\ mounts' = Append(mounts, [dev |-> dev, at |-> Member(p, dev), rw |-> ~readonly])
        /\ member' = [member EXCEPT ![p][dev] = Member(p, dev)]
        /\ cleanups' = [cleanups EXCEPT ![p] = Append(@, Member(p, dev))]
        /\ registered' = IF active[p] /\ InTime(p) THEN registered \union {Member(p, dev)} ELSE registered
    BY <1>1, <1>6, <2>1 DEF Mounted
  <2>4. (~readonly) \in BOOLEAN
    BY <2>2
  <2> QED BY <1>1, <1>2, <1>3, <2>3, <2>4, AttachOwn
<1> QED BY <1>4, <1>5, <1>6

(* Where nobody holds the lock, nobody is in the cleanup. *)
LEMMA LockFree ==
    ASSUME MountInv, NEW p \in Procs, mu[p] = None
    PROVE  (\A g \in Goroutines : pos[p][g] = 0) /\ \A i : Standing(p, i)
BY NamesAssumption DEF MountInv, LockOK, Standing

(* withCleanup registers the list as it is; all of it is mounted.          *)
LEMMA WithCleanupStep ==
    ASSUME MountInv, NEW p \in Procs, WithCleanup(p)
    PROVE  MountInv'
<1>1. /\ At(p, "register") /\ mu[p] = None /\ active' = [active EXCEPT ![p] = TRUE]
      /\ registered' = IF InTime(p) THEN registered \union Elements(cleanups[p]) ELSE registered
      /\ phase' = [phase EXCEPT ![p] = Tail(@)]
      /\ todo' = [todo EXCEPT ![p] = Volumes(job[p], phase[p][2])]
      /\ UNCHANGED <<mounts, job, seen, probe, member, open, cleanups, mu, pos, handler, busy>>
  BY DEF WithCleanup, Register
<1>2. Head(phase[p]) = "register" /\ ~Exited(p) /\ ~At(p, "scan") /\ ~At(p, "exit")
  BY <1>1 DEF At, Exited
<1>3. /\ Narrower(p) /\ ~Exited(p)' /\ ~At(p, "exit")' /\ Deferred(p)'
      /\ phase' \in [Procs -> Rests] /\ todo' \in [Procs -> SUBSET Devs]
  BY <1>1, <1>2, GoesOn
<1>4. \A at : MountedAt(at)' <=> MountedAt(at)
  BY <1>1, NoMounting
<1>5. \A at \in Elements(cleanups[p]) : at \in Private /\ at.by = p /\ at.use = "member"
  BY OwnList DEF Elements
<1>6. /\ active'[p] = TRUE /\ DOMAIN active' = Procs
      /\ \A q \in Procs \ {p} : active'[q] = active[q] /\ phase'[q] = phase[q] /\ todo'[q] = todo[q]
  BY <1>1 DEF MountInv, MountType
<1>7. MountType'
  <2>1. registered' \subseteq Private
    BY <1>1, <1>5 DEF MountInv, MountType
  <2> QED BY <1>1, <1>3, <1>6, <2>1 DEF MountInv, MountType
<1>8. ScanOK(p)'
  BY <1>1, <1>2, <1>3, <1>4, Unprobed, ScanKept
<1>9. AttachOK(p)'
  BY <1>1, <1>3, <1>4, AttachKept
<1>10. \A g \in Goroutines : pos[p][g] = 0
  BY <1>1, LockFree
<1>11. LockOK(p)'
  <2>1. \A g \in Goroutines : pos'[p][g] = 0
    BY <1>1, <1>10
  <2>2. Len(cleanups'[p]) \in Nat
    BY <1>1, ListType
  <2>3. \A g \in Goroutines : pos'[p][g] <= Len(cleanups'[p]) + 1 /\ ~(pos'[p][g] > 1)
    BY <2>1, <2>2
  <2> QED BY <1>3, <2>1, <2>3 DEF LockOK
<1>12. \A i : Standing(p, i) /\ Standing(p, i)'
  BY <1>1, <1>10 DEF Standing
<1>13. CleanupsOK(p)'
  <2>1. CleanupsOK(p)
    BY DEF MountInv
  <2>2. \A i \in DOMAIN cleanups'[p] : MountedAt(cleanups[p][i])'
    BY <1>1, <1>4, <1>12, <2>1 DEF CleanupsOK
  <2> QED BY <1>1, <2>1, <2>2 DEF CleanupsOK, Member, MkdirTemp
<1>14. RegisteredOK(p)'
  <2> SUFFICES ASSUME NEW at \in registered', at.by = p
               PROVE  at.use = "member" /\ (Undone(at)' \/ Pending(p, at)')
    BY DEF RegisteredOK
  <2>1. CASE at \in registered
    <3>1. at.use = "member" /\ (Undone(at) \/ Pending(p, at))
      BY <2>1 DEF MountInv, RegisteredOK
    <3>2. CASE Undone(at)
      BY <1>1, <1>4, <3>1, <3>2 DEF Undone
    <3>3. CASE Pending(p, at)
      BY <1>1, <1>3, <1>6, <1>12, <3>1, <3>3 DEF Pending
    <3> QED BY <3>1, <3>2, <3>3
  <2>2. CASE at \notin registered
    <3>1. InTime(p) /\ at \in Elements(cleanups[p])
      BY <1>1, <2>2
    <3>2. PICK i \in DOMAIN cleanups[p] : cleanups[p][i] = at
      BY <3>1 DEF Elements
    <3>3. Pending(p, at)'
      BY <1>1, <1>3, <1>6, <1>12, <3>1, <3>2 DEF Pending, InTime
    <3> QED BY <1>5, <3>1, <3>3
  <2> QED BY <2>1, <2>2
<1>15. RunOK(p)'
  BY <1>8, <1>9, <1>11, <1>13, <1>14 DEF RunOK
<1>16. \A q \in Procs \ {p} : SameRun(q) /\ SameMounts(q)
  BY <1>1, <1>4, <1>6 DEF SameRun, SameMounts, SameCleanup
<1>17. \A at \in registered' : at.by # p => at \in registered
  BY <1>1, <1>5
<1> QED BY <1>1, <1>7, <1>15, <1>16, <1>17, OthersKept

(* runActiveCleanup takes the lock and starts at the end of the list.      *)
LEMMA RunActiveCleanupStep ==
    ASSUME MountInv, NEW p \in Procs, NEW g \in Goroutines, RunActiveCleanup(p, g)
    PROVE  MountInv'
<1> DEFINE n == IF active[p] THEN Len(cleanups[p]) + 1 ELSE 1
<1>1. /\ mu[p] = None /\ mu' = [mu EXCEPT ![p] = g] /\ pos' = [pos EXCEPT ![p][g] = n]
      /\ UNCHANGED <<mounts, job, phase, todo, seen, probe, member, open, cleanups, active, handler, registered, busy>>
  BY DEF RunActiveCleanup, TakeLock, commandVars
<1>2. Narrower(p) /\ (Deferred(p)' <=> Deferred(p)) /\ \A w : At(p, w)' <=> At(p, w)
  BY <1>1, SteadyOn
<1>3. \A at : MountedAt(at)' <=> MountedAt(at)
  BY <1>1, NoMounting
<1>4. /\ n \in Nat /\ n <= Len(cleanups[p]) + 1 /\ (n > 1 => active[p]) /\ Len(cleanups[p]) \in Nat
      /\ DOMAIN cleanups[p] = 1 .. Len(cleanups[p])
      /\ active[p] => n = Len(cleanups[p]) + 1
  <2>1. Len(cleanups[p]) \in Nat /\ DOMAIN cleanups[p] = 1 .. Len(cleanups[p])
    BY ListType
  <2>2. CASE active[p]
    <3>1. n = Len(cleanups[p]) + 1
      BY <2>2
    <3> HIDE DEF n
    <3> QED BY <2>1, <2>2, <3>1
  <2>3. CASE ~active[p]
    <3>1. n = 1
      BY <2>3
    <3> HIDE DEF n
    <3> QED BY <2>1, <2>3, <3>1
  <2> HIDE DEF n
  <2> QED BY <2>2, <2>3
<1> HIDE DEF n
<1>5. /\ mu'[p] = g /\ DOMAIN mu' = Procs /\ pos' \in [Procs -> [Goroutines -> Nat]]
      /\ pos'[p][g] = n /\ \A h \in Goroutines \ {g} : pos'[p][h] = pos[p][h]
      /\ \A q \in Procs \ {p} : mu'[q] = mu[q] /\ pos'[q] = pos[q]
  BY <1>1, <1>4 DEF MountInv, MountType
<1>6. \A h \in Goroutines \ {g} : pos'[p][h] = 0
  BY <1>1, <1>5, LockFree
<1>7. MountType'
  BY <1>1, <1>5 DEF MountInv, MountType
<1>8. ScanOK(p)'
  BY <1>1, <1>2, <1>3, ScanKept
<1>9. AttachOK(p)'
  BY <1>1, <1>2, <1>3, AttachKept
<1>10. LockOK(p)'
  <2>1. \A h \in Goroutines : mu'[p] # h => pos'[p][h] = 0
    BY <1>5, <1>6
  <2>2. \A h \in Goroutines : pos'[p][h] <= Len(cleanups'[p]) + 1
    <3>1. n <= Len(cleanups'[p]) + 1 /\ 0 <= Len(cleanups'[p]) + 1
      BY <1>1, <1>4
    <3> QED BY <1>5, <1>6, <3>1
  <2>3. \A h \in Goroutines : pos'[p][h] > 1 => active'[p]
    BY <1>1, <1>4, <1>5, <1>6
  <2>4. active'[p] => Deferred(p)'
    BY <1>1, <1>2 DEF MountInv, LockOK
  <2> QED BY <2>1, <2>2, <2>3, <2>4 DEF LockOK
<1>11. \A i : Standing(p, i)
  BY <1>1, LockFree
<1>12. CleanupsOK(p)'
  <2>1. CleanupsOK(p)
    BY DEF MountInv
  <2>2. \A i \in DOMAIN cleanups'[p] : MountedAt(cleanups[p][i])'
    BY <1>1, <1>3, <1>11, <2>1 DEF CleanupsOK
  <2> QED BY <1>1, <2>1, <2>2 DEF CleanupsOK, Member, MkdirTemp
<1>13. active[p] => \A i \in DOMAIN cleanups[p] : Standing(p, i)'
  <2>1. active[p] => \A i \in DOMAIN cleanups[p] : i < n
    BY <1>4
  <2> QED BY <1>5, <1>6, <2>1 DEF Standing
<1>14. RegisteredOK(p)'
  <2> SUFFICES ASSUME NEW at \in registered', at.by = p
               PROVE  at.use = "member" /\ (Undone(at)' \/ Pending(p, at)')
    BY DEF RegisteredOK
  <2>1. at.use = "member" /\ (Undone(at) \/ Pending(p, at))
    BY <1>1 DEF MountInv, RegisteredOK
  <2>2. CASE Undone(at)
    BY <1>1, <1>3, <2>1, <2>2 DEF Undone
  <2>3. CASE Pending(p, at)
    BY <1>1, <1>2, <1>13, <2>1, <2>3 DEF Pending, Exited
  <2> QED BY <2>1, <2>2, <2>3
<1>15. RunOK(p)'
  BY <1>8, <1>9, <1>10, <1>12, <1>14 DEF RunOK
<1>16. \A q \in Procs \ {p} : SameRun(q) /\ SameMounts(q)
  BY <1>1, <1>3, <1>5 DEF SameRun, SameMounts, SameCleanup
<1> QED BY <1>1, <1>7, <1>15, <1>16, OthersKept

(* host.cleanup unmounts the entry before its position; the entries below  *)
(* stay mounted.                                                           *)
LEMMA CleanupOne ==
    ASSUME MountInv, NEW p \in Procs, NEW g \in Goroutines, Cleanup(p, g)
    PROVE  MountInv'
<1> DEFINE n == pos[p][g] - 1
<1>0. PICK at : at = cleanups[p][n]
  OBVIOUS
<1>1. /\ pos[p][g] > 1 /\ pos' = [pos EXCEPT ![p][g] = n] /\ busy \subseteq busy'
      /\ mounts' = Unmounted(at) \/ (mounts' = mounts /\ at \in busy')
      /\ UNCHANGED <<job, phase, todo, seen, probe, member, open, cleanups, active, mu, handler, registered>>
  BY <1>0 DEF Cleanup, commandVars
<1>2. /\ mu[p] = g /\ active[p] /\ \A h \in Goroutines \ {g} : pos[p][h] = 0
  <2>1. LockOK(p)
    BY DEF MountInv
  <2>2. mu[p] = g /\ active[p]
    BY <1>1, <2>1 DEF LockOK
  <2> QED BY <2>1, <2>2 DEF LockOK
<1>3. /\ n \in Nat /\ n \in DOMAIN cleanups[p] /\ pos[p][g] = n + 1 /\ n <= Len(cleanups[p]) /\ Len(cleanups[p]) \in Nat
      /\ DOMAIN cleanups[p] = 1 .. Len(cleanups[p])
  <2>1. pos[p][g] \in Nat /\ Len(cleanups[p]) \in Nat /\ DOMAIN cleanups[p] = 1 .. Len(cleanups[p])
    BY ListType
  <2>2. pos[p][g] <= Len(cleanups[p]) + 1
    BY DEF MountInv, LockOK
  <2> QED BY <1>1, <2>1, <2>2
<1> HIDE DEF n
<1>4. at \in Private /\ at.by = p /\ at.use = "member"
  BY <1>0, <1>3, OwnList
<1>5. /\ mounts' \in Seq(Lines)
      /\ \A i, k \in DOMAIN mounts' : mounts'[i].at = mounts'[k].at /\ mounts'[i].at \in Private => i = k
      /\ \A x : x # at => (MountedAt(x)' <=> MountedAt(x))
      /\ MountedAt(at)' => MountedAt(at) /\ at \in busy'
  <2>1. CASE mounts' = mounts /\ at \in busy'
    BY <2>1, NoMounting DEF MountInv, MountType
  <2>2. CASE mounts' = Unmounted(at)
    BY <1>4, <2>2, UnmountsOne DEF MountInv
  <2> QED BY <1>1, <2>1, <2>2
<1>6. Narrower(p) /\ (Deferred(p)' <=> Deferred(p)) /\ \A w : At(p, w)' <=> At(p, w)
  BY <1>1, SteadyOn
<1>7. /\ pos' \in [Procs -> [Goroutines -> Nat]] /\ pos'[p][g] = n
      /\ \A h \in Goroutines \ {g} : pos'[p][h] = 0
      /\ \A q \in Procs \ {p} : pos'[q] = pos[q]
  BY <1>1, <1>2, <1>3 DEF MountInv, MountType
<1>8. MountType'
  BY <1>1, <1>5, <1>7 DEF MountInv, MountType
<1>9. ScanOK(p)'
  BY <1>1, <1>4, <1>5, <1>6, ScanKept
<1>10. AttachOK(p)'
  BY <1>1, <1>4, <1>5, <1>6, AttachKept
<1>11. LockOK(p)'
  <2>1. \A h \in Goroutines : mu'[p] # h => pos'[p][h] = 0
    BY <1>1, <1>2, <1>7
  <2>2. \A h \in Goroutines : pos'[p][h] <= Len(cleanups'[p]) + 1
    BY <1>1, <1>3, <1>7
  <2>3. active'[p] /\ Deferred(p)'
    BY <1>1, <1>2, <1>6 DEF MountInv, LockOK
  <2> QED BY <2>1, <2>2, <2>3 DEF LockOK
<1>12. \A i \in DOMAIN cleanups[p] : Standing(p, i)' => Standing(p, i) /\ i # n
  <2> SUFFICES ASSUME NEW i \in DOMAIN cleanups[p], Standing(p, i)' PROVE Standing(p, i) /\ i # n
    OBVIOUS
  <2>1. n = 0 \/ i < n
    BY <1>7 DEF Standing
  <2>2. i < n
    BY <1>3, <2>1
  <2>3. i < pos[p][g] /\ i # n
    BY <1>3, <2>2
  <2> QED BY <1>2, <2>3 DEF Standing
<1>13. \A i \in DOMAIN cleanups[p] : Standing(p, i) /\ i # n => Standing(p, i)'
  <2> SUFFICES ASSUME NEW i \in DOMAIN cleanups[p], Standing(p, i), i # n PROVE Standing(p, i)'
    OBVIOUS
  <2>1. i < n
    BY <1>3 DEF Standing
  <2> QED BY <1>7, <2>1 DEF Standing
<1>14. CleanupsOK(p)'
  <2>1. CleanupsOK(p)
    BY DEF MountInv
  <2>2. \A i \in DOMAIN cleanups'[p] : ~active'[p] \/ Standing(p, i)' => MountedAt(cleanups[p][i])'
    <3> SUFFICES ASSUME NEW i \in DOMAIN cleanups[p], Standing(p, i)'
                 PROVE  MountedAt(cleanups[p][i])'
      BY <1>1, <1>2
    <3>1. Standing(p, i) /\ i # n
      BY <1>12
    <3>2. MountedAt(cleanups[p][i]) /\ cleanups[p][i] # at
      BY <1>0, <1>3, <2>1, <3>1 DEF CleanupsOK
    <3> QED BY <1>1, <1>5, <3>2
  <2> QED BY <1>1, <2>1, <2>2 DEF CleanupsOK, Member, MkdirTemp
<1>15. RegisteredOK(p)'
  <2> SUFFICES ASSUME NEW x \in registered', x.by = p
               PROVE  x.use = "member" /\ (Undone(x)' \/ Pending(p, x)')
    BY DEF RegisteredOK
  <2>1. x.use = "member" /\ (Undone(x) \/ Pending(p, x))
    BY <1>1 DEF MountInv, RegisteredOK
  <2>2. CASE x = at
    BY <1>5, <2>1, <2>2 DEF Undone
  <2>3. CASE x # at /\ Undone(x)
    BY <1>1, <1>5, <2>1, <2>3 DEF Undone
  <2>4. CASE x # at /\ Pending(p, x)
    <3>1. PICK i \in DOMAIN cleanups[p] : cleanups[p][i] = x /\ Standing(p, i)
      BY <2>4 DEF Pending
    <3>2. i # n
      BY <1>0, <2>4, <3>1
    <3>3. Standing(p, i)'
      BY <1>13, <3>1, <3>2
    <3>4. Pending(p, x)'
      BY <1>1, <1>6, <2>4, <3>1, <3>3 DEF Pending, Exited
    <3> QED BY <2>1, <3>4
  <2> QED BY <2>1, <2>2, <2>3, <2>4
<1>16. RunOK(p)'
  BY <1>9, <1>10, <1>11, <1>14, <1>15 DEF RunOK
<1>17. \A q \in Procs \ {p} : SameRun(q) /\ SameMounts(q)
  BY <1>1, <1>4, <1>5, <1>7 DEF SameRun, SameMounts, SameCleanup
<1> QED BY <1>1, <1>8, <1>16, <1>17, OthersKept

(* The cleanup that is done has undone everything registered, and clears   *)
(* activeCleanup.                                                          *)
LEMMA CleanupDoneStep ==
    ASSUME MountInv, NEW p \in Procs, NEW g \in Goroutines, CleanupDone(p, g)
    PROVE  MountInv'
<1>1. /\ pos[p][g] = 1 /\ Waits(p, g) /\ Leaves(p, g)
      /\ cleanups' = IF active[p] THEN [cleanups EXCEPT ![p] = <<>>] ELSE cleanups
      /\ active' = [active EXCEPT ![p] = FALSE] /\ mu' = [mu EXCEPT ![p] = None]
      /\ pos' = [pos EXCEPT ![p][g] = 0]
      /\ UNCHANGED <<mounts, job, todo, seen, probe, member, open, registered, busy>>
  BY DEF CleanupDone
<1>2. mu[p] = g /\ \A h \in Goroutines \ {g} : pos[p][h] = 0
  BY <1>1 DEF MountInv, LockOK
<1>3. \A at : MountedAt(at)' <=> MountedAt(at)
  BY <1>1, NoMounting
<1>4. /\ cleanups' \in [Procs -> Seq(Private)] /\ DOMAIN active' = Procs /\ DOMAIN mu' = Procs
      /\ pos' \in [Procs -> [Goroutines -> Nat]] /\ active'[p] = FALSE /\ mu'[p] = None /\ pos'[p][g] = 0
      /\ cleanups'[p] = IF active[p] THEN <<>> ELSE cleanups[p]
      /\ \A h \in Goroutines \ {g} : pos'[p][h] = pos[p][h]
      /\ \A q \in Procs \ {p} : /\ cleanups'[q] = cleanups[q] /\ active'[q] = active[q]
                                /\ mu'[q] = mu[q] /\ pos'[q] = pos[q]
  <2>1. /\ cleanups \in [Procs -> Seq(Private)] /\ pos \in [Procs -> [Goroutines -> Nat]]
        /\ DOMAIN active = Procs /\ DOMAIN mu = Procs
    BY DEF MountInv, MountType
  <2>2. /\ cleanups' \in [Procs -> Seq(Private)] /\ cleanups'[p] = IF active[p] THEN <<>> ELSE cleanups[p]
        /\ \A q \in Procs \ {p} : cleanups'[q] = cleanups[q]
    BY <1>1, <2>1
  <2>3. /\ pos' \in [Procs -> [Goroutines -> Nat]] /\ pos'[p][g] = 0
        /\ \A h \in Goroutines \ {g} : pos'[p][h] = pos[p][h]
        /\ \A q \in Procs \ {p} : pos'[q] = pos[q]
    BY <1>1, <2>1
  <2>4. /\ DOMAIN active' = Procs /\ DOMAIN mu' = Procs /\ active'[p] = FALSE /\ mu'[p] = None
        /\ \A q \in Procs \ {p} : active'[q] = active[q] /\ mu'[q] = mu[q]
    BY <1>1, <2>1
  <2> QED BY <2>2, <2>3, <2>4
<1>5. \A h \in Goroutines : pos'[p][h] = 0
  BY <1>2, <1>4
<1>6. /\ Narrower(p) /\ (Deferred(p) => Deferred(p)') /\ phase' \in [Procs -> Rests] /\ DOMAIN handler' = Procs
      /\ \A q \in Procs \ {p} : phase'[q] = phase[q] /\ handler'[q] = handler[q]
      /\ ScanOK(p)'
  <2>1. CASE g = "main"
    <3>1. /\ At(p, "return") /\ handler' = handler /\ phase' = [phase EXCEPT ![p] = Tail(@)]
      BY <1>1, <2>1 DEF Waits, Leaves
    <3>2. Tail(phase[p]) = <<"exit">>
      BY <3>1, RestFacts DEF MountInv, MountType, At
    <3>3. phase' = [phase EXCEPT ![p] = <<"exit">>]
      BY <3>1, <3>2
    <3>4. Narrower(p) /\ Deferred(p)' /\ phase' \in [Procs -> Rests]
      BY <1>1, <3>3, GoesOut
    <3>5. ~Exited(p) /\ ~At(p, "scan")
      BY <3>1 DEF At, Exited
    <3>6. ScanOK(p)'
      BY <1>1, <1>3, <3>4, <3>5, Unprobed, ScanKept
    <3> QED BY <3>1, <3>3, <3>4, <3>6 DEF MountInv, MountType
  <2>2. CASE g # "main"
    <3>1. phase' = phase /\ handler' = [handler EXCEPT ![p] = "exit"]
      BY <1>1, <2>2 DEF Leaves
    <3>2. Narrower(p) /\ (Deferred(p)' <=> Deferred(p))
      BY <1>1, <3>1, SteadyOn
    <3>3. ScanOK(p)'
      BY <1>1, <1>3, <3>1, <3>2, ScanKept
    <3> QED BY <3>1, <3>2, <3>3 DEF MountInv, MountType
  <2> QED BY <2>1, <2>2
<1>7. MountType'
  BY <1>1, <1>4, <1>6 DEF MountInv, MountType
<1>8. Elements(cleanups'[p]) \subseteq Elements(cleanups[p])
  <2>1. cleanups'[p] = <<>> \/ cleanups'[p] = cleanups[p]
    BY <1>4
  <2> QED BY <2>1 DEF Elements
<1>9. AttachOK(p)'
  BY <1>1, <1>3, <1>6, <1>8, AttachKept
<1>10. LockOK(p)'
  <2>1. Len(cleanups'[p]) \in Nat
    BY <1>7 DEF MountType
  <2>2. active'[p] = FALSE
    BY <1>4
  <2>3. \A h \in Goroutines : pos'[p][h] <= Len(cleanups'[p]) + 1 /\ ~(pos'[p][h] > 1)
    BY <1>5, <2>1
  <2> QED BY <1>5, <2>2, <2>3 DEF LockOK
<1>11. CleanupsOK(p)'
  <2>1. CASE active[p]
    <3>1. DOMAIN cleanups'[p] = {}
      BY <1>4, <2>1
    <3> QED BY <3>1 DEF CleanupsOK
  <2>2. CASE ~active[p]
    <3>1. CleanupsOK(p) /\ cleanups'[p] = cleanups[p]
      BY <1>4, <2>2 DEF MountInv
    <3>2. \A i \in DOMAIN cleanups'[p] : MountedAt(cleanups[p][i])'
      BY <1>3, <2>2, <3>1 DEF CleanupsOK
    <3> QED BY <3>1, <3>2 DEF CleanupsOK, Member, MkdirTemp
  <2> QED BY <2>1, <2>2
<1>12. RegisteredOK(p)'
  <2>1. \A at : ~Pending(p, at)
    <3> SUFFICES ASSUME NEW i \in DOMAIN cleanups[p], Standing(p, i) PROVE FALSE
      BY DEF Pending
    <3>1. i \in Nat \ {0}
      BY ListType
    <3>2. i < 1
      BY <1>1 DEF Standing
    <3> QED BY <3>1, <3>2
  <2>2. \A at \in registered : at.by = p => at.use = "member" /\ Undone(at)
    BY <2>1 DEF MountInv, RegisteredOK
  <2>3. \A at : Undone(at)' <=> Undone(at)
    BY <1>1, <1>3 DEF Undone
  <2> QED BY <1>1, <2>2, <2>3 DEF RegisteredOK
<1>13. RunOK(p)'
  BY <1>6, <1>9, <1>10, <1>11, <1>12 DEF RunOK
<1>14. \A q \in Procs \ {p} : SameRun(q) /\ SameMounts(q)
  BY <1>1, <1>3, <1>4, <1>6 DEF SameRun, SameMounts, SameCleanup
<1> QED BY <1>1, <1>7, <1>13, <1>14, OthersKept

(* A signal, and the end. *)
LEMMA SignalStep ==
    ASSUME MountInv, NEW p \in Procs, Signal(p)
    PROVE  MountInv'
<1>1. /\ handler' = [handler EXCEPT ![p] = "woken"]
      /\ UNCHANGED <<mounts, job, phase, todo, seen, probe, member, open, cleanups, active, mu, pos, registered, busy>>
  BY DEF Signal, commandVars
<1>2. /\ handler'[p] = "woken" /\ DOMAIN handler' = Procs
      /\ \A q \in Procs \ {p} : handler'[q] = handler[q]
  BY <1>1 DEF MountInv, MountType
<1>3. Narrower(p) /\ (Deferred(p)' <=> Deferred(p)) /\ \A w : At(p, w)' <=> At(p, w)
  BY <1>1, SteadyOn
<1>4. (\A at : MountedAt(at)' <=> MountedAt(at)) /\ SameCleanup(p)
  BY <1>1, NoMounting DEF SameCleanup
<1>5. MountType'
  BY <1>1, <1>2 DEF MountInv, MountType
<1>6. ScanOK(p)' /\ AttachOK(p)' /\ LockOK(p)' /\ CleanupsOK(p)'
  BY <1>1, <1>3, <1>4, ScanKept, AttachKept, LockKept, CleanupsKept
<1>7. RegisteredOK(p)'
  <2>1. \A at : Pending(p, at) => handler'[p] # "exit" /\ ~At(p, "exit")' /\ ~Exited(p)'
    BY <1>2, <1>3 DEF Pending, Exited
  <2> QED BY <1>1, <1>4, <2>1, RegisteredKept
<1>8. RunOK(p)'
  BY <1>6, <1>7 DEF RunOK
<1>9. \A q \in Procs \ {p} : SameRun(q) /\ SameMounts(q)
  BY <1>1, <1>2, <1>4 DEF SameRun, SameMounts, SameCleanup
<1> QED BY <1>1, <1>5, <1>8, <1>9, OthersKept

(* A run exits when its cleanup is done; nothing registered is pending any *)
(* more.                                                                   *)
LEMMA ExitStep ==
    ASSUME MountInv, NEW p \in Procs, NEW g \in Goroutines, Exit(p, g)
    PROVE  MountInv'
<1>1. /\ phase' = [phase EXCEPT ![p] = <<"exited">>] /\ open' = [open EXCEPT ![p] = None]
      /\ UNCHANGED <<mounts, job, todo, seen, probe, member, cleanups, active, mu, pos, handler, registered, busy>>
      /\ At(p, "exit") \/ handler[p] = "exit"
  BY DEF Exit, cleanupVars
<1>2. Narrower(p) /\ Deferred(p)' /\ phase' \in [Procs -> Rests] /\ Exited(p)'
  BY <1>1, GoesOut, EndFacts DEF Exited
<1>3. DOMAIN open' = Procs /\ \A q \in Procs \ {p} : phase'[q] = phase[q]
  BY <1>1 DEF MountInv, MountType
<1>4. (\A at : MountedAt(at)' <=> MountedAt(at)) /\ SameCleanup(p)
  BY <1>1, NoMounting DEF SameCleanup
<1>5. MountType'
  BY <1>1, <1>2, <1>3 DEF MountInv, MountType
<1>6. ScanOK(p)' /\ AttachOK(p)' /\ LockOK(p)' /\ CleanupsOK(p)'
  BY <1>1, <1>2, <1>4, ScanKept, AttachKept, LockKept, CleanupsKept
<1>7. RegisteredOK(p)'
  <2>1. \A at : ~Pending(p, at)
    BY <1>1 DEF Pending
  <2> QED BY <1>1, <1>4, <2>1, RegisteredKept
<1>8. RunOK(p)'
  BY <1>6, <1>7 DEF RunOK
<1>9. \A q \in Procs \ {p} : SameRun(q) /\ SameMounts(q)
  BY <1>1, <1>3, <1>4 DEF SameRun, SameMounts, SameCleanup
<1> QED BY <1>1, <1>5, <1>8, <1>9, OthersKept

(* Before any command has started, nothing is mounted privately and        *)
(* nothing registered.                                                     *)
LEMMA MountInvInit ==
    ASSUME MountInit
    PROVE  MountInv
<1>1. /\ mounts \in Seq([dev : Devs, at : Shared, rw : BOOLEAN])
      /\ job \in [Procs -> [readonly : BOOLEAN, added : Devs \union {0}, phases : Orders]]
  BY FoundAssumption, JobsAssumption DEF MountInit
<1>2. \A i \in DOMAIN mounts : mounts[i] \in Lines /\ mounts[i].at \in Shared
  <2> DEFINE S == [dev : Devs, at : Shared, rw : BOOLEAN]
  <2>1. \A m \in S : m \in Lines /\ m.at \in Shared
    BY DEF Lines
  <2>2. mounts \in Seq(S)
    BY <1>1
  <2> HIDE DEF S
  <2>3. \A i \in DOMAIN mounts : mounts[i] \in S
    BY <2>2
  <2> QED BY <2>1, <2>3
<1>3. mounts \in Seq(Lines)
  BY <1>1, <1>2
<1>4. \A at \in Private : ~MountedAt(at)
  BY <1>2, NamesAssumption DEF MountedAt
<1>5. \A p \in Procs : job[p].phases \in Rests
  BY <1>1 DEF Rests
<1>6. MountType
  <2>1. \A i, k \in DOMAIN mounts : mounts[i].at = mounts[k].at /\ mounts[i].at \in Private => i = k
    BY <1>4 DEF MountedAt
  <2>2. phase \in [Procs -> Rests]
    BY <1>5 DEF MountInit
  <2>3. todo \in [Procs -> SUBSET Devs]
    BY DEF MountInit, Volumes
  <2>4. /\ DOMAIN member = Procs /\ (\A p \in Procs : DOMAIN member[p] = Devs)
        /\ cleanups \in [Procs -> Seq(Private)]
        /\ pos \in [Procs -> [Goroutines -> Nat]]
    BY DEF MountInit
  <2>5. /\ job \in Jobs /\ DOMAIN seen = Procs /\ DOMAIN probe = Procs /\ DOMAIN active = Procs
        /\ DOMAIN mu = Procs /\ DOMAIN handler = Procs /\ DOMAIN open = Procs /\ registered \subseteq Private
    BY DEF MountInit
  <2> QED BY <1>3, <2>1, <2>2, <2>3, <2>4, <2>5 DEF MountType
<1>7. ASSUME NEW p \in Procs
      PROVE  ScanOK(p) /\ AttachOK(p) /\ LockOK(p) /\ CleanupsOK(p) /\ RegisteredOK(p)
  <2>1. \A d \in Devs : ~MountedAt(Scan(p, d)) /\ ~MountedAt(Member(p, d))
    BY <1>4, Mountpoints
  <2>2. ScanOK(p)
    <3>1. probe[p] = None
      BY DEF MountInit
    <3> QED BY <2>1, <3>1 DEF ScanOK, Unscanned
  <2>3. AttachOK(p)
    <3>1. InPlace(p)
      BY DEF MountInit, InPlace, At
    <3>2. \A d \in Devs : member[p][d] = None
      BY DEF MountInit
    <3>3. Elements(cleanups[p]) = {} /\ registered = {}
      BY DEF MountInit, Elements
    <3> QED BY <2>1, <3>1, <3>2, <3>3 DEF AttachOK, Unattached
  <2>4. LockOK(p)
    BY DEF MountInit, LockOK
  <2>5. CleanupsOK(p)
    <3>1. DOMAIN cleanups[p] = {}
      BY DEF MountInit
    <3> QED BY <3>1 DEF CleanupsOK
  <2>6. RegisteredOK(p)
    BY DEF MountInit, RegisteredOK
  <2> QED BY <2>2, <2>3, <2>4, <2>5, <2>6
<1> QED BY <1>6, <1>7 DEF MountInv

(* Every step keeps MountInv.                                              *)
LEMMA MountInvNext ==
    ASSUME MountInv, [MountNext]_mountVars
    PROVE  MountInv'
<1>1. CASE UNCHANGED mountVars
  <2>1. UNCHANGED <<mounts, job, phase, todo, seen, probe, member, cleanups, active, mu, pos, handler, open,
                    registered, busy>>
    BY <1>1 DEF mountVars
  <2>2. ASSUME NEW p \in Procs PROVE RunOK(p)'
    <3>1. SameRun(p) /\ SameMounts(p)
      BY <2>1, NoMounting DEF SameRun, SameMounts, SameCleanup
    <3> QED BY <2>1, <3>1, OtherRuns
  <2>3. MountType'
    BY <2>1 DEF MountInv, MountType
  <2> QED BY <2>2, <2>3 DEF MountInv, RunOK
<1>2. ASSUME NEW p \in Procs, CommandStep(p) PROVE MountInv'
  BY <1>2, LookupStep, ProbeStep, UnprobeStep, AttachStep, WithCleanupStep, OpenFileStep, CloseFileStep,
     NextPhaseStep, ReturnStep DEF CommandStep
<1>3. ASSUME NEW p \in Procs, NEW g \in Goroutines, CleanupStep(p, g) PROVE MountInv'
  BY <1>3, RunActiveCleanupStep, CleanupOne, CleanupDoneStep, ExitStep DEF CleanupStep
<1> QED BY <1>1, <1>2, <1>3, SignalStep DEF MountNext

(* MountInv always holds.                                                  *)
LEMMA MountInvariance == MountSpec => []MountInv
<1>1. MountInit => MountInv
  BY MountInvInit
<1>2. MountInv /\ [MountNext]_mountVars => MountInv'
  BY MountInvNext
<1> QED BY <1>1, <1>2, PTL DEF MountSpec

(* What runActiveCleanup (main.go) promises of its lock: whichever of the  *)
(* deferred cleanup, die() and the signal handler runs host.cleanup        *)
(* (mirror.go), each unmount it still has to make is of a mount this run   *)
(* made, and that is there.                                                *)
THEOREM EachMountUndoneOnce == MountSpec => []UnmountsOwnOnce
<1>1. MountInv => UnmountsOwnOnce
  <2> SUFFICES ASSUME MountInv, NEW p \in Procs, NEW g \in Goroutines, NEW i \in 1 .. pos[p][g] - 1
               PROVE  cleanups[p][i].by = p /\ MountedAt(cleanups[p][i])
    BY DEF UnmountsOwnOnce
  <2>1. /\ pos[p][g] \in Nat /\ Len(cleanups[p]) \in Nat /\ DOMAIN cleanups[p] = 1 .. Len(cleanups[p])
    BY ListType
  <2>2. LockOK(p) /\ CleanupsOK(p)
    BY DEF MountInv
  <2>3. i \in DOMAIN cleanups[p] /\ i < pos[p][g] /\ pos[p][g] # 0
    BY <2>1, <2>2 DEF LockOK
  <2>4. \A h \in Goroutines : h # g => pos[p][h] = 0
    BY <2>2, <2>3 DEF LockOK
  <2>5. Standing(p, i)
    BY <2>3, <2>4 DEF Standing
  <2> QED BY <2>2, <2>3, <2>5, OwnList DEF CleanupsOK
<1> QED BY <1>1, MountInvariance, PTL

(* What withCleanup and runActiveCleanup (main.go) promise together: when  *)
(* a run is gone, by return, die() or a signal, every mount its registered *)
(* cleanup answered for is undone, unless the unmount said EBUSY.          *)
THEOREM RegisteredMountsUndone == MountSpec => []RegisteredAreUndone
<1>1. MountInv => RegisteredAreUndone
  <2> SUFFICES ASSUME MountInv, NEW at \in registered, Exited(at.by) PROVE ~MountedAt(at) \/ at \in busy
    BY DEF RegisteredAreUndone
  <2>1. at.by \in Procs
    BY DEF MountInv, MountType, Private
  <2>2. Undone(at) \/ Pending(at.by, at)
    BY <2>1 DEF MountInv, RegisteredOK
  <2> QED BY <2>2 DEF Undone, Pending
<1> QED BY <1>1, MountInvariance, PTL
=============================================================================
