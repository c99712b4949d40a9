--------------------------- MODULE FatReadProofs ---------------------------
(***************************************************************************)
(* What TLAPS proves of the FAT32 reader (FatRead.tla): the bytes it       *)
(* delivers are the file's (DeliversFile) and it gives up no chain that is *)
(* sound (RefusalExplained), for every volume and every call.              *)
(*                                                                         *)
(* First the chain as the FAT specification defines it, a recursive        *)
(* function whose equation is established here; then the arithmetic of     *)
(* clusters, sectors and bytes; then the inductive invariant, which ties   *)
(* the cursor to the chain and the bookkeeping to the range; and a lemma   *)
(* for each action.                                                        *)
(***************************************************************************)
EXTENDS WellFoundedInduction, TLAPS, FatRead

\* A leaf is tried with Zenon, then with the SMT solver, then with Zenon for longer.
USE ZenonT(2), SMT, Zenon

(* A set of natural numbers that is not empty has a least element.  This   *)
(* stands in for induction: what a recursive definition computes is proved *)
(* by looking at the least number for which it fails.                      *)
LEMMA LeastExists ==
    ASSUME NEW D, D \subseteq Nat, D # {}
    PROVE  \E d \in D : \A e \in D : d <= e
<1>1. PICK d \in D : \A e \in D : ~(<<e, d>> \in OpToRel(<, Nat))
  BY NatLessThanWellFounded, WFMin, Zenon
<1>2. \A e \in D : ~(e < d)
  BY <1>1 DEF OpToRel
<1> QED BY <1>2

(* The entry after p in the FAT f, and what it means for c to be the walk  *)
(* of n links from first.                                                  *)
NextOf(f, p) == IF p \in Clusters THEN f[p] ELSE End
WalksTo(f, first, n, c) == c = [k \in 0 .. n |-> IF k = 0 THEN first ELSE NextOf(f, c[k - 1])]

(* A walk of every length exists: the shortest one that did not would      *)
(* extend the one before it.                                               *)
LEMMA WalkExists == ASSUME NEW f, NEW first, NEW n \in Nat
                    PROVE  \E c : WalksTo(f, first, n, c)
<1> DEFINE Short == {m \in Nat : ~\E c : WalksTo(f, first, m, c)}
<1>1. SUFFICES ASSUME Short # {} PROVE FALSE
  OBVIOUS
<1>2. PICK m \in Short : \A e \in Short : m <= e
  BY <1>1, LeastExists
<1>3. m # 0
  <2>1. WalksTo(f, first, 0, [k \in 0 .. 0 |-> first])
    BY DEF WalksTo
  <2> QED BY <2>1
<1>4. PICK c : WalksTo(f, first, m - 1, c)
  BY <1>2, <1>3
<1> DEFINE d == [k \in 0 .. m |-> IF k = m THEN NextOf(f, c[m - 1]) ELSE c[k]]
<1>5. \A k \in 0 .. m - 1 : c[k] = IF k = 0 THEN first ELSE NextOf(f, c[k - 1])
  BY <1>4 DEF WalksTo
<1>6. \A k \in 0 .. m : d[k] = IF k = 0 THEN first ELSE NextOf(f, d[k - 1])
  <2> TAKE k \in 0 .. m
  <2>1. CASE k = m
    BY <2>1, <1>3
  <2>2. CASE k # m /\ k # 0
    BY <2>2, <1>5
  <2>3. CASE k # m /\ k = 0
    BY <2>3, <1>5
  <2> QED BY <2>1, <2>2, <2>3
<1>7. WalksTo(f, first, m, d)
  <2> DEFINE g == [k \in 0 .. m |-> IF k = 0 THEN first ELSE NextOf(f, d[k - 1])]
  <2>1. \A k \in 0 .. m : d[k] = g[k]
    BY <1>6
  <2>2. d = g
    BY <2>1
  <2> QED BY <2>2 DEF WalksTo
<1> QED BY <1>7

(* So the recursive definition of Chain, the links of the volume from      *)
(* first on, defines what its equation says.                               *)
LEMMA ChainUnfolds == WalksTo(call.fat, call.first, 2 * N + 4, Chain)
<1>1. 2 * N + 4 \in Nat
  BY VolumeAssumption
<1>2. \E c : WalksTo(call.fat, call.first, 2 * N + 4, c)
  BY <1>1, WalkExists
<1>3. Chain = CHOOSE c : WalksTo(call.fat, call.first, 2 * N + 4, c)
  BY DEF Chain, WalksTo, NextOf
<1> QED BY <1>2, <1>3

(* The chain depends on the call alone. *)
LEMMA ChainSame == ASSUME call' = call PROVE Chain' = Chain
  BY DEF Chain

(* The first cluster of the chain, and the one after each. *)
LEMMA ChainStep ==
    /\ Chain[0] = call.first
    /\ \A k \in 0 .. 2 * N + 3 : Chain[k + 1] = NextOf(call.fat, Chain[k])
<1>1. Chain = [k \in 0 .. 2 * N + 4 |-> IF k = 0 THEN call.first ELSE NextOf(call.fat, Chain[k - 1])]
  BY ChainUnfolds DEF WalksTo
<1>2. \A k \in 0 .. 2 * N + 4 : Chain[k] = IF k = 0 THEN call.first ELSE NextOf(call.fat, Chain[k - 1])
  BY <1>1
<1>3. ASSUME NEW k \in 0 .. 2 * N + 3 PROVE Chain[k + 1] = NextOf(call.fat, Chain[k])
  <2>1. k + 1 \in 0 .. 2 * N + 4 /\ k + 1 # 0 /\ (k + 1) - 1 = k
    BY VolumeAssumption
  <2> QED BY <2>1, <1>2
<1>4. 0 \in 0 .. 2 * N + 4
  BY VolumeAssumption
<1> QED BY <1>2, <1>3, <1>4

(* The chain consists of FAT entries. *)
LEMMA ChainType == ASSUME call \in CallTypes
                   PROVE  \A k \in 0 .. 2 * N + 4 : Chain[k] \in Entries
<1>1. TAKE k \in 0 .. 2 * N + 4
<1>2. call.first \in Entries /\ \A p \in Clusters : call.fat[p] \in Entries
  BY DEF CallTypes
<1>3. End \in Entries
  BY DEF Entries
<1>4. CASE k = 0
  BY <1>2, <1>4, ChainStep
<1>5. CASE k # 0
  <2>1. k - 1 \in 0 .. 2 * N + 3 /\ (k - 1) + 1 = k
    BY <1>5, VolumeAssumption
  <2>2. Chain[k] = NextOf(call.fat, Chain[k - 1])
    BY <2>1, ChainStep
  <2> QED BY <2>2, <1>2, <1>3 DEF NextOf
<1> QED BY <1>4, <1>5

(* A chain that is in the volume after k links has been so all the way: an *)
(* entry that is no cluster ends it for good.                              *)
LEMMA ChainGoesOn == ASSUME NEW k \in 0 .. 2 * N + 4, Chain[k] \in Clusters
                     PROVE  \A j \in 0 .. k : Chain[j] \in Clusters
<1> DEFINE D == {m \in Nat : m <= k /\ Chain[k - m] \notin Clusters}
<1>1. ASSUME NEW j \in 0 .. k, Chain[j] \notin Clusters PROVE D # {}
  <2>1. k - j \in D
    BY <1>1, VolumeAssumption
  <2> QED BY <2>1
<1>2. SUFFICES ASSUME D # {} PROVE FALSE
  BY <1>1
<1>3. PICK m \in D : \A e \in D : m <= e
  BY <1>2, LeastExists
<1>4. m # 0
  BY <1>3, VolumeAssumption
<1>5. m - 1 \notin D /\ m - 1 \in Nat
  BY <1>3, <1>4
<1>6. Chain[k - (m - 1)] \in Clusters
  BY <1>3, <1>5
<1>7. k - m \in 0 .. 2 * N + 3 /\ (k - m) + 1 = k - (m - 1)
  BY <1>3, <1>4, VolumeAssumption
<1>8. Chain[k - (m - 1)] = End
  BY <1>3, <1>7, ChainStep DEF NextOf
<1>9. End \notin Clusters
  BY VolumeAssumption DEF End, Clusters
<1> QED BY <1>6, <1>8, <1>9

(* A chain that comes back to a cluster after k links never leaves the     *)
(* first k.                                                                *)
LEMMA ChainRepeats == ASSUME NEW k \in 0 .. 2 * N + 4, NEW j \in 0 .. k - 1, Chain[j] = Chain[k]
                      PROVE  \A m \in 0 .. 2 * N + 4 : \E i \in 0 .. k - 1 : Chain[m] = Chain[i]
<1> DEFINE D == {m \in Nat : m <= 2 * N + 4 /\ ~\E i \in 0 .. k - 1 : Chain[m] = Chain[i]}
<1>1. SUFFICES ASSUME D # {} PROVE FALSE
  OBVIOUS
<1>2. PICK m \in D : \A e \in D : m <= e
  BY <1>1, LeastExists
<1>3. m > k
  <2>1. \A i \in 0 .. k - 1 : Chain[m] # Chain[i]
    BY <1>2
  <2>2. m \in Nat /\ k \in Nat
    BY <1>2, VolumeAssumption
  <2>3. m # k
    BY <2>1
  <2>4. m \notin 0 .. k - 1
    BY <2>1
  <2> QED BY <2>2, <2>3, <2>4
<1>4. m - 1 \notin D /\ m - 1 \in 0 .. 2 * N + 3 /\ (m - 1) + 1 = m
  BY <1>2, <1>3, VolumeAssumption
<1>5. PICK i \in 0 .. k - 1 : Chain[m - 1] = Chain[i]
  <2>1. m - 1 \in Nat /\ m - 1 <= 2 * N + 4
    BY <1>4, VolumeAssumption
  <2> QED BY <1>4, <2>1
<1>6. i \in 0 .. 2 * N + 3 /\ i + 1 \in 0 .. k
  BY VolumeAssumption
<1>7. Chain[m] = Chain[i + 1]
  BY <1>4, <1>5, <1>6, ChainStep
<1>8. \A e \in 0 .. k - 1 : Chain[m] # Chain[e]
  BY <1>2
<1>9. i + 1 = k
  BY <1>6, <1>7, <1>8
<1> QED BY <1>7, <1>8, <1>9

(* Quotient and remainder. *)
LEMMA DivMod == ASSUME NEW x \in Nat, NEW k \in Nat \ {0}
                PROVE  x \div k \in Nat /\ x % k \in 0 .. k - 1 /\ x = (x \div k) * k + (x % k)
  OBVIOUS

(* The quotient and the remainder of q times k plus e. *)
LEMMA DivOf == ASSUME NEW q \in Nat, NEW k \in Nat \ {0}, NEW e \in 0 .. k - 1
               PROVE  (q * k + e) \div k = q /\ (q * k + e) % k = e
  OBVIOUS

(* The product of two positive numbers is positive. *)
LEMMA Product == ASSUME NEW a \in Nat \ {0}, NEW b \in Nat \ {0} PROVE a * b \in Nat \ {0}
  OBVIOUS

(* Multiplication distributes over addition. *)
LEMMA Distributes == ASSUME NEW a \in Int, NEW b \in Int, NEW c \in Int
                     PROVE  (a + b) * c = a * c + b * c
  OBVIOUS

(* A byte's cluster, sector of the cluster and byte of the sector. *)
LEMMA PlaceOf ==
    ASSUME NEW x \in Nat, NEW s \in Nat \ {0}, NEW b \in Nat \ {0}
    PROVE  /\ x \div (s * b) \in Nat /\ (x % (s * b)) \div b \in 0 .. s - 1 /\ x % b \in 0 .. b - 1
           /\ x = (x \div (s * b)) * (s * b) + ((x % (s * b)) \div b) * b + (x % b)
<1> DEFINE c == s * b
           q == x \div c
           r == x % c
           t == r \div b
           e == r % b
<1>1. c \in Nat \ {0}
  BY Product
<1> HIDE DEF c
<1>2. q \in Nat /\ r \in 0 .. c - 1 /\ x = q * c + r
  BY <1>1, DivMod
<1> HIDE DEF q, r
<1>3. t \in Nat /\ e \in 0 .. b - 1 /\ r = t * b + e
  <2>1. r \in Nat
    BY <1>1, <1>2
  <2> QED BY <2>1, DivMod
<1> HIDE DEF t, e
<1>4. t * b < s * b
  BY <1>1, <1>2, <1>3 DEF c
<1>5. t < s
  BY <1>3, <1>4
<1>6. x = (q * s + t) * b + e
  BY <1>2, <1>3 DEF c
<1>7. q * s + t \in Nat
  BY <1>2, <1>3
<1>8. x % b = e
  BY <1>3, <1>6, <1>7, DivOf
<1> QED BY <1>2, <1>3, <1>5, <1>8 DEF c, q, r, t

(* The sector of the FAT that fat_get_next_cluster_slot asks for holds the *)
(* entry it looks up.                                                      *)
LEMMA FatEntry == ASSUME NEW c \in Clusters, NEW s, s.holds = FatSector(c)
                  PROVE  Found(s, c) = call.fat[c]
<1>1. c \in Nat /\ PerFat \in Nat \ {0}
  BY VolumeAssumption DEF Clusters
<1>2. (c \div PerFat) * PerFat + (c % PerFat) = c
  BY <1>1, DivMod
<1> QED BY <1>2 DEF Found, FatSector

(* That sector is one of the FAT. *)
LEMMA SectorTypes == ASSUME NEW c \in Clusters PROVE FatSector(c) \in FatSectors
<1>1. c \in Nat /\ N + 1 \in Nat /\ c <= N + 1 /\ PerFat \in Nat \ {0}
  BY VolumeAssumption DEF Clusters
<1> DEFINE a == c \div PerFat
           b == (N + 1) \div PerFat
<1>2. a \in Nat /\ c % PerFat \in 0 .. PerFat - 1 /\ c = a * PerFat + (c % PerFat)
  BY <1>1, DivMod
<1>3. b \in Nat /\ (N + 1) % PerFat \in 0 .. PerFat - 1 /\ N + 1 = b * PerFat + ((N + 1) % PerFat)
  BY <1>1, DivMod
<1> HIDE DEF a, b
<1>4. a * PerFat < (b + 1) * PerFat
  BY <1>1, <1>2, <1>3
<1>5. a < b + 1
  BY <1>1, <1>2, <1>3, <1>4
<1> QED BY <1>2, <1>3, <1>5 DEF a, b, FatSectors, FatSector

(* Whatever sector the disk delivered, what is read from it counts as a    *)
(* FAT entry.                                                              *)
LEMMA FoundType == ASSUME call \in CallTypes, NEW s, NEW c
                   PROVE  Found(s, c) \in Entries
<1>1. \A p \in Clusters : call.fat[p] \in Entries
  BY DEF CallTypes
<1> QED BY <1>1 DEF Found, Entries

(* What a lookup returns, and that it is the entry of the FAT if neither   *)
(* the slot nor this read is wrong.                                        *)
LEMMA LookupType ==
    ASSUME call \in CallTypes, NEW s \in SlotStates, NEW c \in Clusters, NEW r \in Lookup(s, c)
    PROVE  /\ r.slot \in SlotStates /\ r.entry \in Entries \cup {0} /\ r.fault \in {0, 1}
           /\ r.entry = 0 => r.fault = 1
           /\ r.fault = 1 => r.entry = 0 \/ Lies(r)
           /\ ~Wrong(s) /\ ~Lies(r) => ~Wrong(r.slot) /\ (r.entry # 0 => r.entry = call.fat[c])
<1>1. 0 \notin Entries
  BY VolumeAssumption DEF Entries, Clusters, End
<1>2. FatSector(c) \in FatSectors
  BY SectorTypes
<1> DEFINE Ok(h, f) == [slot |-> [lba |-> FatSector(c), holds |-> h],
                        entry |-> Found([lba |-> FatSector(c), holds |-> h], c), fault |-> f]
<1>3. \/ r = [slot |-> s, entry |-> Found(s, c), fault |-> 0] /\ s.lba = FatSector(c)
      \/ r = Ok(FatSector(c), 0)
      \/ r = [slot |-> Empty, entry |-> 0, fault |-> 1]
      \/ \E h \in FatSectors \ {FatSector(c)} : r = Ok(h, 1)
  BY DEF Lookup
<1>4. CASE r = [slot |-> s, entry |-> Found(s, c), fault |-> 0] /\ s.lba = FatSector(c)
  <2>1. Found(s, c) \in Entries
    BY FoundType
  <2>2. ~Wrong(s) => Found(s, c) = call.fat[c]
    BY <1>4, FatEntry DEF Wrong
  <2> QED BY <1>1, <1>4, <2>1, <2>2 DEF Lies
<1>5. CASE \E h \in FatSectors, f \in {0, 1} : r = Ok(h, f) /\ (f = 0 => h = FatSector(c))
  <2>1. PICK h \in FatSectors, f \in {0, 1} : r = Ok(h, f) /\ (f = 0 => h = FatSector(c))
    BY <1>5
  <2> DEFINE d == [lba |-> FatSector(c), holds |-> h]
  <2>2. d \in SlotStates
    BY <1>2 DEF SlotStates
  <2>3. Found(d, c) \in Entries
    BY FoundType
  <2>4. h = FatSector(c) => Found(d, c) = call.fat[c] /\ ~Wrong(d)
    BY FatEntry DEF Wrong
  <2>5. r.slot = d /\ r.entry = Found(d, c) /\ r.fault = f
    BY <2>1
  <2> HIDE DEF d
  <2> QED BY <1>1, <2>1, <2>2, <2>3, <2>4, <2>5 DEF Lies
<1>6. CASE r = [slot |-> Empty, entry |-> 0, fault |-> 1]
  BY <1>6 DEF Lies, Wrong, Empty, SlotStates
<1> QED BY <1>2, <1>3, <1>4, <1>5, <1>6

-----------------------------------------------------------------------------
(* Where the program is: reading a run of fat_read_range, in the middle of *)
(* a hop of the cursor, or anywhere with a cursor in use.                  *)
Reading == {"probe", "read", "copy", "callback"}
Hopping == {"tortoise", "hopped"}
Walking == {"scan", "hop"} \cup Hopping \cup Reading

(* The types.  inCluster and inSector stay inside the cluster and the      *)
(* sector, which the arithmetic of fat_read_range has to see to.           *)
FatTypeOK ==
    /\ call \in Calls
    /\ pc \in Walking \cup {"call", "done", "failed", "dead"}
    /\ hare \in Clusters /\ tortoise \in Clusters /\ probe \in Clusters
    /\ hops \in Nat /\ due \in BOOLEAN /\ todo \in Nat
    /\ remaining \in Nat /\ inCluster \in 0 .. call.spc - 1 /\ inSector \in 0 .. Bps - 1
    /\ run \in Nat
    /\ slot \in SlotStates /\ slot2 \in SlotStates
    /\ dst \in Seq(Int) /\ lied \in BOOLEAN /\ since \in 0 .. Len(dst)

(* Neither slot is wrong unless a wrong sector was delivered since the     *)
(* caches were last dropped; fat_open never drops them, so there it took a *)
(* fault.                                                                  *)
CacheInv == /\ ~lied => ~Wrong(slot) /\ ~Wrong(slot2)
            /\ call.op = "open" => faults \in Nat /\ (lied => faults > 0)

(* The links the second pointer has made: half of the first one's, one     *)
(* less while its own hop is still to come.                                *)
Behind == (hops \div 2) - (IF pc = "tortoise" THEN 1 ELSE 0)

(* The cursor of fat_chain_advance is on the chain: the first pointer      *)
(* after hops links, the second after half of them.                        *)
WalkInv == pc \in Walking =>
    /\ hops <= N + 1 /\ (due <=> hops % 2 = 0)
    /\ pc = "tortoise" => due
    /\ pc \in Hopping => todo > 0 /\ hops > 0
    /\ pc \in Reading => call.op = "read"
    /\ pc = "scan" => call.op = "open"
    /\ ~lied => hare = Chain[hops] /\ tortoise = Chain[Behind]

(* The links the cursor will have made once the hops of this loop are      *)
(* done.                                                                   *)
Aim == IF pc \in Hopping THEN hops + todo - 1 ELSE hops + todo

(* The bookkeeping of fat_read_range: what is delivered and what remains   *)
(* make up the range, and the first byte that remains is in the cluster    *)
(* the cursor is heading for, at the sector and the byte it keeps.         *)
PlaceInv == call.op = "read" =>
    /\ Len(dst) <= call.length
    /\ pc = "done" => Len(dst) = call.length
    /\ pc \in Walking =>
         /\ Len(dst) = call.length - remaining + (IF pc = "callback" THEN RunBytes ELSE 0)
         /\ todo > 0 => remaining > 0
         /\ remaining > 0 => call.offset + call.length - remaining
                               = Aim * ClusterBytes + inCluster * Bps + inSector

(* The run is the rest of this cluster and whole clusters that follow it   *)
(* both on disk and in the chain, and the buffer holds it.                 *)
RunInv == pc \in Reading =>
    /\ todo = 0 /\ remaining > 0 /\ probe >= hare
    /\ run = (probe - hare + 1) * call.spc - inCluster
    /\ ~lied => \A i \in 0 .. probe - hare : Chain[hops + i] = hare + i
    /\ pc = "copy" => buf = [i \in 1 .. SectorsNeeded * Bps |-> RunAt + i - 1]

(* The search of fat_open has passed only clusters of the directory that   *)
(* do not settle it.                                                       *)
SearchInv == call.op = "open" =>
    /\ pc \in Hopping \cup {"hop"} => todo <= 1
    /\ pc \in Walking /\ ~lied =>
         \A j \in 0 .. hops : j < hops \/ (pc = "hop" /\ todo > 0) => call.mark[Chain[j]] = "more"

(* The inductive invariant. *)
FatInv == FatTypeOK /\ CacheInv /\ WalkInv /\ PlaceInv /\ RunInv /\ SearchInv
          /\ DeliversFile /\ RefusalExplained

-----------------------------------------------------------------------------
(* The call is one of the types assumed, and a cluster has bytes. *)
LEMMA CallTyped == ASSUME FatTypeOK
                   PROVE  /\ call \in CallTypes /\ call.spc \in Nat \ {0} /\ call.offset \in Nat
                          /\ call.length \in Nat /\ call.op \in {"open", "read"}
                          /\ ClusterBytes \in Nat \ {0}
<1>1. call \in CallTypes
  BY CallAssumption DEF FatTypeOK
<1>2. call.spc \in Nat \ {0} /\ call.offset \in Nat /\ call.length \in Nat /\ call.op \in {"open", "read"}
  BY <1>1 DEF CallTypes
<1> QED BY <1>1, <1>2, Product, VolumeAssumption DEF ClusterBytes

(* What is said of the volume depends on the call alone. *)
LEMMA CallSame == ASSUME call' = call
                  PROVE  /\ Chain' = Chain /\ ClusterBytes' = ClusterBytes /\ InDirectory' = InDirectory
                         /\ Sound(Links)' = Sound(Links)
                         /\ \A i : FileByte(i)' = FileByte(i)
<1>1. Chain' = Chain
  BY ChainSame
<1>2. ClusterBytes' = ClusterBytes
  BY DEF ClusterBytes
<1>3. InDirectory' = InDirectory
  BY <1>1 DEF InDirectory, Settles
<1>4. Links' = Links
  BY <1>2 DEF Links
<1>5. Sound(Links)' = Sound(Links)
  BY <1>1, <1>4 DEF Sound, Distinct
<1>6. \A i : FileByte(i)' = FileByte(i)
  BY <1>1, <1>2 DEF FileByte
<1> QED BY <1>1, <1>2, <1>3, <1>5, <1>6

(* The cursor's cluster is the one of the chain after hops links, and so   *)
(* are all before it in the volume.                                        *)
LEMMA HareOnChain == ASSUME FatTypeOK, WalkInv, pc \in Walking, ~lied
                     PROVE  /\ hops \in 0 .. N + 1 /\ hare = Chain[hops]
                            /\ \A j \in 0 .. hops : Chain[j] \in Clusters
<1>1. hops \in 0 .. N + 1 /\ hare = Chain[hops] /\ hare \in Clusters
  BY VolumeAssumption DEF FatTypeOK, WalkInv
<1>2. hops \in 0 .. 2 * N + 4
  BY <1>1, VolumeAssumption
<1> QED BY <1>1, <1>2, ChainGoesOn

(* A name is not in a directory whose every cluster within reach has only  *)
(* other entries.                                                          *)
LEMMA NoneSettles == ASSUME \A j \in 0 .. N + 1 : Chain[j] \in Clusters => call.mark[Chain[j]] = "more"
                     PROVE  ~InDirectory
  BY DEF InDirectory, Settles

(* Nor in one whose chain ends with only such clusters visited, *)
LEMMA EndSettlesNone ==
    ASSUME NEW h \in 0 .. N, Chain[h + 1] \notin Clusters,
           \A j \in 0 .. h : call.mark[Chain[j]] = "more"
    PROVE  ~InDirectory
<1>1. ASSUME NEW j \in 0 .. N + 1, Chain[j] \in Clusters PROVE j <= h
  <2>1. j \in 0 .. 2 * N + 4
    BY VolumeAssumption
  <2>2. \A i \in 0 .. j : Chain[i] \in Clusters
    BY <1>1, <2>1, ChainGoesOn
  <2> QED BY <2>2, VolumeAssumption
<1>2. \A j \in 0 .. N + 1 : Chain[j] \in Clusters => j \in 0 .. h
  BY <1>1, VolumeAssumption
<1> QED BY <1>2, NoneSettles

(* nor in one whose chain comes back with only such clusters visited. *)
LEMMA CycleSettlesNone ==
    ASSUME NEW h \in 0 .. N + 1, NEW i \in 0 .. h - 1, Chain[i] = Chain[h],
           \A j \in 0 .. h - 1 : call.mark[Chain[j]] = "more"
    PROVE  ~InDirectory
<1>1. h \in 0 .. 2 * N + 4 /\ \A j \in 0 .. N + 1 : j \in 0 .. 2 * N + 4
  BY VolumeAssumption
<1>2. \A m \in 0 .. 2 * N + 4 : \E j \in 0 .. h - 1 : Chain[m] = Chain[j]
  BY <1>1, ChainRepeats
<1>3. \A m \in 0 .. N + 1 : call.mark[Chain[m]] = "more"
  BY <1>1, <1>2
<1> QED BY <1>3, NoneSettles

(* The first cluster that settles the search decides whether the name is   *)
(* there.                                                                  *)
LEMMA FirstSettles ==
    ASSUME NEW h \in 0 .. N + 1, Chain[h] \in Clusters, call.mark[Chain[h]] # "more",
           \A j \in 0 .. h - 1 : call.mark[Chain[j]] = "more"
    PROVE  InDirectory <=> call.mark[Chain[h]] = "match"
<1>2. h \in Settles
  BY DEF Settles
<1>3. \A j \in Settles : j >= h
  BY VolumeAssumption DEF Settles
<1>4. \A j \in Settles : j \in Nat
  BY VolumeAssumption DEF Settles
<1>5. \A k \in Settles : (\A j \in Settles : j >= k) => k = h
  BY <1>2, <1>3, <1>4
<1> QED BY <1>2, <1>3, <1>5 DEF InDirectory

(* The cluster the cursor is heading for is needed: while bytes remain it  *)
(* is none past the last one of the range.                                 *)
LEMMA AimInRange ==
    ASSUME FatTypeOK, PlaceInv, call.op = "read", pc \in Walking, remaining > 0, Aim \in Nat
    PROVE  Aim <= Links /\ Links \in Nat
<1> DEFINE x == call.offset + call.length - 1
           rest == inCluster * Bps + inSector
<1>1. ClusterBytes \in Nat \ {0} /\ call.offset \in Nat /\ call.length \in Nat /\ call.spc \in Nat \ {0}
  BY CallTyped
<1>2. call.offset + call.length - remaining = Aim * ClusterBytes + inCluster * Bps + inSector
  BY DEF PlaceInv
<1>3. remaining \in Nat /\ inCluster \in 0 .. call.spc - 1 /\ inSector \in 0 .. Bps - 1
  BY DEF FatTypeOK
<1>4. rest \in Nat
  BY <1>1, <1>3, VolumeAssumption
<1>5. Aim * ClusterBytes \in Nat
  BY <1>1
<1>6. x \in Nat /\ Aim * ClusterBytes <= x
  <2> DEFINE p == Aim * ClusterBytes
  <2>1. inCluster * Bps \in Int /\ inSector \in Int
    BY <1>1, <1>3, VolumeAssumption
  <2>2. call.offset + call.length - remaining = p + rest /\ p \in Nat
    BY <1>2, <1>5, <2>1
  <2> HIDE DEF p, rest
  <2>3. x \in Nat /\ p <= x
    BY <1>1, <1>3, <1>4, <2>2
  <2> QED BY <2>3 DEF p
<1>7. Links \in Nat /\ x % ClusterBytes \in 0 .. ClusterBytes - 1
      /\ x = Links * ClusterBytes + (x % ClusterBytes)
  BY <1>1, <1>6, DivMod DEF Links
<1>8. Aim * ClusterBytes < (Links + 1) * ClusterBytes
  BY <1>1, <1>5, <1>6, <1>7
<1>9. Aim < Links + 1
  BY <1>1, <1>7, <1>8
<1> QED BY <1>7, <1>9

(* The arithmetic of a run: it is never empty, never longer than the batch *)
(* or what remains, its sectors cover its bytes, and only the last run     *)
(* stops short of a sector's end.                                          *)
LEMMA RunFacts ==
    ASSUME FatTypeOK, RunInv, pc \in Reading
    PROVE  /\ RunSectors \in Nat \ {0} /\ RunSectors <= run
           /\ RunBytes \in Nat \ {0} /\ RunBytes <= remaining
           /\ inSector + RunBytes <= RunSectors * Bps
           /\ SectorsNeeded \in Nat /\ inSector + RunBytes <= SectorsNeeded * Bps
           /\ RunBytes < remaining => inSector + RunBytes = RunSectors * Bps /\ SectorsNeeded = RunSectors
<1>1. call.spc \in Nat \ {0} /\ Bps \in Nat \ {0} /\ Batch \in Nat \ {0}
  BY CallTyped, VolumeAssumption, ReaderAssumption
<1>2. inCluster \in 0 .. call.spc - 1 /\ inSector \in 0 .. Bps - 1 /\ remaining \in Nat /\ run \in Nat
      /\ hare \in Int /\ probe \in Int
  BY VolumeAssumption DEF FatTypeOK, Clusters
<1>3. remaining > 0 /\ probe >= hare /\ run = (probe - hare + 1) * call.spc - inCluster
  BY DEF RunInv
<1>4. (probe - hare + 1) * call.spc >= call.spc
  <2>1. probe - hare + 1 \in Nat /\ probe - hare + 1 >= 1
    BY <1>2, <1>3
  <2> QED BY <1>1, <2>1
<1>5. run > 0
  BY <1>1, <1>2, <1>3, <1>4
<1>6. RunSectors \in Nat \ {0} /\ RunSectors <= run
  BY <1>1, <1>2, <1>5 DEF RunSectors, Least
<1> DEFINE p == RunSectors * Bps
<1>7. p \in Nat /\ p >= Bps
  BY <1>1, <1>6
<1>8. RunBytes = IF remaining < p - inSector THEN remaining ELSE p - inSector
  BY DEF RunBytes, Least
<1> HIDE DEF p
<1>9. /\ RunBytes \in Nat \ {0} /\ RunBytes <= remaining /\ inSector + RunBytes <= p
      /\ RunBytes < remaining => inSector + RunBytes = p
  BY <1>1, <1>2, <1>3, <1>7, <1>8
<1> DEFINE x == inSector + RunBytes + Bps - 1
           n == x \div Bps
<1>10. x \in Nat
  BY <1>1, <1>2, <1>9
<1>11. n \in Nat /\ x % Bps \in 0 .. Bps - 1 /\ x = n * Bps + (x % Bps)
  BY <1>1, <1>10, DivMod
<1>12. SectorsNeeded = n
  BY DEF SectorsNeeded
<1>13. inSector + RunBytes <= n * Bps
  <2> DEFINE q == n * Bps
             e == x % Bps
  <2>1. q \in Nat /\ e <= Bps - 1 /\ e \in Nat /\ x = q + e
    BY <1>1, <1>11
  <2> HIDE DEF q, e
  <2>2. inSector + RunBytes <= q
    BY <1>1, <1>2, <1>9, <2>1
  <2> QED BY <2>2 DEF q
<1>14. ASSUME RunBytes < remaining PROVE n = RunSectors
  <2>1. x = RunSectors * Bps + (Bps - 1)
    BY <1>1, <1>2, <1>6, <1>9, <1>14 DEF p
  <2>2. Bps - 1 \in 0 .. Bps - 1
    BY <1>1
  <2> HIDE DEF x
  <2> QED BY <1>1, <1>6, <2>1, <2>2, DivOf
<1> HIDE DEF n, x
<1> QED BY <1>6, <1>9, <1>11, <1>12, <1>13, <1>14 DEF p

(* After a run that is not the last, the cluster and the sector computed   *)
(* from the sectors consumed are those of the next byte.                   *)
LEMMA NextPlace ==
    ASSUME FatTypeOK, PlaceInv, RunInv, call.op = "read", pc \in Reading
    PROVE  /\ Consumed \in Nat /\ Consumed \div call.spc \in Nat /\ Consumed % call.spc \in 0 .. call.spc - 1
           /\ RunBytes < remaining =>
                call.offset + call.length - (remaining - RunBytes)
                  = (hops + (Consumed \div call.spc)) * ClusterBytes + (Consumed % call.spc) * Bps
<1>1. call.spc \in Nat \ {0} /\ Bps \in Nat \ {0} /\ call.offset \in Nat /\ call.length \in Nat
  BY CallTyped, VolumeAssumption
<1>2. inCluster \in 0 .. call.spc - 1 /\ inSector \in 0 .. Bps - 1 /\ remaining \in Nat /\ hops \in Nat
  BY DEF FatTypeOK
<1>3. SectorsNeeded \in Nat /\ RunBytes \in Nat /\ RunSectors \in Nat
      /\ (RunBytes < remaining => inSector + RunBytes = RunSectors * Bps /\ SectorsNeeded = RunSectors)
  BY RunFacts
<1>4. Consumed \in Nat /\ Consumed = inCluster + SectorsNeeded
  BY <1>1, <1>2, <1>3 DEF Consumed
<1> DEFINE q == Consumed \div call.spc
           e == Consumed % call.spc
<1>5. q \in Nat /\ e \in 0 .. call.spc - 1 /\ Consumed = q * call.spc + e
  BY <1>1, <1>4, DivMod
<1> HIDE DEF q, e
<1>6. ASSUME RunBytes < remaining
      PROVE  call.offset + call.length - (remaining - RunBytes) = (hops + q) * ClusterBytes + e * Bps
  <2>1. pc \in Walking /\ pc \notin Hopping
    BY DEF Walking, Reading, Hopping
  <2>2. todo = 0 /\ remaining > 0
    BY DEF RunInv
  <2>3. Aim = hops
    BY <1>2, <2>1, <2>2 DEF Aim
  <2>4. call.offset + call.length - remaining = hops * ClusterBytes + inCluster * Bps + inSector
    BY <2>1, <2>2, <2>3 DEF PlaceInv
  <2>5. Consumed * Bps = inCluster * Bps + RunSectors * Bps
    BY <1>1, <1>2, <1>3, <1>4, <1>6
  <2>6. Consumed * Bps = q * ClusterBytes + e * Bps
    BY <1>1, <1>4, <1>5 DEF ClusterBytes
  <2>7. (hops + q) * ClusterBytes = hops * ClusterBytes + q * ClusterBytes
    BY <1>1, <1>2, <1>5, CallTyped
  <2>8. inSector + RunBytes = RunSectors * Bps
    BY <1>3, <1>6
  <2>9. ClusterBytes \in Nat
    BY CallTyped
  <2> DEFINE a == hops * ClusterBytes
             b == inCluster * Bps
             c == RunSectors * Bps
             d == q * ClusterBytes
             g == e * Bps
  <2>10. a \in Nat /\ b \in Nat /\ c \in Nat /\ d \in Nat /\ g \in Nat
    BY <1>1, <1>2, <1>3, <1>5, <2>9
  <2>11. call.offset + call.length - remaining = a + b + inSector /\ b + c = d + g /\ inSector + RunBytes = c
    BY <2>4, <2>5, <2>6, <2>8
  <2> HIDE DEF a, b, c, d, g
  <2>12. call.offset + call.length - (remaining - RunBytes) = a + d + g
    <3>1. RunBytes \in Nat
      BY <1>3
    <3> QED BY <1>1, <1>2, <2>10, <2>11, <3>1
  <2> QED BY <2>7, <2>12 DEF a, d, g
<1> QED BY <1>4, <1>5, <1>6 DEF q, e

(* Byte i of the run on disk is the file's byte at that place, across      *)
(* cluster boundaries too: the clusters of the run follow each other in    *)
(* the chain.                                                              *)
LEMMA RunIsFile ==
    ASSUME FatTypeOK, WalkInv, PlaceInv, RunInv, pc \in Reading, ~lied, NEW i \in 1 .. RunBytes
    PROVE  FileByte(call.offset + call.length - remaining + i - 1) = RunAt + inSector + i - 1
<1>1. call.spc \in Nat \ {0} /\ Bps \in Nat \ {0} /\ ClusterBytes \in Nat \ {0}
      /\ ClusterBytes = call.spc * Bps /\ call.offset \in Nat /\ call.length \in Nat
  BY CallTyped, VolumeAssumption DEF ClusterBytes
<1>2. inCluster \in 0 .. call.spc - 1 /\ inSector \in 0 .. Bps - 1 /\ remaining \in Nat /\ hops \in Nat
      /\ run \in Nat /\ hare \in Nat /\ probe \in Nat
  BY VolumeAssumption DEF FatTypeOK, Clusters
<1>3. RunBytes \in Nat /\ RunSectors \in Nat /\ inSector + RunBytes <= RunSectors * Bps /\ RunSectors <= run
  BY RunFacts
<1>4. pc \in Walking /\ pc \notin Hopping /\ call.op = "read"
  BY DEF Walking, Reading, Hopping, WalkInv
<1>5. /\ todo = 0 /\ remaining > 0 /\ probe >= hare /\ run = (probe - hare + 1) * call.spc - inCluster
      /\ \A j \in 0 .. probe - hare : Chain[hops + j] = hare + j
  BY DEF RunInv
<1>6. Aim = hops
  BY <1>2, <1>4, <1>5 DEF Aim
<1>7. call.offset + call.length - remaining = hops * ClusterBytes + inCluster * Bps + inSector
  BY <1>4, <1>5, <1>6 DEF PlaceInv
<1> DEFINE y == inCluster * Bps + inSector + i - 1
           m == probe - hare + 1
           q == y \div ClusterBytes
           e == y % ClusterBytes
<1>8. m \in Nat /\ (m * call.spc) * Bps = m * ClusterBytes
  BY <1>1, <1>2, <1>5
<1>9. i \in Nat \ {0} /\ i <= RunBytes
  BY <1>3
<1>10. inCluster * Bps \in Nat /\ y \in Nat
  BY <1>1, <1>2, <1>9
<1>11. inCluster * Bps + RunSectors * Bps <= m * ClusterBytes
  <2>1. inCluster + RunSectors <= m * call.spc
    BY <1>1, <1>2, <1>3, <1>5, <1>8
  <2>2. m * call.spc \in Nat /\ inCluster + RunSectors \in Nat
    BY <1>1, <1>2, <1>3, <1>8
  <2> HIDE DEF m
  <2>3. (inCluster + RunSectors) * Bps <= (m * call.spc) * Bps
    BY <1>1, <2>1, <2>2
  <2>4. (inCluster + RunSectors) * Bps = inCluster * Bps + RunSectors * Bps
    BY <1>1, <1>2, <1>3
  <2> QED BY <1>8, <2>3, <2>4
<1>12. y < m * ClusterBytes
  <2> DEFINE a == inCluster * Bps
             b == RunSectors * Bps
             c == m * ClusterBytes
  <2>1. a \in Nat /\ b \in Nat /\ c \in Nat /\ a + b <= c /\ inSector + RunBytes <= b /\ y = a + inSector + i - 1
    BY <1>1, <1>2, <1>3, <1>8, <1>10, <1>11
  <2> HIDE DEF a, b, c, y
  <2>2. y < c
    BY <1>2, <1>3, <1>9, <2>1
  <2> QED BY <2>2 DEF c
<1> HIDE DEF y, m
<1>13. q \in Nat /\ e \in 0 .. ClusterBytes - 1 /\ y = q * ClusterBytes + e
  BY <1>1, <1>10, DivMod
<1> HIDE DEF q, e
<1>14. q < m
  <2>1. q * ClusterBytes < m * ClusterBytes
    <3>1. q * ClusterBytes \in Nat /\ m * ClusterBytes \in Nat
      BY <1>1, <1>8, <1>13
    <3> QED BY <1>1, <1>12, <1>13, <3>1
  <2> QED BY <1>1, <1>8, <1>13, <2>1
<1>15. Chain[hops + q] = hare + q
  BY <1>2, <1>5, <1>13, <1>14 DEF m
<1> DEFINE x == call.offset + call.length - remaining + i - 1
<1>16. x = (hops + q) * ClusterBytes + e
  <2> DEFINE a == hops * ClusterBytes
             b == q * ClusterBytes
             c == inCluster * Bps
  <2>1. a \in Nat /\ b \in Nat /\ c \in Nat /\ (hops + q) * ClusterBytes = a + b
    BY <1>1, <1>2, <1>10, <1>13
  <2>2. y = b + e /\ e \in Nat /\ y = c + inSector + i - 1 /\ call.offset + call.length - remaining = a + c + inSector
    BY <1>7, <1>13, <1>1 DEF y
  <2> HIDE DEF a, b, c
  <2>3. x = a + b + e
    BY <1>1, <1>2, <1>9, <2>1, <2>2
  <2> QED BY <2>1, <2>3
<1>17. x \div ClusterBytes = hops + q /\ x % ClusterBytes = e
  <2> HIDE DEF x
  <2>1. hops + q \in Nat
    BY <1>2, <1>13
  <2> QED BY <1>1, <1>13, <1>16, <2>1, DivOf
<1>18. FileByte(x) = (hare + q - 2) * ClusterBytes + e
  <2> HIDE DEF x
  <2>1. FileByte(x) = (Chain[x \div ClusterBytes] - 2) * ClusterBytes + (x % ClusterBytes)
    BY DEF FileByte
  <2>2. (hare + q) - 2 = hare + q - 2
    BY <1>2, <1>13
  <2> QED BY <1>15, <1>17, <2>1, <2>2, Zenon
<1>19. RunAt = (hare - 2) * ClusterBytes + inCluster * Bps
  BY <1>1, <1>2 DEF RunAt
<1>20. (hare + q - 2) * ClusterBytes = (hare - 2) * ClusterBytes + q * ClusterBytes
  <2>1. hare - 2 \in Int /\ q \in Int /\ ClusterBytes \in Int /\ hare + q - 2 = (hare - 2) + q
    BY <1>1, <1>2, <1>13
  <2> QED BY <2>1, Distributes
<1>21. (hare + q - 2) * ClusterBytes + e = RunAt + inSector + i - 1
  <2> DEFINE a == (hare - 2) * ClusterBytes
             b == q * ClusterBytes
             c == inCluster * Bps
  <2>1. a \in Int /\ b \in Int /\ c \in Int
    BY <1>1, <1>2, <1>10, <1>13
  <2>2. b + e = c + inSector + i - 1 /\ e \in Int
    BY <1>1, <1>13 DEF y
  <2>3. (hare + q - 2) * ClusterBytes = a + b /\ RunAt = a + c
    BY <1>19, <1>20
  <2> HIDE DEF a, b, c
  <2> QED BY <1>2, <1>9, <2>1, <2>2, <2>3
<1> QED BY <1>18, <1>21

-----------------------------------------------------------------------------
(* A step that delivers nothing keeps what is said of the bytes delivered. *)
LEMMA DeliversSame ==
    ASSUME DeliversFile, call' = call, dst' = dst, since' = since, lied => lied', pc' # "done"
    PROVE  DeliversFile'
<1>1. \A i : FileByte(i)' = FileByte(i)
  BY CallSame
<1>2. ~lied' => \A i \in since + 1 .. Len(dst) : dst[i] = FileByte(call.offset + i - 1)
  BY DEF DeliversFile
<1> QED BY <1>1, <1>2 DEF DeliversFile

(* A step that leaves the slots alone keeps what is said of them, *)
LEMMA CacheSame ==
    ASSUME CacheInv, call' = call, slot' = slot, slot2' = slot2, lied' = lied, faults' = faults
    PROVE  CacheInv'
  BY DEF CacheInv, Wrong

(* and in fat_read_range, where faults are not counted, it is enough that  *)
(* they are right unless a wrong sector was delivered.                     *)
LEMMA ReadCaches ==
    ASSUME call' = call, call.op = "read", ~lied' => ~Wrong(slot') /\ ~Wrong(slot2')
    PROVE  CacheInv'
  BY DEF CacheInv, Wrong

(* A step that ends the call, or the attempt, leaves only the types, the   *)
(* caches and the two properties to show.                                  *)
LEMMA Stops ==
    ASSUME FatTypeOK', CacheInv', DeliversFile', RefusalExplained', call' = call,
           pc' \in {"call", "done", "failed", "dead"},
           call.op = "read" => Len(dst') <= call.length /\ (pc' = "done" => Len(dst') = call.length)
    PROVE  FatInv'
<1>1. pc' \notin Walking /\ pc' \notin Reading /\ pc' \notin Hopping /\ pc' # "hop"
  BY DEF Walking, Reading, Hopping
<1>2. WalkInv'
  BY <1>1 DEF WalkInv
<1>3. PlaceInv'
  BY <1>1 DEF PlaceInv
<1>4. RunInv'
  BY <1>1 DEF RunInv
<1>5. SearchInv'
  BY <1>1 DEF SearchInv
<1> QED BY <1>2, <1>3, <1>4, <1>5 DEF FatInv

(* The top of fat_read_range keeps the invariant: the offset is split into *)
(* clusters to skip, a sector and a byte.                                  *)
LEMMA ReadCallStep == ASSUME FatInv, ReadCall PROVE FatInv'
<1> DEFINE off == call.offset + Len(dst)
           len == call.length - Len(dst)
<1>1. FatTypeOK /\ CacheInv /\ PlaceInv /\ DeliversFile
  BY DEF FatInv
<1>2. /\ call' = call /\ call.op = "read" /\ pc = "call" /\ run' = run /\ probe' = probe /\ slot' = slot
      /\ slot2' = slot2 /\ dst' = dst /\ faults' = faults /\ lied' = lied /\ since' = since
  BY DEF ReadCall, caches, history
<1>3. /\ call.offset \in Nat /\ call.length \in Nat /\ call.spc \in Nat \ {0} /\ Bps \in Nat \ {0}
      /\ ClusterBytes = call.spc * Bps /\ Len(dst) \in Nat /\ Len(dst) <= call.length
  BY <1>1, <1>2, CallTyped, VolumeAssumption DEF ClusterBytes, FatTypeOK, PlaceInv
<1>4. off \in Nat /\ len \in Nat
  BY <1>3
<1>5. CacheInv'
  BY <1>1, <1>2, CacheSame
<1>6. \/ pc' = "failed" /\ err' \in {"RANGE", "START_CLUSTER"} /\ UNCHANGED <<walk, todo, place>>
      \/ pc' = "done" /\ len = 0 /\ UNCHANGED <<walk, todo, place>>
      \/ /\ pc' = "hop" /\ len # 0 /\ InRange(call.first)
         /\ WalkFrom(call.first)
         /\ todo' = off \div ClusterBytes
         /\ inCluster' = (off % ClusterBytes) \div Bps
         /\ inSector' = off % Bps
         /\ remaining' = len
  BY DEF ReadCall, Fail, Done
<1>7. CASE pc' \in {"failed", "done"} /\ (pc' = "failed" => err' \in {"RANGE", "START_CLUSTER"})
           /\ (pc' = "done" => len = 0) /\ UNCHANGED <<walk, todo, place>>
  <2>1. FatTypeOK'
    BY <1>1, <1>2, <1>7 DEF FatTypeOK, walk, place
  <2>2. pc' = "done" => Len(dst') = call.length
    BY <1>2, <1>3, <1>7
  <2>3. DeliversFile'
    <3>1. \A i : FileByte(i)' = FileByte(i)
      BY <1>2, CallSame
    <3> QED BY <1>1, <1>2, <2>2, <3>1 DEF DeliversFile
  <2>4. RefusalExplained'
    BY <1>2, <1>7 DEF RefusalExplained
  <2> QED BY <1>2, <1>3, <1>5, <1>7, <2>1, <2>2, <2>3, <2>4, Stops
<1>8. CASE /\ pc' = "hop" /\ len # 0 /\ InRange(call.first)
           /\ WalkFrom(call.first)
           /\ todo' = off \div ClusterBytes
           /\ inCluster' = (off % ClusterBytes) \div Bps
           /\ inSector' = off % Bps
           /\ remaining' = len
  <2>1. /\ todo' \in Nat /\ inCluster' \in 0 .. call.spc - 1 /\ inSector' \in 0 .. Bps - 1
        /\ off = todo' * ClusterBytes + inCluster' * Bps + inSector'
    <3> HIDE DEF off, len
    <3> DEFINE c == call.spc * Bps
    <3>1. /\ off \div c \in Nat /\ (off % c) \div Bps \in 0 .. call.spc - 1 /\ off % Bps \in 0 .. Bps - 1
          /\ off = (off \div c) * c + ((off % c) \div Bps) * Bps + (off % Bps)
      BY <1>3, <1>4, PlaceOf
    <3>2. ClusterBytes = c
      BY <1>3
    <3> HIDE DEF c
    <3> QED BY <1>8, <3>1, <3>2, Zenon
  <2>2. hare' = call.first /\ tortoise' = call.first /\ hops' = 0 /\ due' = TRUE
    BY <1>8 DEF WalkFrom
  <2>3. call.first \in Clusters
    <3>1. call.first \in Entries
      BY <1>1, CallTyped DEF CallTypes
    <3> QED BY <1>8, <3>1, VolumeAssumption DEF InRange, Clusters, Entries, End
  <2>4. pc' \in Walking /\ pc' \notin Reading /\ pc' \notin Hopping
    BY <1>8 DEF Walking, Reading, Hopping
  <2>5. FatTypeOK'
    BY <1>1, <1>2, <1>4, <1>8, <2>1, <2>2, <2>3, <2>4 DEF FatTypeOK
  <2>6. WalkInv'
    <3>1. Behind' = 0
      BY <1>8, <2>2 DEF Behind
    <3>2. Chain' = Chain /\ Chain[0] = call.first
      BY <1>2, CallSame, ChainStep
    <3>3. 0 % 2 = 0 /\ 0 <= N + 1
      BY VolumeAssumption
    <3> QED BY <1>8, <2>2, <2>4, <3>1, <3>2, <3>3 DEF WalkInv
  <2>7. PlaceInv'
    <3>1. Aim' = todo' /\ ClusterBytes' = ClusterBytes
      <4>1. todo' \in Nat
        BY <2>1
      <4>2. ClusterBytes' = ClusterBytes
        BY <1>2, CallSame
      <4>3. Aim' = todo'
        BY <1>8, <2>2, <4>1 DEF Aim, Hopping
      <4> QED BY <4>2, <4>3
    <3>2. remaining' = len /\ remaining' > 0
      BY <1>4, <1>8
    <3>3. call.length - remaining' = Len(dst) /\ call.offset + call.length - remaining' = off
      BY <1>3, <3>2
    <3>4. call.offset + call.length - remaining' = Aim' * ClusterBytes' + inCluster' * Bps + inSector'
      BY <2>1, <3>1, <3>3, Zenon
    <3>5. Len(dst) <= call.length /\ Len(dst) = call.length - remaining' + 0
      BY <1>3, <3>3
    <3> QED BY <1>2, <1>8, <3>2, <3>4, <3>5 DEF PlaceInv
  <2>8. RunInv'
    BY <2>4 DEF RunInv
  <2>9. SearchInv'
    BY <1>2 DEF SearchInv
  <2>10. DeliversFile'
    BY <1>1, <1>2, <1>8, DeliversSame
  <2>11. RefusalExplained'
    BY <1>8 DEF RefusalExplained
  <2> QED BY <1>5, <2>5, <2>6, <2>7, <2>8, <2>9, <2>10, <2>11 DEF FatInv
<1> QED BY <1>6, <1>7, <1>8

(* The top of fat_open keeps it. *)
LEMMA OpenCallStep == ASSUME FatInv, OpenCall PROVE FatInv'
<1>1. FatTypeOK /\ CacheInv /\ DeliversFile
  BY DEF FatInv
<1>2. /\ call' = call /\ call.op = "open" /\ pc = "call" /\ run' = run /\ probe' = probe /\ slot' = slot
      /\ slot2' = slot2 /\ dst' = dst /\ faults' = faults /\ lied' = lied /\ since' = since
      /\ todo' = todo /\ remaining' = remaining /\ inCluster' = inCluster /\ inSector' = inSector
  BY DEF OpenCall, caches, history, place
<1>3. CacheInv'
  BY <1>1, <1>2, CacheSame
<1>4. Chain' = Chain /\ Chain[0] = call.first /\ InDirectory' = InDirectory
  BY <1>2, CallSame, ChainStep
<1>5. call.first \in Entries
  BY <1>1, CallTyped DEF CallTypes
<1>6. CASE ~InRange(call.first)
  <2>1. pc' = "failed" /\ hare' = hare /\ tortoise' = tortoise /\ hops' = hops /\ due' = due
    BY <1>6 DEF OpenCall, walk
  <2>2. FatTypeOK'
    BY <1>1, <1>2, <2>1 DEF FatTypeOK
  <2>3. DeliversFile'
    BY <1>1, <1>2, <2>1, DeliversSame
  <2>4. Chain[0] \notin Clusters
    BY <1>4, <1>6, VolumeAssumption DEF InRange, Clusters
  <2>5. \A j \in 0 .. N + 1 : Chain[j] \notin Clusters
    <3>1. \A j \in 0 .. N + 1 : j \in 0 .. 2 * N + 4 /\ 0 \in 0 .. j
      BY VolumeAssumption
    <3> QED BY <2>4, <3>1, ChainGoesOn
  <2>6. ~InDirectory
    BY <2>5, NoneSettles
  <2>7. RefusalExplained'
    BY <1>2, <1>4, <2>6 DEF RefusalExplained
  <2> QED BY <1>2, <1>3, <2>1, <2>2, <2>3, <2>7, Stops
<1>7. CASE InRange(call.first)
  <2>1. pc' = "scan" /\ hare' = call.first /\ tortoise' = call.first /\ hops' = 0 /\ due' = TRUE
    BY <1>7 DEF OpenCall, WalkFrom, Goto
  <2>2. call.first \in Clusters
    BY <1>5, <1>7, VolumeAssumption DEF InRange, Clusters, Entries, End
  <2>3. pc' \in Walking /\ pc' \notin Reading /\ pc' \notin Hopping /\ pc' # "hop"
    BY <2>1 DEF Walking, Reading, Hopping
  <2>4. FatTypeOK'
    BY <1>1, <1>2, <2>1, <2>2, <2>3 DEF FatTypeOK
  <2>5. WalkInv'
    <3>1. Behind' = 0
      BY <2>1 DEF Behind
    <3>2. 0 % 2 = 0 /\ 0 <= N + 1
      BY VolumeAssumption
    <3> QED BY <1>2, <1>4, <2>1, <2>3, <3>1, <3>2 DEF WalkInv
  <2>6. PlaceInv'
    BY <1>2 DEF PlaceInv
  <2>7. RunInv'
    BY <2>3 DEF RunInv
  <2>8. SearchInv'
    BY <2>1, <2>3 DEF SearchInv
  <2>9. DeliversFile'
    BY <1>1, <1>2, <2>1, DeliversSame
  <2>10. RefusalExplained'
    BY <2>1 DEF RefusalExplained
  <2> QED BY <1>3, <2>4, <2>5, <2>6, <2>7, <2>8, <2>9, <2>10 DEF FatInv
<1> QED BY <1>6, <1>7

(* A cluster of fat_find_in_dir: the first one that settles the search     *)
(* ends it with the right answer.                                          *)
LEMMA ScanStep == ASSUME FatInv, Scan PROVE FatInv'
<1>1. FatTypeOK /\ CacheInv /\ WalkInv /\ SearchInv /\ DeliversFile
  BY DEF FatInv
<1>2. /\ call' = call /\ pc = "scan" /\ run' = run /\ probe' = probe /\ slot' = slot
      /\ slot2' = slot2 /\ dst' = dst /\ lied' = lied /\ since' = since
      /\ hare' = hare /\ tortoise' = tortoise /\ hops' = hops /\ due' = due
      /\ remaining' = remaining /\ inCluster' = inCluster /\ inSector' = inSector
  BY DEF Scan, caches, walk, place
<1>3. \/ call.mark[hare] = "more" /\ pc' = "hop" /\ todo' = 1 /\ faults' = faults
      \/ call.mark[hare] = "match" /\ pc' = "done" /\ todo' = todo /\ faults' = faults
      \/ call.mark[hare] \notin {"more", "match"} /\ pc' = "failed" /\ todo' = todo /\ faults' = faults
      \/ pc' = "failed" /\ todo' = todo /\ faults' = faults + 1
  BY DEF Scan, Goto, Matches
<1>4. pc \in Walking
  BY <1>2 DEF Walking
<1>5. call.op = "open" /\ hops \in Nat /\ faults \in Nat
  BY <1>1, <1>2, <1>4 DEF WalkInv, FatTypeOK, CacheInv
<1>6. CacheInv'
  BY <1>1, <1>2, <1>3, <1>5 DEF CacheInv, Wrong
<1>7. Chain' = Chain /\ InDirectory' = InDirectory
  BY <1>2, CallSame
<1>8. ASSUME ~lied
      PROVE  /\ hops \in 0 .. N + 1 /\ hare = Chain[hops] /\ Chain[hops] \in Clusters
             /\ \A j \in 0 .. hops - 1 : call.mark[Chain[j]] = "more"
  <2>1. hops \in 0 .. N + 1 /\ hare = Chain[hops] /\ \A j \in 0 .. hops : Chain[j] \in Clusters
    BY <1>1, <1>4, <1>8, HareOnChain
  <2>2. \A j \in 0 .. hops - 1 : call.mark[Chain[j]] = "more"
    BY <1>1, <1>4, <1>5, <1>8 DEF SearchInv
  <2> QED BY <1>5, <2>1, <2>2
<1>9. CASE call.mark[hare] = "more" /\ pc' = "hop" /\ todo' = 1 /\ faults' = faults
  <2>1. pc' \in Walking /\ pc' \notin Reading /\ pc' \notin Hopping
    BY <1>9 DEF Walking, Reading, Hopping
  <2>2. FatTypeOK'
    BY <1>1, <1>2, <1>9, <2>1 DEF FatTypeOK
  <2>3. WalkInv'
    <3>1. Behind' = Behind
      BY <1>2, <1>9 DEF Behind
    <3> QED BY <1>1, <1>2, <1>4, <1>7, <1>9, <2>1, <3>1 DEF WalkInv
  <2>4. PlaceInv'
    BY <1>2, <1>5 DEF PlaceInv
  <2>5. RunInv'
    BY <2>1 DEF RunInv
  <2>6. SearchInv'
    <3>1. ASSUME ~lied, NEW j \in 0 .. hops PROVE call.mark[Chain[j]] = "more"
      BY <1>5, <1>8, <1>9, <3>1
    <3> QED BY <1>2, <1>7, <1>9, <3>1 DEF SearchInv
  <2>7. DeliversFile'
    BY <1>1, <1>2, <1>9, DeliversSame
  <2>8. RefusalExplained'
    BY <1>9 DEF RefusalExplained
  <2> QED BY <1>6, <2>2, <2>3, <2>4, <2>5, <2>6, <2>7, <2>8 DEF FatInv
<1>10. CASE pc' \in {"done", "failed"} /\ todo' = todo /\ faults' \in {faults, faults + 1}
            /\ (pc' = "done" => call.mark[hare] = "match")
            /\ (pc' = "failed" /\ faults' = faults => call.mark[hare] \notin {"more", "match"})
  <2>1. FatTypeOK'
    BY <1>1, <1>2, <1>5, <1>10 DEF FatTypeOK
  <2>2. pc' = "done" => lied \/ InDirectory
    BY <1>8, <1>10, FirstSettles
  <2>3. pc' = "failed" /\ faults' = 0 => ~InDirectory
    <3>1. ASSUME pc' = "failed", faults' = 0 PROVE ~InDirectory
      <4>1. faults' = faults
        BY <1>5, <1>10, <3>1
      <4>2. ~lied
        BY <1>1, <1>5, <3>1, <4>1 DEF CacheInv
      <4> QED BY <1>8, <1>10, <3>1, <4>1, <4>2, FirstSettles
    <3> QED BY <3>1
  <2>4. DeliversFile'
    <3>1. \A i : FileByte(i)' = FileByte(i)
      BY <1>2, CallSame
    <3> QED BY <1>1, <1>2, <1>5, <1>7, <2>2, <3>1 DEF DeliversFile
  <2>5. RefusalExplained'
    BY <1>2, <1>5, <1>7, <2>3 DEF RefusalExplained
  <2> QED BY <1>2, <1>5, <1>6, <1>10, <2>1, <2>4, <2>5, Stops
<1> QED BY <1>3, <1>5, <1>9, <1>10

(* While fat_read_range hops, the cluster after the hop is within the      *)
(* range.                                                                  *)
LEMMA OnTheWay ==
    ASSUME FatInv, call.op = "read", pc \in {"hop", "tortoise"}, todo > 0
    PROVE  Aim \in Nat /\ Aim <= Links /\ Links \in Nat /\ (pc = "hop" => hops + 1 <= Aim) /\ hops <= Aim
<1>1. FatTypeOK /\ PlaceInv /\ pc \in Walking /\ (pc = "hop" => pc \notin Hopping) /\ (pc = "tortoise" => pc \in Hopping)
  BY DEF FatInv, Walking, Hopping, Reading
<1>2. hops \in Nat /\ todo \in Nat /\ remaining > 0
  BY <1>1 DEF FatTypeOK, PlaceInv
<1>3. Aim \in Nat /\ (pc = "hop" => hops + 1 <= Aim) /\ hops <= Aim
  BY <1>1, <1>2 DEF Aim
<1> QED BY <1>1, <1>2, <1>3, AimInRange

(* What makes a chain unsound: too many links, an end inside it, or a      *)
(* cluster met twice.                                                      *)
LEMMA Unsound == ASSUME NEW n \in Nat
                 PROVE  /\ n > N => ~Sound(n)
                        /\ \A k \in 0 .. n : Chain[k] \notin Clusters => ~Sound(n)
                        /\ \A j, k \in 0 .. n : j < k /\ Chain[j] = Chain[k] => ~Sound(n)
  BY VolumeAssumption DEF Sound, Distinct

(* CHAIN_LONG is given only for a range longer than the volume, or after   *)
(* every cluster the directory could have,                                 *)
LEMMA LongRefused ==
    ASSUME FatInv, pc = "hop", todo > 0, hops > N
    PROVE  (call.op = "read" => ~Sound(Links)) /\ (call.op = "open" /\ ~lied => ~InDirectory)
<1>1. pc \in Walking /\ hops \in Nat /\ SearchInv
  BY DEF FatInv, FatTypeOK, Walking
<1>2. ASSUME call.op = "read" PROVE ~Sound(Links)
  <2>1. Aim \in Nat /\ Aim <= Links /\ Links \in Nat /\ hops + 1 <= Aim
    BY <1>2, OnTheWay
  <2>2. Links > N
    BY <1>1, <2>1, VolumeAssumption
  <2> QED BY <2>1, <2>2, Unsound
<1>3. ASSUME call.op = "open", ~lied PROVE ~InDirectory
  <2>1. \A j \in 0 .. hops : call.mark[Chain[j]] = "more"
    BY <1>1, <1>3 DEF SearchInv
  <2>2. \A j \in 0 .. N + 1 : j \in 0 .. hops
    BY <1>1, VolumeAssumption
  <2> QED BY <2>1, <2>2, NoneSettles
<1> QED BY <1>2, <1>3

(* CHAIN_END only for a chain that ends before the range or the directory  *)
(* does,                                                                   *)
LEMMA EndRefused ==
    ASSUME FatInv, pc = "hop", todo > 0, hops <= N, ~lied, call.fat[hare] \notin Clusters
    PROVE  (call.op = "read" => ~Sound(Links)) /\ (call.op = "open" => ~InDirectory)
<1>1. pc \in Walking /\ hops \in Nat /\ SearchInv /\ FatTypeOK /\ WalkInv /\ hare \in Clusters
  BY DEF FatInv, FatTypeOK, Walking
<1>2. hare = Chain[hops]
  BY <1>1, HareOnChain
<1>3. hops \in 0 .. 2 * N + 3
  BY <1>1, VolumeAssumption
<1>4. Chain[hops + 1] \notin Clusters
  BY <1>1, <1>2, <1>3, ChainStep DEF NextOf
<1>5. ASSUME call.op = "read" PROVE ~Sound(Links)
  <2>1. Aim \in Nat /\ Aim <= Links /\ Links \in Nat /\ hops + 1 <= Aim
    BY <1>5, OnTheWay
  <2>2. hops + 1 \in 0 .. Links
    BY <1>1, <2>1
  <2> QED BY <1>4, <2>1, <2>2, Unsound
<1>6. ASSUME call.op = "open" PROVE ~InDirectory
  <2>1. \A j \in 0 .. hops : call.mark[Chain[j]] = "more"
    BY <1>1, <1>6 DEF SearchInv
  <2>2. hops \in 0 .. N
    BY <1>1, VolumeAssumption
  <2> QED BY <1>4, <2>1, <2>2, EndSettlesNone
<1> QED BY <1>5, <1>6

(* and CHAIN_CYCLE only for one that comes back: the second pointer, half  *)
(* as far along, is on the cluster of the first.                           *)
LEMMA CycleRefused ==
    ASSUME FatInv, pc = "tortoise", ~lied
    PROVE  /\ call.fat[tortoise] = Chain[hops \div 2] /\ call.fat[tortoise] \in Clusters
           /\ call.fat[tortoise] = hare =>
                (call.op = "read" => ~Sound(Links)) /\ (call.op = "open" => ~InDirectory)
<1>1. pc \in Walking /\ pc \in Hopping /\ SearchInv /\ FatTypeOK /\ WalkInv
  BY DEF FatInv, Walking, Hopping
<1>2. hops \in Nat /\ tortoise \in Clusters /\ hops > 0 /\ hops <= N + 1 /\ hops % 2 = 0 /\ tortoise = Chain[Behind] /\ todo > 0
  BY <1>1 DEF FatTypeOK, WalkInv
<1> DEFINE h == hops \div 2
<1>3. h \in Nat \ {0} /\ hops = 2 * h /\ Behind = h - 1
  BY <1>2 DEF Behind
<1> HIDE DEF h
<1>4. h - 1 \in 0 .. 2 * N + 3 /\ (h - 1) + 1 = h /\ h \in 0 .. hops - 1
  BY <1>2, <1>3, VolumeAssumption
<1>5. Chain[h] = NextOf(call.fat, Chain[h - 1])
  BY <1>4, ChainStep
<1>6. call.fat[tortoise] = Chain[h]
  BY <1>2, <1>3, <1>5 DEF NextOf
<1>7. hops \in 0 .. N + 1 /\ hare = Chain[hops] /\ \A j \in 0 .. hops : Chain[j] \in Clusters
  BY <1>1, HareOnChain
<1>8. Chain[h] \in Clusters
  BY <1>4, <1>7
<1>9. ASSUME Chain[h] = hare, call.op = "read" PROVE ~Sound(Links)
  <2>1. Aim \in Nat /\ Aim <= Links /\ Links \in Nat /\ hops <= Aim
    BY <1>2, <1>9, OnTheWay
  <2>2. h \in 0 .. Links /\ hops \in 0 .. Links /\ h < hops
    BY <1>2, <1>3, <2>1
  <2> QED BY <1>7, <1>9, <2>1, <2>2, Unsound
<1>10. ASSUME Chain[h] = hare, call.op = "open" PROVE ~InDirectory
  <2>1. \A j \in 0 .. hops - 1 : call.mark[Chain[j]] = "more"
    BY <1>1, <1>2, <1>10 DEF SearchInv
  <2> QED BY <1>4, <1>7, <1>10, <2>1, CycleSettlesNone
<1> QED BY <1>6, <1>8, <1>9, <1>10 DEF h

(* A lookup that is no lie leaves what was true of the caches true. *)
(* After a lookup the slot it filled and the entry it gave are right,      *)
(* unless a wrong sector was delivered.                                    *)
LEMMA TookStep ==
    ASSUME FatTypeOK, CacheInv, NEW c \in Clusters, NEW s \in {slot, slot2}, NEW r \in Lookup(s, c), Took(r)
    PROVE  /\ r.slot \in SlotStates /\ r.entry \in Entries \cup {0}
           /\ lied' \in BOOLEAN /\ since' = since /\ (lied => lied')
           /\ ~lied' => ~Wrong(r.slot) /\ (r.entry # 0 => r.entry = call.fat[c])
           /\ call.op = "open" => faults' \in Nat /\ (lied' => faults' > 0) /\ (faults' = 0 => r.entry # 0)
<1>1. call \in CallTypes /\ s \in SlotStates /\ lied \in BOOLEAN
  BY CallTyped DEF FatTypeOK
<1>2. /\ r.slot \in SlotStates /\ r.entry \in Entries \cup {0} /\ r.fault \in {0, 1}
      /\ r.entry = 0 => r.fault = 1
      /\ ~Wrong(s) /\ ~Lies(r) => ~Wrong(r.slot) /\ (r.entry # 0 => r.entry = call.fat[c])
  BY <1>1, LookupType
<1>3. faults' = faults + r.fault /\ (lied' <=> lied \/ Lies(r)) /\ lied' \in BOOLEAN /\ since' = since
  BY <1>1 DEF Took, Lies
<1>4. ~lied => ~Wrong(s)
  BY DEF CacheInv
<1>5. ~lied' => ~Wrong(r.slot) /\ (r.entry # 0 => r.entry = call.fat[c])
  <2>1. ~lied' => ~Wrong(s) /\ ~Lies(r)
    BY <1>3, <1>4
  <2> QED BY <1>2, <2>1, Zenon
<1>6. ASSUME call.op = "open"
      PROVE  faults' \in Nat /\ (lied' => faults' > 0) /\ (faults' = 0 => r.entry # 0)
  <2>1. faults \in Nat /\ (lied => faults > 0)
    BY <1>6 DEF CacheInv
  <2>2. Lies(r) => r.fault = 1
    BY DEF Lies
  <2> QED BY <1>2, <1>3, <2>1, <2>2
<1>7. lied' \in BOOLEAN /\ since' = since /\ (lied => lied') /\ r.slot \in SlotStates /\ r.entry \in Entries \cup {0}
  BY <1>2, <1>3
<1> QED BY <1>5, <1>6, <1>7

(* The second pointer's turn comes with every second hop, and half the     *)
(* hops is what it has made then.                                          *)
LEMMA Parity == ASSUME NEW n \in Nat
                PROVE  /\ n % 2 = 0 => (n + 1) % 2 # 0 /\ (n + 1) \div 2 = n \div 2
                       /\ n % 2 # 0 => (n + 1) % 2 = 0 /\ ((n + 1) \div 2) - 1 = n \div 2
  OBVIOUS

(* A hop of the first pointer keeps the invariant, *)
LEMMA HopStep == ASSUME FatInv, Hop PROVE FatInv'
<1>1. FatTypeOK /\ CacheInv /\ WalkInv /\ PlaceInv /\ SearchInv /\ DeliversFile
  BY DEF FatInv
<1>2. /\ call' = call /\ pc = "hop" /\ todo > 0 /\ hops' = hops + 1 /\ tortoise' = tortoise /\ todo' = todo
      /\ run' = run /\ probe' = probe /\ slot2' = slot2 /\ dst' = dst
      /\ remaining' = remaining /\ inCluster' = inCluster /\ inSector' = inSector
  BY DEF Hop, place
<1>3. /\ hops \in Nat /\ todo \in Nat /\ hare \in Clusters /\ due \in BOOLEAN
      /\ pc \in Walking /\ pc \notin Hopping /\ pc \notin Reading
  BY <1>1, <1>2 DEF FatTypeOK, Walking, Hopping, Reading
<1>4. Chain' = Chain /\ ClusterBytes' = ClusterBytes /\ InDirectory' = InDirectory /\ Sound(Links)' = Sound(Links)
  BY <1>2, CallSame
<1>5. call.op = "read" => Len(dst') <= call.length
  BY <1>1, <1>2 DEF PlaceInv
<1>6. CASE hops > N
  <2>1. /\ pc' = "failed" /\ err' = "CHAIN_LONG" /\ hare' = hare /\ due' = due /\ slot' = slot
        /\ faults' = faults /\ lied' = lied /\ since' = since
    BY <1>6 DEF Hop, Fail
  <2>2. FatTypeOK'
    BY <1>1, <1>2, <1>3, <2>1 DEF FatTypeOK
  <2>3. CacheInv'
    BY <1>1, <1>2, <2>1, CacheSame
  <2>4. DeliversFile'
    BY <1>1, <1>2, <2>1, DeliversSame
  <2>5. call.op = "open" /\ faults = 0 => ~lied
    BY <1>1 DEF CacheInv
  <2>6. RefusalExplained'
    BY <1>2, <1>4, <1>6, <2>1, <2>5, LongRefused DEF RefusalExplained
  <2> QED BY <1>2, <1>5, <2>1, <2>2, <2>3, <2>4, <2>6, Stops
<1>7. CASE ~(hops > N)
  <2>1. PICK r \in Lookup(slot, hare) :
          /\ slot' = r.slot /\ Took(r)
          /\ \/ r.entry = 0 /\ pc' = "failed" /\ err' = "FAT_READ" /\ hare' = hare /\ due' = due
             \/ r.entry # 0 /\ ~InRange(r.entry) /\ pc' = "failed" /\ err' = "CHAIN_END" /\ hare' = hare /\ due' = due
             \/ /\ r.entry # 0 /\ InRange(r.entry) /\ hare' = r.entry /\ due' = ~due
                /\ pc' = IF due' THEN "tortoise" ELSE "hopped"
    BY <1>7 DEF Hop, Fail, Goto
  <2>2. /\ r.slot \in SlotStates /\ r.entry \in Entries \cup {0}
        /\ lied' \in BOOLEAN /\ since' = since /\ (lied => lied')
        /\ ~lied' => ~Wrong(r.slot) /\ (r.entry # 0 => r.entry = call.fat[hare])
        /\ call.op = "open" => faults' \in Nat /\ (lied' => faults' > 0) /\ (faults' = 0 => r.entry # 0)
    BY <1>1, <1>3, <2>1, TookStep
  <2>3. InRange(r.entry) <=> r.entry \in Clusters
    BY <2>2, VolumeAssumption DEF InRange, Entries, Clusters, End
  <2>4. CacheInv'
    BY <1>1, <1>2, <2>1, <2>2 DEF CacheInv, Wrong
  <2>5. CASE pc' = "failed" /\ hare' = hare /\ due' = due /\ (r.entry = 0 => err' = "FAT_READ") /\ ~InRange(r.entry)
    <3>1. FatTypeOK'
      BY <1>1, <1>2, <1>3, <2>1, <2>2, <2>5 DEF FatTypeOK
    <3>2. DeliversFile'
      <4>1. DeliversFile /\ call' = call /\ dst' = dst /\ pc' # "done"
        BY <1>1, <1>2, <2>5
      <4>2. since' = since /\ (lied => lied')
        BY <2>2
      <4> QED BY <4>1, <4>2, DeliversSame
    <3>3. ASSUME ~lied', r.entry # 0
          PROVE  (call.op = "read" => ~Sound(Links)) /\ (call.op = "open" => ~InDirectory)
      <4>1. ~lied /\ call.fat[hare] \notin Clusters
        BY <2>2, <2>3, <2>5, <3>3
      <4>2. hops <= N
        BY <1>3, <1>7, VolumeAssumption
      <4> QED BY <1>2, <4>1, <4>2, EndRefused
    <3>4. call.op = "open" /\ faults' = 0 => ~lied' /\ r.entry # 0
      BY <2>2
    <3>5. RefusalExplained'
      BY <1>2, <1>4, <2>5, <3>3, <3>4 DEF RefusalExplained
    <3> QED BY <1>2, <1>5, <2>4, <2>5, <3>1, <3>2, <3>5, Stops
  <2>6. CASE r.entry \in Clusters /\ r.entry # 0 /\ hare' = r.entry /\ due' = ~due /\ pc' = IF due' THEN "tortoise" ELSE "hopped"
    <3>1. pc' \in Hopping /\ pc' \in Walking /\ pc' \notin Reading /\ (pc' = "tortoise" <=> due') /\ pc' \notin {"scan", "hop", "done", "failed", "callback"}
      BY <2>6 DEF Hopping, Walking, Reading
    <3>2. FatTypeOK'
      BY <1>1, <1>2, <1>3, <2>1, <2>2, <2>6, <3>1 DEF FatTypeOK
    <3>3. hops <= N /\ (due <=> hops % 2 = 0) /\ (~lied => hare = Chain[hops] /\ tortoise = Chain[Behind]) /\ Behind = hops \div 2
      BY <1>1, <1>2, <1>3, <1>7, VolumeAssumption DEF WalkInv, Behind
    <3>4. (due' <=> hops' % 2 = 0) /\ Behind' = Behind
      BY <1>2, <1>3, <2>6, <3>1, <3>3, Parity DEF Behind
    <3>5. ~lied' => hare' = Chain[hops']
      <4>1. hops \in 0 .. 2 * N + 3
        BY <1>3, <3>3, VolumeAssumption
      <4>2. Chain[hops + 1] = NextOf(call.fat, Chain[hops])
        BY <4>1, ChainStep
      <4> QED BY <1>2, <1>3, <2>2, <2>6, <3>3, <4>2 DEF NextOf
    <3>6. WalkInv'
      <4>1. hops' <= N + 1 /\ hops' > 0
        BY <1>2, <1>3, <3>3, VolumeAssumption
      <4> QED BY <1>2, <1>4, <2>2, <3>1, <3>3, <3>4, <3>5, <4>1 DEF WalkInv
    <3>7. PlaceInv'
      <4>1. Aim' = Aim
        BY <1>2, <1>3, <3>1 DEF Aim
      <4> QED BY <1>1, <1>2, <1>3, <1>4, <3>1, <4>1 DEF PlaceInv
    <3>8. RunInv'
      BY <3>1 DEF RunInv
    <3>9. SearchInv'
      <4>1. call.op = "open" => todo <= 1
        BY <1>1, <1>2 DEF SearchInv
      <4>2. call.op = "open" /\ ~lied' => \A j \in 0 .. hops : call.mark[Chain[j]] = "more"
        BY <1>1, <1>2, <1>3, <2>2 DEF SearchInv
      <4>3. \A j \in 0 .. hops + 1 : j < hops + 1 => j \in 0 .. hops
        BY <1>3
      <4> QED BY <1>2, <1>4, <3>1, <4>1, <4>2, <4>3 DEF SearchInv
    <3>10. DeliversFile'
      BY <1>1, <1>2, <2>2, <3>1, DeliversSame
    <3>11. RefusalExplained'
      BY <3>1 DEF RefusalExplained
    <3> QED BY <2>4, <3>2, <3>6, <3>7, <3>8, <3>9, <3>10, <3>11 DEF FatInv
  <2>7. ~InRange(0)
    BY DEF InRange
  <2> QED BY <2>1, <2>3, <2>5, <2>6, <2>7
<1> QED BY <1>6, <1>7

(* and so does one of the second. *)
LEMMA TortoiseStep == ASSUME FatInv, Tortoise PROVE FatInv'
<1>1. FatTypeOK /\ CacheInv /\ WalkInv /\ PlaceInv /\ SearchInv /\ DeliversFile
  BY DEF FatInv
<1>2. /\ call' = call /\ pc = "tortoise" /\ hops' = hops /\ hare' = hare /\ due' = due /\ todo' = todo
      /\ run' = run /\ probe' = probe /\ slot' = slot /\ dst' = dst
      /\ remaining' = remaining /\ inCluster' = inCluster /\ inSector' = inSector
  BY DEF Tortoise, place
<1>3. hops \in Nat /\ tortoise \in Clusters /\ pc \in Walking /\ pc \in Hopping /\ pc \notin Reading
  BY <1>1, <1>2 DEF FatTypeOK, Walking, Hopping, Reading
<1>4. Chain' = Chain /\ ClusterBytes' = ClusterBytes /\ InDirectory' = InDirectory /\ Sound(Links)' = Sound(Links)
  BY <1>2, CallSame
<1>5. call.op = "read" => Len(dst') <= call.length
  BY <1>1, <1>2 DEF PlaceInv
<1>6. PICK r \in Lookup(slot2, tortoise) :
        /\ slot2' = r.slot /\ Took(r)
        /\ \/ r.entry = 0 /\ pc' = "failed" /\ err' = "FAT_READ" /\ tortoise' = tortoise
           \/ r.entry # 0 /\ ~InRange(r.entry) /\ pc' = "failed" /\ err' = "CHAIN_END" /\ tortoise' = tortoise
           \/ r.entry # 0 /\ InRange(r.entry) /\ tortoise' = r.entry /\ r.entry = hare /\ pc' = "failed"
           \/ r.entry # 0 /\ InRange(r.entry) /\ tortoise' = r.entry /\ r.entry # hare /\ pc' = "hopped"
  BY DEF Tortoise, Fail, Goto, Meet
<1>7. /\ r.slot \in SlotStates /\ r.entry \in Entries \cup {0}
      /\ lied' \in BOOLEAN /\ since' = since /\ (lied => lied')
      /\ ~lied' => ~Wrong(r.slot) /\ (r.entry # 0 => r.entry = call.fat[tortoise])
      /\ call.op = "open" => faults' \in Nat /\ (lied' => faults' > 0) /\ (faults' = 0 => r.entry # 0)
  BY <1>1, <1>3, <1>6, TookStep
<1>8. InRange(r.entry) <=> r.entry \in Clusters
  BY <1>7, VolumeAssumption DEF InRange, Entries, Clusters, End
<1>9. CacheInv'
  BY <1>1, <1>2, <1>6, <1>7 DEF CacheInv, Wrong
<1>10. ASSUME ~lied', r.entry # 0
       PROVE  /\ r.entry = Chain[hops \div 2] /\ r.entry \in Clusters
              /\ r.entry = hare => (call.op = "read" => ~Sound(Links)) /\ (call.op = "open" => ~InDirectory)
  BY <1>2, <1>7, <1>10, CycleRefused
<1>11. CASE pc' = "failed" /\ tortoise' \in Clusters /\ (r.entry = 0 => err' = "FAT_READ") /\ (~InRange(r.entry) \/ r.entry = hare)
  <2>1. FatTypeOK'
    BY <1>1, <1>2, <1>6, <1>7, <1>11 DEF FatTypeOK
  <2>2. DeliversFile'
    <3>1. DeliversFile /\ call' = call /\ dst' = dst /\ pc' # "done"
      BY <1>1, <1>2, <1>11
    <3>2. since' = since /\ (lied => lied')
      BY <1>7
    <3> QED BY <3>1, <3>2, DeliversSame
  <2>3. ASSUME ~lied', r.entry # 0
        PROVE  (call.op = "read" => ~Sound(Links)) /\ (call.op = "open" => ~InDirectory)
    BY <1>8, <1>10, <1>11, <2>3
  <2>4. call.op = "open" /\ faults' = 0 => ~lied' /\ r.entry # 0
    BY <1>7
  <2>5. RefusalExplained'
    BY <1>2, <1>4, <1>11, <2>3, <2>4 DEF RefusalExplained
  <2> QED BY <1>2, <1>5, <1>9, <1>11, <2>1, <2>2, <2>5, Stops
<1>12. CASE r.entry \in Clusters /\ r.entry # 0 /\ tortoise' = r.entry /\ pc' = "hopped"
  <2>1. pc' \in Hopping /\ pc' \in Walking /\ pc' \notin Reading
    BY <1>12 DEF Hopping, Walking, Reading
  <2>2. FatTypeOK'
    BY <1>1, <1>2, <1>6, <1>7, <1>12, <2>1 DEF FatTypeOK
  <2>3. WalkInv'
    <3>1. Behind' = hops \div 2
      BY <1>2, <1>3, <1>12 DEF Behind
    <3>2. ~lied' => ~lied /\ tortoise' = Chain[hops \div 2]
      BY <1>7, <1>10, <1>12
    <3>3. WalkInv
      BY <1>1
    <3> QED BY <1>2, <1>3, <1>4, <1>12, <2>1, <3>1, <3>2, <3>3 DEF WalkInv
  <2>4. PlaceInv'
    <3>1. Aim' = Aim
      BY <1>2, <1>3, <2>1 DEF Aim
    <3> QED BY <1>1, <1>2, <1>3, <1>4, <1>12, <2>1, <3>1 DEF PlaceInv
  <2>5. RunInv'
    BY <2>1 DEF RunInv
  <2>6. SearchInv'
    BY <1>1, <1>2, <1>3, <1>4, <1>7, <1>12, <2>1 DEF SearchInv
  <2>7. DeliversFile'
    BY <1>1, <1>2, <1>7, <1>12, DeliversSame
  <2>8. RefusalExplained'
    BY <1>12 DEF RefusalExplained
  <2> QED BY <1>9, <2>2, <2>3, <2>4, <2>5, <2>6, <2>7, <2>8 DEF FatInv
<1>13. ~InRange(0)
  BY DEF InRange
<1> QED BY <1>3, <1>6, <1>8, <1>11, <1>12, <1>13

(* A hop made is one fewer to make. *)
LEMMA HoppedStep == ASSUME FatInv, Hopped PROVE FatInv'
<1>1. FatTypeOK /\ CacheInv /\ WalkInv /\ PlaceInv /\ SearchInv /\ DeliversFile
  BY DEF FatInv
<1>2. /\ call' = call /\ pc = "hopped" /\ pc' = "hop" /\ todo' = todo - 1 /\ hops' = hops /\ hare' = hare
      /\ tortoise' = tortoise /\ due' = due /\ run' = run /\ probe' = probe /\ slot' = slot /\ slot2' = slot2
      /\ dst' = dst /\ remaining' = remaining /\ inCluster' = inCluster /\ inSector' = inSector
      /\ faults' = faults /\ lied' = lied /\ since' = since
  BY DEF Hopped, Goto, walk, place, caches, history
<1>3. pc \in Walking /\ pc \in Hopping /\ pc' \in Walking /\ pc' \notin Hopping /\ pc' \notin Reading
  BY <1>2 DEF Walking, Hopping, Reading
<1>4. hops \in Nat /\ todo \in Nat /\ todo > 0
  BY <1>1, <1>3 DEF FatTypeOK, WalkInv
<1>5. Chain' = Chain /\ ClusterBytes' = ClusterBytes
  BY <1>2, CallSame
<1>6. FatTypeOK'
  <2>1. todo' \in Nat
    BY <1>2, <1>4
  <2> QED BY <1>1, <1>2, <1>3, <2>1 DEF FatTypeOK
<1>7. CacheInv'
  BY <1>1, <1>2, CacheSame
<1>8. WalkInv'
  <2>1. Behind' = Behind
    BY <1>2 DEF Behind
  <2> QED BY <1>1, <1>2, <1>3, <1>5, <2>1 DEF WalkInv
<1>9. PlaceInv'
  <2>1. Aim' = Aim /\ (todo' > 0 => todo > 0)
    BY <1>2, <1>3, <1>4 DEF Aim
  <2> QED BY <1>1, <1>2, <1>3, <1>5, <2>1 DEF PlaceInv
<1>10. RunInv'
  BY <1>3 DEF RunInv
<1>11. SearchInv'
  <2>1. call.op = "open" => todo <= 1
    BY <1>1, <1>3 DEF SearchInv
  <2>2. call.op = "open" => ~(todo' > 0) /\ todo' <= 1
    BY <1>2, <1>4, <2>1
  <2> QED BY <1>1, <1>2, <1>3, <1>5, <2>2 DEF SearchInv
<1>12. DeliversFile'
  BY <1>1, <1>2, DeliversSame
<1>13. RefusalExplained'
  BY <1>2 DEF RefusalExplained
<1> QED BY <1>6, <1>7, <1>8, <1>9, <1>10, <1>11, <1>12, <1>13 DEF FatInv

(* With every hop made the run begins in the cluster of the next byte. *)
LEMMA ArrivedStep == ASSUME FatInv, Arrived PROVE FatInv'
<1>1. FatTypeOK /\ CacheInv /\ WalkInv /\ PlaceInv /\ SearchInv /\ DeliversFile
  BY DEF FatInv
<1>2. /\ call' = call /\ pc = "hop" /\ todo = 0 /\ todo' = todo /\ hops' = hops /\ hare' = hare
      /\ tortoise' = tortoise /\ due' = due /\ slot' = slot /\ slot2' = slot2
      /\ dst' = dst /\ remaining' = remaining /\ inCluster' = inCluster /\ inSector' = inSector
      /\ faults' = faults /\ lied' = lied /\ since' = since
  BY DEF Arrived, walk, place, caches, history
<1>3. pc \in Walking /\ pc \notin Hopping /\ pc \notin Reading
  BY <1>2 DEF Walking, Hopping, Reading
<1>4. hops \in Nat /\ hare \in Clusters /\ probe \in Clusters /\ remaining \in Nat
  BY <1>1 DEF FatTypeOK
<1>5. Chain' = Chain /\ ClusterBytes' = ClusterBytes
  BY <1>2, CallSame
<1>6. CacheInv'
  BY <1>1, <1>2, CacheSame
<1>7. \/ call.op = "open" /\ pc' = "scan" /\ run' = run /\ probe' = probe
      \/ call.op = "read" /\ remaining = 0 /\ pc' = "done" /\ run' = run /\ probe' = probe
      \/ call.op = "read" /\ remaining > 0 /\ pc' = "probe" /\ run' = call.spc - inCluster /\ probe' = hare
  BY DEF Arrived, Goto
<1>8. CASE call.op = "open" /\ pc' = "scan" /\ run' = run /\ probe' = probe
  <2>1. pc' \in Walking /\ pc' \notin Hopping /\ pc' \notin Reading
    BY <1>8 DEF Walking, Hopping, Reading
  <2>2. FatTypeOK'
    BY <1>1, <1>2, <1>8, <2>1 DEF FatTypeOK
  <2>3. WalkInv'
    <3>1. Behind' = Behind
      BY <1>2, <1>8 DEF Behind
    <3> QED BY <1>1, <1>2, <1>3, <1>5, <1>8, <2>1, <3>1 DEF WalkInv
  <2>4. PlaceInv'
    BY <1>2, <1>8 DEF PlaceInv
  <2>5. RunInv'
    BY <2>1 DEF RunInv
  <2>6. SearchInv'
    BY <1>1, <1>2, <1>3, <1>5, <1>8, <2>1 DEF SearchInv
  <2>7. DeliversFile'
    BY <1>1, <1>2, <1>8, DeliversSame
  <2>8. RefusalExplained'
    BY <1>8 DEF RefusalExplained
  <2> QED BY <1>6, <2>2, <2>3, <2>4, <2>5, <2>6, <2>7, <2>8 DEF FatInv
<1>9. CASE call.op = "read" /\ remaining = 0 /\ pc' = "done" /\ run' = run /\ probe' = probe
  <2>1. FatTypeOK'
    BY <1>1, <1>2, <1>9 DEF FatTypeOK
  <2>2. Len(dst) = call.length
    <3>1. Len(dst) = call.length - remaining + 0 /\ call.length \in Nat
      BY <1>1, <1>2, <1>3, <1>9, CallTyped DEF PlaceInv
    <3> QED BY <1>9, <3>1
  <2>3. DeliversFile'
    <3>1. \A i : FileByte(i)' = FileByte(i)
      BY <1>2, CallSame
    <3> QED BY <1>1, <1>2, <1>9, <2>2, <3>1 DEF DeliversFile
  <2>4. RefusalExplained'
    BY <1>9 DEF RefusalExplained
  <2>5. Len(dst') <= call.length
    BY <1>1, <1>2, <1>9 DEF PlaceInv
  <2> QED BY <1>2, <1>6, <1>9, <2>1, <2>2, <2>3, <2>4, <2>5, Stops
<1>10. CASE call.op = "read" /\ remaining > 0 /\ pc' = "probe" /\ run' = call.spc - inCluster /\ probe' = hare
  <2>1. pc' \in Walking /\ pc' \notin Hopping /\ pc' \in Reading
    BY <1>10 DEF Walking, Hopping, Reading
  <2>2. call.spc \in Nat \ {0} /\ inCluster \in 0 .. call.spc - 1 /\ hare \in Int
    BY <1>1, CallTyped, VolumeAssumption DEF FatTypeOK, Clusters
  <2>3. run' \in Nat
    BY <1>10, <2>2
  <2>4. FatTypeOK'
    BY <1>1, <1>2, <1>4, <1>10, <2>1, <2>3 DEF FatTypeOK
  <2>5. Behind' = Behind
    BY <1>2, <1>10 DEF Behind
  <2>6. WalkInv'
    BY <1>1, <1>2, <1>3, <1>5, <1>10, <2>1, <2>5 DEF WalkInv
  <2>7. PlaceInv'
    <3>1. Aim' = Aim
      BY <1>2, <1>3, <2>1 DEF Aim
    <3> QED BY <1>1, <1>2, <1>3, <1>5, <1>10, <3>1 DEF PlaceInv
  <2>8. RunInv'
    <3>1. probe' - hare' = 0 /\ probe' >= hare' /\ (probe' - hare' + 1) * call.spc = call.spc
      BY <1>2, <1>10, <2>2
    <3>2. ~lied' => \A i \in 0 .. 0 : Chain[hops + i] = hare + i
      <4>1. ~lied => hare = Chain[hops]
        BY <1>1, <1>3 DEF WalkInv
      <4> QED BY <1>2, <1>4, <2>2, <4>1
    <3> QED BY <1>2, <1>5, <1>10, <3>1, <3>2 DEF RunInv
  <2>9. SearchInv'
    BY <1>2, <1>10 DEF SearchInv
  <2>10. DeliversFile'
    BY <1>1, <1>2, <1>10, DeliversSame
  <2>11. RefusalExplained'
    BY <1>10 DEF RefusalExplained
  <2> QED BY <1>6, <2>4, <2>6, <2>7, <2>8, <2>9, <2>10, <2>11 DEF FatInv
<1> QED BY <1>7, <1>8, <1>9, <1>10

(* A probe adds a cluster to the run only if it is next on disk and in the *)
(* chain.                                                                  *)
LEMMA ProbeStep == ASSUME FatInv, Probe PROVE FatInv'
<1>1. FatTypeOK /\ CacheInv /\ WalkInv /\ PlaceInv /\ RunInv /\ DeliversFile
  BY DEF FatInv
<1>2. /\ call' = call /\ pc = "probe" /\ todo' = todo /\ hops' = hops /\ hare' = hare
      /\ tortoise' = tortoise /\ due' = due /\ slot2' = slot2
      /\ dst' = dst /\ remaining' = remaining /\ inCluster' = inCluster /\ inSector' = inSector
  BY DEF Probe, walk, place
<1>3. pc \in Walking /\ pc \notin Hopping /\ pc \in Reading
  BY <1>2 DEF Walking, Hopping, Reading
<1>4. /\ hops \in Nat /\ hare \in Clusters /\ probe \in Clusters /\ slot \in SlotStates /\ hare \in Int /\ probe \in Int
      /\ lied \in BOOLEAN /\ call.spc \in Nat \ {0} /\ inCluster \in Int
  BY <1>1, CallTyped, VolumeAssumption DEF FatTypeOK, Clusters
<1>5. Chain' = Chain /\ ClusterBytes' = ClusterBytes /\ call.op = "read"
  BY <1>1, <1>2, <1>3, CallSame DEF WalkInv
<1>6. /\ todo = 0 /\ remaining > 0 /\ probe >= hare /\ run = (probe - hare + 1) * call.spc - inCluster
      /\ ~lied => \A i \in 0 .. probe - hare : Chain[hops + i] = hare + i
  BY <1>1, <1>3 DEF RunInv
<1>7. /\ pc' \in {"probe", "read"} /\ slot' \in SlotStates /\ lied' \in BOOLEAN /\ since' = since
      /\ (lied => lied') /\ (~lied' => ~Wrong(slot'))
      /\ \/ run' = run /\ probe' = probe
         \/ /\ probe' = probe + 1 /\ InRange(probe') /\ run' = run + call.spc
            /\ ~lied' => probe' = call.fat[probe]
  <2>1. CASE run + call.spc <= Batch
    <3>1. PICK r \in Lookup(slot, probe) :
            /\ slot' = r.slot /\ Took(r)
            /\ \/ r.entry # 0 /\ Adjoins(r.entry) /\ run' = run + call.spc /\ probe' = r.entry /\ pc' = "probe"
               \/ pc' = "read" /\ run' = run /\ probe' = probe
      BY <2>1 DEF Probe, Goto
    <3>2. /\ r.slot \in SlotStates /\ lied' \in BOOLEAN /\ since' = since /\ (lied => lied')
          /\ ~lied' => ~Wrong(r.slot) /\ (r.entry # 0 => r.entry = call.fat[probe])
      BY <1>1, <1>4, <3>1, TookStep
    <3> QED BY <3>1, <3>2 DEF Adjoins
  <2>2. CASE ~(run + call.spc <= Batch)
    <3>1. pc' = "read" /\ run' = run /\ probe' = probe /\ slot' = slot /\ faults' = faults /\ lied' = lied /\ since' = since
      BY <2>2 DEF Probe, Goto
    <3> QED BY <1>1, <1>4, <3>1 DEF CacheInv, Wrong
  <2> QED BY <2>1, <2>2
<1>8. pc' \in Walking /\ pc' \notin Hopping /\ pc' \in Reading /\ pc' \notin {"copy", "callback", "scan", "tortoise", "done", "failed"}
  BY <1>7 DEF Walking, Hopping, Reading
<1>9. probe' \in Clusters /\ run' \in Nat
  <2>1. run \in Nat
    BY <1>1 DEF FatTypeOK
  <2> QED BY <1>4, <1>7, <2>1, VolumeAssumption DEF InRange, Clusters
<1>10. FatTypeOK'
  BY <1>1, <1>2, <1>7, <1>8, <1>9 DEF FatTypeOK
<1>11. CacheInv'
  <2>1. ~lied' => ~lied /\ ~Wrong(slot')
    BY <1>7
  <2>2. ~lied => ~Wrong(slot2)
    BY <1>1 DEF CacheInv
  <2>3. call' = call /\ call.op = "read" /\ slot2' = slot2
    BY <1>2, <1>5
  <2> QED BY <2>1, <2>2, <2>3, ReadCaches
<1>12. WalkInv'
  <2>1. Behind' = Behind
    BY <1>2, <1>8 DEF Behind
  <2> QED BY <1>1, <1>2, <1>3, <1>5, <1>7, <1>8, <2>1 DEF WalkInv
<1>13. PlaceInv'
  <2>1. Aim' = Aim
    BY <1>2, <1>3, <1>8 DEF Aim
  <2> QED BY <1>1, <1>2, <1>3, <1>5, <1>8, <2>1 DEF PlaceInv
<1>14. RunInv'
  <2>1. CASE run' = run /\ probe' = probe
    BY <1>2, <1>5, <1>6, <1>7, <1>8, <2>1 DEF RunInv
  <2>2. CASE /\ probe' = probe + 1 /\ run' = run + call.spc
             /\ ~lied' => probe' = call.fat[probe]
    <3>1. (probe' - hare + 1) * call.spc = (probe - hare + 1) * call.spc + call.spc
      <4>1. probe - hare + 1 \in Int /\ call.spc \in Int /\ probe' - hare + 1 = (probe - hare + 1) + 1 /\ 1 * call.spc = call.spc
        BY <1>4, <2>2
      <4> QED BY <4>1, Distributes
    <3>2. (probe - hare + 1) * call.spc \in Int
      BY <1>4
    <3>3. run' = (probe' - hare + 1) * call.spc - inCluster
      <4> DEFINE a == (probe - hare + 1) * call.spc
                 b == (probe' - hare + 1) * call.spc
      <4>1. b = a + call.spc /\ a \in Int /\ run = a - inCluster /\ run' = run + call.spc
        BY <1>6, <2>2, <3>1, <3>2
      <4> HIDE DEF a, b
      <4>2. run' = b - inCluster
        BY <1>4, <4>1
      <4> QED BY <4>2 DEF b
    <3>4. ASSUME ~lied', NEW i \in 0 .. probe' - hare PROVE Chain[hops + i] = hare + i
      <4>1. \A k \in 0 .. probe - hare : Chain[hops + k] = hare + k
        BY <1>6, <1>7, <3>4
      <4>2. CASE i \in 0 .. probe - hare
        BY <4>1, <4>2
      <4>3. CASE i = probe - hare + 1
        <5> DEFINE d == probe - hare
        <5>1. d \in 0 .. probe - hare /\ d \in Nat /\ hare + d = probe
          BY <1>4, <1>6
        <5>2. Chain[hops + d] = probe
          BY <4>1, <5>1
        <5>3. hops <= N + 1
          BY <1>1, <1>3 DEF WalkInv
        <5>4. hops + d \in 0 .. 2 * N + 3
          BY <1>4, <5>1, <5>3, VolumeAssumption DEF Clusters
        <5>5. Chain[(hops + d) + 1] = NextOf(call.fat, Chain[hops + d])
          BY <5>4, ChainStep
        <5>6. Chain[(hops + d) + 1] = probe + 1
          BY <1>4, <2>2, <3>4, <5>2, <5>5 DEF NextOf
        <5>7. (hops + d) + 1 = hops + i /\ probe + 1 = hare + i
          BY <1>4, <4>3
        <5> QED BY <5>6, <5>7
      <4> QED BY <1>4, <1>6, <2>2, <4>2, <4>3
    <3>5. probe' >= hare
      BY <1>4, <1>6, <2>2
    <3> QED BY <1>2, <1>5, <1>6, <1>8, <3>3, <3>4, <3>5 DEF RunInv
  <2> QED BY <1>7, <2>1, <2>2
<1>15. SearchInv'
  BY <1>2, <1>5 DEF SearchInv
<1>16. DeliversFile'
  BY <1>1, <1>2, <1>7, <1>8, DeliversSame
<1>17. RefusalExplained'
  BY <1>8 DEF RefusalExplained
<1> QED BY <1>10, <1>11, <1>12, <1>13, <1>14, <1>15, <1>16, <1>17 DEF FatInv

(* The run depends on the cursor, the place and what remains. *)
LEMMA RunSame ==
    ASSUME call' = call, hare' = hare, inCluster' = inCluster, inSector' = inSector,
           remaining' = remaining, run' = run
    PROVE  RunBytes' = RunBytes /\ SectorsNeeded' = SectorsNeeded /\ RunAt' = RunAt
<1>1. RunSectors' = RunSectors
  BY DEF RunSectors, Least
<1>2. RunBytes' = RunBytes
  BY <1>1 DEF RunBytes, Least
<1>3. SectorsNeeded' = SectorsNeeded
  BY <1>2 DEF SectorsNeeded
<1>4. RunAt' = RunAt
  BY DEF RunAt
<1> QED BY <1>2, <1>3, <1>4

(* The run's sectors are in the buffer. *)
LEMMA ReadRunStep == ASSUME FatInv, ReadRun PROVE FatInv'
<1>1. FatTypeOK /\ CacheInv /\ WalkInv /\ PlaceInv /\ RunInv /\ DeliversFile
  BY DEF FatInv
<1>2. /\ call' = call /\ pc = "read" /\ todo' = todo /\ hops' = hops /\ hare' = hare
      /\ tortoise' = tortoise /\ due' = due /\ slot' = slot /\ slot2' = slot2 /\ run' = run /\ probe' = probe
      /\ dst' = dst /\ remaining' = remaining /\ inCluster' = inCluster /\ inSector' = inSector
      /\ lied' = lied /\ since' = since
  BY DEF ReadRun, walk, place, caches
<1>3. pc \in Walking /\ pc \notin Hopping /\ pc \in Reading
  BY <1>2 DEF Walking, Hopping, Reading
<1>4. Chain' = Chain /\ ClusterBytes' = ClusterBytes /\ call.op = "read"
  BY <1>1, <1>2, <1>3, CallSame DEF WalkInv
<1>5. CacheInv'
  <2>1. ~lied => ~Wrong(slot) /\ ~Wrong(slot2)
    BY <1>1 DEF CacheInv
  <2> QED BY <1>2, <1>4, <2>1, ReadCaches
<1>6. \/ buf' = [i \in 1 .. SectorsNeeded * Bps |-> RunAt + i - 1] /\ pc' = "copy" /\ faults' = faults
      \/ pc' = "failed" /\ err' = "DATA_READ" /\ faults' = faults + 1
  BY DEF ReadRun, Goto, Fail
<1>7. CASE pc' = "failed" /\ err' = "DATA_READ" /\ faults' = faults + 1
  <2>1. FatTypeOK'
    BY <1>1, <1>2, <1>4, <1>7 DEF FatTypeOK
  <2>2. DeliversFile'
    BY <1>1, <1>2, <1>7, DeliversSame
  <2>3. RefusalExplained'
    BY <1>2, <1>4, <1>7 DEF RefusalExplained
  <2>4. Len(dst') <= call.length
    BY <1>1, <1>2, <1>4 DEF PlaceInv
  <2> QED BY <1>2, <1>5, <1>7, <2>1, <2>2, <2>3, <2>4, Stops
<1>8. CASE buf' = [i \in 1 .. SectorsNeeded * Bps |-> RunAt + i - 1] /\ pc' = "copy" /\ faults' = faults
  <2>1. pc' \in Walking /\ pc' \notin Hopping /\ pc' \in Reading
    BY <1>8 DEF Walking, Hopping, Reading
  <2>2. FatTypeOK'
    BY <1>1, <1>2, <1>8, <2>1 DEF FatTypeOK
  <2>3. WalkInv'
    <3>1. Behind' = Behind
      BY <1>2, <1>8 DEF Behind
    <3> QED BY <1>1, <1>2, <1>3, <1>4, <1>8, <2>1, <3>1 DEF WalkInv
  <2>4. PlaceInv'
    <3>1. Aim' = Aim
      BY <1>2, <1>3, <2>1 DEF Aim
    <3> QED BY <1>1, <1>2, <1>3, <1>4, <1>8, <3>1 DEF PlaceInv
  <2>5. RunInv'
    <3>1. SectorsNeeded' = SectorsNeeded /\ RunAt' = RunAt
      BY <1>2, RunSame
    <3>2. buf' = [i \in 1 .. SectorsNeeded' * Bps |-> RunAt' + i - 1]
      BY <1>8, <3>1
    <3> QED BY <1>1, <1>2, <1>3, <1>4, <3>2 DEF RunInv
  <2>6. SearchInv'
    BY <1>2, <1>4 DEF SearchInv
  <2>7. DeliversFile'
    BY <1>1, <1>2, <1>8, DeliversSame
  <2>8. RefusalExplained'
    BY <1>8 DEF RefusalExplained
  <2> QED BY <1>5, <2>2, <2>3, <2>4, <2>5, <2>6, <2>7, <2>8 DEF FatInv
<1> QED BY <1>6, <1>7, <1>8

(* What appending one sequence to another gives. *)
LEMMA Appended ==
    ASSUME NEW s \in Seq(Int), NEW t \in Seq(Int)
    PROVE  /\ s \o t \in Seq(Int) /\ Len(s \o t) = Len(s) + Len(t) /\ Len(s) \in Nat
           /\ \A i \in 1 .. Len(s) : (s \o t)[i] = s[i]
           /\ \A i \in 1 .. Len(t) : (s \o t)[Len(s) + i] = t[i]
  OBVIOUS

(* The bytes copied are the next ones of the file. *)
LEMMA CopyStep == ASSUME FatInv, Copy PROVE FatInv'
<1>1. FatTypeOK /\ CacheInv /\ WalkInv /\ PlaceInv /\ RunInv /\ DeliversFile
  BY DEF FatInv
<1>2. /\ call' = call /\ pc = "copy" /\ pc' = "callback" /\ todo' = todo /\ hops' = hops /\ hare' = hare
      /\ tortoise' = tortoise /\ due' = due /\ slot' = slot /\ slot2' = slot2 /\ run' = run /\ probe' = probe
      /\ remaining' = remaining /\ inCluster' = inCluster /\ inSector' = inSector
      /\ lied' = lied /\ since' = since /\ faults' = faults
      /\ dst' = dst \o SubSeq(buf, inSector + 1, inSector + RunBytes)
  BY DEF Copy, Copied, Goto, walk, place, caches, history
<1>3. pc \in Walking /\ pc \notin Hopping /\ pc \in Reading /\ pc' \in Walking /\ pc' \notin Hopping /\ pc' \in Reading
  BY <1>2 DEF Walking, Hopping, Reading
<1>4. Chain' = Chain /\ ClusterBytes' = ClusterBytes /\ call.op = "read" /\ call.length \in Nat /\ call.offset \in Nat
  BY <1>1, <1>2, <1>3, CallSame, CallTyped DEF WalkInv
<1>5. /\ RunBytes \in Nat \ {0} /\ RunBytes <= remaining /\ SectorsNeeded \in Nat
      /\ inSector + RunBytes <= SectorsNeeded * Bps
  BY <1>1, <1>3, RunFacts
<1>6. /\ remaining \in Nat /\ inSector \in Nat /\ dst \in Seq(Int) /\ since \in 0 .. Len(dst) /\ Bps \in Nat
      /\ hare \in Int /\ call.spc \in Int /\ inCluster \in Int
  BY <1>1, CallTyped, VolumeAssumption DEF FatTypeOK, Clusters
<1> DEFINE m == SectorsNeeded * Bps
           part == SubSeq(buf, inSector + 1, inSector + RunBytes)
<1>7. m \in Nat /\ RunAt \in Int
  BY <1>5, <1>6 DEF RunAt
<1>8. buf = [i \in 1 .. m |-> RunAt + i - 1]
  BY <1>1, <1>2, <1>3 DEF RunInv
<1>9. inSector + RunBytes <= m
  BY <1>5
<1> HIDE DEF m
<1>10. buf \in Seq(Int) /\ Len(buf) = m
  BY <1>7, <1>8
<1>11. part \in Seq(Int) /\ Len(part) = RunBytes /\ \A i \in 1 .. RunBytes : part[i] = buf[inSector + i]
  BY <1>5, <1>6, <1>7, <1>9, <1>10
<1>12. \A i \in 1 .. RunBytes : part[i] = RunAt + inSector + i - 1
  <2> HIDE DEF part
  <2> TAKE i \in 1 .. RunBytes
  <2>1. inSector + i \in 1 .. m
    BY <1>5, <1>6, <1>7, <1>9
  <2>2. buf[inSector + i] = RunAt + (inSector + i) - 1
    BY <1>8, <2>1
  <2> QED BY <1>5, <1>6, <1>7, <1>11, <2>2
<1> DEFINE n == Len(dst)
<1>13. /\ dst' \in Seq(Int) /\ Len(dst') = n + RunBytes /\ n \in Nat
       /\ \A i \in 1 .. n : dst'[i] = dst[i]
       /\ \A i \in 1 .. RunBytes : dst'[n + i] = part[i]
  <2> HIDE DEF part
  <2>1. dst' = dst \o part
    BY <1>2 DEF part
  <2>2. /\ dst \o part \in Seq(Int) /\ Len(dst \o part) = Len(dst) + Len(part) /\ Len(dst) \in Nat
        /\ \A i \in 1 .. Len(dst) : (dst \o part)[i] = dst[i]
        /\ \A i \in 1 .. Len(part) : (dst \o part)[Len(dst) + i] = part[i]
    <3>1. dst \in Seq(Int) /\ part \in Seq(Int)
      BY <1>6, <1>11
    <3> QED BY <3>1, Appended, Zenon
  <2>3. Len(part) = RunBytes
    BY <1>11
  <2> QED BY <2>1, <2>2, <2>3, Zenon
<1> HIDE DEF part
<1>14. n = call.length - remaining
  <2>1. n = call.length - remaining + 0
    BY <1>1, <1>2, <1>3, <1>4 DEF PlaceInv
  <2> QED BY <1>4, <1>6, <2>1
<1>15. FatTypeOK'
  <2>1. since' \in 0 .. Len(dst')
    <3>1. Len(dst') = n + RunBytes /\ n \in Nat
      BY <1>13
    <3>2. since' = since /\ since \in 0 .. n /\ RunBytes \in Nat
      BY <1>2, <1>5, <1>6
    <3> HIDE DEF n
    <3> QED BY <3>1, <3>2
  <2> QED BY <1>1, <1>2, <1>3, <1>13, <2>1 DEF FatTypeOK
<1>16. CacheInv'
  BY <1>1, <1>2, CacheSame
<1>17. WalkInv'
  <2>1. Behind' = Behind
    BY <1>2 DEF Behind
  <2> QED BY <1>1, <1>2, <1>3, <1>4, <2>1 DEF WalkInv
<1>18. PlaceInv'
  <2>1. Aim' = Aim
    BY <1>2, <1>3 DEF Aim
  <2>2. RunBytes' = RunBytes
    BY <1>2, RunSame
  <2>3. Len(dst') = call.length - remaining + RunBytes /\ Len(dst') <= call.length
    BY <1>4, <1>5, <1>6, <1>13, <1>14
  <2> QED BY <1>1, <1>2, <1>3, <1>4, <2>1, <2>2, <2>3 DEF PlaceInv
<1>19. RunInv'
  BY <1>1, <1>2, <1>3, <1>4 DEF RunInv
<1>20. SearchInv'
  BY <1>2, <1>4 DEF SearchInv
<1>21. DeliversFile'
  <2>1. \A i : FileByte(i)' = FileByte(i)
    BY <1>2, CallSame
  <2>2. ASSUME ~lied, NEW i \in since + 1 .. Len(dst') PROVE dst'[i] = FileByte(call.offset + i - 1)
    <3>1. CASE i <= n
      <4>1. i \in since + 1 .. Len(dst) /\ i \in 1 .. n
        BY <1>6, <1>13, <3>1
      <4> QED BY <1>1, <1>13, <2>2, <4>1 DEF DeliversFile
    <3>2. CASE i > n
      <4> DEFINE k == i - n
      <4>1. k \in 1 .. RunBytes /\ n + k = i
        BY <1>5, <1>6, <1>13, <3>2
      <4>2. dst'[i] = RunAt + inSector + k - 1
        BY <1>12, <1>13, <4>1
      <4>3. FileByte(call.offset + call.length - remaining + k - 1) = RunAt + inSector + k - 1
        BY <1>1, <1>3, <2>2, <4>1, RunIsFile
      <4>4. call.offset + call.length - remaining + k - 1 = call.offset + i - 1
        <5>1. n \in Nat /\ k \in Nat /\ n = call.length - remaining /\ n + k = i
          BY <1>5, <1>13, <1>14, <4>1
        <5>2. call.offset \in Nat /\ call.length \in Nat /\ remaining \in Nat
          BY <1>4, <1>6
        <5> HIDE DEF n, k
        <5>3. k - 1 \in Int /\ i - 1 = n + (k - 1)
          BY <5>1
        <5>4. call.offset + call.length - remaining + k - 1 = call.offset + n + (k - 1)
          BY <5>1
        <5> QED BY <5>1, <5>2, <5>3, <5>4
      <4> QED BY <4>2, <4>3, <4>4
    <3> QED BY <1>6, <1>13, <3>1, <3>2
  <2>3. call' = call /\ lied' = lied /\ since' = since /\ pc' # "done"
    BY <1>2
  <2> QED BY <2>1, <2>2, <2>3 DEF DeliversFile
<1>22. RefusalExplained'
  BY <1>2 DEF RefusalExplained
<1> QED BY <1>15, <1>16, <1>17, <1>18, <1>19, <1>20, <1>21, <1>22 DEF FatInv

(* The bookkeeping after the progress callback, which may have used the    *)
(* buffer and both slots itself, is for the next byte.                     *)
LEMMA CallbackStep == ASSUME FatInv, Callback PROVE FatInv'
<1>1. FatTypeOK /\ CacheInv /\ WalkInv /\ PlaceInv /\ RunInv /\ DeliversFile
  BY DEF FatInv
<1>2. /\ call' = call /\ pc = "callback" /\ pc' = "hop" /\ hops' = hops /\ hare' = hare
      /\ tortoise' = tortoise /\ due' = due /\ run' = run /\ probe' = probe /\ dst' = dst /\ since' = since
      /\ remaining' = remaining - RunBytes /\ inCluster' = Consumed % call.spc /\ inSector' = 0
      /\ todo' = IF remaining' = 0 THEN 0 ELSE Consumed \div call.spc
  BY DEF Callback, Goto, walk
<1>3. pc \in Walking /\ pc \notin Hopping /\ pc \in Reading /\ pc' \in Walking /\ pc' \notin Hopping /\ pc' \notin Reading
  BY <1>2 DEF Walking, Hopping, Reading
<1>4. Chain' = Chain /\ ClusterBytes' = ClusterBytes /\ call.op = "read" /\ call.length \in Nat /\ call.offset \in Nat
  BY <1>1, <1>2, <1>3, CallSame, CallTyped DEF WalkInv
<1>5. /\ slot' \in SlotStates /\ slot2' \in SlotStates /\ lied' \in BOOLEAN
      /\ (lied => lied') /\ (~lied' => ~Wrong(slot') /\ ~Wrong(slot2'))
  <2>1. slot \in SlotStates /\ slot2 \in SlotStates /\ lied \in BOOLEAN
    BY <1>1 DEF FatTypeOK
  <2>2. CASE UNCHANGED <<caches, lied>>
    BY <1>1, <2>1, <2>2 DEF CacheInv, caches, Wrong
  <2>3. CASE /\ slot' \in SlotStates /\ slot2' \in SlotStates
             /\ lied' = (lied \/ Wrong(slot') \/ Wrong(slot2'))
    <3>3. lied' \in BOOLEAN /\ (lied => lied') /\ (~lied' => ~Wrong(slot') /\ ~Wrong(slot2'))
      BY <2>1, <2>3 DEF Wrong
    <3> QED BY <2>3, <3>3
  <2> QED BY <2>2, <2>3 DEF Callback
<1>6. RunBytes \in Nat \ {0} /\ RunBytes <= remaining /\ remaining \in Nat /\ hops \in Nat /\ remaining > 0
  <2>1. RunBytes \in Nat \ {0} /\ RunBytes <= remaining
    BY <1>1, <1>3, RunFacts
  <2>2. remaining \in Nat /\ hops \in Nat
    BY <1>1 DEF FatTypeOK
  <2>3. remaining > 0
    BY <1>1, <1>3 DEF RunInv
  <2> QED BY <2>1, <2>2, <2>3
<1>7. /\ Consumed \div call.spc \in Nat /\ Consumed % call.spc \in 0 .. call.spc - 1
      /\ RunBytes < remaining =>
           call.offset + call.length - (remaining - RunBytes)
             = (hops + (Consumed \div call.spc)) * ClusterBytes + (Consumed % call.spc) * Bps
  BY <1>1, <1>3, <1>4, NextPlace
<1>8. remaining' \in Nat /\ (remaining' > 0 => RunBytes < remaining)
  BY <1>2, <1>6
<1>9. todo' \in Nat /\ (todo' > 0 => remaining' > 0) /\ (remaining' > 0 => todo' = Consumed \div call.spc)
  <2>1. Consumed \div call.spc \in Nat
    BY <1>7
  <2>2. todo' = IF remaining' = 0 THEN 0 ELSE Consumed \div call.spc
    BY <1>2
  <2> QED BY <1>8, <2>1, <2>2
<1>10. FatTypeOK'
  <2>1. inCluster' \in 0 .. call'.spc - 1 /\ inSector' \in 0 .. Bps - 1
    BY <1>2, <1>7, VolumeAssumption
  <2> QED BY <1>1, <1>2, <1>3, <1>5, <1>8, <1>9, <2>1 DEF FatTypeOK
<1>11. CacheInv'
  <2>1. call' = call /\ call.op = "read" /\ (~lied' => ~Wrong(slot') /\ ~Wrong(slot2'))
    BY <1>2, <1>4, <1>5
  <2> QED BY <2>1, ReadCaches
<1>12. WalkInv'
  <2>1. Behind' = Behind
    BY <1>2 DEF Behind
  <2> QED BY <1>1, <1>2, <1>3, <1>4, <1>5, <2>1 DEF WalkInv
<1>13. PlaceInv'
  <2>1. Len(dst) = call.length - remaining + RunBytes /\ Len(dst) <= call.length
    BY <1>1, <1>2, <1>3, <1>4 DEF PlaceInv
  <2>2. Len(dst') = call.length - remaining' + 0
    BY <1>2, <1>4, <1>6, <2>1
  <2>3. ASSUME remaining' > 0
        PROVE  call.offset + call.length - remaining' = Aim' * ClusterBytes' + inCluster' * Bps + inSector'
    <3>1. Aim' = hops + (Consumed \div call.spc)
      BY <1>2, <1>3, <1>9, <2>3 DEF Aim
    <3>2. call.offset + call.length - remaining' = Aim' * ClusterBytes' + inCluster' * Bps
      BY <1>2, <1>4, <1>7, <1>8, <2>3, <3>1, Zenon
    <3>3. inSector' = 0 /\ call.offset + call.length - remaining' \in Int
      BY <1>2, <1>4, <1>8
    <3>4. Aim' \in Nat /\ ClusterBytes' \in Nat /\ inCluster' \in Nat /\ Bps \in Nat
      BY <1>1, <1>2, <1>4, <1>6, <1>7, <3>1, CallTyped, VolumeAssumption
    <3>5. Aim' * ClusterBytes' \in Int /\ inCluster' * Bps \in Int
      BY <3>4
    <3>6. Aim' * ClusterBytes' + inCluster' * Bps + 0 = Aim' * ClusterBytes' + inCluster' * Bps
      BY <3>5
    <3> QED BY <3>2, <3>3, <3>6, Zenon
  <2> QED BY <1>2, <1>3, <1>9, <2>1, <2>2, <2>3 DEF PlaceInv
<1>14. RunInv'
  BY <1>3 DEF RunInv
<1>15. SearchInv'
  BY <1>2, <1>4 DEF SearchInv
<1>16. DeliversFile'
  BY <1>1, <1>2, <1>5, DeliversSame
<1>17. RefusalExplained'
  BY <1>2 DEF RefusalExplained
<1> QED BY <1>10, <1>11, <1>12, <1>13, <1>14, <1>15, <1>16, <1>17 DEF FatInv

(* A retry: load_file drops both slots and goes on from the first byte not *)
(* delivered; fat_open_retry starts again with the slots as they are.      *)
LEMMA RetryStep == ASSUME FatInv, Resume \/ Reopen PROVE FatInv'
<1>1. FatTypeOK /\ CacheInv /\ PlaceInv /\ DeliversFile
  BY DEF FatInv
<1>2. /\ call' = call /\ todo' = todo /\ hops' = hops /\ hare' = hare /\ pc' \in {"call", "dead"}
      /\ tortoise' = tortoise /\ due' = due /\ run' = run /\ probe' = probe /\ dst' = dst
      /\ remaining' = remaining /\ inCluster' = inCluster /\ inSector' = inSector /\ faults' = faults
  BY DEF Resume, Reopen, Goto, walk, place, history
<1>3. \/ slot' = slot /\ slot2' = slot2 /\ lied' = lied /\ since' = since
      \/ slot' = Empty /\ slot2' = Empty /\ lied' = FALSE /\ since' = Len(dst)
  BY DEF Resume, Reopen, Invalidate, caches, history
<1>4. Empty \in SlotStates /\ ~Wrong(Empty)
  BY DEF SlotStates, Wrong, Empty
<1>5. Len(dst) \in Nat
  BY <1>1 DEF FatTypeOK
<1>6. FatTypeOK'
  <2>1. since \in 0 .. Len(dst) /\ slot \in SlotStates /\ slot2 \in SlotStates /\ lied \in BOOLEAN
    BY <1>1 DEF FatTypeOK
  <2>2. since' \in 0 .. Len(dst') /\ slot' \in SlotStates /\ slot2' \in SlotStates /\ lied' \in BOOLEAN
    <3>1. since' \in {since, Len(dst)} /\ Len(dst) \in 0 .. Len(dst) /\ dst' = dst
      BY <1>2, <1>3, <1>5
    <3>2. since' \in 0 .. Len(dst')
      BY <2>1, <3>1
    <3> QED BY <1>3, <1>4, <2>1, <3>2
  <2> QED BY <1>1, <1>2, <2>2 DEF FatTypeOK
<1>7. CacheInv'
  <2>1. CASE slot' = slot /\ slot2' = slot2 /\ lied' = lied
    BY <1>1, <1>2, <2>1, CacheSame
  <2>2. CASE slot' = Empty /\ slot2' = Empty /\ lied' = FALSE
    <3>1. call.op = "open" => faults \in Nat
      BY <1>1 DEF CacheInv
    <3> QED BY <1>2, <1>4, <2>2, <3>1 DEF CacheInv, Wrong
  <2> QED BY <1>3, <2>1, <2>2
<1>8. DeliversFile'
  <2>1. CASE lied' = lied /\ since' = since
    BY <1>1, <1>2, <2>1, DeliversSame
  <2>2. CASE since' = Len(dst)
    BY <1>2, <1>5, <2>2 DEF DeliversFile
  <2> QED BY <1>3, <2>1, <2>2
<1>9. RefusalExplained'
  BY <1>2 DEF RefusalExplained
<1>10. call.op = "read" => Len(dst') <= call.length
  BY <1>1, <1>2 DEF PlaceInv
<1> QED BY <1>2, <1>6, <1>7, <1>8, <1>9, <1>10, Stops

(* The invariant holds when the reader is called, *)
LEMMA FatInit == Init => FatInv
<1> SUFFICES ASSUME Init PROVE FatInv
  OBVIOUS
<1>1. /\ call \in Calls /\ pc = "call" /\ hare = 2 /\ tortoise = 2 /\ hops = 0 /\ due = TRUE /\ todo = 0
      /\ remaining = 0 /\ inCluster = 0 /\ inSector = 0 /\ run = 0 /\ probe = 2
      /\ slot = Empty /\ slot2 = Empty /\ dst = <<>> /\ faults = 0 /\ lied = FALSE /\ since = 0
  BY DEF Init
<1>2. Empty \in SlotStates /\ ~Wrong(Empty)
  BY DEF SlotStates, Wrong, Empty
<1>3. call \in CallTypes
  BY <1>1, CallAssumption
<1>4. call.spc \in Nat \ {0} /\ call.length \in Nat
  BY <1>3 DEF CallTypes
<1>5. 2 \in Clusters /\ 0 \in 0 .. call.spc - 1 /\ 0 \in 0 .. Bps - 1
  BY <1>4, VolumeAssumption DEF Clusters
<1>6. FatTypeOK
  <2>1. dst \in Seq(Int) /\ Len(dst) = 0 /\ since \in 0 .. Len(dst)
    BY <1>1
  <2> QED BY <1>1, <1>2, <1>5, <2>1 DEF FatTypeOK
<1>7. CacheInv
  BY <1>1, <1>2 DEF CacheInv
<1>8. pc \notin Walking /\ pc \notin Reading /\ pc \notin Hopping /\ pc # "hop"
  BY <1>1 DEF Walking, Reading, Hopping
<1>9. WalkInv /\ RunInv /\ SearchInv
  BY <1>8 DEF WalkInv, RunInv, SearchInv
<1>10. PlaceInv
  BY <1>1, <1>4, <1>8 DEF PlaceInv
<1>11. DeliversFile
  BY <1>1 DEF DeliversFile
<1>12. RefusalExplained
  BY <1>1 DEF RefusalExplained
<1> QED BY <1>6, <1>7, <1>9, <1>10, <1>11, <1>12 DEF FatInv

(* and in a step of something else. *)
LEMMA FatStutter == ASSUME FatInv, UNCHANGED vars PROVE FatInv'
<1>1. FatTypeOK /\ CacheInv /\ WalkInv /\ PlaceInv /\ RunInv /\ SearchInv /\ DeliversFile /\ RefusalExplained
  BY DEF FatInv
<1>2. /\ call' = call /\ pc' = pc /\ err' = err /\ hare' = hare /\ tortoise' = tortoise /\ hops' = hops /\ due' = due
      /\ todo' = todo /\ remaining' = remaining /\ inCluster' = inCluster /\ inSector' = inSector /\ run' = run
      /\ probe' = probe /\ slot' = slot /\ slot2' = slot2 /\ buf' = buf /\ dst' = dst /\ faults' = faults
      /\ lied' = lied /\ since' = since
  BY DEF vars, walk, place, caches, history
<1>3. /\ Chain' = Chain /\ ClusterBytes' = ClusterBytes /\ InDirectory' = InDirectory
      /\ Sound(Links)' = Sound(Links) /\ \A i : FileByte(i)' = FileByte(i)
  BY <1>2, CallSame
<1>4. RunBytes' = RunBytes /\ SectorsNeeded' = SectorsNeeded /\ RunAt' = RunAt
  BY <1>2, RunSame
<1>5. FatTypeOK'
  BY <1>1, <1>2 DEF FatTypeOK
<1>6. CacheInv'
  BY <1>1, <1>2, CacheSame
<1>7. WalkInv'
  BY <1>1, <1>2, <1>3 DEF WalkInv, Behind
<1>8. PlaceInv'
  BY <1>1, <1>2, <1>3, <1>4 DEF PlaceInv, Aim
<1>9. RunInv'
  BY <1>1, <1>2, <1>3, <1>4 DEF RunInv
<1>10. SearchInv'
  <2>1. SearchInv /\ call' = call /\ pc' = pc /\ hops' = hops /\ todo' = todo /\ lied' = lied /\ Chain' = Chain
    BY <1>1, <1>2, <1>3
  <2> QED BY <2>1 DEF SearchInv
<1>11. DeliversFile'
  BY <1>1, <1>2, <1>3 DEF DeliversFile
<1>12. RefusalExplained'
  BY <1>1, <1>2, <1>3 DEF RefusalExplained
<1> QED BY <1>5, <1>6, <1>7, <1>8, <1>9, <1>10, <1>11, <1>12 DEF FatInv

(* The invariant of bios/fat.c's reader, for every volume, every call and  *)
(* every fault.                                                            *)
THEOREM FatInvariant == Spec => []FatInv
<1>1. FatInv /\ [Next]_vars => FatInv'
  BY FatStutter, ReadCallStep, OpenCallStep, ScanStep, HopStep, TortoiseStep, HoppedStep, ArrivedStep,
     ProbeStep, ReadRunStep, CopyStep, CallbackStep, RetryStep DEF Next
<1> QED BY <1>1, FatInit, PTL DEF Spec

(* The bytes fat_read_range delivers are the file's own in order, and a    *)
(* success is complete (DeliversFile), for every size of volume, sector,   *)
(* cluster and batch, every chain however damaged, and any number of       *)
(* failed or misdirected reads.                                            *)
THEOREM ReaderDelivers == Spec => []DeliversFile
<1>1. FatInv => DeliversFile
  BY DEF FatInv
<1> QED BY <1>1, FatInvariant, PTL

(* fat_chain_advance refuses no sound chain, and fat_open misses no name   *)
(* (RefusalExplained), on every volume: the half-speed pointer meets the   *)
(* first one only on a real cycle and the bound on the hops is never       *)
(* reached inside a file.                                                  *)
THEOREM ReaderRefuses == Spec => []RefusalExplained
<1>1. FatInv => RefusalExplained
  BY DEF FatInv
<1> QED BY <1>1, FatInvariant, PTL
=============================================================================
