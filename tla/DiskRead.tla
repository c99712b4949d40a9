------------------------------ MODULE DiskRead ------------------------------
(***************************************************************************)
(* How the BIOS stage2 turns a read request into INT 13h calls             *)
(* (bios/disk_policy.c, bios/disk.c): a request is split into chunks, a    *)
(* chunk the BIOS refuses is retried in halves, down to one sector, and    *)
(* the smaller size is kept.  On a BIOS without a working extended read    *)
(* every chunk is read track by track with cylinder/head/sector addresses. *)
(*                                                                         *)
(* A sector's content is its LBA.  A call that reports success delivered   *)
(* what it was asked for; wrong data behind a reported success is the      *)
(* subject of PayloadLoad.                                                 *)
(***************************************************************************)
EXTENDS Integers

CONSTANTS Kinds,         \* what the drives' BIOS interfaces offer: "edd", "lba", "chs"
          Lbas,          \* where requests start
          MaxCount,      \* bound on the sectors of a request
          DefaultChunk,  \* DISK_MAX_CHUNK_SECTORS
          ChunkLimit,    \* DISK_CHUNK_LIMIT
          Heads, Spt, Cyls   \* the geometry AH=08h reports

ASSUME KindsAssumption == Kinds \subseteq {"edd", "lba", "chs"}
ASSUME LbasAssumption == Lbas \subseteq Nat /\ MaxCount \in Nat \ {0}
ASSUME ChunkAssumption == ChunkLimit \in Nat /\ DefaultChunk \in 1 .. ChunkLimit
ASSUME GeometryAssumption == Heads \in 1 .. 256 /\ Spt \in 1 .. 63 /\ Cyls \in 1 .. 1024

Old == -1       \* what the buffer held before the request
Garbage == -2   \* what a refused call left behind
Slots == 0 .. MaxCount   \* the request's buffer and one sector behind it

VARIABLES kind,     \* the current drive's interface; "none" before the first disk_select
          mode,     \* g_disk_info.mode
          limit,    \* g_disk_bios_limit
          chunk,    \* g_chunk
          first, wanted,    \* the request as the caller made it
          lba, count, pos,  \* disk_read_lba's lba, count and p (in sectors)
          again,    \* this call is the last retry of a single sector
          done,     \* int13_read_chs: sectors of this call read so far
          buf, result,
          refused   \* history: one-sector calls refused in a row at lba

readVars == <<kind, mode, limit, chunk, first, wanted, lba, count, pos, again, done, buf, result, refused>>
request == <<first, wanted, lba, count, pos, again, done, buf, result, refused>>

ReadInit ==
    /\ kind = "none"
    /\ mode = "lba"
    /\ limit = ChunkLimit
    /\ chunk = DefaultChunk
    /\ first = 0 /\ wanted = 0 /\ lba = 0 /\ count = 0 /\ pos = 0
    /\ again = FALSE /\ done = 0 /\ refused = 0
    /\ buf = [i \in Slots |-> Old]
    /\ result = "none"

Idle == result # "busy"
Selected == kind # "none"
Least(a, b) == IF a < b THEN a ELSE b
-----------------------------------------------------------------------------
(* Mutant: a requested chunk is not held against the drive's limit. *)
SetChunkUnclamped(n, max, old) == IF n < 1 \/ n > ChunkLimit THEN old ELSE n

(* disk_set_chunk: out of range is ignored, above the limit is clamped. *)
SetChunkTo(n, max, old) == IF n < 1 \/ n > ChunkLimit THEN old ELSE Least(n, max)

(* alpine-zfsboot.int13chunk=N, and the block verifier's choice of a       *)
(* smaller transfer.                                                       *)
SetChunk(n) ==
    /\ Idle /\ Selected
    /\ chunk' = SetChunkTo(n, limit, chunk)
    /\ UNCHANGED <<kind, mode, limit, request>>

(* disk_select: the extended read where it works (a drive that denies the  *)
(* extensions is probed with real reads, which may fail), else CHS, else   *)
(* no interface at all, which leaves limit and chunk as they were.         *)
Select(k) ==
    /\ Idle
    /\ kind' = k
    /\ \/ k \in {"edd", "lba"} /\ mode' = "lba" /\ limit' = ChunkLimit
          /\ chunk' = SetChunkTo(chunk, ChunkLimit, chunk)
       \/ k \in {"lba", "chs"} /\ mode' = "chs" /\ limit' = Spt
          /\ chunk' = SetChunkTo(chunk, Spt, chunk)
       \/ k \in {"lba", "chs"} /\ mode' = "lba" /\ UNCHANGED <<limit, chunk>>
    /\ UNCHANGED request
-----------------------------------------------------------------------------
(* disk_lba_to_chs, the registers int13_read_chs loads, and the sector the *)
(* BIOS reads for them.                                                    *)
Cylinder(l) == l \div (Heads * Spt)
Addressable(l) == Cylinder(l) < Cyls /\ Cylinder(l) <= 1023
Registers(l) ==
    LET c == Cylinder(l)
    IN [ch |-> c % 256, cl |-> 64 * ((c \div 256) % 4) + (l % Spt) + 1, dh |-> (l \div Spt) % Heads]
SectorAt(r) == ((r.ch + 256 * (r.cl \div 64)) * Heads + r.dh) * Spt + (r.cl % 64) - 1

(* Mutant: the rest of the track counted from 1. *)
LeftInTrackOff(l) == Spt - (l % Spt) + 1

LeftInTrack(l) == Spt - (l % Spt)
-----------------------------------------------------------------------------
(* disk_read_lba: one request. *)
Request(l, c) ==
    /\ Idle /\ Selected
    /\ first' = l /\ wanted' = c
    /\ lba' = l /\ count' = c /\ pos' = 0
    /\ again' = FALSE /\ done' = 0 /\ refused' = 0
    /\ buf' = [i \in Slots |-> Old]
    /\ result' = IF c = 0 THEN "ok" ELSE "busy"
    /\ UNCHANGED <<kind, mode, limit, chunk>>

(* The sectors asked for in this call. *)
CallSize == IF again THEN 1 ELSE Least(count, chunk)

(* Sectors s, s+1, ... land in n slots of the buffer from slot p. *)
Deliver(p, n, s) == [i \in Slots |-> IF i \in p .. p + n - 1 THEN s + i - p ELSE buf[i]]

(* What AH=02h delivers for registers r: it does not go on to the next     *)
(* track by itself.                                                        *)
DeliverTrack(p, n, r) ==
    [i \in Slots |->
        IF i \notin p .. p + n - 1 THEN buf[i]
        ELSE IF (r.cl % 64) + (i - p) <= Spt THEN SectorAt(r) + i - p ELSE Garbage]

(* The call succeeded: on to the sectors after it. *)
Succeed(n) ==
    /\ lba' = lba + n /\ pos' = pos + n /\ count' = count - n
    /\ again' = FALSE /\ done' = 0 /\ refused' = 0
    /\ result' = IF count' = 0 THEN "ok" ELSE "busy"
    /\ UNCHANGED chunk

(* Mutant: one sector refused once is final. *)
RefusedOnce ==
    /\ done' = 0
    /\ refused' = IF CallSize = 1 THEN refused + 1 ELSE refused
    /\ IF CallSize > 1 THEN chunk' = CallSize \div 2 /\ UNCHANGED <<again, result>>
       ELSE result' = "error" /\ UNCHANGED <<chunk, again>>
    /\ UNCHANGED <<lba, pos, count>>

(* Mutant: a single sector is asked for until it is read. *)
RefusedForever ==
    /\ done' = 0 /\ refused' = 1
    /\ IF CallSize > 1 THEN chunk' = CallSize \div 2 ELSE UNCHANGED chunk
    /\ UNCHANGED <<lba, pos, count, again, result>>

(* The call failed, the controller is reset: halve, or ask for the single  *)
(* sector once more, or give up.                                           *)
Refused ==
    /\ done' = 0
    /\ refused' = IF CallSize = 1 THEN refused + 1 ELSE refused
    /\ IF again THEN result' = "error" /\ UNCHANGED <<chunk, again>>
       ELSE IF CallSize > 1 THEN chunk' = CallSize \div 2 /\ UNCHANGED <<again, result>>
       ELSE again' = TRUE /\ UNCHANGED <<chunk, result>>
    /\ UNCHANGED <<lba, pos, count>>

(* disk_int13_read with AH=42h; a drive that has only CHS refuses it. *)
ReadLba ==
    /\ result = "busy" /\ mode = "lba"
    /\ \/ kind # "chs" /\ buf' = Deliver(pos, CallSize, lba) /\ Succeed(CallSize)
       \/ /\ Refused
          /\ \/ UNCHANGED buf
             \/ buf' = [i \in Slots |-> IF i \in pos .. pos + CallSize - 1 THEN Garbage ELSE buf[i]]
    /\ UNCHANGED <<kind, mode, limit, first, wanted>>

(* int13_read_chs: one track of the call with AH=02h. *)
ReadTrack ==
    /\ result = "busy" /\ mode = "chs"
    /\ LET l == lba + done
           n == Least(CallSize - done, LeftInTrack(l))
       IN \/ /\ Addressable(l)
             /\ buf' = DeliverTrack(pos + done, n, Registers(l))
             /\ IF done + n = CallSize THEN Succeed(CallSize)
                ELSE done' = done + n /\ UNCHANGED <<lba, pos, count, again, result, chunk, refused>>
          \/ Refused /\ UNCHANGED buf
    /\ UNCHANGED <<kind, mode, limit, first, wanted>>

Call == ReadLba \/ ReadTrack

ReadNext ==
    \/ \E n \in 0 .. ChunkLimit + 1 : SetChunk(n)
    \/ \E k \in Kinds : Select(k)
    \/ \E l \in Lbas, c \in 0 .. MaxCount : Request(l, c)
    \/ Call

ReadSpec == ReadInit /\ [][ReadNext]_readVars

(* stage2 runs alone on the machine: a call returns and the loop goes on. *)
FairReadSpec == ReadSpec /\ WF_readVars(Call)
-----------------------------------------------------------------------------
(* Every variable keeps to its type. *)
TypeOK ==
    /\ kind \in Kinds \cup {"none"} /\ mode \in {"lba", "chs"}
    /\ limit \in Nat /\ chunk \in Nat
    /\ first \in Nat /\ wanted \in 0 .. MaxCount
    /\ lba \in Nat /\ count \in 0 .. MaxCount /\ pos \in 0 .. MaxCount
    /\ again \in BOOLEAN /\ done \in 0 .. MaxCount
    /\ buf \in [Slots -> Int] /\ result \in {"none", "busy", "ok", "error"}
    /\ refused \in 0 .. 2

(* A request that returns success has every sector of it in its place,     *)
(* whatever chunks, halvings, retries and tracks it took, and no request   *)
(* ever touches the buffer behind its own sectors.                         *)
ReadIsExact ==
    /\ result = "ok" => \A i \in 0 .. wanted - 1 : buf[i] = first + i
    /\ \A i \in Slots : i >= wanted => buf[i] = Old

(* No call asks for more than the drive's interface allows ("never above   *)
(* what the drive's BIOS interface allows"), also after the drive, the     *)
(* limit or the chunk changed between requests, and never for nothing.     *)
WithinInterface ==
    /\ chunk \in 1 .. limit
    /\ mode = "chs" => chunk <= Spt

(* "Only a failure at one sector, twice, is final": a request fails at a   *)
(* sector the BIOS refused twice in a row when asked for nothing else.     *)
FinalAfterTwo == result = "error" => refused = 2

(* Every request returns, whatever the BIOS refuses: the halving ends. *)
Returns == result = "busy" ~> result # "busy"
=============================================================================
