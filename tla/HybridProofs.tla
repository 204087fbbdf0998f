---------------------------- MODULE HybridProofs ----------------------------
(***************************************************************************)
(* Theorems about the journal of the HYBRID build, for disks, zones,       *)
(* limits and requests of any size, whatever malloc left in the records    *)
(* of the zones.                                                           *)
(***************************************************************************)
EXTENDS Hybrid, DiskProofs

-----------------------------------------------------------------------------
(* The locals of a commit.                                                 *)

JobRecord == [fid : Fid \cup {NoFid}, lba : Nat, next : Nat, rest : Nat,
              mode : {CMR, SMR}, skip : SUBSET Nat]
ScanRecord == [zone : 0 .. BandCount, slot : 0 .. BandTracks, half : {"read", "write"}]

LocalsOK == /\ job \in JobRecord /\ scan \in ScanRecord
            /\ pc \in {"commit", "checkpoint"} => job.fid \in Fid

LEMMA LimitOK == Limit \in 0 .. BandCount /\ LimitZones \subseteq Band
<1>1. BandCount * Percentage \in Nat /\ BandCount * Percentage <= BandCount * 100
  BY BandCountAssumption, PercentageAssumption
<1> QED BY <1>1, BandCountAssumption DEF Limit, LimitZones, Band

LEMMA PlacedFinite ==
  ASSUME LocalsOK, NEW m \in Nat
  PROVE  /\ Placed(m) \in SUBSET Nat /\ IsFiniteSet(Placed(m))
         /\ Cardinality(Placed(m)) \in Nat
<1>1. job.next \in Nat BY DEF LocalsOK, JobRecord
<1>2. IsFiniteSet(job.next .. job.next + m - 1) BY <1>1, FS_Interval
<1> QED BY <1>1, <1>2, FS_Subset, FS_CardinalityType DEF Placed

\* One more step of the loop places at most one more block.
LEMMA PlacedStep ==
  ASSUME LocalsOK, NEW m \in Nat
  PROVE  Cardinality(Placed(m + 1)) <= Cardinality(Placed(m)) + 1
<1> DEFINE P == Placed(m)
           x == job.next + m
<1>1. job.next \in Nat BY DEF LocalsOK, JobRecord
<1>2. Placed(m + 1) \subseteq P \cup {x} BY <1>1 DEF Placed
<1>3. IsFiniteSet(P) /\ Cardinality(P) \in Nat BY PlacedFinite
<1>4. x \notin P BY <1>1 DEF Placed
<1> HIDE DEF P, x
<1>5. IsFiniteSet(P \cup {x}) /\ Cardinality(P \cup {x}) = Cardinality(P) + 1
  BY <1>3, <1>4, FS_AddElement
<1>6. Cardinality(Placed(m + 1)) <= Cardinality(P \cup {x})
  <2>1. Placed(m + 1) \in SUBSET (P \cup {x}) BY <1>2
  <2> QED BY <1>5, <2>1, FS_Subset
<1> QED BY <1>3, <1>5, <1>6 DEF P

LEMMA PlacedNone ==
  ASSUME LocalsOK
  PROVE  Placed(0) = {} /\ Cardinality(Placed(0)) = 0
<1>1. job.next \in Nat BY DEF LocalsOK, JobRecord
<1>2. Placed(0) = {} BY <1>1 DEF Placed
<1> QED BY <1>2, FS_EmptySet

\* The steps that the loop makes in a zone with some room place no more
\* blocks than the room.
LEMMA TakenFits ==
  ASSUME LocalsOK, NEW z, Room(z) \in Nat
  PROVE  /\ Taken(z) \in 0 .. job.rest
         /\ Cardinality(Placed(Taken(z))) <= Room(z)
         /\ Taken(z) # job.rest => Cardinality(Placed(Taken(z))) = Room(z)
<1> DEFINE Stops == {m \in 0 .. job.rest : Cardinality(Placed(m)) = Room(z)}
<1>1. job.rest \in Nat BY DEF LocalsOK, JobRecord
<1>2. /\ Taken(z) \in {job.rest} \cup Stops
      /\ \A m \in Stops : Taken(z) <= m
  <2>1. {job.rest} \cup Stops \in SUBSET Nat BY <1>1
  <2> QED BY <2>1, MinNatural DEF Taken
<1>3. Taken(z) \in 0 .. job.rest BY <1>1, <1>2
<1>4. Cardinality(Placed(Taken(z))) <= Room(z)
  <2> DEFINE Over == {m \in 0 .. Taken(z) : ~ Cardinality(Placed(m)) <= Room(z)}
  <2> SUFFICES ASSUME Over # {} PROVE FALSE
    <3>1. Taken(z) \in 0 .. Taken(z) BY <1>3
    <3> QED BY <3>1
  <2>1. Over \in SUBSET Nat BY <1>3
  <2>2. PICK m \in Over : \A k \in Over : m <= k BY <2>1, LeastNatural
  <2>3. m # 0 BY PlacedNone
  <2>4. m - 1 \in 0 .. Taken(z) /\ m - 1 \in Nat /\ m = (m - 1) + 1 BY <1>3, <2>2, <2>3
  <2>5. Cardinality(Placed(m - 1)) <= Room(z) BY <2>2, <2>4
  <2>6. Cardinality(Placed(m)) <= Cardinality(Placed(m - 1)) + 1 BY <2>4, PlacedStep
  <2>7. Cardinality(Placed(m)) \in Nat /\ Cardinality(Placed(m - 1)) \in Nat
    BY <2>2, <2>4, PlacedFinite
  <2>8. Cardinality(Placed(m - 1)) = Room(z) BY <2>2, <2>5, <2>6, <2>7
  <2>9. m - 1 \in Stops BY <1>1, <1>3, <2>4, <2>8
  <2> QED BY <1>2, <1>3, <2>2, <2>4, <2>9
<1> QED BY <1>2, <1>3, <1>4

\* The blocks placed go to the slots behind the write head, one each.
LEMMA BlocksForSlots ==
  ASSUME LocalsOK, NEW z \in Band, zone[z].whp \in Nat, NEW m \in Nat
  PROVE  LET whp == zone[z].whp
             P == Placed(m)
         IN  /\ \A s \in whp .. whp + Cardinality(P) - 1 : BlockFor(z, s, m) \in P
             /\ \A l \in P : \E s \in whp .. whp + Cardinality(P) - 1 : BlockFor(z, s, m) = l
<1> DEFINE whp == zone[z].whp
           P == Placed(m)
<1>1. P \in SUBSET Nat /\ IsFiniteSet(P) /\ Cardinality(P) \in Nat BY PlacedFinite
<1>2. \A s : BlockFor(z, s, m) = CHOOSE l \in P : Rank(P, l) = s - whp
  BY DEF BlockFor, Rank
<1> HIDE DEF P, whp
<1>3. whp \in Nat BY DEF whp
<1>4. ASSUME NEW s \in whp .. whp + Cardinality(P) - 1
      PROVE  BlockFor(z, s, m) \in P /\ Rank(P, BlockFor(z, s, m)) = s - whp
  <2>1. s - whp \in 0 .. Cardinality(P) - 1 BY <1>1, <1>3
  <2>2. \E l \in P : Rank(P, l) = s - whp BY <1>1, <2>1, RankOnto
  <2> QED BY <1>2, <2>2
<1>5. ASSUME NEW l \in P
      PROVE  \E s \in whp .. whp + Cardinality(P) - 1 : BlockFor(z, s, m) = l
  <2> DEFINE s == whp + Rank(P, l)
  <2>1. Rank(P, l) \in 0 .. Cardinality(P) - 1 BY <1>1, RankType
  <2>2. s \in whp .. whp + Cardinality(P) - 1 /\ s - whp = Rank(P, l) BY <1>1, <1>3, <2>1
  <2>3. BlockFor(z, s, m) = l
    <3> DEFINE b == BlockFor(z, s, m)
    <3>1. b \in P /\ Rank(P, b) = Rank(P, l) BY <1>4, <2>2
    <3> HIDE DEF b
    <3>2. b = l BY <1>1, <3>1, RankInjective
    <3> QED BY <3>2 DEF b
  <2> QED BY <2>2, <2>3
<1> QED BY <1>4, <1>5 DEF P, whp

-----------------------------------------------------------------------------
(* The zones.                                                              *)

BlockRecord == [fid : Fid, lba : Nat, sealed : BOOLEAN]
ZonesType == zone \in [Band -> ZoneRecord]

\* The tracks of a zone in use are sealed as its type says, and a zone that is
\* not in use starts from its first track when it is taken again, whatever it
\* was before.
ZonesSealed ==
    \A z \in Band :
        /\ zone[z].online =>
              /\ \A s \in Slot : zone[z].blocks[s].sealed <=> Sealed(zone[z].type, s)
              /\ zone[z].type = CMR => zone[z].whp <= CMRTracks
        /\ ~ zone[z].online => zone[z].whp = 0

LEMMA CapacityOfZone ==
  ASSUME ZonesType, NEW z \in Band
  PROVE  /\ Capacity(z) \in zone[z].whp .. BandTracks
         /\ Room(z) \in Nat
         /\ Capacity(z) = zone[z].whp + Room(z)
         /\ \A s \in Slot : s >= zone[z].whp /\ zone[z].blocks[s].sealed => Capacity(z) <= s
<1> DEFINE C == {BandTracks} \cup {s \in Slot : s >= zone[z].whp /\ zone[z].blocks[s].sealed}
<1>1. zone[z].whp \in 0 .. BandTracks BY DEF ZonesType, ZoneRecord
<1>2. C \in SUBSET Nat BY BandTracksAssumption DEF Slot
<1>3. Capacity(z) \in C /\ \A s \in C : Capacity(z) <= s
  BY <1>2, MinNatural DEF Capacity
<1>4. Capacity(z) \in zone[z].whp .. BandTracks
  BY <1>1, <1>3, BandTracksAssumption DEF Slot
<1>5. Room(z) = Capacity(z) - zone[z].whp BY DEF Room
<1>6. \A s \in Slot : s >= zone[z].whp /\ zone[z].blocks[s].sealed => Capacity(z) <= s
  BY <1>3
<1> QED BY <1>1, <1>4, <1>5, <1>6, BandTracksAssumption

\* What a zone looks like after it took m steps of the request.
LEMMA FilledZone ==
  ASSUME LocalsOK, ZonesType, NEW z \in Band, NEW m \in Nat, job.fid \in Fid,
         Cardinality(Placed(m)) <= Room(z)
  PROVE  LET y == Filled(z, m)
         IN  /\ y \in ZoneRecord
             /\ y.whp = zone[z].whp + Cardinality(Placed(m))
             /\ y.online = zone[z].online /\ y.type = zone[z].type
             /\ \A s \in Slot : y.blocks[s].sealed = zone[z].blocks[s].sealed
             /\ \A s \in Slot :
                   IF s \in zone[z].whp .. y.whp - 1
                   THEN y.blocks[s].fid = job.fid /\ y.blocks[s].lba = BlockFor(z, s, m)
                   ELSE y.blocks[s] = zone[z].blocks[s]
<1>a. PICK whp : whp = zone[z].whp + Cardinality(Placed(m)) OBVIOUS
<1> DEFINE y == Filled(z, m)
           full == zone[z].full \/ whp = BandTracks \/ (whp = Capacity(z) /\ m < job.rest)
           blocks == [s \in Slot |->
               IF s \in zone[z].whp .. whp - 1
               THEN [zone[z].blocks[s] EXCEPT !.fid = job.fid, !.lba = BlockFor(z, s, m)]
               ELSE zone[z].blocks[s]]
<1>0. zone[z] \in ZoneRecord BY DEF ZonesType
<1>1. y = [zone[z] EXCEPT !.whp = whp, !.full = full, !.blocks = blocks]
  BY <1>a DEF Filled
<1>2. /\ zone[z].whp \in Nat /\ whp \in 0 .. BandTracks
  <2>1. zone[z].whp \in Nat BY <1>0 DEF ZoneRecord
  <2>2. Cardinality(Placed(m)) \in Nat BY PlacedFinite
  <2> QED BY <1>a, <2>1, <2>2, CapacityOfZone, BandTracksAssumption
<1>3. \A s \in zone[z].whp .. whp - 1 : BlockFor(z, s, m) \in Nat
  <2>1. \A s \in zone[z].whp .. whp - 1 : BlockFor(z, s, m) \in Placed(m)
    <3>1. \A s \in zone[z].whp .. zone[z].whp + Cardinality(Placed(m)) - 1 :
             BlockFor(z, s, m) \in Placed(m)
      BY <1>2, BlocksForSlots
    <3>2. zone[z].whp .. zone[z].whp + Cardinality(Placed(m)) - 1 = zone[z].whp .. whp - 1
      <4>1. zone[z].whp + Cardinality(Placed(m)) - 1 = whp - 1
        <5>1. Cardinality(Placed(m)) \in Nat BY PlacedFinite
        <5> QED BY <1>a, <1>2, <5>1, BandTracksAssumption
      <4> QED BY <4>1
    <3> QED BY <3>1, <3>2
  <2>2. \A l \in Placed(m) : l \in Nat BY PlacedFinite
  <2> QED BY <2>1, <2>2
<1>4. \A s \in Slot : zone[z].blocks[s] \in BlockRecord
  BY <1>0 DEF ZoneRecord, BlockRecord
<1>5. ASSUME NEW s \in Slot
      PROVE  /\ blocks[s] \in BlockRecord
             /\ blocks[s].sealed = zone[z].blocks[s].sealed
             /\ IF s \in zone[z].whp .. whp - 1
                THEN blocks[s].fid = job.fid /\ blocks[s].lba = BlockFor(z, s, m)
                ELSE blocks[s] = zone[z].blocks[s]
  <2>1. zone[z].blocks[s] \in BlockRecord BY <1>4
  <2>2. CASE s \in zone[z].whp .. whp - 1
    <3>1. blocks[s] = [zone[z].blocks[s] EXCEPT !.fid = job.fid, !.lba = BlockFor(z, s, m)]
      BY <2>2
    <3>2. BlockFor(z, s, m) \in Nat BY <1>3, <2>2
    <3> HIDE DEF blocks
    <3> QED BY <2>1, <2>2, <3>1, <3>2 DEF BlockRecord
  <2>3. CASE s \notin zone[z].whp .. whp - 1 BY <2>1, <2>3
  <2> QED BY <2>2, <2>3
<1>6. blocks \in [Slot -> BlockRecord] BY <1>5
<1>7. full \in BOOLEAN BY <1>0 DEF ZoneRecord
<1> HIDE DEF blocks, full, y
<1>8. /\ y \in ZoneRecord /\ y.whp = whp /\ y.blocks = blocks
      /\ y.online = zone[z].online /\ y.type = zone[z].type
  BY <1>0, <1>1, <1>2, <1>6, <1>7 DEF ZoneRecord, BlockRecord
<1> QED BY <1>a, <1>5, <1>8 DEF y

\* A CMR zone never goes beyond its tracks: the first sealed one is its end.
LEMMA FilledWithinTracks ==
  ASSUME LocalsOK, ZonesType, ZonesSealed, NEW z \in Band, zone[z].online,
         zone[z].type = CMR
  PROVE  Capacity(z) <= CMRTracks
<1>1. zone[z].whp <= CMRTracks BY DEF ZonesSealed
<1>2. Capacity(z) \in Nat /\ Capacity(z) <= BandTracks
  BY CapacityOfZone, BandTracksAssumption DEF ZonesType, ZoneRecord
<1>3. CASE CMRTracks = BandTracks BY <1>2, <1>3
<1>4. CASE CMRTracks # BandTracks
  <2>1. CMRTracks \in Slot BY <1>4, CMRTracksAssumption, BandTracksAssumption DEF Slot
  <2>2. Sealed(CMR, CMRTracks) BY CMRTracksAssumption DEF Sealed
  <2>3. zone[z].blocks[CMRTracks].sealed BY <2>1, <2>2 DEF ZonesSealed
  <2>4. CMRTracks >= zone[z].whp
    BY <1>1, CMRTracksAssumption DEF ZonesType, ZoneRecord
  <2> QED BY <2>1, <2>3, <2>4, CapacityOfZone
<1> QED BY <1>3, <1>4

-----------------------------------------------------------------------------
(* The disk below, one request at a time.                                  *)

\* A track that was written once: in use, or freed by a delete.
Settled(t) == storage[t].status \in {"in_use", "invalid"}

DiskKept == /\ DiskTypeOK' /\ IdentityMapping' /\ NeverAborts'
            /\ \A t \in Track : Settled(t) => Settled(t)'

LEMMA ReadKeeps ==
  ASSUME DiskTypeOK, IdentityMapping, NeverAborts,
         NEW l \in Nat, NEW k \in Nat, NEW fid \in Fid, LbaRead(l, k, fid)
  PROVE  DiskKept /\ UNCHANGED ltp
<1>1. DiskTypeOK' BY ReadType
<1>2. UNCHANGED <<storage, ltp, band, aborted>> BY ReadEffect
<1> QED BY <1>1, <1>2 DEF DiskKept, IdentityMapping, NeverAborts, Settled

LEMMA WriteKeeps ==
  ASSUME DiskTypeOK, IdentityMapping, NeverAborts,
         NEW l \in Nat, NEW k \in Nat, NEW fid \in Fid, LbaWrite(l, k, fid)
  PROVE  /\ DiskKept
         /\ \A b \in Lba : ltp[b].valid => ltp'[b].valid
         /\ InRange(l, k) => \A t \in Blocks(l, k) : Settled(t)' /\ ltp'[t].valid
<1> DEFINE G == Granted(l, k, fid)
<1>1. DiskTypeOK' /\ IdentityMapping' BY WriteType, WriteIdentity
<1>2. /\ storage' = [t \in Track |->
            IF t \in G THEN [status |-> "in_use", lba |-> t, count |-> storage[t].count + 1]
            ELSE storage[t]]
      /\ ltp' = [b \in Lba |-> IF b \in G THEN [valid |-> TRUE, fid |-> fid, pba |-> b]
                               ELSE ltp[b]]
      /\ aborted' = aborted
  BY WriteEffect
<1>3. ASSUME InRange(l, k), NEW t \in Blocks(l, k)
      PROVE  t \in Lba /\ (t \notin G => ltp[t].valid)
  <2>1. t \in Lba BY <1>3, BlocksOfRequest
  <2> QED BY <1>3, <2>1 DEF Granted, IsInvalidWrite
<1> HIDE DEF G
<1>4. \A t \in Track : Settled(t) => Settled(t)' BY <1>2 DEF Settled
<1>5. \A b \in Lba : ltp[b].valid => ltp'[b].valid BY <1>2
<1>6. ASSUME InRange(l, k), NEW t \in Blocks(l, k)
      PROVE  Settled(t)' /\ ltp'[t].valid
  <2>1. t \in Lba /\ (t \notin G => ltp[t].valid) BY <1>3, <1>6
  <2>2. ltp'[t].valid BY <1>2, <2>1
  <2>3. t \in Track BY <2>1 DEF Lba, Track
  <2>4. storage'[t].status = "in_use" BY <1>1, <2>2, <2>3 DEF IdentityMapping
  <2> QED BY <2>2, <2>4 DEF Settled
<1> QED BY <1>1, <1>2, <1>4, <1>5, <1>6 DEF DiskKept, NeverAborts

LEMMA DeleteKeeps ==
  ASSUME DiskTypeOK, IdentityMapping, NeverAborts, NEW fid \in Fid, LbaDelete(fid)
  PROVE  DiskKept
<1>1. DiskTypeOK' /\ IdentityMapping' BY DeleteType, DeleteIdentity
<1>2. NeverAborts' BY DeleteEffect DEF NeverAborts
<1>3. \A t \in Track : Settled(t) => Settled(t)'
  <2> SUFFICES ASSUME NEW t \in Track, Settled(t) PROVE Settled(t)' OBVIOUS
  <2>1. CASE t \in Owned(fid) BY <2>1, DeletedEntries DEF Settled
  <2>2. CASE t \notin Owned(fid) BY <2>2, DeletedEntries DEF Settled
  <2> QED BY <2>1, <2>2
<1> QED BY <1>1, <1>2, <1>3 DEF DiskKept

LEMMA SlotTrack ==
  ASSUME NEW z \in Band, NEW s \in Slot
  PROVE  BandHead(z) + s \in Track
<1>1. BandHead(z) + s \in TracksOf(z)
  BY BandTracksAssumption, BandCountAssumption DEF TracksOf, Slot, BandHead, Band
<1> QED BY <1>1, BandWithinDisk

-----------------------------------------------------------------------------
(***************************************************************************)
(* The inductive invariant.                                                *)
(***************************************************************************)
ControlType ==
    /\ ZonesType
    /\ zoneCount \in 0 .. CountModulus - 1
    /\ pc \in {"lines", "commit", "checkpoint", "final", "done", "failed"}
    /\ left \in 0 .. NumTraces

HybridInv == /\ DiskTypeOK /\ IdentityMapping /\ NeverAborts
             /\ ControlType /\ LocalsOK
             /\ JournalIsPrefix /\ ZonesSealed /\ JournalOnDisk

LEMMA LineCounts ==
  ASSUME ControlType, Line
  PROVE  left' \in 0 .. NumTraces
BY HybridNumTracesAssumption DEF ControlType, Line

\* A request to the disk that leaves the zones alone.
LEMMA ZonesAlone ==
  ASSUME HybridInv, DiskKept, UNCHANGED <<zone, zoneCount, job, pc>>,
         left' \in 0 .. NumTraces, scan' \in ScanRecord, scan'.zone = scan.zone
  PROVE  HybridInv'
<1>1. ControlType' BY DEF HybridInv, ControlType, ZonesType
<1>2. LocalsOK' BY DEF HybridInv, LocalsOK
<1>3. JournalIsPrefix' BY DEF HybridInv, JournalIsPrefix, Journal
<1>4. ZonesSealed' BY DEF HybridInv, ZonesSealed
<1>5. JournalOnDisk'
  BY SlotTrack DEF HybridInv, JournalOnDisk, Journal, DiskKept, Settled
<1> QED BY <1>1, <1>2, <1>3, <1>4, <1>5 DEF HybridInv, DiskKept

\* A step that leaves the disk and the zones alone.
LEMMA DiskAlone ==
  ASSUME HybridInv, UNCHANGED <<storage, ltp, band, report, ret, aborted>>
  PROVE  DiskTypeOK' /\ IdentityMapping' /\ NeverAborts' /\ DiskKept
BY DEF HybridInv, DiskTypeOK, IdentityMapping, NeverAborts, DiskKept, Settled

LEMMA ZonesKept ==
  ASSUME HybridInv, UNCHANGED <<zone, storage>>
  PROVE  ZonesSealed' /\ JournalOnDisk' /\ ZonesType'
BY DEF HybridInv, ControlType, ZonesType, ZonesSealed, JournalOnDisk, Journal

LEMMA InitHybrid == Init => HybridInv
<1> SUFFICES ASSUME Init PROVE HybridInv OBVIOUS
<1>1. DiskTypeOK /\ IdentityMapping /\ NeverAborts
  BY InitType, InitIdentity DEF Init, DiskInit, NeverAborts
<1>2. PICK g \in Garbage :
         zone = [z \in Band |->
                   [online |-> FALSE, full |-> FALSE, journaling |-> FALSE,
                    type |-> CMR, whp |-> 0,
                    blocks |-> [s \in Slot |-> [fid |-> g.fid, lba |-> g.lba, sealed |-> FALSE]]]]
  BY DEF Init
<1>3. g.fid \in Fid /\ g.lba \in Nat BY HybridInputsAssumption
<1>4. ZonesType BY <1>2, <1>3, BandTracksAssumption DEF ZonesType, ZoneRecord
<1>5. \A z \in Band : ~ zone[z].online /\ zone[z].whp = 0 BY <1>2
<1>6. ControlType
  BY <1>4, CountModulusAssumption, BandCountAssumption, HybridNumTracesAssumption
  DEF ControlType, Init
<1>7. LocalsOK
  BY BandCountAssumption, BandTracksAssumption
  DEF Init, LocalsOK, NoJob, NoScan, JobRecord, ScanRecord
<1>8. JournalIsPrefix BY <1>5, LimitOK, BandCountAssumption DEF Init, JournalIsPrefix, Journal, Band
<1>9. ZonesSealed /\ JournalOnDisk BY <1>5 DEF ZonesSealed, JournalOnDisk, Journal
<1> QED BY <1>1, <1>6, <1>7, <1>8, <1>9 DEF HybridInv

-----------------------------------------------------------------------------
(* The lines of the trace.                                                 *)

LEMMA ReadLineStep ==
  ASSUME HybridInv, NEW fid \in Fid, NEW r \in ReadRanges, ReadLine(r[1], r[2], fid)
  PROVE  HybridInv'
<1>1. r[1] \in Nat /\ r[2] \in Nat BY HybridInputsAssumption
<1>2. DiskKept BY <1>1, ReadKeeps DEF HybridInv, ReadLine
<1>3. left' \in 0 .. NumTraces BY LineCounts DEF HybridInv, ReadLine
<1>4. UNCHANGED <<zone, zoneCount, job, scan, pc>> BY DEF ReadLine
<1>5. scan' \in ScanRecord BY <1>4 DEF HybridInv, LocalsOK
<1> QED BY <1>2, <1>3, <1>4, <1>5, ZonesAlone

LEMMA DeleteLineStep ==
  ASSUME HybridInv, NEW fid \in Fid, DeleteLine(fid)
  PROVE  HybridInv'
<1>2. DiskKept BY DeleteKeeps DEF HybridInv, DeleteLine
<1>3. left' \in 0 .. NumTraces BY LineCounts DEF HybridInv, DeleteLine
<1>4. UNCHANGED <<zone, zoneCount, job, scan, pc>> BY DEF DeleteLine
<1>5. scan' \in ScanRecord BY <1>4 DEF HybridInv, LocalsOK
<1> QED BY <1>2, <1>3, <1>4, <1>5, ZonesAlone

LEMMA OtherLineStep ==
  ASSUME HybridInv, OtherLine
  PROVE  HybridInv'
<1>2. DiskKept BY DiskAlone DEF OtherLine, diskVars
<1>3. left' \in 0 .. NumTraces BY LineCounts DEF HybridInv, OtherLine
<1>4. UNCHANGED <<zone, zoneCount, job, scan, pc>> BY DEF OtherLine
<1>5. scan' \in ScanRecord BY <1>4 DEF HybridInv, LocalsOK
<1> QED BY <1>2, <1>3, <1>4, <1>5, ZonesAlone

LEMMA WriteLineStep ==
  ASSUME HybridInv, NEW fid \in Fid, NEW r \in WriteRanges, WriteLine(r[1], r[2], fid)
  PROVE  HybridInv'
<1>1. r[1] \in Nat /\ r[2] \in Nat BY HybridInputsAssumption
<1>2. UNCHANGED diskVars /\ UNCHANGED <<zone, zoneCount, scan>> /\ pc = "lines"
  BY DEF WriteLine, Line
<1>3. DiskTypeOK' /\ IdentityMapping' /\ NeverAborts' BY <1>2, DiskAlone DEF diskVars
<1>4. ZonesSealed' /\ JournalOnDisk' /\ ZonesType' BY <1>2, ZonesKept DEF diskVars
<1>5. left' \in 0 .. NumTraces BY LineCounts DEF HybridInv, WriteLine
<1>6. /\ pc' \in {"lines", "commit"} /\ job' \in JobRecord
      /\ pc' = "commit" => job'.fid \in Fid
  <2>1. CASE r[2] = 0
    BY <1>2, <2>1 DEF WriteLine, HybridInv, LocalsOK
  <2>2. CASE r[2] # 0
    <3>1. PICK skip \in SUBSET Blocks(r[1], r[2]) :
            job' = [fid |-> fid, lba |-> r[1], next |-> r[1], rest |-> r[2],
                    mode |-> CommitMode(r[2]), skip |-> skip]
      BY <2>2 DEF WriteLine
    <3>2. skip \in SUBSET Nat BY <1>1 DEF Blocks
    <3>3. CommitMode(r[2]) \in {CMR, SMR} BY DEF CommitMode, CMR, SMR
    <3>4. pc' = "commit" BY <2>2 DEF WriteLine
    <3> QED BY <1>1, <3>1, <3>2, <3>3, <3>4 DEF JobRecord
  <2> QED BY <2>1, <2>2
<1>7. ControlType' BY <1>2, <1>4, <1>5, <1>6 DEF HybridInv, ControlType
<1>8. LocalsOK' BY <1>2, <1>6 DEF HybridInv, LocalsOK
<1>9. JournalIsPrefix' BY <1>2, <1>6 DEF HybridInv, JournalIsPrefix, Journal
<1> QED BY <1>3, <1>4, <1>7, <1>8, <1>9 DEF HybridInv

\* The end of the trace, at a good or a bad line.
LEMMA EndStep ==
  ASSUME HybridInv, BadLine \/ EndOfTrace
  PROVE  HybridInv'
<1>2. /\ UNCHANGED diskVars /\ UNCHANGED <<zone, zoneCount, job>>
      /\ pc' \in {"failed", "final"} /\ scan' \in {scan, NoScan}
  BY DEF BadLine, EndOfTrace
<1>3. DiskTypeOK' /\ IdentityMapping' /\ NeverAborts' BY <1>2, DiskAlone DEF diskVars
<1>4. ZonesSealed' /\ JournalOnDisk' /\ ZonesType' BY <1>2, ZonesKept DEF diskVars
<1>5. left' \in 0 .. NumTraces
  BY LineCounts DEF HybridInv, BadLine, EndOfTrace, ControlType
<1>6. ControlType' BY <1>2, <1>4, <1>5 DEF HybridInv, ControlType
<1>7. LocalsOK'
  BY <1>2, BandCountAssumption, BandTracksAssumption
  DEF HybridInv, LocalsOK, NoScan, ScanRecord
<1>8. JournalIsPrefix' BY <1>2 DEF JournalIsPrefix
<1> QED BY <1>3, <1>4, <1>6, <1>7, <1>8 DEF HybridInv

-----------------------------------------------------------------------------
(* The commit.                                                             *)

\* What a step of the commit does to a zone and to the disk.
LEMMA FillZoneEffect ==
  ASSUME HybridInv, FillZone
  PROVE  \E z \in Band, m \in 0 .. job.rest :
            /\ zone[z].online
            /\ Cardinality(Placed(m)) <= Room(z)
            /\ zone' = [zone EXCEPT ![z] = Filled(z, m)]
            /\ LbaWrite(JournalLba(z), Cardinality(Placed(m)), job.fid)
            /\ m = job.rest => pc' = "lines" /\ job' = NoJob /\ scan' = NoScan
            /\ m # job.rest => /\ job' = [job EXCEPT !.next = @ + m, !.rest = @ - m]
                               /\ scan' = [scan EXCEPT !.zone = z + 1] /\ pc' = pc
                               /\ z < Limit
<1> DEFINE z == Min(Candidates)
           m == Taken(z)
<1>1. Candidates \in SUBSET Band /\ Candidates # {} BY LimitOK DEF Candidates, FillZone
<1>2. Candidates \in SUBSET Nat BY <1>1 DEF Band
<1>3. z \in Candidates BY <1>1, <1>2, MinNatural
<1>4. z \in Band /\ zone[z].online /\ z < Limit
  BY <1>1, <1>3 DEF Candidates, Eligible, LimitZones
<1>5. Room(z) \in Nat BY <1>4, CapacityOfZone DEF HybridInv, ControlType
<1>6. m \in 0 .. job.rest /\ Cardinality(Placed(m)) <= Room(z)
  BY <1>5, TakenFits DEF HybridInv
<1>7. /\ zone' = [zone EXCEPT ![z] = Filled(z, m)]
      /\ LbaWrite(JournalLba(z), Cardinality(Placed(m)), job.fid)
      /\ m = job.rest => pc' = "lines" /\ job' = NoJob /\ scan' = NoScan
      /\ m # job.rest => /\ job' = [job EXCEPT !.next = @ + m, !.rest = @ - m]
                         /\ scan' = [scan EXCEPT !.zone = z + 1] /\ pc' = pc
  BY DEF FillZone
<1> HIDE DEF z, m
<1> QED BY <1>4, <1>6, <1>7

LEMMA FillZoneStep ==
  ASSUME HybridInv, FillZone
  PROVE  HybridInv'
<1>1. PICK z \in Band, m \in 0 .. job.rest :
            /\ zone[z].online
            /\ Cardinality(Placed(m)) <= Room(z)
            /\ zone' = [zone EXCEPT ![z] = Filled(z, m)]
            /\ LbaWrite(JournalLba(z), Cardinality(Placed(m)), job.fid)
            /\ m = job.rest => pc' = "lines" /\ job' = NoJob /\ scan' = NoScan
            /\ m # job.rest => /\ job' = [job EXCEPT !.next = @ + m, !.rest = @ - m]
                               /\ scan' = [scan EXCEPT !.zone = z + 1] /\ pc' = pc
                               /\ z < Limit
  BY FillZoneEffect
<1>2. /\ pc = "commit" /\ job.fid \in Fid /\ job \in JobRecord /\ scan \in ScanRecord
      /\ UNCHANGED <<zoneCount, left>>
  BY DEF FillZone, HybridInv, LocalsOK
<1>3. m \in Nat /\ job.rest \in Nat BY <1>1, <1>2 DEF JobRecord
<1>4. Cardinality(Placed(m)) \in Nat BY <1>3, PlacedFinite DEF HybridInv
<1>5. LET y == Filled(z, m)
      IN  /\ y \in ZoneRecord
          /\ y.whp = zone[z].whp + Cardinality(Placed(m))
          /\ y.online = zone[z].online /\ y.type = zone[z].type
          /\ \A s \in Slot : y.blocks[s].sealed = zone[z].blocks[s].sealed
  BY <1>1, <1>2, <1>3, FilledZone DEF HybridInv, ControlType
<1>6. zone[z].whp \in Nat /\ zone[z].whp + Room(z) <= BandTracks
  BY CapacityOfZone, BandTracksAssumption DEF HybridInv, ControlType, ZonesType, ZoneRecord
<1>7. zone \in [Band -> ZoneRecord] BY DEF HybridInv, ControlType, ZonesType
<1>8. zone' \in [Band -> ZoneRecord] /\ zone'[z] = Filled(z, m)
      /\ \A y \in Band \ {z} : zone'[y] = zone[y]
  BY <1>1, <1>5, <1>7
<1>9. Journal' = Journal
  <2>1. \A y \in Band : zone'[y].online = zone[y].online BY <1>5, <1>8
  <2> QED BY <2>1 DEF Journal
<1>10. /\ pc' \in {"lines", "commit"} /\ job' \in JobRecord /\ scan' \in ScanRecord
       /\ pc' = "commit" => job'.fid \in Fid
  <2>1. CASE m = job.rest
    BY <1>1, <2>1, BandCountAssumption, BandTracksAssumption
    DEF NoJob, NoScan, JobRecord, ScanRecord
  <2>2. CASE m # job.rest
    <3>1. z + 1 \in 0 .. BandCount BY BandCountAssumption DEF Band
    <3>2. job.next + m \in Nat /\ job.rest - m \in Nat BY <1>1, <1>2, <1>3 DEF JobRecord
    <3> QED BY <1>1, <1>2, <2>2, <3>1, <3>2 DEF JobRecord, ScanRecord
  <2> QED BY <2>1, <2>2
<1>11. JournalLba(z) \in Nat /\ JournalLba(z) = BandHead(z) + zone[z].whp
  BY <1>6, BandCountAssumption, BandTracksAssumption DEF JournalLba, BandHead, Band
<1>12. /\ DiskKept
       /\ InRange(JournalLba(z), Cardinality(Placed(m))) =>
             \A t \in Blocks(JournalLba(z), Cardinality(Placed(m))) : Settled(t)'
  BY <1>1, <1>2, <1>4, <1>11, WriteKeeps DEF HybridInv
<1>13. ControlType' BY <1>2, <1>8, <1>10 DEF HybridInv, ControlType, ZonesType
<1>14. LocalsOK' BY <1>10 DEF LocalsOK
<1>15. JournalIsPrefix'
  BY <1>2, <1>9, <1>10 DEF HybridInv, JournalIsPrefix
<1>16. ZonesSealed'
  <2>1. ASSUME zone[z].type = CMR PROVE Filled(z, m).whp <= CMRTracks
    <3>1. zone[z].whp + Room(z) <= CMRTracks
      BY <1>1, <2>1, FilledWithinTracks, CapacityOfZone DEF HybridInv, ControlType
    <3>2. Room(z) \in Nat BY CapacityOfZone DEF HybridInv, ControlType
    <3> QED BY <1>1, <1>4, <1>5, <1>6, <3>1, <3>2, CMRTracksAssumption
  <2>2. ASSUME NEW y \in Band
        PROVE  /\ zone'[y].online =>
                    /\ \A s \in Slot : zone'[y].blocks[s].sealed <=> Sealed(zone'[y].type, s)
                    /\ zone'[y].type = CMR => zone'[y].whp <= CMRTracks
               /\ ~ zone'[y].online => zone'[y].whp = 0
    <3>1. CASE y # z BY <1>8, <3>1 DEF HybridInv, ZonesSealed
    <3>2. CASE y = z BY <1>1, <1>5, <1>8, <2>1, <3>2 DEF HybridInv, ZonesSealed
    <3> QED BY <3>1, <3>2
  <2>3. \A y \in Band, s \in Slot : Sealed(zone'[y].type, s) = Sealed(zone[y].type, s)'
    BY DEF Sealed, CMR
  <2> QED BY <2>2, <2>3 DEF ZonesSealed, Sealed, CMR
<1>17. JournalOnDisk'
  <2> SUFFICES ASSUME NEW y \in Journal', NEW s \in Slot, s < zone'[y].whp
               PROVE  Settled(BandHead(y) + s)'
    BY DEF JournalOnDisk, Settled
  <2>1. y \in Journal /\ y \in Band BY <1>9 DEF Journal
  <2>2. CASE s < zone[y].whp
    <3>1. Settled(BandHead(y) + s) BY <2>1, <2>2 DEF HybridInv, JournalOnDisk, Settled
    <3> QED BY <1>12, <2>1, <3>1, SlotTrack DEF DiskKept
  <2>3. CASE ~ s < zone[y].whp
    <3>1. y = z BY <1>8, <2>1, <2>3
    <3>2. s \in zone[z].whp .. zone[z].whp + Cardinality(Placed(m)) - 1
      BY <1>4, <1>5, <1>6, <1>8, <2>3, <3>1, BandTracksAssumption DEF Slot
    <3>3. BandHead(z) + BandTracks <= MaxBlock /\ BandHead(z) \in Nat
      <4>1. z \in Nat /\ z + 1 <= BandCount BY BandCountAssumption DEF Band
      <4>2. (z + 1) * BandTracks <= BandCount * BandTracks
        BY <4>1, BandCountAssumption, BandTracksAssumption
      <4> QED BY <4>1, <4>2, BandTracksAssumption DEF BandHead, MaxBlock
    <3>4. InRange(JournalLba(z), Cardinality(Placed(m)))
      <4>1. Room(z) \in Nat BY CapacityOfZone DEF HybridInv, ControlType
      <4> QED BY <1>1, <1>4, <1>6, <1>11, <3>2, <3>3, <4>1, MaxBlockPositive, BandTracksAssumption
          DEF InRange
    <3>5. BandHead(y) + s \in Blocks(JournalLba(z), Cardinality(Placed(m)))
      BY <1>4, <1>6, <1>11, <3>1, <3>2, <3>3 DEF Blocks
    <3> QED BY <1>12, <3>4, <3>5
  <2> QED BY <2>2, <2>3
<1> QED BY <1>12, <1>13, <1>14, <1>15, <1>16, <1>17 DEF HybridInv, DiskKept

-----------------------------------------------------------------------------
(* Another zone, or a checkpoint.                                          *)

\* While the journal is below its limit, the zone that is taken is the one
\* behind it.
LEMMA NextOffline ==
  ASSUME HybridInv, pc = "commit", MayAllocate
  PROVE  /\ Offline # {} /\ Min(Offline) = zoneCount /\ zoneCount \in Band
         /\ zoneCount + 1 <= Limit /\ (zoneCount + 1) % CountModulus = zoneCount + 1
<1>1. zoneCount \in Nat /\ zoneCount < Limit
  BY CountModulusAssumption DEF HybridInv, ControlType, MayAllocate
<1>2. Limit \in Nat /\ Limit <= BandCount BY LimitOK, BandCountAssumption
<1>3. zoneCount \in Band BY <1>1, <1>2, BandCountAssumption DEF Band
<1>4. \A z \in Band : zone[z].online <=> z < zoneCount
  BY DEF HybridInv, JournalIsPrefix, Journal
<1>5. zoneCount \in Offline
  <2>1. ~ zoneCount < zoneCount BY <1>1
  <2> QED BY <1>3, <1>4, <2>1 DEF Offline
<1>6. \A z \in Offline : zoneCount <= z
  BY <1>1, <1>4, BandCountAssumption DEF Offline, Band
<1>7. Offline \in SUBSET Nat BY BandCountAssumption DEF Offline, Band
<1>8. Min(Offline) \in Offline /\ \A z \in Offline : Min(Offline) <= z
  BY <1>5, <1>7, MinNatural
<1>9. Min(Offline) = zoneCount
  <2>1. Min(Offline) \in Nat BY <1>7, <1>8
  <2>2. Min(Offline) <= zoneCount /\ zoneCount <= Min(Offline) BY <1>5, <1>6, <1>8
  <2> QED BY <1>1, <2>1, <2>2
<1>10. (zoneCount + 1) % CountModulus = zoneCount + 1
  BY <1>1, <1>2, CountModulusAssumption, BandCountAssumption
<1> QED BY <1>1, <1>2, <1>3, <1>5, <1>9, <1>10

LEMMA AllocateZoneStep ==
  ASSUME HybridInv, AllocateZone
  PROVE  HybridInv'
<1> PICK c : c = zoneCount OBVIOUS
<1>1. /\ pc = "commit" /\ MayAllocate /\ pc' = pc
      /\ UNCHANGED diskVars /\ UNCHANGED <<job, left>> /\ scan' = NoScan
  BY DEF AllocateZone
<1>2. /\ Offline # {} /\ Min(Offline) = c /\ c \in Band
      /\ c + 1 <= Limit /\ (c + 1) % CountModulus = c + 1
  BY <1>1, NextOffline
<1>3. PICK blocks : blocks = [s \in Slot |->
          [zone[c].blocks[s] EXCEPT !.sealed = Sealed(job.mode, s)]]
  OBVIOUS
<1>4. zone \in [Band -> ZoneRecord] /\ job.mode \in {CMR, SMR}
  BY DEF HybridInv, ControlType, ZonesType, LocalsOK, JobRecord
<1>5. /\ blocks \in [Slot -> BlockRecord]
      /\ \A s \in Slot : blocks[s].sealed = Sealed(job.mode, s)
  <2>1. \A s \in Slot : zone[c].blocks[s] \in BlockRecord
    BY <1>2, <1>4 DEF ZoneRecord, BlockRecord
  <2>2. \A s \in Slot : Sealed(job.mode, s) \in BOOLEAN BY DEF Sealed
  <2> QED BY <1>3, <2>1, <2>2 DEF BlockRecord
<1>6. PICK y : y = [zone[c] EXCEPT !.online = TRUE, !.journaling = TRUE,
                                   !.type = job.mode, !.blocks = blocks]
  OBVIOUS
<1>7. zone' = [zone EXCEPT ![c] = y] /\ zoneCount' = c + 1
  BY <1>2, <1>3, <1>4, <1>6 DEF AllocateZone
<1>8. /\ y \in ZoneRecord /\ y.online = TRUE /\ y.type = job.mode /\ y.whp = zone[c].whp
      /\ y.blocks = blocks
  BY <1>2, <1>4, <1>5, <1>6 DEF ZoneRecord, BlockRecord
<1>9. c \notin Journal /\ zone[c].whp = 0
  <2>1. ~ zone[c].online
    <3>1. Offline \in SUBSET Nat BY BandCountAssumption DEF Offline, Band
    <3>2. c \in Offline BY <1>2, <3>1, MinNatural
    <3> QED BY <3>2 DEF Offline
  <2> QED BY <1>2, <2>1 DEF HybridInv, ZonesSealed, Journal
<1>10. /\ zone' \in [Band -> ZoneRecord] /\ zone'[c] = y
       /\ \A z \in Band \ {c} : zone'[z] = zone[z]
  BY <1>2, <1>4, <1>7, <1>8
<1>11. DiskTypeOK' /\ IdentityMapping' /\ NeverAborts' BY <1>1, DiskAlone DEF diskVars
<1>12. ControlType'
  <2>1. c \in Nat /\ Limit \in Nat /\ Limit <= BandCount
    BY <1>2, LimitOK, BandCountAssumption DEF Band
  <2>2. zoneCount' \in 0 .. CountModulus - 1
    BY <1>2, <1>7, <2>1, CountModulusAssumption, BandCountAssumption
  <2> QED BY <1>1, <1>10, <2>2 DEF HybridInv, ControlType, ZonesType
<1>13. LocalsOK'
  BY <1>1, BandCountAssumption, BandTracksAssumption
  DEF HybridInv, LocalsOK, NoScan, ScanRecord
<1>14. Journal' = Journal \cup {c}
  BY <1>2, <1>8, <1>10 DEF Journal
<1>15. JournalIsPrefix'
  <2>1. c \in Nat BY <1>2, BandCountAssumption DEF Band
  <2>2. \A z \in Band : z < c + 1 <=> z < c \/ z = c BY <2>1, BandCountAssumption DEF Band
  <2>3. Journal = {z \in Band : z < c} BY <1>1 DEF HybridInv, JournalIsPrefix
  <2>4. Journal' = {z \in Band : z < zoneCount'} BY <1>2, <1>7, <1>14, <2>2, <2>3
  <2> QED BY <1>1, <1>2, <1>7, <2>4, LimitOK DEF JournalIsPrefix, Limit
<1>16. ZonesSealed'
  <2>1. ASSUME NEW z \in Band
        PROVE  /\ zone'[z].online =>
                    /\ \A s \in Slot : zone'[z].blocks[s].sealed <=> Sealed(zone'[z].type, s)
                    /\ zone'[z].type = CMR => zone'[z].whp <= CMRTracks
               /\ ~ zone'[z].online => zone'[z].whp = 0
    <3>1. CASE z # c BY <1>10, <3>1 DEF HybridInv, ZonesSealed
    <3>2. CASE z = c
      BY <1>5, <1>8, <1>9, <1>10, <3>2, CMRTracksAssumption
    <3> QED BY <3>1, <3>2
  <2> QED BY <2>1 DEF ZonesSealed, Sealed, CMR
<1>17. JournalOnDisk'
  <2>1. \A z \in Band, s \in Slot : z \in Journal' /\ s < zone'[z].whp =>
           z \in Journal /\ s < zone[z].whp
    <3>1. \A s \in Slot : ~ s < 0 BY DEF Slot
    <3> QED BY <1>8, <1>9, <1>10, <1>14, <3>1
  <2>2. UNCHANGED storage BY <1>1 DEF diskVars
  <2>3. \A z \in Journal' : z \in Band BY DEF Journal
  <2>4. ASSUME NEW z \in Journal', NEW s \in Slot, s < zone'[z].whp
        PROVE  storage[BandHead(z) + s].status \in {"in_use", "invalid"}
    BY <2>1, <2>3, <2>4 DEF HybridInv, JournalOnDisk
  <2> QED BY <2>2, <2>4 DEF JournalOnDisk
<1> QED BY <1>11, <1>12, <1>13, <1>15, <1>16, <1>17 DEF HybridInv

LEMMA StartCheckpointStep ==
  ASSUME HybridInv, StartCheckpoint
  PROVE  HybridInv'
<1>1. /\ pc = "commit" /\ zoneCount >= Limit /\ pc' = "checkpoint" /\ scan' = NoScan
      /\ UNCHANGED diskVars /\ UNCHANGED <<zone, zoneCount, job, left>>
  BY DEF StartCheckpoint
<1>2. DiskTypeOK' /\ IdentityMapping' /\ NeverAborts' BY <1>1, DiskAlone DEF diskVars
<1>3. ZonesSealed' /\ JournalOnDisk' /\ ZonesType' BY <1>1, ZonesKept DEF diskVars
<1>4. ControlType' BY <1>1, <1>3 DEF HybridInv, ControlType
<1>5. LocalsOK'
  BY <1>1, BandCountAssumption, BandTracksAssumption
  DEF HybridInv, LocalsOK, NoScan, ScanRecord
<1>6. JournalIsPrefix'
  <2>1. zoneCount \in Nat /\ Limit \in Nat /\ zoneCount = Limit
    BY <1>1, LimitOK, BandCountAssumption, CountModulusAssumption
    DEF HybridInv, ControlType, JournalIsPrefix
  <2>2. Journal = {z \in Band : z < Limit} BY <1>1, <2>1 DEF HybridInv, JournalIsPrefix
  <2>3. \A z \in Band : z >= 0 BY BandCountAssumption DEF Band
  <2>4. Journal = {z \in LimitZones : z >= 0} BY <2>2, <2>3 DEF LimitZones
  <2>5. zoneCount = Limit - 0 BY <2>1
  <2>6. scan'.zone = 0 BY <1>1 DEF NoScan
  <2> QED BY <1>1, <2>4, <2>5, <2>6 DEF JournalIsPrefix, Journal
<1> QED BY <1>2, <1>3, <1>4, <1>5, <1>6 DEF HybridInv

-----------------------------------------------------------------------------
(* The checkpoint.                                                         *)

LEMMA HomeType ==
  ASSUME HybridInv, Checkpointing, scan.slot < BandTracks
  PROVE  Home.fid \in Fid /\ Home.lba \in Nat
<1>1. scan.zone \in Band /\ scan.slot \in Slot
  BY LimitOK, BandCountAssumption, BandTracksAssumption
  DEF HybridInv, LocalsOK, ScanRecord, Checkpointing, Band, Slot
<1> QED BY <1>1 DEF HybridInv, ControlType, ZonesType, ZoneRecord, Home

LEMMA HomeStep ==
  ASSUME HybridInv, ReadHome \/ WriteHome
  PROVE  HybridInv'
<1>1. Checkpointing /\ scan.slot < BandTracks /\ UNCHANGED <<zone, zoneCount, job, pc, left>>
  BY DEF ReadHome, WriteHome
<1>2. Home.fid \in Fid /\ Home.lba \in Nat BY <1>1, HomeType
<1>3. DiskKept
  <2>1. CASE ReadHome BY <1>2, <2>1, ReadKeeps DEF HybridInv, ReadHome
  <2>2. CASE WriteHome BY <1>2, <2>2, WriteKeeps DEF HybridInv, WriteHome
  <2> QED BY <2>1, <2>2
<1>4. scan' \in ScanRecord /\ scan'.zone = scan.zone
  <2>1. scan \in ScanRecord BY DEF HybridInv, LocalsOK
  <2>2. scan.slot + 1 \in 0 .. BandTracks
    BY <1>1, <2>1, BandTracksAssumption DEF ScanRecord
  <2> QED BY <2>1, <2>2 DEF ReadHome, WriteHome, ScanRecord
<1>5. left' \in 0 .. NumTraces BY <1>1 DEF HybridInv, ControlType
<1> QED BY <1>1, <1>3, <1>4, <1>5, ZonesAlone

LEMMA ReleaseZoneStep ==
  ASSUME HybridInv, ReleaseZone
  PROVE  HybridInv'
<1> PICK c : c = scan.zone OBVIOUS
<1>1. /\ pc \in {"checkpoint", "final"} /\ c < Limit /\ pc' = pc
      /\ UNCHANGED diskVars /\ UNCHANGED <<job, left>>
      /\ zoneCount' = (zoneCount - 1) % CountModulus
      /\ scan' = [NoScan EXCEPT !.zone = c + 1]
  BY DEF ReleaseZone, Checkpointing, Decrement
<1>2. c \in Nat /\ Limit \in Nat /\ Limit <= BandCount /\ c \in Band
  BY <1>1, LimitOK, BandCountAssumption DEF HybridInv, LocalsOK, ScanRecord, Band
<1>3. PICK y : y = [zone[c] EXCEPT !.online = FALSE, !.whp = 0,
                                   !.full = FALSE, !.journaling = FALSE]
  OBVIOUS
<1>4. zone \in [Band -> ZoneRecord] BY DEF HybridInv, ControlType, ZonesType
<1>5. zone' = [zone EXCEPT ![c] = y] BY <1>2, <1>3, <1>4 DEF ReleaseZone
<1>6. y \in ZoneRecord /\ y.online = FALSE /\ y.whp = 0
  <2>1. zone[c] \in ZoneRecord BY <1>2, <1>4
  <2>2. 0 \in 0 .. BandTracks BY BandTracksAssumption
  <2> QED BY <1>3, <2>1, <2>2 DEF ZoneRecord
<1>7. /\ zone' \in [Band -> ZoneRecord] /\ zone'[c] = y
      /\ \A z \in Band \ {c} : zone'[z] = zone[z]
  BY <1>2, <1>4, <1>5, <1>6
<1>8. DiskTypeOK' /\ IdentityMapping' /\ NeverAborts' BY <1>1, DiskAlone DEF diskVars
<1>9. ControlType'
  <2>1. zoneCount' \in 0 .. CountModulus - 1
    BY <1>1, CountModulusAssumption, BandCountAssumption DEF HybridInv, ControlType
  <2> QED BY <1>1, <1>7, <2>1 DEF HybridInv, ControlType, ZonesType
<1>10. LocalsOK'
  <2>1. scan' = [zone |-> c + 1, slot |-> 0, half |-> "read"] BY <1>1 DEF NoScan
  <2>2. c + 1 \in 0 .. BandCount BY <1>1, <1>2, BandCountAssumption
  <2>3. scan' \in ScanRecord BY <2>1, <2>2, BandTracksAssumption DEF ScanRecord
  <2> QED BY <1>1, <2>3 DEF HybridInv, LocalsOK
<1>11. Journal' = Journal \ {c} BY <1>6, <1>7 DEF Journal
<1>12. JournalIsPrefix'
  <2> SUFFICES ASSUME pc' = "checkpoint"
               PROVE  /\ zoneCount' = Limit - scan'.zone
                      /\ Journal' = {z \in LimitZones : z >= scan'.zone}
    BY <1>1 DEF JournalIsPrefix, LimitZones, Limit
  <2>1. pc = "checkpoint" BY <1>1
  <2>2. zoneCount = Limit - c /\ Journal = {z \in LimitZones : z >= c}
    BY <2>1 DEF HybridInv, JournalIsPrefix
  <2>3. scan'.zone = c + 1 BY <1>1 DEF NoScan
  <2>4. zoneCount' = Limit - (c + 1)
    <3>1. /\ zoneCount - 1 = Limit - (c + 1)
          /\ zoneCount - 1 \in Nat /\ zoneCount - 1 < CountModulus
      BY <1>1, <1>2, <2>2, CountModulusAssumption, BandCountAssumption
    <3>2. \A d \in Nat : d < CountModulus => d % CountModulus = d
      BY CountModulusAssumption, BandCountAssumption
    <3>3. (zoneCount - 1) % CountModulus = zoneCount - 1 BY <3>1, <3>2
    <3> QED BY <1>1, <3>1, <3>3
  <2>5. \A z \in LimitZones : z >= c + 1 <=> z >= c /\ z # c
    BY <1>2, BandCountAssumption DEF LimitZones, Band
  <2>6. Journal' = {z \in LimitZones : z >= c + 1} BY <1>11, <2>2, <2>5
  <2> QED BY <2>3, <2>4, <2>6
<1>13. ZonesSealed'
  <2>1. ASSUME NEW z \in Band
        PROVE  /\ zone'[z].online =>
                    /\ \A s \in Slot : zone'[z].blocks[s].sealed <=> Sealed(zone'[z].type, s)
                    /\ zone'[z].type = CMR => zone'[z].whp <= CMRTracks
               /\ ~ zone'[z].online => zone'[z].whp = 0
    <3>1. CASE z # c BY <1>7, <3>1 DEF HybridInv, ZonesSealed
    <3>2. CASE z = c BY <1>6, <1>7, <3>2
    <3> QED BY <3>1, <3>2
  <2> QED BY <2>1 DEF ZonesSealed, Sealed, CMR
<1>14. JournalOnDisk'
  <2>1. \A z \in Journal' : z \in Journal /\ zone'[z] = zone[z]
    BY <1>7, <1>11 DEF Journal
  <2>2. UNCHANGED storage BY <1>1 DEF diskVars
  <2>3. ASSUME NEW z \in Journal', NEW s \in Slot, s < zone'[z].whp
        PROVE  storage[BandHead(z) + s].status \in {"in_use", "invalid"}
    BY <2>1, <2>3 DEF HybridInv, JournalOnDisk
  <2> QED BY <2>2, <2>3 DEF JournalOnDisk
<1> QED BY <1>8, <1>9, <1>10, <1>12, <1>13, <1>14 DEF HybridInv

LEMMA EndCheckpointStep ==
  ASSUME HybridInv, EndCheckpoint
  PROVE  HybridInv'
<1>1. /\ pc \in {"checkpoint", "final"} /\ scan.zone = Limit /\ scan' = NoScan
      /\ pc' = IF pc = "final" THEN "done" ELSE "commit"
      /\ UNCHANGED diskVars /\ UNCHANGED <<zone, zoneCount, job, left>>
  BY DEF EndCheckpoint
<1>2. DiskTypeOK' /\ IdentityMapping' /\ NeverAborts' BY <1>1, DiskAlone DEF diskVars
<1>3. ZonesSealed' /\ JournalOnDisk' /\ ZonesType' BY <1>1, ZonesKept DEF diskVars
<1>4. ControlType' BY <1>1, <1>3 DEF HybridInv, ControlType
<1>5. LocalsOK'
  BY <1>1, BandCountAssumption, BandTracksAssumption
  DEF HybridInv, LocalsOK, NoScan, ScanRecord
<1>6. JournalIsPrefix'
  <2> SUFFICES ASSUME pc = "checkpoint"
               PROVE  zoneCount <= Limit /\ Journal = {z \in Band : z < zoneCount}
    BY <1>1 DEF JournalIsPrefix, Journal
  <2>1. Limit \in Nat BY LimitOK, BandCountAssumption
  <2>2. zoneCount = 0 BY <1>1, <2>1 DEF HybridInv, JournalIsPrefix
  <2>3. Journal = {z \in LimitZones : z >= Limit} BY <1>1 DEF HybridInv, JournalIsPrefix
  <2>4. \A z \in LimitZones : ~ z >= Limit BY <2>1, BandCountAssumption DEF LimitZones, Band
  <2>5. \A z \in Band : ~ z < 0 BY BandCountAssumption DEF Band
  <2> QED BY <2>1, <2>2, <2>3, <2>4, <2>5
<1> QED BY <1>2, <1>3, <1>4, <1>5, <1>6 DEF HybridInv

-----------------------------------------------------------------------------
(* The theorems.                                                           *)

LEMMA NextHybrid == HybridInv /\ [Next]_vars => HybridInv'
<1> SUFFICES ASSUME HybridInv, [Next]_vars PROVE HybridInv' OBVIOUS
<1>1. ASSUME NEW fid \in Fid, NEW r \in ReadRanges, ReadLine(r[1], r[2], fid)
      PROVE  HybridInv'
  BY <1>1, ReadLineStep
<1>2. ASSUME NEW fid \in Fid, NEW r \in WriteRanges, WriteLine(r[1], r[2], fid)
      PROVE  HybridInv'
  BY <1>2, WriteLineStep
<1>3. ASSUME NEW fid \in Fid, DeleteLine(fid) PROVE HybridInv' BY <1>3, DeleteLineStep
<1>4. CASE OtherLine BY <1>4, OtherLineStep
<1>5. CASE BadLine \/ EndOfTrace BY <1>5, EndStep
<1>6. CASE Step
  <2>1. CASE FillZone BY <2>1, FillZoneStep
  <2>2. CASE AllocateZone BY <2>2, AllocateZoneStep
  <2>3. CASE StartCheckpoint BY <2>3, StartCheckpointStep
  <2>4. CASE ReadHome \/ WriteHome BY <2>4, HomeStep
  <2>5. CASE ReleaseZone BY <2>5, ReleaseZoneStep
  <2>6. CASE EndCheckpoint BY <2>6, EndCheckpointStep
  <2> QED BY <1>6, <2>1, <2>2, <2>3, <2>4, <2>5, <2>6 DEF Step
<1>7. CASE UNCHANGED vars
  <2>1. UNCHANGED diskVars /\ UNCHANGED hybridVars BY <1>7 DEF vars
  <2>2. DiskTypeOK' /\ IdentityMapping' /\ NeverAborts' BY <2>1, DiskAlone DEF diskVars
  <2>3. ZonesSealed' /\ JournalOnDisk' /\ ZonesType'
    BY <2>1, ZonesKept DEF diskVars, hybridVars
  <2>4. ControlType' BY <2>1, <2>3 DEF HybridInv, ControlType, hybridVars
  <2>5. LocalsOK' BY <2>1 DEF HybridInv, LocalsOK, hybridVars
  <2>6. JournalIsPrefix' BY <2>1 DEF HybridInv, JournalIsPrefix, Journal, hybridVars
  <2> QED BY <2>2, <2>3, <2>4, <2>5, <2>6 DEF HybridInv
<1> QED BY <1>1, <1>2, <1>3, <1>4, <1>5, <1>6, <1>7 DEF Next

\* The zones, the counters and the disk keep their types, every block stays in
\* its own place on the disk, no chain of the file table is ever broken, and
\* the three facts about the journal below hold, together.
THEOREM HybridInvariance == Spec => []HybridInv
<1>1. Init => HybridInv BY InitHybrid
<1>2. HybridInv /\ [Next]_vars => HybridInv' BY NextHybrid
<1> QED BY <1>1, <1>2, PTL DEF Spec

\* hybrid_parsing_csv and do_checkpoint keep the types of the zones and of the
\* disk; the write head of a zone never passes its last slot.
THEOREM HybridTypeCorrect == Spec => []HybridTypeOK
<1>1. HybridInv => HybridTypeOK
  BY DEF HybridInv, HybridTypeOK, ControlType, ZonesType, LocalsOK, JobRecord, ScanRecord
<1> QED BY <1>1, HybridInvariance, PTL

\* The zones in use are always the first of the disk, as many as
\* journaling_zone_count says: allocation takes the zone behind them, and a
\* checkpoint counts down to 0 exactly.
THEOREM JournalStaysPrefix == Spec => []JournalIsPrefix
<1>1. HybridInv => JournalIsPrefix BY DEF HybridInv
<1> QED BY <1>1, HybridInvariance, PTL

\* No zone of the journal holds a block on a sealed track, also when the zone
\* was of the other type at its last use.
THEOREM SealedTracksStayUnwritten == Spec => []NothingSealedIsWritten
<1>1. HybridInv => NothingSealedIsWritten
  <2> SUFFICES ASSUME HybridInv, NEW z \in Journal
               PROVE  /\ zone[z].type = CMR => zone[z].whp <= CMRTracks
                      /\ \A s \in Slot : s < zone[z].whp => ~ zone[z].blocks[s].sealed
    BY DEF NothingSealedIsWritten
  <2>1. z \in Band /\ zone[z].online BY DEF Journal
  <2>2. /\ \A s \in Slot : zone[z].blocks[s].sealed <=> Sealed(zone[z].type, s)
        /\ zone[z].type = CMR => zone[z].whp <= CMRTracks
    BY <2>1 DEF HybridInv, ZonesSealed
  <2>3. ASSUME NEW s \in Slot, s < zone[z].whp, zone[z].type = CMR PROVE ~ s >= CMRTracks
    <3>1. zone[z].whp \in Nat /\ s \in Nat
      BY <2>1, BandTracksAssumption
      DEF HybridInv, ControlType, ZonesType, ZoneRecord, Slot
    <3> QED BY <2>2, <2>3, <3>1, CMRTracksAssumption
  <2>4. \A s \in Slot : s < zone[z].whp => ~ Sealed(zone[z].type, s)
    BY <2>3 DEF Sealed
  <2> QED BY <2>2, <2>4
<1> QED BY <1>1, HybridInvariance, PTL

\* The write heads of the zones and the writes to the disk advance together:
\* a track behind the write head has been written.
THEOREM JournalStaysOnDisk == Spec => []JournalOnDisk
<1>1. HybridInv => JournalOnDisk BY DEF HybridInv
<1> QED BY <1>1, HybridInvariance, PTL

-----------------------------------------------------------------------------
(***************************************************************************)
(* No block of a request is forgotten.  A block leaves the journal when    *)
(* its zone is released, so the checkpoint must by then have written every *)
(* slot of the zone home.                                                  *)
(***************************************************************************)
HomeDone ==
    pc = "checkpoint" /\ scan.zone \in Band =>
        \A s \in Slot :
            s < scan.slot /\ zone[scan.zone].blocks[s].lba \in Lba
                => ltp[zone[scan.zone].blocks[s].lba].valid

LossInv == HybridInv /\ NothingLost /\ HomeDone

\* A zone that keeps its blocks behind the write head keeps the journal.
LEMMA JournalGrows ==
  ASSUME NEW fid, NEW l, InJournal(fid, l),
         \A z \in Journal : z \in Journal',
         \A z \in Journal, s \in Slot : s < zone[z].whp =>
            s < zone'[z].whp /\ zone'[z].blocks[s] = zone[z].blocks[s]
  PROVE  InJournal(fid, l)'
BY DEF InJournal, Journal, Slot

\* What a step that passes no further block must not do.
LEMMA PassedKept ==
  ASSUME NothingLost, UNCHANGED job, pc \in {"commit", "checkpoint"},
         \A l \in Lba : ltp[l].valid => ltp'[l].valid,
         \A l : InJournal(job.fid, l) =>
            InJournal(job.fid, l)' \/ (l \in Lba => ltp'[l].valid)
  PROVE  NothingLost'
<1> SUFFICES ASSUME NEW l \in (job.lba .. job.next - 1) \ job.skip
             PROVE  InJournal(job.fid, l)' \/ (l \in Lba => ltp'[l].valid)
  BY DEF NothingLost, InJournal, Journal, Lba
<1>1. InJournal(job.fid, l) \/ (l \in Lba => ltp[l].valid) BY DEF NothingLost
<1> QED BY <1>1

LEMMA FillZoneLoses ==
  ASSUME LossInv, FillZone
  PROVE  NothingLost'
<1>1. PICK z \in Band, m \in 0 .. job.rest :
            /\ zone[z].online
            /\ Cardinality(Placed(m)) <= Room(z)
            /\ zone' = [zone EXCEPT ![z] = Filled(z, m)]
            /\ LbaWrite(JournalLba(z), Cardinality(Placed(m)), job.fid)
            /\ m = job.rest => pc' = "lines" /\ job' = NoJob /\ scan' = NoScan
            /\ m # job.rest => /\ job' = [job EXCEPT !.next = @ + m, !.rest = @ - m]
                               /\ scan' = [scan EXCEPT !.zone = z + 1] /\ pc' = pc
                               /\ z < Limit
  BY FillZoneEffect DEF LossInv
<1>2. pc = "commit" /\ job.fid \in Fid /\ job \in JobRecord
  BY DEF FillZone, LossInv, HybridInv, LocalsOK
<1>3. m \in Nat /\ job.next \in Nat BY <1>1, <1>2 DEF JobRecord
<1>4. PICK n : n = Cardinality(Placed(m)) OBVIOUS
<1>5. n \in Nat BY <1>3, <1>4, PlacedFinite DEF LossInv, HybridInv
<1>6. PICK y : y = Filled(z, m) OBVIOUS
<1>7. /\ y.whp = zone[z].whp + n /\ y.online = zone[z].online
      /\ \A s \in Slot :
            IF s \in zone[z].whp .. y.whp - 1
            THEN y.blocks[s].fid = job.fid /\ y.blocks[s].lba = BlockFor(z, s, m)
            ELSE y.blocks[s] = zone[z].blocks[s]
  BY <1>1, <1>2, <1>3, <1>4, <1>6, FilledZone DEF LossInv, HybridInv, ControlType
<1>8. zone[z].whp \in Nat /\ Room(z) \in Nat /\ zone[z].whp + Room(z) <= BandTracks
  BY CapacityOfZone, BandTracksAssumption
  DEF LossInv, HybridInv, ControlType, ZonesType, ZoneRecord
<1>9. zone'[z] = y /\ \A x \in Band \ {z} : zone'[x] = zone[x]
  BY <1>1, <1>6 DEF LossInv, HybridInv, ControlType, ZonesType
<1>10. \A x \in Journal : x \in Journal' BY <1>7, <1>9 DEF Journal
<1>11. \A x \in Journal, s \in Slot : s < zone[x].whp =>
          s < zone'[x].whp /\ zone'[x].blocks[s] = zone[x].blocks[s]
  <2> SUFFICES ASSUME NEW x \in Journal, NEW s \in Slot, s < zone[x].whp
               PROVE  s < zone'[x].whp /\ zone'[x].blocks[s] = zone[x].blocks[s]
    OBVIOUS
  <2>1. CASE x # z BY <1>9, <2>1 DEF Journal
  <2>2. CASE x = z
    <3>1. s \in Nat BY BandTracksAssumption DEF Slot
    <3>2. s < y.whp BY <1>5, <1>7, <1>8, <2>2, <3>1
    <3>3. s \notin zone[z].whp .. y.whp - 1 BY <1>8, <2>2, <3>1
    <3>4. y.blocks[s] = zone[z].blocks[s] BY <1>7, <3>3
    <3> QED BY <1>9, <2>2, <3>2, <3>4
  <2> QED BY <2>1, <2>2
<1>12. CASE m = job.rest BY <1>1, <1>12 DEF NothingLost
<1>13. CASE m # job.rest
  <2>1. /\ job'.fid = job.fid /\ job'.lba = job.lba /\ job'.skip = job.skip
        /\ job'.next = job.next + m
    BY <1>1, <1>2, <1>13 DEF JobRecord
  <2>2. \A l \in Lba : ltp[l].valid => ltp'[l].valid
    <3>1. JournalLba(z) \in Nat
      BY <1>8, BandCountAssumption, BandTracksAssumption DEF JournalLba, BandHead, Band
    <3> QED BY <1>1, <1>2, <1>4, <1>5, <3>1, WriteKeeps DEF LossInv, HybridInv
  <2> SUFFICES ASSUME NEW l \in (job.lba .. job.next + m - 1) \ job.skip
               PROVE  InJournal(job.fid, l)' \/ (l \in Lba => ltp'[l].valid)
    <3>1. (job'.lba .. job'.next - 1) \ job'.skip
             = (job.lba .. job.next + m - 1) \ job.skip
      <4>1. job'.lba .. job'.next - 1 = job.lba .. job.next + m - 1
        <5>1. job'.next - 1 = job.next + m - 1 BY <1>3, <2>1
        <5>2. job'.lba = job.lba BY <2>1
        <5> QED BY <5>1, <5>2, Zenon
      <4>2. job'.skip = job.skip BY <2>1
      <4> QED BY <4>1, <4>2, Zenon
    <3>2. NothingLost' <=> (pc' \in {"commit", "checkpoint"} =>
             \A l \in (job'.lba .. job'.next - 1) \ job'.skip :
                InJournal(job.fid, l)' \/ (l \in Lba => ltp'[l].valid))
      BY DEF NothingLost, Lba
    <3> QED BY <3>1, <3>2
  <2>3. CASE l \in job.lba .. job.next - 1
    <3>1. InJournal(job.fid, l) \/ (l \in Lba => ltp[l].valid)
      BY <1>2, <2>3 DEF LossInv, NothingLost
    <3>2. InJournal(job.fid, l) => InJournal(job.fid, l)'
      BY <1>10, <1>11, <2>1, JournalGrows DEF InJournal
    <3> QED BY <2>2, <3>1, <3>2
  <2>4. CASE l \notin job.lba .. job.next - 1
    <3>1. l \in Placed(m) BY <1>2, <1>3, <2>4 DEF Placed, JobRecord
    <3>2. \A k \in Placed(m) : \E s \in zone[z].whp .. zone[z].whp + Cardinality(Placed(m)) - 1 :
             BlockFor(z, s, m) = k
      BY <1>3, <1>8, BlocksForSlots DEF LossInv, HybridInv
    <3>3. PICK s \in zone[z].whp .. zone[z].whp + n - 1 : BlockFor(z, s, m) = l
      BY <1>4, <3>1, <3>2
    <3>4. s \in Slot /\ s < y.whp /\ s \in zone[z].whp .. y.whp - 1
      BY <1>1, <1>4, <1>5, <1>7, <1>8, <3>3, BandTracksAssumption DEF Slot
    <3>5. y.blocks[s].fid = job.fid /\ y.blocks[s].lba = l BY <1>7, <3>3, <3>4
    <3>6. z \in Journal' BY <1>1, <1>7, <1>9 DEF Journal
    <3> QED BY <1>9, <2>1, <3>4, <3>5, <3>6 DEF InJournal, Slot
  <2> QED BY <2>3, <2>4
<1> QED BY <1>12, <1>13

LEMMA AllocateZoneLoses ==
  ASSUME LossInv, AllocateZone
  PROVE  NothingLost'
<1> PICK c : c = zoneCount OBVIOUS
<1>1. /\ pc = "commit" /\ MayAllocate /\ UNCHANGED <<job, ltp>>
  BY DEF AllocateZone, diskVars
<1>2. Offline # {} /\ Min(Offline) = c /\ c \in Band
  BY <1>1, NextOffline DEF LossInv
<1>3. PICK blocks : zone' = [zone EXCEPT ![c].online = TRUE, ![c].journaling = TRUE,
                                         ![c].type = job.mode, ![c].blocks = blocks]
  BY <1>2 DEF AllocateZone
<1>4. zone \in [Band -> ZoneRecord] BY DEF LossInv, HybridInv, ControlType, ZonesType
<1>5. zone'[c].online = TRUE /\ \A z \in Band \ {c} : zone'[z] = zone[z]
  BY <1>2, <1>3, <1>4 DEF ZoneRecord
<1>6. c \notin Journal
  <2>1. Offline \in SUBSET Nat BY BandCountAssumption DEF Offline, Band
  <2>2. c \in Offline BY <1>2, <2>1, MinNatural
  <2> QED BY <2>2 DEF Offline, Journal
<1>7. \A z \in Journal : z \in Journal' /\ zone'[z] = zone[z] BY <1>5, <1>6 DEF Journal
<1>8. \A l : InJournal(job.fid, l) => InJournal(job.fid, l)'
  BY <1>1, <1>7 DEF InJournal, Slot
<1> QED BY <1>1, <1>8, PassedKept DEF LossInv

\* A zone is released when all its slots have been written home.
LEMMA ReleaseZoneLoses ==
  ASSUME LossInv, ReleaseZone
  PROVE  NothingLost'
<1> PICK c : c = scan.zone OBVIOUS
<1>1. /\ pc \in {"checkpoint", "final"} /\ pc' = pc /\ c < Limit /\ scan.slot = BandTracks
      /\ UNCHANGED <<job, ltp>>
  BY DEF ReleaseZone, Checkpointing, diskVars
<1>2. CASE pc = "final" BY <1>1, <1>2 DEF NothingLost
<1>3. CASE pc = "checkpoint"
  <2>1. c \in Band
    BY <1>1, LimitOK, BandCountAssumption DEF LossInv, HybridInv, LocalsOK, ScanRecord, Band
  <2>2. \A z \in Band \ {c} : zone'[z] = zone[z]
    <3>1. zone \in [Band -> ZoneRecord] BY DEF LossInv, HybridInv, ControlType, ZonesType
    <3>2. PICK y : y = [zone[c] EXCEPT !.online = FALSE, !.whp = 0,
                                       !.full = FALSE, !.journaling = FALSE]
      OBVIOUS
    <3>3. zone' = [zone EXCEPT ![c] = y] BY <2>1, <3>1, <3>2 DEF ReleaseZone
    <3> QED BY <2>1, <3>1, <3>3
  <2>3. ASSUME NEW l, InJournal(job.fid, l)
        PROVE  InJournal(job.fid, l)' \/ (l \in Lba => ltp'[l].valid)
    <3>1. PICK z \in Journal, s \in Slot :
            /\ s < zone[z].whp
            /\ zone[z].blocks[s].fid = job.fid /\ zone[z].blocks[s].lba = l
      BY <2>3 DEF InJournal
    <3>2. CASE z = c
      <4>1. s < scan.slot BY <1>1, BandTracksAssumption DEF Slot
      <4>2. l \in Lba => ltp[l].valid
        BY <1>3, <2>1, <3>1, <3>2, <4>1 DEF LossInv, HomeDone
      <4> QED BY <1>1, <4>2
    <3>3. CASE z # c
      <4>1. z \in Journal' /\ zone'[z] = zone[z] BY <2>2, <3>3 DEF Journal
      <4> QED BY <1>1, <3>1, <4>1 DEF InJournal, Slot
    <3> QED BY <3>2, <3>3
  <2>4. \A l \in Lba : ltp[l].valid => ltp'[l].valid BY <1>1
  <2> QED BY <1>1, <1>3, <2>3, <2>4, PassedKept DEF LossInv
<1> QED BY <1>1, <1>2, <1>3

\* A block read and written home.
LEMMA HomeLoses ==
  ASSUME LossInv, ReadHome \/ WriteHome
  PROVE  NothingLost' /\ HomeDone'
<1>1. Checkpointing /\ scan.slot < BandTracks /\ UNCHANGED <<zone, job, pc>>
  BY DEF ReadHome, WriteHome
<1>2. Home.fid \in Fid /\ Home.lba \in Nat BY <1>1, HomeType DEF LossInv
<1>3. \A l \in Lba : ltp[l].valid => ltp'[l].valid
  <2>1. CASE ReadHome
    <3>1. UNCHANGED ltp BY <1>2, <2>1, ReadKeeps DEF LossInv, HybridInv, ReadHome
    <3> QED BY <3>1
  <2>2. CASE WriteHome
    BY <1>2, <2>2, WriteKeeps DEF LossInv, HybridInv, WriteHome
  <2> QED BY <2>1, <2>2
<1>4. NothingLost'
  <2>1. CASE pc = "checkpoint"
    <3>1. \A l : InJournal(job.fid, l) => InJournal(job.fid, l)'
      BY <1>1 DEF InJournal, Journal
    <3> QED BY <1>1, <1>3, <2>1, <3>1, PassedKept DEF LossInv
  <2>2. CASE pc = "final" BY <1>1, <2>2 DEF NothingLost
  <2> QED BY <1>1, <2>1, <2>2 DEF Checkpointing
<1>5. scan'.zone = scan.zone /\ scan \in ScanRecord
  BY DEF ReadHome, WriteHome, LossInv, HybridInv, LocalsOK, ScanRecord
<1>6. HomeDone'
  <2> SUFFICES ASSUME pc = "checkpoint", scan.zone \in Band, NEW s \in Slot, s < scan'.slot,
                      zone[scan.zone].blocks[s].lba \in Lba
               PROVE  ltp'[zone[scan.zone].blocks[s].lba].valid
    BY <1>1, <1>5 DEF HomeDone, Lba, Slot, Band
  <2>1. CASE s < scan.slot BY <1>3, <2>1 DEF LossInv, HomeDone
  <2>2. CASE ~ s < scan.slot
    <3>1. WriteHome /\ s = scan.slot
      <4>1. s \in Nat /\ scan.slot \in Nat
        BY <1>5, BandTracksAssumption DEF Slot, ScanRecord
      <4>2. ReadHome => scan'.slot = scan.slot BY <1>5 DEF ReadHome, ScanRecord
      <4>3. WriteHome => scan'.slot = scan.slot + 1 BY <1>5 DEF WriteHome, ScanRecord
      <4> QED BY <2>2, <4>1, <4>2, <4>3
    <3>2. PICK l : l = Home.lba OBVIOUS
    <3>3. l = zone[scan.zone].blocks[s].lba /\ l \in Lba BY <3>1, <3>2 DEF Home
    <3>4. InRange(l, 1) => \A t \in Blocks(l, 1) : ltp'[t].valid
      BY <1>2, <3>1, <3>2, WriteKeeps DEF LossInv, HybridInv, WriteHome
    <3>5. InRange(l, 1) /\ l \in Blocks(l, 1)
      BY <3>3, MaxBlockPositive DEF InRange, Blocks, Lba
    <3> QED BY <3>3, <3>4, <3>5
  <2> QED BY <2>1, <2>2
<1> QED BY <1>4, <1>6

LEMMA InitLoses == Init => LossInv
<1> SUFFICES ASSUME Init PROVE LossInv OBVIOUS
<1>1. pc = "lines" BY DEF Init
<1> QED BY <1>1, InitHybrid DEF LossInv, NothingLost, HomeDone

LEMMA NextLoses == LossInv /\ [Next]_vars => LossInv'
<1> SUFFICES ASSUME LossInv, [Next]_vars PROVE LossInv' OBVIOUS
<1>0. HybridInv' BY NextHybrid DEF LossInv
<1>1. CASE Line
  <2>1. CASE pc' = "commit"
    <3>1. PICK fid \in Fid, r \in WriteRanges : WriteLine(r[1], r[2], fid)
      BY <1>1, <2>1 DEF Next, Step, ReadLine, DeleteLine, OtherLine, BadLine, EndOfTrace, Line,
         FillZone, AllocateZone, StartCheckpoint, ReadHome, WriteHome, ReleaseZone,
         EndCheckpoint, Checkpointing, vars, hybridVars
    <3>2. r[1] \in Nat /\ r[2] \in Nat BY HybridInputsAssumption
    <3>3. job'.lba = r[1] /\ job'.next = r[1]
      BY <1>1, <2>1, <3>1 DEF WriteLine, Line
    <3>4. job'.lba .. job'.next - 1 = {} BY <3>2, <3>3
    <3> QED BY <1>0, <2>1, <3>4 DEF LossInv, NothingLost, HomeDone
  <2>2. CASE pc' # "commit"
    <3>1. pc' # "checkpoint"
      BY <1>1 DEF Next, Step, ReadLine, DeleteLine, OtherLine, BadLine, WriteLine, EndOfTrace,
         Line, FillZone, AllocateZone, StartCheckpoint, ReadHome, WriteHome, ReleaseZone,
         EndCheckpoint, Checkpointing, vars, hybridVars
    <3> QED BY <1>0, <2>2, <3>1 DEF LossInv, NothingLost, HomeDone
  <2> QED BY <2>1, <2>2
<1>2. CASE EndOfTrace
  <2>1. pc' = "final" BY <1>2 DEF EndOfTrace
  <2> QED BY <1>0, <2>1 DEF LossInv, NothingLost, HomeDone
<1>3. CASE FillZone
  <2>1. pc' # "checkpoint" BY <1>3 DEF FillZone
  <2> QED BY <1>0, <1>3, <2>1, FillZoneLoses DEF LossInv, HomeDone
<1>4. CASE AllocateZone
  <2>1. pc' = "commit" BY <1>4 DEF AllocateZone
  <2> QED BY <1>0, <1>4, <2>1, AllocateZoneLoses DEF LossInv, HomeDone
<1>5. CASE StartCheckpoint \/ EndCheckpoint
  <2>1. UNCHANGED <<zone, job, ltp>> /\ scan'.slot = 0
    BY <1>5 DEF StartCheckpoint, EndCheckpoint, diskVars, NoScan
  <2>2. pc \in {"commit", "checkpoint"} \/ pc' = "done"
    BY <1>5 DEF StartCheckpoint, EndCheckpoint
  <2>3. \A l : InJournal(job.fid, l) => InJournal(job.fid, l)'
    BY <2>1 DEF InJournal, Journal
  <2>4. NothingLost'
    <3>1. CASE pc' = "done" BY <3>1 DEF NothingLost
    <3>2. CASE pc \in {"commit", "checkpoint"}
      BY <2>1, <2>3, <3>2, PassedKept DEF LossInv
    <3> QED BY <2>2, <3>1, <3>2
  <2>5. \A s \in Slot : ~ s < 0 BY BandTracksAssumption DEF Slot
  <2>6. HomeDone' BY <2>1, <2>5 DEF HomeDone, Slot
  <2> QED BY <1>0, <2>4, <2>6 DEF LossInv
<1>6. CASE ReadHome \/ WriteHome BY <1>0, <1>6, HomeLoses DEF LossInv
<1>7. CASE ReleaseZone
  <2>1. scan'.slot = 0 BY <1>7 DEF ReleaseZone, NoScan
  <2>2. \A s \in Slot : ~ s < 0 BY BandTracksAssumption DEF Slot
  <2>3. HomeDone'
    <3>1. HomeDone' <=> (pc' = "checkpoint" /\ scan'.zone \in Band =>
            \A s \in Slot :
                s < scan'.slot /\ zone'[scan'.zone].blocks[s].lba \in Lba
                    => ltp'[zone'[scan'.zone].blocks[s].lba].valid)
      BY DEF HomeDone, Slot, Band, Lba
    <3> QED BY <2>1, <2>2, <3>1
  <2> QED BY <1>0, <1>7, <2>3, ReleaseZoneLoses DEF LossInv
<1>8. CASE UNCHANGED vars
  <2>1. UNCHANGED <<zone, job, ltp, pc, scan>> BY <1>8 DEF vars, diskVars, hybridVars
  <2> QED BY <1>0, <2>1 DEF LossInv, NothingLost, HomeDone, InJournal, Journal
<1> QED
  BY <1>1, <1>2, <1>3, <1>4, <1>5, <1>6, <1>7, <1>8
  DEF Next, Step, ReadLine, WriteLine, DeleteLine, OtherLine, BadLine

\* A commit forgets no block, however many zones and checkpoints it goes
\* through: each block it has passed is in the journal or its home block holds
\* data (of any file), unless the unset update list made it skip the block.
THEOREM CommitLosesNothing == Spec => []NothingLost
<1>1. LossInv => NothingLost BY DEF LossInv
<1> QED BY <1>1, InitLoses, NextLoses, PTL DEF Spec
=============================================================================
