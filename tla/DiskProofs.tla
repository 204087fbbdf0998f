----------------------------- MODULE DiskProofs -----------------------------
(***************************************************************************)
(* Lemmas about the operators and the operations of Disk, for every value  *)
(* of the constants.                                                       *)
(***************************************************************************)
EXTENDS Disk, SetLemmas

\* The number of blocks is a positive natural.
LEMMA MaxBlockPositive == MaxBlock \in Nat \ {0}
  BY BandCountAssumption, BandTracksAssumption DEF MaxBlock

\* A band lies within the disk.
LEMMA BandWithinDisk ==
  ASSUME NEW b \in Band
  PROVE  BandHead(b) \in Track /\ TracksOf(b) \subseteq Track
<1>1. b + 1 <= BandCount /\ b \in Nat BY BandCountAssumption DEF Band
<1>2. BandHead(b) \in Nat BY <1>1, BandTracksAssumption DEF BandHead
<1>3. BandHead(b) + BandTracks <= MaxBlock
  BY <1>1, BandCountAssumption, BandTracksAssumption DEF BandHead, MaxBlock
<1> QED BY <1>2, <1>3, MaxBlockPositive, BandTracksAssumption DEF Track, TracksOf

\* A non-empty set of tracks has a first and a last one.
LEMMA MinTrack ==
  ASSUME NEW S \in SUBSET Track, S # {}
  PROVE  Min(S) \in S /\ \A y \in S : Min(S) <= y
<1>1. S \subseteq Nat BY MaxBlockPositive DEF Track
<1> QED BY <1>1, MinNatural

LEMMA MaxTrack ==
  ASSUME NEW S \in SUBSET Track, S # {}
  PROVE  Max(S) \in S /\ \A y \in S : y <= Max(S)
<1> DEFINE T == {t \in Nat : MaxBlock - t \in S}
<1>1. S \subseteq 0 .. MaxBlock - 1 /\ MaxBlock \in Nat BY MaxBlockPositive DEF Track
<1>2. \A y \in S : MaxBlock - y \in T BY <1>1
<1>3. T \subseteq Nat /\ T # {} BY <1>2
<1>4. PICK x \in T : \A y \in T : x <= y BY <1>3, LeastNatural
<1>5. MaxBlock - x \in S /\ \A y \in S : MaxBlock - x >= y BY <1>1, <1>2, <1>4
<1>6. \A y \in S : Max(S) >= y BY <1>5 DEF Max
<1>7. Max(S) \in S BY <1>5 DEF Max
<1> QED BY <1>1, <1>6, <1>7

-----------------------------------------------------------------------------
\* Sets of tracks, and tables of entries, are finite.
LEMMA TracksFinite ==
  ASSUME NEW S \in SUBSET Track
  PROVE  IsFiniteSet(S) /\ Cardinality(S) \in Nat
<1>1. IsFiniteSet(Track) BY MaxBlockPositive, FS_Interval DEF Track
<1> QED BY <1>1, FS_Subset, FS_CardinalityType

Entry == [pass : 0 .. 2 * BandCount, track : Track]

LEMMA EntriesFinite ==
  ASSUME NEW E \in SUBSET Entry
  PROVE  IsFiniteSet(E) /\ Cardinality(E) \in Nat
<1> DEFINE P == (0 .. 2 * BandCount) \X Track
           f == [p \in P |-> [pass |-> p[1], track |-> p[2]]]
<1>1. IsFiniteSet(0 .. 2 * BandCount) BY BandCountAssumption, FS_Interval
<1>2. IsFiniteSet(Track) BY TracksFinite
<1>3. IsFiniteSet(P) BY <1>1, <1>2, FS_Product
<1>4. f \in [P -> Entry] BY DEF Entry
<1>5. \A e \in Entry : \E p \in P : f[p] = e
  <2> TAKE e \in Entry
  <2>1. <<e.pass, e.track>> \in P BY DEF Entry
  <2>2. f[<<e.pass, e.track>>] = e BY <2>1 DEF Entry
  <2> QED BY <2>1, <2>2
<1>6. f \in Surjection(P, Entry) BY <1>4, <1>5 DEF Surjection
<1>7. IsFiniteSet(Entry) BY <1>3, <1>6, FS_Surjection
<1> QED BY <1>7, FS_Subset, FS_CardinalityType

LEMMA ExtensionFinite ==
  ASSUME NEW S \in SUBSET Track, NEW inUse \in SUBSET Track, NEW bands
  PROVE  IsFiniteSet(Entries(0, S)) /\ IsFiniteSet(Extension(S, bands, inUse))
<1>1. Entries(0, S) \subseteq Entry BY BandCountAssumption DEF Entries, Entry
<1>2. ASSUME NEW b \in Band, NEW U
      PROVE  /\ Entries(0 + 2*b + 1, U \cap inUse) \subseteq Entry
             /\ Entries(0 + 2*b + 2, U \cap inUse) \subseteq Entry
  BY BandCountAssumption DEF Entries, Entry, Band
<1>3. Extension(S, bands, inUse) \subseteq Entry BY <1>1, <1>2 DEF Extension, Tails
<1> QED BY <1>1, <1>3, EntriesFinite

\* The passes of a round, over all rounds, are finitely many too.
LEMMA FluidExtensionFinite ==
  ASSUME NEW S \in SUBSET Track, NEW inUse \in SUBSET Track
  PROVE  IsFiniteSet(FluidExtension(S, inUse))
<1> DEFINE P == (0 .. 2 * BandCount) \X (S \X Track)
           f == [p \in P |-> [pass |-> RoundOf(S, p[2][1]) + p[1], track |-> p[2][2]]]
           T == {f[p] : p \in P}
<1>1. IsFiniteSet(P)
  <2>1. IsFiniteSet(0 .. 2 * BandCount) BY BandCountAssumption, FS_Interval
  <2>2. IsFiniteSet(S) /\ IsFiniteSet(Track) BY TracksFinite
  <2>3. IsFiniteSet(S \X Track) BY <2>2, FS_Product
  <2> QED BY <2>1, <2>3, FS_Product
<1>2. f \in Surjection(P, T) BY DEF Surjection
<1>3. IsFiniteSet(T) BY <1>1, <1>2, FS_Surjection
<1>4. \A t \in S : RoundOf(S, t) \in Int
  <2> SUFFICES ASSUME NEW t \in S PROVE RoundOf(S, t) \in Int
    OBVIOUS
  <2>1. Cardinality(UpTo(S, t)) \in Nat BY TracksFinite DEF UpTo
  <2>2. Round \in Int BY BandCountAssumption DEF Round
  <2> QED BY <2>1, <2>2 DEF RoundOf
<1>5. ASSUME NEW t \in S, NEW u \in Track, NEW k \in 0 .. 2 * BandCount
      PROVE  [pass |-> RoundOf(S, t) + k, track |-> u] \in T
  <2>1. <<k, <<t, u>>>> \in P OBVIOUS
  <2>2. f[<<k, <<t, u>>>>] = [pass |-> RoundOf(S, t) + k, track |-> u] BY <2>1
  <2> QED BY <2>1, <2>2
<1> HIDE DEF T
<1>6. ASSUME NEW t \in S
      PROVE  Entries(RoundOf(S, t), {t}) \subseteq T
  <2>1. RoundOf(S, t) + 0 = RoundOf(S, t) BY <1>4
  <2>2. t \in Track /\ 0 \in 0 .. 2 * BandCount BY BandCountAssumption
  <2>3. [pass |-> RoundOf(S, t), track |-> t] \in T BY <1>5, <2>1, <2>2
  <2> QED BY <2>3 DEF Entries
<1>7. ASSUME NEW t \in S, NEW bands
      PROVE  Tails(RoundOf(S, t), bands, inUse) \subseteq T
  <2> SUFFICES ASSUME NEW b \in Band, NEW U
               PROVE  /\ Entries(RoundOf(S, t) + 2*b + 1, U \cap inUse) \subseteq T
                      /\ Entries(RoundOf(S, t) + 2*b + 2, U \cap inUse) \subseteq T
    BY DEF Tails
  <2>1. 2*b + 1 \in 0 .. 2 * BandCount /\ 2*b + 2 \in 0 .. 2 * BandCount
    BY BandCountAssumption DEF Band
  <2>2. /\ RoundOf(S, t) + 2*b + 1 = RoundOf(S, t) + (2*b + 1)
        /\ RoundOf(S, t) + 2*b + 2 = RoundOf(S, t) + (2*b + 2)
    BY <1>4, BandCountAssumption DEF Band
  <2> QED BY <1>5, <2>1, <2>2 DEF Entries
<1>8. FluidExtension(S, inUse) \in SUBSET T BY <1>6, <1>7 DEF FluidExtension
<1> QED BY <1>3, <1>8, FS_Subset

\* The time of a table, and the sizes charged for it, are naturals.
LEMMA ChargesNat ==
  ASSUME NEW E, IsFiniteSet(E)
  PROVE  /\ Time(E) \in Nat
         /\ Own(E) \in Nat
         /\ Cardinality(E) \in Nat
         /\ Cardinality(Virtual(E)) \in Nat
         /\ Cardinality(InVirtualRun(E)) \in Nat
<1> DEFINE V == InVirtualRun(E)
           H == Heads(E)
<1>0. \A F \in SUBSET E : Cardinality(F) \in Nat BY FS_Subset, FS_CardinalityType
<1>1. V \in SUBSET E /\ H \in SUBSET E BY DEF InVirtualRun, Heads
<1>2. /\ H \ V \in SUBSET E /\ E \ V \in SUBSET E
      /\ H \cap V \in SUBSET E /\ E \ Virtual(E) \in SUBSET E
      /\ Virtual(E) \in SUBSET E /\ E \in SUBSET E
  BY <1>1 DEF Virtual
<1>3. \A i, j \in Nat : Cost(i, j) \in Nat BY LSeekAssumption, LTrackAssumption DEF Cost
<1>4. Time(E) \in Nat
  <2> HIDE DEF V, H
  <2> DEFINE a == Cost(Cardinality(H \ V), Cardinality(E \ V))
             b == Cost(Cardinality(H \cap V), Cardinality(V))
  <2>1. a \in Nat /\ b \in Nat BY <1>0, <1>1, <1>2, <1>3
  <2>2. Time(E) = a + 3 * b BY DEF Time, V, H
  <2> HIDE DEF a, b
  <2> QED BY <2>1, <2>2
<1> QED BY <1>0, <1>1, <1>2, <1>4 DEF Own

-----------------------------------------------------------------------------
\* A charge of naturals keeps every counter a natural.
Report == [Counter -> Nat]

LEMMA ChargeType ==
  ASSUME NEW r \in Report, NEW D, NEW amounts \in [D -> Nat]
  PROVE  Charge(r, amounts) \in Report
BY DEF Charge, Report

LEMMA ChargesAreNat ==
  ASSUME NEW E, IsFiniteSet(E), NEW S \in SUBSET Track, NEW booked \in SUBSET Track
  PROVE  /\ ReadCharge(E) \in [DOMAIN ReadCharge(E) -> Nat]
         /\ WriteCharge(S, booked, E) \in [DOMAIN WriteCharge(S, booked, E) -> Nat]
         /\ DeleteCharge(S, E) \in [DOMAIN DeleteCharge(S, E) -> Nat]
<1>1. /\ Time(E) \in Nat /\ Own(E) \in Nat /\ Cardinality(E) \in Nat
      /\ Cardinality(Virtual(E)) \in Nat /\ Cardinality(InVirtualRun(E)) \in Nat
  BY ChargesNat
<1>2. Cardinality(S) \in Nat /\ Cardinality(booked) \in Nat BY TracksFinite
<1>3. ReadCharge(E) \in [DOMAIN ReadCharge(E) -> Nat] BY <1>1, <1>2 DEF ReadCharge
<1>4. WriteCharge(S, booked, E) \in [DOMAIN WriteCharge(S, booked, E) -> Nat]
  BY <1>1, <1>2 DEF WriteCharge
<1>5. DeleteCharge(S, E) \in [DOMAIN DeleteCharge(S, E) -> Nat]
  BY <1>1, <1>2 DEF DeleteCharge
<1> QED BY <1>3, <1>4, <1>5

\* The write head stays in the band, the bounds of the update too.
LEMMA BandAfterType ==
  ASSUME band \in [Band -> BandRecord], NEW S \in SUBSET Track, NEW b \in Band
  PROVE  BandAfter(S, b) \in BandRecord
<1> DEFINE mine == S \cap TracksOf(b)
<1>1. CASE mine = {} BY <1>1 DEF BandAfter
<1>2. CASE mine # {}
  <2>1. Min(mine) \in Track /\ Max(mine) \in Track
    <3>1. mine \in SUBSET Track BY BandWithinDisk
    <3> QED BY <1>2, <3>1, MinTrack, MaxTrack
  <2>2. band[b] \in BandRecord OBVIOUS
  <2>3. NewHead(band[b], mine) \in Track BY <2>1, <2>2 DEF NewHead, BandRecord
  <2> HIDE DEF mine
  <2>4. BandAfter(S, b) = [cmr |-> band[b].cmr,
              whp |-> NewHead(band[b], mine),
              rmw |-> band[b].rmw \/ Min(mine) < band[b].whp,
              start |-> IF ~ band[b].rmw /\ Min(mine) < band[b].whp
                        THEN Min(mine) ELSE band[b].start,
              end |-> IF band[b].rmw \/ Min(mine) < band[b].whp
                      THEN Max(mine) ELSE band[b].end]
    BY <1>2 DEF BandAfter, mine
  <2> QED BY <2>1, <2>2, <2>3, <2>4 DEF BandRecord
<1> QED BY <1>1, <1>2

LEMMA BandsAfterType ==
  ASSUME band \in [Band -> BandRecord], NEW S \in SUBSET Track
  PROVE  BandsAfter(S) \in [Band -> BandRecord]
BY BandAfterType DEF BandsAfter

LEMMA FluidBandsAfterType ==
  ASSUME band \in [Band -> BandRecord], NEW S \in SUBSET Track
  PROVE  FluidBandsAfter(S) \in [Band -> BandRecord]
BY BandAfterType DEF FluidBandsAfter, FluidBandAfter

\* The blocks of a request that fits are blocks of the disk, n of them.
LEMMA BlocksOfRequest ==
  ASSUME NEW lba \in Nat, NEW n \in Nat, InRange(lba, n)
  PROVE  /\ Blocks(lba, n) \subseteq Lba
         /\ IsFiniteSet(Blocks(lba, n)) /\ Cardinality(Blocks(lba, n)) = n
<1>1. Blocks(lba, n) \subseteq Lba BY MaxBlockPositive DEF Blocks, InRange, Lba
<1> QED BY <1>1, FS_Interval DEF Blocks, InRange

LEMMA SomeBlocks ==
  ASSUME NEW lba \in Nat, NEW n \in Nat, InRange(lba, n),
         NEW F \in SUBSET Blocks(lba, n)
  PROVE  F \subseteq Lba /\ Cardinality(F) \in 0 .. n
<1>1. IsFiniteSet(F) /\ Cardinality(F) <= n BY BlocksOfRequest, FS_Subset
<1>2. Cardinality(F) \in Nat BY <1>1, FS_CardinalityType
<1> QED BY <1>1, <1>2, BlocksOfRequest

-----------------------------------------------------------------------------
(* Type correctness, operation by operation.                               *)

LEMMA InitType == DiskInit => DiskTypeOK
<1> SUFFICES ASSUME DiskInit PROVE DiskTypeOK OBVIOUS
<1>1. 0 \in Track /\ 0 \in Lba BY MaxBlockPositive DEF Track, Lba
<1>2. band \in [Band -> BandRecord] BY BandWithinDisk DEF DiskInit, InitBand, BandRecord
<1>3. storage \in [Track -> [status : Status, lba : Lba, count : Nat]]
  BY <1>1 DEF DiskInit, Status
<1>4. ltp \in [Lba -> [valid : BOOLEAN, fid : Fid \cup {NoFid}, pba : Track]]
  BY <1>1 DEF DiskInit
<1> QED BY <1>2, <1>3, <1>4 DEF DiskInit, DiskTypeOK

LEMMA ReadType ==
  ASSUME DiskTypeOK, NEW lba \in Nat, NEW n \in Nat, NEW fid \in Fid,
         LbaRead(lba, n, fid)
  PROVE  DiskTypeOK'
<1>1. CASE Refuse BY <1>1 DEF Refuse, DiskTypeOK
<1>2. CASE ~ Refuse
  <2> DEFINE found == {l \in Blocks(lba, n) : IsBlockDataValid(l, fid)}
             S == {ltp[l].pba : l \in found}
             k == n - Cardinality(found)
             r == Charge(report, [invalidRead |-> k])
  <2>1. /\ InRange(lba, n)
        /\ report' = IF S = {} THEN r ELSE Charge(r, ReadCharge(Entries(0, S)))
        /\ ret' = Cardinality(S)
        /\ UNCHANGED <<storage, ltp, band, aborted>>
    BY <1>2 DEF LbaRead
  <2>2. found \subseteq Lba /\ Cardinality(found) \in 0 .. n BY <2>1, SomeBlocks
  <2>3. S \in SUBSET Track BY <2>2 DEF DiskTypeOK
  <2>4. IsFiniteSet(Entries(0, S)) BY <2>3, ExtensionFinite
  <2>5. k \in Nat BY <2>2
  <2> HIDE DEF S, k
  <2>6. r \in Report
    <3>1. [invalidRead |-> k] \in [{"invalidRead"} -> Nat] BY <2>5
    <3>2. report \in Report BY DEF DiskTypeOK, Report
    <3> QED BY <3>1, <3>2, ChargeType
  <2> HIDE DEF r
  <2>7. report' \in Report BY <2>1, <2>3, <2>4, <2>6, ChargesAreNat, ChargeType
  <2>8. ret' \in Nat BY <2>1, <2>3, TracksFinite
  <2> QED BY <2>1, <2>7, <2>8 DEF DiskTypeOK, Report
<1> QED BY <1>1, <1>2

LEMMA PbaSearchType ==
  ASSUME DiskTypeOK, NEW l \in Lba, NEW fid \in Fid
  PROVE  PbaSearch(l, fid) \in Track
BY DEF DiskTypeOK, PbaSearch, FindNextPba, Lba, Track

LEMMA LinkedType ==
  ASSUME NEW granted \in SUBSET Lba, NEW fid \in Fid, NEW l \in granted,
         NEW t, t = PbaSearch(l, fid)
  PROVE  Linked(t, granted, fid) \in granted /\ PbaSearch(Linked(t, granted, fid), fid) = t
BY DEF Linked

LEMMA WriteBandsType ==
  ASSUME DiskTypeOK, NEW S \in SUBSET Track
  PROVE  WriteBands(S) \in [Band -> BandRecord]
BY BandsAfterType, FluidBandsAfterType DEF WriteBands, DiskTypeOK

LEMMA WriteTableFinite ==
  ASSUME NEW S \in SUBSET Track, NEW inUse \in SUBSET Track, NEW bands
  PROVE  IsFiniteSet(WriteTable(S, bands, inUse))
BY ExtensionFinite, FluidExtensionFinite, BuildAssumption DEF WriteTable

LEMMA BatchWriteType ==
  ASSUME DiskTypeOK, NEW granted \in SUBSET Lba, NEW fid \in Fid,
         NEW r \in Report, BatchWrite(granted, fid, r), UNCHANGED aborted
  PROVE  DiskTypeOK'
<1> DEFINE S == {PbaSearch(l, fid) : l \in granted}
           inUse == {t \in Track : IsUsed(t)} \cup S
           E == WriteTable(S, WriteBands(S), inUse)
<1>1. S \in SUBSET Track /\ inUse \in SUBSET Track BY PbaSearchType
<1>2. IsFiniteSet(E) BY <1>1, WriteTableFinite
<1>3. Booked(granted, fid) \in SUBSET Track
  BY DEF Booked, FindNextPba, Lba, Track
<1>4. storage' \in [Track -> [status : Status, lba : Lba, count : Nat]]
  <2>1. storage' = [t \in Track |-> IF t \in S THEN ChsWrite(t, Linked(t, granted, fid))
                                   ELSE storage[t]]
    BY DEF BatchWrite
  <2>2. \A t \in S : Linked(t, granted, fid) \in Lba BY LinkedType
  <2>3. \A t \in Track, l \in Lba :
          ChsWrite(t, l) \in [status : Status, lba : Lba, count : Nat]
    BY DEF ChsWrite, DiskTypeOK, Status
  <2> HIDE DEF S
  <2> QED BY <1>1, <2>1, <2>2, <2>3 DEF DiskTypeOK
<1>5. ltp' \in [Lba -> [valid : BOOLEAN, fid : Fid \cup {NoFid}, pba : Track]]
  BY DEF BatchWrite, DiskTypeOK, FindNextPba, Lba, Track
<1>6. band' \in [Band -> BandRecord]
  BY <1>1, WriteBandsType DEF BatchWrite
<1>7. report' \in Report
  <2>1. report' = Charge(r, WriteCharge(S, Booked(granted, fid), E)) BY DEF BatchWrite
  <2> HIDE DEF S, E
  <2> QED BY <1>1, <1>2, <1>3, <2>1, ChargesAreNat, ChargeType
<1>8. ret' \in Nat BY <1>1, TracksFinite DEF BatchWrite
<1> QED BY <1>4, <1>5, <1>6, <1>7, <1>8 DEF DiskTypeOK, Report

LEMMA WriteType ==
  ASSUME DiskTypeOK, NEW lba \in Nat, NEW n \in Nat, NEW fid \in Fid,
         LbaWrite(lba, n, fid)
  PROVE  DiskTypeOK'
<1>1. CASE Refuse BY <1>1 DEF Refuse, DiskTypeOK
<1>2. CASE ~ Refuse
  <2> DEFINE granted == {l \in Blocks(lba, n) : ~ IsInvalidWrite(l, fid)}
             k == n - Cardinality(granted)
             r == Charge(report, [invalidWrite |-> k])
  <2>1. /\ InRange(lba, n)
        /\ \/ report' = r /\ ret' = 0 /\ UNCHANGED <<storage, ltp, band>>
           \/ BatchWrite(granted, fid, r)
        /\ UNCHANGED aborted
    BY <1>2 DEF LbaWrite
  <2>2. granted \subseteq Lba /\ Cardinality(granted) \in 0 .. n BY <2>1, SomeBlocks
  <2>3. k \in Nat BY <2>2
  <2> HIDE DEF k, granted
  <2>4. r \in Report
    <3>1. [invalidWrite |-> k] \in [{"invalidWrite"} -> Nat] BY <2>3
    <3>2. report \in Report BY DEF DiskTypeOK, Report
    <3> QED BY <3>1, <3>2, ChargeType
  <2> HIDE DEF r
  <2>5. CASE report' = r /\ ret' = 0 /\ UNCHANGED <<storage, ltp, band>>
    BY <2>1, <2>4, <2>5 DEF DiskTypeOK, Report
  <2>6. CASE BatchWrite(granted, fid, r) BY <2>1, <2>2, <2>4, <2>6, BatchWriteType
  <2> QED BY <2>1, <2>5, <2>6
<1> QED BY <1>1, <1>2

LEMMA DeleteType ==
  ASSUME DiskTypeOK, NEW fid \in Fid, LbaDelete(fid)
  PROVE  DiskTypeOK'
<1>1. CASE Refuse BY <1>1 DEF Refuse, DiskTypeOK
<1>2. CASE ~ Refuse
  <2> DEFINE doomed == {l \in Lba : IsLtpMappingValid(l, fid)}
             S == {ltp[l].pba : l \in doomed}
             E == IF Build = "CMR" THEN Entries(0, S)
                  ELSE Extension(S, BandsAfter(S), {t \in Track : IsUsed(t)})
  <2>1. BatchDelete(S) /\ aborted' = ~ CanDelete(S) BY <1>2 DEF LbaDelete
  <2>2. S \in SUBSET Track BY DEF DiskTypeOK
  <2>3. IsFiniteSet(E)
    <3>1. {t \in Track : IsUsed(t)} \in SUBSET Track OBVIOUS
    <3> QED BY <2>2, <3>1, ExtensionFinite
  <2> HIDE DEF S
  <2>4. storage' \in [Track -> [status : Status, lba : Lba, count : Nat]]
    BY <2>1, <2>2 DEF BatchDelete, DiskTypeOK, Status
  <2>5. ltp' \in [Lba -> [valid : BOOLEAN, fid : Fid \cup {NoFid}, pba : Track]]
    BY <2>1 DEF BatchDelete, DiskTypeOK
  <2>6. band' \in [Band -> BandRecord] BY <2>1, <2>2, BandsAfterType DEF BatchDelete, DiskTypeOK
  <2>7. report' \in Report
    <3>1. report' = Charge(report, DeleteCharge(S, E)) BY <2>1 DEF BatchDelete
    <3>2. report \in Report BY DEF DiskTypeOK, Report
    <3> HIDE DEF E
    <3> QED BY <2>2, <2>3, <3>1, <3>2, ChargesAreNat, ChargeType
  <2>8. ret' \in Nat BY <2>1, <2>2, TracksFinite DEF BatchDelete
  <2> QED BY <2>1, <2>4, <2>5, <2>6, <2>7, <2>8 DEF DiskTypeOK, Report
<1> QED BY <1>1, <1>2

-----------------------------------------------------------------------------
(***************************************************************************)
(* What an operation does to the tables when IdentityMapping holds: the    *)
(* search and the back pointers can be left out.  The invariants follow    *)
(* from these effects.                                                     *)
(***************************************************************************)
Granted(lba, n, fid) ==
    IF InRange(lba, n) THEN {l \in Blocks(lba, n) : ~ IsInvalidWrite(l, fid)} ELSE {}

Owned(fid) == {l \in Lba : IsLtpMappingValid(l, fid)}

LEMMA SearchIsIdentity ==
  ASSUME IdentityMapping, NEW l \in Lba, NEW fid \in Fid
  PROVE  /\ PbaSearch(l, fid) = l
         /\ IsBlockDataValid(l, fid) <=> IsLtpMappingValid(l, fid)
BY DEF IdentityMapping, PbaSearch, FindNextPba, IsBlockDataValid, IsLtpMappingValid, Lba, Track

LEMMA GrantedType ==
  ASSUME NEW lba \in Nat, NEW n \in Nat, NEW fid \in Fid
  PROVE  Granted(lba, n, fid) \in SUBSET Lba
BY BlocksOfRequest DEF Granted

LEMMA ReadEffect ==
  ASSUME IdentityMapping, NEW lba \in Nat, NEW n \in Nat, NEW fid \in Fid,
         LbaRead(lba, n, fid)
  PROVE  /\ UNCHANGED <<storage, ltp, band, aborted>>
         /\ ret' = IF InRange(lba, n)
                   THEN Cardinality({l \in Blocks(lba, n) : IsLtpMappingValid(l, fid)})
                   ELSE 0
<1>1. CASE ~ InRange(lba, n) BY <1>1 DEF LbaRead, Refuse
<1>2. CASE InRange(lba, n)
  <2> DEFINE found == {l \in Blocks(lba, n) : IsBlockDataValid(l, fid)}
  <2>1. /\ UNCHANGED <<storage, ltp, band, aborted>>
        /\ ret' = Cardinality({ltp[l].pba : l \in found})
    BY <1>2 DEF LbaRead
  <2>2. found = {l \in Blocks(lba, n) : IsLtpMappingValid(l, fid)}
    BY <1>2, BlocksOfRequest, SearchIsIdentity
  <2>3. \A l \in found : ltp[l].pba = l
    BY <1>2, BlocksOfRequest DEF IsBlockDataValid, IsLtpMappingValid, IdentityMapping
  <2>4. {ltp[l].pba : l \in found} = found BY <2>3
  <2> QED BY <1>2, <2>1, <2>2, <2>4
<1> QED BY <1>1, <1>2

LEMMA WriteEffect ==
  ASSUME DiskTypeOK, IdentityMapping, NEW lba \in Nat, NEW n \in Nat, NEW fid \in Fid,
         LbaWrite(lba, n, fid)
  PROVE  LET G == Granted(lba, n, fid)
         IN  /\ storage' = [t \in Track |->
                  IF t \in G THEN [status |-> "in_use", lba |-> t,
                                   count |-> storage[t].count + 1]
                  ELSE storage[t]]
             /\ ltp' = [l \in Lba |-> IF l \in G THEN [valid |-> TRUE, fid |-> fid, pba |-> l]
                                      ELSE ltp[l]]
             /\ band' = IF G = {} THEN band ELSE WriteBands(G)
             /\ ret' = Cardinality(G)
             /\ aborted' = aborted
<1> DEFINE G == Granted(lba, n, fid)
<1>0. G \in SUBSET Lba BY GrantedType
<1>a. Lba = Track BY DEF Lba, Track
<1>b. storage = [t \in Track |-> storage[t]] /\ ltp = [l \in Lba |-> ltp[l]]
  BY DEF DiskTypeOK
<1>1. CASE G = {}
  <2>1. UNCHANGED <<storage, ltp, band, aborted>> /\ ret' = 0
    BY <1>1 DEF LbaWrite, Refuse, Granted
  <2> QED BY <1>1, <2>1, <1>b, FS_EmptySet
<1>2. CASE G # {}
  <2>1. InRange(lba, n) /\ G = {l \in Blocks(lba, n) : ~ IsInvalidWrite(l, fid)}
    BY <1>2 DEF Granted
  <2>2. PICK r : BatchWrite(G, fid, r)
    BY <1>2, <2>1 DEF LbaWrite
  <2>3. UNCHANGED aborted BY <1>2, <2>1 DEF LbaWrite
  <2> HIDE DEF G
  <2>4. {PbaSearch(l, fid) : l \in G} = G BY <1>0, SearchIsIdentity
  <2>5. \A t \in G : Linked(t, G, fid) = t
    BY <1>0, SearchIsIdentity DEF Linked
  <2>6. storage' = [t \in Track |->
                  IF t \in G THEN [status |-> "in_use", lba |-> t,
                                   count |-> storage[t].count + 1]
                  ELSE storage[t]]
    BY <2>2, <2>4, <2>5 DEF BatchWrite, ChsWrite
  <2>7. ltp' = [l \in Lba |-> IF l \in G THEN [valid |-> TRUE, fid |-> fid, pba |-> l]
                                      ELSE ltp[l]]
    <3>1. ASSUME NEW l \in Lba, IsBlockDataValid(l, fid)
          PROVE  ltp[l] = [valid |-> TRUE, fid |-> fid, pba |-> l]
      BY <3>1 DEF IsBlockDataValid, IsLtpMappingValid, IdentityMapping, DiskTypeOK
    <3> QED BY <2>2, <3>1 DEF BatchWrite, FindNextPba
  <2>8. band' = WriteBands(G) /\ ret' = Cardinality(G) BY <2>2, <2>4 DEF BatchWrite
  <2> QED BY <1>2, <2>3, <2>6, <2>7, <2>8 DEF G
<1> QED BY <1>1, <1>2

LEMMA DeleteEffect ==
  ASSUME DiskTypeOK, IdentityMapping, NEW fid \in Fid, LbaDelete(fid)
  PROVE  LET D == Owned(fid)
         IN  /\ storage' = [t \in Track |->
                  IF t \in D THEN [storage[t] EXCEPT !.status = "invalid"] ELSE storage[t]]
             /\ ltp' = [l \in Lba |->
                  IF l \in D THEN [ltp[l] EXCEPT !.valid = FALSE] ELSE ltp[l]]
             /\ band' = IF D = {} THEN band ELSE BandsAfter(D)
             /\ ret' = Cardinality(D)
             /\ aborted' => aborted
<1> DEFINE D == Owned(fid)
<1>a. storage = [t \in Track |-> storage[t]] /\ ltp = [l \in Lba |-> ltp[l]]
  BY DEF DiskTypeOK
<1>1. CASE D = {}
  <2>1. Refuse BY <1>1 DEF LbaDelete, Owned
  <2>2. UNCHANGED <<storage, ltp, band, aborted>> /\ ret' = 0 BY <2>1 DEF Refuse
  <2> QED BY <1>1, <2>2, <1>a, FS_EmptySet
<1>2. CASE D # {}
  <2>0. \A l \in D : l \in Lba /\ ltp[l].valid /\ ltp[l].pba = l
                     /\ storage[l].status = "in_use" /\ storage[l].lba = l
    BY DEF Owned, IsLtpMappingValid, IdentityMapping, Lba, Track
  <2>1. {ltp[l].pba : l \in D} = D BY <2>0
  <2>2. BatchDelete(D) /\ aborted' = ~ CanDelete(D)
    BY <1>2, <2>1 DEF LbaDelete, Owned
  <2>3. CanDelete(D) BY <2>0 DEF CanDelete
  <2>4. Dropped(D) = D BY <2>0 DEF Dropped
  <2> HIDE DEF D
  <2> QED BY <1>2, <2>2, <2>3, <2>4 DEF BatchDelete, D
<1> QED BY <1>1, <1>2

-----------------------------------------------------------------------------
(***************************************************************************)
(* IdentityMapping is inductive, and it implies MappingConsistent.         *)
(***************************************************************************)
LEMMA IdentityImpliesConsistent ==
  ASSUME DiskTypeOK, IdentityMapping
  PROVE  MappingConsistent
<1>1. Lba = Track BY DEF Lba, Track
<1> QED BY <1>1 DEF IdentityMapping, MappingConsistent, InUse

LEMMA InitIdentity == DiskInit => IdentityMapping
BY DEF DiskInit, IdentityMapping, Lba, Track

LEMMA WriteIdentity ==
  ASSUME DiskTypeOK, IdentityMapping, NEW lba \in Nat, NEW n \in Nat, NEW fid \in Fid,
         LbaWrite(lba, n, fid)
  PROVE  IdentityMapping'
<1> DEFINE G == Granted(lba, n, fid)
<1>1. Lba = Track /\ G \in SUBSET Track BY GrantedType DEF Lba, Track
<1>2. /\ storage' = [t \in Track |->
            IF t \in G THEN [status |-> "in_use", lba |-> t, count |-> storage[t].count + 1]
            ELSE storage[t]]
      /\ ltp' = [l \in Lba |-> IF l \in G THEN [valid |-> TRUE, fid |-> fid, pba |-> l]
                               ELSE ltp[l]]
  BY WriteEffect
<1> HIDE DEF G
<1>3. \A l \in Lba : ltp'[l].valid => ltp'[l].pba = l /\ ltp'[l].fid \in Fid
  BY <1>2 DEF IdentityMapping
<1>4. \A t \in Track : storage'[t].status = "in_use" <=> ltp'[t].valid
  BY <1>1, <1>2 DEF IdentityMapping
<1>5. \A t \in Track : storage'[t].status = "in_use" => storage'[t].lba = t
  BY <1>2 DEF IdentityMapping
<1>6. \A t \in Track : storage'[t].status # "booked" BY <1>2 DEF IdentityMapping
<1> QED BY <1>3, <1>4, <1>5, <1>6 DEF IdentityMapping

\* The entries of a deleted file, and its tracks, one by one.
LEMMA DeletedEntries ==
  ASSUME DiskTypeOK, IdentityMapping, NEW fid \in Fid, LbaDelete(fid)
  PROVE  /\ \A t \in Track \ Owned(fid) : storage'[t] = storage[t] /\ ltp'[t] = ltp[t]
         /\ \A t \in Owned(fid) : /\ storage'[t].status = "invalid"
                                  /\ ~ ltp'[t].valid
                                  /\ ltp'[t].pba = ltp[t].pba /\ ltp'[t].fid = ltp[t].fid
<1> DEFINE D == Owned(fid)
<1>1. Lba = Track /\ D \in SUBSET Track BY DEF Lba, Track, Owned
<1>2. /\ storage' = [t \in Track |->
            IF t \in D THEN [storage[t] EXCEPT !.status = "invalid"] ELSE storage[t]]
      /\ ltp' = [l \in Lba |-> IF l \in D THEN [ltp[l] EXCEPT !.valid = FALSE] ELSE ltp[l]]
  BY DeleteEffect
<1>3. \A t \in D : /\ storage'[t] = [storage[t] EXCEPT !.status = "invalid"]
                   /\ ltp'[t] = [ltp[t] EXCEPT !.valid = FALSE]
  BY <1>1, <1>2
<1>4. \A t \in Track \ D : storage'[t] = storage[t] /\ ltp'[t] = ltp[t]
  BY <1>1, <1>2
<1> HIDE DEF D
<1>5. ASSUME NEW t \in D
      PROVE  /\ storage'[t].status = "invalid"
             /\ ~ ltp'[t].valid
             /\ ltp'[t].pba = ltp[t].pba /\ ltp'[t].fid = ltp[t].fid
  <2>1. storage[t] \in [status : Status, lba : Lba, count : Nat]
    BY <1>1 DEF DiskTypeOK
  <2>2. ltp[t] \in [valid : BOOLEAN, fid : Fid \cup {NoFid}, pba : Track]
    BY <1>1 DEF DiskTypeOK
  <2> QED BY <1>3, <2>1, <2>2
<1> QED BY <1>4, <1>5 DEF D

LEMMA DeleteIdentity ==
  ASSUME DiskTypeOK, IdentityMapping, NEW fid \in Fid, LbaDelete(fid)
  PROVE  IdentityMapping'
<1>1. Lba = Track BY DEF Lba, Track
<1>2. /\ \A t \in Track \ Owned(fid) : storage'[t] = storage[t] /\ ltp'[t] = ltp[t]
      /\ \A t \in Owned(fid) : storage'[t].status = "invalid" /\ ~ ltp'[t].valid
  BY DeletedEntries
<1>3. \A t \in Track : IF t \in Owned(fid)
                       THEN storage'[t].status = "invalid" /\ ~ ltp'[t].valid
                       ELSE storage'[t] = storage[t] /\ ltp'[t] = ltp[t]
  BY <1>2
<1> QED BY <1>1, <1>3 DEF IdentityMapping

-----------------------------------------------------------------------------
(***************************************************************************)
(* What a step of an operation may do.                                     *)
(***************************************************************************)
LEMMA WriteKeepsOwners ==
  ASSUME DiskTypeOK, IdentityMapping, NEW lba \in Nat, NEW n \in Nat, NEW fid \in Fid,
         LbaWrite(lba, n, fid), NEW l \in Lba, ltp[l].valid, ltp'[l].valid
  PROVE  ltp'[l].fid = ltp[l].fid
<1> DEFINE G == Granted(lba, n, fid)
<1>1. ltp' = [k \in Lba |-> IF k \in G THEN [valid |-> TRUE, fid |-> fid, pba |-> k]
                            ELSE ltp[k]]
  BY WriteEffect
<1>2. l \in G => ltp[l].fid = fid BY DEF Granted, IsInvalidWrite
<1> HIDE DEF G
<1> QED BY <1>1, <1>2

LEMMA DeleteKeepsOwners ==
  ASSUME DiskTypeOK, IdentityMapping, NEW fid \in Fid, LbaDelete(fid),
         NEW l \in Lba, ltp'[l].valid
  PROVE  ltp'[l].fid = ltp[l].fid
<1>1. Lba = Track BY DEF Lba, Track
<1> QED BY <1>1, DeletedEntries

\* A batch moves the write head of a band beyond its tracks, never back.
LEMMA HeadAdvances ==
  ASSUME DiskTypeOK, NEW S \in SUBSET Track, NEW b \in Band
  PROVE  /\ BandAfter(S, b).whp >= band[b].whp
         /\ \A t \in S \cap TracksOf(b) : t <= BandAfter(S, b).whp
<1> DEFINE mine == S \cap TracksOf(b)
<1>0. band[b] \in BandRecord BY DEF DiskTypeOK
<1>1. CASE mine = {} BY <1>0, <1>1, MaxBlockPositive DEF BandAfter, BandRecord, Track
<1>2. CASE mine # {}
  <2>1. mine \in SUBSET Track OBVIOUS
  <2>2. Max(mine) \in Track /\ \A y \in mine : y <= Max(mine) BY <1>2, <2>1, MaxTrack
  <2>3. BandAfter(S, b).whp = NewHead(band[b], mine) BY <1>2 DEF BandAfter
  <2> HIDE DEF mine
  <2>4. \A t \in mine : t \in Int BY <2>1, MaxBlockPositive DEF Track
  <2>5. /\ NewHead(band[b], mine) >= band[b].whp
        /\ NewHead(band[b], mine) >= Max(mine)
    BY <1>0, <2>2, MaxBlockPositive DEF NewHead, BandRecord, Track
  <2>6. NewHead(band[b], mine) \in Int
    BY <1>0, <2>2, MaxBlockPositive DEF NewHead, BandRecord, Track
  <2>7. \A t \in mine : t <= NewHead(band[b], mine)
    BY <2>2, <2>4, <2>5, <2>6, MaxBlockPositive DEF Track
  <2> QED BY <2>3, <2>5, <2>7 DEF mine
<1> QED BY <1>1, <1>2

\* No batch changes the mode of a band.
LEMMA ModeKept ==
  ASSUME NEW S, NEW b \in Band
  PROVE  BandAfter(S, b).cmr = band[b].cmr
BY DEF BandAfter

LEMMA InitHeads == DiskInit => WriteHeadCovers
BY DEF DiskInit, WriteHeadCovers, InUse

LEMMA WriteHeads ==
  ASSUME DiskTypeOK, IdentityMapping, WriteHeadCovers,
         NEW lba \in Nat, NEW n \in Nat, NEW fid \in Fid, LbaWrite(lba, n, fid)
  PROVE  WriteHeadCovers'
<1> DEFINE G == Granted(lba, n, fid)
<1>1. G \in SUBSET Track BY GrantedType DEF Lba, Track
<1>2. /\ storage' = [t \in Track |->
            IF t \in G THEN [status |-> "in_use", lba |-> t, count |-> storage[t].count + 1]
            ELSE storage[t]]
      /\ band' = IF G = {} THEN band ELSE WriteBands(G)
  BY WriteEffect
<1> HIDE DEF G
<1> SUFFICES ASSUME Build # "CMR", NEW b \in Band, ~ band'[b].cmr,
                    NEW t \in TracksOf(b), t \in InUse'
             PROVE  t <= band'[b].whp
  BY DEF WriteHeadCovers
<1>3. t \in Track /\ storage'[t].status = "in_use" BY DEF InUse
<1>4. t \notin G => t \in InUse BY <1>2, <1>3 DEF InUse
<1>5. band[b].whp \in Int /\ t \in Int
  BY <1>3, MaxBlockPositive DEF DiskTypeOK, BandRecord, Track
<1>6. CASE G = {} BY <1>2, <1>4, <1>6 DEF WriteHeadCovers
<1>7. CASE G # {}
  <2>0. band'[b] \in {BandAfter(G, b), FluidBandAfter(G, b)}
    BY <1>2, <1>7 DEF WriteBands, BandsAfter, FluidBandsAfter
  <2>1. band'[b] = BandAfter(G, b) /\ ~ band[b].cmr
    BY <2>0, ModeKept DEF FluidBandAfter
  <2>2. band'[b].whp \in Int
    <3>1. BandAfter(G, b) \in BandRecord BY <1>1, BandAfterType DEF DiskTypeOK
    <3> QED BY <2>1, <3>1, MaxBlockPositive DEF BandRecord, Track
  <2>3. CASE t \in G BY <1>1, <2>1, <2>3, HeadAdvances
  <2>4. CASE t \notin G
    <3>1. t <= band[b].whp BY <1>4, <2>1, <2>4 DEF WriteHeadCovers
    <3>2. band[b].whp <= band'[b].whp BY <1>1, <1>5, <2>1, <2>2, HeadAdvances
    <3> QED BY <1>5, <2>2, <3>1, <3>2
  <2> QED BY <2>3, <2>4
<1> QED BY <1>6, <1>7

LEMMA DeleteHeads ==
  ASSUME DiskTypeOK, IdentityMapping, WriteHeadCovers, NEW fid \in Fid, LbaDelete(fid)
  PROVE  WriteHeadCovers'
<1> DEFINE D == Owned(fid)
<1>1. D \in SUBSET Track BY DEF Owned, Lba, Track
<1>2. band' = IF D = {} THEN band ELSE BandsAfter(D) BY DeleteEffect
<1>3. \A t \in Track : storage'[t].status = "in_use" => storage[t].status = "in_use"
  <2> SUFFICES ASSUME NEW t \in Track, storage'[t].status = "in_use"
               PROVE  storage[t].status = "in_use"
    OBVIOUS
  <2>1. t \notin D BY DeletedEntries
  <2> QED BY <2>1, DeletedEntries
<1> HIDE DEF D
<1> SUFFICES ASSUME Build # "CMR", NEW b \in Band, ~ band'[b].cmr,
                    NEW t \in TracksOf(b), t \in InUse'
             PROVE  t <= band'[b].whp
  BY DEF WriteHeadCovers
<1>4. t \in InUse /\ t \in Track BY <1>3 DEF InUse
<1>5. ~ band[b].cmr
  <2>1. band'[b] \in {band[b], BandAfter(D, b)} BY <1>2 DEF BandsAfter
  <2> QED BY <2>1, ModeKept
<1>5a. t <= band[b].whp BY <1>4, <1>5 DEF WriteHeadCovers
<1>6. band[b].whp \in Int /\ t \in Int
  BY <1>4, MaxBlockPositive DEF DiskTypeOK, BandRecord, Track
<1>7. CASE D = {} BY <1>2, <1>5a, <1>7
<1>8. CASE D # {}
  <2>1. band'[b] = BandAfter(D, b) BY <1>2, <1>8 DEF BandsAfter
  <2>2. BandAfter(D, b) \in BandRecord BY <1>1, BandAfterType DEF DiskTypeOK
  <2>3. band'[b].whp \in Int BY <2>1, <2>2, MaxBlockPositive DEF BandRecord, Track
  <2>4. band[b].whp <= band'[b].whp BY <1>1, <1>6, <2>1, <2>3, HeadAdvances
  <2> QED BY <1>5a, <1>6, <2>3, <2>4
<1> QED BY <1>7, <1>8

-----------------------------------------------------------------------------
(* The passes of a table, the bands, and what a batch does to a band.      *)

\* Pass 0 of any round is physical, the passes over the bands are virtual.
LEMMA PassOfRound ==
  ASSUME NEW m \in Int, NEW k \in 0 .. 2*BandCount
  PROVE  (Round * m + k) % Round = k
<1>1. Round \in Nat \ {0} /\ k \in 0 .. Round - 1 BY BandCountAssumption DEF Round
<1> HIDE DEF Round
<1> QED BY <1>1

LEMMA TailsVirtual ==
  ASSUME NEW m \in Int, NEW bands, NEW inUse, NEW e \in Tails(Round * m, bands, inUse)
  PROVE  IsVirtual(e)
<1>1. PICK b \in Band : e.pass \in {Round * m + 2*b + 1, Round * m + 2*b + 2}
  BY DEF Tails, Entries
<1>2. 2*b + 1 \in 1 .. 2*BandCount /\ 2*b + 2 \in 1 .. 2*BandCount
  BY BandCountAssumption DEF Band
<1>3. Round \in Int BY BandCountAssumption DEF Round
<1>4. PICK k \in 1 .. 2*BandCount : e.pass = Round * m + k
  <2>1. Round * m + 2*b + 1 = Round * m + (2*b + 1) /\ Round * m + 2*b + 2 = Round * m + (2*b + 2)
    BY <1>3 DEF Band
  <2> QED BY <1>1, <1>2, <2>1
<1>5. e.pass % Round = k BY <1>4, PassOfRound
<1> QED BY <1>4, <1>5 DEF IsVirtual

LEMMA BatchPhysical ==
  ASSUME NEW m \in Int, NEW S, NEW e \in Entries(Round * m, S)
  PROVE  ~ IsVirtual(e)
<1>1. Round \in Int BY BandCountAssumption DEF Round
<1>2. e.pass = Round * m + 0 BY <1>1 DEF Entries
<1>3. e.pass % Round = 0 BY <1>2, PassOfRound, BandCountAssumption
<1> QED BY <1>3 DEF IsVirtual

\* A track is in one band only.
LEMMA OneBandEach ==
  ASSUME NEW b \in Band, NEW c \in Band, NEW t \in TracksOf(b), t \in TracksOf(c)
  PROVE  b = c
<1>1. \A d, e \in Nat : d < e => BandHead(d) + BandTracks <= BandHead(e)
  <2> SUFFICES ASSUME NEW d \in Nat, NEW e \in Nat, d < e
               PROVE  BandHead(d) + BandTracks <= BandHead(e)
    OBVIOUS
  <2>1. PICK k \in Nat : e = d + 1 + k
    <3>1. e - d - 1 \in Nat /\ e = d + 1 + (e - d - 1) OBVIOUS
    <3> QED BY <3>1
  <2>2. e * BandTracks = d * BandTracks + BandTracks + k * BandTracks
    BY <2>1, BandTracksAssumption
  <2>3. /\ k * BandTracks \in Nat /\ d * BandTracks \in Nat /\ e * BandTracks \in Nat
        /\ BandTracks \in Nat
    BY BandTracksAssumption
  <2> QED BY <2>2, <2>3 DEF BandHead
<1>2. b \in Nat /\ c \in Nat BY DEF Band
<1>3. BandHead(b) \in Nat /\ BandHead(c) \in Nat BY <1>2, BandTracksAssumption DEF BandHead
<1>4. /\ t \in Int /\ BandHead(b) <= t /\ t < BandHead(b) + BandTracks
      /\ BandHead(c) <= t /\ t < BandHead(c) + BandTracks
  BY <1>3, BandTracksAssumption DEF TracksOf
<1>5. ~ b < c /\ ~ c < b
  BY <1>1, <1>2, <1>3, <1>4, BandTracksAssumption
<1> QED BY <1>2, <1>5

\* What batch_extend does to the record of a band.
LEMMA BandOfBatch ==
  ASSUME DiskTypeOK, NEW S \in SUBSET Track, NEW b \in Band
  PROVE  LET mine == S \cap TracksOf(b)
             k    == BandAfter(S, b)
         IN  /\ k.cmr = band[b].cmr
             /\ mine = {} => k = band[b]
             /\ mine # {} =>
                   /\ Min(mine) \in mine /\ \A t \in mine : Min(mine) <= t
                   /\ Max(mine) \in mine /\ \A t \in mine : t <= Max(mine)
                   /\ k.rmw = (band[b].rmw \/ Min(mine) < band[b].whp)
                   /\ k.rmw => k.end = Max(mine)
                   /\ ~ k.rmw => k.end = band[b].end
                   /\ ~ band[b].rmw /\ k.rmw => k.start = Min(mine)
                   /\ k.whp \in {band[b].whp, Max(mine)}
<1> DEFINE mine == S \cap TracksOf(b)
<1>1. CASE mine = {} BY <1>1 DEF BandAfter
<1>2. CASE mine # {}
  <2>1. mine \in SUBSET Track OBVIOUS
  <2>2. /\ Min(mine) \in mine /\ \A t \in mine : Min(mine) <= t
        /\ Max(mine) \in mine /\ \A t \in mine : t <= Max(mine)
    BY <1>2, <2>1, MinTrack, MaxTrack
  <2>3. BandAfter(S, b).whp \in {band[b].whp, Max(mine)} BY <1>2 DEF BandAfter, NewHead
  <2>4. band[b].rmw \in BOOLEAN BY DEF DiskTypeOK, BandRecord
  <2> QED BY <1>2, <2>2, <2>3, <2>4 DEF BandAfter
<1> QED BY <1>1, <1>2
=============================================================================
