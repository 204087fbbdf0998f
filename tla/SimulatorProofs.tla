-------------------------- MODULE SimulatorProofs --------------------------
(***************************************************************************)
(* Theorems about the simulator and about what it reports, for every disk, *)
(* every trace and each of the five builds.  They rest on one inductive    *)
(* invariant, Inv: besides the types it needs IdentityMapping, because     *)
(* MappingConsistent alone does not say that the track pba_search books    *)
(* for a new block is not the track of another one.                        *)
(***************************************************************************)
EXTENDS Simulator, DiskProofs

\* What parsing_csv and parsing_postmark hand to the disk.
DiskStep ==
    \E fid \in Fid :
        \/ \E r \in ReadRanges  : LbaRead(r[1], r[2], fid)
        \/ \E r \in WriteRanges : LbaWrite(r[1], r[2], fid)
        \/ LbaDelete(fid)

\* A line of the trace is a request to the disk or leaves it alone.
LEMMA StepOfDisk ==
  ASSUME [Next]_vars
  PROVE  DiskStep \/ UNCHANGED diskVars
BY DEF Next, vars, diskVars, DiskStep, ReadLine, WriteLine, DeleteLine,
       UnknownLine, CommentLine, BadLine, EndOfTrace

LEMMA RangesAreNat ==
  /\ \A r \in ReadRanges  : r[1] \in Nat /\ r[2] \in Nat
  /\ \A r \in WriteRanges : r[1] \in Nat /\ r[2] \in Nat
BY RangesAssumption

\* The counters of the program around the disk.
Ins == [all : Nat, read : Nat, write : Nat, delete : Nat]

ProgramTypeOK ==
    /\ left \in 0 .. NumTraces
    /\ ins \in Ins
    /\ outcome \in Outcome

\* Counting an instruction keeps the counters naturals.
LEMMA CountedType ==
  ASSUME NEW i \in Ins
  PROVE  /\ [i EXCEPT !.all = @ + 1] \in Ins
         /\ [i EXCEPT !.all = @ + 1, !.read = @ + 1] \in Ins
         /\ [i EXCEPT !.all = @ + 1, !.write = @ + 1] \in Ins
         /\ [i EXCEPT !.all = @ + 1, !.delete = @ + 1] \in Ins
<1>1. \A j \in Ins : /\ [j EXCEPT !.all = @ + 1] \in Ins
                     /\ [j EXCEPT !.read = @ + 1] \in Ins
                     /\ [j EXCEPT !.write = @ + 1] \in Ins
                     /\ [j EXCEPT !.delete = @ + 1] \in Ins
  BY DEF Ins
<1>2. /\ [i EXCEPT !.all = @ + 1, !.read = @ + 1]
            = [[i EXCEPT !.all = @ + 1] EXCEPT !.read = @ + 1]
      /\ [i EXCEPT !.all = @ + 1, !.write = @ + 1]
            = [[i EXCEPT !.all = @ + 1] EXCEPT !.write = @ + 1]
      /\ [i EXCEPT !.all = @ + 1, !.delete = @ + 1]
            = [[i EXCEPT !.all = @ + 1] EXCEPT !.delete = @ + 1]
  BY DEF Ins
<1> QED BY <1>1, <1>2

LEMMA ProgramType ==
  ASSUME ProgramTypeOK, [Next]_vars
  PROVE  ProgramTypeOK'
<1> USE DEF ProgramTypeOK
<1>1. Line => left' \in 0 .. NumTraces BY NumTracesAssumption DEF Line
<1>2. /\ [ins EXCEPT !.all = @ + 1] \in Ins
      /\ [ins EXCEPT !.all = @ + 1, !.read = @ + 1] \in Ins
      /\ [ins EXCEPT !.all = @ + 1, !.write = @ + 1] \in Ins
      /\ [ins EXCEPT !.all = @ + 1, !.delete = @ + 1] \in Ins
  BY CountedType
<1>3. \A n : Judge(n) => outcome' \in Outcome BY DEF Judge, Outcome
<1>4. ASSUME NEW r \in ReadRanges, NEW fid \in Fid, ReadLine(r[1], r[2], fid)
      PROVE  ProgramTypeOK'
  <2>1. Line /\ ins' = [ins EXCEPT !.all = @ + 1, !.read = @ + 1] /\ Judge(r[2])
    BY <1>4 DEF ReadLine
  <2> QED BY <1>1, <1>2, <1>3, <2>1
<1>5. ASSUME NEW r \in WriteRanges, NEW fid \in Fid, WriteLine(r[1], r[2], fid)
      PROVE  ProgramTypeOK'
  <2>1. Line /\ ins' = [ins EXCEPT !.all = @ + 1, !.write = @ + 1] /\ Judge(r[2])
    BY <1>5 DEF WriteLine
  <2> QED BY <1>1, <1>2, <1>3, <2>1
<1>6. ASSUME NEW fid \in Fid, DeleteLine(fid) PROVE ProgramTypeOK'
  <2>1. /\ Line /\ ins' = [ins EXCEPT !.all = @ + 1, !.delete = @ + 1]
        /\ outcome' = "running"
    BY <1>6 DEF DeleteLine
  <2> QED BY <1>1, <1>2, <2>1 DEF Outcome
<1>7. CASE UnknownLine BY <1>1, <1>2, <1>7 DEF UnknownLine
<1>8. CASE CommentLine BY <1>1, <1>8 DEF CommentLine
<1>9. CASE BadLine BY <1>1, <1>9 DEF BadLine, Outcome
<1>10. CASE EndOfTrace BY <1>10 DEF EndOfTrace, Outcome
<1>11. CASE UNCHANGED vars BY <1>11 DEF vars
<1> QED BY <1>4, <1>5, <1>6, <1>7, <1>8, <1>9, <1>10, <1>11 DEF Next

-----------------------------------------------------------------------------
\* The inductive invariant of the disk.
DiskInv == DiskTypeOK /\ IdentityMapping /\ WriteHeadCovers /\ NeverAborts

LEMMA DiskInvStep ==
  ASSUME DiskInv, DiskStep \/ UNCHANGED diskVars
  PROVE  DiskInv'
<1> USE DEF DiskInv
<1>1. ASSUME NEW fid \in Fid, NEW r \in ReadRanges, LbaRead(r[1], r[2], fid)
      PROVE  DiskInv'
  <2>1. r[1] \in Nat /\ r[2] \in Nat BY RangesAreNat
  <2>2. DiskTypeOK' BY <1>1, <2>1, ReadType
  <2>3. UNCHANGED <<storage, ltp, band, aborted>> BY <1>1, <2>1, ReadEffect
  <2> QED BY <2>2, <2>3 DEF IdentityMapping, WriteHeadCovers, InUse, NeverAborts
<1>2. ASSUME NEW fid \in Fid, NEW r \in WriteRanges, LbaWrite(r[1], r[2], fid)
      PROVE  DiskInv'
  <2>1. r[1] \in Nat /\ r[2] \in Nat BY RangesAreNat
  <2>2. DiskTypeOK' BY <1>2, <2>1, WriteType
  <2>3. IdentityMapping' BY <1>2, <2>1, WriteIdentity
  <2>4. WriteHeadCovers' BY <1>2, <2>1, WriteHeads
  <2>5. aborted' = aborted BY <1>2, <2>1, WriteEffect
  <2> QED BY <2>2, <2>3, <2>4, <2>5 DEF NeverAborts
<1>3. ASSUME NEW fid \in Fid, LbaDelete(fid)
      PROVE  DiskInv'
  <2>1. DiskTypeOK' BY <1>3, DeleteType
  <2>2. IdentityMapping' BY <1>3, DeleteIdentity
  <2>3. WriteHeadCovers' BY <1>3, DeleteHeads
  <2>4. aborted' => aborted BY <1>3, DeleteEffect
  <2> QED BY <2>1, <2>2, <2>3, <2>4 DEF NeverAborts
<1>4. CASE UNCHANGED diskVars
  BY <1>4 DEF diskVars, DiskTypeOK, IdentityMapping, WriteHeadCovers, InUse, NeverAborts
<1> QED BY <1>1, <1>2, <1>3, <1>4 DEF DiskStep

Inv == DiskInv /\ ProgramTypeOK

\* No request, whatever it names and whenever it comes, makes an index of
\* the storage, the table or the bands leave its array, makes the lba to pba
\* table and the tracks disagree, leaves data beyond a write head, or makes
\* chs_delete end the program.
THEOREM Invariance == Spec => []Inv
<1>1. Init => Inv
  <2> SUFFICES ASSUME Init PROVE Inv OBVIOUS
  <2>1. DiskInv BY InitType, InitIdentity, InitHeads DEF Init, DiskInv, DiskInit, NeverAborts
  <2>2. ProgramTypeOK BY NumTracesAssumption DEF Init, ProgramTypeOK, Outcome, Ins
  <2> QED BY <2>1, <2>2 DEF Inv
<1>2. Inv /\ [Next]_vars => Inv'
  BY StepOfDisk, DiskInvStep, ProgramType DEF Inv
<1> QED BY <1>1, <1>2, PTL DEF Spec

\* The types of the simulator: lba.c, pba.c and batch.c index their arrays
\* within bounds, and the statuses are those of the enumeration.
THEOREM TypeCorrect == Spec => []SimulatorTypeOK
<1>1. Inv => SimulatorTypeOK BY DEF Inv, DiskInv, ProgramTypeOK, Ins, SimulatorTypeOK
<1> QED BY <1>1, Invariance, PTL

\* Between two requests the lba to pba table and the back pointers of the
\* tracks in use are each other's inverse.
THEOREM MappingStaysConsistent == Spec => []MappingConsistent
<1>1. Inv => MappingConsistent BY IdentityImpliesConsistent DEF Inv, DiskInv
<1> QED BY <1>1, Invariance, PTL

\* Every block lies at the track of its number, and a track is in use exactly
\* when its entry is valid.
THEOREM MappingStaysIdentity == Spec => []IdentityMapping
<1>1. Inv => IdentityMapping BY DEF Inv, DiskInv
<1> QED BY <1>1, Invariance, PTL

\* chs_delete never meets a track that is not in use or an entry that is
\* invalid: its exit is dead code.
THEOREM DiskNeverAborts == Spec => []NeverAborts
<1>1. Inv => NeverAborts BY DEF Inv, DiskInv
<1> QED BY <1>1, Invariance, PTL

\* All data of a band lies at or before its write head, so the loop of
\* batch_extend that stops there misses none of it.
THEOREM HeadsCoverData == Spec => []WriteHeadCovers
<1>1. Inv => WriteHeadCovers BY DEF Inv, DiskInv
<1> QED BY <1>1, Invariance, PTL

\* No step hands a block of one file to another: the check of lba_write
\* holds across every path to the table.
THEOREM OwnersAreStable == Spec => OwnershipStable
<1> DEFINE Kept == \A l \in Lba : ltp[l].valid /\ ltp'[l].valid => ltp'[l].fid = ltp[l].fid
<1>1. ASSUME Inv, [Next]_vars PROVE [Kept]_diskVars
  <2>1. CASE UNCHANGED diskVars BY <2>1
  <2>2. CASE DiskStep
    <3> USE DEF Inv, DiskInv
    <3>1. ASSUME NEW fid \in Fid, NEW r \in ReadRanges, LbaRead(r[1], r[2], fid) PROVE Kept
      BY <1>1, <3>1, RangesAreNat, ReadEffect
    <3>2. ASSUME NEW fid \in Fid, NEW r \in WriteRanges, LbaWrite(r[1], r[2], fid) PROVE Kept
      BY <1>1, <3>2, RangesAreNat, WriteKeepsOwners
    <3>3. ASSUME NEW fid \in Fid, LbaDelete(fid) PROVE Kept
      BY <1>1, <3>3, DeleteKeepsOwners
    <3> QED BY <2>2, <3>1, <3>2, <3>3 DEF DiskStep
  <2> QED BY <1>1, <2>1, <2>2, StepOfDisk
<1> HIDE DEF Kept
<1>2. Spec => [][Kept]_diskVars BY <1>1, Invariance, PTL DEF Spec
<1> QED BY <1>2 DEF OwnershipStable, Kept

-----------------------------------------------------------------------------
(***************************************************************************)
(* The disk implements FileStore: the owner of a block is the fid of its   *)
(* entry while the entry is valid.                                         *)
(***************************************************************************)
owner == [l \in Lba |-> IF ltp[l].valid THEN ltp[l].fid ELSE NoFid]

\* FileStore counts with a Cardinality of its own instance of FiniteSets.
LEMMA StoreCardinality ==
  ASSUME NEW S
  PROVE  Store!Cardinality(S) = Cardinality(S)
BY DEF Store!Cardinality, Cardinality

\* A store names the blocks of a request that fits, and only those.
LEMMA StoreBlocks ==
  ASSUME NEW lba \in Nat, NEW n \in Nat
  PROVE  Store!Blocks(lba, n) = IF InRange(lba, n) THEN Blocks(lba, n) ELSE {}
BY MaxBlockPositive DEF Store!Blocks, Blocks, InRange

LEMMA OwnerOfBlock ==
  ASSUME IdentityMapping, NEW l \in Lba, NEW fid \in Fid
  PROVE  /\ owner[l] = fid <=> IsLtpMappingValid(l, fid)
         /\ owner[l] \in {NoFid, fid} <=> ~ IsInvalidWrite(l, fid)
BY NoFidAssumption DEF owner, IdentityMapping, IsLtpMappingValid, IsInvalidWrite

LEMMA InitRefines == Init => Store!Init
BY DEF Init, DiskInit, Store!Init, Store!Lba, Lba

LEMMA ReadRefines ==
  ASSUME IdentityMapping, NEW lba \in Nat, NEW n \in Nat, NEW fid \in Fid,
         LbaRead(lba, n, fid)
  PROVE  Store!Read(lba, n, fid)
<1> DEFINE B == IF InRange(lba, n) THEN Blocks(lba, n) ELSE {}
<1>1. B \subseteq Lba BY BlocksOfRequest
<1>2. {l \in B : owner[l] = fid} = {l \in B : IsLtpMappingValid(l, fid)}
  BY <1>1, OwnerOfBlock
<1>3. ret' = Cardinality({l \in B : IsLtpMappingValid(l, fid)})
  <2>1. CASE InRange(lba, n) BY <2>1, ReadEffect
  <2>2. CASE ~ InRange(lba, n)
    <3>1. {l \in B : IsLtpMappingValid(l, fid)} = {} BY <2>2
    <3> QED BY <2>2, <3>1, ReadEffect, FS_EmptySet
  <2> QED BY <2>1, <2>2
<1>4. Store!Blocks(lba, n) = B BY StoreBlocks
<1>5. UNCHANGED ltp BY ReadEffect
<1> HIDE DEF B
<1> QED BY <1>2, <1>3, <1>4, <1>5, StoreCardinality DEF Store!Read, Store!Found, owner

LEMMA WriteRefines ==
  ASSUME DiskTypeOK, IdentityMapping, NEW lba \in Nat, NEW n \in Nat, NEW fid \in Fid,
         LbaWrite(lba, n, fid)
  PROVE  Store!Write(lba, n, fid)
<1> DEFINE G == Granted(lba, n, fid)
<1>1. G = {l \in Store!Blocks(lba, n) : owner[l] \in {NoFid, fid}}
  <2>1. CASE InRange(lba, n)
    <3>1. G = {l \in Blocks(lba, n) : ~ IsInvalidWrite(l, fid)} BY <2>1 DEF Granted
    <3>2. Blocks(lba, n) \subseteq Lba BY <2>1, BlocksOfRequest
    <3>3. Store!Blocks(lba, n) = Blocks(lba, n) BY <2>1, StoreBlocks
    <3> QED BY <3>1, <3>2, <3>3, OwnerOfBlock
  <2>2. CASE ~ InRange(lba, n) BY <2>2, StoreBlocks DEF Granted
  <2> QED BY <2>1, <2>2
<1>2. /\ ltp' = [l \in Lba |-> IF l \in G THEN [valid |-> TRUE, fid |-> fid, pba |-> l]
                               ELSE ltp[l]]
      /\ ret' = Cardinality(G)
  BY WriteEffect
<1> HIDE DEF G
<1>3. owner' = [l \in Lba |-> IF l \in G THEN fid ELSE owner[l]]
  BY <1>2 DEF owner
<1> QED BY <1>1, <1>2, <1>3, StoreCardinality
  DEF Store!Write, Store!Granted, Store!Passed, Store!Lba, Lba, owner

LEMMA DeleteRefines ==
  ASSUME DiskTypeOK, IdentityMapping, NEW fid \in Fid, LbaDelete(fid)
  PROVE  Store!Delete(fid)
<1> DEFINE D == Owned(fid)
<1>1. D = {l \in Lba : owner[l] = fid} BY OwnerOfBlock DEF Owned
<1>2. ret' = Cardinality(D) BY DeleteEffect
<1>3. owner' = [l \in Lba |-> IF l \in D THEN NoFid ELSE owner[l]]
  <2>1. Lba = Track BY DEF Lba, Track
  <2>2. /\ \A l \in Lba \ D : ltp'[l] = ltp[l]
        /\ \A l \in D : ~ ltp'[l].valid
    BY <2>1, DeletedEntries
  <2> HIDE DEF D
  <2> QED BY <2>2 DEF owner
<1> QED BY <1>1, <1>2, <1>3, StoreCardinality
  DEF Store!Delete, Store!Held, Store!Passed, Store!Lba, Lba, owner

\* A trace cannot tell the disk from a store of blocks that belong to files:
\* every line is a read, write or delete of the store, or nothing.
THEOREM DiskImplementsStore == Spec => ImplementsStore
<1>1. Init => Store!Init BY InitRefines
<1>2. ASSUME Inv, [Next]_vars PROVE [Store!Next]_(Store!vars)
  <2> USE DEF Inv, DiskInv
  <2>1. ASSUME NEW fid \in Fid, NEW r \in ReadRanges, LbaRead(r[1], r[2], fid)
        PROVE  Store!Next
    BY <1>2, <2>1, RangesAreNat, ReadRefines DEF Store!Next
  <2>2. ASSUME NEW fid \in Fid, NEW r \in WriteRanges, LbaWrite(r[1], r[2], fid)
        PROVE  Store!Next
    BY <1>2, <2>2, RangesAreNat, WriteRefines DEF Store!Next
  <2>3. ASSUME NEW fid \in Fid, LbaDelete(fid) PROVE Store!Next
    BY <1>2, <2>3, DeleteRefines DEF Store!Next
  <2>4. CASE UNCHANGED diskVars BY <2>4 DEF diskVars, Store!vars
  <2> QED BY <1>2, <2>1, <2>2, <2>3, <2>4, StepOfDisk DEF DiskStep
<1> QED BY <1>1, <1>2, Invariance, PTL DEF Spec, ImplementsStore, Store!Spec

-----------------------------------------------------------------------------
(***************************************************************************)
(* The report of the simulator: the numbers it prints.  The invariant      *)
(* turns the tracks of a request into its blocks.                          *)
(***************************************************************************)
\* The blocks of a request that lba_read finds.
Held(lba, n, fid) ==
    IF InRange(lba, n) THEN {l \in Blocks(lba, n) : IsLtpMappingValid(l, fid)} ELSE {}

\* What a request charges for the blocks that it is not served.
MissedRead(k) == Charge(report, [invalidRead |-> k])
MissedWrite(k) == Charge(report, [invalidWrite |-> k])

InUseWith(S) == {t \in Track : IsUsed(t)} \cup S

DeleteTable(S) == IF Build = "CMR" THEN Entries(0, S)
                  ELSE Extension(S, BandsAfter(S), {t \in Track : IsUsed(t)})

-----------------------------------------------------------------------------
(* The report after each operation, without the detour over the batch.     *)

LEMMA ReadReport ==
  ASSUME IdentityMapping, NEW lba \in Nat, NEW n \in Nat, NEW fid \in Fid,
         LbaRead(lba, n, fid)
  PROVE  LET F == Held(lba, n, fid)
             r == MissedRead(n - Cardinality(F))
         IN  report' = IF ~ InRange(lba, n) THEN report
                       ELSE IF F = {} THEN r ELSE Charge(r, ReadCharge(Entries(0, F)))
<1>1. CASE ~ InRange(lba, n) BY <1>1 DEF LbaRead, Refuse
<1>2. CASE InRange(lba, n)
  <2> DEFINE found == {l \in Blocks(lba, n) : IsBlockDataValid(l, fid)}
             S == {ltp[l].pba : l \in found}
             r == Charge(report, [invalidRead |-> n - Cardinality(found)])
  <2>1. report' = IF S = {} THEN r ELSE Charge(r, ReadCharge(Entries(0, S)))
    BY <1>2 DEF LbaRead
  <2>2. found = Held(lba, n, fid)
    BY <1>2, BlocksOfRequest, SearchIsIdentity DEF Held
  <2>3. \A l \in found : ltp[l].pba = l
    BY <1>2, BlocksOfRequest DEF IsBlockDataValid, IsLtpMappingValid, IdentityMapping
  <2>4. S = found BY <2>3
  <2> HIDE DEF found
  <2> QED BY <1>2, <2>1, <2>2, <2>4 DEF MissedRead
<1> QED BY <1>1, <1>2

\* The blocks of a request that are booked for it.
Fresh(G, fid) == {l \in G : ~ IsLtpMappingValid(l, fid)}

LEMMA WriteReport ==
  ASSUME IdentityMapping, NEW lba \in Nat, NEW n \in Nat, NEW fid \in Fid,
         LbaWrite(lba, n, fid)
  PROVE  LET G == Granted(lba, n, fid)
             r == MissedWrite(n - Cardinality(G))
             E == WriteTable(G, WriteBands(G), InUseWith(G))
         IN  report' = IF ~ InRange(lba, n) THEN report
                       ELSE IF G = {} THEN r
                       ELSE Charge(r, WriteCharge(G, Fresh(G, fid), E))
<1> DEFINE G == Granted(lba, n, fid)
<1>0. G \in SUBSET Lba BY GrantedType
<1>1. CASE ~ InRange(lba, n) BY <1>1 DEF LbaWrite, Refuse
<1>2. CASE InRange(lba, n)
  <2>1. G = {l \in Blocks(lba, n) : ~ IsInvalidWrite(l, fid)} BY <1>2 DEF Granted
  <2>2. \/ G = {} /\ report' = MissedWrite(n - Cardinality(G))
        \/ G # {} /\ BatchWrite(G, fid, MissedWrite(n - Cardinality(G)))
    BY <1>2, <2>1 DEF LbaWrite, MissedWrite
  <2> HIDE DEF G
  <2>3. {PbaSearch(l, fid) : l \in G} = G BY <1>0, SearchIsIdentity
  <2>4. Booked(G, fid) = Fresh(G, fid)
    BY <1>0, SearchIsIdentity DEF Booked, FindNextPba, Fresh
  <2> QED BY <1>2, <2>2, <2>3, <2>4 DEF BatchWrite, G, InUseWith
<1> QED BY <1>1, <1>2

LEMMA DeleteReport ==
  ASSUME IdentityMapping, NEW fid \in Fid, LbaDelete(fid)
  PROVE  LET D == Owned(fid)
         IN  report' = IF D = {} THEN report
                       ELSE Charge(report, DeleteCharge(D, DeleteTable(D)))
<1> DEFINE D == Owned(fid)
<1>1. \A l \in D : ltp[l].pba = l BY DEF Owned, IsLtpMappingValid, IdentityMapping
<1>2. {ltp[l].pba : l \in D} = D BY <1>1
<1>3. CASE D = {} BY <1>2, <1>3 DEF LbaDelete, Owned, Refuse
<1>4. CASE D # {}
  <2>1. BatchDelete(D) BY <1>2, <1>4 DEF LbaDelete, Owned
  <2> QED BY <1>4, <2>1 DEF BatchDelete, DeleteTable
<1> QED BY <1>3, <1>4

-----------------------------------------------------------------------------
(* A postmark run that goes on was served in full.                         *)

\* No operation but a request that is not served in full counts a block as
\* refused.
LEMMA MissedCounters ==
  ASSUME DiskTypeOK, NEW k \in Nat
  PROVE  /\ MissedRead(k) \in Report
         /\ MissedRead(k).invalidRead = report.invalidRead + k
         /\ \A c \in Counter \ {"invalidRead"} : MissedRead(k)[c] = report[c]
         /\ MissedWrite(k) \in Report
         /\ MissedWrite(k).invalidWrite = report.invalidWrite + k
         /\ \A c \in Counter \ {"invalidWrite"} : MissedWrite(k)[c] = report[c]
<1>1. report \in Report BY DEF DiskTypeOK, Report
<1> QED BY <1>1 DEF MissedRead, MissedWrite, Charge, Report, Counter

LEMMA ChargesKeepRefused ==
  ASSUME NEW r \in Report, NEW E, NEW S, NEW booked
  PROVE  /\ Charge(r, ReadCharge(E)).invalidRead = r.invalidRead
         /\ Charge(r, ReadCharge(E)).invalidWrite = r.invalidWrite
         /\ Charge(r, WriteCharge(S, booked, E)).invalidRead = r.invalidRead
         /\ Charge(r, WriteCharge(S, booked, E)).invalidWrite = r.invalidWrite
         /\ Charge(r, DeleteCharge(S, E)).invalidRead = r.invalidRead
         /\ Charge(r, DeleteCharge(S, E)).invalidWrite = r.invalidWrite
BY DEF Charge, ReadCharge, WriteCharge, DeleteCharge, Counter

\* A request that is answered in full refuses no block.
LEMMA FullReadRefusesNone ==
  ASSUME DiskTypeOK, IdentityMapping, NEW lba \in Nat, NEW n \in Nat, NEW fid \in Fid,
         LbaRead(lba, n, fid), ret' = n
  PROVE  /\ report'.invalidRead = report.invalidRead
         /\ report'.invalidWrite = report.invalidWrite
<1> DEFINE F == Held(lba, n, fid)
<1>1. CASE ~ InRange(lba, n) BY <1>1, ReadReport
<1>2. CASE InRange(lba, n)
  <2>1. ret' = Cardinality(F) BY <1>2, ReadEffect DEF Held
  <2>a. Cardinality(F) = n BY <2>1
  <2>b. \A k : k = n => n - k = 0 OBVIOUS
  <2>2. n - Cardinality(F) = 0 BY <2>a, <2>b
  <2>3. report' \in {MissedRead(0), Charge(MissedRead(0), ReadCharge(Entries(0, F)))}
    BY <1>2, <2>2, ReadReport
  <2>4. /\ MissedRead(0) \in Report
        /\ MissedRead(0).invalidRead = report.invalidRead
        /\ MissedRead(0).invalidWrite = report.invalidWrite
    <3>1. report.invalidRead + 0 = report.invalidRead BY DEF DiskTypeOK, Counter
    <3> QED BY <3>1, MissedCounters DEF Counter
  <2> QED BY <2>3, <2>4, ChargesKeepRefused
<1> QED BY <1>1, <1>2

LEMMA FullWriteRefusesNone ==
  ASSUME DiskTypeOK, IdentityMapping, NEW lba \in Nat, NEW n \in Nat, NEW fid \in Fid,
         LbaWrite(lba, n, fid), ret' = n
  PROVE  /\ report'.invalidRead = report.invalidRead
         /\ report'.invalidWrite = report.invalidWrite
<1> DEFINE G == Granted(lba, n, fid)
           E == WriteTable(G, WriteBands(G), InUseWith(G))
<1>1. CASE ~ InRange(lba, n) BY <1>1, WriteReport
<1>2. CASE InRange(lba, n)
  <2>1. ret' = Cardinality(G) BY WriteEffect
  <2>a. Cardinality(G) = n BY <2>1
  <2>b. \A k : k = n => n - k = 0 OBVIOUS
  <2>2. n - Cardinality(G) = 0 BY <2>a, <2>b
  <2>3. report' \in {MissedWrite(0),
                     Charge(MissedWrite(0), WriteCharge(G, Fresh(G, fid), E))}
    BY <1>2, <2>2, WriteReport
  <2>4. /\ MissedWrite(0) \in Report
        /\ MissedWrite(0).invalidRead = report.invalidRead
        /\ MissedWrite(0).invalidWrite = report.invalidWrite
    <3>1. report.invalidWrite + 0 = report.invalidWrite BY DEF DiskTypeOK, Counter
    <3> QED BY <3>1, MissedCounters DEF Counter
  <2> QED BY <2>3, <2>4, ChargesKeepRefused
<1> QED BY <1>1, <1>2

LEMMA DeleteRefusesNone ==
  ASSUME DiskTypeOK, IdentityMapping, NEW fid \in Fid, LbaDelete(fid)
  PROVE  /\ report'.invalidRead = report.invalidRead
         /\ report'.invalidWrite = report.invalidWrite
<1>1. report \in Report BY DEF DiskTypeOK, Report
<1> QED BY <1>1, DeleteReport, ChargesKeepRefused

\* In a postmark trace no block of a request was refused or missing unless
\* the program has stopped with a mismatch: the comparison of parsing_postmark
\* with the answer misses no request that is served in part.
THEOREM PostmarkServedInFull == Spec => []ServedInFull
<1>1. Init => ServedInFull BY DEF Init, DiskInit, ServedInFull, Counter
<1>2. ASSUME Inv, ServedInFull, [Next]_vars PROVE ServedInFull'
  <2> USE DEF Inv, DiskInv
  <2> SUFFICES ASSUME Format = "postmark", outcome' # "mismatch"
               PROVE  report'.invalidRead = 0 /\ report'.invalidWrite = 0
    BY DEF ServedInFull
  <2> DEFINE Same == /\ report'.invalidRead = report.invalidRead
                     /\ report'.invalidWrite = report.invalidWrite
  <2>1. ASSUME NEW fid \in Fid, NEW r \in ReadRanges, ReadLine(r[1], r[2], fid)
        PROVE  Same /\ outcome = "running"
    <3>1. ret' = r[2] /\ outcome = "running" BY <2>1 DEF ReadLine, Judge, Line
    <3> QED BY <1>2, <2>1, <3>1, RangesAreNat, FullReadRefusesNone DEF ReadLine
  <2>2. ASSUME NEW fid \in Fid, NEW r \in WriteRanges, WriteLine(r[1], r[2], fid)
        PROVE  Same /\ outcome = "running"
    <3>1. ret' = r[2] /\ outcome = "running" BY <2>2 DEF WriteLine, Judge, Line
    <3> QED BY <1>2, <2>2, <3>1, RangesAreNat, FullWriteRefusesNone DEF WriteLine
  <2>3. ASSUME NEW fid \in Fid, DeleteLine(fid) PROVE Same /\ outcome = "running"
    BY <1>2, <2>3, DeleteRefusesNone DEF DeleteLine, Line
  <2>4. CASE UnknownLine \/ CommentLine \/ BadLine \/ EndOfTrace
    BY <1>2, <2>4 DEF UnknownLine, CommentLine, BadLine, EndOfTrace, Line, diskVars, ServedInFull
  <2>5. CASE UNCHANGED vars BY <1>2, <2>5 DEF vars, ServedInFull
  <2> QED BY <1>2, <2>1, <2>2, <2>3, <2>4, <2>5 DEF Next, ServedInFull
<1> QED BY <1>1, <1>2, Invariance, PTL DEF Spec

-----------------------------------------------------------------------------
(* Tracks in use against current_use_block_num.                            *)

LEMMA ChargesOfBlocks ==
  ASSUME NEW r \in Report, NEW E, NEW S, NEW booked
  PROVE  /\ Charge(r, ReadCharge(E)).currentUse = r.currentUse
         /\ Charge(r, ReadCharge(E)).deleteBlocks = r.deleteBlocks
         /\ Charge(r, WriteCharge(S, booked, E)).currentUse = r.currentUse + Cardinality(booked)
         /\ Charge(r, WriteCharge(S, booked, E)).deleteBlocks = r.deleteBlocks
         /\ Charge(r, DeleteCharge(S, E)).currentUse = r.currentUse
         /\ Charge(r, DeleteCharge(S, E)).deleteBlocks = r.deleteBlocks + Cardinality(S)
BY DEF Charge, ReadCharge, WriteCharge, DeleteCharge, Counter

LEMMA ReadCounters ==
  ASSUME DiskTypeOK, IdentityMapping, CountersMatchBlocks,
         NEW lba \in Nat, NEW n \in Nat, NEW fid \in Fid, LbaRead(lba, n, fid)
  PROVE  CountersMatchBlocks'
<1> DEFINE F == Held(lba, n, fid)
           r == MissedRead(n - Cardinality(F))
<1>1. /\ report'.currentUse = report.currentUse
      /\ report'.deleteBlocks = report.deleteBlocks
  <2>1. CASE ~ InRange(lba, n) BY <2>1, ReadReport
  <2>2. CASE InRange(lba, n)
    <3>1. F \subseteq Lba /\ Cardinality(F) \in 0 .. n
      <4>1. F = {l \in Blocks(lba, n) : IsBlockDataValid(l, fid)}
        BY <2>2, BlocksOfRequest, SearchIsIdentity DEF Held
      <4> QED BY <2>2, <4>1, SomeBlocks
    <3>2. n - Cardinality(F) \in Nat BY <3>1
    <3>3. /\ r \in Report /\ r.currentUse = report.currentUse
          /\ r.deleteBlocks = report.deleteBlocks
      BY <3>2, MissedCounters DEF Counter
    <3>4. report' \in {r, Charge(r, ReadCharge(Entries(0, F)))} BY <2>2, ReadReport
    <3> HIDE DEF r
    <3> QED BY <3>3, <3>4, ChargesOfBlocks
  <2> QED BY <2>1, <2>2
<1>2. UNCHANGED storage BY ReadEffect
<1> QED BY <1>1, <1>2 DEF CountersMatchBlocks, InUse

\* Two finite sets without a common element; a part taken out of a finite set.
LEMMA WriteCounters ==
  ASSUME DiskTypeOK, IdentityMapping, CountersMatchBlocks,
         NEW lba \in Nat, NEW n \in Nat, NEW fid \in Fid, LbaWrite(lba, n, fid)
  PROVE  CountersMatchBlocks'
<1> DEFINE G == Granted(lba, n, fid)
           B == Fresh(G, fid)
           r == MissedWrite(n - Cardinality(G))
           E == WriteTable(G, WriteBands(G), InUseWith(G))
<1>0. G \in SUBSET Track /\ Lba = Track BY GrantedType DEF Lba, Track
<1>1. /\ report'.currentUse = report.currentUse + Cardinality(B)
      /\ report'.deleteBlocks = report.deleteBlocks
  <2>0. report.currentUse \in Nat BY DEF DiskTypeOK, Counter
  <2>1. CASE ~ InRange(lba, n)
    <3>1. B = {} BY <2>1 DEF Granted, Fresh
    <3> QED BY <2>0, <2>1, <3>1, WriteReport, FS_EmptySet
  <2>2. CASE InRange(lba, n)
    <3>1. n - Cardinality(G) \in Nat
      <4>1. G = {l \in Blocks(lba, n) : ~ IsInvalidWrite(l, fid)} BY <2>2 DEF Granted
      <4>2. IsFiniteSet(G) /\ Cardinality(G) <= n /\ Cardinality(G) \in Nat
        BY <2>2, <4>1, BlocksOfRequest, FS_Subset, FS_CardinalityType
      <4> QED BY <4>2
    <3>2. /\ r \in Report /\ r.currentUse = report.currentUse
          /\ r.deleteBlocks = report.deleteBlocks
      BY <3>1, MissedCounters DEF Counter
    <3>3. report' = IF G = {} THEN r ELSE Charge(r, WriteCharge(G, B, E))
      BY <2>2, WriteReport
    <3>4. G = {} => B = {} BY DEF Fresh
    <3> HIDE DEF r, G, E, B
    <3>5. CASE G = {} BY <2>0, <3>2, <3>3, <3>4, <3>5, FS_EmptySet
    <3>6. CASE G # {} BY <3>2, <3>3, <3>6, ChargesOfBlocks
    <3> QED BY <3>5, <3>6
  <2> QED BY <2>1, <2>2
<1>2. storage' = [t \in Track |-> IF t \in G THEN [status |-> "in_use", lba |-> t,
                                                 count |-> storage[t].count + 1]
                                  ELSE storage[t]]
  BY WriteEffect
<1>3. \A l \in G : IsLtpMappingValid(l, fid) <=> storage[l].status = "in_use"
  BY <1>0 DEF Granted, IsInvalidWrite, IsLtpMappingValid, IdentityMapping
<1> HIDE DEF G
<1>4. B = G \ InUse BY <1>0, <1>3 DEF Fresh, InUse
<1>5. InUse' = InUse \cup B /\ InUse \cap B = {}
  BY <1>0, <1>2, <1>4 DEF InUse
<1>6. Cardinality(InUse') = Cardinality(InUse) + Cardinality(B)
  <2>1. InUse \in SUBSET Track /\ B \in SUBSET Track BY <1>0, <1>4 DEF InUse
  <2>2. /\ IsFiniteSet(InUse) /\ IsFiniteSet(B)
        /\ Cardinality(InUse) \in Nat /\ Cardinality(B) \in Nat
    BY <2>1, TracksFinite
  <2> HIDE DEF B
  <2>3. Cardinality(InUse \cup B) = Cardinality(InUse) + Cardinality(B)
    BY <1>5, <2>2, DisjointCount
  <2> QED BY <1>5, <2>3
<1>7. \A t \in Track : storage'[t].status = "free" <=> storage'[t].count = 0
  <2> SUFFICES ASSUME NEW t \in Track
               PROVE  storage'[t].status = "free" <=> storage'[t].count = 0
    OBVIOUS
  <2>1. storage[t].count \in Nat BY DEF DiskTypeOK
  <2>2. CASE t \in G BY <1>2, <2>1, <2>2
  <2>3. CASE t \notin G BY <1>2, <2>3 DEF CountersMatchBlocks
  <2> QED BY <2>2, <2>3
<1>8. Cardinality(InUse) \in Nat /\ Cardinality(B) \in Nat /\ report.deleteBlocks \in Nat
  BY <1>0, <1>4, TracksFinite DEF InUse, DiskTypeOK, Counter
<1>9. report.currentUse = Cardinality(InUse) + report.deleteBlocks BY DEF CountersMatchBlocks
<1> HIDE DEF B
<1>10. report'.currentUse = Cardinality(InUse') + report'.deleteBlocks
  BY <1>1, <1>6, <1>8, <1>9
<1> QED BY <1>7, <1>10 DEF CountersMatchBlocks

LEMMA DeleteCounters ==
  ASSUME DiskTypeOK, IdentityMapping, CountersMatchBlocks, NEW fid \in Fid, LbaDelete(fid)
  PROVE  CountersMatchBlocks'
<1> DEFINE D == Owned(fid)
<1>0. D \in SUBSET Track /\ D \subseteq InUse
  BY DEF Owned, IsLtpMappingValid, IdentityMapping, InUse, Lba, Track
<1>1. /\ report'.currentUse = report.currentUse
      /\ report'.deleteBlocks = report.deleteBlocks + Cardinality(D)
  <2>1. report \in Report /\ report.deleteBlocks \in Nat BY DEF DiskTypeOK, Report, Counter
  <2>2. CASE D = {} BY <2>1, <2>2, DeleteReport, FS_EmptySet
  <2>3. CASE D # {} BY <2>1, <2>3, DeleteReport, ChargesOfBlocks
  <2> QED BY <2>2, <2>3
<1>2. /\ \A t \in Track \ D : storage'[t] = storage[t]
      /\ \A t \in D : storage'[t].status = "invalid" /\ storage'[t].count = storage[t].count
  <2>1. storage' = [t \in Track |-> IF t \in D THEN [storage[t] EXCEPT !.status = "invalid"]
                                    ELSE storage[t]]
    BY DeleteEffect
  <2>2. \A t \in Track : storage[t] \in [status : Status, lba : Lba, count : Nat]
    BY DEF DiskTypeOK
  <2> HIDE DEF D
  <2> QED BY <1>0, <2>1, <2>2
<1> HIDE DEF D
<1>3. InUse' = InUse \ D BY <1>0, <1>2 DEF InUse
<1>4. /\ Cardinality(InUse') = Cardinality(InUse) - Cardinality(D)
      /\ Cardinality(InUse) \in Nat /\ Cardinality(D) \in Nat
  <2>1. /\ IsFiniteSet(InUse) /\ Cardinality(InUse) \in Nat
        /\ IsFiniteSet(D) /\ Cardinality(D) \in Nat
    BY <1>0, TracksFinite DEF InUse
  <2>2. Cardinality(InUse \ D) = Cardinality(InUse) - Cardinality(D)
    BY <1>0, <2>1, PartCount
  <2> QED BY <1>3, <2>1, <2>2
<1>5. \A t \in Track : storage'[t].status = "free" <=> storage'[t].count = 0
  <2>1. \A t \in D : storage[t].status = "in_use" BY <1>0 DEF InUse
  <2> QED BY <1>0, <1>2, <2>1 DEF CountersMatchBlocks
<1>6. report.deleteBlocks \in Nat /\ report.currentUse = Cardinality(InUse) + report.deleteBlocks
  BY DEF DiskTypeOK, Counter, CountersMatchBlocks
<1>7. report'.currentUse = Cardinality(InUse') + report'.deleteBlocks BY <1>1, <1>4, <1>6
<1> QED BY <1>5, <1>7 DEF CountersMatchBlocks

\* current_use_block_num, which is never lowered, is at any time the number of
\* tracks in use and of all blocks deleted so far, and a track has been
\* written exactly when it is not free.
THEOREM CountersAgree == Spec => []CountersMatchBlocks
<1>1. Init => CountersMatchBlocks
  <2> SUFFICES ASSUME Init PROVE CountersMatchBlocks OBVIOUS
  <2>1. InUse = {} BY DEF Init, DiskInit, InUse
  <2>2. report.currentUse = 0 /\ report.deleteBlocks = 0 BY DEF Init, DiskInit, Counter
  <2> QED BY <2>1, <2>2, FS_EmptySet DEF CountersMatchBlocks, Init, DiskInit
<1>2. ASSUME Inv, CountersMatchBlocks, [Next]_vars PROVE CountersMatchBlocks'
  <2> USE DEF Inv, DiskInv
  <2>1. ASSUME NEW fid \in Fid, NEW r \in ReadRanges, LbaRead(r[1], r[2], fid)
        PROVE  CountersMatchBlocks'
    BY <1>2, <2>1, RangesAreNat, ReadCounters
  <2>2. ASSUME NEW fid \in Fid, NEW r \in WriteRanges, LbaWrite(r[1], r[2], fid)
        PROVE  CountersMatchBlocks'
    BY <1>2, <2>2, RangesAreNat, WriteCounters
  <2>3. ASSUME NEW fid \in Fid, LbaDelete(fid) PROVE CountersMatchBlocks'
    BY <1>2, <2>3, DeleteCounters
  <2>4. CASE UNCHANGED diskVars BY <1>2, <2>4 DEF diskVars, CountersMatchBlocks, InUse
  <2> QED BY <1>2, <2>1, <2>2, <2>3, <2>4, StepOfDisk DEF DiskStep
<1> QED BY <1>1, <1>2, Invariance, PTL DEF Spec

-----------------------------------------------------------------------------
(* The record layer against the pba layer.                                 *)

Physical(E) == E \ Virtual(E)

\* A table is faithful to a batch when its entries that are not virtual are
\* the tracks of the batch, each of them once.
Faithful(E, S) ==
    /\ IsFiniteSet(E)
    /\ \A e \in Physical(E) : e.track \in S
    /\ \A t \in S : \E e \in Physical(E) : e.track = t
    /\ \A e, f \in Physical(E) : e.track = f.track => e = f

LEMMA FaithfulCount ==
  ASSUME NEW E, NEW S, Faithful(E, S)
  PROVE  Own(E) = Cardinality(S)
<1> DEFINE P == Physical(E)
           f == [e \in P |-> e.track]
<1>1. IsFiniteSet(P) BY FS_Subset DEF Faithful, Physical
<1>2. f \in [P -> S] BY DEF Faithful
<1>3. f \in Surjection(P, S)
  <2>1. \A t \in S : \E e \in P : f[e] = t BY DEF Faithful
  <2> QED BY <1>2, <2>1 DEF Surjection
<1>4. f \in Injection(P, S)
  <2>1. \A e, g \in P : f[e] = f[g] => e = g BY DEF Faithful
  <2> QED BY <1>2, <2>1 DEF Injection, IsInjective
<1>5. Own(E) = Cardinality(P) BY DEF Own, Physical
<1> QED BY <1>1, <1>3, <1>4, <1>5, FS_Surjection

\* One entry for each track of the batch, whatever its pass.
LEMMA OneEntryEach ==
  ASSUME NEW E, IsFiniteSet(E), NEW S, NEW p,
         Physical(E) = {[pass |-> p[t], track |-> t] : t \in S}
  PROVE  Faithful(E, S)
<1>1. \A e \in Physical(E) : e.track \in S /\ e = [pass |-> p[e.track], track |-> e.track]
  OBVIOUS
<1>2. \A t \in S : /\ [pass |-> p[t], track |-> t] \in Physical(E)
                   /\ [pass |-> p[t], track |-> t].track = t
  OBVIOUS
<1>3. \A e, f \in Physical(E) : e.track = f.track => e = f BY <1>1
<1>4. \A t \in S : \E e \in Physical(E) : e.track = t BY <1>2
<1> QED BY <1>1, <1>3, <1>4 DEF Faithful

LEMMA EntriesOfBatch ==
  ASSUME NEW E, IsFiniteSet(E), NEW S, Physical(E) = Entries(0, S)
  PROVE  Faithful(E, S)
<1> DEFINE p == [t \in S |-> 0]
<1>1. Physical(E) = {[pass |-> p[t], track |-> t] : t \in S} BY DEF Entries
<1> HIDE DEF p
<1> QED BY <1>1, OneEntryEach

LEMMA BatchFaithful ==
  ASSUME NEW S \in SUBSET Track
  PROVE  Faithful(Entries(0, S), S)
<1>1. Entries(0, S) = Entries(Round * 0, S) BY BandCountAssumption DEF Round
<1>2. Physical(Entries(0, S)) = Entries(0, S)
  BY <1>1, BatchPhysical DEF Physical, Virtual
<1>3. IsFiniteSet(Entries(0, S)) BY TracksFinite, ExtensionFinite
<1> QED BY <1>2, <1>3, EntriesOfBatch

LEMMA ExtensionFaithful ==
  ASSUME NEW S \in SUBSET Track, NEW inUse \in SUBSET Track, NEW bands
  PROVE  Faithful(Extension(S, bands, inUse), S)
<1> DEFINE E == Extension(S, bands, inUse)
<1>1. Round * 0 = 0 BY BandCountAssumption DEF Round
<1>2. \A e \in Entries(0, S) : ~ IsVirtual(e) BY <1>1, BatchPhysical
<1>3. \A e \in Tails(0, bands, inUse) : IsVirtual(e) BY <1>1, TailsVirtual
<1>4. Physical(E) = Entries(0, S)
  BY <1>2, <1>3 DEF Physical, Virtual, Extension
<1>5. IsFiniteSet(E) BY ExtensionFinite
<1> QED BY <1>4, <1>5, EntriesOfBatch

LEMMA FluidExtensionFaithful ==
  ASSUME NEW S \in SUBSET Track, NEW inUse \in SUBSET Track
  PROVE  Faithful(FluidExtension(S, inUse), S)
<1> DEFINE E == FluidExtension(S, inUse)
           B == UNION {Entries(RoundOf(S, t), {t}) : t \in S}
<1>1. \A t \in S : \E m \in Int : RoundOf(S, t) = Round * m
  <2> TAKE t \in S
  <2>1. Cardinality(UpTo(S, t)) \in Nat BY TracksFinite DEF UpTo
  <2> QED BY <2>1 DEF RoundOf
<1>2. \A e \in B : ~ IsVirtual(e) BY <1>1, BatchPhysical
<1>3. \A t \in S : \A e \in Tails(RoundOf(S, t), FluidBandsAfter(UpTo(S, t)), inUse) :
          IsVirtual(e)
  BY <1>1, TailsVirtual
<1>4. Physical(E) = B
  <2>1. \A e \in E : \/ e \in B
                     \/ \E t \in S : e \in Tails(RoundOf(S, t), FluidBandsAfter(UpTo(S, t)), inUse)
    BY DEF FluidExtension
  <2>2. B \subseteq E BY DEF FluidExtension
  <2> HIDE DEF E, B
  <2>3. \A e \in E : e \in B \/ IsVirtual(e) BY <1>3, <2>1
  <2> QED BY <1>2, <2>2, <2>3 DEF Physical, Virtual
<1>5. B = {[pass |-> RoundOf(S, t), track |-> t] : t \in S} BY DEF Entries
<1>6. IsFiniteSet(E) BY FluidExtensionFinite
<1> DEFINE p == [t \in S |-> RoundOf(S, t)]
<1>7. Physical(E) = {[pass |-> p[t], track |-> t] : t \in S} BY <1>4, <1>5
<1> HIDE DEF E, p
<1> QED BY <1>6, <1>7, OneEntryEach DEF E

LEMMA WriteTableFaithful ==
  ASSUME NEW S \in SUBSET Track, NEW inUse \in SUBSET Track, NEW bands
  PROVE  Faithful(WriteTable(S, bands, inUse), S)
BY BatchFaithful, ExtensionFaithful, FluidExtensionFaithful, BuildAssumption DEF WriteTable

LEMMA DeleteTableFaithful ==
  ASSUME NEW S \in SUBSET Track
  PROVE  Faithful(DeleteTable(S), S)
BY BatchFaithful, ExtensionFaithful DEF DeleteTable

\* A virtual entry is in a run that holds a virtual entry, so what is
\* rewritten is reread; the rest of such a run is of the batch.
LEMMA RunSizes ==
  ASSUME NEW E, IsFiniteSet(E)
  PROVE  /\ Cardinality(Virtual(E)) <= Cardinality(InVirtualRun(E))
         /\ Cardinality(InVirtualRun(E)) <= Cardinality(Virtual(E)) + Own(E)
<1>1. Virtual(E) \subseteq InVirtualRun(E) BY DEF Virtual, InVirtualRun, SameRun
<1>2. InVirtualRun(E) \subseteq E /\ Virtual(E) \subseteq E BY DEF InVirtualRun, Virtual
<1>3. /\ IsFiniteSet(InVirtualRun(E)) /\ IsFiniteSet(Virtual(E))
      /\ IsFiniteSet(E \ Virtual(E))
  BY <1>2, FS_Subset
<1>4. Cardinality(E) = Cardinality(Virtual(E)) + Own(E)
  <2>1. E = Virtual(E) \cup (E \ Virtual(E)) BY <1>2
  <2>2. Virtual(E) \cap (E \ Virtual(E)) = {} OBVIOUS
  <2>3. Cardinality(Virtual(E) \cup (E \ Virtual(E)))
          = Cardinality(Virtual(E)) + Cardinality(E \ Virtual(E))
    BY <1>3, <2>2, DisjointCount
  <2> QED BY <2>1, <2>3 DEF Own
<1>5. Cardinality(InVirtualRun(E)) <= Cardinality(E) BY <1>2, FS_Subset
<1>6. Cardinality(Virtual(E)) <= Cardinality(InVirtualRun(E)) BY <1>1, <1>3, FS_Subset
<1> QED BY <1>4, <1>5, <1>6

\* AccountingAgrees of a report.
Agrees(r) ==
    /\ r.readSize = r.readBlocks
    /\ r.writeSize = r.writeBlocks
    /\ r.deleteSize = r.deleteBlocks
    /\ r.accessTime = r.readTime + r.writeTime + r.deleteTime
    /\ r.rewriteSize <= r.rereadSize
    /\ r.rereadSize <= r.rewriteSize + r.writeSize

\* The counters that Agrees looks at.
Balanced == Counter \ {"invalidRead", "invalidWrite", "currentUse",
                       "deleteRewrite", "deleteReread"}

LEMMA SameBalance ==
  ASSUME NEW r, NEW q, Agrees(r), \A c \in Balanced : q[c] = r[c]
  PROVE  Agrees(q)
BY DEF Agrees, Balanced, Counter

LEMMA ReadChargeAgrees ==
  ASSUME NEW r \in Report, Agrees(r), NEW S \in SUBSET Track
  PROVE  Agrees(Charge(r, ReadCharge(Entries(0, S))))
<1> DEFINE E == Entries(0, S)
<1>1. Faithful(E, S) BY BatchFaithful
<1>2. /\ Own(E) = Cardinality(E) /\ Own(E) \in Nat /\ Time(E) \in Nat
  <2>1. Virtual(E) = {}
    BY BatchPhysical, BandCountAssumption DEF Virtual, Round
  <2>2. E \ Virtual(E) = E BY <2>1
  <2> QED BY <1>1, <2>2, ChargesNat DEF Own, Faithful
<1> HIDE DEF E
<1>3. \A c \in Counter : r[c] \in Nat BY DEF Report
<1>4. /\ Charge(r, ReadCharge(E)).readBlocks = r.readBlocks + Cardinality(E)
      /\ Charge(r, ReadCharge(E)).readSize = r.readSize + Own(E)
      /\ Charge(r, ReadCharge(E)).readTime = r.readTime + Time(E)
      /\ Charge(r, ReadCharge(E)).accessTime = r.accessTime + Time(E)
      /\ \A c \in {"writeBlocks", "deleteBlocks", "writeSize", "rewriteSize", "rereadSize",
                   "deleteSize", "writeTime", "deleteTime"} : Charge(r, ReadCharge(E))[c] = r[c]
  BY DEF Charge, ReadCharge, Counter
<1> QED BY <1>2, <1>3, <1>4 DEF Agrees, Counter, E

LEMMA WriteChargeAgrees ==
  ASSUME NEW r \in Report, Agrees(r), NEW S \in SUBSET Track, NEW booked,
         NEW E, Faithful(E, S)
  PROVE  Agrees(Charge(r, WriteCharge(S, booked, E)))
<1> DEFINE q == Charge(r, WriteCharge(S, booked, E))
<1>1. /\ Own(E) = Cardinality(S) /\ Own(E) \in Nat /\ Time(E) \in Nat
      /\ Cardinality(Virtual(E)) \in Nat /\ Cardinality(InVirtualRun(E)) \in Nat
  BY FaithfulCount, ChargesNat DEF Faithful
<1>2. /\ Cardinality(Virtual(E)) <= Cardinality(InVirtualRun(E))
      /\ Cardinality(InVirtualRun(E)) <= Cardinality(Virtual(E)) + Own(E)
  BY RunSizes DEF Faithful
<1>3. \A c \in Counter : r[c] \in Nat BY DEF Report
<1>4. /\ q.writeBlocks = r.writeBlocks + Cardinality(S)
      /\ q.writeSize = r.writeSize + Own(E)
      /\ q.rewriteSize = r.rewriteSize + Cardinality(Virtual(E))
      /\ q.rereadSize = r.rereadSize + Cardinality(InVirtualRun(E))
      /\ q.writeTime = r.writeTime + Time(E)
      /\ q.accessTime = r.accessTime + Time(E)
      /\ \A c \in {"readBlocks", "deleteBlocks", "readSize", "deleteSize",
                   "readTime", "deleteTime"} : q[c] = r[c]
  BY DEF Charge, WriteCharge, Counter
<1> HIDE DEF q
<1> QED BY <1>1, <1>2, <1>3, <1>4 DEF Agrees, Counter, q

LEMMA DeleteChargeAgrees ==
  ASSUME NEW r \in Report, Agrees(r), NEW S \in SUBSET Track, NEW E, Faithful(E, S)
  PROVE  Agrees(Charge(r, DeleteCharge(S, E)))
<1> DEFINE q == Charge(r, DeleteCharge(S, E))
<1>1. /\ Own(E) = Cardinality(S) /\ Own(E) \in Nat /\ Time(E) \in Nat
  BY FaithfulCount, ChargesNat DEF Faithful
<1>2. \A c \in Counter : r[c] \in Nat BY DEF Report
<1>3. /\ q.deleteBlocks = r.deleteBlocks + Cardinality(S)
      /\ q.deleteSize = r.deleteSize + Own(E)
      /\ q.deleteTime = r.deleteTime + Time(E)
      /\ q.accessTime = r.accessTime + Time(E)
      /\ \A c \in {"readBlocks", "writeBlocks", "readSize", "writeSize", "rewriteSize",
                   "rereadSize", "readTime", "writeTime"} : q[c] = r[c]
  BY DEF Charge, DeleteCharge, Counter
<1> HIDE DEF q
<1> QED BY <1>1, <1>2, <1>3 DEF Agrees, Counter, q

\* The two layers account for the same blocks, time adds up, and what is
\* rewritten is reread together with at most the blocks written: in every
\* build, for every trace and for disks of any size.
THEOREM LayersAgree == Spec => []AccountingAgrees
<1>1. Init => AccountingAgrees
  BY DEF Init, DiskInit, AccountingAgrees, Counter
<1>2. ASSUME Inv, AccountingAgrees, [Next]_vars PROVE AccountingAgrees'
  <2> USE DEF Inv, DiskInv
  <2>0. /\ Agrees(report) /\ report \in Report
        /\ Agrees(report') => AccountingAgrees'
    BY <1>2 DEF Agrees, AccountingAgrees, DiskTypeOK, Report
  <2>1. ASSUME NEW fid \in Fid, NEW r \in ReadRanges, LbaRead(r[1], r[2], fid)
        PROVE  Agrees(report')
    <3> DEFINE F == Held(r[1], r[2], fid)
               q == MissedRead(r[2] - Cardinality(F))
    <3>1. CASE ~ InRange(r[1], r[2])
      BY <1>2, <2>0, <2>1, <3>1, RangesAreNat, ReadReport
    <3>2. CASE InRange(r[1], r[2])
      <4>1. F \in SUBSET Track /\ r[2] - Cardinality(F) \in Nat
        <5>1. F \subseteq Lba /\ Cardinality(F) \in 0 .. r[2]
          BY <3>2, RangesAreNat, SomeBlocks DEF Held
        <5> QED BY <5>1, RangesAreNat DEF Lba, Track
      <4>2. q \in Report /\ Agrees(q)
        BY <1>2, <2>0, <4>1, MissedCounters, SameBalance DEF Balanced
      <4>3. report' \in {q, Charge(q, ReadCharge(Entries(0, F)))}
        BY <1>2, <2>1, <3>2, RangesAreNat, ReadReport
      <4> HIDE DEF q, F
      <4> QED BY <4>1, <4>2, <4>3, ReadChargeAgrees
    <3> QED BY <3>1, <3>2
  <2>2. ASSUME NEW fid \in Fid, NEW r \in WriteRanges, LbaWrite(r[1], r[2], fid)
        PROVE  Agrees(report')
    <3> DEFINE G == Granted(r[1], r[2], fid)
               q == MissedWrite(r[2] - Cardinality(G))
               E == WriteTable(G, WriteBands(G), InUseWith(G))
    <3>1. CASE ~ InRange(r[1], r[2])
      BY <1>2, <2>0, <2>2, <3>1, RangesAreNat, WriteReport
    <3>2. CASE InRange(r[1], r[2])
      <4>1. G \in SUBSET Track /\ r[2] - Cardinality(G) \in Nat
        <5>1. G \subseteq Lba /\ Cardinality(G) \in 0 .. r[2]
          BY <3>2, RangesAreNat, SomeBlocks DEF Granted
        <5> QED BY <5>1, RangesAreNat DEF Lba, Track
      <4>2. q \in Report /\ Agrees(q)
        BY <1>2, <2>0, <4>1, MissedCounters, SameBalance DEF Balanced
      <4>3. report' \in {q, Charge(q, WriteCharge(G, Fresh(G, fid), E))}
        BY <1>2, <2>2, <3>2, RangesAreNat, WriteReport
      <4>4. Faithful(E, G)
        <5>1. InUseWith(G) \in SUBSET Track BY <4>1 DEF InUseWith
        <5> QED BY <4>1, <5>1, WriteTableFaithful
      <4> HIDE DEF q, G, E
      <4> QED BY <4>1, <4>2, <4>3, <4>4, WriteChargeAgrees
    <3> QED BY <3>1, <3>2
  <2>3. ASSUME NEW fid \in Fid, LbaDelete(fid) PROVE Agrees(report')
    <3>1. Owned(fid) \in SUBSET Track BY DEF Owned, Lba, Track
    <3>2. Faithful(DeleteTable(Owned(fid)), Owned(fid)) BY <3>1, DeleteTableFaithful
    <3> QED BY <1>2, <2>0, <2>3, <3>1, <3>2, DeleteReport, DeleteChargeAgrees
  <2>4. CASE UNCHANGED diskVars BY <2>0, <2>4 DEF diskVars
  <2> QED BY <1>2, <2>0, <2>1, <2>2, <2>3, <2>4, StepOfDisk DEF DiskStep
<1> QED BY <1>1, <1>2, Invariance, PTL DEF Spec

-----------------------------------------------------------------------------
(***************************************************************************)
(* What shingling rewrites: the tracks that a write destroys against the   *)
(* virtual entries of its table.                                           *)
(***************************************************************************)
\* No band of the simulator is in CMR mode, and the record of a band stays
\* within the band.
BandsKept ==
    \A b \in Band : /\ ~ band[b].cmr
                    /\ band[b].whp \in TracksOf(b) /\ band[b].end \in TracksOf(b)

LEMMA BatchKeepsBand ==
  ASSUME DiskTypeOK, BandsKept, NEW S \in SUBSET Track, NEW b \in Band
  PROVE  /\ ~ BandAfter(S, b).cmr
         /\ BandAfter(S, b).whp \in TracksOf(b) /\ BandAfter(S, b).end \in TracksOf(b)
<1> DEFINE mine == S \cap TracksOf(b)
<1>1. CASE mine = {} BY <1>1, BandOfBatch DEF BandsKept
<1>2. CASE mine # {}
  <2>1. Max(mine) \in TracksOf(b) BY <1>2, BandOfBatch
  <2>2. /\ BandAfter(S, b).whp \in {band[b].whp, Max(mine)}
        /\ BandAfter(S, b).end \in {band[b].end, Max(mine)}
        /\ BandAfter(S, b).cmr = band[b].cmr
    BY <1>2, BandOfBatch
  <2> QED BY <2>1, <2>2 DEF BandsKept
<1> QED BY <1>1, <1>2

\* Nothing puts a band in CMR mode here, and no record leaves its band.
LEMMA BandsAreKept == Spec => []BandsKept
<1>1. Init => BandsKept
  <2> SUFFICES ASSUME Init, NEW b \in Band
               PROVE  /\ ~ band[b].cmr
                      /\ band[b].whp \in TracksOf(b) /\ band[b].end \in TracksOf(b)
    BY DEF BandsKept
  <2>1. BandHead(b) \in Nat BY BandTracksAssumption DEF Band, BandHead
  <2>2. BandHead(b) \in TracksOf(b) BY <2>1, BandTracksAssumption DEF TracksOf
  <2> QED BY <2>2 DEF Init, DiskInit, InitBand
<1>2. ASSUME Inv, BandsKept, [Next]_vars PROVE BandsKept'
  <2> USE DEF Inv, DiskInv
  <2>0. \A S \in SUBSET Track :
            /\ band' \in {BandsAfter(S), FluidBandsAfter(S), band} => BandsKept'
    <3> SUFFICES ASSUME NEW S \in SUBSET Track,
                        band' \in {BandsAfter(S), FluidBandsAfter(S), band}, NEW b \in Band
                 PROVE  /\ ~ band'[b].cmr
                        /\ band'[b].whp \in TracksOf(b) /\ band'[b].end \in TracksOf(b)
      BY DEF BandsKept
    <3>1. band'[b] \in {band[b], BandAfter(S, b)}
      BY DEF BandsAfter, FluidBandsAfter, FluidBandAfter
    <3> QED BY <1>2, <3>1, BatchKeepsBand DEF BandsKept
  <2>1. ASSUME NEW fid \in Fid, NEW r \in ReadRanges, LbaRead(r[1], r[2], fid)
        PROVE  BandsKept'
    BY <1>2, <2>1, RangesAreNat, ReadEffect DEF BandsKept
  <2>2. ASSUME NEW fid \in Fid, NEW r \in WriteRanges, LbaWrite(r[1], r[2], fid)
        PROVE  BandsKept'
    <3> DEFINE G == Granted(r[1], r[2], fid)
    <3>1. G \in SUBSET Track BY RangesAreNat, GrantedType DEF Lba, Track
    <3>2. band' = IF G = {} THEN band ELSE WriteBands(G)
      BY <1>2, <2>2, RangesAreNat, WriteEffect
    <3>3. band' \in {BandsAfter(G), FluidBandsAfter(G), band} BY <3>2 DEF WriteBands
    <3> QED BY <2>0, <3>1, <3>3
  <2>3. ASSUME NEW fid \in Fid, LbaDelete(fid) PROVE BandsKept'
    <3> DEFINE D == Owned(fid)
    <3>1. D \in SUBSET Track BY DEF Owned, Lba, Track
    <3>2. band' = IF D = {} THEN band ELSE BandsAfter(D) BY <1>2, <2>3, DeleteEffect
    <3> QED BY <2>0, <3>1, <3>2
  <2>4. CASE UNCHANGED diskVars BY <1>2, <2>4 DEF diskVars, BandsKept
  <2> QED BY <1>2, <2>1, <2>2, <2>3, <2>4, StepOfDisk DEF DiskStep
<1> QED BY <1>1, <1>2, Invariance, PTL DEF Spec

\* A step that writes no track rewrites none, any other is a write of the
\* batch G.
Quiet == Written = {} /\ Rewrites = 0

TableOf(G) == WriteTable(G, WriteBands(G), InUse \cup G)

Wrote(G) == /\ G # {} /\ Written = G /\ band' = WriteBands(G)
            /\ Rewrites = Cardinality(Virtual(TableOf(G)))

LEMMA NoTrackWritten ==
  ASSUME DiskTypeOK, \A t \in Track : storage'[t].count = storage[t].count,
         report'.rewriteSize = report.rewriteSize
  PROVE  Quiet
<1>1. report.rewriteSize \in Nat BY DEF DiskTypeOK, Counter
<1> QED BY <1>1 DEF Quiet, Written, Rewrites

LEMMA RewriteCharges ==
  ASSUME NEW r \in Report, NEW E, NEW S, NEW booked
  PROVE  /\ Charge(r, ReadCharge(E)).rewriteSize = r.rewriteSize
         /\ Charge(r, WriteCharge(S, booked, E)).rewriteSize
              = r.rewriteSize + Cardinality(Virtual(E))
         /\ Charge(r, DeleteCharge(S, E)).rewriteSize = r.rewriteSize
BY DEF Charge, ReadCharge, WriteCharge, DeleteCharge, Counter

LEMMA ReadIsQuiet ==
  ASSUME DiskTypeOK, IdentityMapping, NEW lba \in Nat, NEW n \in Nat, NEW fid \in Fid,
         LbaRead(lba, n, fid)
  PROVE  Quiet
<1> DEFINE F == Held(lba, n, fid)
           r == MissedRead(n - Cardinality(F))
<1>1. storage' = storage BY ReadEffect
<1>2. CASE ~ InRange(lba, n) BY <1>1, <1>2, ReadReport, NoTrackWritten
<1>3. CASE InRange(lba, n)
  <2>1. F \subseteq Lba /\ Cardinality(F) \in 0 .. n BY <1>3, SomeBlocks DEF Held
  <2>2. n - Cardinality(F) \in Nat BY <2>1
  <2>3. r \in Report /\ r.rewriteSize = report.rewriteSize
    BY <2>2, MissedCounters DEF Counter
  <2>4. report' \in {r, Charge(r, ReadCharge(Entries(0, F)))} BY <1>3, ReadReport
  <2> HIDE DEF r
  <2>5. report'.rewriteSize = report.rewriteSize BY <2>3, <2>4, RewriteCharges
  <2> QED BY <1>1, <2>5, NoTrackWritten
<1> QED BY <1>2, <1>3

LEMMA DeleteIsQuiet ==
  ASSUME DiskTypeOK, IdentityMapping, NEW fid \in Fid, LbaDelete(fid)
  PROVE  Quiet
<1> DEFINE D == Owned(fid)
<1>1. storage' = [t \in Track |-> IF t \in D THEN [storage[t] EXCEPT !.status = "invalid"]
                                  ELSE storage[t]]
  BY DeleteEffect
<1>2. \A t \in Track : storage[t] \in [status : Status, lba : Lba, count : Nat]
  BY DEF DiskTypeOK
<1>3. \A t \in Track : storage'[t].count = storage[t].count
  <2> TAKE t \in Track
  <2>1. storage'[t] \in {[storage[t] EXCEPT !.status = "invalid"], storage[t]} BY <1>1
  <2> QED BY <1>2, <2>1
<1>4. report \in Report BY DEF DiskTypeOK, Report
<1>5. report' \in {report, Charge(report, DeleteCharge(D, DeleteTable(D)))} BY DeleteReport
<1>6. report'.rewriteSize = report.rewriteSize BY <1>4, <1>5, RewriteCharges
<1> QED BY <1>3, <1>6, NoTrackWritten

LEMMA WriteIsBatch ==
  ASSUME DiskTypeOK, IdentityMapping, NEW lba \in Nat, NEW n \in Nat, NEW fid \in Fid,
         LbaWrite(lba, n, fid)
  PROVE  Quiet \/ \E G \in SUBSET Track : Wrote(G)
<1> DEFINE G == Granted(lba, n, fid)
           r == MissedWrite(n - Cardinality(G))
<1>0. G \in SUBSET Track BY GrantedType DEF Lba, Track
<1>1. storage' = [t \in Track |-> IF t \in G THEN [status |-> "in_use", lba |-> t,
                                                  count |-> storage[t].count + 1]
                                  ELSE storage[t]]
  BY WriteEffect
<1>2. report.rewriteSize \in Nat BY DEF DiskTypeOK, Counter
<1>3. CASE ~ InRange(lba, n)
  <2>1. G = {} BY <1>3 DEF Granted
  <2>2. \A t \in Track : storage'[t].count = storage[t].count BY <1>1, <2>1
  <2> QED BY <1>3, <2>2, WriteReport, NoTrackWritten
<1>4. CASE InRange(lba, n)
  <2>1. n - Cardinality(G) \in Nat
    <3>1. G \subseteq Lba /\ Cardinality(G) \in 0 .. n BY <1>4, SomeBlocks DEF Granted
    <3> QED BY <3>1
  <2>2. r \in Report /\ r.rewriteSize = report.rewriteSize
    BY <2>1, MissedCounters DEF Counter
  <2>3. CASE G = {}
    <3>1. \A t \in Track : storage'[t].count = storage[t].count BY <1>1, <2>3
    <3>2. report' = r BY <1>4, <2>3, WriteReport
    <3> HIDE DEF r
    <3> QED BY <2>2, <3>1, <3>2, NoTrackWritten
  <2>4. CASE G # {}
    <3> DEFINE E == WriteTable(G, WriteBands(G), InUseWith(G))
    <3>1. report' = Charge(r, WriteCharge(G, Fresh(G, fid), E)) BY <1>4, <2>4, WriteReport
    <3>2. InUseWith(G) = InUse \cup G BY DEF InUseWith, InUse, IsUsed, IdentityMapping
    <3>3. E = TableOf(G) BY <3>2 DEF TableOf
    <3>4. band' = WriteBands(G) BY <2>4, WriteEffect
    <3>5. Written = G
      <4>1. \A t \in Track : storage[t].count \in Nat BY DEF DiskTypeOK
      <4>2. \A t \in G : storage'[t].count = storage[t].count + 1 BY <1>0, <1>1
      <4>3. \A t \in Track \ G : storage'[t] = storage[t] BY <1>1
      <4> HIDE DEF G
      <4> QED BY <1>0, <4>1, <4>2, <4>3 DEF Written
    <3>6. IsFiniteSet(TableOf(G))
      <4>1. InUse \cup G \in SUBSET Track BY <1>0 DEF InUse
      <4> QED BY <1>0, <4>1, WriteTableFinite DEF TableOf
    <3>7. Cardinality(Virtual(TableOf(G))) \in Nat
      BY <3>6, FS_Subset, FS_CardinalityType DEF Virtual
    <3> HIDE DEF G, r, E
    <3>8. report'.rewriteSize = report.rewriteSize + Cardinality(Virtual(TableOf(G)))
      BY <2>2, <3>1, <3>3, RewriteCharges
    <3>9. Rewrites = Cardinality(Virtual(TableOf(G))) BY <1>2, <3>7, <3>8 DEF Rewrites
    <3> QED BY <1>0, <2>4, <3>4, <3>5, <3>9 DEF Wrote
  <2> QED BY <2>3, <2>4
<1> QED BY <1>3, <1>4

LEMMA StepRewrites ==
  ASSUME Inv, [Next]_vars
  PROVE  Quiet \/ \E G \in SUBSET Track : Wrote(G)
<1> USE DEF Inv, DiskInv
<1>1. CASE UNCHANGED diskVars BY <1>1, NoTrackWritten DEF diskVars
<1>2. CASE DiskStep BY <1>2, RangesAreNat, ReadIsQuiet, WriteIsBatch, DeleteIsQuiet DEF DiskStep
<1> QED BY <1>1, <1>2, StepOfDisk

\* Tracks that each have a virtual entry are not more than these entries.
LEMMA EnoughVirtual ==
  ASSUME NEW E, IsFiniteSet(E), NEW T, \A t \in T : \E e \in Virtual(E) : e.track = t
  PROVE  Cardinality(T) <= Cardinality(Virtual(E))
<1> DEFINE V == Virtual(E)
           S == {e.track : e \in V}
           f == [e \in V |-> e.track]
<1>1. IsFiniteSet(V) BY FS_Subset DEF Virtual
<1>2. f \in Surjection(V, S)
  <2>1. f \in [V -> S] OBVIOUS
  <2>2. \A s \in S : \E e \in V : f[e] = s OBVIOUS
  <2> QED BY <2>1, <2>2 DEF Surjection
<1>3. IsFiniteSet(S) /\ Cardinality(S) <= Cardinality(V) BY <1>1, <1>2, FS_Surjection
<1>4. T \subseteq S OBVIOUS
<1> HIDE DEF S, V
<1>5. IsFiniteSet(T) /\ Cardinality(T) <= Cardinality(S) BY <1>3, <1>4, FS_Subset
<1>6. Cardinality(T) \in Nat /\ Cardinality(S) \in Nat /\ Cardinality(V) \in Nat
  BY <1>1, <1>3, <1>5, FS_CardinalityType
<1> QED BY <1>3, <1>5, <1>6 DEF V

\* The second loop adds a virtual entry for each track it looks at.
LEMMA TailEntry ==
  ASSUME NEW m \in Int, NEW bands, NEW U, NEW b \in Band, bands[b].rmw,
         NEW t \in U, t \in Upstream(b, bands[b]) \/ t \in Downstream(bands[b])
  PROVE  \E e \in Tails(Round * m, bands, U) : IsVirtual(e) /\ e.track = t
<1> DEFINE up   == [pass |-> Round * m + 2*b + 1, track |-> t]
           down == [pass |-> Round * m + 2*b + 2, track |-> t]
<1>1. t \in Upstream(b, bands[b]) => up \in Tails(Round * m, bands, U)
  BY DEF Tails, Entries
<1>2. t \in Downstream(bands[b]) => down \in Tails(Round * m, bands, U)
  BY DEF Tails, Entries
<1>3. up.track = t /\ down.track = t OBVIOUS
<1> HIDE DEF up, down
<1> QED BY <1>1, <1>2, <1>3, TailsVirtual

\* A track in use behind a batch that goes below the write head of its band
\* is in the table of the batch.
LEMMA DownstreamIsAdded ==
  ASSUME DiskTypeOK, WriteHeadCovers, Build # "CMR",
         NEW G \in SUBSET Track, NEW b \in Band, ~ band[b].cmr, G \cap TracksOf(b) # {},
         band[b].rmw \/ Min(G \cap TracksOf(b)) < band[b].whp,
         NEW t \in TracksOf(b) \cap InUse, t > Max(G \cap TracksOf(b))
  PROVE  \E e \in Virtual(TableOf(G)) : e.track = t
<1> DEFINE mine == G \cap TracksOf(b)
           m == Max(mine)
<1>1. m \in mine /\ \A u \in mine : u <= m BY BandOfBatch
<1>2. /\ t \in Int /\ m \in Int /\ band[b].whp \in Int /\ t <= band[b].whp
      /\ \A u \in Track : u \in Int
  <2>1. \A u \in Track : u \in Int BY MaxBlockPositive DEF Track
  <2>2. t \in Track /\ m \in Track BY <1>1 DEF InUse
  <2>3. band[b].whp \in Track BY DEF DiskTypeOK, BandRecord
  <2>4. t <= band[b].whp BY DEF WriteHeadCovers
  <2> QED BY <2>1, <2>2, <2>3, <2>4
<1>3. ASSUME NEW S \in SUBSET Track, S \cap TracksOf(b) = mine
      PROVE  BandAfter(S, b).rmw /\ t \in Downstream(BandAfter(S, b))
  <2>1. BandAfter(S, b).rmw BY <1>3, BandOfBatch
  <2>2. BandAfter(S, b).end = m
    <3>1. BandAfter(S, b).end = Max(S \cap TracksOf(b)) BY <1>3, <2>1, BandOfBatch
    <3> QED BY <1>3, <3>1
  <2>3. /\ BandAfter(S, b).whp >= band[b].whp
        /\ BandAfter(S, b).whp \in Track
    BY <1>3, HeadAdvances, BandAfterType DEF DiskTypeOK, BandRecord
  <2>4. BandAfter(S, b).whp \in Int BY <1>2, <2>3
  <2>5. t >= m + 1 /\ t <= BandAfter(S, b).whp BY <1>2, <2>3, <2>4
  <2> QED BY <1>2, <2>1, <2>2, <2>4, <2>5 DEF Downstream
<1>4. CASE Build = "FLUIDSMR"
  <2> DEFINE U == UpTo(G, m)
             k == Cardinality(U) - 1
  <2>1. U \in SUBSET Track BY DEF UpTo
  <2>2. U \cap TracksOf(b) = mine BY <1>1 DEF UpTo
  <2>3. k \in Int BY <2>1, TracksFinite
  <2>4. FluidBandsAfter(U)[b] = BandAfter(U, b) BY DEF FluidBandsAfter, FluidBandAfter
  <2>5. RoundOf(G, m) = Round * k BY DEF RoundOf
  <2>6. /\ FluidBandsAfter(U)[b].rmw
        /\ t \in Downstream(FluidBandsAfter(U)[b])
    BY <1>3, <2>1, <2>2, <2>4
  <2>7. t \in InUse \cup G OBVIOUS
  <2> HIDE DEF U, k
  <2>8. PICK e \in Tails(Round * k, FluidBandsAfter(U), InUse \cup G) :
            IsVirtual(e) /\ e.track = t
    BY <2>3, <2>6, <2>7, TailEntry
  <2>9. e \in FluidExtension(G, InUse \cup G) BY <1>1, <2>5, <2>8 DEF FluidExtension, U
  <2> QED BY <1>4, <2>8, <2>9 DEF Virtual, TableOf, WriteTable
<1>5. CASE Build # "FLUIDSMR"
  <2>1. BandsAfter(G)[b].rmw /\ t \in Downstream(BandsAfter(G)[b]) BY <1>3 DEF BandsAfter
  <2>2. t \in InUse \cup G OBVIOUS
  <2>3. PICK e \in Tails(Round * 0, BandsAfter(G), InUse \cup G) : IsVirtual(e) /\ e.track = t
    BY <2>1, <2>2, TailEntry
  <2>4. Round * 0 = 0 BY BandCountAssumption DEF Round
  <2>5. e \in Extension(G, BandsAfter(G), InUse \cup G) BY <2>3, <2>4 DEF Extension
  <2> QED BY <1>5, <2>3, <2>5, BuildAssumption DEF Virtual, TableOf, WriteTable, WriteBands
<1> QED BY <1>4, <1>5

LEMMA TableFinite ==
  ASSUME NEW G \in SUBSET Track
  PROVE  IsFiniteSet(TableOf(G))
<1>1. InUse \cup G \in SUBSET Track BY DEF InUse
<1> QED BY <1>1, WriteTableFinite DEF TableOf

\* In every build that shingles, a write below the write head of a band
\* rewrites at least as many tracks as hold data behind the last one it writes
\* there.
THEOREM DestroyedIsRewritten == Spec => ShingleRewritten
<1> DEFINE Enough == Build # "CMR" => Rewrites >= Cardinality(Clobbered)
<1>1. ASSUME Inv, [Next]_vars PROVE Enough
  <2> USE DEF Inv, DiskInv
  <2> SUFFICES ASSUME Build # "CMR" PROVE Rewrites >= Cardinality(Clobbered) OBVIOUS
  <2>1. CASE Quiet
    <3>1. Clobbered = {} BY <2>1 DEF Quiet, Clobbered
    <3> QED BY <2>1, <3>1, FS_EmptySet DEF Quiet
  <2>2. ASSUME NEW G \in SUBSET Track, Wrote(G) PROVE Rewrites >= Cardinality(Clobbered)
    <3>1. ASSUME NEW t \in Clobbered PROVE \E e \in Virtual(TableOf(G)) : e.track = t
      <4>1. PICK b \in Band :
               /\ G \cap TracksOf(b) # {} /\ ~ band[b].cmr
               /\ ~ Min(G \cap TracksOf(b)) >= band[b].whp
               /\ t \in TracksOf(b) \cap InUse /\ t > Max(G \cap TracksOf(b))
        BY <2>2, <3>1 DEF Clobbered, Wrote
      <4>2. /\ band[b].whp \in Int /\ Min(G \cap TracksOf(b)) \in Int
        <5>1. band[b].whp \in Track BY <1>1 DEF DiskTypeOK, BandRecord
        <5>2. Min(G \cap TracksOf(b)) \in G \cap TracksOf(b) BY <1>1, <4>1, BandOfBatch
        <5>3. band[b].whp \in Int BY <5>1, MaxBlockPositive DEF Track
        <5>4. Min(G \cap TracksOf(b)) \in Track BY <5>2
        <5> QED BY <5>3, <5>4, MaxBlockPositive DEF Track
      <4>3. Min(G \cap TracksOf(b)) < band[b].whp BY <4>1, <4>2
      <4> QED BY <1>1, <4>1, <4>3, DownstreamIsAdded
    <3>2. Cardinality(Clobbered) <= Cardinality(Virtual(TableOf(G)))
      BY <3>1, TableFinite, EnoughVirtual
    <3>3. Rewrites = Cardinality(Virtual(TableOf(G))) BY <2>2 DEF Wrote
    <3>4. Cardinality(Virtual(TableOf(G))) \in Nat
      BY TableFinite, FS_Subset, FS_CardinalityType DEF Virtual
    <3>5. Cardinality(Clobbered) \in Nat
      <4>1. Clobbered \in SUBSET Track BY DEF Clobbered, InUse
      <4> QED BY <4>1, TracksFinite
    <3> QED BY <3>2, <3>3, <3>4, <3>5
  <2> QED BY <1>1, <2>1, <2>2, StepRewrites
<1>2. Spec => [][Enough]_diskVars
  <2>1. ASSUME Inv, [Next]_vars PROVE [Enough]_diskVars BY <1>1, <2>1
  <2> HIDE DEF Enough
  <2> QED BY <2>1, Invariance, PTL DEF Spec
<1> QED BY <1>2 DEF ShingleRewritten

\* A virtual entry of a table without upstream tracks belongs to a track that
\* holds data, is not of the batch, and has no other entry.
LEMMA VirtualOnce ==
  ASSUME DiskTypeOK, BandsKept, Build \notin {"NATIVE_A", "FLUIDSMR"},
         NEW G \in SUBSET Track, NEW e \in Virtual(TableOf(G))
  PROVE  \E b \in Band : /\ e.track \in TracksOf(b) /\ e.track \in InUse \ G
                         /\ e = [pass |-> 0 + 2*b + 2, track |-> e.track]
<1> DEFINE bands == BandsAfter(G)
           U == InUse \cup G
<1>1. e \in Tails(0, bands, U)
  <2>1. TableOf(G) \in {Entries(0, G), Extension(G, bands, U)}
    BY BuildAssumption DEF TableOf, WriteTable, WriteBands
  <2>2. Entries(0, G) = Entries(Round * 0, G) BY BandCountAssumption DEF Round
  <2>3. e \notin Entries(0, G) BY <2>2, BatchPhysical DEF Virtual
  <2> QED BY <2>1, <2>3 DEF Extension, Virtual
<1>2. PICK b \in Band : /\ bands[b].rmw
                        /\ \/ e \in Entries(0 + 2*b + 1, Upstream(b, bands[b]) \cap U)
                           \/ e \in Entries(0 + 2*b + 2, Downstream(bands[b]) \cap U)
  BY <1>1 DEF Tails
<1>3. Upstream(b, bands[b]) = {} BY DEF Upstream
<1>4. e \in Entries(0 + 2*b + 2, Downstream(bands[b]) \cap U) BY <1>2, <1>3 DEF Entries
<1>5. PICK t \in Downstream(bands[b]) \cap U : e = [pass |-> 0 + 2*b + 2, track |-> t]
  BY <1>4 DEF Entries
<1>6. e.track = t BY <1>5
<1>7. bands[b] = BandAfter(G, b) BY DEF BandsAfter
<1>8. /\ bands[b].whp \in TracksOf(b) /\ bands[b].end \in TracksOf(b)
  BY <1>7, BatchKeepsBand
<1>9. BandHead(b) \in Nat BY BandTracksAssumption DEF Band, BandHead
<1>10. /\ t \in TracksOf(b) /\ t > bands[b].end
  <2>1. t \in bands[b].end + 1 .. bands[b].whp BY <1>5 DEF Downstream
  <2> HIDE DEF bands
  <2>2. /\ bands[b].whp \in Int /\ bands[b].whp <= BandHead(b) + BandTracks - 1
        /\ bands[b].end \in Int /\ bands[b].end >= BandHead(b)
    BY <1>8, <1>9, BandTracksAssumption DEF TracksOf
  <2>3. t \in Int /\ t >= bands[b].end + 1 /\ t <= bands[b].whp BY <2>1, <2>2
  <2> QED BY <1>9, <2>2, <2>3, BandTracksAssumption DEF TracksOf
<1>11. t \notin G
  <2> SUFFICES ASSUME t \in G PROVE FALSE OBVIOUS
  <2>1. G \cap TracksOf(b) # {} BY <1>10
  <2>2. BandAfter(G, b).rmw BY <1>2, <1>7
  <2>3. BandAfter(G, b).end = Max(G \cap TracksOf(b)) BY <2>1, <2>2, BandOfBatch
  <2>4. t <= Max(G \cap TracksOf(b)) BY <1>10, <2>1, BandOfBatch
  <2>5. t <= bands[b].end BY <1>7, <2>3, <2>4
  <2> HIDE DEF bands
  <2>6. t \in Int /\ bands[b].end \in Int BY <1>8, <1>9, <1>10, BandTracksAssumption DEF TracksOf
  <2> QED BY <1>10, <2>5, <2>6
<1> QED BY <1>5, <1>6, <1>10, <1>11

\* In the CMR, NATIVE_B and HYBRID builds no step charges more tracks as
\* rewritten than hold data that it does not write: no track of its own
\* request, no track twice, and no track without data.
THEOREM NothingRewrittenTwice == Spec => NoDoubleRewrite
<1> DEFINE Once == Build \notin {"NATIVE_A", "FLUIDSMR"} =>
                       Rewrites <= Cardinality(InUse \ Written)
<1>1. ASSUME Inv, BandsKept, [Next]_vars PROVE Once
  <2> USE DEF Inv, DiskInv
  <2> SUFFICES ASSUME Build \notin {"NATIVE_A", "FLUIDSMR"}
               PROVE  Rewrites <= Cardinality(InUse \ Written)
    OBVIOUS
  <2>1. \A G : IsFiniteSet(InUse \ G) /\ Cardinality(InUse \ G) \in Nat
    <3> TAKE G
    <3>1. InUse \ G \in SUBSET Track BY DEF InUse
    <3> QED BY <3>1, TracksFinite
  <2>2. CASE Quiet BY <2>1, <2>2 DEF Quiet
  <2>3. ASSUME NEW G \in SUBSET Track, Wrote(G)
        PROVE  Rewrites <= Cardinality(InUse \ Written)
    <3> DEFINE V == Virtual(TableOf(G))
               f == [e \in V |-> e.track]
    <3>1. \A e \in V : e.track \in InUse \ G BY <1>1, VirtualOnce
    <3>2. \A e, g \in V : e.track = g.track => e = g
      <4> SUFFICES ASSUME NEW e \in V, NEW g \in V, e.track = g.track PROVE e = g
        OBVIOUS
      <4>1. PICK b \in Band : /\ e.track \in TracksOf(b)
                              /\ e = [pass |-> 0 + 2*b + 2, track |-> e.track]
        BY <1>1, VirtualOnce
      <4>2. PICK c \in Band : /\ g.track \in TracksOf(c)
                              /\ g = [pass |-> 0 + 2*c + 2, track |-> g.track]
        BY <1>1, VirtualOnce
      <4>3. b = c BY <4>1, <4>2, OneBandEach
      <4> QED BY <4>1, <4>2, <4>3
    <3>3. f \in Injection(V, InUse \ G)
      <4>1. f \in [V -> InUse \ G] BY <3>1
      <4>2. \A e, g \in V : f[e] = f[g] => e = g BY <3>2
      <4> QED BY <4>1, <4>2 DEF Injection, IsInjective
    <3>4. Cardinality(V) <= Cardinality(InUse \ G) BY <2>1, <3>3, FS_Injection
    <3> QED BY <2>3, <3>4 DEF Wrote
  <2> QED BY <1>1, <2>2, <2>3, StepRewrites
<1>2. Spec => [][Once]_diskVars
  <2>1. ASSUME Inv, BandsKept, [Next]_vars PROVE [Once]_diskVars BY <1>1, <2>1
  <2> HIDE DEF Once
  <2> QED BY <2>1, Invariance, BandsAreKept, PTL DEF Spec
<1> QED BY <1>2 DEF NoDoubleRewrite

\* In the NATIVE_A build a write that puts a band in read-modify-write mode
\* rewrites all that is in use before and behind its tracks in the band, in
\* every band at once.
THEOREM WholeBandIsRewritten == Spec => FirstUpdateRewritesBand
<1> DEFINE mine(b) == Written \cap TracksOf(b)
           new == {b \in Band : ~ band[b].rmw /\ band'[b].rmw /\ mine(b) # {}}
           beside(b) == {t \in TracksOf(b) \cap InUse : \/ \A w \in mine(b) : t < w
                                                        \/ \A w \in mine(b) : t > w}
           all == UNION {beside(b) : b \in new}
           Whole == Build = "NATIVE_A" =>
               LET entering == {b \in Band : /\ ~ band[b].rmw /\ band'[b].rmw
                                             /\ Written \cap TracksOf(b) # {}}
                   others(b) == {t \in TracksOf(b) \cap InUse :
                                 \/ \A w \in Written \cap TracksOf(b) : t < w
                                 \/ \A w \in Written \cap TracksOf(b) : t > w}
               IN  Rewrites >= Cardinality(UNION {others(b) : b \in entering})
<1>0. Whole = (Build = "NATIVE_A" => Rewrites >= Cardinality(all)) OBVIOUS
<1>1. ASSUME Inv, BandsKept, [Next]_vars PROVE Build = "NATIVE_A" => Rewrites >= Cardinality(all)
  <2> USE DEF Inv, DiskInv
  <2> SUFFICES ASSUME Build = "NATIVE_A" PROVE Rewrites >= Cardinality(all) OBVIOUS
  <2>1. CASE Quiet
    <3>1. all = {} BY <2>1 DEF Quiet
    <3> QED BY <2>1, <3>1, FS_EmptySet DEF Quiet
  <2>2. ASSUME NEW G \in SUBSET Track, Wrote(G) PROVE Rewrites >= Cardinality(all)
    <3>1. ASSUME NEW b \in new, NEW t \in beside(b)
          PROVE  \E e \in Virtual(TableOf(G)) : e.track = t
      <4> DEFINE m == G \cap TracksOf(b)
      <4>1. /\ b \in Band /\ ~ band[b].rmw /\ m # {} /\ t \in TracksOf(b) /\ t \in InUse
            /\ (\A w \in m : t < w) \/ (\A w \in m : t > w)
        <5>1. b \in Band /\ ~ band[b].rmw /\ mine(b) # {} BY <3>1
        <5>2. /\ t \in TracksOf(b) \cap InUse
              /\ (\A w \in mine(b) : t < w) \/ (\A w \in mine(b) : t > w)
          BY <3>1
        <5>3. mine(b) = m BY <2>2 DEF Wrote
        <5> QED BY <5>1, <5>2, <5>3
      <4>2. band'[b] = BandAfter(G, b) BY <2>2, <4>1 DEF Wrote, WriteBands, BandsAfter
      <4>3. BandAfter(G, b).rmw BY <3>1, <4>2
      <4>4. Min(m) < band[b].whp /\ BandAfter(G, b).start = Min(m)
        BY <1>1, <4>1, <4>3, BandOfBatch
      <4>5. Min(m) \in m /\ Max(m) \in m BY <1>1, <4>1, BandOfBatch
      <4>6. CASE \A w \in m : t > w
        <5>1. t > Max(m) /\ ~ band[b].cmr BY <1>1, <4>1, <4>5, <4>6 DEF BandsKept
        <5> QED BY <1>1, <4>1, <4>4, <5>1, DownstreamIsAdded
      <4>7. CASE \A w \in m : t < w
        <5>1. t < Min(m) BY <4>5, <4>7
        <5>2. t \in Upstream(b, BandAfter(G, b))
          <6>1. BandHead(b) \in Nat BY <4>1, BandTracksAssumption DEF Band, BandHead
          <6>2. t \in Int /\ t >= BandHead(b) /\ Min(m) \in Int
            BY <4>1, <4>5, <6>1, BandTracksAssumption DEF TracksOf
          <6>3. t <= Min(m) - 1 BY <5>1, <6>2
          <6> HIDE DEF m
          <6> QED BY <4>4, <6>1, <6>2, <6>3 DEF Upstream
        <5>3. BandsAfter(G)[b] = BandAfter(G, b) BY <4>1 DEF BandsAfter
        <5>4. t \in InUse \cup G BY <4>1
        <5>5. PICK e \in Tails(Round * 0, BandsAfter(G), InUse \cup G) :
                 IsVirtual(e) /\ e.track = t
          BY <4>1, <4>3, <5>2, <5>3, <5>4, TailEntry
        <5>6. Round * 0 = 0 BY BandCountAssumption DEF Round
        <5>7. e \in Extension(G, BandsAfter(G), InUse \cup G) BY <5>5, <5>6 DEF Extension
        <5> QED BY <5>5, <5>7 DEF Virtual, TableOf, WriteTable, WriteBands
      <4> QED BY <4>1, <4>6, <4>7
    <3>2. \A t \in all : \E e \in Virtual(TableOf(G)) : e.track = t BY <3>1
    <3>3. all \in SUBSET Track BY DEF InUse
    <3> HIDE DEF all
    <3>4. Cardinality(all) <= Cardinality(Virtual(TableOf(G)))
      BY <3>2, TableFinite, EnoughVirtual
    <3>5. Rewrites = Cardinality(Virtual(TableOf(G))) BY <2>2 DEF Wrote
    <3>6. Cardinality(Virtual(TableOf(G))) \in Nat
      BY TableFinite, FS_Subset, FS_CardinalityType DEF Virtual
    <3>7. Cardinality(all) \in Nat BY <3>3, TracksFinite
    <3> QED BY <3>4, <3>5, <3>6, <3>7
  <2> QED BY <1>1, <2>1, <2>2, StepRewrites
<1>2. Spec => [][Whole]_diskVars
  <2>1. ASSUME Inv, BandsKept, [Next]_vars PROVE [Whole]_diskVars BY <1>0, <1>1, <2>1
  <2> HIDE DEF Whole
  <2> QED BY <2>1, Invariance, BandsAreKept, PTL DEF Spec
<1> QED BY <1>2, PTL DEF FirstUpdateRewritesBand
=============================================================================
