------------------------------- MODULE Hybrid -------------------------------
(***************************************************************************)
(* hybrid_parsing_csv of main.c and do_checkpoint of src/src/Hybrid.c: the *)
(* HYBRID build.  A write of the trace does not go to its own blocks but   *)
(* is committed to journaling zones at the start of the disk; when all the *)
(* zones the limit allows are in use, a checkpoint writes every block of   *)
(* every zone home and sets the zones offline.  A request takes many       *)
(* operations of the disk, one step of this module each.                   *)
(***************************************************************************)
EXTENDS Disk, CommitType

CONSTANTS
    CMRTracks,     \* HYBRID_ZONE_CMR_TRACK_COUNT, 170 of the 256 tracks
    Percentage,    \* JOURNALING_ZONE_PERCENTAGE, 10
    CountModulus,  \* 2^64, the range of journaling_zone_count
    NumTraces,     \* num_traces
    Garbage,       \* what malloc may leave in a block record: [fid, lba]
    SkipBound,     \* bound: how many entries of the unset update list match
    ReadRanges, WriteRanges

ASSUME CMRTracksAssumption == CMRTracks \in 1 .. BandTracks
ASSUME PercentageAssumption == Percentage \in 0 .. 100
ASSUME CountModulusAssumption == CountModulus \in Nat /\ CountModulus > BandCount
ASSUME HybridNumTracesAssumption == NumTraces \in Nat
ASSUME HybridInputsAssumption ==
    /\ Garbage \subseteq [fid : Fid, lba : Nat] /\ SkipBound \in Nat
    /\ ReadRanges \subseteq Nat \X Nat /\ WriteRanges \subseteq Nat \X Nat

VARIABLES
    zone,        \* hybrid_zone
    zoneCount,   \* journaling_zone_count
    job,         \* the locals of the write being committed
    scan,        \* check_free_zone, or zone, block and half-step of a checkpoint
    pc,          \* where hybrid_parsing_csv is
    left         \* num_traces

hybridVars == <<zone, zoneCount, job, scan, pc, left>>
vars == <<diskVars, commitVars, hybridVars>>

\* A zone is a band: HYBRID_ZONE_TRACK_COUNT is band_track_count.
Slot == 0 .. BandTracks - 1
CMR == 0
SMR == 1

Limit == (BandCount * Percentage) \div 100          \* journaling_zone_limit
FirstBound == (Limit \div 2) * BandTracks           \* hotness_bound at the start
LimitZones == {z \in Band : z < Limit}

NoJob == [fid |-> NoFid, lba |-> 0, next |-> 0, rest |-> 0, mode |-> CMR, skip |-> {}]
NoScan == [zone |-> 0, slot |-> 0, half |-> "read"]

Init ==
    /\ DiskInit
    /\ CommitInit(FirstBound)
    /\ \E g \in Garbage :
         zone = [z \in Band |->
                   [online |-> FALSE, full |-> FALSE, journaling |-> FALSE,
                    type |-> CMR, whp |-> 0,
                    blocks |-> [s \in Slot |-> [fid |-> g.fid, lba |-> g.lba, sealed |-> FALSE]]]]
    /\ zoneCount = 0
    /\ job = NoJob /\ scan = NoScan /\ pc = "lines"
    /\ left = NumTraces

-----------------------------------------------------------------------------
(* The lines of the trace.                                                 *)

Line == pc = "lines" /\ ~ aborted /\ left > 0 /\ left' = left - 1

ReadLine(lba, n, fid) ==
    /\ Line
    /\ LbaRead(lba, n, fid)
    /\ UNCHANGED <<commitVars, zone, zoneCount, job, scan, pc>>

DeleteLine(fid) ==
    /\ Line
    /\ LbaDelete(fid)
    /\ UNCHANGED <<commitVars, zone, zoneCount, job, scan, pc>>

\* A comment or a line of an unknown mode.
OtherLine ==
    /\ Line
    /\ UNCHANGED <<diskVars, commitVars, zone, zoneCount, job, scan, pc>>

\* A line that sscanf does not match ends the program at once.
BadLine ==
    /\ Line /\ pc' = "failed"
    /\ UNCHANGED <<diskVars, commitVars, zone, zoneCount, job, scan>>

\* A write starts its commit.  The loop that looks for the blocks in the
\* journal runs over hybrid_used_zone_count zones, which is 0 and never
\* assigned again, so the update list stays as malloc left it: skip is the
\* set of blocks that happen to compare equal to its entries.
WriteLine(lba, n, fid) ==
    /\ Line
    /\ DetermineCommitType(n)
    /\ IF n = 0 THEN UNCHANGED <<job, pc>>
       ELSE /\ pc' = "commit"
            /\ \E skip \in {s \in SUBSET Blocks(lba, n) : Cardinality(s) <= SkipBound} :
                 job' = [fid |-> fid, lba |-> lba, next |-> lba, rest |-> n,
                         mode |-> CommitMode(n), skip |-> skip]
    /\ UNCHANGED <<diskVars, zone, zoneCount, scan>>

-----------------------------------------------------------------------------
(* The commit: while (n_ptr > 0).                                          *)

Eligible(z) == /\ zone[z].online /\ zone[z].journaling
               /\ ~ zone[z].full /\ zone[z].type = job.mode

Candidates == {z \in LimitZones : z >= scan.zone /\ Eligible(z)}

\* The first slot from the write head on that is sealed, or the end of zone.
Capacity(z) == Min({BandTracks} \cup
                   {s \in Slot : s >= zone[z].whp /\ zone[z].blocks[s].sealed})

\* The blocks of the request, from the current one, that its first m steps
\* put into the zone.
Placed(m) == (job.next .. job.next + m - 1) \ job.skip

\* The room left in the zone.
Room(z) == Capacity(z) - zone[z].whp

\* How many blocks the zone takes before it is out of room or they are done.
Taken(z) == Min({job.rest} \cup
                {m \in 0 .. job.rest : Cardinality(Placed(m)) = Room(z)})

\* The block that goes to slot s of the zone.
BlockFor(z, s, m) ==
    CHOOSE l \in Placed(m) :
        Cardinality({k \in Placed(m) : k < l}) = s - zone[z].whp

Filled(z, m) ==
    LET whp == zone[z].whp + Cardinality(Placed(m))
    IN  [zone[z] EXCEPT
           !.whp = whp,
           !.full = @ \/ whp = BandTracks \/ (whp = Capacity(z) /\ m < job.rest),
           !.blocks = [s \in Slot |->
               IF s \in zone[z].whp .. whp - 1
               THEN [@[s] EXCEPT !.fid = job.fid, !.lba = BlockFor(z, s, m)]
               ELSE @[s]]]

\* Where on the disk the zone continues: logical_disk_LBA + write_head_pointer.
FaultyJournalLba(z) == BandHead(z)
JournalLba(z) == BandHead(z) + zone[z].whp

\* The next eligible zone takes what it can; its new blocks are one write.
FillZone ==
    /\ pc = "commit" /\ Candidates # {}
    /\ LET z == Min(Candidates)
           m == Taken(z)
       IN  /\ zone' = [zone EXCEPT ![z] = Filled(z, m)]
           /\ LbaWrite(JournalLba(z), Cardinality(Placed(m)), job.fid)
           /\ IF m = job.rest
              THEN pc' = "lines" /\ job' = NoJob /\ scan' = NoScan
              ELSE /\ job' = [job EXCEPT !.next = @ + m, !.rest = @ - m]
                   /\ scan' = [scan EXCEPT !.zone = z + 1]
                   /\ UNCHANGED pc
    /\ UNCHANGED <<commitVars, zoneCount, left>>

Offline == {z \in Band : ~ zone[z].online}

\* The tracks a zone of this type cannot write.
FaultySealed(mode, s) == mode = CMR /\ s > CMRTracks
Sealed(mode, s) == mode = CMR /\ s >= CMRTracks

FaultyMayAllocate == zoneCount < Limit - 1
MayAllocate == zoneCount < Limit

\* No zone took the rest, and another zone may be used for the journal.
AllocateZone ==
    /\ pc = "commit" /\ Candidates = {} /\ MayAllocate
    /\ LET z == Min(Offline)
       IN  zone' = IF Offline = {} THEN zone
                   ELSE [zone EXCEPT ![z].online = TRUE, ![z].journaling = TRUE,
                                     ![z].type = job.mode,
                                     ![z].blocks = [s \in Slot |->
                                        [@[s] EXCEPT !.sealed = Sealed(job.mode, s)]]]
    /\ zoneCount' = IF Offline = {} THEN zoneCount ELSE (zoneCount + 1) % CountModulus
    /\ scan' = NoScan
    /\ UNCHANGED <<diskVars, commitVars, job, pc, left>>

\* Or the limit is reached.
StartCheckpoint ==
    /\ pc = "commit" /\ Candidates = {} /\ zoneCount >= Limit
    /\ pc' = "checkpoint" /\ scan' = NoScan
    /\ UNCHANGED <<diskVars, commitVars, zone, zoneCount, job, left>>

-----------------------------------------------------------------------------
(* do_checkpoint: every slot of every zone below the limit, used or not.   *)

Checkpointing == pc \in {"checkpoint", "final"} /\ scan.zone < Limit

FaultyHome == zone[0].blocks[scan.slot]
Home == zone[scan.zone].blocks[scan.slot]

ReadHome ==
    /\ Checkpointing /\ scan.slot < BandTracks /\ scan.half = "read"
    /\ LbaRead(Home.lba, 1, Home.fid)
    /\ scan' = [scan EXCEPT !.half = "write"]
    /\ UNCHANGED <<commitVars, zone, zoneCount, job, pc, left>>

WriteHome ==
    /\ Checkpointing /\ scan.slot < BandTracks /\ scan.half = "write"
    /\ LbaWrite(Home.lba, 1, Home.fid)
    /\ scan' = [scan EXCEPT !.half = "read", !.slot = @ + 1]
    /\ UNCHANGED <<commitVars, zone, zoneCount, job, pc, left>>

\* journaling_zone_count--, modulo 2^64.
FaultyDecrement(count) == count
Decrement(count) == (count - 1) % CountModulus

ReleaseZone ==
    /\ Checkpointing /\ scan.slot = BandTracks
    /\ zone' = [zone EXCEPT ![scan.zone].online = FALSE, ![scan.zone].whp = 0,
                            ![scan.zone].full = FALSE, ![scan.zone].journaling = FALSE]
    /\ zoneCount' = Decrement(zoneCount)
    /\ scan' = [NoScan EXCEPT !.zone = scan.zone + 1]
    /\ UNCHANGED <<diskVars, commitVars, job, pc, left>>

EndCheckpoint ==
    /\ pc \in {"checkpoint", "final"} /\ scan.zone = Limit
    /\ pc' = IF pc = "final" THEN "done" ELSE "commit"
    /\ scan' = NoScan
    /\ UNCHANGED <<diskVars, commitVars, zone, zoneCount, job, left>>

\* The end of the file or of the budget: one more checkpoint, always.
EndOfTrace ==
    /\ pc = "lines" /\ ~ aborted
    /\ pc' = "final" /\ scan' = NoScan
    /\ UNCHANGED <<diskVars, commitVars, zone, zoneCount, job, left>>

-----------------------------------------------------------------------------
\* What the program does once it has a line; it takes the next line only if
\* the trace has one.
Step == \/ FillZone \/ AllocateZone \/ StartCheckpoint
        \/ ReadHome \/ WriteHome \/ ReleaseZone \/ EndCheckpoint

Next == \/ \E fid \in Fid :
              \/ \E r \in ReadRanges  : ReadLine(r[1], r[2], fid)
              \/ \E r \in WriteRanges : WriteLine(r[1], r[2], fid)
              \/ DeleteLine(fid)
        \/ OtherLine
        \/ BadLine
        \/ EndOfTrace
        \/ Step

Spec == Init /\ [][Next]_vars

\* The program is one thread that does not wait for anything within a line:
\* weak fairness of Step.  For the steps that call the disk the enabling
\* condition is written out (an operation of the disk is always enabled).
DiskStep == FillZone \/ ReadHome \/ WriteHome
DiskStepEnabled == \/ pc = "commit" /\ Candidates # {}
                   \/ Checkpointing /\ scan.slot < BandTracks

FairSpec ==
    /\ Spec
    /\ WF_vars(AllocateZone \/ StartCheckpoint \/ ReleaseZone \/ EndCheckpoint)
    /\ []<>(~ DiskStepEnabled) \/ []<><<DiskStep>>_vars

-----------------------------------------------------------------------------
Journal == {z \in Band : zone[z].online}

ZoneRecord ==
    [online : BOOLEAN, full : BOOLEAN, journaling : BOOLEAN, type : {CMR, SMR},
     whp : 0 .. BandTracks,
     blocks : [Slot -> [fid : Fid, lba : Nat, sealed : BOOLEAN]]]

\* Types; a zone's write head never passes its last slot.
HybridTypeOK ==
    /\ DiskTypeOK
    /\ zone \in [Band -> ZoneRecord]
    /\ zoneCount \in 0 .. CountModulus - 1
    /\ job.rest \in Nat /\ job.mode \in {CMR, SMR}
    /\ scan.zone \in 0 .. BandCount /\ scan.slot \in 0 .. BandTracks
    /\ pc \in {"lines", "commit", "checkpoint", "final", "done", "failed"}
    /\ left \in 0 .. NumTraces

\* The journal is always the first zones of the disk, as many as
\* journaling_zone_count says and never more than the limit: the commit and
\* the checkpoint look for it nowhere else, while the allocation takes any
\* offline zone.  A checkpoint releases it from the front.
JournalIsPrefix ==
    /\ pc \in {"lines", "commit"} =>
          zoneCount <= Limit /\ Journal = {z \in Band : z < zoneCount}
    /\ pc = "checkpoint" =>
          /\ zoneCount = Limit - scan.zone
          /\ Journal = {z \in LimitZones : z >= scan.zone}

\* A zone of CMR tracks holds at most CMRTracks blocks, and no zone holds a
\* block on a sealed track, even when it changed type since its last use.
NothingSealedIsWritten ==
    \A z \in Journal :
        /\ zone[z].type = CMR => zone[z].whp <= CMRTracks
        /\ \A s \in Slot : s < zone[z].whp => ~ zone[z].blocks[s].sealed

\* Behind the write head of a zone every track has been written (a delete
\* may have freed it since): the write heads of the zones and the writes to
\* the disk advance together.  (Who owns the track is not said: when a zone is
\* used again, lba_write refuses the blocks of another file.)
JournalOnDisk ==
    \A z \in Journal, s \in Slot :
        s < zone[z].whp => storage[BandHead(z) + s].status \in {"in_use", "invalid"}

InJournal(fid, l) ==
    \E z \in Journal, s \in Slot :
        /\ s < zone[z].whp
        /\ zone[z].blocks[s].fid = fid /\ zone[z].blocks[s].lba = l

\* A commit that runs through several zones and checkpoints forgets nothing:
\* each block of the request that it has passed is in the journal, or its
\* home block holds data, or it was skipped because of the unset update list.
\* (The data may be of any file: a write home that lba_write refuses, because
\* another file owns the block, passes.)
NothingLost ==
    pc \in {"commit", "checkpoint"} =>
        \A l \in (job.lba .. job.next - 1) \ job.skip :
            InJournal(job.fid, l) \/ (l \in Lba => ltp[l].valid)

\* Every commit ends: the zones, allocations and checkpoints it goes through
\* are finitely many, so the program gets to the next line of the trace.
CommitEnds == pc = "commit" ~> pc = "lines"

-----------------------------------------------------------------------------
(* What comments of the code say and the code does not do.                 *)

\* "the current number of journaling zones" (main.c, on journaling_zone_count).
CountIsCurrent == zoneCount = Cardinality(Journal)

\* "check whether the journaling zones in use hold content to be updated"
\* (main.c): a block rewritten while it is in the journal is updated there,
\* so no two slots of the journal hold the same block of a file.
JournalUpdatedInPlace ==
    \A y, z \in Journal, r, s \in Slot :
        /\ r < zone[y].whp /\ s < zone[z].whp
        /\ zone[y].blocks[r].fid = zone[z].blocks[s].fid
        /\ zone[y].blocks[r].lba = zone[z].blocks[s].lba
        => y = z /\ r = s
=============================================================================
