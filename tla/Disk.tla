-------------------------------- MODULE Disk --------------------------------
(***************************************************************************)
(* The simulated disk of src/src/lba.c, pba.c, chs.c, batch.c, band.c and  *)
(* record_op.c.  A disk is BandCount bands of BandTracks tracks; a track   *)
(* holds one block.  A request goes through four layers: the lba layer     *)
(* checks its range and its file and translates blocks to tracks, the      *)
(* batch layer collects the tracks and adds those that shingling forces to *)
(* be rewritten, the pba/chs layer changes the status of the tracks, and   *)
(* the record layer charges sizes (in tracks) and time.                    *)
(*                                                                         *)
(* Each public operation of struct disk_operations is one action here: it  *)
(* runs to completion in the single thread of the program.                 *)
(*                                                                         *)
(* A definition named Faulty... is a plausible mistake in the definition   *)
(* that follows it.  No specification uses it: it stands in for that       *)
(* definition to see that the properties notice.                           *)
(***************************************************************************)
EXTENDS Integers, FiniteSets, FiniteSetsExt

CONSTANTS
    BandCount,   \* total_bands, twice the size in GiB of the command line
    BandTracks,  \* band_track_count, 256 in the code
    Fid,         \* the files named by the trace
    NoFid,       \* the fid of an entry nobody wrote yet
    Build,       \* the preprocessor symbol of the build
    LSeek,       \* L_SEEK
    LTrack       \* L_ROTATIONAL + L_TRANSFER, the time of one track

ASSUME BandCountAssumption  == BandCount \in Nat \ {0}
ASSUME BandTracksAssumption == BandTracks \in Nat \ {0}
ASSUME BuildAssumption == Build \in {"CMR", "NATIVE_A", "NATIVE_B", "HYBRID", "FLUIDSMR"}
ASSUME LSeekAssumption  == LSeek \in Nat
ASSUME LTrackAssumption == LTrack \in Nat
ASSUME NoFidAssumption  == NoFid \notin Fid

VARIABLES
    storage,   \* disk->storage: status, back pointer to the lba, write count
    ltp,       \* disk->ltp_table_head->table: the lba to pba table
    band,      \* the global array band
    report,    \* disk->report, in tracks and time units
    ret,       \* what the last operation returned
    aborted    \* an assert or exit of the disk layer ended the program

diskVars == <<storage, ltp, band, report, ret, aborted>>

MaxBlock == BandCount * BandTracks
Lba      == 0 .. MaxBlock - 1
Track    == 0 .. MaxBlock - 1
Band     == 0 .. BandCount - 1

BandHead(b)   == b * BandTracks
TracksOf(b)   == BandHead(b) .. BandHead(b) + BandTracks - 1

Status == {"free", "booked", "in_use", "invalid"}

\* The counters of struct report that the disk layer updates.
Counter == {"invalidRead", "invalidWrite", "currentUse",
            "readBlocks", "writeBlocks", "deleteBlocks",
            "readSize", "writeSize", "rewriteSize", "rereadSize",
            "deleteSize", "deleteRewrite", "deleteReread",
            "accessTime", "readTime", "writeTime", "deleteTime"}

InitBand == [b \in Band |-> [cmr |-> FALSE, whp |-> BandHead(b), rmw |-> FALSE,
                             start |-> BandHead(b), end |-> BandHead(b)]]

DiskInit ==
    /\ storage = [t \in Track |-> [status |-> "free", lba |-> 0, count |-> 0]]
    /\ ltp = [l \in Lba |-> [valid |-> FALSE, fid |-> NoFid, pba |-> 0]]
    /\ band = InitBand
    /\ report = [c \in Counter |-> 0]
    /\ ret = 0
    /\ aborted = FALSE

-----------------------------------------------------------------------------
(***************************************************************************)
(* The lba and pba layers: ranges, ownership and translation.              *)
(***************************************************************************)
InRange(lba, n) == n > 0 /\ lba < MaxBlock /\ lba + (n - 1) < MaxBlock

Blocks(lba, n) == lba .. lba + n - 1

FaultyIsLtpMappingValid(l, fid) == ltp[l].valid
IsLtpMappingValid(l, fid) == ltp[l].valid /\ ltp[l].fid = fid

IsBlockDataValid(l, fid) ==
    IsLtpMappingValid(l, fid) /\ storage[ltp[l].pba].status = "in_use"

FaultyIsInvalidWrite(l, fid) == ltp[l].valid /\ ltp[l].fid = NoFid
IsInvalidWrite(l, fid) == ltp[l].valid /\ ltp[l].fid # fid

\* native_find_next_pba: a block is always booked at the track of its number.
FaultyFindNextPba(l) == (l + 1) % MaxBlock
FindNextPba(l) == l

PbaSearch(l, fid) == IF IsBlockDataValid(l, fid) THEN ltp[l].pba ELSE FindNextPba(l)

-----------------------------------------------------------------------------
(***************************************************************************)
(* batch_extend.  The tracks of a batch are sorted and distinct, so what   *)
(* its first loop does to a band depends on the first and the last track   *)
(* of the batch in that band.  A band enters read-modify-write mode the    *)
(* first time a track below its write head is written and never leaves it. *)
(***************************************************************************)
\* The write head of band record k after the tracks S of its band.
FaultyNewHeadPastEnd(k, S) == IF Max(S) >= k.whp THEN Max(S) + 1 ELSE k.whp
FaultyNewHeadKept(k, S) == IF Min(S) >= k.whp THEN Max(S) ELSE k.whp
NewHead(k, S) == IF Max(S) > k.whp THEN Max(S) ELSE k.whp

BandAfter(S, b) ==
    LET mine == S \cap TracksOf(b)
        old  == band[b]
        updates == Min(mine) < old.whp
    IN  IF mine = {} THEN old
        ELSE [cmr |-> old.cmr,
              whp |-> NewHead(old, mine),
              rmw |-> old.rmw \/ updates,
              start |-> IF ~ old.rmw /\ updates THEN Min(mine) ELSE old.start,
              end |-> IF old.rmw \/ updates THEN Max(mine) ELSE old.end]

BandsAfter(S) == [b \in Band |-> BandAfter(S, b)]

\* The tracks of band record k that its second loop adds after the batch.
FaultyDownstreamShort(k) == k.end + 1 .. k.whp - 1
FaultyDownstreamLong(k) == k.start + 1 .. k.whp
Downstream(k) == k.end + 1 .. k.whp
\* The tracks the NATIVE_A build adds before them.
FaultyUpstream(b, k) == IF Build = "NATIVE_A" THEN BandHead(b) .. k.start - 2 ELSE {}
Upstream(b, k) == IF Build = "NATIVE_A" THEN BandHead(b) .. k.start - 1 ELSE {}

\* The extend table: an entry is a track and the pass that added it.  A round
\* is a pass over the tracks of the batch, then two passes over each band,
\* which add the entries that are virtual.
Entries(pass, S) == {[pass |-> pass, track |-> t] : t \in S}

Round == 2*BandCount + 1

Tails(start, bands, inUse) ==
    UNION {Entries(start + 2*b + 1, Upstream(b, bands[b]) \cap inUse) \cup
           Entries(start + 2*b + 2, Downstream(bands[b]) \cap inUse) :
              b \in {c \in Band : bands[c].rmw}}

Extension(S, bands, inUse) == Entries(0, S) \cup Tails(0, bands, inUse)

FaultyIsVirtual(e) == e.pass > 0
IsVirtual(e) == e.pass % Round # 0

-----------------------------------------------------------------------------
(***************************************************************************)
(* batch_extend_fluidsmr, which batch_write calls in the FLUIDSMR build.   *)
(* The tracks of a band in CMR mode leave its record alone, and the loop   *)
(* over the bands is inside the loop over the tracks: there is one round   *)
(* per track, over the bands as they are after that track.                 *)
(***************************************************************************)
FluidBandAfter(S, b) == IF band[b].cmr THEN band[b] ELSE BandAfter(S, b)

FluidBandsAfter(S) == [b \in Band |-> FluidBandAfter(S, b)]

UpTo(S, t) == {u \in S : u <= t}

\* The first pass of the round of track t.
RoundOf(S, t) == Round * (Cardinality(UpTo(S, t)) - 1)

FaultyFluidExtension(S, inUse) ==
    UNION {Entries(RoundOf(S, t), {t}) \cup Tails(RoundOf(S, t), band, inUse) : t \in S}
FluidExtension(S, inUse) ==
    UNION {Entries(RoundOf(S, t), {t}) \cup
           Tails(RoundOf(S, t), FluidBandsAfter(UpTo(S, t)), inUse) : t \in S}

-----------------------------------------------------------------------------
(***************************************************************************)
(* record_op.c.  The table is cut into runs of consecutive tracks; a run   *)
(* with a virtual entry is read once and written twice as a whole, another *)
(* run is written once.                                                    *)
(***************************************************************************)
Before(e, f) == e.pass < f.pass \/ (e.pass = f.pass /\ e.track < f.track)

Joins(E, e, f) == /\ Before(e, f)
                  /\ f.track = e.track + 1
                  /\ ~ \E g \in E : Before(e, g) /\ Before(g, f)

Heads(E) == {f \in E : ~ \E e \in E : Joins(E, e, f)}

SameRun(E, e, f) ==
    ~ \E h \in Heads(E) : \/ Before(e, h) /\ ~ Before(f, h)
                          \/ Before(f, h) /\ ~ Before(e, h)

Virtual(E)  == {e \in E : IsVirtual(e)}
InVirtualRun(E) == {e \in E : \E v \in Virtual(E) : SameRun(E, e, v)}

Cost(runs, tracks) == runs * LSeek + tracks * LTrack

Time(E) ==
    LET V == InVirtualRun(E)
        H == Heads(E)
    IN  Cost(Cardinality(H \ V), Cardinality(E \ V))
        + 3 * Cost(Cardinality(H \cap V), Cardinality(V))

\* The physical tracks of a table.
FaultyOwn(E) == Cardinality(E)
Own(E) == Cardinality(E \ Virtual(E))

\* Report r with the amounts of a record added to its counters.
Charge(r, amounts) ==
    [c \in Counter |-> IF c \in DOMAIN amounts THEN r[c] + amounts[c] ELSE r[c]]

\* pba_read and record_read.
FaultyReadCharge(E) ==
    [readBlocks |-> Cardinality(E), readSize |-> Own(E), readTime |-> Time(E)]
ReadCharge(E) ==
    [readBlocks |-> Cardinality(E), readSize |-> Own(E),
     readTime |-> Time(E), accessTime |-> Time(E)]

\* pba_write on the tracks S of the batch, of which booked were not in use,
\* and record_write on its table E.
WriteCharge(S, booked, E) ==
    [writeBlocks |-> Cardinality(S), currentUse |-> Cardinality(booked),
     writeSize |-> Own(E), rewriteSize |-> Cardinality(Virtual(E)),
     rereadSize |-> Cardinality(InVirtualRun(E)),
     writeTime |-> Time(E), accessTime |-> Time(E)]

\* record_delete and pba_delete.
DeleteCharge(S, E) ==
    [deleteBlocks |-> Cardinality(S), deleteSize |-> Own(E),
     deleteRewrite |-> Cardinality(Virtual(E)),
     deleteReread |-> Cardinality(InVirtualRun(E)),
     deleteTime |-> Time(E), accessTime |-> Time(E)]

-----------------------------------------------------------------------------
(***************************************************************************)
(* The operations.  A batch of no track is not charged anything.           *)
(***************************************************************************)
IsUsed(t) == storage[t].status \in {"booked", "in_use"}

Refuse == ret' = 0 /\ UNCHANGED <<storage, ltp, band, report, aborted>>

LbaRead(lba, n, fid) ==
    \/ ~ InRange(lba, n) /\ Refuse
    \/ /\ InRange(lba, n)
       /\ LET found == {l \in Blocks(lba, n) : IsBlockDataValid(l, fid)}
              S     == {ltp[l].pba : l \in found}
              r     == Charge(report, [invalidRead |-> n - Cardinality(found)])
          IN  /\ report' = IF S = {} THEN r ELSE Charge(r, ReadCharge(Entries(0, S)))
              /\ ret' = Cardinality(S)
       /\ UNCHANGED <<storage, ltp, band, aborted>>

\* chs_write on a track of the batch, which pba_search booked and linked to l.
ChsWrite(t, l) == [status |-> "in_use", lba |-> l, count |-> storage[t].count + 1]

\* The lba whose pba_search returned track t.
Linked(t, granted, fid) == CHOOSE l \in granted : PbaSearch(l, fid) = t

\* The table that record_write reads: the CMR build never extends a write.
WriteTable(S, bands, inUse) ==
    CASE Build = "CMR"      -> Entries(0, S)
      [] Build = "FLUIDSMR" -> FluidExtension(S, inUse)
      [] OTHER              -> Extension(S, bands, inUse)

WriteBands(S) ==
    CASE Build = "CMR"      -> band
      [] Build = "FLUIDSMR" -> FluidBandsAfter(S)
      [] OTHER              -> BandsAfter(S)

\* The tracks that pba_search found for the first time.
FaultyBooked(granted, fid) == {PbaSearch(l, fid) : l \in granted}
Booked(granted, fid) ==
    {FindNextPba(l) : l \in {k \in granted : ~ IsBlockDataValid(k, fid)}}

BatchWrite(granted, fid, r) ==
    LET S     == {PbaSearch(l, fid) : l \in granted}
        inUse == {t \in Track : IsUsed(t)} \cup S
        E     == WriteTable(S, WriteBands(S), inUse)
    IN  /\ storage' = [t \in Track |->
                         IF t \in S THEN ChsWrite(t, Linked(t, granted, fid))
                         ELSE storage[t]]
        /\ ltp' = [l \in Lba |->
                     IF l \in granted /\ ~ IsBlockDataValid(l, fid)
                     THEN [valid |-> TRUE, fid |-> fid, pba |-> FindNextPba(l)]
                     ELSE ltp[l]]
        /\ band' = WriteBands(S)
        /\ report' = Charge(r, WriteCharge(S, Booked(granted, fid), E))
        /\ ret' = Cardinality(S)

LbaWrite(lba, n, fid) ==
    \/ ~ InRange(lba, n) /\ Refuse
    \/ /\ InRange(lba, n)
       /\ LET granted == {l \in Blocks(lba, n) : ~ IsInvalidWrite(l, fid)}
              r == Charge(report, [invalidWrite |-> n - Cardinality(granted)])
          IN  \/ /\ granted = {}
                 /\ report' = r /\ ret' = 0
                 /\ UNCHANGED <<storage, ltp, band>>
              \/ granted # {} /\ BatchWrite(granted, fid, r)
       /\ UNCHANGED aborted

\* chs_delete ends the program when its track is not in use, or when the
\* entry it must invalidate is invalid already, which is also the case of the
\* second of two tracks with the same back pointer.  (What is then left of
\* the disk no longer matters to anyone.)
CanDelete(S) ==
    /\ \A t \in S : storage[t].status = "in_use" /\ ltp[storage[t].lba].valid
    /\ \A t, u \in S : storage[t].lba = storage[u].lba => t = u

\* The entries that chs_delete invalidates.
FaultyDropped(S) == {}
Dropped(S) == {storage[t].lba : t \in S}

BatchDelete(S) ==
    LET E == IF Build = "CMR" THEN Entries(0, S)
             ELSE Extension(S, BandsAfter(S), {t \in Track : IsUsed(t)})
    IN  /\ storage' = [t \in Track |->
                         IF t \in S THEN [storage[t] EXCEPT !.status = "invalid"]
                         ELSE storage[t]]
        /\ ltp' = [l \in Lba |-> IF l \in Dropped(S)
                                  THEN [ltp[l] EXCEPT !.valid = FALSE] ELSE ltp[l]]
        /\ band' = BandsAfter(S)
        /\ report' = Charge(report, DeleteCharge(S, E))
        /\ ret' = Cardinality(S)

\* native_lba_delete: every block of the file goes, whatever lba and n say.
LbaDelete(fid) ==
    LET doomed == {l \in Lba : IsLtpMappingValid(l, fid)}
        S == {ltp[l].pba : l \in doomed}
    IN  \/ doomed = {} /\ Refuse
        \/ /\ doomed # {}
           /\ BatchDelete(S)
           /\ aborted' = ~ CanDelete(S)

-----------------------------------------------------------------------------
(***************************************************************************)
(* Properties.                                                             *)
(***************************************************************************)
BandRecord == [cmr : BOOLEAN, whp : Track, rmw : BOOLEAN, start : Track, end : Track]

\* Types.  The bounds say that no write head, back pointer or table entry
\* ever leaves the disk, although the code indexes arrays with all of them.
DiskTypeOK ==
    /\ storage \in [Track -> [status : Status, lba : Lba, count : Nat]]
    /\ ltp \in [Lba -> [valid : BOOLEAN, fid : Fid \cup {NoFid}, pba : Track]]
    /\ band \in [Band -> BandRecord]
    /\ report \in [Counter -> Nat]
    /\ ret \in Nat
    /\ aborted \in BOOLEAN

InUse == {t \in Track : storage[t].status = "in_use"}

\* Between two operations the lba to pba table and the back pointers of the
\* tracks agree: a valid entry leads to a track in use that points back to
\* it, a track in use is pointed to by the entry it names, and no track is
\* left booked.  lba_write sets the two sides in different layers, and
\* chs_delete clears the entry through the back pointer.
MappingConsistent ==
    /\ \A l \in Lba : ltp[l].valid =>
          /\ storage[ltp[l].pba].status = "in_use"
          /\ storage[ltp[l].pba].lba = l
    /\ \A t \in InUse : ltp[storage[t].lba].valid /\ ltp[storage[t].lba].pba = t
    /\ \A t \in Track : storage[t].status # "booked"

\* Why they agree: blocks stay at the track of their number, and a track is
\* in use exactly when the entry of its number is valid, which then names a
\* file.  (The inductive form of MappingConsistent.)
IdentityMapping ==
    /\ \A l \in Lba : ltp[l].valid => ltp[l].pba = l /\ ltp[l].fid \in Fid
    /\ \A t \in Track : storage[t].status = "in_use" <=> ltp[t].valid
    /\ \A t \in Track : storage[t].status = "in_use" => storage[t].lba = t
    /\ \A t \in Track : storage[t].status # "booked"

\* No request makes chs_delete exit or an assert of the disk layer fail.
NeverAborts == ~ aborted

\* The write head of a band is at or beyond every track in use in the band:
\* what batch_extend looks for in (RMW_end, write head] is all there is.
\* (A CMR build, and a band in CMR mode, keep no write head.)
WriteHeadCovers ==
    Build # "CMR" =>
        \A b \in Band : ~ band[b].cmr =>
            \A t \in TracksOf(b) \cap InUse : t <= band[b].whp

\* The record layer, which works on runs of the extended table, and the pba
\* layer, which works on the batch, account for the same blocks; the access
\* time is that of reads, writes and deletes; and everything rewritten was
\* reread, together with at most the blocks written.
AccountingAgrees ==
    /\ report.readSize = report.readBlocks
    /\ report.writeSize = report.writeBlocks
    /\ report.deleteSize = report.deleteBlocks
    /\ report.accessTime = report.readTime + report.writeTime + report.deleteTime
    /\ report.rewriteSize <= report.rereadSize
    /\ report.rereadSize <= report.rewriteSize + report.writeSize

\* current_use_block_num, which chs_write raises and nothing lowers, is the
\* number of tracks in use plus those deleted; a track has been written if
\* and only if it is not free.
CountersMatchBlocks ==
    /\ report.currentUse = Cardinality(InUse) + report.deleteBlocks
    /\ \A t \in Track : storage[t].status = "free" <=> storage[t].count = 0

\* A block never passes from one file to another in one step: it has to be
\* deleted by its file first (is_invalid_write in lba_write).
OwnershipStable ==
    [][\A l \in Lba : ltp[l].valid /\ ltp'[l].valid => ltp'[l].fid = ltp[l].fid]_diskVars

\* The tracks a step writes.
Written == {t \in Track : storage'[t].count # storage[t].count}
Rewrites == report'.rewriteSize - report.rewriteSize

\* The tracks in use behind the last track that this step writes in their band,
\* if it writes below the write head there: shingling destroys them unless they
\* are rewritten.  (A track in the middle whose block was refused is not counted.)
Clobbered ==
    UNION {LET mine == Written \cap TracksOf(b)
           IN  IF mine = {} \/ band[b].cmr THEN {}
               ELSE IF Min(mine) >= band[b].whp THEN {}
               ELSE {t \in TracksOf(b) \cap InUse : t > Max(mine)} : b \in Band}

\* A write below the write head of a band rewrites at least every track in
\* use after the last one it writes in that band, in every band it touches.
ShingleRewritten == [][Build # "CMR" => Rewrites >= Cardinality(Clobbered)]_diskVars

\* Without the NATIVE_A extension, and without the round per track of the
\* FLUIDSMR build, a step never charges a track of its own request as
\* rewritten, nor a track twice, nor a track without data.
NoDoubleRewrite ==
    [][Build \notin {"NATIVE_A", "FLUIDSMR"} => Rewrites <= Cardinality(InUse \ Written)]_diskVars

\* In the NATIVE_A build, the write that puts a band in read-modify-write
\* mode rewrites all of the band in use but the range from its first to its
\* last track.
FirstUpdateRewritesBand ==
    [][Build = "NATIVE_A" =>
         LET entering == {b \in Band : /\ ~ band[b].rmw /\ band'[b].rmw
                                       /\ Written \cap TracksOf(b) # {}}
             others(b) == {t \in TracksOf(b) \cap InUse :
                             \/ \A w \in Written \cap TracksOf(b) : t < w
                             \/ \A w \in Written \cap TracksOf(b) : t > w}
         IN  Rewrites >= Cardinality(UNION {others(b) : b \in entering})]_diskVars
=============================================================================
