----------------------------- MODULE BatchLoops -----------------------------
(***************************************************************************)
(* batch_extend or batch_extend_fluidsmr followed by record_write (or      *)
(* record_delete, which has the same loop), iteration by iteration: the    *)
(* loops that module Disk states in closed form.  The variables of Disk    *)
(* hold the disk as it is when the batch is handed over and do not change; *)
(* work is the band array that the loop updates.                           *)
(***************************************************************************)
EXTENDS Disk, Sequences

\* Bounds on the batches and the disks that the loops are started on.
CONSTANTS
    CMRBands,    \* the bands whose flag may be set, for batch_extend_fluidsmr
    Holes,       \* at most so many free tracks below the write heads, for batch_extend,
    FluidHoles,  \* and for batch_extend_fluidsmr,
    FluidBatch   \* of which the batch has at most so many tracks

ASSUME BoundsAssumption == {Holes, FluidHoles, FluidBatch} \subseteq Nat

VARIABLES
    fluid,    \* whether the function is batch_extend_fluidsmr
    batch,    \* block_head of gbtable, sorted
    i,        \* the index of the loop over the batch or the table
    bc,       \* the index of the loop over the bands
    work,     \* the global array band
    extend,   \* extend_head of gbtable
    run,      \* continuous_tracks, num_phy_tracks and is_virtual of record_write
    sums,     \* what the record functions added to the report
    pc        \* the loop at hand

loopVars == <<fluid, batch, i, bc, work, extend, run, sums, pc>>

\* The k-th track of S has k tracks of S up to itself.
InOrder(S) == [k \in 1 .. Cardinality(S) |-> CHOOSE t \in S : Cardinality(UpTo(S, t)) = k]
BatchSet == {batch[k] : k \in 1 .. Len(batch)}

NewRun == [tracks |-> 1, own |-> 0, virtual |-> FALSE]

\* A band record batch_extend may find: its write head is in the band and,
\* in read-modify-write mode, above the first updated track and not below
\* the last.
BandChoice(b) ==
    {k \in [cmr : BOOLEAN, whp : TracksOf(b), rmw : BOOLEAN,
            start : TracksOf(b), end : TracksOf(b)] :
        /\ k.cmr => fluid /\ b \in CMRBands
        /\ IF k.rmw THEN k.start < k.whp /\ k.end <= k.whp
           ELSE k.start = BandHead(b) /\ k.end = BandHead(b)}

\* The tracks that may hold data under bands: none is above a write head,
\* but for those of a band in CMR mode.
Coverable(bands) ==
    {t \in Track : \E b \in Band : t \in TracksOf(b) /\ (t <= bands[b].whp \/ bands[b].cmr)}

LoopInit ==
    /\ fluid \in BOOLEAN
    /\ band \in {f \in [Band -> UNION {BandChoice(b) : b \in Band}] :
                    \A b \in Band : f[b] \in BandChoice(b)}
    /\ \E S \in (SUBSET Track) \ {{}} : \E holes \in SUBSET Coverable(band) :
          /\ fluid => Cardinality(S) <= FluidBatch
          /\ Cardinality(holes) <= IF fluid THEN FluidHoles ELSE Holes
          /\ batch = InOrder(S)
          /\ storage = [t \in Track |->
               IF t \in S \cup (Coverable(band) \ holes)
               THEN [status |-> "in_use", lba |-> t, count |-> 1]
               ELSE [status |-> "free", lba |-> 0, count |-> 0]]
    /\ ltp = [l \in Lba |->
               IF storage[l].status = "in_use"
               THEN [valid |-> TRUE, fid |-> CHOOSE f \in Fid : TRUE, pba |-> l]
               ELSE [valid |-> FALSE, fid |-> NoFid, pba |-> 0]]
    /\ report = [c \in Counter |-> 0] /\ ret = 0 /\ aborted = FALSE
    /\ work = band
    /\ i = 1 /\ bc = 0 /\ extend = <<>> /\ run = NewRun /\ pc = "tracks"
    /\ sums = [time |-> 0, own |-> 0, rewrite |-> 0, reread |-> 0]

\* The band record after one track of the batch.
Scan(k, t) ==
    IF k.rmw THEN [k EXCEPT !.end = t, !.whp = IF t >= @ THEN t ELSE @]
    ELSE IF t >= k.whp THEN [k EXCEPT !.whp = t]
    ELSE [k EXCEPT !.rmw = TRUE, !.start = t, !.end = t]

\* The loop over the batch, on one track.  The flag of the band is read by
\* batch_extend_fluidsmr alone, which goes on with the bands at once.
FaultyPassesOver(k) == FALSE
PassesOver(k) == fluid /\ k.cmr

ScanTrack ==
    /\ pc = "tracks" /\ i <= Len(batch)
    /\ LET b == batch[i] \div BandTracks
       IN  work' = IF PassesOver(work[b]) THEN work
                   ELSE [work EXCEPT ![b] = Scan(@, batch[i])]
    /\ extend' = Append(extend, [track |-> batch[i], virtual |-> FALSE])
    /\ i' = i + 1
    /\ bc' = 0
    /\ pc' = IF fluid \/ i = Len(batch) THEN "bands" ELSE "tracks"
    /\ UNCHANGED <<fluid, batch, run, sums, diskVars>>

Appended(S) == LET s == InOrder(S \cap {t \in Track : IsUsed(t)})
               IN  [k \in 1 .. Len(s) |-> [track |-> s[k], virtual |-> TRUE]]

\* The loop over the bands, on one band.
ExtendBand ==
    /\ pc = "bands" /\ bc < BandCount
    /\ extend' = IF ~ work[bc].rmw THEN extend
                 ELSE extend \o Appended(IF Build = "NATIVE_A"
                                         THEN BandHead(bc) .. work[bc].start - 1 ELSE {})
                             \o Appended(work[bc].end + 1 .. work[bc].whp)
    /\ bc' = bc + 1
    /\ UNCHANGED <<fluid, batch, i, work, run, sums, pc, diskVars>>

NextTrack == /\ pc = "bands" /\ bc = BandCount /\ i <= Len(batch)
             /\ pc' = "tracks"
             /\ UNCHANGED <<fluid, batch, i, bc, work, extend, run, sums, diskVars>>

StartRecord == /\ pc = "bands" /\ bc = BandCount /\ i > Len(batch)
               /\ pc' = "record" /\ i' = 1
               /\ UNCHANGED <<fluid, batch, bc, work, extend, run, sums, diskVars>>

\* record_write_virtual_tracks and record_write_physical_tracks on run r.
FaultyRecord(r) ==
    LET once == LSeek + r.tracks * LTrack
    IN  IF r.virtual
        THEN [time |-> sums.time + once + 2 * once,
              own |-> sums.own + r.own,
              rewrite |-> sums.rewrite + (r.tracks - r.own),
              reread |-> sums.reread + (r.tracks - r.own)]
        ELSE [sums EXCEPT !.time = @ + once, !.own = @ + r.tracks]
Record(r) ==
    LET once == LSeek + r.tracks * LTrack
    IN  IF r.virtual
        THEN [time |-> sums.time + once + 2 * once,
              own |-> sums.own + r.own,
              rewrite |-> sums.rewrite + (r.tracks - r.own),
              reread |-> sums.reread + r.tracks]
        ELSE [sums EXCEPT !.time = @ + once, !.own = @ + r.tracks]

\* One entry of the extended table: its run goes on or is recorded.
RecordEntry ==
    /\ pc = "record" /\ i <= Len(extend)
    /\ LET e == extend[i]
           r == [run EXCEPT !.virtual = @ \/ e.virtual,
                            !.own = IF e.virtual THEN @ ELSE @ + 1]
           continues == i < Len(extend) /\ e.track + 1 = extend[i + 1].track
       IN  \/ /\ continues
              /\ run' = [r EXCEPT !.tracks = @ + 1]
              /\ UNCHANGED sums
           \/ /\ ~ continues
              /\ sums' = Record(r)
              /\ run' = NewRun
    /\ i' = i + 1
    /\ UNCHANGED <<fluid, batch, bc, work, extend, pc, diskVars>>

LoopNext == ScanTrack \/ ExtendBand \/ NextTrack \/ StartRecord \/ RecordEntry

LoopSpec == LoopInit /\ [][LoopNext]_<<loopVars, diskVars>>

-----------------------------------------------------------------------------
Used == {t \in Track : IsUsed(t)}

Place(E, e) == 1 + Cardinality({g \in E : Before(g, e)})

TableOfDisk == IF fluid THEN FluidExtension(BatchSet, Used)
               ELSE Extension(BatchSet, work, Used)

\* The loops of batch_extend and of batch_extend_fluidsmr leave the band
\* array and the table, entry by entry in its order, that Disk states in
\* closed form; in the second, also the tails added anew after each track.
ExtendAgrees ==
    pc = "record" =>
        LET E == TableOfDisk
        IN  /\ work = IF fluid THEN FluidBandsAfter(BatchSet) ELSE BandsAfter(BatchSet)
            /\ Len(extend) = Cardinality(E)
            /\ \A e \in E : extend[Place(E, e)] = [track |-> e.track, virtual |-> IsVirtual(e)]

\* The loop of record_write charges the sums that Disk states on the table
\* as a set: one run at a time, with the flags it carries between entries.
RecordAgrees ==
    pc = "record" /\ i > Len(extend) =>
        LET E == TableOfDisk
        IN  sums = [time |-> Time(E), own |-> Own(E),
                    rewrite |-> Cardinality(Virtual(E)),
                    reread |-> Cardinality(InVirtualRun(E))]
=============================================================================
