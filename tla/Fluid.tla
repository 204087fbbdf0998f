------------------------------- MODULE Fluid -------------------------------
(***************************************************************************)
(* The extendable space of the FLUIDSMR build: fluidsmr_parsing_csv of     *)
(* main.c.  The disk is cut into zones of one band, used one after the     *)
(* other: CMR zones (hint 0) from the front of the disk, of whose tracks   *)
(* only the first CMRTracks are used, and SMR zones (hint 1) from its end. *)
(* A write fills the open zones of its hint and takes new ones; blocks     *)
(* that are recorded already are updated in place, or in a cache zone.     *)
(* When the blocks that remain do not suffice, the space is cleaned: three *)
(* CMR zones at a time become SMR zones and a cache zone is set up.  The   *)
(* disk is a store as FileStore describes it (DiskImplementsStore).        *)
(***************************************************************************)
EXTENDS Integers, FiniteSets, FiniteSetsExt, Sequences

CONSTANTS
    BandCount,     \* total_bands
    ZoneTracks,    \* FLUID_ZONE_TRACK_COUNT, 256 in the code
    CMRTracks,     \* FLUID_ZONE_CMR_TRACK_COUNT, 170 in the code
    ConvPercent,   \* the share of the zones to convert, 30 in the code
    CacheFloor,    \* the cache that must be left to convert back, 256
    Word,          \* 2^64: unsigned long wraps here
    Fid, NoFid,
    FileZero,      \* the file 0, as which converted tracks are formatted
    Lines,         \* the lines of the trace
    Leftovers,     \* blocks that an update list may name unset
    NumTraces      \* num_traces

ASSUME FluidSizesAssumption ==
    /\ BandCount \in Nat \ {0} /\ ZoneTracks \in Nat \ {0}
    /\ CMRTracks \in 1 .. ZoneTracks /\ ConvPercent \in 0 .. 100
    /\ CacheFloor \in Nat /\ NumTraces \in Nat
    /\ Word \in Nat /\ Word > BandCount * ZoneTracks
ASSUME FluidFilesAssumption == FileZero \in Fid /\ NoFid \notin Fid
ASSUME FluidLinesAssumption ==
    /\ Lines \subseteq [mode : {"read", "write", "delete"}, fid : Fid,
                        lba : Nat, n : Nat, hint : {0, 1}]
    /\ \A r \in Lines : r.lba + r.n < Word
    /\ Leftovers \subseteq Nat

VARIABLES
    home,          \* who holds each block of the disk
    zone,          \* extendable_zone
    used,          \* used_zone_count
    cmrBoundary, smrBoundary,   \* the bands of the next zones
    cmrBands,      \* the bands whose flagCMR is set
    remain,        \* block_remain
    cTotal, rTotal,             \* C_total and R_total
    cmrCount, smrCount,         \* cmr_count and smr_count
    job,           \* the request at hand
    scan,          \* the next zone, or slot, that its loop visits
    queue,         \* q_cmr and q_smr up to c_ptr and s_ptr
    rewrite,       \* the converted zones that are still to be rewritten
    rounds,        \* rounds of a conversion that are left
    pc, left

vars == <<home, zone, used, cmrBoundary, smrBoundary, cmrBands, remain,
          cTotal, rTotal, cmrCount, smrCount, job, scan, queue, rewrite, rounds, pc, left>>

MaxBlock == BandCount * ZoneTracks

DiskStore == INSTANCE FileStore
                 WITH owner <- home, ret <- 0, ReadRanges <- {}, WriteRanges <- {}

Zone == 0 .. BandCount - 1
Track == 0 .. ZoneTracks - 1

\* C_conv
ToConvert == (BandCount * ConvPercent) \div 100

Plus(a, b)  == (a + b) % Word
Minus(a, b) == (a - b) % Word

NoJob == [mode |-> "read", fid |-> NoFid, lba |-> 0, n |-> 0, hint |-> 0,
          rest |-> 0, next |-> 0, skip |-> {}]
NoQueue == [cmr |-> <<>>, smr |-> <<>>]

\* type 2 is a zone never used; its blocks and its LBA are not set yet.
Init ==
    /\ home = [l \in DiskStore!Lba |-> NoFid]
    /\ zone = [z \in Zone |->
                 [type |-> 2, nsw |-> 0, whp |-> 0, lba |-> 0, isFull |-> FALSE,
                  isCache |-> FALSE, sealed |-> FALSE,
                  blocks |-> [k \in Track |-> [fid |-> NoFid, lba |-> 0]]]]
    /\ used = 0 /\ cmrBoundary = 0 /\ smrBoundary = BandCount - 1 /\ cmrBands = {}
    /\ remain = MaxBlock /\ cTotal = 0 /\ rTotal = 0 /\ cmrCount = 0 /\ smrCount = 0
    /\ job = NoJob /\ scan = 0 /\ queue = NoQueue /\ rewrite = <<>> /\ rounds = 0
    /\ pc = "lines" /\ left = NumTraces

-----------------------------------------------------------------------------
(* What the zones record.                                                  *)

InUse == 0 .. used - 1

\* The tracks of a zone from the usable ones on are sealed, or none is.
Usable(z) == IF zone[z].sealed THEN CMRTracks ELSE ZoneTracks

\* The places where a zone in use records block b of the file.
Copies(fid, b) ==
    {c \in InUse \X Track : /\ c[2] < zone[c[1]].whp
                            /\ zone[c[1]].blocks[c[2]] = [fid |-> fid, lba |-> b]}

InCache(places) == {c \in places : zone[c[1]].isCache}

FirstOf(places) ==
    CHOOSE c \in places : \A d \in places :
        c[1] < d[1] \/ (c[1] = d[1] /\ c[2] <= d[2])

\* The i-th smallest of a set of numbers, counted from 0.
Nth(S, i) == CHOOSE b \in S : Cardinality({c \in S : c < b}) = i

\* The disk after a write of n blocks of a file at l.
Written(l, n, fid) ==
    [k \in DiskStore!Lba |->
        IF k \in DiskStore!Blocks(l, n) /\ home[k] \in {NoFid, fid} THEN fid ELSE home[k]]

-----------------------------------------------------------------------------
(* The lines of the trace.                                                 *)

Line == pc = "lines" /\ left > 0 /\ left' = left - 1

Job(r, skip) == [mode |-> r.mode, fid |-> r.fid, lba |-> r.lba, n |-> r.n,
                 hint |-> r.hint, rest |-> r.n, next |-> r.lba, skip |-> skip]

\* A read or a delete visits the zones in use.  Both only read the disk,
\* from the first track of a zone.
CountLine(r) ==
    /\ Line /\ r.mode \in {"read", "delete"}
    /\ job' = Job(r, {}) /\ scan' = 0 /\ pc' = "count"
    /\ UNCHANGED <<home, zone, used, cmrBoundary, smrBoundary, cmrBands, remain,
                   cTotal, rTotal, cmrCount, smrCount, queue, rewrite, rounds>>

\* A comment, or a line of an unknown mode.
OtherLine ==
    /\ Line
    /\ UNCHANGED <<home, zone, used, cmrBoundary, smrBoundary, cmrBands, remain,
                   cTotal, rTotal, cmrCount, smrCount, job, scan, queue, rewrite, rounds, pc>>

\* A line that sscanf does not match ends the program.
EndOfTrace ==
    /\ pc = "lines"
    /\ pc' \in {"done"} \cup (IF left > 0 THEN {"failed"} ELSE {})
    /\ UNCHANGED <<home, zone, used, cmrBoundary, smrBoundary, cmrBands, remain,
                   cTotal, rTotal, cmrCount, smrCount, job, scan, queue, rewrite, rounds, left>>

-----------------------------------------------------------------------------
(* Reads and deletes, zone by zone.                                        *)

\* The window of a read shrinks with the blocks it has found.
FaultyInWindow(b) == job.lba <= b /\ b < job.lba + job.n
InWindow(b) == job.lba <= b /\ b < Plus(job.lba, job.rest)

\* The slots of a zone that count; the loop stops at a sealed one.
Found(z) ==
    {k \in Track : /\ k < zone[z].whp /\ k < Usable(z)
                   /\ zone[z].blocks[k].fid = job.fid
                   /\ job.mode = "delete" \/ InWindow(zone[z].blocks[k].lba)}

Hits == {z \in scan .. used - 1 : Found(z) # {}}

CountZone ==
    /\ pc = "count" /\ Hits # {}
    /\ LET z == Min(Hits)
           rest == Minus(job.rest, Cardinality(Found(z)))
       IN  /\ job' = [job EXCEPT !.rest = rest]
           /\ zone' = IF job.mode = "delete"
                      THEN [zone EXCEPT ![z].isFull = FALSE] ELSE zone
           /\ scan' = IF rest = 0 THEN used ELSE z + 1
    /\ UNCHANGED <<home, used, cmrBoundary, smrBoundary, cmrBands, remain, cTotal,
                   rTotal, cmrCount, smrCount, queue, rewrite, rounds, pc, left>>

EndCount ==
    /\ pc = "count" /\ Hits = {}
    /\ pc' = "lines" /\ job' = NoJob /\ scan' = 0
    /\ UNCHANGED <<home, zone, used, cmrBoundary, smrBoundary, cmrBands, remain,
                   cTotal, rTotal, cmrCount, smrCount, queue, rewrite, rounds, left>>

-----------------------------------------------------------------------------
(* A write: the search for a block to update, which stops at the first     *)
(* block that it finds.                                                    *)

\* The cache zones that take an update of a block of an SMR zone: all.
OpenCaches == {z \in InUse : zone[z].isCache /\ ~ zone[z].isFull}

InPlace(at) == \/ zone[at[1]].isCache
               \/ zone[at[1]].type = 0
               \/ cTotal < 1

UpdateInPlace(at, fid) ==
    /\ home' = Written(zone[at[1]].lba + at[2], 1, fid)
    /\ UNCHANGED <<zone, cTotal>>

Appended(z, fid, b) ==
    [zone[z] EXCEPT !.blocks = [@ EXCEPT ![zone[z].whp] = [fid |-> fid, lba |-> b]],
                    !.whp = @ + 1,
                    !.isFull = zone[z].whp + 1 >= CMRTracks]

UpdateInCaches(fid, b) ==
    /\ zone' = [z \in Zone |-> IF z \in OpenCaches THEN Appended(z, fid, b) ELSE zone[z]]
    /\ home' = LET at == {zone[z].lba + zone[z].whp : z \in OpenCaches}
               IN  DiskStore!Passed({l \in at : home[l] \in {NoFid, fid}}, fid)
    /\ cTotal' = Minus(cTotal, Cardinality(OpenCaches))

\* A cache zone whose isFull a delete has cleared may be written past its end;
\* what the program does from there on is undefined.
PastEnd == \E z \in OpenCaches : zone[z].whp = ZoneTracks

\* The copy that the search meets first: those in cache zones come first.
CopyToUpdate(fid, b) ==
    LET all == Copies(fid, b)
    IN  FirstOf(IF InCache(all) # {} THEN InCache(all) ELSE all)

Update(fid, b) ==
    LET at == CopyToUpdate(fid, b)
    IN  IF InPlace(at) THEN UpdateInPlace(at, fid) ELSE UpdateInCaches(fid, b)

Known(r) == {b \in r.lba .. r.lba + r.n - 1 : Copies(r.fid, b) # {}}

\* Nothing to update: the list is not set, and may name blocks by chance.
FreshLine(r) ==
    /\ Known(r) = {}
    /\ \E skip \in SUBSET (Leftovers \cap r.lba .. r.lba + r.n - 1) : job' = Job(r, skip)
    /\ UNCHANGED <<home, zone, cTotal>>
    /\ pc' = IF remain < r.n THEN "queue" ELSE "place"

UpdateLine(r) ==
    /\ Known(r) # {}
    /\ job' = Job(r, {Min(Known(r))})
    /\ IF PastEnd /\ ~ InPlace(CopyToUpdate(r.fid, Min(Known(r))))
       THEN pc' = "undefined" /\ UNCHANGED <<home, zone, cTotal>>
       ELSE /\ Update(r.fid, Min(Known(r)))
            /\ pc' = IF remain < r.n THEN "queue" ELSE "place"

WriteLine(r) ==
    /\ Line /\ r.mode = "write"
    /\ FreshLine(r) \/ UpdateLine(r)
    /\ scan' = 0
    /\ UNCHANGED <<used, cmrBoundary, smrBoundary, cmrBands, remain,
                   rTotal, cmrCount, smrCount, queue, rewrite, rounds>>

-----------------------------------------------------------------------------
(* A write: cleaning the space.                                            *)

Queued(S) == {z \in InUse : ~ zone[z].isCache /\ zone[z].type \in S}
InOrder(S) == [i \in 1 .. Cardinality(S) |-> Nth(S, i - 1)]

NswOf(S) == MapThenSumSet(LAMBDA z : zone[z].nsw, S)

\* The queues are read up to cmr_count and smr_count: if these are not their
\* lengths, beyond what was set in them.
BuildQueues ==
    /\ pc = "queue"
    /\ rTotal' = Plus(rTotal, NswOf(Queued({0, 1})))
    /\ queue' = [cmr |-> InOrder(Queued({0})), smr |-> InOrder(Queued({1}))]
    /\ pc' = CASE rTotal' <= cTotal -> "place"
               [] rTotal' > cTotal /\ cmrCount = Len(queue'.cmr)
                                   /\ smrCount = Len(queue'.smr) -> "swap"
               [] OTHER -> "undefined"
    /\ UNCHANGED <<home, zone, used, cmrBoundary, smrBoundary, cmrBands, remain,
                   cTotal, cmrCount, smrCount, job, scan, rewrite, rounds, left>>

\* A queue without its last zone of the least (or the greatest) NSW, whose
\* place the last zone of the queue takes.
FaultyPopped(q, i) == q
Popped(q, i) == [j \in 1 .. Len(q) - 1 |-> IF j = i THEN q[Len(q)] ELSE q[j]]
Least(q)    == Max({i \in DOMAIN q : \A j \in DOMAIN q : zone[q[i]].nsw <= zone[q[j]].nsw})
Greatest(q) == Max({i \in DOMAIN q : \A j \in DOMAIN q : zone[q[i]].nsw >= zone[q[j]].nsw})

\* The bubble sorts; sign * NSW falls along the queue, and equals stay in order.
Sorted(q, sign) ==
    LET key(z) == sign * zone[z].nsw
        rank(i) == Cardinality({j \in DOMAIN q :
                       key(q[j]) > key(q[i]) \/ (key(q[j]) = key(q[i]) /\ j <= i)})
    IN  [k \in DOMAIN q |-> q[CHOOSE i \in DOMAIN q : rank(i) = k]]

Unwritten(z) == zone[z].whp = 0

\* The loop takes a zone from each queue and divides by their write heads.
\* As no zone has an NSW above its write head, it then always breaks.
ZoneSwapping ==
    /\ pc = "swap" /\ queue.cmr # <<>> /\ queue.smr # <<>>
    /\ LET c == Least(queue.cmr)
           s == Greatest(queue.smr)
       IN  /\ queue' = [cmr |-> Popped(queue.cmr, c), smr |-> Popped(queue.smr, s)]
           /\ pc' = IF Unwritten(queue.cmr[c]) \/ Unwritten(queue.smr[s])
                    THEN "trapped" ELSE "sort"
    /\ UNCHANGED <<home, zone, used, cmrBoundary, smrBoundary, cmrBands, remain,
                   cTotal, rTotal, cmrCount, smrCount, job, scan, rewrite, rounds, left>>

\* An empty queue ends the loop.
NothingToSwap ==
    /\ pc = "swap" /\ (queue.cmr = <<>> \/ queue.smr = <<>>)
    /\ pc' = "sort"
    /\ UNCHANGED <<home, zone, used, cmrBoundary, smrBoundary, cmrBands, remain, cTotal,
                   rTotal, cmrCount, smrCount, job, scan, queue, rewrite, rounds, left>>

\* Sorting an empty queue goes past its end.
SortCMR ==
    /\ pc = "sort"
    /\ queue' = [queue EXCEPT !.cmr = Sorted(@, 1)]
    /\ pc' = IF queue.cmr = <<>> THEN "undefined" ELSE "convert"
    /\ UNCHANGED <<home, zone, used, cmrBoundary, smrBoundary, cmrBands, remain,
                   cTotal, rTotal, cmrCount, smrCount, job, scan, rewrite, rounds, left>>

Needed(q) == Len(q) > ToConvert /\ cTotal < rTotal

\* The mean over the last zones of a queue divides by their write heads and by
\* their number; it is never above 3.
MeanTraps(q) ==
    \/ ToConvert = 0
    \/ \E i \in Len(q) - ToConvert .. Len(q) : Unwritten(q[i])

\* With fewer than three zones to convert a round changes nothing.
StartConversion ==
    /\ pc = "convert" /\ Needed(queue.cmr)
    /\ pc' = CASE MeanTraps(queue.cmr) -> "trapped"
               [] ~ MeanTraps(queue.cmr) /\ ToConvert < 3 -> "endless"
               [] OTHER -> "round"
    /\ rounds' = ToConvert \div 3
    /\ UNCHANGED <<home, zone, used, cmrBoundary, smrBoundary, cmrBands, remain,
                   cTotal, rTotal, cmrCount, smrCount, job, scan, queue, rewrite, left>>

\* The three zones that a round takes from the end of the queue.
Group == [i \in 1 .. 3 |-> queue.cmr[Len(queue.cmr) + 1 - i]]
Grouped == {Group[i] : i \in 1 .. 3}

Content(z) == [k \in 1 .. zone[z].whp |-> zone[z].blocks[k - 1]]
Moved == Content(Group[1]) \o Content(Group[2]) \o Content(Group[3])

\* The three zones afterwards: the blocks are poured from zone to zone, and
\* what is behind a new write head stays in its slot.
FaultyPouredBefore(i) == (i - 1) * CMRTracks
PouredBefore(i) == (i - 1) * ZoneTracks
NewHead(i) == Min({ZoneTracks, Max({0, Len(Moved) - PouredBefore(i)})})
Converted ==
    LET moved == Moved
    IN  [i \in 1 .. 3 |->
           [zone[Group[i]] EXCEPT
               !.type = 1, !.isFull = FALSE, !.nsw = 0, !.sealed = FALSE,
               !.whp = NewHead(i),
               !.blocks = [k \in Track |-> IF k < NewHead(i)
                                           THEN moved[PouredBefore(i) + k + 1] ELSE @[k]]]]

\* The cache zone; used_zone_count is not raised, so the entry is used again.
CacheZone ==
    [zone[used] EXCEPT !.type = 0, !.isCache = TRUE, !.sealed = TRUE,
                       !.lba = cmrBoundary * ZoneTracks]

\* The files of the three zones and file 0, as which their tracks are written
\* and removed, lose all their blocks, wherever these are.
Cleared ==
    LET files == {FileZero} \cup {Moved[j].fid : j \in DOMAIN Moved}
    IN  DiskStore!Passed({l \in DiskStore!Lba : home[l] \in files}, NoFid)

\* Behind the last zone or the last band, the arrays are written past their end.
NoSpace == used = BandCount \/ cmrBoundary >= BandCount

RoundUndefined ==
    /\ pc = "round" /\ NoSpace
    /\ pc' = "undefined"
    /\ UNCHANGED <<home, zone, used, cmrBoundary, smrBoundary, cmrBands, remain,
                   cTotal, rTotal, cmrCount, smrCount, job, scan, queue, rewrite, rounds, left>>

ConvertRound ==
    /\ pc = "round" /\ ~ NoSpace
    /\ rTotal' = Minus(rTotal, NswOf(Grouped))
    /\ LET after == Converted
       IN  zone' = [z \in Zone |-> IF z \in Grouped
                                 THEN after[CHOOSE i \in 1 .. 3 : Group[i] = z]
                                 ELSE IF z = used THEN CacheZone ELSE zone[z]]
    /\ home' = Cleared
    /\ remain' = Plus(remain, Len(Moved) + 2 * (ZoneTracks - CMRTracks))
    /\ cmrBands' = (cmrBands \ {zone[z].lba \div ZoneTracks : z \in Grouped})
                      \cup {cmrBoundary}
    /\ cmrBoundary' = cmrBoundary + 1
    /\ cmrCount' = cmrCount - 2 /\ smrCount' = smrCount + 3
    /\ cTotal' = Plus(cTotal, CMRTracks)
    /\ queue' = [queue EXCEPT !.cmr = SubSeq(@, 1, Len(@) - 3)]
    /\ rounds' = rounds - 1
    /\ rewrite' = Group
    /\ pc' = "rewrite"
    /\ UNCHANGED <<used, smrBoundary, job, scan, left>>

\* The blocks of one file from slot scan on; a zone without blocks has a run of
\* one, of what is in its slot 0.
Extent(z) == Max({1, zone[z].whp})
RunEnd(z) == Min({Extent(z)} \cup
                 {k \in scan + 1 .. Extent(z) - 1 : zone[z].blocks[k].fid # zone[z].blocks[scan].fid})

\* A run is written, its file removed, wherever its blocks are, and the run
\* written again.
Rewritten(l, n, fid) ==
    [k \in DiskStore!Lba |->
        IF k \in DiskStore!Blocks(l, n) /\ home[k] \in {NoFid, fid} THEN fid
        ELSE IF home[k] = fid THEN NoFid ELSE home[k]]

\* block_remain pays for the last run of each zone only.
RewriteRun ==
    /\ pc = "rewrite"
    /\ LET z == Head(rewrite)
           n == RunEnd(z) - scan
           last == RunEnd(z) = Extent(z)
       IN  /\ home' = Rewritten(zone[z].lba + scan, n, zone[z].blocks[scan].fid)
           /\ remain' = IF last THEN Minus(remain, n) ELSE remain
           /\ scan' = IF last THEN 0 ELSE RunEnd(z)
           /\ rewrite' = IF last THEN Tail(rewrite) ELSE rewrite
           /\ pc' = IF ~ last \/ Len(rewrite) > 1 THEN "rewrite"
                    ELSE IF rounds = 0 THEN "convert" ELSE "round"
    /\ UNCHANGED <<zone, used, cmrBoundary, smrBoundary, cmrBands, cTotal, rTotal,
                   cmrCount, smrCount, job, queue, rounds, left>>

\* Then the other queue is sorted.
EndConversion ==
    /\ pc = "convert" /\ ~ Needed(queue.cmr)
    /\ queue' = [queue EXCEPT !.smr = Sorted(@, -1)]
    /\ pc' = IF queue.smr = <<>> THEN "undefined" ELSE "back"
    /\ UNCHANGED <<home, zone, used, cmrBoundary, smrBoundary, cmrBands, remain,
                   cTotal, rTotal, cmrCount, smrCount, job, scan, rewrite, rounds, left>>

\* Converting SMR zones to CMR needs a cache zone in use to clean, and there is
\* none in the first cleaning that comes here: only R_total is lowered.
Back == {queue.smr[Len(queue.smr)], queue.smr[Len(queue.smr) - 1]}

ConvertBack ==
    /\ pc = "back" /\ Needed(queue.smr)
    /\ pc' = CASE MeanTraps(queue.smr) -> "trapped"
               [] ~ MeanTraps(queue.smr)
                    /\ (ToConvert < 2 \/ cTotal < CacheFloor \/ NswOf(Back) = 0) -> "endless"
               [] OTHER -> "back"
    /\ rTotal' = IF pc' = "back" THEN Minus(rTotal, NswOf(Back)) ELSE rTotal
    /\ UNCHANGED <<home, zone, used, cmrBoundary, smrBoundary, cmrBands, remain,
                   cTotal, cmrCount, smrCount, job, scan, queue, rewrite, rounds, left>>

EndCleaning ==
    /\ pc = "back" /\ ~ Needed(queue.smr)
    /\ pc' = "place" /\ queue' = NoQueue
    /\ UNCHANGED <<home, zone, used, cmrBoundary, smrBoundary, cmrBands, remain,
                   cTotal, rTotal, cmrCount, smrCount, job, scan, rewrite, rounds, left>>

-----------------------------------------------------------------------------
(* A write: placing its blocks.                                            *)

FaultyTodo == (job.next + 1 .. job.lba + job.n - 1) \ job.skip
Todo == (job.next .. job.lba + job.n - 1) \ job.skip

\* The blocks placed when a zone is left for block next of the request.
Placed(next) == {b \in Todo : b < next}

More == job.next < job.lba + job.n
Last(next) == next = job.lba + job.n

\* A zone with room for k blocks is left right behind the k-th one, so that
\* blocks to skip that follow are met by the next zone, or at the end.
FaultyLeavesAt(next, k) == Last(next) \/ Cardinality(Placed(next)) = k + 1
LeavesAt(next, k) ==
    LET c == Cardinality(Placed(next))
    IN  \/ c = k /\ (k = 0 => next = job.next) /\ (k > 0 => next - 1 \in Todo)
        \/ c < k /\ Last(next)

\* A zone from slot at on.
Filled(z, at, placed) ==
    [z EXCEPT !.blocks = [s \in Track |->
                            IF s - at \in 0 .. Cardinality(placed) - 1
                            THEN [fid |-> job.fid, lba |-> Nth(placed, s - at)] ELSE @[s]],
              !.whp = at + Cardinality(placed)]

Candidates == {z \in scan .. used - 1 : /\ ~ zone[z].isCache /\ ~ zone[z].isFull
                                        /\ zone[z].type = job.hint}

\* The loop finds a CMR zone full when it comes to a sealed track with blocks
\* left, any other when it has filled the last one.
FullAfter(z, placed, next) ==
    IF Usable(z) < ZoneTracks
    THEN zone[z].whp + Cardinality(placed) = Usable(z) /\ ~ Last(next)
    ELSE zone[z].whp < ZoneTracks /\ zone[z].whp + Cardinality(placed) = ZoneTracks

PutInZone(z, placed, next) ==
    /\ zone' = [zone EXCEPT ![z] = [Filled(zone[z], zone[z].whp, placed) EXCEPT
                                       !.nsw = @ + Cardinality(placed),
                                       !.isFull = FullAfter(z, placed, next)]]
    /\ home' = Written(zone[z].lba + zone[z].whp, Cardinality(placed), job.fid)
    /\ remain' = Minus(remain, Cardinality(placed))
    /\ job' = [job EXCEPT !.next = next]
    /\ scan' = z + 1

PlaceInZone ==
    /\ pc = "place" /\ More /\ Candidates # {}
    /\ \E next \in job.next .. job.lba + job.n :
          /\ LeavesAt(next, Usable(Min(Candidates)) - zone[Min(Candidates)].whp)
          /\ PutInZone(Min(Candidates), Placed(next), next)
    /\ UNCHANGED <<used, cmrBoundary, smrBoundary, cmrBands, cTotal, rTotal,
                   cmrCount, smrCount, queue, rewrite, rounds, pc, left>>

FaultySealedTail(hint) == 0
SealedTail(hint) == IF hint = 0 THEN ZoneTracks - CMRTracks ELSE 0

FaultyBoundary(hint) == cmrBoundary
Boundary(hint) == IF hint = 0 THEN cmrBoundary ELSE smrBoundary

RoomOf(hint) == IF hint = 0 THEN CMRTracks ELSE ZoneTracks

\* A zone taken into use; isCache is not cleared.
PutInNewZone(hint, placed, next) ==
    /\ zone' = [zone EXCEPT ![used] = [Filled(zone[used], 0, placed) EXCEPT
                   !.type = hint, !.sealed = (hint = 0), !.lba = Boundary(hint) * ZoneTracks,
                   !.isFull = @ \/ Cardinality(placed) = RoomOf(hint)]]
    /\ home' = Written(Boundary(hint) * ZoneTracks + zone[used].whp,
                       Cardinality(placed), job.fid)
    /\ remain' = Minus(remain, Cardinality(placed) + SealedTail(hint))
    /\ cmrBands' = IF hint = 0 THEN cmrBands \cup {Boundary(hint)}
                   ELSE cmrBands \ {Boundary(hint)}
    /\ job' = [job EXCEPT !.next = next]

AllocateZone ==
    /\ pc = "place" /\ More /\ Candidates = {} /\ used < BandCount
    /\ \E next \in job.next .. job.lba + job.n :
          /\ LeavesAt(next, RoomOf(job.hint))
          /\ PutInNewZone(job.hint, Placed(next), next)
    /\ cmrBoundary' = cmrBoundary + (1 - job.hint)
    /\ smrBoundary' = smrBoundary - job.hint
    /\ cmrCount' = cmrCount + (1 - job.hint)
    /\ smrCount' = smrCount + job.hint
    /\ used' = used + 1 /\ scan' = used + 1
    /\ pc' = IF job.hint = 0 /\ cmrBoundary >= BandCount THEN "undefined" ELSE "place"
    /\ UNCHANGED <<cTotal, rTotal, queue, rewrite, rounds, left>>

\* What is left of the request when there is no zone left is dropped.
EndWrite ==
    /\ pc = "place" /\ (More => Candidates = {} /\ used = BandCount)
    /\ pc' = "lines" /\ job' = NoJob /\ scan' = 0
    /\ UNCHANGED <<home, zone, used, cmrBoundary, smrBoundary, cmrBands, remain,
                   cTotal, rTotal, cmrCount, smrCount, queue, rewrite, rounds, left>>

-----------------------------------------------------------------------------
Step == \/ CountZone \/ EndCount
        \/ BuildQueues \/ ZoneSwapping \/ NothingToSwap \/ SortCMR
        \/ StartConversion \/ RoundUndefined \/ ConvertRound \/ RewriteRun
        \/ EndConversion
        \/ ConvertBack \/ EndCleaning
        \/ PlaceInZone \/ AllocateZone \/ EndWrite

Next == \/ \E r \in Lines : CountLine(r) \/ WriteLine(r)
        \/ OtherLine
        \/ EndOfTrace
        \/ Step

Spec == Init /\ [][Next]_vars

\* The parser is one thread, which goes on with the request at hand.
FairSpec == Spec /\ WF_vars(Step)

-----------------------------------------------------------------------------
Owner == Fid \cup {NoFid}

\* Types.  No zone has an NSW above its write head, so that the test of zone
\* swapping never passes; and no cache zone is in use when SMR zones are to be
\* converted, so that they never are.
FluidTypeOK ==
    /\ home \in [DiskStore!Lba -> Owner]
    /\ zone \in [Zone -> [type : 0 .. 2, nsw : Nat, whp : 0 .. ZoneTracks, lba : Nat,
                          isFull : BOOLEAN, isCache : BOOLEAN, sealed : BOOLEAN,
                          blocks : [Track -> [fid : Owner, lba : Nat]]]]
    /\ used \in 0 .. BandCount
    /\ scan \in IF pc = "rewrite" THEN Track ELSE 0 .. BandCount
    /\ cmrBoundary \in 0 .. BandCount + 1 /\ smrBoundary \in -1 .. BandCount - 1
    /\ {remain, cTotal, rTotal, job.rest} \subseteq 0 .. Word - 1
    /\ cmrCount \in Nat /\ smrCount \in Nat
    /\ \A z \in InUse : ~ zone[z].isCache => zone[z].nsw <= zone[z].whp
    /\ pc = "back" => \A z \in InUse : ~ zone[z].isCache

\* No conversion yet.
Unconverted == \A z \in Zone : ~ zone[z].isCache

\* The blocks that the zones record, each as often as it is recorded.
Heads == MapThenSumSet(LAMBDA z : zone[z].whp, InUse)

\* The zones, CMR ones growing from one end of the disk and SMR ones from the
\* other, never share a track, and the disk is what they record: up to the
\* first conversion a block is held by a file exactly where a slot of a zone,
\* before its write head, records a block of the file.  The bands whose flag
\* keeps batch_extend_fluidsmr away are those of the CMR zones.
RecordsOnDisk ==
    Unconverted =>
        /\ \A z \in InUse : \A k \in 0 .. zone[z].whp - 1 :
              home[zone[z].lba + k] = zone[z].blocks[k].fid
        /\ Cardinality({l \in DiskStore!Lba : home[l] # NoFid}) = Heads
        /\ cmrBands = {zone[z].lba \div ZoneTracks : z \in {y \in InUse : zone[y].type = 0}}

\* block_remain, which decides when the space is cleaned, is what the disk has
\* free outside of the tracks that CMR zones cannot use, up to the first
\* conversion.
RemainIsFree ==
    Unconverted =>
        remain = Cardinality({l \in DiskStore!Lba : home[l] = NoFid})
                   - (ZoneTracks - CMRTracks) * Cardinality(Queued({0}))

\* When a write ends, through filled zones, new zones and a cleaning, each of
\* its blocks is recorded in a zone or was to be skipped; blocks are dropped
\* only behind the last zone, with no track left in the zones of the hint.
PlacedOrDropped ==
    [][EndWrite =>
         \A b \in job.lba .. job.lba + job.n - 1 :
            \/ Copies(job.fid, b) # {}
            \/ b \in job.skip
            \/ /\ b >= job.next /\ used = BandCount
               /\ \A z \in Queued({job.hint}) : zone[z].whp = Usable(z)]_vars

\* The unsigned count of a read passes zero only at a zone that records a block
\* of the request twice: as the window shrinks with the count, copies in several
\* zones do not make it wrap.
CountsWithinRequest ==
    [][CountZone /\ job.mode = "read" /\ job'.rest > job.rest =>
         \E k, m \in Found(Min(Hits)) :
            k # m /\ zone[Min(Hits)].blocks[k] = zone[Min(Hits)].blocks[m]]_vars

Recorded == UNION {{zone[z].blocks[k] : k \in 0 .. zone[z].whp - 1} : z \in InUse}

\* Pouring the blocks of three CMR zones into their SMR successors loses and
\* doubles no record, although the last successor stays empty.
ConversionKeepsRecords ==
    [][ConvertRound /\ ~ NoSpace =>
         /\ Recorded' = Recorded /\ Heads' = Heads
         /\ \A r \in Recorded :
               Cardinality(Copies(r.fid, r.lba)') = Cardinality(Copies(r.fid, r.lba))]_vars

\* The first cleaning, with a zone left for the cache and bands for one cache
\* zone per round, no zone unwritten, two CMR zones or more, and at least two
\* SMR zones but not more than are converted at a time and one.
Cleanable ==
    /\ Unconverted /\ ToConvert >= 3
    /\ used < BandCount /\ cmrBoundary + cmrCount \div 3 <= BandCount
    /\ \A z \in InUse : ~ Unwritten(z)
    /\ cmrCount >= 2 /\ smrCount \in 2 .. ToConvert + 1

\* On these spaces a cleaning comes back to the write: no division by zero, no
\* access past a queue, no loop that converts nothing.
CleaningEnds == (pc = "queue" /\ Cleanable) ~> pc = "place"

=============================================================================
