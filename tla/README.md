# A TLA+ model of the SMR disk simulator

The repository is a simulator of shingled magnetic recording (SMR) disks. It
reads a trace of reads, writes and deletes, sends each request through a model
of a disk, and at the end prints how many blocks were read, written and
rewritten and how much time that took. There is one binary per disk layout,
chosen by a preprocessor symbol: `CMR`, `NATIVE_A`, `NATIVE_B`, `HYBRID`,
`FLUIDSMR` (see `makefile`). The program is a single thread and keeps nothing
between two runs, so what is hard about it is neither concurrency nor recovery.
It is long histories: the effect of a request depends on flags, write heads and
back pointers left by all earlier requests, several layers keep the same fact
in different forms, and the numbers that come out are the product of the
program and are not looked at by any test (the repository has none).

Paths below are relative to the root of the repository.

## 1. Inventory

### Components

| Component | Code | State | Operations |
|---|---|---|---|
| lba layer | `src/lba.c` | `ltp_table_head->table` (per block: valid, fid, pba), `report` | `lba_read`, `lba_write`, `lba_delete`, `init_disk`, `end_disk` |
| pba and chs layers | `src/pba.c`, `src/chs.c` | `storage` (per track: status, back pointer to the lba, access count) | `pba_search`, `pba_read/write/delete`, `chs_write`, `chs_delete` |
| batch layer | `src/batch.c` | `gbtable` (the tracks of the request, and the table after extension) | `batch_add`, `batch_extend`, `batch_read/write/delete` |
| bands | `src/band.c` | `band[]`: write head, `flagRMW`, `RMW_start`, `RMW_end` | `init_band_table` |
| accounting | `src/record_op.c` | counters of `struct report` | `record_read/write/delete` (one variant for CMR, one for shingled disks) |
| trace reader | `main.c` 23-113, 380-444, 2261-2400 | `num_traces`, instruction counters | `parsing_csv`, `parsing_postmark`, `start_parsing` |
| hybrid journaling | `main.c` 684-960, `src/Hybrid.c` | `hybrid_zone[]`, `journaling_zone_count`, the ring `size_record` | `hybrid_parsing_csv`, `determine_commit_type`, `do_checkpoint` |
| write cache | `main.c` 115-378, 446-682, `src/cache.c` | `cache_buffer[]` (per slot: in use, disk address, fid, request), `cachePointer`, `diskAddress[]`, `total_traces`; the contents of a second disk, the cache | `parsing_csv_cache`, `parsing_postmark_cache` |
| FluidSMR space | `main.c` 1258-2259, `batch_extend_fluidsmr` (`src/FluidSMR.c` holds comments only) | `extendable_zone[]` (per zone: type, write head, NSW, block records, flags), `used_zone_count`, `cmr_boundary`, `smr_boundary`, `block_remain`, `C_total`, `R_total`, `cmr_count`, `smr_count`, the queues of a cleaning | `fluidsmr_parsing_csv`: count reads and deletes, update, place, clean (zone swapping, conversion of CMR zones and back) |
| journal area | `src/journaling.c` | — | initialisers nobody uses, not even compiled |
| block copy | `src/rw.c` | — | `rw_block`, without a caller |
| report output | `src/output.c` | — | prints the disk |
| list, fid table | `include/list.h`, `include/fid_table.h` | — | generic or unused |

### How they interact

Everything is a synchronous call in one thread:

    trace line -> parser -> lba_*      checks range and owner, links block and track
                              batch_add            collects tracks in gbtable
                              batch_*              sorts, extends, updates band[]
                                pba_* -> chs_*     status of tracks, ltp entries on delete
                                record_*           charges report

Two global objects make the calls depend on one another: `gbtable`, which each
request fills and the end of the batch clears, and `band[]`, which is written
by `batch_extend` and outlives the request. The HYBRID parser sits above the
same disk and makes many disk requests out of one line of the trace: it commits
a write to *journaling zones* (bands at the front of the disk) and, when those
are used up, runs `do_checkpoint`, which reads and writes every journalled block
at its own address. The FLUIDSMR parser keeps its zones above the disk as well,
writes blocks to the tracks of zones instead of their own addresses, and once it runs out of
room rebuilds zones under the feet of the request at hand. The cache parsers sit beside it
and drive two disks, a small CMR disk whose tracks are the blocks of the buffer,
and the disk proper.

### What is hard, and what makes each component correct

* **Mapping.** `lba_write` sets the table entry (through `pba_search`) and the
  back pointer, `chs_write` the status, and `chs_delete` finds the entry to
  invalidate through the back pointer and calls `exit` when it is invalid
  already. Correct: after every request table and back pointers are inverse to
  each other, and no sequence of requests reaches that `exit`.
* **Ownership.** A request may be partly refused. Correct: the disk behaves like
  a set of blocks each held by at most one file; the answer counts what was
  served; a delete frees exactly its file.
* **Shingling.** Overwriting a track destroys those that follow it in its band,
  so they have to be read before and written again after. `batch_extend` finds
  them with a write head and a *read-modify-write* mode that a band enters once
  and never leaves, over stale start and end tracks. Correct: the write head
  is at or beyond all data of its band; an update charges at least every track with
  data behind the last one it writes in a band; in NATIVE_B it charges none twice and none of its own.
* **Accounting.** `record_*` cuts the extended table into runs, carrying flags
  from entry to entry, while `pba_*` counts the batch. Correct: both agree, the
  times add up, and what is rewritten was reread.
* **Trace reader.** Byte ranges become block ranges through the alignment of
  both ends. Correct: exactly the blocks that hold a byte of the range. In
  postmark traces the run must stop at the first request not served in full.
* **Hybrid journaling.** The zones, their write heads, their sealed tracks, the
  count of zones and the disk below are updated in different loops. Correct:
  the journal is where commit and checkpoint look for it, no zone is written
  beyond its capacity, a commit that is interrupted by checkpoints forgets no
  block (it is journalled, or was to be written home), and every commit ends.
* **Hot or cold.** The ring of request sizes is filled once and then slides.
  Correct: its running sum is that of the last window, and the answer compares
  with the mean before the request.
* **Write cache.** A request larger than what is left of the buffer is split, and
  the buffer flushed in the middle of it; the flush finds the requests again in
  the slots by comparing the numbers of neighbours. Correct: the slots
  in use are in the order of their requests; no block of a write is lost or
  written twice; nothing is written that no write asked for; the cache disk is
  the image of the buffer; and the loop of a write ends.
* **FluidSMR.** Where a block is depends on every request before it: zones of two kinds
  grow towards each other, a write fills whatever zones are open, an update goes to the copy or
  to a cache zone, and a cleaning pours the blocks of three zones into their successors. Three
  counts (`block_remain`, `C_total` and `R_total`, `cmr_count` and `smr_count`) are kept
  beside the zones in other places, are unsigned, and decide when to clean and which loop
  goes on. Correct: the disk is what the zones record, `block_remain` is what is free, a
  write places each of its blocks or drops it only when there is no zone left, a conversion
  loses no record, and a cleaning comes to an end.

`PROJECT.json` lists each hazard at its line with the properties that cover it. A
`note` says what of a hazard no property covers.

## 2. Modules

| Module | Models | Role |
|---|---|---|
| `FileStore` | the contract of `struct disk_operations` | abstract specification: who holds each block, and the answer to a request |
| `Disk` | lba, pba, chs, batch, band, record_op | state and operations of the disk, for the CMR, NATIVE_A, NATIVE_B, HYBRID and FLUIDSMR builds; its properties |
| `Simulator` | `parsing_csv`, `parsing_postmark` | complete specification: a trace drives the disk; refinement of `FileStore` |
| `BatchLoops` | the loops of `batch_extend`, `batch_extend_fluidsmr` and `record_write` | one step per iteration; shown to compute what `Disk` states in closed form |
| `TraceUnits` | the conversion at the head of every csv parser | bytes to blocks |
| `CommitType`, `CommitHistory` | `determine_commit_type` | the ring; and lines of a trace that go through the conversion into the ring, beside the plain history of its inputs |
| `Hybrid` | `hybrid_parsing_csv`, `do_checkpoint` | composes `Disk` and `CommitType` |
| `Cache` | `parsing_csv_cache`, `parsing_postmark_cache` | the write-back cache over two instances of `FileStore` |
| `CacheHistory` | — | `Cache` with a history of what each write asked for and what became of its blocks |
| `Fluid` | `fluidsmr_parsing_csv` | the extendable space over an instance of `FileStore` |
| `SetLemmas` | — | lemmas: least and greatest elements, sizes of sets |
| `DiskProofs`, `SimulatorProofs` | — | lemmas about the disk; theorems about the whole simulator and its report |
| `BatchProofs` | — | theorems that the loops of the batch and record layers compute the closed forms of `Disk` |
| `CommitProofs`, `HybridProofs` | — | theorems about byte ranges, the ring and the journal |
| `CacheProofs`, `FluidProofs` | — | theorems about the write cache and the FluidSMR space |
| `MCSimulator`, `MCCommit`, `MCHybrid`, `MCCache`, `MCFluid` | — | values of the constants for TLC |

### Correspondence with the code

**Disk.** A disk is `BandCount` bands (twice the size in GiB given by `-s`) of
`BandTracks` tracks (`band_track_count`, 256), and a track holds exactly one
block. `storage`, `ltp`, `band` and `report` are the arrays and the record of the
same names; sizes are counted in tracks, not bytes, so every counter is the
code's divided by the track size. `ret` is the value the operation returns and
`aborted` says that an `exit` or `assert` of the disk layer was reached.
`LbaRead`, `LbaWrite` and `LbaDelete` are one action per entry of
`disk_operations`: each models the entire call down to the counters, since no
other code runs in between. The batch is a set: it is sorted, and its tracks
are distinct because the blocks of a request are and each has its own track. `BandAfter` is the first loop of `batch_extend` on
the band array, `Extension` the table its second loop builds: an entry is a
track with the pass that added it, so that the order of the table (and a track
that is in it twice, as can happen in NATIVE_A) is kept. `Heads`, `SameRun` and
`InVirtualRun` cut it into runs as `record_*` does, and `Time` is what the runs
cost. The read and write of a track come with `L_SEEK`, `L_ROTATIONAL` and
`L_TRANSFER` as the constants `LSeek` and `LTrack`. The CMR build never extends a
write, but its `batch_delete` calls `batch_extend` all the same; so does the
model. The FLUIDSMR build extends a write by `batch_extend_fluidsmr`, whose loop over the bands
is nested in that over the tracks: `FluidExtension` is a sequence of rounds, one per
track of the batch, and each adds the track and the tails of all bands in the mode
that are not flagged as CMR. Without the parser of that build no band is flagged;
`BatchLoops` has the flag.

**BatchLoops.** The closed forms of `Disk` are a step away from the code, and
that step is checked and proved: `ScanTrack`, `ExtendBand` and `RecordEntry` are one
iteration of the three loops, with their indices and the flags they carry from
one to the next, on every batch and every band array that a disk can have. `fluid` chooses
between the two extending functions, which share the steps and differ in their order.

**Simulator.** One action per kind of line: read, write, delete, a line with an
unknown mode (counted), a comment (a csv trace pays for it from its budget), a
line that does not match (ends the program), the end of the file. `left` is
`num_traces`. Format "postmark" adds the comparison of the answer with the
request, after a mismatch of which the program ends.

**CommitType.** `Fill` and `Slide` are the branches of `determine_commit_type`;
`CommitMode` is what it returns, evaluated after the update of the bound. A line of
`CommitHistory` is converted by `Convert` of `TraceUnits`; if it is a write
(`WriteLine`) the blocks of the request go into the ring, and if not (`OtherLine`) the ring
stays as it is.

**Hybrid.** A write of the trace is a sequence of steps: `WriteLine` (classify
the request), then rounds of `FillZone` (one zone takes what it can: one write to
the disk), `AllocateZone` (the first offline zone), or `StartCheckpoint`,
followed by `ReadHome` and `WriteHome` for each slot and `ReleaseZone` for each zone. The step is one
call of the disk, the grain at which the state of zones and disk can be seen to
disagree. Zones are bands; the first `CMRTracks` tracks of a zone are usable if it is
used in CMR mode. What the allocator may leave in a zone's block records is
`Garbage`, and the list of updates, which the code compares with although
nothing fills it, is a set `skip` chosen freely by `WriteLine`. The loop that
would fill it is bounded by `hybrid_used_zone_count`, which stays 0.

**Cache.** The parser uses its two disks through `struct disk_operations` only, and
of those their contents only, so they are two instances of `FileStore`:
`DiskStore` with the blocks of the disk and `CacheStore` with those of the cache. That
`FileStore` describes what a disk does is the theorem `DiskImplementsStore`.
`ReadLine` and `DeleteLine` are whole cases of the switch; a write is `WriteLine`
followed by the rounds of its loop (`FillPart`, `StartFlush`, `FillRest`), and a flush is one step
per slot (`FlushSlot`) and one for the run left at the end (`EndFlush`). `run` is
the group of locals of a flush; `run.ins` is 0 until it has met a slot in use.
`Hits` is the search of the buffer that reads and deletes make, with the
count they stop at; `StopsAtOnce` is its case for a request of no block, in which the count of 0
is reached by the first slot that does *not* match. The postmark parser has
the same body and runs to the end of its file; `NumTraces` is then the length of
that file. The reports of the two disks and the counters of instructions are left
out. `CacheHistory` adds `asked`, `flushed`, `dropped`, `gone` and `deleted`, which no guard reads.

**Fluid.** `zone` is `extendable_zone`: `whp` is the write head, `nsw` the NSW, `blocks` the
records of its slots, `sealed` whether the tracks behind the first `CMRTracks` are
sealed. The disk below is an instance of `FileStore`, as in `Cache`. `CountLine`, `WriteLine`
and `OtherLine` read a line. A read or a delete goes from zone to zone (`CountZone`,
`EndCount`): it changes nothing on the disk, and a delete only marks zones as not full, because
that is all the code does. `WriteLine` contains the search for a block to update, which stops
at the first one found (`UpdateLine`), or finds none (`FreshLine`): then the list of blocks to
skip has not been set, and may name any block of `Leftovers`. If `block_remain` is less than the
request, the space is cleaned: `BuildQueues`; one round of zone swapping (`ZoneSwapping`,
`NothingToSwap`); `SortCMR`; the conversion of CMR zones (`StartConversion`, then per round
`ConvertRound`, which rebuilds three zones, and `RewriteRun` for each run of blocks that goes
back to the disk; `EndConversion`); the conversion back (`ConvertBack`, `EndCleaning`). Then the
blocks are placed, one step per zone: `PlaceInZone` in the open zones of the hint,
`AllocateZone` when there is none, and `EndWrite`. All counters are taken modulo `Word`, which
stands for 2^64. Three values of `pc` are ends that the code does not intend: "undefined" for an
access past an array or a queue, "trapped" for a division by zero, "endless" for a
loop whose rounds change nothing. `ConvertRound` does not raise `used`, as the code does not:
the cache zone it sets up is the entry that the next allocation takes.

A definition called `Faulty...` is a plausible mistake in the definition right
after it. No specification refers to it. It is there to be put in the place of
that definition to see that the properties depend on it; `mutants` in
`PROJECT.json` pairs each with the property that notices.

## 3. Runs

Disks of two bands of three tracks (hybrid: three of three; fluid: eight of three); two files.

| Run | Configuration | Question |
|---|---|---|
| `native_b` | NATIVE_B, csv, 5 lines | everything about a shingled disk: types, mapping, ownership, heads, accounting, rewrites, `FileStore` |
| `native_a` | NATIVE_A, csv, 4 lines | the additional loop of NATIVE_A: the first update of a band rewrites the whole band |
| `cmr` | CMR, csv, 4 lines | writes without the extension, deletes with it |
| `postmark` | FLUIDSMR, postmark, 4 lines | a run that goes on was served in full; `batch_extend_fluidsmr` rewrites at least what lies behind the last track written in each band |
| `batch_loops` | every band array and batch; at most one hole in the data; both functions | the closed forms of `Disk` are what the loops compute |
| `commit_type` | blocks of 4 bytes, offsets 0-5, lengths 0-9; ring of 3 | exact cover of every alignment of both ends; the ring against the history, without a bound on the number of lines |
| `hybrid` | limit 2 zones, 3 lines | journal layout, capacity, no block forgotten by a commit; every commit ends |
| `cache` | buffer of 3, disk of 6 blocks, 4 lines | order of the slots, conservation of blocks, mirror of the buffer, reads of what was written; every write ends |
| `fluid` | 8 zones of 3 tracks, 5 lines | zones against the disk, free space, placed and dropped blocks, counts of reads, conversions; every cleaning of a space fit for it ends |
| `hybrid_count`, `hybrid_update`, `hybrid_small_disk` | | three statements of comments that the code does not meet (section 4) |

What the properties say:

* `MappingConsistent`, `IdentityMapping`, `NeverAborts`: table and back pointers
  agree; they do because a block is always booked at the track of its number.
* `OwnershipStable`, `ImplementsStore`: no block goes from one file to another in
  one request; the whole simulator implements `FileStore` under the mapping that
  takes the owner of a block to be the fid of its entry while that is valid.
* `WriteHeadCovers`, `ShingleRewritten`, `NoDoubleRewrite`,
  `FirstUpdateRewritesBand`: shingling, from below (at least as many tracks are rewritten as
  hold data behind the last track written in each band) and from above (in NATIVE_B, no more than
  hold data that the request did not write). What a request leaves out in the middle of its range, because
  another file owns it, lies before `RMW_end`; the code does not rewrite it, and the lower bound
  does not count it. In NATIVE_A there is no
  bound from above: `RMW_start` is the first track of the *first* update of the
  band, so a later update in front of it charges its own tracks a second time
  (`Upstream`), and the lower bound holds only for the update that makes the
  band enter the mode.
* `AccountingAgrees`, `CountersMatchBlocks`: the record and pba layers account
  for the same blocks. `current_use_block_num` is raised by `chs_write` and
  lowered by nobody; the property says what it therefore is, the blocks in
  use plus all those deleted.
* `ServedInFull`, `ExactCover`, `ExtendAgrees`, `RecordAgrees`, `SumIsWindow`,
  `HotAgainstMean`: see their comments.
* `JournalIsPrefix`: the online zones are exactly the first
  `journaling_zone_count` ones and never more than the limit. That is why a
  commit and a checkpoint, which search only below the limit, miss none,
  although an allocation takes any offline zone.
* `NothingSealedIsWritten`, `JournalOnDisk`, `NothingLost`: a zone in CMR mode
  holds at most `CMRTracks` blocks even after it was an SMR zone; what the
  journal holds has been written to its track; each block a commit has passed is in the journal or
  its home block holds data, through any number of allocations and checkpoints in the middle. The
  data may be of any file: `NothingLost` does not notice when the write home of a checkpoint is
  refused because another file owns the block, as `JournalOnDisk` does not when the journal's is.
  `JournalIsPrefix` leaves out the checkpoint at the end of the trace, where the
  count wraps; that is what the run `hybrid_count` is for.
* `BufferInOrder`: a walk over the buffer meets each request once, and the address that
  a flush looks up by number is the one in the slot.
* `BlocksConserved`, `NoPhantomBlocks`: every block of a write is at each moment in
  exactly one of five places (to be written, in the buffer, in the run at hand,
  written, given up); and the disk never holds a block of a file that no
  write of that file named.
* `FlushedFilesLeaveCache`, `CacheMirrorsBuffer`, `ReadYourWrites`: the buffer and the
  cache disk are changed in different places. They agree until the first delete;
  after one they may not, since a delete gives up slots by address
  and blocks by file (`main.c:331`). `CacheMirrorsBuffer` and `ReadYourWrites` stop there, so what a
  delete does to the agreement is modelled but not covered by a property. `CacheTypeOK` says that
  `total_traces` stays within the room of `diskAddress` for the csv parser only.
* `RecordsOnDisk`, `RemainIsFree`: the zones that grow from both ends of the disk share no track,
  each slot before a write head is on the disk for its file, and nothing else is; and
  `block_remain`, which decides when to clean, is what is free outside of the tracks
  that CMR zones cannot use. Both hold up to the first conversion. After it they do not: a
  conversion clears the disk by file, pays `block_remain` for the last run of each
  zone only (`main.c:1805`), and the cache zone takes a band without being counted as a zone in
  use, so that zones taken later from both ends may come to overlap. No property covers these
  three; the notes of their hazards in `PROJECT.json` say so.
* `PlacedOrDropped`: when a write ends each of its blocks is recorded, was to be skipped, or found
  no room in any zone of its hint and no zone left.
* `CountsWithinRequest`: the unsigned count of a read wraps only at a zone that records a block of
  the request twice. The code prevents the case of copies in *several* zones, since the
  window of a read shrinks with what it has found.
* `ConversionKeepsRecords`: pouring three CMR zones into their successors keeps the records,
  each as often as it was there, although the last successor stays empty. The pouring is one step
  in closed form; the four pointers of the code are not stepped through.
* `CleaningEnds`: a cleaning comes back to its write. `Cleanable` lists what it takes: at least
  three zones to convert, a zone and bands for the cache zones, no zone without a block (else: division by zero),
  and queues long enough for the loops. The code checks none of them. The property says that the
  rounds and queues of a cleaning work on a space that is fit for it; the hazards of one that is not (a
  division by zero, a read past a queue, a loop that changes nothing) are modelled as ends of `pc`,
  and no property covers them.

### Bounds, and why they are enough

* *Two bands of three tracks.* Three is the least number of tracks at which a
  batch can leave data before it, between two updates and after it in the same band; two
  bands are needed for runs that cross a border and for the stale mode of
  a band that the request does not touch.
* *Ranges.* Single blocks at the start, middle and end of a band, a whole band, a
  range over the border, one that ends at the last block, one that leaves the
  disk, one of no block. `BatchLoops` takes *all* sets of tracks and all band arrays
  instead. Below the write heads at most one track is free (`Holes`: 1); for
  `batch_extend_fluidsmr` none is (`FluidHoles`: 0), its batches have up to four tracks
  (`FluidBatch`) and only band 0 may be flagged as CMR (`CMRBands`). Two more
  tracks or flags add nothing but states: the rounds are alike, and a band is passed
  over by itself. The proofs do without these bounds.
* *Lines.* A band is written, updated, updated again in another place, and
  deleted in four lines; the fifth in `native_b` allows for the second file.
* *Two files*, which are symmetric (`SYMMETRY`, used only in runs without
  liveness properties).
* *Hybrid.* Two journaling zones of two usable tracks, requests of up to five
  blocks: a request larger than the journal forces a checkpoint in the middle of a
  commit. `Percentage` is 67 because 67 % of three bands is the two zones we
  want (the code: 10 % of at least ten). `CountModulus` 16 stands for 2^64; the
  count goes at most `Limit` below 0. `SkipBound` 1: at most one block of a
  request matches the unset list. `Garbage`: zeroed memory, or a record with a
  block beyond the disk.
* *Cache.* Three slots: the least number at which two requests and a part of a third
  share the buffer. Writes of 0, 1 and 2 blocks, of 4, which is more than
  the buffer holds and so is split and flushed wherever it comes, two with
  the same address, two that overlap; deletes that match a whole request, a part of one, none,
  and that name no block. Two lines flush twice, a third deletes in the middle, and
  a fourth reads or writes after it.
* *CommitHistory* needs no bound on lines: its state space is finite since history is cut
  to the window. Blocks of four bytes with offsets 0 to 5 and lengths 0 to 9 give every
  alignment of both ends, and ranges that touch up to three blocks.
* *Fluid.* Eight zones of three tracks, two of them usable by CMR zones. `ConvPercent` is 38 because
  38 % of eight is three, the least number that a conversion works on (the code: 30 %, of more
  zones); `CacheFloor` is 3 (the code: 256, a zone). `Word` is 64, above the 24 blocks of the disk.
  Leftovers is one block, so that a new zone may be left without a block. Five lines fill the disk with
  both kinds of zones, run into a cleaning with three or more CMR zones, and place the rest of
  the request afterwards; or update, read or delete what four lines have left.

`CHECK_DEADLOCK FALSE` is set where the program ends: at the end of its trace, at
a line that does not parse, at a mismatch; in `Fluid` also where the behaviour of the
program is no longer defined; and in `BatchLoops`, which computes one result.

### Fairness

`CommitEnds`, `WriteEnds` and `CleaningEnds` are checked under weak fairness of `Step`
(`FairSpec` of `Hybrid` and of `Fluid`, `FairHistorySpec` of `CacheHistory`): the program goes on with a line once
it has read it. It is one thread that waits for nothing within a line, so a step
that is there is taken. It does not assume that the trace has another line. In
`Hybrid` the enabling condition of the steps that make a request to the disk is
written out (`DiskStepEnabled`) in place of `WF`, to spare TLC the evaluation of
`ENABLED` on them; a disk operation has an outcome in every state, so the two say
the same.

## 4. Where comments and code disagree

* `hybrid_count` — `main.c:718` calls `journaling_zone_count` the current number of
  journaling zones. `do_checkpoint` lowers it once per zone below the limit
  (`src/Hybrid.c:40`), in the journal or not; the checkpoint at the end of a
  trace (`main.c:956`) runs with any number of zones, so the count passes zero
  and wraps. The zones are right; only the count is not, and the program ends
  soon after.
* `hybrid_update` — `main.c:792` says that the journaling zones in use are searched
  for content to be updated. The bound of that loop is `hybrid_used_zone_count`
  (`main.c:793`), set to 0 and never assigned again; a block in the journal is
  journalled a second time.
* `hybrid_small_disk` — `main.c:830-831` explains an endless loop and says it is fixed
  by taking `journaling_zone_limit` as the bound. For less than ten bands (5 GiB)
  that limit is 0 as well (`main.c:715`), and the first write of the trace never
  ends. `Percentage` is 10 in this run, as in the code, on three bands.

## 5. What is proved

`DiskProofs` and `SimulatorProofs` prove, for every number of bands and tracks, every set of files, each of the five builds, both formats, traces of every
length and every set of ranges:

| Theorem | Statement |
|---|---|
| `Invariance` | `Spec => []Inv` |
| `TypeCorrect` | `Spec => []SimulatorTypeOK` |
| `MappingStaysIdentity`, `MappingStaysConsistent` | `Spec => []IdentityMapping`, `Spec => []MappingConsistent` |
| `DiskNeverAborts` | `Spec => []NeverAborts` |
| `HeadsCoverData` | `Spec => []WriteHeadCovers` |
| `OwnersAreStable` | `Spec => OwnershipStable` |
| `DiskImplementsStore` | `Spec => ImplementsStore` |
| `PostmarkServedInFull` | `Spec => []ServedInFull` |
| `CountersAgree` | `Spec => []CountersMatchBlocks` |
| `LayersAgree` | `Spec => []AccountingAgrees` |
| `DestroyedIsRewritten` | `Spec => ShingleRewritten` |
| `NothingRewrittenTwice` | `Spec => NoDoubleRewrite` |
| `WholeBandIsRewritten` | `Spec => FirstUpdateRewritesBand` |

`BatchProofs` proves, for the same disks, bands in any state, batches of any tracks and both
extending functions:

| Theorem | Statement |
|---|---|
| `ExtendHolds` | `LoopSpec => []ExtendAgrees` |
| `RecordHolds` | `LoopSpec => []RecordAgrees` |

`CommitProofs` proves, for blocks and rings of any size and all byte ranges:

| Theorem | Statement |
|---|---|
| `RequestsCoverExactly` | `HistorySpec => []ExactCover` |
| `RingSumsWindow` | `HistorySpec => []SumIsWindow` |
| `HotIsAboveMean` | `HistorySpec => HotAgainstMean` |

`HybridProofs` proves, for disks, zones, limits, traces and requests of any size and anything that
the allocator may leave in a zone:

| Theorem | Statement |
|---|---|
| `HybridInvariance` | `Spec => []HybridInv` |
| `HybridTypeCorrect` | `Spec => []HybridTypeOK` |
| `JournalStaysPrefix` | `Spec => []JournalIsPrefix` |
| `SealedTracksStayUnwritten` | `Spec => []NothingSealedIsWritten` |
| `JournalStaysOnDisk` | `Spec => []JournalOnDisk` |
| `CommitLosesNothing` | `Spec => []NothingLost`: in the journal, or data of some file in the home block |

`CacheProofs` proves, for buffers of any size, traces of any length and any requests:

| Theorem | Statement |
|---|---|
| `CacheInvariance` | `Spec => []CacheInv` |
| `CacheTypeCorrect` | `Spec => []CacheTypeOK` |
| `SlotsStayInOrder` | `Spec => []BufferInOrder` |
| `HistoryObserves` | `HistorySpec => Spec`: TLC's run of `CacheHistory` is a run of `Cache` |
| `NoBlockLostOrDoubled` | `HistorySpec => []BlocksConserved` |
| `OnlyAskedBlocksHome` | `HistorySpec => []NoPhantomBlocks` |
| `FlushClearsCache` | `HistorySpec => []FlushedFilesLeaveCache` |
| `CacheIsImage` | `HistorySpec => []CacheMirrorsBuffer` |
| `WritesAreRead` | `HistorySpec => []ReadYourWrites` |

`FluidProofs` proves, for spaces and zones of any size, any share of the zones that a conversion
takes, traces of any length and requests of any blocks:

| Theorem | Statement |
|---|---|
| `FluidTypeCorrect` | `Spec => []FluidTypeOK` |
| `FluidRecordsOnDisk` | `Spec => []RecordsOnDisk` |
| `FluidRemainIsFree` | `Spec => []RemainIsFree` |
| `FluidPlacedOrDropped` | `Spec => PlacedOrDropped` |
| `FluidCountsWithinRequest` | `Spec => CountsWithinRequest` |
| `FluidConversionKeepsRecords` | `Spec => ConversionKeepsRecords` |

Assumptions: those named in the modules (at least one band, one track, one slot of the buffer and of
the ring, blocks of at least one byte, natural numbers for times, ranges and lengths, a share of the
zones between 0 and 100 %, `NoFid` is no file).

The argument for the disk. `MappingConsistent` is not inductive. It does not exclude a disk
on which two tracks in use have swapped places, or on which a valid entry has
no file; on such a disk a block that is booked anew may be given a track that
another block holds, and the next delete destroys the wrong entry. What excludes
them is that `native_find_next_pba` books a block at the track of its number:
`IdentityMapping`. `SearchIsIdentity` derives from it that `pba_search` returns
its argument; so the tracks of a request are its blocks, and `ReadEffect`,
`WriteEffect` and `DeleteEffect` restate the three operations as what they do
to storage and table, without the detour over the batch. From these follow that
each operation preserves `IdentityMapping`, that the tracks of a delete are in use
and their entries valid (so `NeverAborts` is preserved), and the refinement: the
granted blocks are those free or held by the file, the freed ones those it
holds. `WriteHeadCovers` is preserved because a write head never goes back and
goes to the last track of its batch (`HeadAdvances`). The inductive invariant is

    Inv == DiskTypeOK /\ IdentityMapping /\ WriteHeadCovers /\ NeverAborts /\ ProgramTypeOK

and TLC checks each of its parts in the runs above.

The argument for the report. The two layers count different things: `pba_*` the
batch, `record_*` the runs of the extended table. `LayersAgree` connects them by
`Faithful(E, S)`: among the entries of table `E` that are not virtual each track of the
batch `S` occurs exactly once, so that their number is that of the batch (`FaithfulCount`). It
holds of every table that the code builds: that of a read, of a CMR write, of `batch_extend`
and of `batch_extend_fluidsmr`. `CountersAgree` adds that a write puts exactly those of its tracks
into use that were not, and that a delete only changes the status of tracks. `PostmarkServedInFull`
follows from what each operation answers and charges (`ReadReport`, `WriteReport`).

The argument for shingling. A step either leaves the counters of rewritten tracks as they are or
charges the virtual entries of the table of the tracks it writes (`StepRewrites`).
From below: a band in which a track below the write head is written is in the mode afterwards, with
its end at the last of these tracks; the data behind it lies at or before the write
head by `WriteHeadCovers`, hence between the two, and has an entry (`DownstreamIsAdded`). From above:
that a virtual entry is a track of its own band needs that the record of a band never leaves it,
which is the invariant `BandsKept`; then the entries of different bands are different tracks,
and none is of the batch, as the end of a band is its last (`VirtualOnce`, `OneBandEach`).

The argument for the loops. A table of `Disk` is a set, that of the code a sequence. `Lists(s, E)`
says that `s` has the entries of `E` in their order: each entry `e` stands at
`Place(E, e)`, and these places are `1 .. Cardinality(E)`, each once (`PlaceOrder`, `PlaceOnto`). Two
lists, the second of which is later in the order, form one list of both (`ListsBoth`), so an iteration
adds to the set what it appends to the sequence: a track (`RowListed`) or the tails of a band
(`TailListed`). `LoopInv` says which part of the table is listed at each `pc`: the rounds of the
tracks passed so far (`Rounds`), the track at hand, the tails of the bands before `bc` (`TailsTo`). For
the band array, an iteration on the next greater track does what `Disk` says of one track more
(`ScanIsAfter`, `AfterNext`), from which `ExtendHolds` follows. `RecordHolds` cuts the sequence in turn:
`RunSince` says where the run in progress began, that no cut lies between, and what
it has counted; all before it is charged as `SumOf` says (`RunGoesOn`, `RunEnds`). That a run
without a virtual entry holds none that is read anew, and any other only such, is
`WholeRun`. The places carry cuts, runs and sums of the sequence over to those of the set (`HeadsAreCuts`,
`RunsAreSame`, `SumIsCharges`).

The argument for a byte range. A byte is in block `x` exactly when it lies between `BlockSize * x`
and the next multiple; what the code computes from the remainders of both
ends is the last of these blocks (`RequestEnds`).

The argument for the ring. `WindowInv` says where the history is in the ring: the size at distance
`k` in the history is in slot `record_pointer - k`, around the end. Its sum, a fold over
the history, then changes by the size that enters and by the one that is cut off. The ring here
has `Window` slots and keeps what is stored in them. The array of the code has room for half of them
(section 6), so the theorems about the ring say nothing of the program as built from its 501st
write on, and none of them is a bound for its accesses.

The argument for the journal. `JournalIsPrefix` is inductive with the types of the locals: an
allocation takes the first offline zone, which is the one right behind the prefix, and
a checkpoint releases zones from the front, one less in `journaling_zone_count` each, so that the
prefix is empty when it ends. `NothingSealedIsWritten` rests on `ZonesSealed`: the tracks of a
zone in use are sealed as its type says, whatever it was before, and a zone that is not in use
starts from its first track. How many blocks a round puts into a zone, and in which slots,
is a matter of counting (`Rank`, `CapacityOfZone`). `JournalOnDisk` holds because a
write leaves each track it asked for in use, be it its own or one that was refused, and no
operation makes a track free again (a delete leaves it invalid): `WriteKeeps`,
`DeleteKeeps`. The inductive invariant is

    HybridInv == /\ DiskTypeOK /\ IdentityMapping /\ NeverAborts
                 /\ ControlType /\ LocalsOK
                 /\ JournalIsPrefix /\ ZonesSealed /\ JournalOnDisk

`NothingLost` needs more: when a checkpoint releases a zone, the home blocks of what it holds
must hold data. `HomeDone` says that they do for the slots that the checkpoint has passed (a
refused write finds data of another file there), and
`LossInv == HybridInv /\ NothingLost /\ HomeDone` is inductive.

The argument for the cache. `BufferInOrder` is not inductive for two reasons. At the
end of a flush the pointer goes back to 0, which is right only if the
flush has emptied the buffer (`FlushClears`: during a flush the slots in use are
those it has not reached). And a round of a write gives its slots the number
`total_traces`, whose address is that of the write at hand, and whose other slots, from
earlier rounds, are of the same file (`JobIsLatest`). Actions that only give up
slots keep the order (`ShrinkKeepsOrder`); a filling puts its slots behind all others
(`FillKeepsOrder`). The inductive invariant is

    CacheInv == CacheTypeOK /\ BufferInOrder /\ FlushClears /\ JobIsLatest

What becomes of the blocks rests on `CacheInv` and on what the history knows: `AskedAgrees` (the slots,
the write at hand and the run at hand are of the file and the address that their request named)
and `Idle` (outside of a write or a flush their locals are as at the start). With these
`BlocksConserved` is inductive: each step moves a number of blocks from one of its five terms to
another. A delete moves slots to those given up, a filling takes as many slots as the
write at hand has blocks less, and a step of a flush moves one slot to the run and, if it
starts a new one, the run before to what was written. `NoPhantomBlocks` follows, because a run is
then never longer than its request (`RunIsPartOfRequest`). `CacheMirrorsBuffer` says nothing
during a flush, where slots and cache are cleared at different times; `InFlushImage` does: behind
the flush the cache holds at most blocks of the run at hand, before it at most those of the
slots. For `ReadYourWrites`, the slots in use have no gap until something is deleted (`NoHoles`),
so with `BufferInOrder` those of one request are an interval (`SlotsAreInterval`), and the
search of a read, which takes as many blocks from its first hit on as there are hits, gets just them.

The argument for the FluidSMR space. `TypeInv` strengthens the types with what the locals know at
each value of `pc`: which zones the queues of a cleaning hold, and that no zone in use
is a cache zone where SMR zones would be converted. `DiskInv` connects zones and disk up
to the first conversion:

    BandsApart     zones in use lie in disjoint bands: CMR ones from the front, in the
                   order of their allocation, SMR ones from the back
    SlotsRecorded  a track of the disk is held by a file exactly if it is a slot
                   before the write head of a zone in use, whose record names the file
    remain is the size of Spare, the free tracks that the zones can use

Without `BandsApart` the second is not inductive, as writing a slot of one zone could
overwrite one of another. `RecordsOnDisk` and `RemainIsFree` are then matters of
counting: slots and held tracks are one to one. For `PlacedOrDropped`, `PlaceInv` says
what a write in progress has done: each block up to `job.next` is recorded or skipped (`PlacedSoFar`), and
if zones were passed over they are full (`FullZones`). `FluidConversionKeepsRecords` is about a single round, from
any state: the slots of the three old zones before their heads and those of the two new ones are one to one, by the order in which they are poured
(`SlotsPouredFrom`, `SlotsPouredInto`), and a slot and its image hold the same record
(`PiecesFill`). So no record is lost, and each has as many copies as before (`CountInParts`). Within a
round this needs no `BandsApart`, and holds although zones overlap after the first.

Only model-checked: liveness (`CommitEnds`, `WriteEnds`, `CleaningEnds`), which is beyond the prover.
Every invariant and every action property of the passing runs is a theorem.

## 6. What is not modelled

* Of *FluidSMR*: the body of zone swapping (`main.c:1527` on) and that of the
  conversion of SMR zones, which no state reaches. Zone swapping passes its test only if
  the NSW of a zone exceeds its write head, and the conversion back needs a
  cache zone in use; `FluidTypeOK` shows that neither occurs. The flags of the band
  that an unset field of a zone names (`main.c:1740`), and the printed `data_usage`. What
  the program does after an access past an array is the end of the model ("undefined").
  No property states what holds of the zones after a conversion, where zones may overlap and
  records no longer say what the disk holds: nothing in the code says it either.
* The reports of the cache builds (which the `makefile` has commented out). The two disks of such a
  build share the globals `band[]` and `gbtable`, so requests to one may change what the other is charged
  for; their contents do not depend on either, and only contents are modelled. What
  is left in the buffer at the end of a trace is flushed by nobody (`main.c:376`);
  the model ends that way, and no property says otherwise. In the postmark
  parser the number of requests may exceed the room of `diskAddress` (`main.c:537`).
* `journaling.c`, `rw.c`, `fid_table.h`, `list.h`: no caller. `output.c`: prints.
  `lba_invalid` and `journaling_write` are operations of the disk that nobody calls.
* Failed allocations and the growth of the tables of the batch layer.
* `size_record` is allocated with room for 1000 `int` and used for 1000
  `unsigned long` (`main.c:697`), so the stores from the 501st write on lie beyond the array. The model
  has the ring with the size it is used with; what the second half overwrites is not defined by the
  language, and no property or theorem is about it.
* Overflow of the 64-bit sums `lba + (n - 1)` and of the counters: trace values
  beyond 2^63 blocks.
* The file of a journalled block on its track: when a zone is used again its
  tracks may belong to another file, and `lba_write` refuses the new block
  without anyone noticing (`main.c:880`). The model does it too
  (`FillZone`), and `JournalOnDisk` is worded accordingly; nothing in the code
  says whether a journalled block must be readable from its zone.

## 7. Plan

1. **Abstract specifications**: of the journal, a bag of blocks with checkpoints
   that empty it, which `Hybrid` implements; of the cache, a store of which a part is
   pending, which `Cache` implements until the first delete.
2. **Composition**: `Fluid` over `Disk` in place of `FileStore`, to connect the flags of its bands
   with what `batch_extend_fluidsmr` passes over.
