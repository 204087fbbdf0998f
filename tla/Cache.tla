------------------------------- MODULE Cache -------------------------------
(***************************************************************************)
(* The write-back cache: parsing_csv_cache of main.c, whose body           *)
(* parsing_postmark_cache repeats, and src/src/cache.c.  A write goes to   *)
(* the next slots of a buffer, which mirror the blocks of a small CMR      *)
(* disk, the cache; when no slot is left, the buffer is flushed: walked    *)
(* from slot to slot, the slots of one request being written to the disk   *)
(* as one request.  The disk and the cache are two stores as FileStore     *)
(* describes them (the theorem DiskImplementsStore); their reports are not *)
(* modelled.  A write takes many steps here, one per round of its loop and *)
(* one per slot of a flush.                                                *)
(***************************************************************************)
EXTENDS Integers, FiniteSets, FiniteSetsExt

CONSTANTS
    MaxBlock,      \* blocks of the disk
    BufferSize,    \* buffer_size: slots of the buffer and blocks of the cache
    Fid, NoFid,
    NumTraces,     \* num_traces
    ReadRanges, WriteRanges, DeleteRanges   \* the <<lba, n>> of the trace

ASSUME BufferSizeAssumption == BufferSize \in Nat \ {0}
ASSUME CacheNumTracesAssumption == NumTraces \in Nat
ASSUME CacheNoFidAssumption == NoFid \notin Fid
ASSUME CacheRangesAssumption ==
    /\ ReadRanges \subseteq Nat \X Nat
    /\ WriteRanges \subseteq Nat \X Nat
    /\ DeleteRanges \subseteq Nat \X Nat

VARIABLES
    home,           \* who holds each block of the disk
    cached,         \* who holds each block of the cache
    buffer,         \* cache_buffer
    cachePointer,   \* cachePointer, the next slot
    diskAddress,    \* diskAddress, the lba of each request
    total,          \* total_traces, the number of the request at hand
    job,            \* the request being written: lba, fid and what is left of n
    run,            \* the locals of a flush
    answer,         \* blocks that the cache and the disk found for a read
    pc, left

vars == <<home, cached, buffer, cachePointer, diskAddress, total,
          job, run, answer, pc, left>>

DiskStore  == INSTANCE FileStore WITH owner <- home, ret <- 0
CacheStore == INSTANCE FileStore WITH MaxBlock <- BufferSize, owner <- cached, ret <- 0

Slot == 0 .. BufferSize - 1

NoJob == [fid |-> NoFid, lba |-> 0, rest |-> 0]
NoAnswer == [cache |-> 0, disk |-> 0]
\* A flush at slot next; ins_dic_count is 0 as long as it has met no slot.
NoRun == [next |-> 0, ins |-> 0, fid |-> NoFid, n |-> 0]

Init ==
    /\ home = [l \in DiskStore!Lba |-> NoFid]
    /\ cached = [l \in CacheStore!Lba |-> NoFid]
    /\ buffer = [c \in Slot |-> [inUsed |-> FALSE, diskAddress |-> 0,
                                 fid |-> NoFid, insDic |-> 0]]
    /\ cachePointer = 0
    /\ diskAddress = [q \in 1 .. NumTraces |-> 0]
    /\ total = 0
    /\ job = NoJob /\ run = NoRun /\ answer = NoAnswer
    /\ pc = "lines" /\ left = NumTraces

-----------------------------------------------------------------------------
(* The search of a read or a delete: slots of its first block, whatever    *)
(* request or file they are from, until it has counted n of them.          *)

InUse == {c \in Slot : buffer[c].inUsed}
Matches(lba) == {c \in InUse : buffer[c].diskAddress = lba}

\* A request of no block has counted enough at the first slot in use that
\* does not match; if that slot matches, the search never stops.
StopsAtOnce(lba, n) == n = 0 /\ InUse # {} /\ Min(InUse) \notin Matches(lba)

Hits(lba, n) ==
    IF StopsAtOnce(lba, n) THEN {}
    ELSE {c \in Matches(lba) :
            n = 0 \/ Cardinality({d \in Matches(lba) : d < c}) < n}

\* cache_ptr, the slot that the search counted first.
FaultyFirst(hits) == Max(hits)
First(hits) == Min(hits)

\* What a read gets: from the cache the blocks from the first hit on, as many
\* as there are hits, and from the disk as many as are missing.
ReadAnswer(lba, n, fid) ==
    LET hits == Hits(lba, n)
        k    == Cardinality(hits)
    IN  [cache |-> IF n = 0 \/ k = 0 THEN 0
                   ELSE Cardinality(CacheStore!Found(First(hits), k, fid)),
         disk  |-> IF k >= n THEN 0
                   ELSE Cardinality(DiskStore!Found(lba, n - k, fid))]

-----------------------------------------------------------------------------
(* The lines of the trace.                                                 *)

Line == pc = "lines" /\ left > 0 /\ left' = left - 1

Numbered == Line /\ total' = total + 1

ReadLine(lba, n, fid) ==
    /\ Numbered
    /\ answer' = ReadAnswer(lba, n, fid)
    /\ UNCHANGED <<home, cached, buffer, cachePointer, diskAddress, job, run, pc>>

\* The slots that the search counts are given up; then the file loses all its
\* blocks on the cache, on the disk, or on both.
DeleteLine(lba, n, fid) ==
    /\ Numbered
    /\ LET hits == Hits(lba, n)
           k    == Cardinality(hits)
           fromCache == (n > 0 /\ k > 0) \/ StopsAtOnce(lba, n)
       IN  /\ buffer' = [c \in Slot |-> IF c \in hits
                                        THEN [buffer[c] EXCEPT !.inUsed = FALSE]
                                        ELSE buffer[c]]
           /\ cached' = IF fromCache
                        THEN CacheStore!Passed(CacheStore!Held(fid), NoFid) ELSE cached
           /\ home' = IF k < n
                      THEN DiskStore!Passed(DiskStore!Held(fid), NoFid) ELSE home
    /\ answer' = NoAnswer
    /\ UNCHANGED <<cachePointer, diskAddress, job, run, pc>>

WriteLine(lba, n, fid) ==
    /\ Numbered
    /\ diskAddress' = [diskAddress EXCEPT ![total'] = lba]
    /\ job' = [fid |-> fid, lba |-> lba, rest |-> n]
    /\ pc' = "write"
    /\ answer' = NoAnswer
    /\ UNCHANGED <<home, cached, buffer, cachePointer, run>>

\* A line of an unknown mode.
UnknownLine ==
    /\ Numbered
    /\ answer' = NoAnswer
    /\ UNCHANGED <<home, cached, buffer, cachePointer, diskAddress, job, run, pc>>

CommentLine ==
    /\ Line
    /\ answer' = NoAnswer
    /\ UNCHANGED <<home, cached, buffer, cachePointer, diskAddress, total, job, run, pc>>

\* A line that sscanf does not match ends the program; so does the end of the
\* trace, and what is in the buffer then is written nowhere.
EndOfTrace ==
    /\ pc = "lines"
    /\ pc' \in {"done"} \cup (IF left > 0 THEN {"failed"} ELSE {})
    /\ answer' = NoAnswer
    /\ UNCHANGED <<home, cached, buffer, cachePointer, diskAddress, total, job, run, left>>

-----------------------------------------------------------------------------
(* The loop of a write.                                                    *)

\* buffer_remain
FaultyRemain == BufferSize - cachePointer + 1
Remain == BufferSize - cachePointer

\* The next n slots, and the blocks of the cache of the same numbers.
Fill(n) ==
    /\ cached' = CacheStore!Passed(CacheStore!Granted(cachePointer, n, job.fid), job.fid)
    /\ buffer' = [c \in Slot |->
                    IF c \in cachePointer .. cachePointer + n - 1
                    THEN [inUsed |-> TRUE, diskAddress |-> job.lba,
                          fid |-> job.fid, insDic |-> total]
                    ELSE buffer[c]]
    /\ cachePointer' = cachePointer + n

FaultyLess(n) == job.rest
Less(n) == job.rest - n

FillPart ==
    /\ pc = "write" /\ Remain < job.rest /\ Remain # 0
    /\ Fill(Remain)
    /\ job' = [job EXCEPT !.rest = Less(Remain)]
    /\ UNCHANGED <<home, diskAddress, total, run, answer, pc, left>>

StartFlush ==
    /\ pc = "write" /\ Remain < job.rest /\ Remain = 0
    /\ pc' = "flush" /\ run' = NoRun
    /\ UNCHANGED <<home, cached, buffer, cachePointer, diskAddress, total, job, answer, left>>

FillRest ==
    /\ pc = "write" /\ Remain >= job.rest
    /\ Fill(job.rest)
    /\ pc' = "lines" /\ job' = NoJob
    /\ UNCHANGED <<home, diskAddress, total, run, answer, left>>

-----------------------------------------------------------------------------
(* A flush, slot by slot.                                                  *)

\* The run that is written to the disk, and its file leaves the cache.
FaultyRunLength(r) == r.n + 1
RunLength(r) == r.n
FaultyRunFile(r) == buffer[0].fid
RunFile(r) == r.fid

WriteHome ==
    /\ home' = DiskStore!Passed(
                 DiskStore!Granted(diskAddress[run.ins], RunLength(run), run.fid), run.fid)
    /\ cached' = CacheStore!Passed(CacheStore!Held(RunFile(run)), NoFid)

StartRun(c) == [next |-> c + 1, ins |-> buffer[c].insDic, fid |-> buffer[c].fid, n |-> 1]

\* The slot ends the run at hand.
EndsRun == /\ run.next < BufferSize
           /\ buffer[run.next].inUsed
           /\ run.ins # 0 /\ run.ins # buffer[run.next].insDic

FaultyGiveUp(c) == buffer
GiveUp(c) == [buffer EXCEPT ![c].inUsed = FALSE]

FlushSlot ==
    /\ pc = "flush" /\ run.next < BufferSize
    /\ LET c == run.next
       IN  \/ /\ ~ buffer[c].inUsed
              /\ run' = [run EXCEPT !.next = c + 1]
              /\ UNCHANGED <<home, cached, buffer>>
           \/ /\ buffer[c].inUsed /\ run.ins = 0
              /\ run' = StartRun(c)
              /\ buffer' = GiveUp(c)
              /\ UNCHANGED <<home, cached>>
           \/ /\ buffer[c].inUsed /\ run.ins # 0 /\ run.ins = buffer[c].insDic
              /\ run' = [run EXCEPT !.next = c + 1, !.n = @ + 1]
              /\ buffer' = GiveUp(c)
              /\ UNCHANGED <<home, cached>>
           \/ /\ EndsRun
              /\ WriteHome
              /\ run' = StartRun(c)
              /\ buffer' = GiveUp(c)
    /\ UNCHANGED <<cachePointer, diskAddress, total, job, answer, pc, left>>

FaultyRewound == cachePointer
Rewound == 0

\* The last run, if there was a slot in use at all.
EndFlush ==
    /\ pc = "flush" /\ run.next = BufferSize
    /\ IF run.ins = 0 THEN UNCHANGED <<home, cached>> ELSE WriteHome
    /\ cachePointer' = Rewound
    /\ pc' = "write" /\ run' = NoRun
    /\ UNCHANGED <<buffer, diskAddress, total, job, answer, left>>

-----------------------------------------------------------------------------
Step == FillPart \/ StartFlush \/ FillRest \/ FlushSlot \/ EndFlush

Next == \/ \E fid \in Fid :
              \/ \E r \in ReadRanges   : ReadLine(r[1], r[2], fid)
              \/ \E r \in WriteRanges  : WriteLine(r[1], r[2], fid)
              \/ \E r \in DeleteRanges : DeleteLine(r[1], r[2], fid)
        \/ UnknownLine
        \/ CommentLine
        \/ EndOfTrace
        \/ Step

Spec == Init /\ [][Next]_vars

-----------------------------------------------------------------------------
Owner == Fid \cup {NoFid}

\* Types; no write of the buffer or of diskAddress leaves its array.
CacheTypeOK ==
    /\ home \in [DiskStore!Lba -> Owner] /\ cached \in [CacheStore!Lba -> Owner]
    /\ buffer \in [Slot -> [inUsed : BOOLEAN, diskAddress : Nat, fid : Owner,
                            insDic : 0 .. NumTraces]]
    /\ cachePointer \in 0 .. BufferSize
    /\ diskAddress \in [1 .. NumTraces -> Nat]
    /\ total \in 0 .. NumTraces /\ left \in 0 .. NumTraces - total
    /\ job \in [fid : Owner, lba : Nat, rest : Nat]
    /\ run \in [next : 0 .. BufferSize, ins : 0 .. NumTraces, fid : Owner, n : Nat]
    /\ answer \in [cache : Nat, disk : Nat]
    /\ pc \in {"lines", "write", "flush", "done", "failed"}

\* The slots in use are behind the pointer, in the order of their requests,
\* and carry the address and the file of their request: so that a walk over
\* the buffer meets each request once, and the address that a flush looks up
\* by number is the one in the slot.
BufferInOrder ==
    /\ \A c \in InUse : c < cachePointer
    /\ \A c, d \in InUse : c < d => buffer[c].insDic <= buffer[d].insDic
    /\ \A c \in InUse : /\ buffer[c].insDic \in 1 .. total
                        /\ diskAddress[buffer[c].insDic] = buffer[c].diskAddress
    /\ \A c, d \in InUse : buffer[c].insDic = buffer[d].insDic => buffer[c].fid = buffer[d].fid

\* The loop of a write ends, however much larger than the buffer it is.
WriteEnds == pc \in {"write", "flush"} ~> pc = "lines"
=============================================================================
