---------------------------- MODULE CacheHistory ----------------------------
(***************************************************************************)
(* The write-back cache next to a history of its trace: what each write    *)
(* asked for, and what has become of its blocks.                           *)
(***************************************************************************)
EXTENDS Cache

VARIABLES
    asked,     \* the write of each line: lba, n and fid (n is 0 for other lines)
    flushed,   \* blocks of each write that were written to the disk
    dropped,   \* slots of each write that deletes have given up
    gone,      \* the files written home by the flush at hand or the last one
    deleted    \* a delete has occurred

history == <<asked, flushed, dropped, gone, deleted>>
historyVars == <<vars, history>>

Request == 1 .. NumTraces

HistoryInit ==
    /\ Init
    /\ asked = [q \in Request |-> [lba |-> 0, n |-> 0, fid |-> NoFid]]
    /\ flushed = [q \in Request |-> 0]
    /\ dropped = [q \in Request |-> 0]
    /\ gone = {} /\ deleted = FALSE

\* The slots of request q in use.
Slots(q) == {c \in InUse : buffer[c].insDic = q}
GivenUp(q) == {c \in Slots(q) : ~ buffer[c].inUsed'}

Flushes == EndsRun \/ (run.next = BufferSize /\ run.ins # 0)

RecordFlush ==
    IF Flushes
    THEN /\ flushed' = [flushed EXCEPT ![run.ins] = @ + RunLength(run)]
         /\ gone' = gone \cup {run.fid}
    ELSE UNCHANGED <<flushed, gone>>

HistoryNext ==
    \/ \E fid \in Fid, r \in WriteRanges :
          /\ WriteLine(r[1], r[2], fid)
          /\ asked' = [asked EXCEPT ![total'] = [lba |-> r[1], n |-> r[2], fid |-> fid]]
          /\ UNCHANGED <<flushed, dropped, gone, deleted>>
    \/ \E fid \in Fid, r \in DeleteRanges :
          /\ DeleteLine(r[1], r[2], fid)
          /\ dropped' = [q \in Request |-> dropped[q] + Cardinality(GivenUp(q))]
          /\ deleted' = TRUE
          /\ UNCHANGED <<asked, flushed, gone>>
    \/ StartFlush /\ gone' = {} /\ UNCHANGED <<asked, flushed, dropped, deleted>>
    \/ (FlushSlot \/ EndFlush) /\ RecordFlush /\ UNCHANGED <<asked, dropped, deleted>>
    \/ /\ \/ \E fid \in Fid, r \in ReadRanges : ReadLine(r[1], r[2], fid)
          \/ UnknownLine \/ CommentLine \/ EndOfTrace \/ FillPart \/ FillRest
       /\ UNCHANGED history

HistorySpec == HistoryInit /\ [][HistoryNext]_historyVars

\* One thread that waits for nothing within a line.
FairHistorySpec == HistorySpec /\ WF_vars(Step)

-----------------------------------------------------------------------------
\* Every block of a write is accounted for exactly once at every moment: still
\* to be put into the buffer, in the buffer, in the run of a flush, written to
\* the disk, or given up by a delete, through splits and flushes in the middle
\* of the write.
BlocksConserved ==
    \A q \in Request :
        asked[q].n = flushed[q] + dropped[q] + Cardinality(Slots(q))
                     + (IF q = total THEN job.rest ELSE 0)
                     + (IF q = run.ins THEN run.n ELSE 0)

\* The disk holds a block for a file only if a write of that file named it: a
\* flush never writes beyond a request nor mixes two of them.
NoPhantomBlocks ==
    \A l \in DiskStore!Lba :
        home[l] # NoFid =>
            \E q \in 1 .. total :
                /\ asked[q].fid = home[l]
                /\ l \in asked[q].lba .. asked[q].lba + asked[q].n - 1

\* A flush leaves no block of a file that it wrote home on the cache, where it
\* would keep other files from the slot.
FlushedFilesLeaveCache ==
    pc = "flush" \/ (pc = "write" /\ cachePointer = 0) =>
        \A c \in Slot : cached[c] \notin gone

\* As long as nothing has been deleted, the cache is the image of the buffer
\* (a delete gives up slots by address and blocks by file).
CacheMirrorsBuffer ==
    ~ deleted /\ pc # "flush" =>
        \A c \in Slot :
            cached[c] = IF buffer[c].inUsed THEN buffer[c].fid ELSE NoFid

\* Until the first delete, a write that is in the buffer as a whole, and has
\* its address to itself there, is read from the cache in full, without the
\* disk.
ReadYourWrites ==
    ~ deleted /\ pc = "lines" =>
        \A q \in 1 .. total :
            /\ asked[q].n > 0 /\ Cardinality(Slots(q)) = asked[q].n
            /\ Matches(asked[q].lba) = Slots(q)
            => ReadAnswer(asked[q].lba, asked[q].n, asked[q].fid)
                  = [cache |-> asked[q].n, disk |-> 0]
=============================================================================
