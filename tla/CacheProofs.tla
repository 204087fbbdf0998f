---------------------------- MODULE CacheProofs ----------------------------
(***************************************************************************)
(* Proofs about the write cache, for buffers, traces and requests of any   *)
(* size.  Of the cache: its types, and that the slots in use stay in the   *)
(* order of their requests.  Of the cache with its history: that the       *)
(* history only observes, and what becomes of the blocks of each write.    *)
(***************************************************************************)
EXTENDS CacheHistory, SetLemmas

\* A flush leaves no slot in use behind it.
FlushClears ==
    pc = "flush" => \A c \in InUse : c >= run.next

\* The request being written is the last one, and its slots are of its file.
JobIsLatest ==
    pc \in {"write", "flush"} =>
        /\ total >= 1
        /\ diskAddress[total] = job.lba
        /\ \A c \in InUse : buffer[c].insDic = total => buffer[c].fid = job.fid

\* The inductive invariant.
CacheInv == CacheTypeOK /\ BufferInOrder /\ FlushClears /\ JobIsLatest

-----------------------------------------------------------------------------
(* Lemmas on the two stores.                                               *)

LEMMA DiskPassed ==
  ASSUME NEW S, NEW fid \in Owner, home \in [DiskStore!Lba -> Owner]
  PROVE  DiskStore!Passed(S, fid) \in [DiskStore!Lba -> Owner]
BY DEF DiskStore!Passed

LEMMA CachePassed ==
  ASSUME NEW S, NEW fid \in Owner, cached \in [CacheStore!Lba -> Owner]
  PROVE  CacheStore!Passed(S, fid) \in [CacheStore!Lba -> Owner]
BY DEF CacheStore!Passed

\* The set of a request's blocks is finite, so that its part that a store
\* finds has a size.
LEMMA DiskFoundCount ==
  ASSUME NEW lba \in Int, NEW n \in Int, NEW fid
  PROVE  Cardinality(DiskStore!Found(lba, n, fid)) \in Nat
<1>1. IsFiniteSet(lba .. lba + n - 1) BY FS_Interval
<1>2. DiskStore!Blocks(lba, n) \subseteq lba .. lba + n - 1 BY DEF DiskStore!Blocks
<1>3. DiskStore!Found(lba, n, fid) \subseteq lba .. lba + n - 1
  BY <1>2 DEF DiskStore!Found
<1> QED BY <1>1, <1>3, FS_Subset, FS_CardinalityType

LEMMA CacheFoundCount ==
  ASSUME NEW lba \in Int, NEW n \in Int, NEW fid
  PROVE  Cardinality(CacheStore!Found(lba, n, fid)) \in Nat
<1>1. IsFiniteSet(lba .. lba + n - 1) BY FS_Interval
<1>2. CacheStore!Blocks(lba, n) \subseteq lba .. lba + n - 1 BY DEF CacheStore!Blocks
<1>3. CacheStore!Found(lba, n, fid) \subseteq lba .. lba + n - 1
  BY <1>2 DEF CacheStore!Found
<1> QED BY <1>1, <1>3, FS_Subset, FS_CardinalityType

\* The slots that a search counts are slots.
LEMMA HitsAreSlots ==
  ASSUME NEW lba, NEW n
  PROVE  Hits(lba, n) \subseteq Slot
BY DEF Hits, Matches, InUse

LEMMA HitsCount ==
  ASSUME NEW lba, NEW n
  PROVE  IsFiniteSet(Hits(lba, n)) /\ Cardinality(Hits(lba, n)) \in Nat
<1>1. IsFiniteSet(Slot) BY BufferSizeAssumption, FS_Interval DEF Slot
<1> QED BY <1>1, HitsAreSlots, FS_Subset, FS_CardinalityType

LEMMA ReadAnswerType ==
  ASSUME NEW lba \in Nat, NEW n \in Nat, NEW fid
  PROVE  ReadAnswer(lba, n, fid) \in [cache : Nat, disk : Nat]
<1> DEFINE hits == Hits(lba, n)
           k    == Cardinality(hits)
           inCache == Cardinality(CacheStore!Found(First(hits), k, fid))
           onDisk  == Cardinality(DiskStore!Found(lba, n - k, fid))
<1>1. IsFiniteSet(hits) /\ k \in Nat BY HitsCount
<1>2. hits \in SUBSET Nat BY HitsAreSlots, BufferSizeAssumption DEF Slot
<1>3. k # 0 => hits # {} BY FS_EmptySet
<1> HIDE DEF hits
<1>4. k # 0 => First(hits) \in Nat BY <1>2, <1>3, MinNatural DEF First
<1>5. k # 0 => inCache \in Nat BY <1>1, <1>4, CacheFoundCount
<1>6. onDisk \in Nat BY <1>1, DiskFoundCount
<1> QED BY <1>5, <1>6 DEF ReadAnswer, hits

-----------------------------------------------------------------------------
(* Lemmas on the buffer.                                                   *)

\* Slots are only given up, and nothing else about them changes.
Shrinks ==
    \A c \in InUse' :
        /\ c \in InUse
        /\ buffer'[c].diskAddress = buffer[c].diskAddress
        /\ buffer'[c].fid = buffer[c].fid
        /\ buffer'[c].insDic = buffer[c].insDic

\* Giving up slots disturbs no order, as long as the pointer stays and the
\* requests that have slots keep their addresses.
LEMMA ShrinkKeepsOrder ==
  ASSUME BufferInOrder, Shrinks, cachePointer' = cachePointer,
         total \in Nat, total' \in Nat, total' >= total,
         \A q \in 1 .. total : diskAddress'[q] = diskAddress[q]
  PROVE  BufferInOrder'
BY DEF BufferInOrder, Shrinks

LEMMA SameBufferShrinks ==
  ASSUME UNCHANGED buffer
  PROVE  Shrinks
BY DEF Shrinks, InUse

LEMMA GiveUpShrinks ==
  ASSUME CacheTypeOK, NEW c \in Slot, buffer' = GiveUp(c)
  PROVE  Shrinks /\ c \notin InUse'
         /\ buffer' \in [Slot -> [inUsed : BOOLEAN, diskAddress : Nat, fid : Owner,
                                  insDic : 0 .. NumTraces]]
BY DEF GiveUp, Shrinks, InUse, CacheTypeOK

\* What a filling of the next n slots does.
LEMMA FillEffect ==
  ASSUME CacheInv, pc = "write", NEW n \in Nat, n <= Remain, Fill(n)
  PROVE  /\ cached' \in [CacheStore!Lba -> Owner]
         /\ buffer' \in [Slot -> [inUsed : BOOLEAN, diskAddress : Nat, fid : Owner,
                                  insDic : 0 .. NumTraces]]
         /\ cachePointer' \in 0 .. BufferSize
         /\ cachePointer' = cachePointer + n
         /\ InUse' = InUse \cup (cachePointer .. cachePointer + n - 1)
         /\ \A c \in InUse : buffer'[c] = buffer[c]
         /\ \A c \in cachePointer .. cachePointer + n - 1 :
               /\ buffer'[c].diskAddress = job.lba
               /\ buffer'[c].fid = job.fid
               /\ buffer'[c].insDic = total
<1> USE BufferSizeAssumption, CacheNumTracesAssumption
<1> DEFINE new == cachePointer .. cachePointer + n - 1
<1>1. /\ cachePointer \in 0 .. BufferSize /\ job.fid \in Owner /\ job.lba \in Nat
      /\ total \in 0 .. NumTraces
      /\ buffer \in [Slot -> [inUsed : BOOLEAN, diskAddress : Nat, fid : Owner,
                              insDic : 0 .. NumTraces]]
  BY DEF CacheInv, CacheTypeOK
<1>2. cachePointer + n <= BufferSize BY <1>1 DEF Remain
<1>3. new \subseteq Slot BY <1>1, <1>2 DEF Slot
<1>4. \A c \in InUse : c \in Slot /\ c \notin new
  BY <1>1 DEF CacheInv, BufferInOrder, InUse, Slot
<1>5. buffer' = [c \in Slot |->
                   IF c \in new THEN [inUsed |-> TRUE, diskAddress |-> job.lba,
                                      fid |-> job.fid, insDic |-> total]
                   ELSE buffer[c]]
  BY DEF Fill
<1>6. cached' \in [CacheStore!Lba -> Owner]
  BY <1>1, CachePassed DEF CacheInv, CacheTypeOK, Fill
<1>7. cachePointer' = cachePointer + n /\ cachePointer' \in 0 .. BufferSize
  BY <1>1, <1>2 DEF Fill
<1> HIDE DEF new
<1>8. buffer' \in [Slot -> [inUsed : BOOLEAN, diskAddress : Nat, fid : Owner,
                            insDic : 0 .. NumTraces]]
  BY <1>1, <1>5
<1>9. InUse' = InUse \cup new BY <1>3, <1>4, <1>5 DEF InUse
<1>10. \A c \in InUse : buffer'[c] = buffer[c] BY <1>4, <1>5
<1>11. \A c \in new : /\ buffer'[c].diskAddress = job.lba
                      /\ buffer'[c].fid = job.fid
                      /\ buffer'[c].insDic = total
  BY <1>3, <1>5
<1> QED BY <1>6, <1>7, <1>8, <1>9, <1>10, <1>11 DEF new

\* The new slots are behind the old ones, and of the last request.
LEMMA FillKeepsOrder ==
  ASSUME CacheInv, pc = "write", NEW n \in Nat, n <= Remain, Fill(n),
         UNCHANGED <<total, diskAddress>>
  PROVE  /\ BufferInOrder'
         /\ \A c \in InUse' : buffer'[c].insDic = total => buffer'[c].fid = job.fid
<1> DEFINE new == cachePointer .. cachePointer + n - 1
<1>1. /\ cachePointer \in Nat /\ total \in Nat
      /\ \A c \in InUse : c \in Nat /\ c < cachePointer /\ buffer[c].insDic \in 1 .. total
  BY BufferSizeAssumption, CacheNumTracesAssumption
  DEF CacheInv, CacheTypeOK, BufferInOrder, InUse, Slot
<1>2. /\ total >= 1 /\ diskAddress[total] = job.lba
      /\ \A c \in InUse : buffer[c].insDic = total => buffer[c].fid = job.fid
  BY DEF CacheInv, JobIsLatest
<1>3. /\ cachePointer' = cachePointer + n
      /\ InUse' = InUse \cup new
      /\ \A c \in InUse : buffer'[c] = buffer[c]
      /\ \A c \in new : /\ buffer'[c].diskAddress = job.lba
                        /\ buffer'[c].fid = job.fid
                        /\ buffer'[c].insDic = total
  BY FillEffect
<1>4. \A c \in new : c \in Int /\ cachePointer <= c /\ c < cachePointer + n BY <1>1
<1> HIDE DEF new
<1>5. \A c \in InUse' : c < cachePointer' BY <1>1, <1>3, <1>4
<1>6. \A c, d \in InUse' : c < d => buffer'[c].insDic <= buffer'[d].insDic
  <2>1. SUFFICES ASSUME NEW c \in InUse', NEW d \in InUse', c < d
                 PROVE  buffer'[c].insDic <= buffer'[d].insDic
    OBVIOUS
  <2>2. CASE c \in InUse /\ d \in InUse
    BY <1>3, <2>1, <2>2 DEF CacheInv, BufferInOrder
  <2>3. CASE c \in InUse /\ d \in new BY <1>1, <1>3, <2>3
  <2>4. CASE c \in new /\ d \in InUse BY <1>1, <1>4, <2>1, <2>4
  <2>5. CASE c \in new /\ d \in new BY <1>1, <1>3, <2>5
  <2> QED BY <1>3, <2>1, <2>2, <2>3, <2>4, <2>5
<1>7. \A c \in InUse' : /\ buffer'[c].insDic \in 1 .. total
                        /\ diskAddress[buffer'[c].insDic] = buffer'[c].diskAddress
  BY <1>1, <1>2, <1>3 DEF CacheInv, BufferInOrder
<1>8. \A c \in InUse' : buffer'[c].insDic = total => buffer'[c].fid = job.fid
  BY <1>2, <1>3
<1>9. \A c, d \in InUse' :
          buffer'[c].insDic = buffer'[d].insDic => buffer'[c].fid = buffer'[d].fid
  BY <1>2, <1>3 DEF CacheInv, BufferInOrder
<1> QED BY <1>5, <1>6, <1>7, <1>8, <1>9 DEF BufferInOrder

-----------------------------------------------------------------------------
(* The inductive step, one lemma per kind of action.                       *)

LEMMA InitInv == Init => CacheInv
<1> SUFFICES ASSUME Init PROVE CacheInv OBVIOUS
<1> USE BufferSizeAssumption, CacheNumTracesAssumption DEF Init
<1>1. CacheTypeOK BY DEF CacheTypeOK, Owner, NoJob, NoRun, NoAnswer
<1>2. InUse = {} BY DEF InUse
<1>3. BufferInOrder BY <1>2 DEF BufferInOrder
<1>4. FlushClears /\ JobIsLatest BY DEF FlushClears, JobIsLatest
<1> QED BY <1>1, <1>3, <1>4 DEF CacheInv

\* The end of a line's counting.
LEMMA CountedType ==
  ASSUME CacheTypeOK, Line, total' \in {total, total + 1}
  PROVE  total' \in 0 .. NumTraces /\ left' \in 0 .. NumTraces - total' /\ total' >= total
<1>1. /\ total \in Int /\ 0 <= total /\ total <= NumTraces
      /\ left \in Int /\ left > 0 /\ left <= NumTraces - total /\ left' = left - 1
  BY CacheNumTracesAssumption DEF CacheTypeOK, Line
<1>2. total' = total \/ total' = total + 1 OBVIOUS
<1>3. NumTraces \in Int BY CacheNumTracesAssumption
<1>4. CASE total' = total BY <1>1, <1>3, <1>4
<1>5. CASE total' = total + 1 BY <1>1, <1>3, <1>5
<1> QED BY <1>2, <1>4, <1>5

LEMMA ReadKeepsInv ==
  ASSUME CacheInv, NEW r \in ReadRanges, NEW fid \in Fid, ReadLine(r[1], r[2], fid)
  PROVE  CacheInv'
<1> USE DEF ReadLine, Numbered
<1>1. pc = "lines" /\ pc' = "lines" BY DEF Line
<1>2. r[1] \in Nat /\ r[2] \in Nat BY CacheRangesAssumption
<1>3. answer' \in [cache : Nat, disk : Nat] BY <1>2, ReadAnswerType
<1>4. /\ total' \in 0 .. NumTraces /\ left' \in 0 .. NumTraces - total' /\ total' >= total
      /\ total \in Nat
  BY CountedType, CacheNumTracesAssumption DEF CacheInv, CacheTypeOK
<1>5. CacheTypeOK' BY <1>1, <1>3, <1>4 DEF CacheInv, CacheTypeOK
<1>6. BufferInOrder'
  BY <1>4, SameBufferShrinks, ShrinkKeepsOrder DEF CacheInv, CacheTypeOK
<1> QED BY <1>1, <1>5, <1>6 DEF CacheInv, FlushClears, JobIsLatest

LEMMA DeleteKeepsInv ==
  ASSUME CacheInv, NEW lba, NEW n, NEW fid \in Fid, DeleteLine(lba, n, fid)
  PROVE  CacheInv'
<1> USE DEF DeleteLine, Numbered
<1>1. pc = "lines" /\ pc' = "lines" BY DEF Line
<1>2. NoFid \in Owner BY DEF Owner
<1>3. /\ home' \in [DiskStore!Lba -> Owner]
      /\ cached' \in [CacheStore!Lba -> Owner]
  BY <1>2, DiskPassed, CachePassed DEF CacheInv, CacheTypeOK
<1>4. \A c \in Slot : buffer'[c] \in {buffer[c], [buffer[c] EXCEPT !.inUsed = FALSE]}
  OBVIOUS
<1>5. /\ Shrinks
      /\ buffer' \in [Slot -> [inUsed : BOOLEAN, diskAddress : Nat, fid : Owner,
                               insDic : 0 .. NumTraces]]
  <2>1. buffer' \in [Slot -> [inUsed : BOOLEAN, diskAddress : Nat, fid : Owner,
                              insDic : 0 .. NumTraces]]
    BY DEF CacheInv, CacheTypeOK
  <2>2. Shrinks BY <1>4 DEF Shrinks, InUse, CacheInv, CacheTypeOK
  <2> QED BY <2>1, <2>2
<1>6. answer' \in [cache : Nat, disk : Nat] BY DEF NoAnswer
<1>7. /\ total' \in 0 .. NumTraces /\ left' \in 0 .. NumTraces - total' /\ total' >= total
      /\ total \in Nat
  BY CountedType, CacheNumTracesAssumption DEF CacheInv, CacheTypeOK
<1>8. CacheTypeOK' BY <1>1, <1>3, <1>5, <1>6, <1>7 DEF CacheInv, CacheTypeOK
<1>9. BufferInOrder'
  BY <1>5, <1>7, ShrinkKeepsOrder DEF CacheInv, CacheTypeOK
<1> QED BY <1>1, <1>8, <1>9 DEF CacheInv, FlushClears, JobIsLatest

LEMMA WriteKeepsInv ==
  ASSUME CacheInv, NEW r \in WriteRanges, NEW fid \in Fid, WriteLine(r[1], r[2], fid)
  PROVE  CacheInv'
<1> USE DEF WriteLine, Numbered
<1>1. pc = "lines" /\ pc' = "write" BY DEF Line
<1>2. r[1] \in Nat /\ r[2] \in Nat BY CacheRangesAssumption
<1>3. /\ total' \in 0 .. NumTraces /\ left' \in 0 .. NumTraces - total' /\ total' = total + 1
      /\ total \in 0 .. NumTraces /\ total' \in 1 .. NumTraces
  BY CountedType, CacheNumTracesAssumption DEF CacheInv, CacheTypeOK
<1>4. /\ diskAddress' \in [1 .. NumTraces -> Nat]
      /\ diskAddress'[total'] = r[1]
      /\ \A q \in 1 .. total : diskAddress'[q] = diskAddress[q]
  <2>1. diskAddress' = [diskAddress EXCEPT ![total'] = r[1]] OBVIOUS
  <2>2. diskAddress \in [1 .. NumTraces -> Nat] BY DEF CacheInv, CacheTypeOK
  <2>3. \A q \in 1 .. total : q \in 1 .. NumTraces /\ q # total'
    BY <1>3, CacheNumTracesAssumption
  <2> QED BY <1>2, <1>3, <2>1, <2>2, <2>3
<1>5. CacheTypeOK'
  BY <1>1, <1>2, <1>3, <1>4 DEF CacheInv, CacheTypeOK, NoAnswer, Owner
<1>6. BufferInOrder'
  BY <1>3, <1>4, CacheNumTracesAssumption, SameBufferShrinks, ShrinkKeepsOrder
  DEF CacheInv, CacheTypeOK
<1>7. \A c \in InUse' : buffer'[c].insDic # total'
  BY <1>3, CacheNumTracesAssumption DEF CacheInv, BufferInOrder, InUse
<1>8. JobIsLatest' BY <1>1, <1>3, <1>4, <1>7 DEF JobIsLatest
<1> QED BY <1>1, <1>5, <1>6, <1>8 DEF CacheInv, FlushClears

\* Lines without a request, the end of the trace, and stuttering.
LEMMA QuietKeepsInv ==
  ASSUME CacheInv, UnknownLine \/ CommentLine \/ EndOfTrace \/ UNCHANGED vars
  PROVE  CacheInv'
<1> USE DEF NoAnswer
<1>1. CASE UnknownLine \/ CommentLine
  <2>1. /\ total' \in 0 .. NumTraces /\ left' \in 0 .. NumTraces - total' /\ total' >= total
        /\ total \in Nat
    BY <1>1, CountedType, CacheNumTracesAssumption
    DEF UnknownLine, CommentLine, Numbered, CacheInv, CacheTypeOK
  <2>2. pc' = "lines" BY <1>1 DEF UnknownLine, CommentLine, Numbered, Line
  <2>3. CacheTypeOK'
    BY <1>1, <2>1, <2>2 DEF UnknownLine, CommentLine, CacheInv, CacheTypeOK
  <2>4. BufferInOrder'
    BY <1>1, <2>1, SameBufferShrinks, ShrinkKeepsOrder
    DEF UnknownLine, CommentLine, CacheInv
  <2> QED BY <2>2, <2>3, <2>4 DEF CacheInv, FlushClears, JobIsLatest
<1>2. CASE EndOfTrace
  <2>1. pc' \in {"done", "failed"} BY <1>2 DEF EndOfTrace
  <2>2. CacheTypeOK' BY <1>2, <2>1 DEF EndOfTrace, CacheInv, CacheTypeOK
  <2>3. BufferInOrder' BY <1>2 DEF EndOfTrace, CacheInv, BufferInOrder, InUse
  <2> QED BY <2>1, <2>2, <2>3 DEF CacheInv, FlushClears, JobIsLatest
<1>3. CASE UNCHANGED vars
  BY <1>3 DEF vars, CacheInv, CacheTypeOK, BufferInOrder, FlushClears, JobIsLatest, InUse
<1> QED BY <1>1, <1>2, <1>3

LEMMA FillKeepsInv ==
  ASSUME CacheInv, FillPart \/ FillRest
  PROVE  CacheInv'
<1>1. /\ pc = "write" /\ job \in [fid : Owner, lba : Nat, rest : Nat] /\ Remain \in Nat
      /\ UNCHANGED <<home, total, diskAddress, run, answer, left>>
  BY BufferSizeAssumption DEF FillPart, FillRest, Remain, CacheInv, CacheTypeOK
<1>2. PICK n \in Nat :
         /\ n <= Remain /\ Fill(n)
         /\ \/ job' = [job EXCEPT !.rest = @ - n] /\ n < job.rest /\ pc' = "write"
            \/ job' = NoJob /\ pc' = "lines"
  BY <1>1 DEF FillPart, FillRest, Less
<1>3. CacheTypeOK'
  <2>1. job' \in [fid : Owner, lba : Nat, rest : Nat] BY <1>1, <1>2 DEF NoJob, Owner
  <2> QED BY <1>1, <1>2, <2>1, FillEffect DEF CacheInv, CacheTypeOK
<1>4. /\ BufferInOrder'
      /\ \A c \in InUse' : buffer'[c].insDic = total => buffer'[c].fid = job.fid
  BY <1>1, <1>2, FillKeepsOrder
<1>5. JobIsLatest' BY <1>1, <1>2, <1>4 DEF CacheInv, JobIsLatest
<1> QED BY <1>2, <1>3, <1>4, <1>5 DEF CacheInv, FlushClears

LEMMA StartFlushKeepsInv ==
  ASSUME CacheInv, StartFlush
  PROVE  CacheInv'
<1> USE DEF StartFlush
<1>1. CacheTypeOK'
  BY BufferSizeAssumption, CacheNumTracesAssumption DEF CacheInv, CacheTypeOK, NoRun, Owner
<1>2. BufferInOrder' BY DEF CacheInv, BufferInOrder, InUse
<1>3. FlushClears' BY BufferSizeAssumption DEF FlushClears, NoRun, InUse, Slot
<1>4. JobIsLatest' BY DEF CacheInv, JobIsLatest, InUse
<1> QED BY <1>1, <1>2, <1>3, <1>4 DEF CacheInv

\* The disk and the cache after a run has been written.
LEMMA WriteHomeType ==
  ASSUME CacheTypeOK, WriteHome
  PROVE  home' \in [DiskStore!Lba -> Owner] /\ cached' \in [CacheStore!Lba -> Owner]
<1>1. run.fid \in Owner /\ NoFid \in Owner BY DEF CacheTypeOK, Owner
<1> QED BY <1>1, DiskPassed, CachePassed DEF WriteHome, CacheTypeOK

LEMMA FlushSlotKeepsInv ==
  ASSUME CacheInv, FlushSlot
  PROVE  CacheInv'
<1> DEFINE c == run.next
<1> USE BufferSizeAssumption
<1>1. /\ pc = "flush" /\ c \in Slot
      /\ UNCHANGED <<cachePointer, diskAddress, total, job, answer, pc, left>>
      /\ buffer[c] \in [inUsed : BOOLEAN, diskAddress : Nat, fid : Owner,
                        insDic : 0 .. NumTraces]
      /\ run \in [next : 0 .. BufferSize, ins : 0 .. NumTraces, fid : Owner, n : Nat]
  BY DEF FlushSlot, CacheInv, CacheTypeOK, Slot
<1>2. \/ buffer' = buffer /\ ~ buffer[c].inUsed
      \/ buffer' = GiveUp(c)
  BY DEF FlushSlot
<1>3. /\ Shrinks /\ c \notin InUse'
      /\ buffer' \in [Slot -> [inUsed : BOOLEAN, diskAddress : Nat, fid : Owner,
                               insDic : 0 .. NumTraces]]
  BY <1>1, <1>2, SameBufferShrinks, GiveUpShrinks DEF CacheInv, CacheTypeOK, InUse
<1>4. /\ run'.next = c + 1
      /\ run' \in [next : 0 .. BufferSize, ins : 0 .. NumTraces, fid : Owner, n : Nat]
  <2>1. c + 1 \in 0 .. BufferSize BY <1>1 DEF Slot
  <2>2. \/ run' = [run EXCEPT !.next = c + 1]
        \/ run' = [run EXCEPT !.next = c + 1, !.n = @ + 1]
        \/ run' = StartRun(c)
    BY DEF FlushSlot
  <2>3. StartRun(c) \in [next : 0 .. BufferSize, ins : 0 .. NumTraces, fid : Owner, n : Nat]
        /\ StartRun(c).next = c + 1
    BY <1>1, <2>1 DEF StartRun
  <2> HIDE DEF c
  <2>4. CASE run' = [run EXCEPT !.next = c + 1] BY <1>1, <2>1, <2>4
  <2>5. CASE run' = [run EXCEPT !.next = c + 1, !.n = @ + 1]
    <3>1. run.n + 1 \in Nat BY <1>1
    <3>2. run' = [next |-> c + 1, ins |-> run.ins, fid |-> run.fid, n |-> run.n + 1]
      BY <1>1, <2>5
    <3> QED BY <1>1, <2>1, <3>1, <3>2
  <2>6. CASE run' = StartRun(c) BY <2>3, <2>6
  <2> QED BY <2>2, <2>4, <2>5, <2>6
<1>5. home' \in [DiskStore!Lba -> Owner] /\ cached' \in [CacheStore!Lba -> Owner]
  BY WriteHomeType DEF FlushSlot, CacheInv, CacheTypeOK
<1>6. CacheTypeOK' BY <1>1, <1>3, <1>4, <1>5 DEF CacheInv, CacheTypeOK
<1>7. BufferInOrder'
  BY <1>1, <1>3, CacheNumTracesAssumption, ShrinkKeepsOrder DEF CacheInv, CacheTypeOK
<1>8. FlushClears'
  BY <1>1, <1>3, <1>4 DEF CacheInv, FlushClears, Shrinks, InUse, Slot
<1>9. JobIsLatest' BY <1>1, <1>3 DEF CacheInv, JobIsLatest, Shrinks
<1> QED BY <1>6, <1>7, <1>8, <1>9 DEF CacheInv

\* At its end a flush has emptied the buffer, so that the pointer may go back.
LEMMA EndFlushKeepsInv ==
  ASSUME CacheInv, EndFlush
  PROVE  CacheInv'
<1> USE BufferSizeAssumption, CacheNumTracesAssumption
<1>1. /\ pc = "flush" /\ run.next = BufferSize /\ pc' = "write"
      /\ cachePointer' = 0 /\ run' = NoRun
      /\ UNCHANGED <<buffer, diskAddress, total, job, answer, left>>
  BY DEF EndFlush, Rewound
<1>2. home' \in [DiskStore!Lba -> Owner] /\ cached' \in [CacheStore!Lba -> Owner]
  BY WriteHomeType DEF EndFlush, CacheInv, CacheTypeOK
<1>3. CacheTypeOK' BY <1>1, <1>2 DEF CacheInv, CacheTypeOK, NoRun, Owner
<1>4. InUse' = {} BY <1>1 DEF CacheInv, FlushClears, InUse, Slot
<1>5. BufferInOrder' /\ FlushClears' BY <1>4 DEF BufferInOrder, FlushClears
<1>6. JobIsLatest' BY <1>1, <1>4 DEF CacheInv, JobIsLatest
<1> QED BY <1>3, <1>5, <1>6 DEF CacheInv

-----------------------------------------------------------------------------
(* The theorems.                                                           *)

\* The types of the cache, the order of its slots, and what a flush and the
\* write that caused it have established so far hold at every step.
THEOREM CacheInvariance == Spec => []CacheInv
<1>1. CacheInv /\ [Next]_vars => CacheInv'
  <2> SUFFICES ASSUME CacheInv, [Next]_vars PROVE CacheInv' OBVIOUS
  <2>1. ASSUME NEW fid \in Fid, NEW r \in ReadRanges, ReadLine(r[1], r[2], fid)
        PROVE  CacheInv'
    BY <2>1, ReadKeepsInv
  <2>2. ASSUME NEW fid \in Fid, NEW r \in WriteRanges, WriteLine(r[1], r[2], fid)
        PROVE  CacheInv'
    BY <2>2, WriteKeepsInv
  <2>3. ASSUME NEW fid \in Fid, NEW r \in DeleteRanges, DeleteLine(r[1], r[2], fid)
        PROVE  CacheInv'
    BY <2>3, DeleteKeepsInv
  <2>4. CASE UnknownLine \/ CommentLine \/ EndOfTrace \/ UNCHANGED vars
    BY <2>4, QuietKeepsInv
  <2>5. CASE Step
    BY <2>5, FillKeepsInv, StartFlushKeepsInv, FlushSlotKeepsInv, EndFlushKeepsInv DEF Step
  <2> QED BY <2>1, <2>2, <2>3, <2>4, <2>5 DEF Next
<1> QED BY InitInv, <1>1, PTL DEF Spec

\* Every variable keeps its type: no slot, no request number and no run of a
\* flush leaves its array, for a buffer of any size.
THEOREM CacheTypeCorrect == Spec => []CacheTypeOK
<1>1. CacheInv => CacheTypeOK BY DEF CacheInv
<1> QED BY <1>1, CacheInvariance, PTL

\* The slots in use lie behind cachePointer in the order of their requests, and
\* agree with the table of addresses that a flush consults.
THEOREM SlotsStayInOrder == Spec => []BufferInOrder
<1>1. CacheInv => BufferInOrder BY DEF CacheInv
<1> QED BY <1>1, CacheInvariance, PTL

\* The history only observes: with it or without it, the cache takes the same
\* steps, so that what is proved here of Cache holds of the specification that
\* TLC checks.
THEOREM HistoryObserves == HistorySpec => Spec
<1>1. HistoryInit => Init BY DEF HistoryInit
<1>2. [HistoryNext]_historyVars => [Next]_vars
  BY DEF HistoryNext, historyVars, Next, Step
<1> QED BY <1>1, <1>2, PTL DEF HistorySpec, Spec

-----------------------------------------------------------------------------
(* What the history knows, and the program forgets.                        *)

HistoryType ==
    /\ asked \in [Request -> [lba : Nat, n : Nat, fid : Owner]]
    /\ flushed \in [Request -> Nat] /\ dropped \in [Request -> Nat]
    /\ gone \in SUBSET Fid /\ deleted \in BOOLEAN

\* Outside of a write, or of a flush, its locals are as at the start.
Idle == /\ pc \notin {"write", "flush"} => job = NoJob
        /\ pc # "flush" => run = NoRun

\* Slots, the write at hand and the run at hand are of the files and of the
\* addresses that their requests named; nothing is asked by lines to come.
AskedAgrees ==
    /\ \A q \in Request : q > total => asked[q].n = 0
    /\ \A q \in Request : asked[q].lba = diskAddress[q]
    /\ \A c \in InUse : /\ buffer[c].fid = asked[buffer[c].insDic].fid
                        /\ buffer[c].fid \in Fid
    /\ pc \in {"write", "flush"} => job.fid = asked[total].fid /\ job.fid \in Fid
    /\ run.ins # 0 => /\ run.ins \in 1 .. total
                      /\ run.fid = asked[run.ins].fid /\ run.fid \in Fid

HistoryInv == CacheInv /\ HistoryType /\ Idle /\ AskedAgrees

BufferType == buffer \in [Slot -> [inUsed : BOOLEAN, diskAddress : Nat, fid : Owner,
                                   insDic : 0 .. NumTraces]]

LEMMA SlotOfRequest ==
  ASSUME CacheInv, NEW c \in InUse
  PROVE  c \in Slot /\ buffer[c].insDic \in Request /\ buffer[c].insDic \in 1 .. total
BY CacheNumTracesAssumption DEF CacheInv, CacheTypeOK, BufferInOrder, InUse, Request

LEMMA InitHistory == HistoryInit => HistoryInv
<1> SUFFICES ASSUME HistoryInit PROVE HistoryInv OBVIOUS
<1>1. CacheInv BY InitInv DEF HistoryInit
<1>2. HistoryType BY DEF HistoryInit, HistoryType, Owner
<1>3. Idle BY DEF HistoryInit, Init, Idle
<1>4. InUse = {} BY DEF HistoryInit, Init, InUse
<1>5. AskedAgrees BY <1>4 DEF HistoryInit, Init, AskedAgrees, NoRun, Request
<1> QED BY <1>1, <1>2, <1>3, <1>5 DEF HistoryInv

LEMMA NextInv == CacheInv /\ [Next]_vars => CacheInv'
<1> SUFFICES ASSUME CacheInv, [Next]_vars PROVE CacheInv' OBVIOUS
<1>1. ASSUME NEW fid \in Fid, NEW r \in ReadRanges, ReadLine(r[1], r[2], fid)
      PROVE  CacheInv'
  BY <1>1, ReadKeepsInv
<1>2. ASSUME NEW fid \in Fid, NEW r \in WriteRanges, WriteLine(r[1], r[2], fid)
      PROVE  CacheInv'
  BY <1>2, WriteKeepsInv
<1>3. ASSUME NEW fid \in Fid, NEW r \in DeleteRanges, DeleteLine(r[1], r[2], fid)
      PROVE  CacheInv'
  BY <1>3, DeleteKeepsInv
<1>4. CASE UnknownLine \/ CommentLine \/ EndOfTrace \/ UNCHANGED vars
  BY <1>4, QuietKeepsInv
<1>5. CASE Step
  BY <1>5, FillKeepsInv, StartFlushKeepsInv, FlushSlotKeepsInv, EndFlushKeepsInv DEF Step
<1> QED BY <1>1, <1>2, <1>3, <1>4, <1>5 DEF Next

-----------------------------------------------------------------------------
(* The steps, as what they do to the slots and to the history.             *)

\* A line that is no write, or a stuttering step, or the end of the trace.
QuietStep ==
    \/ \E fid \in Fid, r \in ReadRanges : ReadLine(r[1], r[2], fid)
    \/ UnknownLine \/ CommentLine \/ EndOfTrace \/ UNCHANGED vars

LEMMA QuietEffect ==
  ASSUME CacheInv, QuietStep
  PROVE  /\ UNCHANGED <<home, cached, buffer, cachePointer, diskAddress, job, run>>
         /\ total' \in Nat /\ total' >= total
         /\ \/ pc = "lines" /\ pc' \in {"lines", "done", "failed"}
            \/ pc' = pc /\ total' = total
<1>1. total \in Nat BY CacheNumTracesAssumption DEF CacheInv, CacheTypeOK
<1> QED BY <1>1 DEF QuietStep, ReadLine, UnknownLine, CommentLine, EndOfTrace, Numbered, Line, vars

LEMMA NextCases ==
  ASSUME [HistoryNext]_historyVars
  PROVE  \/ QuietStep /\ UNCHANGED history
         \/ \E fid \in Fid, r \in WriteRanges :
               /\ WriteLine(r[1], r[2], fid)
               /\ asked' = [asked EXCEPT ![total'] = [lba |-> r[1], n |-> r[2], fid |-> fid]]
               /\ UNCHANGED <<flushed, dropped, gone, deleted>>
         \/ \E fid \in Fid, r \in DeleteRanges :
               /\ DeleteLine(r[1], r[2], fid)
               /\ dropped' = [q \in Request |-> dropped[q] + Cardinality(GivenUp(q))]
               /\ deleted' = TRUE
               /\ UNCHANGED <<asked, flushed, gone>>
         \/ StartFlush /\ gone' = {} /\ UNCHANGED <<asked, flushed, dropped, deleted>>
         \/ FlushSlot /\ RecordFlush /\ UNCHANGED <<asked, dropped, deleted>>
         \/ EndFlush /\ RecordFlush /\ UNCHANGED <<asked, dropped, deleted>>
         \/ (FillPart \/ FillRest) /\ UNCHANGED history
BY DEF HistoryNext, historyVars, QuietStep

\* A delete only gives up slots, and blocks of both stores.
LEMMA DeleteEffect ==
  ASSUME CacheInv, NEW lba, NEW n, NEW fid \in Fid, DeleteLine(lba, n, fid)
  PROVE  /\ Shrinks /\ pc = "lines" /\ pc' = "lines" /\ total' = total + 1
         /\ UNCHANGED <<cachePointer, diskAddress, job, run>>
         /\ \A l \in DiskStore!Lba : home'[l] \in {home[l], NoFid}
         /\ \A c \in Slot : cached'[c] \in {cached[c], NoFid}
<1>1. \A c \in Slot : buffer'[c] \in {buffer[c], [buffer[c] EXCEPT !.inUsed = FALSE]}
  BY DEF DeleteLine
<1>2. Shrinks BY <1>1 DEF Shrinks, InUse, CacheInv, CacheTypeOK
<1>3. \A l \in DiskStore!Lba : home'[l] \in {home[l], NoFid}
  BY DEF DeleteLine, DiskStore!Passed
<1>4. \A c \in Slot : cached'[c] \in {cached[c], NoFid}
  BY DEF DeleteLine, CacheStore!Passed, CacheStore!Lba, Slot, CacheInv, CacheTypeOK
<1> QED BY <1>2, <1>3, <1>4 DEF DeleteLine, Numbered, Line

\* What a filling does, in a part or at the end of a write.
LEMMA FillCases ==
  ASSUME CacheInv, FillPart \/ FillRest
  PROVE  \E n \in Nat :
            /\ n <= Remain /\ n <= job.rest /\ Fill(n) /\ pc = "write"
            /\ UNCHANGED <<home, diskAddress, total, run>>
            /\ \/ job' = [job EXCEPT !.rest = @ - n] /\ pc' = "write"
               \/ job' = NoJob /\ pc' = "lines" /\ n = job.rest
<1>1. Remain \in Nat /\ job.rest \in Nat
  BY BufferSizeAssumption DEF Remain, CacheInv, CacheTypeOK
<1> QED BY <1>1 DEF FillPart, FillRest, Less

\* A step of a flush: a slot that is not in use, one that goes on with the run,
\* or one that starts a run, after the run before it was written.
LEMMA FlushCases ==
  ASSUME CacheInv, FlushSlot
  PROVE  LET c == run.next
         IN  /\ c \in Slot /\ pc = "flush" /\ pc' = "flush" /\ run'.next = c + 1
             /\ UNCHANGED <<cachePointer, diskAddress, total, job>>
             /\ \/ /\ c \notin InUse /\ UNCHANGED <<home, cached, buffer>> /\ ~ EndsRun
                   /\ run' = [run EXCEPT !.next = c + 1]
                \/ /\ c \in InUse /\ buffer' = GiveUp(c) /\ ~ EndsRun
                   /\ UNCHANGED <<home, cached>>
                   /\ \/ run.ins = 0 /\ run' = StartRun(c)
                      \/ /\ run.ins # 0 /\ run.ins = buffer[c].insDic
                         /\ run' = [run EXCEPT !.next = c + 1, !.n = @ + 1]
                \/ /\ c \in InUse /\ buffer' = GiveUp(c) /\ EndsRun
                   /\ WriteHome /\ run' = StartRun(c)
<1> DEFINE c == run.next
<1>1. c \in Slot /\ pc = "flush" /\ pc' = "flush"
      /\ UNCHANGED <<cachePointer, diskAddress, total, job>>
  BY BufferSizeAssumption DEF FlushSlot, CacheInv, CacheTypeOK, Slot
<1>2. run \in [next : 0 .. BufferSize, ins : 0 .. NumTraces, fid : Owner, n : Nat]
  BY DEF CacheInv, CacheTypeOK
<1>3. c < BufferSize BY DEF FlushSlot
<1>4. \/ /\ ~ buffer[c].inUsed
         /\ run' = [run EXCEPT !.next = c + 1]
         /\ UNCHANGED <<home, cached, buffer>>
      \/ /\ buffer[c].inUsed /\ run.ins = 0
         /\ run' = StartRun(c)
         /\ buffer' = GiveUp(c)
         /\ UNCHANGED <<home, cached>>
      \/ /\ buffer[c].inUsed /\ run.ins # 0 /\ run.ins = buffer[c].insDic
         /\ run' = [run EXCEPT !.next = c + 1, !.n = @ + 1]
         /\ buffer' = GiveUp(c)
         /\ UNCHANGED <<home, cached>>
      \/ /\ EndsRun
         /\ WriteHome
         /\ run' = StartRun(c)
         /\ buffer' = GiveUp(c)
  BY DEF FlushSlot
<1>5. EndsRun <=> buffer[c].inUsed /\ run.ins # 0 /\ run.ins # buffer[c].insDic
  BY <1>3 DEF EndsRun
<1>6. c \in InUse <=> buffer[c].inUsed BY <1>1 DEF InUse
<1>7. run'.next = c + 1
  <2>1. StartRun(c).next = c + 1 BY DEF StartRun
  <2> HIDE DEF c
  <2> QED BY <1>2, <1>4, <2>1
<1> HIDE DEF c
<1>8. \/ /\ c \notin InUse /\ UNCHANGED <<home, cached, buffer>> /\ ~ EndsRun
         /\ run' = [run EXCEPT !.next = c + 1]
      \/ /\ c \in InUse /\ buffer' = GiveUp(c) /\ ~ EndsRun
         /\ UNCHANGED <<home, cached>>
         /\ \/ run.ins = 0 /\ run' = StartRun(c)
            \/ /\ run.ins # 0 /\ run.ins = buffer[c].insDic
               /\ run' = [run EXCEPT !.next = c + 1, !.n = @ + 1]
      \/ /\ c \in InUse /\ buffer' = GiveUp(c) /\ EndsRun
         /\ WriteHome /\ run' = StartRun(c)
  BY <1>4, <1>5, <1>6
<1> QED BY <1>1, <1>7, <1>8 DEF c

-----------------------------------------------------------------------------
(* The history agrees with the cache.                                      *)

\* A step that takes no new block keeps the agreement.
LEMMA ShrinkKeepsAsked ==
  ASSUME HistoryInv, Shrinks, UNCHANGED <<asked, diskAddress>>,
         total' \in Nat, total' >= total,
         pc' \in {"write", "flush"} =>
            pc \in {"write", "flush"} /\ job' = job /\ total' = total,
         run'.ins # 0 => \/ run'.ins = run.ins /\ run'.fid = run.fid
                         \/ \E c \in InUse : /\ run'.ins = buffer[c].insDic
                                             /\ run'.fid = buffer[c].fid
  PROVE  AskedAgrees'
<1>1. total \in Nat /\ \A q \in Request : q \in Nat
  BY CacheNumTracesAssumption DEF HistoryInv, CacheInv, CacheTypeOK, Request
<1>2. \A q \in Request : q > total' => asked'[q].n = 0
  BY <1>1 DEF HistoryInv, AskedAgrees
<1>3. \A q \in Request : asked'[q].lba = diskAddress'[q] BY DEF HistoryInv, AskedAgrees
<1>4. \A c \in InUse' : /\ buffer'[c].fid = asked'[buffer'[c].insDic].fid
                        /\ buffer'[c].fid \in Fid
  BY DEF HistoryInv, AskedAgrees, Shrinks
<1>5. pc' \in {"write", "flush"} => job'.fid = asked'[total'].fid /\ job'.fid \in Fid
  BY DEF HistoryInv, AskedAgrees
<1>6. run'.ins # 0 => /\ run'.ins \in 1 .. total'
                      /\ run'.fid = asked'[run'.ins].fid /\ run'.fid \in Fid
  <2> SUFFICES ASSUME run'.ins # 0
               PROVE  /\ run'.ins \in 1 .. total'
                      /\ run'.fid = asked'[run'.ins].fid /\ run'.fid \in Fid
    OBVIOUS
  <2>0. \A q \in 1 .. total : q \in 1 .. total' BY <1>1
  <2>1. CASE run'.ins = run.ins /\ run'.fid = run.fid
    BY <2>0, <2>1 DEF HistoryInv, AskedAgrees
  <2>2. ASSUME NEW c \in InUse, run'.ins = buffer[c].insDic, run'.fid = buffer[c].fid
        PROVE  /\ run'.ins \in 1 .. total'
               /\ run'.fid = asked'[run'.ins].fid /\ run'.fid \in Fid
    BY <2>0, <2>2, SlotOfRequest DEF HistoryInv, AskedAgrees
  <2> QED BY <2>1, <2>2
<1> QED BY <1>2, <1>3, <1>4, <1>5, <1>6 DEF AskedAgrees, Request

LEMMA QuietHistory ==
  ASSUME HistoryInv, QuietStep, UNCHANGED history
  PROVE  HistoryType' /\ Idle' /\ AskedAgrees'
<1>1. /\ UNCHANGED <<home, cached, buffer, cachePointer, diskAddress, job, run>>
      /\ total' \in Nat /\ total' >= total
      /\ \/ pc = "lines" /\ pc' \in {"lines", "done", "failed"}
         \/ pc' = pc /\ total' = total
  BY QuietEffect DEF HistoryInv
<1>2. HistoryType' BY DEF HistoryInv, HistoryType, history
<1>3. Idle' BY <1>1 DEF HistoryInv, Idle
<1>4. Shrinks BY <1>1, SameBufferShrinks
<1>5. AskedAgrees' BY <1>1, <1>4, ShrinkKeepsAsked DEF history
<1> QED BY <1>2, <1>3, <1>5

LEMMA DeleteHistory ==
  ASSUME HistoryInv, NEW lba, NEW n, NEW fid \in Fid, DeleteLine(lba, n, fid),
         dropped' = [q \in Request |-> dropped[q] + Cardinality(GivenUp(q))],
         deleted' = TRUE, UNCHANGED <<asked, flushed, gone>>
  PROVE  HistoryType' /\ Idle' /\ AskedAgrees'
<1>1. /\ Shrinks /\ pc = "lines" /\ pc' = "lines" /\ total' = total + 1
      /\ UNCHANGED <<cachePointer, diskAddress, job, run>>
  BY DeleteEffect DEF HistoryInv
<1>2. \A q \in Request : Cardinality(GivenUp(q)) \in Nat
  <2>1. IsFiniteSet(Slot) BY BufferSizeAssumption, FS_Interval DEF Slot
  <2>2. \A q \in Request : GivenUp(q) \in SUBSET Slot BY DEF GivenUp, Slots, InUse
  <2> QED BY <2>1, <2>2, FS_Subset, FS_CardinalityType
<1>3. HistoryType' BY <1>2 DEF HistoryInv, HistoryType
<1>4. Idle' BY <1>1 DEF HistoryInv, Idle
<1>5. total' \in Nat /\ total' >= total
  BY <1>1, CacheNumTracesAssumption DEF HistoryInv, CacheInv, CacheTypeOK
<1>6. AskedAgrees' BY <1>1, <1>5, ShrinkKeepsAsked
<1> QED BY <1>3, <1>4, <1>6

LEMMA WriteHistory ==
  ASSUME HistoryInv, NEW r \in WriteRanges, NEW fid \in Fid, WriteLine(r[1], r[2], fid),
         asked' = [asked EXCEPT ![total'] = [lba |-> r[1], n |-> r[2], fid |-> fid]],
         UNCHANGED <<flushed, dropped, gone, deleted>>
  PROVE  HistoryType' /\ Idle' /\ AskedAgrees'
<1>1. r[1] \in Nat /\ r[2] \in Nat BY CacheRangesAssumption
<1>2. /\ total \in Nat /\ total' = total + 1 /\ total' \in Request
      /\ UNCHANGED <<buffer, run>> /\ pc = "lines" /\ pc' = "write"
      /\ diskAddress' = [diskAddress EXCEPT ![total'] = r[1]]
      /\ job' = [fid |-> fid, lba |-> r[1], rest |-> r[2]]
  <2>1. total' \in 0 .. NumTraces
    BY CountedType DEF WriteLine, Numbered, HistoryInv, CacheInv
  <2> QED BY <2>1, CacheNumTracesAssumption
      DEF WriteLine, Numbered, Line, HistoryInv, CacheInv, CacheTypeOK, Request
<1>3. /\ asked \in [Request -> [lba : Nat, n : Nat, fid : Owner]]
      /\ diskAddress \in [Request -> Nat]
  BY DEF HistoryInv, HistoryType, CacheInv, CacheTypeOK, Request
<1>4. /\ asked'[total'] = [lba |-> r[1], n |-> r[2], fid |-> fid]
      /\ diskAddress'[total'] = r[1]
      /\ \A q \in Request : q # total' => asked'[q] = asked[q] /\ diskAddress'[q] = diskAddress[q]
  BY <1>2, <1>3
<1>5. HistoryType' BY <1>1, <1>2 DEF HistoryInv, HistoryType, Owner
<1>6. run = NoRun BY <1>2 DEF HistoryInv, Idle
<1>7. Idle' BY <1>2, <1>6 DEF Idle
<1>8. \A q \in Request : q \in Nat BY CacheNumTracesAssumption DEF Request
<1>9. \A q \in Request : q > total' => asked'[q].n = 0
  BY <1>2, <1>4, <1>8 DEF HistoryInv, AskedAgrees
<1>10. \A q \in Request : asked'[q].lba = diskAddress'[q]
  BY <1>4 DEF HistoryInv, AskedAgrees
<1>11. \A c \in InUse' : /\ buffer'[c].fid = asked'[buffer'[c].insDic].fid
                         /\ buffer'[c].fid \in Fid
  <2> SUFFICES ASSUME NEW c \in InUse
               PROVE  /\ buffer[c].fid = asked'[buffer[c].insDic].fid
                      /\ buffer[c].fid \in Fid
    BY <1>2 DEF InUse
  <2>1. buffer[c].insDic \in Request /\ buffer[c].insDic \in 1 .. total
    BY SlotOfRequest DEF HistoryInv
  <2>2. buffer[c].insDic # total' BY <1>2, <2>1
  <2> QED BY <1>4, <2>1, <2>2 DEF HistoryInv, AskedAgrees
<1>12. job'.fid = asked'[total'].fid /\ job'.fid \in Fid BY <1>2, <1>4
<1>13. run'.ins = 0 BY <1>2, <1>6 DEF NoRun
<1>14. AskedAgrees' BY <1>9, <1>10, <1>11, <1>12, <1>13 DEF AskedAgrees, Request
<1> QED BY <1>5, <1>7, <1>14

LEMMA FillHistory ==
  ASSUME HistoryInv, FillPart \/ FillRest, UNCHANGED history
  PROVE  HistoryType' /\ Idle' /\ AskedAgrees'
<1>1. PICK n \in Nat :
            /\ n <= Remain /\ n <= job.rest /\ Fill(n) /\ pc = "write"
            /\ UNCHANGED <<home, diskAddress, total, run>>
            /\ \/ job' = [job EXCEPT !.rest = @ - n] /\ pc' = "write"
               \/ job' = NoJob /\ pc' = "lines" /\ n = job.rest
  BY FillCases DEF HistoryInv
<1>2. HistoryType' BY DEF HistoryInv, HistoryType, history
<1>3. Idle' BY <1>1 DEF HistoryInv, Idle
<1>4. /\ InUse' = InUse \cup (cachePointer .. cachePointer + n - 1)
      /\ \A c \in InUse : buffer'[c] = buffer[c]
      /\ \A c \in cachePointer .. cachePointer + n - 1 :
            buffer'[c].fid = job.fid /\ buffer'[c].insDic = total
  BY <1>1, FillEffect DEF HistoryInv
<1>5. job.fid = asked[total].fid /\ job.fid \in Fid
  BY <1>1 DEF HistoryInv, AskedAgrees
<1>6. \A c \in InUse' : /\ buffer'[c].fid = asked[buffer'[c].insDic].fid
                        /\ buffer'[c].fid \in Fid
  BY <1>4, <1>5 DEF HistoryInv, AskedAgrees
<1>7. pc' = "write" => job'.fid = job.fid
  BY <1>1 DEF HistoryInv, CacheInv, CacheTypeOK
<1>8. pc' \in {"write", "flush"} => job'.fid = asked[total].fid /\ job'.fid \in Fid
  BY <1>1, <1>5, <1>7
<1>9. UNCHANGED <<asked, total, diskAddress, run>> BY <1>1 DEF history
<1>10. AskedAgrees' BY <1>6, <1>8, <1>9 DEF HistoryInv, AskedAgrees
<1> QED BY <1>2, <1>3, <1>10

LEMMA StartFlushHistory ==
  ASSUME HistoryInv, StartFlush, gone' = {}, UNCHANGED <<asked, flushed, dropped, deleted>>
  PROVE  HistoryType' /\ Idle' /\ AskedAgrees'
<1>1. /\ pc = "write" /\ pc' = "flush" /\ run' = NoRun
      /\ UNCHANGED <<buffer, diskAddress, total, job>>
  BY DEF StartFlush
<1>2. HistoryType' BY DEF HistoryInv, HistoryType
<1>3. Idle' BY <1>1 DEF Idle
<1>4. total \in Nat BY CacheNumTracesAssumption DEF HistoryInv, CacheInv, CacheTypeOK
<1>5. AskedAgrees' BY <1>1, <1>4, SameBufferShrinks, ShrinkKeepsAsked DEF NoRun
<1> QED BY <1>2, <1>3, <1>5

\* What a flush records is of a request.
LEMMA RecordType ==
  ASSUME HistoryInv, RecordFlush, EndsRun \/ run.ins # 0 \/ ~ Flushes
  PROVE  flushed' \in [Request -> Nat] /\ gone' \in SUBSET Fid
<1>1. /\ flushed \in [Request -> Nat] /\ gone \in SUBSET Fid
      /\ run.n \in Nat /\ Request = 1 .. NumTraces
  BY DEF HistoryInv, HistoryType, CacheInv, CacheTypeOK, Request
<1>2. CASE ~ Flushes BY <1>1, <1>2 DEF RecordFlush
<1>3. CASE Flushes
  <2>1. run.ins # 0 BY <1>3 DEF Flushes, EndsRun
  <2>2. run.ins \in Request /\ run.fid \in Fid
    BY <1>1, <2>1 DEF HistoryInv, AskedAgrees, CacheInv, CacheTypeOK
  <2>3. /\ flushed' = [flushed EXCEPT ![run.ins] = @ + run.n]
        /\ gone' = gone \cup {run.fid}
    BY <1>3 DEF RecordFlush, RunLength
  <2>4. flushed[run.ins] + run.n \in Nat BY <1>1, <2>2
  <2> QED BY <1>1, <2>2, <2>3, <2>4
<1> QED BY <1>2, <1>3

LEMMA FlushSlotHistory ==
  ASSUME HistoryInv, FlushSlot, RecordFlush, UNCHANGED <<asked, dropped, deleted>>
  PROVE  HistoryType' /\ Idle' /\ AskedAgrees'
<1> DEFINE c == run.next
<1>1. /\ c \in Slot /\ pc = "flush" /\ pc' = "flush"
      /\ UNCHANGED <<cachePointer, diskAddress, total, job>>
      /\ \/ c \notin InUse /\ UNCHANGED buffer /\ run' = [run EXCEPT !.next = c + 1]
         \/ /\ c \in InUse /\ buffer' = GiveUp(c)
            /\ \/ run' = StartRun(c)
               \/ run' = [run EXCEPT !.next = c + 1, !.n = @ + 1]
  BY FlushCases DEF HistoryInv
<1>2. Shrinks BY <1>1, SameBufferShrinks, GiveUpShrinks DEF HistoryInv, CacheInv
<1>3. run \in [next : 0 .. BufferSize, ins : 0 .. NumTraces, fid : Owner, n : Nat]
  BY DEF HistoryInv, CacheInv, CacheTypeOK
<1>4. \/ run'.ins = run.ins /\ run'.fid = run.fid
      \/ c \in InUse /\ run'.ins = buffer[c].insDic /\ run'.fid = buffer[c].fid
  <2>1. StartRun(c).ins = buffer[c].insDic /\ StartRun(c).fid = buffer[c].fid
    BY DEF StartRun
  <2> HIDE DEF c
  <2>2. CASE c \in InUse /\ run' = StartRun(c) BY <2>1, <2>2
  <2>3. CASE run' = [run EXCEPT !.next = c + 1] BY <1>3, <2>3
  <2>4. CASE run' = [run EXCEPT !.next = c + 1, !.n = @ + 1] BY <1>3, <2>4
  <2> QED BY <1>1, <2>2, <2>3, <2>4
<1>5. HistoryType'
  BY RecordType DEF HistoryInv, HistoryType, Flushes
<1>6. Idle' BY <1>1 DEF Idle
<1>7. total \in Nat BY CacheNumTracesAssumption DEF HistoryInv, CacheInv, CacheTypeOK
<1> HIDE DEF c
<1>8. AskedAgrees' BY <1>1, <1>2, <1>4, <1>7, ShrinkKeepsAsked
<1> QED BY <1>5, <1>6, <1>8

LEMMA EndFlushHistory ==
  ASSUME HistoryInv, EndFlush, RecordFlush, UNCHANGED <<asked, dropped, deleted>>
  PROVE  HistoryType' /\ Idle' /\ AskedAgrees'
<1>1. /\ pc = "flush" /\ pc' = "write" /\ run' = NoRun
      /\ UNCHANGED <<buffer, diskAddress, total, job>>
  BY DEF EndFlush
<1>2. HistoryType' BY RecordType DEF HistoryInv, HistoryType, Flushes
<1>3. Idle' BY <1>1 DEF Idle
<1>4. total \in Nat BY CacheNumTracesAssumption DEF HistoryInv, CacheInv, CacheTypeOK
<1>5. AskedAgrees' BY <1>1, <1>4, SameBufferShrinks, ShrinkKeepsAsked DEF NoRun
<1> QED BY <1>2, <1>3, <1>5

LEMMA NextHistory == HistoryInv /\ [HistoryNext]_historyVars => HistoryInv'
<1> SUFFICES ASSUME HistoryInv, [HistoryNext]_historyVars PROVE HistoryInv' OBVIOUS
<1>1. CacheInv'
  <2>1. [Next]_vars BY DEF HistoryNext, historyVars, Next, Step
  <2> QED BY <2>1, NextInv DEF HistoryInv
<1>2. HistoryType' /\ Idle' /\ AskedAgrees'
  BY NextCases, QuietHistory, DeleteHistory, WriteHistory, FillHistory, StartFlushHistory,
     FlushSlotHistory, EndFlushHistory
<1> QED BY <1>1, <1>2 DEF HistoryInv

-----------------------------------------------------------------------------
(* Where the blocks of each write are.                                     *)

Waiting(q) == IF q = total THEN job.rest ELSE 0
Running(q) == IF q = run.ins THEN run.n ELSE 0

Conserved(q) ==
    asked[q].n = flushed[q] + dropped[q] + Cardinality(Slots(q)) + Waiting(q) + Running(q)

LEMMA ConservedIsAll == BlocksConserved <=> \A q \in Request : Conserved(q)
BY DEF BlocksConserved, Conserved, Waiting, Running, Request

LEMMA SlotsCount ==
  ASSUME NEW q
  PROVE  IsFiniteSet(Slots(q)) /\ Cardinality(Slots(q)) \in Nat
<1>1. IsFiniteSet(Slot) BY BufferSizeAssumption, FS_Interval DEF Slot
<1>2. Slots(q) \in SUBSET Slot BY DEF Slots, InUse
<1> QED BY <1>1, <1>2, FS_Subset, FS_CardinalityType

LEMMA PartsAreNumbers ==
  ASSUME HistoryInv, NEW q \in Request
  PROVE  /\ asked[q].n \in Nat /\ flushed[q] \in Nat /\ dropped[q] \in Nat
         /\ Waiting(q) \in Nat /\ Running(q) \in Nat /\ q \in Nat /\ q # 0
BY CacheNumTracesAssumption
DEF HistoryInv, HistoryType, CacheInv, CacheTypeOK, Waiting, Running, Request

LEMMA QuietConserves ==
  ASSUME HistoryInv, NEW q \in Request, Conserved(q), QuietStep, UNCHANGED history
  PROVE  Conserved(q)'
<1>1. /\ UNCHANGED <<home, cached, buffer, cachePointer, diskAddress, job, run>>
      /\ total' \in Nat /\ total' >= total
      /\ \/ pc = "lines" /\ pc' \in {"lines", "done", "failed"}
         \/ pc' = pc /\ total' = total
  BY QuietEffect DEF HistoryInv
<1>2. Waiting(q)' = Waiting(q)
  <2>1. CASE pc = "lines"
    <3>1. job.rest = 0 BY <2>1 DEF HistoryInv, Idle, NoJob
    <3> QED BY <1>1, <3>1 DEF Waiting
  <2>2. CASE total' = total BY <1>1, <2>2 DEF Waiting
  <2> QED BY <1>1, <2>1, <2>2
<1>3. Running(q)' = Running(q) BY <1>1 DEF Running
<1>4. Slots(q)' = Slots(q) BY <1>1 DEF Slots, InUse
<1>5. UNCHANGED <<asked, flushed, dropped>> BY DEF history
<1> QED BY <1>2, <1>3, <1>4, <1>5 DEF Conserved

\* The new request has nothing anywhere yet.
LEMMA WriteConserves ==
  ASSUME HistoryInv, NEW q \in Request, Conserved(q),
         NEW r \in WriteRanges, NEW fid \in Fid, WriteLine(r[1], r[2], fid),
         asked' = [asked EXCEPT ![total'] = [lba |-> r[1], n |-> r[2], fid |-> fid]],
         UNCHANGED <<flushed, dropped, gone, deleted>>
  PROVE  Conserved(q)'
<1>1. /\ total \in Nat /\ total' = total + 1 /\ UNCHANGED <<buffer, run>> /\ pc = "lines"
      /\ job' = [fid |-> fid, lba |-> r[1], rest |-> r[2]]
  BY CacheNumTracesAssumption
  DEF WriteLine, Numbered, Line, HistoryInv, CacheInv, CacheTypeOK
<1>2. job.rest = 0 /\ run.ins = 0 BY <1>1 DEF HistoryInv, Idle, NoJob, NoRun
<1>3. Slots(q)' = Slots(q) BY <1>1 DEF Slots, InUse
<1>4. /\ asked[q].n \in Nat /\ flushed[q] \in Nat /\ dropped[q] \in Nat /\ q \in Nat /\ q # 0
      /\ Cardinality(Slots(q)) \in Nat
  BY PartsAreNumbers, SlotsCount
<1>5. Waiting(q) = 0 /\ Running(q) = 0 /\ Running(q)' = 0
  BY <1>1, <1>2, <1>4 DEF Waiting, Running
<1>6. asked \in [Request -> [lba : Nat, n : Nat, fid : Owner]]
  BY DEF HistoryInv, HistoryType
<1>7. CASE q = total'
  <2>1. asked[q].n = 0 BY <1>1, <1>7 DEF HistoryInv, AskedAgrees
  <2>2. flushed[q] = 0 /\ dropped[q] = 0 /\ Cardinality(Slots(q)) = 0
    BY <1>4, <1>5, <2>1 DEF Conserved
  <2>3. asked'[q].n = r[2] BY <1>6, <1>7
  <2>4. Waiting(q)' = r[2] BY <1>1, <1>7 DEF Waiting
  <2>5. r[2] \in Nat BY CacheRangesAssumption
  <2> QED BY <1>3, <1>5, <2>2, <2>3, <2>4, <2>5 DEF Conserved
<1>8. CASE q # total'
  <2>1. asked'[q] = asked[q] BY <1>6, <1>8
  <2>2. Waiting(q)' = 0 BY <1>8 DEF Waiting
  <2> QED BY <1>3, <1>5, <2>1, <2>2 DEF Conserved
<1> QED BY <1>7, <1>8

LEMMA DeleteConserves ==
  ASSUME HistoryInv, NEW q \in Request, Conserved(q),
         NEW lba, NEW n, NEW fid \in Fid, DeleteLine(lba, n, fid),
         dropped' = [p \in Request |-> dropped[p] + Cardinality(GivenUp(p))],
         UNCHANGED <<asked, flushed, gone>>
  PROVE  Conserved(q)'
<1>1. /\ Shrinks /\ pc = "lines" /\ UNCHANGED <<job, run>>
  BY DeleteEffect DEF HistoryInv
<1>2. Slots(q)' = Slots(q) \ GivenUp(q)
  <2>1. \A c \in Slot : c \in InUse' <=> buffer'[c].inUsed BY DEF InUse
  <2>2. \A c \in InUse' : c \in InUse /\ buffer'[c].insDic = buffer[c].insDic
    BY <1>1 DEF Shrinks
  <2>3. \A c \in InUse : \/ c \in InUse'
                         \/ ~ buffer'[c].inUsed
    BY <2>1 DEF InUse
  <2>4. \A c \in InUse' : buffer'[c].inUsed BY DEF InUse
  <2>5. \A c : c \in Slots(q)' <=> c \in InUse' /\ buffer'[c].insDic = q BY DEF Slots
  <2>6. \A c : c \in Slots(q) <=> c \in InUse /\ buffer[c].insDic = q BY DEF Slots
  <2>7. \A c : c \in GivenUp(q) <=> c \in Slots(q) /\ ~ buffer'[c].inUsed BY DEF GivenUp
  <2> QED BY <2>2, <2>3, <2>4, <2>5, <2>6, <2>7
<1>3. /\ IsFiniteSet(Slots(q)) /\ Cardinality(Slots(q)) \in Nat
      /\ GivenUp(q) \in SUBSET Slots(q)
  BY SlotsCount DEF GivenUp
<1>4. /\ Cardinality(Slots(q) \ GivenUp(q)) = Cardinality(Slots(q)) - Cardinality(GivenUp(q))
      /\ Cardinality(GivenUp(q)) \in Nat
  <2>1. Slots(q) \cap GivenUp(q) = GivenUp(q) BY <1>3
  <2>2. Cardinality(Slots(q) \ GivenUp(q)) =
           Cardinality(Slots(q)) - Cardinality(Slots(q) \cap GivenUp(q))
    BY <1>3, FS_Difference
  <2>3. IsFiniteSet(GivenUp(q)) BY <1>3, FS_Subset
  <2>4. Cardinality(GivenUp(q)) \in Nat BY <2>3, FS_CardinalityType
  <2> QED BY <2>1, <2>2, <2>4
<1>5. job.rest = 0 /\ run.ins = 0 BY <1>1 DEF HistoryInv, Idle, NoJob, NoRun
<1>6. asked[q].n \in Nat /\ flushed[q] \in Nat /\ dropped[q] \in Nat /\ q # 0
  BY PartsAreNumbers
<1>7. Waiting(q) = 0 /\ Running(q) = 0 /\ Waiting(q)' = 0 /\ Running(q)' = 0
  BY <1>1, <1>5, <1>6 DEF Waiting, Running
<1>8. dropped'[q] = dropped[q] + Cardinality(GivenUp(q)) OBVIOUS
<1> QED BY <1>2, <1>3, <1>4, <1>6, <1>7, <1>8 DEF Conserved

\* The slots filled are as many as the request is less afterwards.
LEMMA FillConserves ==
  ASSUME HistoryInv, NEW q \in Request, Conserved(q), FillPart \/ FillRest, UNCHANGED history
  PROVE  Conserved(q)'
<1>1. PICK n \in Nat :
            /\ n <= Remain /\ n <= job.rest /\ Fill(n) /\ pc = "write"
            /\ UNCHANGED <<home, diskAddress, total, run>>
            /\ \/ job' = [job EXCEPT !.rest = @ - n] /\ pc' = "write"
               \/ job' = NoJob /\ pc' = "lines" /\ n = job.rest
  BY FillCases DEF HistoryInv
<1> DEFINE new == cachePointer .. cachePointer + n - 1
<1>2. /\ InUse' = InUse \cup new
      /\ \A c \in InUse : buffer'[c] = buffer[c]
      /\ \A c \in new : buffer'[c].insDic = total
  BY <1>1, FillEffect DEF HistoryInv
<1>3. /\ job \in [fid : Owner, lba : Nat, rest : Nat] /\ cachePointer \in Nat
      /\ \A c \in InUse : c \in Int /\ c < cachePointer
  BY BufferSizeAssumption DEF HistoryInv, CacheInv, CacheTypeOK, BufferInOrder, InUse, Slot
<1>4. job'.rest = job.rest - n /\ job.rest \in Nat BY <1>1, <1>3 DEF NoJob
<1>5. IsFiniteSet(new) /\ Cardinality(new) = n
  <2>1. PICK last \in Int : last = cachePointer + n - 1 BY <1>3
  <2>2. IsFiniteSet(cachePointer .. last)
    BY <1>3, FS_Interval
  <2>3. Cardinality(cachePointer .. last) =
           IF cachePointer > last THEN 0 ELSE last - cachePointer + 1
    BY <1>3, FS_Interval
  <2>4. (IF cachePointer > last THEN 0 ELSE last - cachePointer + 1) = n
    BY <1>3, <2>1
  <2> QED BY <2>1, <2>2, <2>3, <2>4
<1>6. \A c \in new : c \notin InUse
  <2>1. \A c \in new : c >= cachePointer BY <1>3
  <2> QED BY <1>3, <2>1
<1> HIDE DEF new
<1>7. /\ asked[q].n \in Nat /\ flushed[q] \in Nat /\ dropped[q] \in Nat
      /\ Running(q) \in Nat /\ Running(q)' = Running(q) /\ Cardinality(Slots(q)) \in Nat
      /\ IsFiniteSet(Slots(q))
  BY <1>1, PartsAreNumbers, SlotsCount DEF Running
<1>8. UNCHANGED <<asked, flushed, dropped>> BY DEF history
<1>9. CASE q = total
  <2>1. Slots(q)' = Slots(q) \cup new BY <1>2, <1>9 DEF Slots
  <2>2. Slots(q) \cap new = {} BY <1>6 DEF Slots
  <2>3. Cardinality(Slots(q) \cup new) = Cardinality(Slots(q)) + n
    <3>1. Cardinality(Slots(q) \cup new) =
             Cardinality(Slots(q)) + Cardinality(new) - Cardinality(Slots(q) \cap new)
      BY <1>5, <1>7, FS_Union
    <3>2. Cardinality(Slots(q) \cap new) = 0 BY <2>2, FS_EmptySet
    <3> QED BY <1>5, <1>7, <3>1, <3>2
  <2>4. Waiting(q) = job.rest /\ Waiting(q)' = job.rest - n
    BY <1>1, <1>4, <1>9 DEF Waiting
  <2> QED BY <1>4, <1>7, <1>8, <2>1, <2>3, <2>4 DEF Conserved
<1>10. CASE q # total
  <2>1. Slots(q)' = Slots(q) BY <1>2, <1>6, <1>10 DEF Slots
  <2>2. Waiting(q) = 0 /\ Waiting(q)' = 0 BY <1>1, <1>10 DEF Waiting
  <2> QED BY <1>7, <1>8, <2>1, <2>2 DEF Conserved
<1> QED BY <1>9, <1>10

\* A slot given up is one less of its request.
LEMMA GiveUpSlots ==
  ASSUME CacheTypeOK, NEW c \in InUse, buffer' = GiveUp(c), NEW q
  PROVE  Cardinality(Slots(q)') =
            Cardinality(Slots(q)) - (IF buffer[c].insDic = q THEN 1 ELSE 0)
<1>1. \A d \in Slot : d # c => buffer'[d] = buffer[d] BY DEF GiveUp, CacheTypeOK
<1>2. c \in Slot /\ ~ buffer'[c].inUsed
  BY DEF GiveUp, CacheTypeOK, InUse
<1>3. \A d : d \in InUse' <=> d \in InUse /\ d # c BY <1>1, <1>2 DEF InUse
<1>4. Slots(q)' = Slots(q) \ {c} BY <1>1, <1>3 DEF Slots, InUse
<1>5. c \in Slots(q) <=> buffer[c].insDic = q BY DEF Slots
<1>6. IsFiniteSet(Slots(q)) /\ Cardinality(Slots(q)) \in Nat BY SlotsCount
<1>7. Cardinality(Slots(q) \ {c}) =
        IF c \in Slots(q) THEN Cardinality(Slots(q)) - 1 ELSE Cardinality(Slots(q))
  BY <1>6, FS_RemoveElement
<1>8. CASE buffer[c].insDic = q BY <1>4, <1>5, <1>7, <1>8
<1>9. CASE buffer[c].insDic # q BY <1>4, <1>5, <1>6, <1>7, <1>9
<1> QED BY <1>8, <1>9

LEMMA FlushSlotConserves ==
  ASSUME HistoryInv, NEW q \in Request, Conserved(q), FlushSlot, RecordFlush,
         UNCHANGED <<asked, dropped, deleted>>
  PROVE  Conserved(q)'
<1> PICK c : c = run.next OBVIOUS
<1>1. /\ c \in Slot /\ UNCHANGED <<total, job>>
      /\ \/ /\ c \notin InUse /\ UNCHANGED <<home, cached, buffer>> /\ ~ EndsRun
            /\ run' = [run EXCEPT !.next = c + 1]
         \/ /\ c \in InUse /\ buffer' = GiveUp(c) /\ ~ EndsRun
            /\ \/ run.ins = 0 /\ run' = StartRun(c)
               \/ /\ run.ins # 0 /\ run.ins = buffer[c].insDic
                  /\ run' = [run EXCEPT !.next = c + 1, !.n = @ + 1]
         \/ /\ c \in InUse /\ buffer' = GiveUp(c) /\ EndsRun /\ run' = StartRun(c)
  BY FlushCases DEF HistoryInv
<1>2. run \in [next : 0 .. BufferSize, ins : 0 .. NumTraces, fid : Owner, n : Nat]
  BY DEF HistoryInv, CacheInv, CacheTypeOK
<1>3. /\ asked[q].n \in Nat /\ flushed[q] \in Nat /\ dropped[q] \in Nat
      /\ Waiting(q) \in Nat /\ Running(q) \in Nat /\ q \in Nat /\ q # 0
      /\ Cardinality(Slots(q)) \in Nat
  BY PartsAreNumbers, SlotsCount
<1>4. Waiting(q)' = Waiting(q) BY <1>1 DEF Waiting
<1>5. Flushes <=> EndsRun
  BY <1>1, BufferSizeAssumption DEF Flushes, Slot
<1>6. PICK b : b = buffer[c].insDic OBVIOUS
<1>7. c \in InUse /\ buffer' = GiveUp(c) =>
        Cardinality(Slots(q)') = Cardinality(Slots(q)) - (IF b = q THEN 1 ELSE 0)
  BY <1>6, GiveUpSlots DEF HistoryInv, CacheInv
<1>8. StartRun(c).ins = b /\ StartRun(c).n = 1 BY <1>6 DEF StartRun
<1>9. CASE c \notin InUse /\ UNCHANGED buffer /\ ~ EndsRun /\ run' = [run EXCEPT !.next = c + 1]
  <2>1. run'.ins = run.ins /\ run'.n = run.n BY <1>2, <1>9
  <2>2. Running(q)' = Running(q) BY <2>1 DEF Running
  <2>3. UNCHANGED flushed BY <1>5, <1>9 DEF RecordFlush
  <2>4. Slots(q)' = Slots(q) BY <1>9 DEF Slots, InUse
  <2> QED BY <1>4, <2>2, <2>3, <2>4 DEF Conserved
<1>10. CASE c \in InUse /\ buffer' = GiveUp(c) /\ ~ EndsRun /\ run.ins = 0 /\ run' = StartRun(c)
  <2>1. Running(q) = 0 /\ Running(q)' = IF q = b THEN 1 ELSE 0
    BY <1>3, <1>8, <1>10 DEF Running
  <2>2. UNCHANGED flushed BY <1>5, <1>10 DEF RecordFlush
  <2> QED BY <1>3, <1>4, <1>7, <1>10, <2>1, <2>2 DEF Conserved
<1>11. CASE /\ c \in InUse /\ buffer' = GiveUp(c) /\ ~ EndsRun /\ run.ins = b
            /\ run' = [run EXCEPT !.next = c + 1, !.n = @ + 1]
  <2>1. run'.ins = b /\ run'.n = run.n + 1 BY <1>2, <1>11
  <2>2. run.n \in Nat BY <1>2
  <2>3. Running(q)' = Running(q) + (IF q = b THEN 1 ELSE 0)
    BY <1>11, <2>1, <2>2 DEF Running
  <2>4. UNCHANGED flushed BY <1>5, <1>11 DEF RecordFlush
  <2> QED BY <1>3, <1>4, <1>7, <1>11, <2>3, <2>4 DEF Conserved
<1>12. CASE c \in InUse /\ buffer' = GiveUp(c) /\ EndsRun /\ run' = StartRun(c)
  <2>1. flushed' = [flushed EXCEPT ![run.ins] = @ + run.n]
    BY <1>5, <1>12 DEF RecordFlush, RunLength
  <2>2. run.ins # b
    <3>1. run.ins # buffer[run.next].insDic BY <1>12 DEF EndsRun
    <3>2. buffer[run.next].insDic = b BY <1>6
    <3> QED BY <3>1, <3>2
  <2>3. flushed \in [Request -> Nat] /\ run.n \in Nat
    BY <1>2 DEF HistoryInv, HistoryType
  <2>4. flushed'[q] = flushed[q] + Running(q) BY <2>1, <2>3 DEF Running
  <2>5. Running(q)' = IF q = b THEN 1 ELSE 0 BY <1>8, <1>12 DEF Running
  <2> QED BY <1>3, <1>4, <1>7, <1>12, <2>4, <2>5 DEF Conserved
<1> QED BY <1>1, <1>6, <1>9, <1>10, <1>11, <1>12

LEMMA EndFlushConserves ==
  ASSUME HistoryInv, NEW q \in Request, Conserved(q), EndFlush, RecordFlush,
         UNCHANGED <<asked, dropped, deleted>>
  PROVE  Conserved(q)'
<1>1. run.next = BufferSize /\ run' = NoRun /\ UNCHANGED <<buffer, total, job>>
  BY DEF EndFlush
<1>2. /\ asked[q].n \in Nat /\ flushed[q] \in Nat /\ dropped[q] \in Nat
      /\ Waiting(q) \in Nat /\ Running(q) \in Nat /\ q \in Nat /\ q # 0
      /\ Cardinality(Slots(q)) \in Nat
  BY PartsAreNumbers, SlotsCount
<1>3. Waiting(q)' = Waiting(q) /\ Slots(q)' = Slots(q) BY <1>1 DEF Waiting, Slots, InUse
<1>4. Running(q)' = 0 BY <1>1, <1>2 DEF Running, NoRun
<1>5. Flushes <=> run.ins # 0
  BY <1>1, BufferSizeAssumption DEF Flushes, EndsRun
<1>6. flushed'[q] = flushed[q] + Running(q)
  <2>1. CASE run.ins = 0
    <3>1. UNCHANGED flushed BY <1>5, <2>1 DEF RecordFlush
    <3>2. Running(q) = 0 BY <1>2, <2>1 DEF Running
    <3> QED BY <1>2, <3>1, <3>2
  <2>2. CASE run.ins # 0
    <3>1. flushed' = [flushed EXCEPT ![run.ins] = @ + run.n]
      BY <1>5, <2>2 DEF RecordFlush, RunLength
    <3>2. flushed \in [Request -> Nat] /\ run.n \in Nat
      BY DEF HistoryInv, HistoryType, CacheInv, CacheTypeOK
    <3> QED BY <3>1, <3>2 DEF Running
  <2> QED BY <2>1, <2>2
<1> QED BY <1>2, <1>3, <1>4, <1>6 DEF Conserved

LEMMA StartFlushConserves ==
  ASSUME HistoryInv, NEW q \in Request, Conserved(q), StartFlush,
         UNCHANGED <<asked, flushed, dropped, deleted>>
  PROVE  Conserved(q)'
<1>1. pc = "write" /\ run' = NoRun /\ UNCHANGED <<buffer, total, job>> BY DEF StartFlush
<1>2. run = NoRun BY <1>1 DEF HistoryInv, Idle
<1>3. /\ Waiting(q)' = Waiting(q) /\ Slots(q)' = Slots(q) /\ Running(q)' = Running(q)
  BY <1>1, <1>2 DEF Waiting, Running, Slots, InUse
<1> QED BY <1>3 DEF Conserved

LEMMA InitConserves == HistoryInit => BlocksConserved
<1> SUFFICES ASSUME HistoryInit, NEW q \in Request PROVE Conserved(q)
  BY ConservedIsAll
<1>1. Slots(q) = {} BY DEF HistoryInit, Init, Slots, InUse
<1>2. Cardinality(Slots(q)) = 0 BY <1>1, FS_EmptySet
<1>3. Waiting(q) = 0 /\ Running(q) = 0 BY DEF HistoryInit, Init, NoJob, NoRun, Waiting, Running
<1>4. asked[q].n = 0 /\ flushed[q] = 0 /\ dropped[q] = 0 BY DEF HistoryInit
<1> QED BY <1>2, <1>3, <1>4 DEF Conserved

LEMMA NextConserves ==
  HistoryInv /\ BlocksConserved /\ [HistoryNext]_historyVars => BlocksConserved'
<1> SUFFICES ASSUME HistoryInv, BlocksConserved, [HistoryNext]_historyVars
             PROVE  BlocksConserved'
  OBVIOUS
<1>1. ASSUME NEW q \in Request PROVE Conserved(q)'
  <2>1. Conserved(q) BY ConservedIsAll
  <2> QED
    BY <2>1, NextCases, QuietConserves, WriteConserves, DeleteConserves, FillConserves,
       StartFlushConserves, FlushSlotConserves, EndFlushConserves
<1> QED BY <1>1 DEF BlocksConserved, Conserved, Waiting, Running, Request

\* Every block of a write is at each moment in exactly one of five places: to be
\* put into the buffer, in the buffer, in the run at hand, written, given up.
THEOREM NoBlockLostOrDoubled == HistorySpec => []BlocksConserved
<1> DEFINE I == HistoryInv /\ BlocksConserved
<1>1. HistoryInit => I BY InitHistory, InitConserves
<1>2. I /\ [HistoryNext]_historyVars => I' BY NextHistory, NextConserves
<1>3. I => BlocksConserved OBVIOUS
<1> HIDE DEF I
<1> QED BY <1>1, <1>2, <1>3, PTL DEF HistorySpec

-----------------------------------------------------------------------------
(* What the disk holds was asked for.                                      *)

\* A request of the past goes on to be one, and no request to come is named.
LEMMA PhantomsStayOut ==
  ASSUME HistoryInv, NoPhantomBlocks, total' \in Nat, total' >= total,
         \A l \in DiskStore!Lba : home'[l] \in {home[l], NoFid},
         \A q \in 1 .. total : asked'[q] = asked[q]
  PROVE  NoPhantomBlocks'
<1>1. \A q \in 1 .. total : q \in 1 .. total'
  BY CacheNumTracesAssumption DEF HistoryInv, CacheInv, CacheTypeOK
<1> SUFFICES ASSUME NEW l \in DiskStore!Lba, home'[l] # NoFid
             PROVE  \E q \in 1 .. total' :
                       /\ asked'[q].fid = home'[l]
                       /\ l \in asked'[q].lba .. asked'[q].lba + asked'[q].n - 1
  BY DEF NoPhantomBlocks, DiskStore!Lba
<1>2. home'[l] = home[l] OBVIOUS
<1>3. PICK q \in 1 .. total : /\ asked[q].fid = home[l]
                              /\ l \in asked[q].lba .. asked[q].lba + asked[q].n - 1
  BY <1>2 DEF NoPhantomBlocks
<1> QED BY <1>1, <1>2, <1>3

\* A run is a part of its request: of its file, from its address on, and not
\* longer than it.
LEMMA RunIsPartOfRequest ==
  ASSUME HistoryInv, BlocksConserved, run.ins # 0
  PROVE  /\ run.ins \in 1 .. total /\ run.ins \in Request
         /\ asked[run.ins].fid = run.fid /\ asked[run.ins].lba = diskAddress[run.ins]
         /\ run.n \in Nat /\ run.n <= asked[run.ins].n
<1>1. /\ run.ins \in 1 .. total /\ asked[run.ins].fid = run.fid
      /\ run.ins \in 0 .. NumTraces /\ run.n \in Nat
  BY DEF HistoryInv, AskedAgrees, CacheInv, CacheTypeOK
<1>2. run.ins \in Request BY <1>1, CacheNumTracesAssumption DEF Request
<1>3. asked[run.ins].lba = diskAddress[run.ins] BY <1>2 DEF HistoryInv, AskedAgrees
<1>4. PICK q \in Request : q = run.ins BY <1>2
<1>5. Conserved(q) /\ Running(q) = run.n BY <1>4, ConservedIsAll DEF Running
<1>6. /\ asked[q].n \in Nat /\ flushed[q] \in Nat /\ dropped[q] \in Nat
      /\ Waiting(q) \in Nat /\ Cardinality(Slots(q)) \in Nat
  BY PartsAreNumbers, SlotsCount
<1>7. run.n <= asked[q].n BY <1>1, <1>5, <1>6 DEF Conserved
<1> QED BY <1>1, <1>2, <1>3, <1>4, <1>7

LEMMA WriteHomeNoPhantom ==
  ASSUME HistoryInv, BlocksConserved, NoPhantomBlocks, WriteHome, run.ins # 0,
         UNCHANGED <<asked, total>>
  PROVE  NoPhantomBlocks'
<1> DEFINE written == DiskStore!Granted(diskAddress[run.ins], run.n, run.fid)
<1>1. \A l \in DiskStore!Lba : home'[l] = IF l \in written THEN run.fid ELSE home[l]
  BY DEF WriteHome, RunLength, DiskStore!Passed
<1>2. \A l \in written : l \in diskAddress[run.ins] .. diskAddress[run.ins] + run.n - 1
  BY DEF DiskStore!Granted, DiskStore!Blocks
<1> HIDE DEF written
<1> SUFFICES ASSUME NEW l \in DiskStore!Lba, home'[l] # NoFid
             PROVE  \E q \in 1 .. total :
                       /\ asked[q].fid = home'[l]
                       /\ l \in asked[q].lba .. asked[q].lba + asked[q].n - 1
  BY DEF NoPhantomBlocks, DiskStore!Lba
<1>3. CASE l \in written
  <2>1. PICK q \in 1 .. total : q = run.ins BY RunIsPartOfRequest
  <2>2. /\ asked[q].fid = run.fid /\ asked[q].lba = diskAddress[q]
        /\ run.n \in Nat /\ run.n <= asked[q].n /\ q \in Request
    BY <2>1, RunIsPartOfRequest
  <2>3. asked[q].lba \in Nat /\ asked[q].n \in Nat
    BY <2>2 DEF HistoryInv, HistoryType
  <2>4. l \in asked[q].lba .. asked[q].lba + run.n - 1 BY <1>2, <1>3, <2>1, <2>2
  <2>5. l \in asked[q].lba .. asked[q].lba + asked[q].n - 1 BY <2>2, <2>3, <2>4
  <2> QED BY <1>1, <1>3, <2>2, <2>5
<1>4. CASE l \notin written BY <1>1, <1>4 DEF NoPhantomBlocks
<1> QED BY <1>3, <1>4

LEMMA NextNoPhantom ==
  HistoryInv /\ BlocksConserved /\ NoPhantomBlocks /\ [HistoryNext]_historyVars
     => NoPhantomBlocks'
<1> SUFFICES ASSUME HistoryInv, BlocksConserved, NoPhantomBlocks, [HistoryNext]_historyVars
             PROVE  NoPhantomBlocks'
  OBVIOUS
<1>1. total \in Nat BY CacheNumTracesAssumption DEF HistoryInv, CacheInv, CacheTypeOK
<1>2. CASE QuietStep /\ UNCHANGED history
  BY <1>2, QuietEffect, PhantomsStayOut DEF HistoryInv, history
<1>3. ASSUME NEW fid \in Fid, NEW r \in WriteRanges, WriteLine(r[1], r[2], fid),
             asked' = [asked EXCEPT ![total'] = [lba |-> r[1], n |-> r[2], fid |-> fid]]
      PROVE  NoPhantomBlocks'
  <2>1. total' = total + 1 /\ UNCHANGED home BY <1>3 DEF WriteLine, Numbered
  <2>2. DOMAIN asked = Request BY DEF HistoryInv, HistoryType
  <2>3. \A q \in 1 .. total : asked'[q] = asked[q]
    <3>1. \A q \in 1 .. total : q # total' /\ q \in Request
      BY <1>1, <2>1, CacheNumTracesAssumption DEF HistoryInv, CacheInv, CacheTypeOK, Request
    <3> QED BY <1>3, <2>2, <3>1
  <2> QED BY <1>1, <2>1, <2>3, PhantomsStayOut
<1>4. ASSUME NEW fid \in Fid, NEW r \in DeleteRanges, DeleteLine(r[1], r[2], fid),
             UNCHANGED asked
      PROVE  NoPhantomBlocks'
  <2>1. total' = total + 1 /\ \A l \in DiskStore!Lba : home'[l] \in {home[l], NoFid}
    BY <1>4, DeleteEffect DEF HistoryInv
  <2> QED BY <1>1, <1>4, <2>1, PhantomsStayOut
<1>5. CASE StartFlush /\ UNCHANGED asked
  BY <1>1, <1>5, PhantomsStayOut DEF StartFlush
<1>6. CASE FlushSlot /\ UNCHANGED asked
  <2>1. total' = total /\ (UNCHANGED home \/ (EndsRun /\ WriteHome))
    BY <1>6, FlushCases DEF HistoryInv
  <2>2. CASE UNCHANGED home BY <1>1, <1>6, <2>1, <2>2, PhantomsStayOut
  <2>3. CASE EndsRun /\ WriteHome
    <3>1. run.ins # 0 BY <2>3 DEF EndsRun
    <3> QED BY <1>6, <2>1, <2>3, <3>1, WriteHomeNoPhantom
  <2> QED BY <2>1, <2>2, <2>3
<1>7. CASE EndFlush /\ UNCHANGED asked
  <2>1. total' = total /\ (UNCHANGED home \/ (run.ins # 0 /\ WriteHome))
    BY <1>7 DEF EndFlush
  <2> QED BY <1>1, <1>7, <2>1, PhantomsStayOut, WriteHomeNoPhantom
<1>8. CASE (FillPart \/ FillRest) /\ UNCHANGED history
  <2>1. UNCHANGED <<home, total, asked>> BY <1>8 DEF FillPart, FillRest, history
  <2> QED BY <1>1, <2>1, PhantomsStayOut
<1> QED BY <1>2, <1>3, <1>4, <1>5, <1>6, <1>7, <1>8, NextCases

\* The disk holds a block for a file only if a write of that file named it.
THEOREM OnlyAskedBlocksHome == HistorySpec => []NoPhantomBlocks
<1> DEFINE I == HistoryInv /\ BlocksConserved /\ NoPhantomBlocks
<1>1. HistoryInit => I
  <2>1. HistoryInit => NoPhantomBlocks
    BY DEF HistoryInit, Init, NoPhantomBlocks, DiskStore!Lba
  <2> QED BY <2>1, InitHistory, InitConserves
<1>2. I /\ [HistoryNext]_historyVars => I'
  BY NextHistory, NextConserves, NextNoPhantom
<1>3. I => NoPhantomBlocks OBVIOUS
<1> HIDE DEF I
<1> QED BY <1>1, <1>2, <1>3, PTL DEF HistorySpec

-----------------------------------------------------------------------------
(* What a flush leaves on the cache.                                       *)

\* From the start of a flush to the next block that is put into the buffer.
GoneLeft == pc = "flush" \/ cachePointer = 0 => \A c \in Slot : cached[c] \notin gone

LEMMA FilesAreNotNoFid == HistoryInv => NoFid \notin gone
BY CacheNoFidAssumption DEF HistoryInv, HistoryType

\* A step that only frees blocks of the cache puts none of the files back.
LEMMA FreeingKeepsGone ==
  ASSUME HistoryInv, GoneLeft, UNCHANGED <<gone, cachePointer>>,
         pc' = "flush" <=> pc = "flush",
         \A c \in Slot : cached'[c] \in {cached[c], NoFid}
  PROVE  GoneLeft'
BY FilesAreNotNoFid DEF GoneLeft, Slot

LEMMA WriteHomeLeavesCache ==
  ASSUME HistoryInv, \A c \in Slot : cached[c] \notin gone, WriteHome,
         gone' = gone \cup {run.fid}, run.ins # 0
  PROVE  \A c \in Slot : cached'[c] \notin gone'
<1>1. Slot = CacheStore!Lba BY DEF Slot, CacheStore!Lba
<1>2. \A c \in Slot : cached'[c] = IF cached[c] = run.fid THEN NoFid ELSE cached[c]
  BY <1>1 DEF WriteHome, RunFile, CacheStore!Passed, CacheStore!Held
<1>3. NoFid \notin gone /\ NoFid # run.fid
  BY FilesAreNotNoFid, CacheNoFidAssumption DEF HistoryInv, AskedAgrees
<1> QED BY <1>2, <1>3

LEMMA NextGone == HistoryInv /\ GoneLeft /\ [HistoryNext]_historyVars => GoneLeft'
<1> SUFFICES ASSUME HistoryInv, GoneLeft, [HistoryNext]_historyVars PROVE GoneLeft'
  OBVIOUS
<1>1. CASE QuietStep /\ UNCHANGED history
  BY <1>1, QuietEffect, FreeingKeepsGone DEF HistoryInv, history
<1>2. ASSUME NEW fid \in Fid, NEW r \in WriteRanges, WriteLine(r[1], r[2], fid),
             UNCHANGED gone
      PROVE  GoneLeft'
  BY <1>2, FreeingKeepsGone DEF WriteLine, Numbered, Line
<1>3. ASSUME NEW fid \in Fid, NEW r \in DeleteRanges, DeleteLine(r[1], r[2], fid),
             UNCHANGED gone
      PROVE  GoneLeft'
  BY <1>3, DeleteEffect, FreeingKeepsGone DEF HistoryInv
<1>4. CASE StartFlush /\ gone' = {} BY <1>4 DEF GoneLeft
<1>5. CASE FlushSlot /\ RecordFlush
  <2>1. /\ pc = "flush" /\ pc' = "flush" /\ UNCHANGED cachePointer
        /\ \/ UNCHANGED cached /\ ~ EndsRun
           \/ EndsRun /\ WriteHome
    BY <1>5, FlushCases DEF HistoryInv
  <2>2. Flushes <=> EndsRun
    BY <1>5, BufferSizeAssumption DEF FlushSlot, Flushes, HistoryInv, CacheInv, CacheTypeOK
  <2>3. CASE UNCHANGED cached /\ ~ EndsRun
    BY <1>5, <2>1, <2>2, <2>3, FreeingKeepsGone DEF RecordFlush
  <2>4. CASE EndsRun /\ WriteHome
    <3>1. run.ins # 0 /\ gone' = gone \cup {run.fid}
      BY <1>5, <2>2, <2>4 DEF EndsRun, RecordFlush
    <3> QED BY <2>1, <2>4, <3>1, WriteHomeLeavesCache DEF GoneLeft
  <2> QED BY <2>1, <2>3, <2>4
<1>6. CASE EndFlush /\ RecordFlush
  <2>1. pc = "flush" /\ run.next = BufferSize
        /\ IF run.ins = 0 THEN UNCHANGED cached ELSE WriteHome
    BY <1>6 DEF EndFlush
  <2>2. Flushes <=> run.ins # 0
    BY <2>1, BufferSizeAssumption DEF Flushes, EndsRun
  <2>3. CASE run.ins = 0 BY <1>6, <2>1, <2>2, <2>3 DEF RecordFlush, GoneLeft
  <2>4. CASE run.ins # 0
    BY <1>6, <2>1, <2>2, <2>4, WriteHomeLeavesCache DEF RecordFlush, GoneLeft
  <2> QED BY <2>3, <2>4
<1>7. CASE (FillPart \/ FillRest) /\ UNCHANGED history
  <2>1. PICK n \in Nat : /\ Fill(n) /\ pc = "write" /\ pc' # "flush"
    BY <1>7, FillCases DEF HistoryInv
  <2>2. cachePointer' = cachePointer + n /\ cachePointer \in Nat
    BY <2>1, BufferSizeAssumption DEF Fill, HistoryInv, CacheInv, CacheTypeOK
  <2>3. CASE n = 0
    <3>1. cachePointer .. cachePointer + n - 1 = {} BY <2>2, <2>3
    <3>2. CacheStore!Granted(cachePointer, n, job.fid) = {}
      BY <3>1 DEF CacheStore!Granted, CacheStore!Blocks
    <3>3. \A c \in Slot : cached'[c] = cached[c]
      BY <2>1, <3>2 DEF Fill, CacheStore!Passed, Slot, CacheStore!Lba
    <3> QED BY <1>7, <2>1, <2>2, <2>3, <3>3, FreeingKeepsGone DEF history
  <2>4. CASE n # 0 BY <2>1, <2>2, <2>4 DEF GoneLeft
  <2> QED BY <2>3, <2>4
<1> QED BY <1>1, <1>2, <1>3, <1>4, <1>5, <1>6, <1>7, NextCases

\* A flush leaves no block of a file that it wrote home on the cache.
THEOREM FlushClearsCache == HistorySpec => []FlushedFilesLeaveCache
<1> DEFINE I == HistoryInv /\ GoneLeft
<1>1. HistoryInit => I
  <2>1. HistoryInit => GoneLeft BY DEF HistoryInit, GoneLeft
  <2> QED BY <2>1, InitHistory
<1>2. I /\ [HistoryNext]_historyVars => I' BY NextHistory, NextGone
<1>3. I => FlushedFilesLeaveCache BY DEF GoneLeft, FlushedFilesLeaveCache
<1> HIDE DEF I
<1> QED BY <1>1, <1>2, <1>3, PTL DEF HistorySpec

-----------------------------------------------------------------------------
(* The cache is the image of the buffer, until something is deleted.       *)

InImage(c) == cached[c] = IF buffer[c].inUsed THEN buffer[c].fid ELSE NoFid

\* Before a flush has reached a slot, its block may have left the cache already,
\* with others of its file; behind the flush only the run at hand is left.
InFlushImage(c) ==
    IF c < run.next
    THEN cached[c] = NoFid \/ (run.ins # 0 /\ cached[c] = run.fid)
    ELSE cached[c] = NoFid \/ (buffer[c].inUsed /\ cached[c] = buffer[c].fid)

ImageInv ==
    ~ deleted => \A c \in Slot : IF pc = "flush" THEN InFlushImage(c) ELSE InImage(c)

LEMMA SameImage ==
  ASSUME ImageInv, UNCHANGED <<cached, buffer, run, deleted>>,
         pc' = "flush" <=> pc = "flush"
  PROVE  ImageInv'
BY DEF ImageInv, InImage, InFlushImage

LEMMA FillKeepsImage ==
  ASSUME HistoryInv, ImageInv, FillPart \/ FillRest, UNCHANGED history
  PROVE  ImageInv'
<1>1. PICK n \in Nat :
            /\ n <= Remain /\ n <= job.rest /\ Fill(n) /\ pc = "write"
            /\ UNCHANGED <<home, diskAddress, total, run>>
            /\ \/ job' = [job EXCEPT !.rest = @ - n] /\ pc' = "write"
               \/ job' = NoJob /\ pc' = "lines" /\ n = job.rest
  BY FillCases DEF HistoryInv
<1> DEFINE new == cachePointer .. cachePointer + n - 1
<1>2. /\ cachePointer \in Nat /\ cachePointer + n <= BufferSize
      /\ \A c \in InUse : c \in Int /\ c < cachePointer
  BY <1>1, BufferSizeAssumption
  DEF Remain, HistoryInv, CacheInv, CacheTypeOK, BufferInOrder, InUse, Slot
<1>3. /\ InUse' = InUse \cup new
      /\ \A c \in new : buffer'[c].fid = job.fid
      /\ \A c \in InUse : buffer'[c] = buffer[c]
  BY <1>1, FillEffect DEF HistoryInv
<1>4. \A c \in Slot : cached'[c] =
         IF c \in CacheStore!Granted(cachePointer, n, job.fid) THEN job.fid ELSE cached[c]
  BY <1>1 DEF Fill, CacheStore!Passed, CacheStore!Lba, Slot
<1>5. CacheStore!Blocks(cachePointer, n) = new BY <1>2 DEF CacheStore!Blocks
<1>6. \A c : c \in CacheStore!Granted(cachePointer, n, job.fid)
               <=> c \in new /\ cached[c] \in {NoFid, job.fid}
  BY <1>5 DEF CacheStore!Granted
<1>7. \A c \in new : c \notin InUse BY <1>2
<1> HIDE DEF new
<1>8. SUFFICES ASSUME ~ deleted, NEW c \in Slot PROVE InImage(c)'
  BY <1>1 DEF ImageInv, history
<1>9. InImage(c) BY <1>1, <1>8 DEF ImageInv
<1>10. /\ c \in InUse <=> buffer[c].inUsed
       /\ c \in InUse' <=> buffer'[c].inUsed
  BY DEF InUse
<1>11. CASE c \in new
  <2>1. cached[c] = NoFid BY <1>7, <1>9, <1>10, <1>11 DEF InImage
  <2>2. cached'[c] = job.fid BY <1>4, <1>6, <1>11, <2>1
  <2> QED BY <1>3, <1>10, <1>11, <2>2 DEF InImage
<1>12. CASE c \notin new
  <2>1. cached'[c] = cached[c] BY <1>4, <1>6, <1>12
  <2>2. c \in InUse' <=> c \in InUse BY <1>3, <1>12
  <2>3. CASE c \in InUse
    <3>1. buffer'[c] = buffer[c] BY <1>3, <2>3
    <3> QED BY <1>9, <2>1, <3>1 DEF InImage
  <2>4. CASE c \notin InUse
    <3>1. ~ buffer[c].inUsed /\ ~ buffer'[c].inUsed BY <1>10, <2>2, <2>4
    <3> QED BY <1>9, <2>1, <3>1 DEF InImage
  <2> QED BY <2>3, <2>4
<1> QED BY <1>11, <1>12

\* Writing a run home takes its file off the cache, and nothing else.
LEMMA WriteHomeCache ==
  ASSUME WriteHome
  PROVE  \A c \in Slot : cached'[c] = IF cached[c] = run.fid THEN NoFid ELSE cached[c]
<1>1. Slot = CacheStore!Lba BY DEF Slot, CacheStore!Lba
<1> QED BY <1>1 DEF WriteHome, RunFile, CacheStore!Passed, CacheStore!Held

LEMMA FlushSlotKeepsImage ==
  ASSUME HistoryInv, ImageInv, FlushSlot, UNCHANGED deleted
  PROVE  ImageInv'
<1> PICK c : c = run.next OBVIOUS
<1>1. /\ c \in Slot /\ pc = "flush" /\ pc' = "flush" /\ run'.next = c + 1
      /\ \/ /\ c \notin InUse /\ UNCHANGED <<home, cached, buffer>>
            /\ run' = [run EXCEPT !.next = c + 1]
         \/ /\ c \in InUse /\ buffer' = GiveUp(c) /\ UNCHANGED cached
            /\ \/ run.ins = 0 /\ run' = StartRun(c)
               \/ /\ run.ins # 0 /\ run.ins = buffer[c].insDic
                  /\ run' = [run EXCEPT !.next = c + 1, !.n = @ + 1]
         \/ /\ c \in InUse /\ buffer' = GiveUp(c)
            /\ WriteHome /\ run' = StartRun(c)
  BY FlushCases DEF HistoryInv
<1>2. run \in [next : 0 .. BufferSize, ins : 0 .. NumTraces, fid : Owner, n : Nat]
  BY DEF HistoryInv, CacheInv, CacheTypeOK
<1>3. SUFFICES ASSUME ~ deleted, NEW d \in Slot PROVE InFlushImage(d)'
  BY <1>1 DEF ImageInv
<1>4. InFlushImage(d) BY <1>1, <1>3 DEF ImageInv
<1>5. c \in Int /\ d \in Int BY <1>1 DEF Slot
<1>6. c \in InUse <=> buffer[c].inUsed BY <1>1 DEF InUse
<1>7. buffer' = GiveUp(c) => \A e \in Slot : e # c => buffer'[e] = buffer[e]
  BY DEF GiveUp, HistoryInv, CacheInv, CacheTypeOK
<1>8. c \in InUse => StartRun(c).ins # 0 /\ StartRun(c).fid = buffer[c].fid
  BY SlotOfRequest, CacheNumTracesAssumption DEF StartRun, HistoryInv
<1>9. \/ d < c /\ d < run'.next
      \/ d = c /\ d < run'.next
      \/ d > c /\ ~ (d < run'.next) /\ ~ (d < run.next)
  BY <1>1, <1>5
<1>10. CASE c \notin InUse /\ UNCHANGED <<cached, buffer>> /\ run' = [run EXCEPT !.next = c + 1]
  <2>1. run'.ins = run.ins /\ run'.fid = run.fid BY <1>2, <1>10
  <2>2. CASE d = c BY <1>4, <1>5, <1>6, <1>9, <1>10, <2>2 DEF InFlushImage
  <2>3. CASE d # c BY <1>4, <1>5, <1>9, <1>10, <2>1, <2>3 DEF InFlushImage
  <2> QED BY <2>2, <2>3
<1>11. CASE /\ c \in InUse /\ buffer' = GiveUp(c) /\ UNCHANGED cached
            /\ run.ins = 0 /\ run' = StartRun(c)
  <2>1. run'.ins # 0 /\ run'.fid = buffer[c].fid BY <1>8, <1>11
  <2>2. CASE d < c BY <1>4, <1>9, <1>11, <2>2 DEF InFlushImage
  <2>3. CASE d = c BY <1>4, <1>5, <1>9, <1>11, <2>1, <2>3 DEF InFlushImage
  <2>4. CASE d > c
    <3>1. buffer'[d] = buffer[d] BY <1>5, <1>7, <1>11, <2>4
    <3> QED BY <1>4, <1>5, <1>9, <1>11, <2>4, <3>1 DEF InFlushImage
  <2> QED BY <1>5, <2>2, <2>3, <2>4
<1>12. CASE /\ c \in InUse /\ buffer' = GiveUp(c) /\ UNCHANGED cached
            /\ run.ins # 0 /\ run.ins = buffer[c].insDic
            /\ run' = [run EXCEPT !.next = c + 1, !.n = @ + 1]
  <2>1. run'.ins = run.ins /\ run'.fid = run.fid BY <1>2, <1>12
  <2>2. run.fid = buffer[c].fid BY <1>12 DEF HistoryInv, AskedAgrees
  <2>3. CASE d < c BY <1>4, <1>9, <1>12, <2>1, <2>3 DEF InFlushImage
  <2>4. CASE d = c BY <1>4, <1>5, <1>9, <1>12, <2>1, <2>2, <2>4 DEF InFlushImage
  <2>5. CASE d > c
    <3>1. buffer'[d] = buffer[d] BY <1>5, <1>7, <1>12, <2>5
    <3> QED BY <1>4, <1>5, <1>9, <1>12, <2>5, <3>1 DEF InFlushImage
  <2> QED BY <1>5, <2>3, <2>4, <2>5
<1>13. CASE /\ c \in InUse /\ buffer' = GiveUp(c)
            /\ WriteHome /\ run' = StartRun(c)
  <2>1. run'.ins # 0 /\ run'.fid = buffer[c].fid BY <1>8, <1>13
  <2>2. cached'[d] = IF cached[d] = run.fid THEN NoFid ELSE cached[d]
    BY <1>13, WriteHomeCache
  <2>3. CASE d < c BY <1>4, <1>9, <2>2, <2>3 DEF InFlushImage
  <2>4. CASE d = c BY <1>4, <1>5, <1>9, <2>1, <2>2, <2>4 DEF InFlushImage
  <2>5. CASE d > c
    <3>1. buffer'[d] = buffer[d] BY <1>5, <1>7, <1>13, <2>5
    <3> QED BY <1>4, <1>5, <1>9, <2>2, <2>5, <3>1 DEF InFlushImage
  <2> QED BY <1>5, <2>3, <2>4, <2>5
<1> QED BY <1>1, <1>10, <1>11, <1>12, <1>13

LEMMA EndFlushKeepsImage ==
  ASSUME HistoryInv, ImageInv, EndFlush, UNCHANGED deleted
  PROVE  ImageInv'
<1>1. /\ pc = "flush" /\ pc' = "write" /\ run.next = BufferSize /\ UNCHANGED buffer
      /\ IF run.ins = 0 THEN UNCHANGED cached ELSE WriteHome
  BY DEF EndFlush
<1>2. SUFFICES ASSUME ~ deleted, NEW c \in Slot PROVE InImage(c)'
  BY <1>1 DEF ImageInv
<1>3. InFlushImage(c) BY <1>1, <1>2 DEF ImageInv
<1>4. c \in Int /\ c < BufferSize BY BufferSizeAssumption DEF Slot
<1>5. ~ buffer[c].inUsed
  BY <1>1, <1>4, BufferSizeAssumption DEF HistoryInv, CacheInv, FlushClears, InUse
<1>6. cached[c] = NoFid \/ (run.ins # 0 /\ cached[c] = run.fid)
  BY <1>1, <1>3, <1>4 DEF InFlushImage
<1>7. cached'[c] = NoFid
  <2>1. CASE run.ins = 0 BY <1>1, <1>6, <2>1
  <2>2. CASE run.ins # 0 BY <1>1, <1>6, <2>2, WriteHomeCache
  <2> QED BY <2>1, <2>2
<1> QED BY <1>1, <1>5, <1>7 DEF InImage

LEMMA NextImage == HistoryInv /\ ImageInv /\ [HistoryNext]_historyVars => ImageInv'
<1> SUFFICES ASSUME HistoryInv, ImageInv, [HistoryNext]_historyVars PROVE ImageInv'
  OBVIOUS
<1>1. CASE QuietStep /\ UNCHANGED history
  BY <1>1, QuietEffect, SameImage DEF HistoryInv, history
<1>2. ASSUME NEW fid \in Fid, NEW r \in WriteRanges, WriteLine(r[1], r[2], fid),
             UNCHANGED deleted
      PROVE  ImageInv'
  BY <1>2, SameImage DEF WriteLine, Numbered, Line
<1>3. CASE deleted' = TRUE BY <1>3 DEF ImageInv
<1>4. CASE StartFlush /\ UNCHANGED deleted
  <2>1. pc = "write" /\ pc' = "flush" /\ run' = NoRun /\ UNCHANGED <<cached, buffer>>
    BY <1>4 DEF StartFlush
  <2>2. \A c \in Slot : ~ (c < 0) BY DEF Slot
  <2> QED BY <1>4, <2>1, <2>2 DEF ImageInv, InImage, InFlushImage, NoRun
<1> QED
  BY <1>1, <1>2, <1>3, <1>4, NextCases, FillKeepsImage, FlushSlotKeepsImage,
     EndFlushKeepsImage

LEMMA InitImage == HistoryInit => ImageInv
BY DEF HistoryInit, Init, ImageInv, InImage, Slot, CacheStore!Lba

\* As long as nothing has been deleted, the cache is the image of the buffer.
THEOREM CacheIsImage == HistorySpec => []CacheMirrorsBuffer
<1> DEFINE I == HistoryInv /\ ImageInv
<1>1. HistoryInit => I BY InitHistory, InitImage
<1>2. I /\ [HistoryNext]_historyVars => I' BY NextHistory, NextImage
<1>3. I => CacheMirrorsBuffer BY DEF ImageInv, InImage, CacheMirrorsBuffer
<1> HIDE DEF I
<1> QED BY <1>1, <1>2, <1>3, PTL DEF HistorySpec

-----------------------------------------------------------------------------
(* What has been written is read from the cache.                           *)

\* Until something is deleted, the slots before the pointer are all in use.
NoHoles == ~ deleted /\ pc # "flush" => \A c \in Slot : c \in InUse <=> c < cachePointer

LEMMA NextNoHoles == HistoryInv /\ NoHoles /\ [HistoryNext]_historyVars => NoHoles'
<1> SUFFICES ASSUME HistoryInv, NoHoles, [HistoryNext]_historyVars PROVE NoHoles'
  OBVIOUS
<1>1. CASE QuietStep /\ UNCHANGED history
  BY <1>1, QuietEffect DEF HistoryInv, history, NoHoles, InUse
<1>2. ASSUME NEW fid \in Fid, NEW r \in WriteRanges, WriteLine(r[1], r[2], fid),
             UNCHANGED deleted
      PROVE  NoHoles'
  BY <1>2 DEF WriteLine, Numbered, Line, NoHoles, InUse
<1>3. CASE deleted' = TRUE BY <1>3 DEF NoHoles
<1>4. CASE StartFlush BY <1>4 DEF StartFlush, NoHoles
<1>5. CASE FlushSlot BY <1>5, FlushCases DEF HistoryInv, NoHoles
<1>6. CASE EndFlush
  <2>1. /\ pc = "flush" /\ run.next = BufferSize /\ UNCHANGED buffer /\ cachePointer' = 0
    BY <1>6 DEF EndFlush, Rewound
  <2>2. \A c \in Slot : c \in Int /\ 0 <= c /\ c < BufferSize
    BY BufferSizeAssumption DEF Slot
  <2>3. InUse' = InUse BY <2>1 DEF InUse
  <2>4. \A c \in Slot : c \notin InUse
    BY <2>1, <2>2, BufferSizeAssumption DEF HistoryInv, CacheInv, FlushClears
  <2> QED BY <2>1, <2>2, <2>3, <2>4 DEF NoHoles
<1>7. CASE (FillPart \/ FillRest) /\ UNCHANGED history
  <2>1. PICK n \in Nat : n <= Remain /\ Fill(n) /\ pc = "write"
    BY <1>7, FillCases DEF HistoryInv
  <2>2. /\ cachePointer' = cachePointer + n
        /\ InUse' = InUse \cup (cachePointer .. cachePointer + n - 1)
    BY <2>1, FillEffect DEF HistoryInv
  <2>3. cachePointer \in Nat /\ \A c \in Slot : c \in Int
    BY BufferSizeAssumption DEF HistoryInv, CacheInv, CacheTypeOK, Slot
  <2>4. \A c \in Slot : c \in cachePointer .. cachePointer + n - 1
                          <=> cachePointer <= c /\ c < cachePointer + n
    BY <2>3
  <2> SUFFICES ASSUME ~ deleted, NEW c \in Slot PROVE c \in InUse' <=> c < cachePointer'
    BY <1>7 DEF NoHoles, history
  <2>5. c \in InUse <=> c < cachePointer BY <2>1 DEF NoHoles
  <2>6. c < cachePointer' <=> \/ c < cachePointer
                              \/ cachePointer <= c /\ c < cachePointer + n
    BY <2>2, <2>3
  <2> QED BY <2>2, <2>4, <2>5, <2>6
<1> QED BY <1>1, <1>2, <1>3, <1>4, <1>5, <1>6, <1>7, NextCases

\* Where there are no holes, the slots of a request follow each other.
LEMMA SlotsAreInterval ==
  ASSUME HistoryInv, NoHoles, ~ deleted, pc # "flush", NEW q, Slots(q) # {}
  PROVE  \E a, b \in Slot : /\ a <= b /\ Slots(q) = a .. b
                            /\ a \in Slots(q) /\ \A c \in Slots(q) : a <= c
<1>1. /\ Slots(q) \in SUBSET (0 .. BufferSize - 1) /\ BufferSize - 1 \in Nat
      /\ Slots(q) \in SUBSET Nat
  BY BufferSizeAssumption DEF Slots, InUse, Slot
<1>2. PICK a \in Slots(q) : \A c \in Slots(q) : a <= c BY <1>1, LeastNatural
<1>3. PICK b \in Slots(q) : \A c \in Slots(q) : c <= b BY <1>1, GreatestBelow
<1>4. a \in Slot /\ b \in Slot /\ a \in Nat /\ b \in Nat /\ a <= b
  BY <1>1, <1>2 DEF Slot
<1>5. \A c \in Slots(q) : c \in a .. b BY <1>1, <1>2, <1>3, <1>4
<1>6. ASSUME NEW c \in a .. b PROVE c \in Slots(q)
  <2>1. /\ a \in InUse /\ b \in InUse /\ buffer[a].insDic = q /\ buffer[b].insDic = q
    BY DEF Slots
  <2>2. b < cachePointer /\ cachePointer \in Nat
    BY <2>1, BufferSizeAssumption DEF HistoryInv, CacheInv, CacheTypeOK, BufferInOrder
  <2>3. c \in Int /\ a <= c /\ c <= b /\ c < cachePointer BY <1>4, <1>6, <2>2
  <2>4. c \in Slot BY <1>4, <2>3, BufferSizeAssumption DEF Slot
  <2>5. c \in InUse BY <2>3, <2>4 DEF NoHoles
  <2>6. CASE c = a \/ c = b BY <2>6
  <2>7. CASE c # a /\ c # b
    <3>1. a < c /\ c < b BY <1>4, <2>3, <2>7
    <3>2. /\ buffer[a].insDic <= buffer[c].insDic /\ buffer[c].insDic <= buffer[b].insDic
      BY <2>1, <2>5, <3>1 DEF HistoryInv, CacheInv, BufferInOrder
    <3>3. buffer[c].insDic \in Int /\ q \in Int
      BY <2>1, <2>5, SlotOfRequest, CacheNumTracesAssumption DEF HistoryInv, Request
    <3>4. buffer[c].insDic = q BY <2>1, <3>2, <3>3
    <3> QED BY <2>5, <3>4 DEF Slots
  <2> QED BY <2>6, <2>7
<1>7. Slots(q) = a .. b BY <1>5, <1>6
<1> QED BY <1>2, <1>4, <1>7

LEMMA ReadFindsWrites ==
  ASSUME HistoryInv, ImageInv, NoHoles, ~ deleted, pc = "lines", NEW q \in 1 .. total,
         asked[q].n > 0, Cardinality(Slots(q)) = asked[q].n,
         Matches(asked[q].lba) = Slots(q)
  PROVE  ReadAnswer(asked[q].lba, asked[q].n, asked[q].fid)
            = [cache |-> asked[q].n, disk |-> 0]
<1> PICK lba, n, fid : lba = asked[q].lba /\ n = asked[q].n /\ fid = asked[q].fid OBVIOUS
<1>1. q \in Request /\ n \in Nat /\ n > 0
  <2>1. q \in Request
    BY CacheNumTracesAssumption DEF HistoryInv, CacheInv, CacheTypeOK, Request
  <2>2. asked[q].n \in Nat BY <2>1, PartsAreNumbers
  <2> QED BY <2>1, <2>2
<1>2. IsFiniteSet(Slots(q)) /\ Cardinality(Slots(q)) = n BY SlotsCount
<1>3. Slots(q) # {} BY <1>1, <1>2, FS_EmptySet
<1>4. PICK a, b \in Slot : /\ a <= b /\ Slots(q) = a .. b
                           /\ a \in Slots(q) /\ \A c \in Slots(q) : a <= c
  BY <1>3, SlotsAreInterval
<1>5. a \in Nat /\ b \in Nat /\ b < BufferSize BY BufferSizeAssumption DEF Slot
<1>6. n = b - a + 1
  <2>1. Cardinality(a .. b) = IF a > b THEN 0 ELSE b - a + 1
    <3>1. a \in Int /\ b \in Int BY <1>5
    <3> QED BY ONLY <3>1, FS_Interval
  <2>2. Cardinality(a .. b) = n BY <1>2, <1>4
  <2> QED BY <1>4, <1>5, <2>1, <2>2
<1>7. Hits(lba, n) = Slots(q)
  <2>1. ~ StopsAtOnce(lba, n) BY <1>1 DEF StopsAtOnce
  <2>2. ASSUME NEW c \in Slots(q)
        PROVE  Cardinality({d \in Slots(q) : d < c}) < n
    <3> DEFINE D == {d \in Slots(q) : d < c}
    <3>1. D \in SUBSET (Slots(q) \ {c})
      <4>1. c \in Int BY <1>4, <1>5
      <4> QED BY <4>1
    <3>2. IsFiniteSet(Slots(q) \ {c}) BY <1>2, FS_RemoveElement
    <3>3. Cardinality(Slots(q) \ {c}) = n - 1
      BY <1>2, <2>2, FS_RemoveElement
    <3>4. Cardinality(D) <= Cardinality(Slots(q) \ {c}) /\ IsFiniteSet(D)
      BY <3>1, <3>2, FS_Subset
    <3>5. Cardinality(D) \in Nat BY <3>4, FS_CardinalityType
    <3> HIDE DEF D
    <3>6. Cardinality(D) < n BY <1>1, <3>3, <3>4, <3>5
    <3> QED BY <3>6 DEF D
  <2>3. Matches(lba) = Slots(q) OBVIOUS
  <2>4. Hits(lba, n) = {c \in Slots(q) : n = 0 \/ Cardinality({d \in Slots(q) : d < c}) < n}
    BY <2>1, <2>3 DEF Hits
  <2> QED BY <2>2, <2>4
<1>8. First(Slots(q)) = a
  <2>1. Slots(q) \in SUBSET Nat BY <1>4, <1>5
  <2>2. /\ First(Slots(q)) \in Slots(q) /\ \A c \in Slots(q) : First(Slots(q)) <= c
    BY <1>3, <2>1, MinNatural DEF First
  <2> QED BY <1>4, <2>1, <2>2
<1>9. CacheStore!Found(a, n, fid) = Slots(q)
  <2>1. CacheStore!Blocks(a, n) = a .. b
    BY <1>4, <1>5, <1>6, BufferSizeAssumption DEF CacheStore!Blocks
  <2>2. ASSUME NEW c \in Slots(q) PROVE cached[c] = fid
    <3>1. c \in InUse /\ buffer[c].insDic = q BY DEF Slots
    <3>2. c \in Slot /\ buffer[c].inUsed BY <3>1 DEF InUse
    <3>3. buffer[c].fid = fid BY <3>1 DEF HistoryInv, AskedAgrees
    <3>4. InImage(c) BY <3>2 DEF ImageInv
    <3> QED BY <3>2, <3>3, <3>4 DEF InImage
  <2> QED BY <1>4, <2>1, <2>2 DEF CacheStore!Found
<1>10. ReadAnswer(lba, n, fid) = [cache |-> n, disk |-> 0]
  <2>1. Cardinality(Hits(lba, n)) = n /\ ~ (n = 0) /\ n >= n BY <1>1, <1>2, <1>7
  <2>2. Cardinality(CacheStore!Found(First(Hits(lba, n)), n, fid)) = n
    BY <1>2, <1>7, <1>8, <1>9
  <2> QED BY <2>1, <2>2 DEF ReadAnswer
<1> QED BY <1>10

\* Until the first delete, a write that is in the buffer as a whole, and has its
\* address to itself there, is read from the cache in full, without the disk.
THEOREM WritesAreRead == HistorySpec => []ReadYourWrites
<1> DEFINE I == HistoryInv /\ ImageInv /\ NoHoles
<1>1. HistoryInit => I
  <2>1. HistoryInit => NoHoles
    <3>1. \A c \in Slot : ~ (c < 0) BY DEF Slot
    <3> QED BY <3>1 DEF HistoryInit, Init, NoHoles, InUse
  <2> QED BY <2>1, InitHistory, InitImage
<1>2. I /\ [HistoryNext]_historyVars => I' BY NextHistory, NextImage, NextNoHoles
<1>3. I => ReadYourWrites BY ReadFindsWrites DEF ReadYourWrites
<1> HIDE DEF I
<1> QED BY <1>1, <1>2, <1>3, PTL DEF HistorySpec
=============================================================================
