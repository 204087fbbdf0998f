----------------------------- MODULE FileStore -----------------------------
(***************************************************************************)
(* What the simulated disk promises to the trace that drives it, whatever  *)
(* layout is simulated: a set of blocks, each held by at most one file.    *)
(* A write claims the blocks of its range that are free or already its     *)
(* own, a read finds the blocks of its range that its file holds, and a    *)
(* delete frees every block of the file, whatever range it names.  Each    *)
(* request answers with the number of blocks it served, and a range that   *)
(* does not fit on the disk is answered 0 and changes nothing.             *)
(***************************************************************************)
EXTENDS Integers, FiniteSets

CONSTANTS MaxBlock,     \* number of blocks of the disk
          Fid,          \* the files
          NoFid,        \* the owner of a free block
          ReadRanges,   \* the <<lba, n>> a read may ask for
          WriteRanges   \* the <<lba, n>> a write may ask for

VARIABLES owner,        \* the file that holds each block
          ret           \* the answer to the last request

vars == <<owner, ret>>

Lba == 0 .. MaxBlock - 1

\* The blocks a request names; none when the range leaves the disk.
Blocks(lba, n) == IF lba + n <= MaxBlock THEN lba .. lba + n - 1 ELSE {}

Init == /\ owner = [l \in Lba |-> NoFid]
        /\ ret = 0

\* The blocks of a range that a read finds, and that a write may claim.
Found(lba, n, fid)   == {l \in Blocks(lba, n) : owner[l] = fid}
Granted(lba, n, fid) == {l \in Blocks(lba, n) : owner[l] \in {NoFid, fid}}
Held(fid)            == {l \in Lba : owner[l] = fid}

\* The owners after blocks S passed to fid.
Passed(S, fid) == [l \in Lba |-> IF l \in S THEN fid ELSE owner[l]]

Read(lba, n, fid) ==
    /\ ret' = Cardinality(Found(lba, n, fid))
    /\ UNCHANGED owner

Write(lba, n, fid) ==
    /\ owner' = Passed(Granted(lba, n, fid), fid)
    /\ ret' = Cardinality(Granted(lba, n, fid))

Delete(fid) ==
    /\ owner' = Passed(Held(fid), NoFid)
    /\ ret' = Cardinality(Held(fid))

Next == \E fid \in Fid :
            \/ \E r \in ReadRanges  : Read(r[1], r[2], fid)
            \/ \E r \in WriteRanges : Write(r[1], r[2], fid)
            \/ Delete(fid)

Spec == Init /\ [][Next]_vars
=============================================================================
