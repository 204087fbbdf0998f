------------------------------ MODULE MCHybrid ------------------------------
(***************************************************************************)
(* Instances of Hybrid for TLC: three bands of three tracks, two of them   *)
(* within the journaling limit, two of the three tracks usable in a CMR    *)
(* zone, a window of two requests.  One request is larger than the whole   *)
(* journal of CMR zones, so that a commit needs a checkpoint.              *)
(***************************************************************************)
EXTENDS Hybrid

f1 == "f1"
f2 == "f2"
MCFid == {f1, f2}
\* Fresh pages are zero (file f1 stands for fid 0); recycled memory is
\* anything, here a block beyond the disk.
MCGarbage == {[fid |-> f1, lba |-> 0], [fid |-> f1, lba |-> 9]}
MCWriteRanges == {<<6, 1>>, <<7, 2>>, <<4, 5>>, <<2, 0>>}
MCReadRanges  == {<<6, 3>>}
=============================================================================
