------------------------------ MODULE MCCommit ------------------------------
(***************************************************************************)
(* Blocks of four bytes and a window of three writes: every alignment of   *)
(* both ends of a range, with ranges from nothing to two whole blocks,     *)
(* which touch up to three blocks, over every wrap of the ring.            *)
(***************************************************************************)
EXTENDS CommitHistory

MCOffsets == 0 .. 5
MCLengths == 0 .. 9
=============================================================================
