------------------------------ MODULE MCCache ------------------------------
(***************************************************************************)
(* Instances of the write cache for TLC: a buffer of three slots before a  *)
(* disk of six blocks.  Writes of one and two blocks, of no block, and of  *)
(* more blocks than the buffer has slots; deletes that match a request, a  *)
(* part of it, none, and that name no block.                               *)
(***************************************************************************)
EXTENDS CacheHistory

MCWriteRanges  == {<<0, 1>>, <<0, 2>>, <<3, 2>>, <<1, 4>>, <<2, 0>>}
MCReadRanges   == {<<0, 2>>, <<3, 1>>, <<0, 0>>}
MCDeleteRanges == {<<0, 1>>, <<3, 2>>, <<1, 0>>}
=============================================================================
