---------------------------- MODULE MCSimulator ----------------------------
(***************************************************************************)
(* Instances of Simulator for TLC: two bands of three tracks.  Writes of   *)
(* one block, of a whole band, and across the border between the bands;    *)
(* requests of length 0 and requests that leave the disk.                  *)
(***************************************************************************)
EXTENDS Simulator, TLC

MCWriteRanges == {<<0, 1>>, <<1, 1>>, <<2, 1>>, <<0, 3>>, <<1, 4>>, <<4, 2>>, <<5, 2>>}
MCReadRanges  == {<<0, 3>>, <<2, 2>>, <<3, 0>>}

Symmetry == Permutations(Fid)
=============================================================================
