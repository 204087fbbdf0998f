------------------------------ MODULE MCFluid ------------------------------
(***************************************************************************)
(* Eight zones of three tracks, two of them usable by CMR, of which three  *)
(* are converted at a time.  The lines are such that in five of them CMR   *)
(* zones of one and of two files, some filled by a later request, and SMR  *)
(* zones fill the disk up to a cleaning; that a block comes to be recorded *)
(* twice in a zone; that a zone is left without a block, because the last  *)
(* one is skipped; and that a block of an SMR zone is updated afterwards.  *)
(***************************************************************************)
EXTENDS Fluid

CONSTANTS f1, f2

Row(mode, fid, lba, n, hint) ==
    [mode |-> mode, fid |-> fid, lba |-> lba, n |-> n, hint |-> hint]

MCLines == {Row("write", f1, 0, 3, 0), Row("write", f1, 0, 7, 0),
            Row("write", f2, 30, 2, 0),
            Row("write", f1, 4, 4, 0), Row("write", f2, 20, 4, 1),
            Row("write", f1, 10, 7, 1), Row("write", f2, 20, 1, 1),
            Row("read", f1, 0, 9, 0), Row("read", f2, 31, 1, 0),
            Row("delete", f1, 0, 9, 0)}
=============================================================================
