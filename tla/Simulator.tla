----------------------------- MODULE Simulator -----------------------------
(***************************************************************************)
(* The program around the disk: main.c reads the lines of a trace one at a *)
(* time and sends each to the disk, through parsing_csv (option -c) or     *)
(* parsing_postmark.  A csv trace is cut after num_traces lines, comments  *)
(* included, and its answers are ignored; in a postmark trace the program  *)
(* ends as soon as a read or a write is not served in full.                *)
(***************************************************************************)
EXTENDS Disk

CONSTANTS
    Format,       \* "csv" or "postmark"
    NumTraces,    \* num_traces of parsing_csv; for postmark the length of the file
    ReadRanges,   \* the <<lba, n>> of the reads of the trace
    WriteRanges   \* the <<lba, n>> of its writes

ASSUME FormatAssumption == Format \in {"csv", "postmark"}
ASSUME NumTracesAssumption == NumTraces \in Nat
ASSUME RangesAssumption ==
    ReadRanges \subseteq Nat \X Nat /\ WriteRanges \subseteq Nat \X Nat

VARIABLES
    left,      \* lines that may still be read
    ins,       \* ins_count, read_ins_count, write_ins_count, delete_ins_count
    outcome    \* "running", or how the program ended

vars == <<storage, ltp, band, report, ret, aborted, left, ins, outcome>>

Outcome == {"running", "finished", "mismatch", "failed"}

Init == /\ DiskInit
        /\ left = NumTraces
        /\ ins = [all |-> 0, read |-> 0, write |-> 0, delete |-> 0]
        /\ outcome = "running"

\* getline returned a line.
Line == /\ outcome = "running" /\ ~ aborted
        /\ left > 0
        /\ left' = left - 1

\* parsing_postmark compares the answer to a read or a write with n.
FaultyJudge(n) == outcome' = IF Format = "postmark" /\ ret' = 0 /\ n > 0
                             THEN "mismatch" ELSE "running"
Judge(n) == outcome' = IF Format = "postmark" /\ ret' # n
                       THEN "mismatch" ELSE "running"

ReadLine(lba, n, fid) ==
    /\ Line
    /\ ins' = [ins EXCEPT !.all = @ + 1, !.read = @ + 1]
    /\ LbaRead(lba, n, fid)
    /\ Judge(n)

WriteLine(lba, n, fid) ==
    /\ Line
    /\ ins' = [ins EXCEPT !.all = @ + 1, !.write = @ + 1]
    /\ LbaWrite(lba, n, fid)
    /\ Judge(n)

DeleteLine(fid) ==
    /\ Line
    /\ ins' = [ins EXCEPT !.all = @ + 1, !.delete = @ + 1]
    /\ LbaDelete(fid)
    /\ outcome' = "running"

\* A line of an unknown mode: counted, reported on stderr, otherwise ignored.
UnknownLine ==
    /\ Line
    /\ ins' = [ins EXCEPT !.all = @ + 1]
    /\ UNCHANGED <<diskVars, outcome>>

\* A comment uses up a line of the budget and nothing else.
CommentLine == Line /\ UNCHANGED <<diskVars, ins, outcome>>

\* A line that sscanf does not match ends the program.
BadLine == Line /\ outcome' = "failed" /\ UNCHANGED <<diskVars, ins>>

\* The end of the file, or of the budget.
EndOfTrace ==
    /\ outcome = "running" /\ ~ aborted
    /\ outcome' = "finished"
    /\ UNCHANGED <<diskVars, left, ins>>

Next == \/ \E fid \in Fid :
              \/ \E r \in ReadRanges  : ReadLine(r[1], r[2], fid)
              \/ \E r \in WriteRanges : WriteLine(r[1], r[2], fid)
              \/ DeleteLine(fid)
        \/ UnknownLine
        \/ CommentLine
        \/ BadLine
        \/ EndOfTrace

Spec == Init /\ [][Next]_vars

-----------------------------------------------------------------------------
SimulatorTypeOK ==
    /\ DiskTypeOK
    /\ left \in 0 .. NumTraces
    /\ ins \in [all : Nat, read : Nat, write : Nat, delete : Nat]
    /\ outcome \in Outcome

\* A postmark run that was not stopped by a mismatch was served in full: no
\* block of any of its requests was refused or found missing.
ServedInFull ==
    Format = "postmark" /\ outcome # "mismatch" =>
        report.invalidRead = 0 /\ report.invalidWrite = 0

\* The disk implements the abstract store of FileStore.
Store == INSTANCE FileStore WITH
            owner <- [l \in Lba |-> IF ltp[l].valid THEN ltp[l].fid ELSE NoFid]

\* Whatever the layers below do with tracks and bands, a trace sees a store
\* in which each block is held by at most one file, requests are answered
\* with the blocks they served, and a delete frees exactly its file.
ImplementsStore == Store!Spec
=============================================================================
