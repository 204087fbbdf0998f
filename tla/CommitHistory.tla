--------------------------- MODULE CommitHistory ---------------------------
(***************************************************************************)
(* The lines of a HYBRID trace up to the commit: a byte range becomes a    *)
(* request, and determine_commit_type is called with the blocks of the     *)
(* request if it is a write.  Next to it, the plain history of the sizes   *)
(* it was called with: what the ring buffer and its running sum stand for. *)
(***************************************************************************)
EXTENDS CommitType, TraceUnits, Sequences, Functions

CONSTANT InitialBound     \* hotness_bound before the first request

ASSUME BoundAssumption == InitialBound \in Nat

VARIABLES history,        \* the last Window sizes, the newest first
          mode            \* the answer to the last call

historyVars == <<commitVars, unitVars, history, mode>>

HistoryInit == /\ CommitInit(InitialBound) /\ UnitInit
               /\ history = <<>> /\ mode = 0

Latest(s) == IF Len(s) > Window THEN SubSeq(s, 1, Window) ELSE s

WriteLine(b, size) ==
    /\ Convert(b, size)
    /\ DetermineCommitType(n')
    /\ mode' = CommitMode(n')
    /\ history' = Latest(<<n'>> \o history)

\* A line of another mode is converted too and leaves the window alone.
OtherLine(b, size) ==
    /\ Convert(b, size)
    /\ UNCHANGED <<commitVars, history, mode>>

HistoryNext == \E b \in Offsets, size \in Lengths :
                   WriteLine(b, size) \/ OtherLine(b, size)

HistorySpec == HistoryInit /\ [][HistoryNext]_historyVars

-----------------------------------------------------------------------------
SumOf(s) == FoldFunction(LAMBDA x, y : x + y, 0, s)

\* size_summation is the sum of the last Window sizes (of all of them while
\* there are fewer) across every wrap of record_pointer, and the flag tells
\* whether the window has been filled.
SumIsWindow ==
    /\ sizeSummation = SumOf(history)
    /\ notEnough <=> Len(history) < Window

\* A write after the window is full is hot exactly when it is at least the
\* mean of the Window writes before it, itself not included.
HotAgainstMean ==
    [][WriteLine(bytes', numBytes') /\ ~ notEnough =>
         (mode' = 1 <=> Head(history') >= SumOf(history) \div Window)]_historyVars
=============================================================================
