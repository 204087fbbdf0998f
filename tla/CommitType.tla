----------------------------- MODULE CommitType -----------------------------
(***************************************************************************)
(* determine_commit_type of src/src/Hybrid.c: a request of at least        *)
(* hotness_bound blocks is committed to an SMR journaling zone (mode 1), a *)
(* smaller one to a CMR zone (mode 0).  The bound starts at a constant;    *)
(* once Window requests have been recorded it is the mean of the Window    *)
(* sizes before the request at hand.  The ring has the Window slots that   *)
(* the function uses; main.c allocates it with room for half of them.      *)
(***************************************************************************)
EXTENDS Integers

CONSTANTS Window    \* JOURNALING_PREDICT_REQ_NUM, 1000 in the code

ASSUME WindowAssumption == Window \in Nat \ {0}

VARIABLES
    sizeRecord,      \* size_record, the ring of the last sizes
    recordPointer,   \* record_pointer
    sizeSummation,   \* size_summation
    notEnough,       \* commit_ammount_not_enough
    hotnessBound     \* hotness_bound

commitVars == <<sizeRecord, recordPointer, sizeSummation, notEnough, hotnessBound>>

\* The ring comes from malloc: a slot not written yet is never read, so its
\* value does not matter and is 0 here.
CommitInit(bound) ==
    /\ sizeRecord = [k \in 0 .. Window - 1 |-> 0]
    /\ recordPointer = 0
    /\ sizeSummation = 0
    /\ notEnough = TRUE
    /\ hotnessBound = bound

\* Whether the window is still short after the request in slot k.
Short(k) == k + 1 # Window

\* The first Window requests fill the ring and leave the bound alone.
Fill(blocks) ==
    /\ notEnough
    /\ sizeRecord' = [sizeRecord EXCEPT ![recordPointer] = blocks]
    /\ sizeSummation' = sizeSummation + blocks
    /\ recordPointer' = recordPointer + 1
    /\ notEnough' = Short(recordPointer)
    /\ UNCHANGED hotnessBound

\* The slot of the oldest size.
Oldest == IF recordPointer = Window THEN 0 ELSE recordPointer

FaultyForget(sum, size) == sum
Forget(sum, size) == sum - size

\* Later ones replace the oldest; the bound is the mean without this request.
Slide(blocks) ==
    /\ ~ notEnough
    /\ hotnessBound' = sizeSummation \div Window
    /\ sizeSummation' = Forget(sizeSummation, sizeRecord[Oldest]) + blocks
    /\ sizeRecord' = [sizeRecord EXCEPT ![Oldest] = blocks]
    /\ recordPointer' = Oldest + 1
    /\ UNCHANGED notEnough

DetermineCommitType(blocks) == Fill(blocks) \/ Slide(blocks)

\* What it returns: the comparison is with the bound after the update.
FaultyCommitMode(blocks) == IF blocks > hotnessBound' THEN 1 ELSE 0
CommitMode(blocks) == IF blocks >= hotnessBound' THEN 1 ELSE 0

=============================================================================
