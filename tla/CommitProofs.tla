---------------------------- MODULE CommitProofs ----------------------------
(***************************************************************************)
(* Theorems about the lines of a trace up to the commit, for blocks and    *)
(* windows of any size and any byte ranges.                                *)
(***************************************************************************)
EXTENDS CommitHistory, SetLemmas, SequenceTheorems

\* The quotient and the remainder of an offset.
LEMMA Division ==
  ASSUME NEW a \in Nat
  PROVE  /\ a = BlockSize * (a \div BlockSize) + (a % BlockSize)
         /\ a % BlockSize \in 0 .. BlockSize - 1
         /\ a \div BlockSize \in Nat
BY BlockSizeAssumption

\* j comes before k: so do the blocks of these numbers.
LEMMA BlocksInOrder ==
  ASSUME NEW j \in Nat, NEW k \in Nat, j < k
  PROVE  BlockSize * j + BlockSize <= BlockSize * k
BY BlockSizeAssumption

LEMMA WholeBlocksIsCeiling ==
  ASSUME NEW len \in Nat \ {0}
  PROVE  /\ WholeBlocks(len) \in Nat \ {0}
         /\ BlockSize * (WholeBlocks(len) - 1) < len
         /\ len <= BlockSize * WholeBlocks(len)
<1> DEFINE q == len \div BlockSize
           r == len % BlockSize
<1>1. len = BlockSize * q + r /\ r \in 0 .. BlockSize - 1 /\ q \in Nat BY Division
<1>2. WholeBlocks(len) = q + (IF r = 0 THEN 0 ELSE 1) BY DEF WholeBlocks
<1> HIDE DEF q, r
<1>3. CASE r = 0
  <2>1. q # 0 BY <1>1, <1>3, BlockSizeAssumption
  <2>2. BlockSize * (q - 1) = BlockSize * q - BlockSize BY <1>1, BlockSizeAssumption
  <2> QED BY <1>1, <1>2, <1>3, <2>1, <2>2, BlockSizeAssumption
<1>4. CASE r # 0
  <2>1. BlockSize * (q + 1) = BlockSize * q + BlockSize BY <1>1, BlockSizeAssumption
  <2> QED BY <1>1, <1>2, <1>4, <2>1, BlockSizeAssumption
<1> QED BY <1>3, <1>4

\* A range that is not empty ends in the last block of its request.
LEMMA RequestEnds ==
  ASSUME NEW b \in Nat, NEW size \in Nat \ {0}
  PROVE  LET q == b \div BlockSize
             k == BlockCount(b, size)
         IN  /\ k \in Nat \ {0}
             /\ BlockSize * (q + k - 1) < b + size
             /\ b + size <= BlockSize * (q + k)
<1> DEFINE q == b \div BlockSize
           r == b % BlockSize
           k == BlockCount(b, size)
           w == WholeBlocks(size - Remain(b))
<1>1. b = BlockSize * q + r /\ r \in 0 .. BlockSize - 1 /\ q \in Nat BY Division
<1>2. Remain(b) = IF r = 0 THEN 0 ELSE BlockSize - r BY DEF Remain
<1>3. Remain(b) \in Nat BY <1>1, <1>2, BlockSizeAssumption
<1> HIDE DEF q, r
<1>4. CASE Remain(b) < size
  <2>1. k = (IF Remain(b) = 0 THEN 0 ELSE 1) + w BY <1>3, <1>4 DEF BlockCount
  <2>2. size - Remain(b) \in Nat \ {0} BY <1>3, <1>4
  <2>3. /\ w \in Nat \ {0}
        /\ BlockSize * (w - 1) < size - Remain(b)
        /\ size - Remain(b) <= BlockSize * w
    BY <2>2, WholeBlocksIsCeiling
  <2> HIDE DEF w, k
  <2>4. CASE r = 0
    <3>1. Remain(b) = 0 /\ k = w BY <1>2, <2>1, <2>3, <2>4
    <3>2. /\ BlockSize * (q + k - 1) = BlockSize * q + BlockSize * (w - 1)
          /\ BlockSize * (q + k) = BlockSize * q + BlockSize * w
      BY <1>1, <2>3, <3>1, BlockSizeAssumption
    <3> QED BY <1>1, <2>3, <2>4, <3>1, <3>2, BlockSizeAssumption DEF q, k
  <2>5. CASE r # 0
    <3>1. Remain(b) = BlockSize - r /\ k = 1 + w
      BY <1>1, <1>2, <2>1, <2>3, <2>5, BlockSizeAssumption
    <3>2. /\ BlockSize * (q + k - 1) = BlockSize * q + BlockSize + BlockSize * (w - 1)
          /\ BlockSize * (q + k) = BlockSize * q + BlockSize + BlockSize * w
      BY <1>1, <2>3, <3>1, BlockSizeAssumption
    <3> QED BY <1>1, <2>3, <2>5, <3>1, <3>2, BlockSizeAssumption DEF q, k
  <2> QED BY <2>4, <2>5
<1>5. CASE Remain(b) >= size
  <2>1. k = 1 BY <1>3, <1>5 DEF BlockCount
  <2>2. r # 0 /\ b + size <= BlockSize * q + BlockSize
    BY <1>1, <1>2, <1>5, BlockSizeAssumption
  <2> HIDE DEF k
  <2>3. BlockSize * (q + k) = BlockSize * q + BlockSize /\ BlockSize * (q + k - 1) = BlockSize * q
    BY <1>1, <2>1, BlockSizeAssumption
  <2> QED BY <1>1, <2>1, <2>2, <2>3, BlockSizeAssumption DEF q, k
<1> QED BY <1>3, <1>4, <1>5

LEMMA RequestCovers ==
  ASSUME NEW b \in Nat, NEW size \in Nat, NEW k \in Nat
  PROVE  k \in b \div BlockSize .. b \div BlockSize + BlockCount(b, size) - 1 <=>
            /\ k * BlockSize < b + size
            /\ b < (k + 1) * BlockSize
            /\ size > 0
<1> DEFINE q == b \div BlockSize
           c == BlockCount(b, size)
<1>1. /\ q \in Nat /\ BlockSize * q <= b /\ b < BlockSize * q + BlockSize
  BY Division, BlockSizeAssumption
<1>2. CASE size = 0
  <2>1. c = 0 BY <1>2 DEF BlockCount
  <2> HIDE DEF q
  <2>2. ~ k \in q .. q + 0 - 1 BY <1>1
  <2> QED BY <1>2, <2>1, <2>2 DEF q
<1>3. CASE size # 0
  <2>1. /\ c \in Nat \ {0} /\ BlockSize * (q + c - 1) < b + size
        /\ b + size <= BlockSize * (q + c)
    BY <1>3, RequestEnds
  <2> HIDE DEF q, c
  <2>2. /\ k * BlockSize = BlockSize * k /\ (k + 1) * BlockSize = BlockSize * k + BlockSize
        /\ BlockSize * k \in Nat
    BY BlockSizeAssumption
  <2>3. CASE k < q
    <3>1. BlockSize * k + BlockSize <= BlockSize * q BY <1>1, <2>3, BlocksInOrder
    <3> QED BY <1>1, <2>1, <2>2, <2>3, <3>1, BlockSizeAssumption DEF q, c
  <2>4. CASE k >= q + c
    <3>1. BlockSize * (q + c) <= BlockSize * k
      <4>1. CASE k = q + c BY <1>1, <2>1, <4>1, BlockSizeAssumption
      <4>2. CASE k # q + c
        <5>1. BlockSize * (q + c) + BlockSize <= BlockSize * k
          BY <1>1, <2>1, <2>4, <4>2, BlocksInOrder
        <5> QED BY <1>1, <2>1, <2>2, <5>1, BlockSizeAssumption
      <4> QED BY <4>1, <4>2
    <3> QED BY <1>1, <2>1, <2>2, <2>4, <3>1, BlockSizeAssumption DEF q, c
  <2>5. CASE k \in q .. q + c - 1
    <3>1. BlockSize * k <= BlockSize * (q + c - 1)
      <4>1. CASE k = q + c - 1 BY <1>1, <2>1, <4>1, BlockSizeAssumption
      <4>2. CASE k # q + c - 1
        <5>1. BlockSize * k + BlockSize <= BlockSize * (q + c - 1)
          BY <1>1, <2>1, <2>5, <4>2, BlocksInOrder
        <5> QED BY <1>1, <2>1, <2>2, <5>1, BlockSizeAssumption
      <4> QED BY <4>1, <4>2
    <3>2. BlockSize * q <= BlockSize * k
      <4>1. CASE k = q BY <1>1, <4>1, BlockSizeAssumption
      <4>2. CASE k # q
        <5>1. BlockSize * q + BlockSize <= BlockSize * k BY <1>1, <2>1, <2>5, <4>2, BlocksInOrder
        <5> QED BY <1>1, <2>2, <5>1, BlockSizeAssumption
      <4> QED BY <4>1, <4>2
    <3>3. size > 0 BY <1>3
    <3>4. k * BlockSize < b + size BY <1>1, <2>1, <2>2, <3>1, BlockSizeAssumption
    <3>5. b < (k + 1) * BlockSize BY <1>1, <2>2, <3>2, BlockSizeAssumption
    <3> QED BY <2>5, <3>3, <3>4, <3>5 DEF q, c
  <2> QED BY <1>1, <2>1, <2>3, <2>4, <2>5
<1> QED BY <1>2, <1>3

\* The request that a line becomes covers the blocks with a byte of its
\* range and no other: for every block size and every alignment of both ends.
THEOREM RequestsCoverExactly == HistorySpec => []ExactCover
<1>1. HistoryInit => ExactCover
  <2> SUFFICES ASSUME HistoryInit PROVE ExactCover OBVIOUS
  <2>1. bytes = 0 /\ numBytes = 0 /\ lba = 0 /\ n = 0 BY DEF HistoryInit, UnitInit
  <2> QED BY <2>1 DEF ExactCover, Touched
<1>2. ASSUME ExactCover, [HistoryNext]_historyVars PROVE ExactCover'
  <2>1. ASSUME NEW b \in Offsets, NEW size \in Lengths, Convert(b, size)
        PROVE  ExactCover'
    <3>1. b \in Nat /\ size \in Nat BY InputAssumption
    <3>2. /\ bytes' = b /\ numBytes' = size /\ lba' = b \div BlockSize
          /\ n' = BlockCount(b, size)
      BY <2>1 DEF Convert
    <3> QED BY <3>1, <3>2, RequestCovers DEF ExactCover, Touched
  <2>2. CASE UNCHANGED historyVars
    BY <1>2, <2>2 DEF historyVars, unitVars, ExactCover, Touched
  <2> QED BY <1>2, <2>1, <2>2 DEF HistoryNext, WriteLine, OtherLine
<1> QED BY <1>1, <1>2, PTL DEF HistorySpec

-----------------------------------------------------------------------------
\* The types of the ring of module CommitType.  Between two calls the pointer
\* may be one past its last slot; the next call then takes slot 0.
RingOK ==
    /\ sizeRecord \in [0 .. Window - 1 -> Nat]
    /\ recordPointer \in 0 .. Window
    /\ notEnough \in BOOLEAN
    /\ notEnough => recordPointer < Window
    /\ ~ notEnough => recordPointer > 0

LEMMA BlockCountType ==
  ASSUME NEW b \in Nat, NEW size \in Nat
  PROVE  BlockCount(b, size) \in Nat
<1>1. CASE size = 0 BY <1>1 DEF BlockCount
<1>2. CASE size # 0 BY <1>2, RequestEnds
<1> QED BY <1>1, <1>2

\* The types are kept.  This is no bound for the array of the code, in which
\* main.c makes room for half of the Window sizes only.
LEMMA RingTypeCorrect == HistorySpec => []RingOK
<1>1. HistoryInit => RingOK
  BY WindowAssumption DEF HistoryInit, CommitInit, RingOK
<1>2. ASSUME RingOK, [HistoryNext]_historyVars PROVE RingOK'
  <2>1. ASSUME NEW blocks \in Nat, Fill(blocks) PROVE RingOK'
    <3>1. recordPointer \in 0 .. Window - 1 BY <1>2, <2>1, WindowAssumption DEF Fill, RingOK
    <3>2. sizeRecord' \in [0 .. Window - 1 -> Nat] BY <1>2, <2>1, <3>1 DEF Fill, RingOK
    <3>3. recordPointer' = recordPointer + 1 /\ notEnough' = (recordPointer + 1 # Window)
      BY <2>1 DEF Fill, Short
    <3>4. recordPointer' \in 1 .. Window BY <2>1, <3>1, WindowAssumption DEF Fill
    <3>5. notEnough' \in BOOLEAN /\ (notEnough' <=> recordPointer' # Window)
      BY <3>3
    <3> QED BY <3>2, <3>4, <3>5, WindowAssumption DEF RingOK
  <2>2. ASSUME NEW blocks \in Nat, Slide(blocks) PROVE RingOK'
    <3>1. Oldest \in 0 .. Window - 1 BY <1>2, WindowAssumption DEF Oldest, RingOK
    <3>2. sizeRecord' \in [0 .. Window - 1 -> Nat] BY <1>2, <2>2, <3>1 DEF Slide, RingOK
    <3>3. recordPointer' \in 1 .. Window BY <2>2, <3>1, WindowAssumption DEF Slide
    <3>4. ~ notEnough' /\ notEnough' \in BOOLEAN BY <1>2, <2>2 DEF Slide, RingOK
    <3> QED BY <3>2, <3>3, <3>4, WindowAssumption DEF RingOK
  <2>3. ASSUME NEW b \in Offsets, NEW size \in Lengths, WriteLine(b, size)
        PROVE  RingOK'
    <3>1. n' \in Nat BY <2>3, InputAssumption, BlockCountType DEF WriteLine, Convert
    <3> QED BY <2>1, <2>2, <2>3, <3>1 DEF WriteLine, DetermineCommitType
  <2>4. ASSUME NEW b \in Offsets, NEW size \in Lengths, OtherLine(b, size)
        PROVE  RingOK'
    BY <1>2, <2>4 DEF OtherLine, commitVars, RingOK
  <2>5. CASE UNCHANGED historyVars BY <1>2, <2>5 DEF historyVars, commitVars, RingOK
  <2> QED BY <1>2, <2>3, <2>4, <2>5 DEF HistoryNext
<1> QED BY <1>1, <1>2, PTL DEF HistorySpec

-----------------------------------------------------------------------------
(* The sum of a sequence.                                                  *)

LEMMA SumOfSequence ==
  ASSUME NEW s \in Seq(Nat)
  PROVE  SumOf(s) = Cardinality(Units(s, 1 .. Len(s)))
<1> DEFINE S == DOMAIN s
           it == CHOOSE it : IsSum(it, s, S)
<1>1. SumOf(s) = it[S]
  BY DEF SumOf, FoldFunction, FoldFunctionOnSet, MapThenFoldSet, IsSum
<1>2. S = 1 .. Len(s) /\ IsFiniteSet(S) /\ \A x \in S : s[x] \in Nat BY FS_Interval
<1> HIDE DEF S
<1>3. \E g : IsSum(g, s, S) BY <1>2, SumExists
<1>4. IsSum(it, s, S) BY <1>3
<1> HIDE DEF it
<1>5. it[S] = Cardinality(Units(s, S)) BY <1>2, <1>4, SumIsCount
<1> QED BY <1>1, <1>2, <1>5

LEMMA SumWithout ==
  ASSUME NEW s \in Seq(Nat), Len(s) > 0
  PROVE  SumOf(SubSeq(s, 1, Len(s) - 1)) = SumOf(s) - s[Len(s)]
<1> DEFINE k == Len(s)
           t == SubSeq(s, 1, k - 1)
<1>1. k \in Nat \ {0} /\ k \in 1 .. k OBVIOUS
<1>2. t \in Seq(Nat) /\ Len(t) = k - 1 /\ \A i \in 1 .. k - 1 : t[i] = s[i]
  <2>1. \A i \in 1 .. k - 1 : s[i] \in Nat BY <1>1
  <2> HIDE DEF k
  <2>2. /\ t \in Seq(Nat) /\ Len(t) = IF 1 <= k - 1 THEN (k - 1) - 1 + 1 ELSE 0
        /\ \A i \in 1 .. (k - 1) - 1 + 1 : t[i] = s[1 + i - 1]
    BY <1>1, <2>1, SubSeqProperties
  <2>3. \A i \in Int : (k - 1) - 1 + 1 = k - 1 /\ 1 + i - 1 = i BY <1>1
  <2> HIDE DEF t
  <2>4. \A i \in 1 .. k - 1 : t[i] = s[i] BY <2>2, <2>3
  <2> QED BY <1>1, <2>2, <2>3, <2>4
<1>3. (1 .. k) \ {k} = 1 .. k - 1 BY <1>1
<1>4. Units(t, 1 .. k - 1) = Units(s, 1 .. k - 1) BY <1>2 DEF Units
<1>5. IsFiniteSet(1 .. k) /\ IsFiniteSet(1 .. k - 1) BY <1>1, FS_Interval
<1>6. \A i \in 1 .. k : s[i] \in Nat OBVIOUS
<1>7. SumOf(s) = Cardinality(Units(s, 1 .. k)) BY SumOfSequence
<1>8. SumOf(t) = Cardinality(Units(t, 1 .. k - 1)) BY <1>2, SumOfSequence
<1> HIDE DEF k, t
<1>9. Cardinality(Units(s, 1 .. k)) = s[k] + Cardinality(Units(s, 1 .. k - 1))
  <2>1. Cardinality(Units(s, 1 .. k)) = s[k] + Cardinality(Units(s, (1 .. k) \ {k}))
    BY <1>1, <1>5, <1>6, UnitsStep
  <2> QED BY <1>3, <2>1
<1>10. Cardinality(Units(s, 1 .. k - 1)) \in Nat
  <2>1. \A i \in 1 .. k - 1 : s[i] \in Nat BY <1>1, <1>6
  <2> QED BY <1>5, <2>1, UnitsFinite
<1>11. SumOf(t) = SumOf(s) - s[k] BY <1>1, <1>4, <1>6, <1>7, <1>8, <1>9, <1>10
<1> QED BY <1>11 DEF k, t

LEMMA SumWith ==
  ASSUME NEW s \in Seq(Nat), NEW x \in Nat
  PROVE  SumOf(<<x>> \o s) = x + SumOf(s)
<1> DEFINE k == Len(s)
           t == <<x>> \o s
           A == Units(s, 1 .. k)
           B == Units(t, 2 .. k + 1)
           g == [u \in A |-> <<u[1] + 1, u[2]>>]
<1>1. k \in Nat OBVIOUS
<1>2. /\ t \in Seq(Nat) /\ Len(t) = k + 1 /\ t[1] = x
      /\ \A i \in 1 .. k : t[i + 1] = s[i]
  OBVIOUS
<1>3. \A i \in 1 .. k + 1 : t[i] \in Nat BY <1>2
<1>4. \A i \in 1 .. k : s[i] \in Nat OBVIOUS
<1>5. SumOf(t) = Cardinality(Units(t, 1 .. k + 1)) BY <1>2, SumOfSequence
<1>6. SumOf(s) = Cardinality(A) BY SumOfSequence
<1> HIDE DEF t, k
<1>7. IsFiniteSet(1 .. k + 1) /\ IsFiniteSet(1 .. k) BY <1>1, FS_Interval
<1>8. (1 .. k + 1) \ {1} = 2 .. k + 1 /\ 1 \in 1 .. k + 1 BY <1>1
<1>9. SumOf(t) = x + Cardinality(B)
  <2> DEFINE S == 1 .. k + 1
  <2>1. IsFiniteSet(S) /\ 1 \in S /\ \A i \in S : t[i] \in Nat BY <1>3, <1>7, <1>8
  <2>2. S \ {1} = 2 .. k + 1 BY <1>8
  <2> HIDE DEF S
  <2>3. Cardinality(Units(t, S)) = t[1] + Cardinality(Units(t, S \ {1})) BY <2>1, UnitsStep
  <2> QED BY <1>2, <1>5, <2>2, <2>3 DEF S
<1>10. IsFiniteSet(A) BY <1>4, <1>7, UnitsFinite
<1>11. g \in Bijection(A, B)
  <2>1. ASSUME NEW u \in A
        PROVE  g[u] \in B /\ g[u] = <<u[1] + 1, u[2]>> /\ u = <<u[1], u[2]>>
               /\ u[1] \in 1 .. k /\ u[2] \in Nat
    <3>1. u[1] \in 1 .. k /\ u[2] \in Nat /\ u[2] < s[u[1]] /\ u = <<u[1], u[2]>> BY DEF Units
    <3>2. u[1] + 1 \in 2 .. k + 1 BY <1>1, <3>1
    <3>3. u[2] < t[u[1] + 1] BY <1>2, <3>1
    <3> QED BY <3>1, <3>2, <3>3 DEF Units
  <2>2. ASSUME NEW u \in A, NEW v \in A, g[u] = g[v] PROVE u = v
    <3>1. u[1] + 1 = v[1] + 1 /\ u[2] = v[2] BY <2>1, <2>2
    <3>2. u[1] \in Int /\ v[1] \in Int
      <4>1. u[1] \in 1 .. k /\ v[1] \in 1 .. k BY <2>1
      <4> QED BY <1>1, <4>1
    <3>3. u[1] = v[1]
      <4>1. \A i, j \in Int : i + 1 = j + 1 => i = j OBVIOUS
      <4> QED BY <3>1, <3>2, <4>1
    <3> QED BY <2>1, <3>1, <3>3
  <2>3. ASSUME NEW w \in B PROVE \E u \in A : g[u] = w
    <3>1. w[1] \in 2 .. k + 1 /\ w[2] \in Nat /\ w[2] < t[w[1]] /\ w = <<w[1], w[2]>>
      BY DEF Units
    <3>2. w[1] - 1 \in 1 .. k /\ w[1] - 1 + 1 = w[1] BY <1>1, <3>1
    <3>3. t[w[1]] = s[w[1] - 1] BY <1>2, <3>2
    <3>4. <<w[1] - 1, w[2]>> \in A BY <3>1, <3>2, <3>3 DEF Units
    <3>5. g[<<w[1] - 1, w[2]>>] = w BY <3>1, <3>2, <3>4
    <3> QED BY <3>4, <3>5
  <2>4. g \in [A -> B]
    <3>1. \A u \in A : g[u] \in B BY <2>1
    <3> HIDE DEF A, B
    <3> QED BY <3>1
  <2> HIDE DEF g, A, B
  <2> QED BY <2>2, <2>3, <2>4 DEF Bijection, Injection, IsInjective, Surjection
<1> HIDE DEF g, A, B
<1>12. Cardinality(B) = Cardinality(A)
  BY <1>10, <1>11, FS_Bijection DEF ExistsBijection
<1> QED BY <1>6, <1>9, <1>12 DEF t

LEMMA SumIsNat ==
  ASSUME NEW s \in Seq(Nat)
  PROVE  SumOf(s) \in Nat
<1>1. IsFiniteSet(1 .. Len(s)) BY FS_Interval
<1>2. \A i \in 1 .. Len(s) : s[i] \in Nat OBVIOUS
<1> QED BY <1>1, <1>2, SumOfSequence, UnitsFinite

-----------------------------------------------------------------------------
(* The window.                                                             *)

\* The slot of the i-th newest size.
SlotOf(i) == IF i <= recordPointer THEN recordPointer - i ELSE recordPointer + Window - i

\* The ring holds the history, the newest size right before record_pointer.
RingHolds ==
    /\ history \in Seq(Nat)
    /\ Len(history) = IF notEnough THEN recordPointer ELSE Window
    /\ \A i \in 1 .. Len(history) : history[i] = sizeRecord[SlotOf(i)]

WindowInv == RingOK /\ RingHolds /\ sizeSummation = SumOf(history)

\* The history after a size, while it is short and afterwards.
LEMMA HistoryGrows ==
  ASSUME history \in Seq(Nat), NEW x \in Nat
  PROVE  LET t == <<x>> \o history
         IN  /\ t \in Seq(Nat) /\ Len(t) = Len(history) + 1 /\ t[1] = x
             /\ \A i \in 2 .. Len(history) + 1 : t[i] = history[i - 1]
             /\ SumOf(t) = x + SumOf(history)
             /\ t # <<>> /\ Head(t) = x
<1>1. SumOf(<<x>> \o history) = x + SumOf(history) BY SumWith
<1>2. Len(history) \in Nat OBVIOUS
<1> QED BY <1>1, <1>2

LEMMA FillKeepsWindow ==
  ASSUME WindowInv, RingOK', NEW x \in Nat, Fill(x), history' = Latest(<<x>> \o history)
  PROVE  RingHolds' /\ sizeSummation' = SumOf(history')
<1> DEFINE t == <<x>> \o history
           P == recordPointer
<1>1. /\ P \in 0 .. Window - 1 /\ notEnough /\ Len(history) = P /\ Window \in Nat
      /\ sizeRecord \in [0 .. Window - 1 -> Nat]
  BY WindowAssumption DEF WindowInv, RingOK, RingHolds, Fill
<1>2. /\ t \in Seq(Nat) /\ Len(t) = P + 1 /\ t[1] = x
      /\ \A i \in 2 .. P + 1 : t[i] = history[i - 1]
      /\ SumOf(t) = x + SumOf(history)
  BY <1>1, HistoryGrows DEF WindowInv, RingHolds
<1>3. /\ recordPointer' = P + 1 /\ notEnough' = (P + 1 # Window)
      /\ sizeRecord' = [sizeRecord EXCEPT ![P] = x] /\ sizeSummation' = sizeSummation + x
  BY DEF Fill, Short
<1> HIDE DEF t, P
<1>4. history' = t BY <1>1, <1>2 DEF Latest, t
<1>5. Len(history') = IF notEnough' THEN recordPointer' ELSE Window
  BY <1>1, <1>2, <1>3, <1>4
<1>6. ASSUME NEW i \in 1 .. P + 1 PROVE history'[i] = sizeRecord'[SlotOf(i)']
  <2>1. SlotOf(i)' = P + 1 - i BY <1>1, <1>3 DEF SlotOf
  <2>2. CASE i = 1
    <3>1. P + 1 - 1 = P BY <1>1
    <3> QED BY <1>1, <1>2, <1>3, <1>4, <2>1, <2>2, <3>1
  <2>3. CASE i # 1
    <3>1. /\ i - 1 \in 1 .. P /\ i \in 2 .. P + 1
          /\ P + 1 - i = P - (i - 1) /\ P - (i - 1) \in 0 .. Window - 1 /\ P - (i - 1) # P
      BY <1>1, <2>3
    <3>2. history[i - 1] = sizeRecord[P - (i - 1)]
      BY <1>1, <3>1 DEF WindowInv, RingHolds, SlotOf, P
    <3> QED BY <1>1, <1>2, <1>3, <1>4, <2>1, <3>1, <3>2
  <2> QED BY <2>2, <2>3
<1>7. sizeSummation' = SumOf(history')
  <2>1. SumOf(history) \in Nat BY SumIsNat DEF WindowInv, RingHolds
  <2> QED BY <1>2, <1>3, <1>4, <2>1 DEF WindowInv
<1> QED BY <1>2, <1>4, <1>5, <1>6, <1>7 DEF RingHolds

LEMMA SlideKeepsWindow ==
  ASSUME WindowInv, RingOK', NEW x \in Nat, Slide(x), history' = Latest(<<x>> \o history)
  PROVE  RingHolds' /\ sizeSummation' = SumOf(history')
<1> DEFINE t == <<x>> \o history
           P == recordPointer
           O == Oldest
<1>1. /\ P \in 1 .. Window /\ ~ notEnough /\ Len(history) = Window /\ Window \in Nat \ {0}
      /\ sizeRecord \in [0 .. Window - 1 -> Nat] /\ history \in Seq(Nat)
  BY WindowAssumption DEF WindowInv, RingOK, RingHolds, Slide
<1>2. /\ t \in Seq(Nat) /\ Len(t) = Window + 1 /\ t[1] = x
      /\ \A i \in 2 .. Window + 1 : t[i] = history[i - 1]
      /\ SumOf(t) = x + SumOf(history)
  BY <1>1, HistoryGrows
<1>3. /\ recordPointer' = O + 1 /\ notEnough' = notEnough
      /\ sizeRecord' = [sizeRecord EXCEPT ![O] = x]
      /\ sizeSummation' = sizeSummation - sizeRecord[O] + x
  BY DEF Slide, Forget
<1>4. O \in 0 .. Window - 1 /\ O = (IF P = Window THEN 0 ELSE P) BY <1>1 DEF Oldest
<1>5. \A i \in 1 .. Window : history[i] = sizeRecord[SlotOf(i)]
  BY <1>1 DEF WindowInv, RingHolds
<1>6. \A i \in 1 .. Window : SlotOf(i) = IF i <= P THEN P - i ELSE P + Window - i
  BY DEF SlotOf
<1>7. \A i \in 1 .. Window :
        SlotOf(i)' = IF i <= recordPointer' THEN recordPointer' - i ELSE recordPointer' + Window - i
  BY DEF SlotOf
<1>8. history' = SubSeq(t, 1, Window)
  <2>1. Window < Len(t) /\ ~ Len(t) < Window BY <1>1, <1>2
  <2> HIDE DEF t
  <2>2. Latest(t) = SubSeq(t, 1, Window) BY <1>1, <1>2, <2>1 DEF Latest
  <2> QED BY <2>2 DEF t
<1> HIDE DEF t, P, O
<1>9. /\ history' \in Seq(Nat) /\ Len(history') = Window
      /\ \A i \in 1 .. Window : history'[i] = t[i]
  <2>1. \A i \in 1 .. Window : t[i] \in Nat BY <1>1, <1>2
  <2>2. \A i \in Int : Window - 1 + 1 = Window /\ 1 + i - 1 = i BY <1>1
  <2>3. 1 <= Window /\ 1 \in Int /\ Window \in Int BY <1>1
  <2> DEFINE h == SubSeq(t, 1, Window)
  <2>4. /\ h \in Seq(Nat) /\ Len(h) = IF 1 <= Window THEN Window - 1 + 1 ELSE 0
        /\ \A i \in 1 .. Window - 1 + 1 : h[i] = t[1 + i - 1]
    BY <2>1, <2>3, SubSeqProperties
  <2> HIDE DEF h
  <2>5. \A i \in 1 .. Window : h[i] = t[i] BY <2>2, <2>4
  <2>6. Len(h) = Window BY <2>2, <2>3, <2>4
  <2> QED BY <1>8, <2>4, <2>5, <2>6 DEF h
<1>10. ASSUME NEW i \in 1 .. Window PROVE history'[i] = sizeRecord'[SlotOf(i)']
  <2>1. CASE i = 1
    <3>1. O + 1 - 1 = O /\ 1 <= O + 1 /\ 1 \in 1 .. Window BY <1>1, <1>4
    <3>2. SlotOf(1)' = O
      <4>1. recordPointer' = O + 1 /\ recordPointer' \in Int /\ O \in Nat BY <1>1, <1>3, <1>4
      <4>2. 1 <= recordPointer' => SlotOf(1)' = recordPointer' - 1 BY <1>7, <3>1
      <4>3. 1 <= recordPointer' /\ recordPointer' - 1 = O BY <4>1
      <4> QED BY <4>2, <4>3
    <3> QED BY <1>1, <1>2, <1>3, <1>4, <1>9, <2>1, <3>1, <3>2
  <2>2. CASE i # 1
    <3>1. /\ i - 1 \in 1 .. Window - 1 /\ i - 1 \in 1 .. Window
          /\ i \in 2 .. Window /\ i \in 2 .. Window + 1
      BY <1>1, <2>2
    <3>a. SlotOf(i - 1) = IF i - 1 <= P THEN P - (i - 1) ELSE P + Window - (i - 1)
      BY <1>6, <3>1
    <3>b. SlotOf(i)' = IF i <= O + 1 THEN O + 1 - i ELSE O + 1 + Window - i
      <4>1. recordPointer' = O + 1 /\ recordPointer' \in Int /\ Window \in Int /\ O \in Int
        BY <1>1, <1>3, <1>4
      <4>2. /\ i <= recordPointer' => SlotOf(i)' = recordPointer' - i
            /\ ~ i <= recordPointer' => SlotOf(i)' = recordPointer' + Window - i
        BY <1>7
      <4> QED BY <4>1, <4>2
    <3>2. SlotOf(i)' = SlotOf(i - 1) /\ SlotOf(i - 1) # O /\ SlotOf(i - 1) \in 0 .. Window - 1
      <4>1. CASE P = Window
        <5>1. O = 0 BY <1>4, <4>1
        <5>2. SlotOf(i - 1) = Window - i + 1 BY <1>1, <3>1, <3>a, <4>1
        <5>3. SlotOf(i)' = 1 + Window - i BY <1>1, <3>1, <3>b, <5>1
        <5> QED BY <1>1, <3>1, <5>1, <5>2, <5>3
      <4>2. CASE P # Window
        <5>1. O = P /\ P \in 0 .. Window - 1 /\ P \in Int /\ Window \in Int
          BY <1>1, <1>4, <4>2
        <5>2. CASE i - 1 <= P
          <6>1. SlotOf(i - 1) = P - (i - 1) /\ SlotOf(i)' = O + 1 - i
            BY <1>1, <3>1, <3>a, <3>b, <5>1, <5>2
          <6> QED BY <3>1, <5>1, <5>2, <6>1
        <5>3. CASE ~ i - 1 <= P
          <6>1. SlotOf(i - 1) = P + Window - (i - 1) /\ SlotOf(i)' = O + 1 + Window - i
            BY <1>1, <3>1, <3>a, <3>b, <5>1, <5>3
          <6> QED BY <3>1, <5>1, <5>3, <6>1
        <5> QED BY <5>2, <5>3
      <4> QED BY <4>1, <4>2
    <3>3. history'[i] = history[i - 1] BY <1>2, <1>9, <3>1
    <3>4. history[i - 1] = sizeRecord[SlotOf(i - 1)] BY <1>5, <3>1
    <3> QED BY <1>1, <1>3, <3>2, <3>3, <3>4
  <2> QED BY <2>1, <2>2
<1>11. sizeSummation' = SumOf(history')
  <2>1. SumOf(history) \in Nat BY <1>1, SumIsNat
  <2>2. SumOf(SubSeq(t, 1, Len(t) - 1)) = SumOf(t) - t[Len(t)]
    <3>1. Len(t) > 0 BY <1>1, <1>2
    <3> QED BY <1>2, <3>1, SumWithout
  <2>3. Window + 1 - 1 = Window /\ Window + 1 \in 2 .. Window + 1 BY <1>1
  <2>4. t[Window + 1] = history[Window]
    <3>1. ASSUME NEW i \in 2 .. Window + 1, i = Window + 1 PROVE t[i] = history[Window]
      <4>1. i - 1 = Window BY <1>1, <3>1
      <4> QED BY <1>2, <4>1
    <3> QED BY <2>3, <3>1
  <2>5. SumOf(history') = SumOf(t) - history[Window]
    <3>1. Len(t) - 1 = Window /\ Len(t) = Window + 1 BY <1>1, <1>2
    <3>2. SumOf(SubSeq(t, 1, Window)) = SumOf(t) - t[Window + 1] BY <2>2, <3>1
    <3> QED BY <1>8, <2>4, <3>2
  <2>6. SlotOf(Window) = O /\ Window \in 1 .. Window BY <1>1, <1>4, <1>6
  <2>7. history[Window] = sizeRecord[O] /\ sizeRecord[O] \in Nat BY <1>1, <1>4, <1>5, <2>6
  <2>8. sizeSummation = SumOf(history) BY DEF WindowInv
  <2> QED BY <1>2, <1>3, <2>1, <2>5, <2>7, <2>8
<1> QED BY <1>1, <1>3, <1>9, <1>10, <1>11 DEF RingHolds

LEMMA SameWindow ==
  ASSUME WindowInv, RingOK', UNCHANGED commitVars, history' = history
  PROVE  WindowInv'
<1>1. UNCHANGED <<sizeRecord, recordPointer, sizeSummation, notEnough>> BY DEF commitVars
<1>2. \A i : SlotOf(i)' = SlotOf(i) BY <1>1 DEF SlotOf
<1>3. SumOf(history') = SumOf(history) OBVIOUS
<1> QED BY <1>1, <1>2, <1>3 DEF WindowInv, RingHolds

LEMMA WindowInvariance == HistorySpec => []WindowInv
<1>1. HistoryInit => WindowInv
  <2> SUFFICES ASSUME HistoryInit PROVE WindowInv OBVIOUS
  <2>1. /\ recordPointer = 0 /\ notEnough = TRUE /\ sizeSummation = 0 /\ history = <<>>
        /\ sizeRecord = [k \in 0 .. Window - 1 |-> 0]
    BY DEF HistoryInit, CommitInit
  <2>2. history \in Seq(Nat) /\ Len(history) = 0 /\ 1 .. 0 = {} BY <2>1
  <2>3. SumOf(history) = 0 BY <2>2, SumOfSequence, UnitsEmpty
  <2> QED BY <2>1, <2>2, <2>3, WindowAssumption DEF WindowInv, RingOK, RingHolds
<1>2. ASSUME WindowInv, RingOK', [HistoryNext]_historyVars PROVE WindowInv'
  <2>1. ASSUME NEW b \in Offsets, NEW size \in Lengths, WriteLine(b, size)
        PROVE  WindowInv'
    <3>1. n' \in Nat BY <2>1, InputAssumption, BlockCountType DEF WriteLine, Convert
    <3>2. history' = Latest(<<n'>> \o history) /\ (Fill(n') \/ Slide(n'))
      BY <2>1 DEF WriteLine, DetermineCommitType
    <3> QED BY <1>2, <3>1, <3>2, FillKeepsWindow, SlideKeepsWindow DEF WindowInv
  <2>2. ASSUME NEW b \in Offsets, NEW size \in Lengths, OtherLine(b, size)
        PROVE  WindowInv'
    <3>1. /\ UNCHANGED commitVars /\ history' = history
      BY <2>2 DEF OtherLine
    <3> QED BY <1>2, <3>1, SameWindow
  <2>3. CASE UNCHANGED historyVars
    BY <1>2, <2>3, SameWindow DEF historyVars
  <2> QED BY <1>2, <2>1, <2>2, <2>3 DEF HistoryNext
<1> QED BY <1>1, <1>2, RingTypeCorrect, PTL DEF HistorySpec

\* size_summation is the sum of the window, for a window of any size and
\* after any number of wraps: what the ring gives up is the oldest size.  (The
\* ring is that of CommitType, which keeps all Window sizes.)
THEOREM RingSumsWindow == HistorySpec => []SumIsWindow
<1>1. WindowInv => SumIsWindow
  BY WindowAssumption DEF WindowInv, RingOK, RingHolds, SumIsWindow
<1> QED BY <1>1, WindowInvariance, PTL

\* A write is hot exactly when it is at least the mean of the window before it.
THEOREM HotIsAboveMean == HistorySpec => HotAgainstMean
<1>1. ASSUME WindowInv, [HistoryNext]_historyVars
      PROVE  [WriteLine(bytes', numBytes') /\ ~ notEnough =>
                (mode' = 1 <=> Head(history') >= SumOf(history) \div Window)]_historyVars
  <2> SUFFICES ASSUME WriteLine(bytes', numBytes'), ~ notEnough, ~ UNCHANGED historyVars
               PROVE  mode' = 1 <=> Head(history') >= SumOf(history) \div Window
    OBVIOUS
  <2>1. n' \in Nat
    <3>1. \E b \in Offsets, size \in Lengths : Convert(b, size)
      BY <1>1 DEF HistoryNext, WriteLine, OtherLine
    <3> QED BY <3>1, InputAssumption, BlockCountType DEF Convert
  <2>2. Slide(n') /\ mode' = CommitMode(n') /\ history' = Latest(<<n'>> \o history)
    BY DEF WriteLine, DetermineCommitType, Fill
  <2>3. hotnessBound' = SumOf(history) \div Window BY <1>1, <2>2 DEF Slide, WindowInv
  <2>4. Head(history') = n'
    <3> DEFINE t == <<n'>> \o history
    <3>1. history \in Seq(Nat) /\ Len(history) = Window BY <1>1 DEF WindowInv, RingHolds
    <3>2. t \in Seq(Nat) /\ Len(t) = Window + 1 /\ t[1] = n' BY <2>1, <3>1, HistoryGrows
    <3> HIDE DEF t
    <3>3. history' = SubSeq(t, 1, Window) BY <2>2, <3>2, WindowAssumption DEF Latest, t
    <3>4. 1 \in 1 .. Len(t) /\ Window \in 1 .. Len(t) BY <3>2, WindowAssumption
    <3> QED BY <3>2, <3>3, <3>4, HeadTailOfSubSeq
  <2> QED BY <2>2, <2>3, <2>4 DEF CommitMode
<1> QED BY <1>1, WindowInvariance, PTL DEF HistorySpec, HotAgainstMean
=============================================================================
