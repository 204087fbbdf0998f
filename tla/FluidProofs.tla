---------------------------- MODULE FluidProofs ----------------------------
(***************************************************************************)
(* Theorems about the extendable space of the FLUIDSMR build, for disks    *)
(* with any number of bands and tracks and for any traces.                 *)
(***************************************************************************)
EXTENDS Fluid, SetLemmas, SequenceTheorems

-----------------------------------------------------------------------------
(* The invariant, in parts.                                                *)

Modes == {"read", "write", "delete"}
Block == [fid : Owner, lba : Nat]
Entry == [type : 0 .. 2, nsw : Nat, whp : 0 .. ZoneTracks, lba : Nat, isFull : BOOLEAN,
          isCache : BOOLEAN, sealed : BOOLEAN, blocks : [Track -> Block]]

JobOK ==
    /\ job \in [mode : Modes, fid : Owner, lba : Nat, n : Nat, hint : {0, 1},
                rest : 0 .. Word - 1, next : Nat, skip : SUBSET Nat]
    /\ job.lba + job.n < Word
    /\ job.next \in job.lba .. job.lba + job.n

\* An entry behind the last zone in use may be a cache zone, but is empty.
SpareEntriesEmpty ==
    \A z \in Zone : z >= used => zone[z].nsw = 0 /\ zone[z].whp = 0 /\ ~ zone[z].isFull

\* Bands of both kinds are taken no faster than zones; a CMR zone that passes
\* the last band ends in pc "undefined".
BoundariesOK ==
    /\ BandCount - 1 - used <= smrBoundary
    /\ pc # "undefined" => cmrBoundary <= BandCount

\* Each zone is in one queue at most, and once.
QueueOK ==
    /\ queue.cmr \in Seq(InUse) /\ queue.smr \in Seq(InUse)
    /\ IsInjective(queue.cmr) /\ IsInjective(queue.smr)
    /\ queue = [cmr |-> queue.cmr, smr |-> queue.smr]

\* The program counters of a cleaning.
Cleaning == {"swap", "sort", "convert", "round", "rewrite", "back"}

CleaningOK ==
    /\ pc \in Cleaning =>
         /\ \A z \in InUse : ~ zone[z].isCache
         /\ Len(queue.cmr) <= cmrCount
    /\ pc \in (Cleaning \ {"rewrite"}) \cup {"queue"} => scan = 0
    /\ pc \in Cleaning \cup {"queue"} => job.next = job.lba

\* The queue lasts for the rounds that are left.
RoundsOK ==
    /\ rounds \in Nat /\ rewrite \in Seq(Zone)
    /\ pc = "round" => rounds > 0
    /\ pc \in {"round", "rewrite"} => 3 * rounds < Len(queue.cmr)
    /\ pc = "rewrite" => rewrite # <<>> /\ ~ Unconverted

TypeInv ==
    /\ FluidTypeOK /\ JobOK /\ SpareEntriesEmpty /\ BoundariesOK /\ QueueOK
    /\ used <= cmrCount + smrCount
    /\ CleaningOK /\ RoundsOK

\* Up to the first conversion: the zones in use have bands of their own, CMR
\* ones below cmrBoundary and SMR ones above smrBoundary.
Band(z) == zone[z].lba \div ZoneTracks

BandsApart ==
    /\ cmrBoundary + (BandCount - 1 - smrBoundary) = used
    /\ \A z \in InUse :
          /\ zone[z].lba = ZoneTracks * Band(z)
          /\ zone[z].sealed <=> zone[z].type = 0
          /\ \/ zone[z].type = 0 /\ Band(z) \in 0 .. cmrBoundary - 1
             \/ zone[z].type = 1 /\ Band(z) \in smrBoundary + 1 .. BandCount - 1
          /\ zone[z].whp <= Usable(z)
    /\ \A y, z \in InUse : Band(y) = Band(z) => y = z
    /\ cmrBands = {Band(z) : z \in {y \in InUse : zone[y].type = 0}}

\* What is on the disk, from either side.
SlotsRecorded ==
    /\ \A z \in InUse : \A k \in 0 .. zone[z].whp - 1 :
          /\ zone[z].blocks[k].fid \in Fid
          /\ home[zone[z].lba + k] = zone[z].blocks[k].fid
    /\ \A l \in DiskStore!Lba : home[l] # NoFid =>
          \E z \in InUse : \E k \in 0 .. zone[z].whp - 1 : l = zone[z].lba + k

\* The tracks that CMR zones cannot use, and the free ones without these.
Tails == {l \in DiskStore!Lba :
            \E z \in Queued({0}) : \E k \in CMRTracks .. ZoneTracks - 1 : l = zone[z].lba + k}
Spare == {l \in DiskStore!Lba : home[l] = NoFid /\ l \notin Tails}

DiskInv ==
    Unconverted => /\ BandsApart /\ SlotsRecorded
                   /\ remain = Cardinality(Spare)

\* A full zone is written up to its last usable track; so is every zone of the
\* hint that the write has left with blocks to place.
FullZones ==
    \A z \in InUse : /\ ~ zone[z].isCache
                     /\ zone[z].isFull \/ (pc = "place" /\ More /\ z < scan
                                                        /\ zone[z].type = job.hint)
                     => zone[z].whp = Usable(z)

PlacedSoFar ==
    pc = "place" => \A b \in job.lba .. job.next - 1 : b \in job.skip \/ Copies(job.fid, b) # {}

PlaceInv == FullZones /\ PlacedSoFar

-----------------------------------------------------------------------------
(* The operators of the space.                                             *)

LEMMA Sizes ==
  /\ BandCount \in Nat \ {0} /\ ZoneTracks \in Nat \ {0} /\ CMRTracks \in 1 .. ZoneTracks
  /\ Word \in Nat \ {0} /\ MaxBlock \in Nat /\ MaxBlock < Word /\ ToConvert \in Nat
  /\ NumTraces \in Nat
<1>1. BandCount * ZoneTracks \in Nat BY FluidSizesAssumption
<1>2. BandCount * ConvPercent \in Nat BY FluidSizesAssumption
<1>3. (BandCount * ConvPercent) \div 100 \in Nat
  <2> DEFINE p == BandCount * ConvPercent
  <2>1. p \in Nat BY <1>2
  <2> HIDE DEF p
  <2>2. p \div 100 \in Nat BY <2>1
  <2> QED BY <2>2 DEF p
<1> QED BY <1>1, <1>3, FluidSizesAssumption DEF MaxBlock, ToConvert

LEMMA WordRange ==
  ASSUME NEW a \in Int, NEW b \in Int
  PROVE  Plus(a, b) \in 0 .. Word - 1 /\ Minus(a, b) \in 0 .. Word - 1
<1>1. \A x \in Int : x % Word \in 0 .. Word - 1 BY Sizes
<1> QED BY <1>1 DEF Plus, Minus

LEMMA InUseFinite ==
  ASSUME used \in 0 .. BandCount
  PROVE  /\ InUse \subseteq Zone /\ Zone \subseteq Nat /\ IsFiniteSet(InUse)
         /\ Cardinality(InUse) = used
<1>1. IsFiniteSet(InUse) /\ Cardinality(InUse) = used BY FirstNumbers DEF InUse
<1>2. InUse \subseteq Zone BY Sizes DEF InUse, Zone
<1> QED BY <1>1, <1>2 DEF Zone

\* The NSW of zones together.
LEMMA NswIsNat ==
  ASSUME zone \in [Zone -> Entry], NEW S \in SUBSET Zone, IsFiniteSet(S)
  PROVE  NswOf(S) \in Nat
<1> DEFINE f == [z \in Zone |-> zone[z].nsw]
           it == CHOOSE it : IsSum(it, f, S)
<1>1. \A z \in S : f[z] \in Nat BY DEF Entry
<1>2. NswOf(S) = it[S]
  <2> DEFINE jt == CHOOSE jt : jt = [s \in SUBSET S |->
                       IF s = {} THEN 0
                       ELSE zone[CHOOSE x \in s : TRUE].nsw + jt[s \ {CHOOSE x \in s : TRUE}]]
  <2>1. NswOf(S) = jt[S] BY DEF NswOf, MapThenSumSet, MapThenFoldSet
  <2>2. ASSUME NEW g, NEW s \in SUBSET S
        PROVE  (IF s = {} THEN 0
                ELSE zone[CHOOSE x \in s : TRUE].nsw + g[s \ {CHOOSE x \in s : TRUE}])
               = (IF s = {} THEN 0
                  ELSE f[CHOOSE x \in s : TRUE] + g[s \ {CHOOSE x \in s : TRUE}])
    <3>1. s # {} => (CHOOSE x \in s : TRUE) \in Zone OBVIOUS
    <3> QED BY <3>1
  <2>3. \A g : g = [s \in SUBSET S |->
                       IF s = {} THEN 0
                       ELSE zone[CHOOSE x \in s : TRUE].nsw + g[s \ {CHOOSE x \in s : TRUE}]]
               <=> IsSum(g, f, S)
    <3> HIDE DEF f
    <3> QED BY <2>2 DEF IsSum
  <2>4. jt = it BY <2>3
  <2> QED BY <2>1, <2>4
<1> HIDE DEF f
<1>3. IsSum(it, f, S) BY <1>1, SumExists
<1> HIDE DEF it
<1>4. it[S] = Cardinality(Units(f, S)) BY <1>1, <1>3, SumIsCount
<1>5. Cardinality(Units(f, S)) \in Nat BY <1>1, UnitsFinite
<1> QED BY <1>2, <1>4, <1>5

LEMMA FunctionIsSequence ==
  ASSUME NEW S, NEW n \in Nat, NEW f \in [1 .. n -> S]
  PROVE  f \in Seq(S) /\ Len(f) = n
<1>1. f \in Seq(S) BY SeqDef
<1> QED BY <1>1

LEMMA NthSmallest ==
  ASSUME NEW S \in SUBSET Nat, IsFiniteSet(S), NEW i \in 0 .. Cardinality(S) - 1
  PROVE  Nth(S, i) \in S /\ Rank(S, Nth(S, i)) = i
<1>1. \E b \in S : Rank(S, b) = i BY RankOnto
<1> QED BY <1>1 DEF Nth, Rank

LEMMA NthOnto ==
  ASSUME NEW S \in SUBSET Nat, IsFiniteSet(S), NEW b \in S
  PROVE  \E i \in 0 .. Cardinality(S) - 1 : Nth(S, i) = b
<1>1. Rank(S, b) \in 0 .. Cardinality(S) - 1 BY RankType
<1>2. /\ Nth(S, Rank(S, b)) \in S
      /\ Rank(S, Nth(S, Rank(S, b))) = Rank(S, b)
  BY <1>1, NthSmallest
<1>3. Nth(S, Rank(S, b)) = b
  <2>1. \A x \in S : Rank(S, x) = Rank(S, b) => x = b BY RankInjective
  <2> QED BY <1>2, <2>1
<1> QED BY <1>1, <1>3

\* A queue holds its zones once each.
LEMMA InOrderIsQueue ==
  ASSUME NEW S \in SUBSET Nat, IsFiniteSet(S)
  PROVE  /\ InOrder(S) \in Seq(S) /\ Len(InOrder(S)) = Cardinality(S)
         /\ IsInjective(InOrder(S))
<1> DEFINE q == InOrder(S)
           c == Cardinality(S)
<1>1. c \in Nat BY FS_CardinalityType
<1>2. q = [i \in 1 .. c |-> Nth(S, i - 1)] BY DEF InOrder
<1> HIDE DEF q
<1>3. ASSUME NEW i \in 1 .. c
      PROVE  q[i] = Nth(S, i - 1) /\ q[i] \in S /\ Rank(S, q[i]) = i - 1
  <2>1. i - 1 \in 0 .. c - 1 BY <1>1
  <2>2. Nth(S, i - 1) \in S /\ Rank(S, Nth(S, i - 1)) = i - 1 BY <2>1, NthSmallest
  <2> QED BY <1>2, <2>2
<1>4. q \in [1 .. c -> S] BY <1>2, <1>3
<1>5. q \in Seq(S) /\ Len(q) = c /\ DOMAIN q = 1 .. c BY <1>1, <1>4
<1>6. ASSUME NEW i \in 1 .. c, NEW j \in 1 .. c, q[i] = q[j] PROVE i = j
  <2>1. i - 1 = j - 1 BY <1>3, <1>6
  <2> QED BY <1>1, <2>1
<1> QED BY <1>5, <1>6 DEF q, IsInjective

LEMMA PoppedIsQueue ==
  ASSUME NEW Z, NEW q \in Seq(Z), IsInjective(q), NEW i \in DOMAIN q
  PROVE  /\ Popped(q, i) \in Seq(Z) /\ Len(Popped(q, i)) = Len(q) - 1
         /\ IsInjective(Popped(q, i))
<1> DEFINE p == Popped(q, i)
           k == Len(q)
<1>1. k \in Nat \ {0} /\ DOMAIN q = 1 .. k /\ i \in 1 .. k /\ q \in [1 .. k -> Z]
  <2>1. k \in Nat /\ DOMAIN q = 1 .. k /\ q \in [1 .. k -> Z] OBVIOUS
  <2>2. k # 0 BY <2>1
  <2> QED BY <2>1, <2>2
<1>2. p = [j \in 1 .. k - 1 |-> IF j = i THEN q[k] ELSE q[j]] BY DEF Popped
<1> HIDE DEF p, k
<1>3. \A j \in 1 .. k - 1 : j \in 1 .. k /\ k \in 1 .. k /\ j # k BY <1>1
<1>4. p \in [1 .. k - 1 -> Z] BY <1>1, <1>2, <1>3
<1>5. p \in Seq(Z) /\ Len(p) = k - 1 /\ DOMAIN p = 1 .. k - 1 BY <1>1, <1>4
<1>6. ASSUME NEW x \in 1 .. k - 1, NEW y \in 1 .. k - 1, p[x] = p[y] PROVE x = y
  BY <1>1, <1>2, <1>3, <1>6 DEF IsInjective
<1> QED BY <1>5, <1>6 DEF p, k, IsInjective

\* The order of the bubble sorts.
Before(q, sign, i, j) ==
    \/ sign * zone[q[i]].nsw > sign * zone[q[j]].nsw
    \/ sign * zone[q[i]].nsw = sign * zone[q[j]].nsw /\ i <= j

SortRank(q, sign, j) == Cardinality({i \in DOMAIN q : Before(q, sign, i, j)})

LEMMA SortRanks ==
  ASSUME zone \in [Zone -> Entry], NEW q \in Seq(Zone), NEW sign \in {1, -1}
  PROVE  \A k \in DOMAIN q : \E i \in DOMAIN q : SortRank(q, sign, i) = k
<1> DEFINE n == Len(q)
           B(j) == {i \in 1 .. n : Before(q, sign, i, j)}
           f == [j \in 1 .. n |-> Cardinality(B(j))]
<1>1. n \in Nat /\ DOMAIN q = 1 .. n /\ q \in [1 .. n -> Zone] OBVIOUS
<1>2. \A i \in 1 .. n : sign * zone[q[i]].nsw \in Int
  <2>1. \A i \in 1 .. n : zone[q[i]].nsw \in Int BY <1>1 DEF Entry
  <2>2. \A x \in Int : 1 * x \in Int /\ (-1) * x \in Int OBVIOUS
  <2> QED BY <2>1, <2>2
<1>3. \A i, j \in 1 .. n : Before(q, sign, i, j) \/ Before(q, sign, j, i)
  BY <1>1, <1>2 DEF Before
<1>4. \A i, j \in 1 .. n : Before(q, sign, i, j) /\ Before(q, sign, j, i) => i = j
  BY <1>1, <1>2 DEF Before
<1>5. \A i, j, k \in 1 .. n :
         Before(q, sign, i, j) /\ Before(q, sign, j, k) => Before(q, sign, i, k)
  BY <1>1, <1>2 DEF Before
<1> HIDE DEF n
<1>6. IsFiniteSet(1 .. n) /\ Cardinality(1 .. n) = n
  <2>1. 1 > n => n = 0 BY <1>1
  <2> QED BY <1>1, <2>1, FS_Interval
<1>7. ASSUME NEW j \in 1 .. n PROVE IsFiniteSet(B(j)) /\ Cardinality(B(j)) \in 1 .. n
  <2>1. B(j) \in SUBSET (1 .. n) /\ j \in B(j) BY <1>3
  <2> HIDE DEF B
  <2>2. /\ IsFiniteSet(B(j)) /\ Cardinality(B(j)) <= n /\ Cardinality(B(j)) \in Nat
    BY <1>6, <2>1, FS_Subset, FS_CardinalityType
  <2>3. Cardinality(B(j)) # 0 BY <2>1, <2>2, FS_EmptySet
  <2> QED BY <1>1, <2>2, <2>3
<1>8. ASSUME NEW i \in 1 .. n, NEW j \in 1 .. n, i # j, Before(q, sign, i, j)
      PROVE  Cardinality(B(i)) # Cardinality(B(j))
  <2>1. B(i) \subseteq B(j) BY <1>5, <1>8
  <2>2. j \in B(j) /\ j \notin B(i) BY <1>3, <1>4, <1>8
  <2>3. B(i) \in SUBSET B(j) /\ B(i) # B(j) BY <2>1, <2>2
  <2> HIDE DEF B
  <2> QED BY <1>7, <2>3, FS_Subset
<1>9. f \in [1 .. n -> 1 .. n]
  <2> HIDE DEF B
  <2> QED BY <1>7
<1>10. \A i, j \in 1 .. n : f[i] = f[j] => i = j
  <2> HIDE DEF B
  <2> QED BY <1>3, <1>8
<1> HIDE DEF f
<1>11. f \in Injection(1 .. n, 1 .. n) BY <1>9, <1>10 DEF Injection, IsInjective
<1>12. f \in Surjection(1 .. n, 1 .. n) BY <1>6, <1>11, FS_Injection
<1>13. \A k \in 1 .. n : \E i \in 1 .. n : f[i] = k BY <1>12 DEF Surjection
<1> QED BY <1>1, <1>13 DEF f, SortRank, n

LEMMA SortedIsQueue ==
  ASSUME zone \in [Zone -> Entry], NEW Z \in SUBSET Zone, NEW q \in Seq(Z), IsInjective(q),
         NEW sign \in {1, -1}
  PROVE  /\ Sorted(q, sign) \in Seq(Z) /\ Len(Sorted(q, sign)) = Len(q)
         /\ IsInjective(Sorted(q, sign))
<1> DEFINE s == Sorted(q, sign)
           n == Len(q)
           at(k) == CHOOSE i \in DOMAIN q : SortRank(q, sign, i) = k
<1>1. n \in Nat /\ DOMAIN q = 1 .. n /\ q \in [1 .. n -> Z] /\ q \in Seq(Zone) OBVIOUS
<1>2. s = [k \in DOMAIN q |-> q[at(k)]] BY DEF Sorted, SortRank, Before
<1>3. \A k \in 1 .. n : at(k) \in 1 .. n /\ SortRank(q, sign, at(k)) = k
  <2>1. \A k \in DOMAIN q : \E i \in DOMAIN q : SortRank(q, sign, i) = k
    BY <1>1, SortRanks
  <2>2. \A k \in DOMAIN q : at(k) \in DOMAIN q /\ SortRank(q, sign, at(k)) = k
    BY <2>1
  <2> QED BY <1>1, <2>2
<1> HIDE DEF s, n, at
<1>4. s \in [1 .. n -> Z] /\ \A k \in 1 .. n : s[k] = q[at(k)] BY <1>1, <1>2, <1>3
<1>5. s \in Seq(Z) /\ Len(s) = n /\ DOMAIN s = 1 .. n BY <1>1, <1>4
<1>6. ASSUME NEW x \in 1 .. n, NEW y \in 1 .. n, s[x] = s[y] PROVE x = y
  <2>1. at(x) = at(y) BY <1>1, <1>3, <1>4, <1>6 DEF IsInjective
  <2> QED BY <1>3, <2>1
<1> QED BY <1>5, <1>6 DEF s, n, IsInjective

LEMMA LeastInQueue ==
  ASSUME zone \in [Zone -> Entry], NEW q \in Seq(Zone), q # <<>>
  PROVE  Least(q) \in DOMAIN q
<1> DEFINE n == Len(q)
           K == {zone[q[i]].nsw : i \in 1 .. n}
           T == {i \in DOMAIN q : \A j \in DOMAIN q : zone[q[i]].nsw <= zone[q[j]].nsw}
<1>1. n \in Nat \ {0} /\ DOMAIN q = 1 .. n /\ q \in [1 .. n -> Zone]
  <2>1. n \in Nat /\ DOMAIN q = 1 .. n /\ q \in [1 .. n -> Zone] OBVIOUS
  <2>2. n # 0 BY <2>1
  <2> QED BY <2>1, <2>2
<1> HIDE DEF n
<1>2. \A i \in 1 .. n : zone[q[i]].nsw \in Nat BY <1>1 DEF Entry
<1>3. K \in SUBSET Nat /\ K # {}
  <2>1. 1 \in 1 .. n BY <1>1
  <2> QED BY <1>2, <2>1
<1>4. PICK x \in K : \A y \in K : x <= y
  <2> HIDE DEF K
  <2> QED BY <1>3, LeastNatural
<1>5. T # {}
  <2>1. PICK i \in 1 .. n : x = zone[q[i]].nsw BY <1>4
  <2>2. \A j \in 1 .. n : x <= zone[q[j]].nsw BY <1>4
  <2> QED BY <1>1, <2>1, <2>2
<1>6. T \in SUBSET (0 .. n) BY <1>1
<1> HIDE DEF T
<1>7. Max(T) \in T BY <1>1, <1>5, <1>6, MaxBelow
<1> QED BY <1>7 DEF T, Least

LEMMA GreatestInQueue ==
  ASSUME zone \in [Zone -> Entry], NEW q \in Seq(Zone), q # <<>>,
         \A i \in DOMAIN q : zone[q[i]].nsw <= ZoneTracks
  PROVE  Greatest(q) \in DOMAIN q
<1> DEFINE n == Len(q)
           K == {zone[q[i]].nsw : i \in 1 .. n}
           T == {i \in DOMAIN q : \A j \in DOMAIN q : zone[q[i]].nsw >= zone[q[j]].nsw}
<1>1. n \in Nat \ {0} /\ DOMAIN q = 1 .. n /\ q \in [1 .. n -> Zone]
  <2>1. n \in Nat /\ DOMAIN q = 1 .. n /\ q \in [1 .. n -> Zone] OBVIOUS
  <2>2. n # 0 BY <2>1
  <2> QED BY <2>1, <2>2
<1> HIDE DEF n
<1>2. \A i \in 1 .. n : zone[q[i]].nsw \in 0 .. ZoneTracks BY <1>1, Sizes DEF Entry
<1>3. K \in SUBSET (0 .. ZoneTracks) /\ K # {}
  <2>1. 1 \in 1 .. n BY <1>1
  <2> QED BY <1>2, <2>1
<1>4. PICK x \in K : \A y \in K : y <= x
  <2> HIDE DEF K
  <2> QED BY <1>3, Sizes, GreatestBelow
<1>5. T # {}
  <2>1. PICK i \in 1 .. n : x = zone[q[i]].nsw BY <1>4
  <2>2. \A j \in 1 .. n : zone[q[j]].nsw <= x BY <1>4
  <2>3. \A j \in 1 .. n : zone[q[i]].nsw >= zone[q[j]].nsw BY <1>2, <2>1, <2>2, Sizes
  <2> QED BY <1>1, <2>3
<1>6. T \in SUBSET (0 .. n) BY <1>1
<1> HIDE DEF T
<1>7. Max(T) \in T BY <1>1, <1>5, <1>6, MaxBelow
<1> QED BY <1>7 DEF T, Greatest

\* A set of places has a first one.
LEMMA FirstOfIsOne ==
  ASSUME NEW S \in SUBSET (Nat \X Nat), S # {}
  PROVE  FirstOf(S) \in S
<1> DEFINE Z == {c[1] : c \in S}
<1>1. \A c \in S : c[1] \in Nat /\ c[2] \in Nat OBVIOUS
<1>2. Z \in SUBSET Nat /\ Z # {} BY <1>1
<1>3. PICK z \in Z : \A y \in Z : z <= y
  <2> HIDE DEF Z
  <2> QED BY <1>2, LeastNatural
<1> DEFINE K == {k \in Nat : \E c \in S : c[1] = z /\ c[2] = k}
<1>4. K \in SUBSET Nat /\ K # {} BY <1>1, <1>3
<1>5. PICK k \in K : \A m \in K : k <= m
  <2> HIDE DEF K
  <2> QED BY <1>4, LeastNatural
<1>6. PICK c \in S : c[1] = z /\ c[2] = k BY <1>5
<1>7. ASSUME NEW d \in S PROVE c[1] < d[1] \/ (c[1] = d[1] /\ c[2] <= d[2])
  <2>1. z <= d[1] /\ z \in Nat /\ d[1] \in Nat BY <1>1, <1>2, <1>3
  <2>2. d[1] = z => k <= d[2] BY <1>1, <1>5
  <2> QED BY <1>6, <2>1, <2>2
<1> QED BY <1>6, <1>7 DEF FirstOf

\* A run of a rewrite ends behind its first slot and in its zone.
LEMMA RunEndType ==
  ASSUME zone \in [Zone -> Entry], NEW z \in Zone, scan \in Track
  PROVE  /\ Extent(z) \in 1 .. ZoneTracks /\ RunEnd(z) \in Nat
         /\ RunEnd(z) # Extent(z) => RunEnd(z) \in Track
<1>1. zone[z].whp \in 0 .. ZoneTracks BY DEF Entry
<1>2. Extent(z) = IF 1 >= zone[z].whp THEN 1 ELSE zone[z].whp
  BY <1>1, Sizes, MaxOfTwo DEF Extent
<1>3. Extent(z) \in 1 .. ZoneTracks BY <1>1, <1>2, Sizes
<1> DEFINE E == Extent(z)
           S == {E} \cup {k \in scan + 1 .. E - 1 : zone[z].blocks[k].fid # zone[z].blocks[scan].fid}
<1> HIDE DEF E
<1>4. E \in 1 .. ZoneTracks BY <1>3 DEF E
<1>5. scan \in 0 .. ZoneTracks - 1 BY DEF Track
<1>6. S \in SUBSET Nat /\ S # {} BY <1>4, <1>5, Sizes
<1>7. \A k \in S : k # E => k \in 0 .. ZoneTracks - 1 BY <1>4, <1>5, Sizes
<1> HIDE DEF S
<1>8. Min(S) \in S BY <1>6, MinNatural
<1>9. RunEnd(z) = Min(S) BY DEF RunEnd, S, E
<1> QED BY <1>3, <1>6, <1>7, <1>8, <1>9 DEF E, Track

-----------------------------------------------------------------------------
(* The entries after an operation.                                         *)

LEMMA AppendedType ==
  ASSUME zone \in [Zone -> Entry], NEW z \in Zone, zone[z].whp # ZoneTracks,
         NEW fid \in Owner, NEW b \in Nat
  PROVE  /\ Appended(z, fid, b) \in Entry
         /\ Appended(z, fid, b).isCache = zone[z].isCache
         /\ Appended(z, fid, b).whp = zone[z].whp + 1
         /\ Appended(z, fid, b).blocks =
               [zone[z].blocks EXCEPT ![zone[z].whp] = [fid |-> fid, lba |-> b]]
<1> DEFINE e == zone[z]
           new == [e.blocks EXCEPT ![e.whp] = [fid |-> fid, lba |-> b]]
<1>1. e \in Entry /\ e.whp + 1 \in 0 .. ZoneTracks /\ e.whp \in Track
  <2>1. e \in Entry /\ e.whp \in 0 .. ZoneTracks /\ e.whp # ZoneTracks BY DEF Entry
  <2> QED BY <2>1, Sizes DEF Track
<1>2. new \in [Track -> Block] BY <1>1 DEF Entry, Block
<1>3. Appended(z, fid, b) = [e EXCEPT !.blocks = new, !.whp = e.whp + 1,
                                      !.isFull = e.whp + 1 >= CMRTracks]
  BY <1>1 DEF Appended, Entry
<1> HIDE DEF e, new
<1>4. (e.whp + 1 >= CMRTracks) \in BOOLEAN OBVIOUS
<1>5. Appended(z, fid, b) \in Entry BY <1>1, <1>2, <1>3, <1>4 DEF Entry
<1> QED BY <1>1, <1>3, <1>5 DEF Entry, e, new

LEMMA FilledType ==
  ASSUME JobOK, NEW e \in Entry, NEW at \in Nat, NEW placed \in SUBSET Nat,
         IsFiniteSet(placed), at + Cardinality(placed) <= ZoneTracks
  PROVE  LET f == Filled(e, at, placed)
         IN  /\ f \in Entry
             /\ f.whp = at + Cardinality(placed)
             /\ \A s \in Track : s < at => f.blocks[s] = e.blocks[s]
             /\ \A i \in 0 .. Cardinality(placed) - 1 :
                   at + i \in Track
                   /\ f.blocks[at + i] = [fid |-> job.fid, lba |-> Nth(placed, i)]
             /\ /\ f.type = e.type /\ f.nsw = e.nsw /\ f.lba = e.lba
                /\ f.isFull = e.isFull /\ f.isCache = e.isCache /\ f.sealed = e.sealed
<1> DEFINE c == Cardinality(placed)
           new == [s \in Track |-> IF s - at \in 0 .. c - 1
                                   THEN [fid |-> job.fid, lba |-> Nth(placed, s - at)]
                                   ELSE e.blocks[s]]
           f == Filled(e, at, placed)
<1>1. c \in Nat BY FS_CardinalityType
<1>2. \A s \in Track : s \in Nat /\ s < ZoneTracks BY Sizes DEF Track
<1>3. \A i \in 0 .. c - 1 : Nth(placed, i) \in Nat BY NthSmallest
<1>4. f = [e EXCEPT !.blocks = new, !.whp = at + c] BY DEF Filled, Entry
<1>5. new \in [Track -> Block]
  <2>1. job.fid \in Owner BY DEF JobOK
  <2>2. e.blocks \in [Track -> Block] BY DEF Entry
  <2> HIDE DEF c
  <2>3. \A s \in Track : s - at \in 0 .. c - 1 => Nth(placed, s - at) \in Nat BY <1>3
  <2> QED BY <2>1, <2>2, <2>3 DEF Block
<1>6. \A s \in Track : s < at => new[s] = e.blocks[s] BY <1>1, <1>2
<1>7. ASSUME NEW i \in 0 .. c - 1
      PROVE  at + i \in Track /\ new[at + i] = [fid |-> job.fid, lba |-> Nth(placed, i)]
  <2>1. at + i \in Track /\ at + i - at = i BY <1>1, Sizes DEF Track
  <2> HIDE DEF c
  <2> QED BY <2>1
<1> HIDE DEF new, f, c
<1>8. at + c \in 0 .. ZoneTracks BY <1>1, Sizes DEF c
<1>9. f \in Entry BY <1>4, <1>5, <1>8 DEF Entry
<1>10. f.blocks = new /\ f.whp = at + c BY <1>4 DEF Entry
<1>11. /\ f.type = e.type /\ f.nsw = e.nsw /\ f.lba = e.lba
       /\ f.isFull = e.isFull /\ f.isCache = e.isCache /\ f.sealed = e.sealed
  BY <1>4 DEF Entry
<1> QED BY <1>6, <1>7, <1>9, <1>10, <1>11 DEF f, c

\* The zones of a round.
LEMMA GroupInQueue ==
  ASSUME QueueOK, used \in 0 .. BandCount, 3 <= Len(queue.cmr)
  PROVE  /\ DOMAIN Group = 1 .. 3
         /\ \A i \in 1 .. 3 : Group[i] \in InUse /\ Group[i] \in Zone
         /\ \A i, j \in 1 .. 3 : Group[i] = Group[j] => i = j
         /\ Group \in Seq(Zone) /\ Group # <<>>
         /\ Grouped \in SUBSET InUse /\ IsFiniteSet(Grouped)
<1> DEFINE q == queue.cmr
           n == Len(q)
<1>1. n \in Nat /\ DOMAIN q = 1 .. n /\ q \in [1 .. n -> InUse] /\ 3 <= n BY DEF QueueOK
<1>2. \A i, j \in 1 .. n : q[i] = q[j] => i = j BY <1>1 DEF QueueOK, IsInjective
<1>3. Group = [i \in 1 .. 3 |-> q[n + 1 - i]] BY DEF Group
<1> HIDE DEF q, n
<1>4. \A i \in 1 .. 3 : n + 1 - i \in 1 .. n /\ Group[i] = q[n + 1 - i] BY <1>1, <1>3
<1>5. \A i \in 1 .. 3 : Group[i] \in InUse /\ Group[i] \in Zone
  BY <1>1, <1>4, InUseFinite
<1>6. ASSUME NEW i \in 1 .. 3, NEW j \in 1 .. 3, Group[i] = Group[j] PROVE i = j
  <2>1. n + 1 - i = n + 1 - j BY <1>2, <1>4, <1>6
  <2> QED BY <1>1, <2>1
<1>7. Group \in [1 .. 3 -> Zone] BY <1>3, <1>5
<1>8. Group \in Seq(Zone) /\ Group # <<>>
  <2>1. 3 \in Nat /\ DOMAIN Group = 1 .. 3 /\ 1 \in 1 .. 3 BY <1>7
  <2>2. Group # <<>> BY <2>1
  <2> QED BY <1>7, <2>1, <2>2, FunctionIsSequence
<1>9. Grouped \in SUBSET InUse BY <1>5 DEF Grouped
<1>10. IsFiniteSet(Grouped) BY <1>9, InUseFinite, FS_Subset
<1> QED BY <1>3, <1>5, <1>6, <1>8, <1>9, <1>10

LEMMA ContentType ==
  ASSUME zone \in [Zone -> Entry], NEW z \in Zone
  PROVE  /\ Content(z) \in Seq(Block) /\ Len(Content(z)) = zone[z].whp
         /\ zone[z].whp \in 0 .. ZoneTracks
         /\ \A k \in 1 .. zone[z].whp : Content(z)[k] = zone[z].blocks[k - 1]
<1> DEFINE w == zone[z].whp
           c == Content(z)
<1>1. w \in 0 .. ZoneTracks /\ zone[z].blocks \in [Track -> Block] BY DEF Entry
<1>2. c = [k \in 1 .. w |-> zone[z].blocks[k - 1]] BY DEF Content
<1> HIDE DEF w, c
<1>3. \A k \in 1 .. w : k - 1 \in Track BY <1>1, Sizes DEF Track
<1>4. c \in [1 .. w -> Block] BY <1>1, <1>2, <1>3
<1>5. c \in Seq(Block) /\ Len(c) = w BY <1>1, <1>4, Sizes, FunctionIsSequence
<1> QED BY <1>1, <1>2, <1>5 DEF w, c

\* Where the blocks of the i-th zone of a round begin among the moved ones.
TakenBefore(i) ==
    IF i = 1 THEN 0
    ELSE IF i = 2 THEN zone[Group[1]].whp ELSE zone[Group[1]].whp + zone[Group[2]].whp

LEMMA MovedBlocks ==
  ASSUME zone \in [Zone -> Entry], \A i \in 1 .. 3 : Group[i] \in Zone
  PROVE  /\ Moved \in Seq(Block)
         /\ Len(Moved) = zone[Group[1]].whp + zone[Group[2]].whp + zone[Group[3]].whp
         /\ Len(Moved) \in 0 .. 3 * ZoneTracks
         /\ \A i \in 1 .. 3 : \A k \in 0 .. zone[Group[i]].whp - 1 :
               /\ TakenBefore(i) + k + 1 \in 1 .. Len(Moved)
               /\ Moved[TakenBefore(i) + k + 1] = zone[Group[i]].blocks[k]
<1> DEFINE a == Content(Group[1])
           b == Content(Group[2])
           c == Content(Group[3])
           u == zone[Group[1]].whp
           v == zone[Group[2]].whp
           w == zone[Group[3]].whp
<1>1. 1 \in 1 .. 3 /\ 2 \in 1 .. 3 /\ 3 \in 1 .. 3 OBVIOUS
<1>2. /\ a \in Seq(Block) /\ Len(a) = u /\ u \in 0 .. ZoneTracks
      /\ \A k \in 1 .. u : a[k] = zone[Group[1]].blocks[k - 1]
  BY <1>1, ContentType
<1>3. /\ b \in Seq(Block) /\ Len(b) = v /\ v \in 0 .. ZoneTracks
      /\ \A k \in 1 .. v : b[k] = zone[Group[2]].blocks[k - 1]
  BY <1>1, ContentType
<1>4. /\ c \in Seq(Block) /\ Len(c) = w /\ w \in 0 .. ZoneTracks
      /\ \A k \in 1 .. w : c[k] = zone[Group[3]].blocks[k - 1]
  BY <1>1, ContentType
<1>5. Moved = (a \o b) \o c BY DEF Moved
<1>6. /\ TakenBefore(1) = 0 /\ TakenBefore(2) = u /\ TakenBefore(3) = u + v
  BY DEF TakenBefore
<1> HIDE DEF a, b, c, u, v, w
<1> DEFINE d == a \o b
<1>7. /\ d \in Seq(Block) /\ Len(d) = u + v
      /\ \A k \in 1 .. u + v : d[k] = IF k <= u THEN a[k] ELSE b[k - u]
  BY <1>2, <1>3, ConcatProperties
<1> HIDE DEF d
<1>8. /\ Moved \in Seq(Block) /\ Len(Moved) = u + v + w
      /\ \A k \in 1 .. u + v + w : Moved[k] = IF k <= u + v THEN d[k] ELSE c[k - (u + v)]
  <2>1. /\ d \o c \in Seq(Block) /\ Len(d \o c) = Len(d) + Len(c)
        /\ \A k \in 1 .. Len(d) + Len(c) :
              (d \o c)[k] = IF k <= Len(d) THEN d[k] ELSE c[k - Len(d)]
    BY <1>4, <1>7, ConcatProperties
  <2>2. Moved = d \o c BY <1>5 DEF d
  <2> QED BY <1>4, <1>7, <2>1, <2>2
<1>9. u \in Nat /\ v \in Nat /\ w \in Nat BY <1>2, <1>3, <1>4, Sizes
<1>10. Len(Moved) \in 0 .. 3 * ZoneTracks BY <1>2, <1>3, <1>4, <1>8, Sizes
<1>11. ASSUME NEW i \in 1 .. 3, NEW k \in 0 .. zone[Group[i]].whp - 1
       PROVE  /\ TakenBefore(i) + k + 1 \in 1 .. Len(Moved)
              /\ Moved[TakenBefore(i) + k + 1] = zone[Group[i]].blocks[k]
  <2>1. CASE i = 1
    <3>1. k \in 0 .. u - 1 BY <2>1 DEF u
    <3>2. /\ k + 1 \in 1 .. u /\ k + 1 \in 1 .. u + v /\ k + 1 \in 1 .. u + v + w
          /\ k + 1 - 1 = k /\ k + 1 <= u + v /\ k + 1 <= u /\ 0 + k + 1 = k + 1
      BY <1>9, <3>1
    <3>3. Moved[k + 1] = a[k + 1] BY <1>7, <1>8, <3>2
    <3>4. a[k + 1] = zone[Group[1]].blocks[k] BY <1>2, <3>2
    <3> QED BY <1>6, <1>8, <2>1, <3>2, <3>3, <3>4
  <2>2. CASE i = 2
    <3>1. k \in 0 .. v - 1 BY <2>2 DEF v
    <3>2. /\ k + 1 \in 1 .. v /\ u + k + 1 \in 1 .. u + v /\ u + k + 1 \in 1 .. u + v + w
          /\ k + 1 - 1 = k /\ u + k + 1 <= u + v /\ ~ u + k + 1 <= u
          /\ u + k + 1 - u = k + 1
      BY <1>9, <3>1
    <3>3. Moved[u + k + 1] = b[k + 1]
      <4> DEFINE j == u + k + 1
      <4>1. j \in 1 .. u + v /\ j \in 1 .. u + v + w /\ j <= u + v /\ ~ j <= u /\ j - u = k + 1
        BY <1>9, <3>1, <3>2
      <4> HIDE DEF j
      <4>2. Moved[j] = d[j] BY <1>8, <4>1
      <4>3. d[j] = b[j - u] BY <1>7, <4>1
      <4> QED BY <4>1, <4>2, <4>3 DEF j
    <3>4. b[k + 1] = zone[Group[2]].blocks[k] BY <1>3, <3>2
    <3> QED BY <1>6, <1>8, <2>2, <3>2, <3>3, <3>4
  <2>3. CASE i = 3
    <3>1. k \in 0 .. w - 1 BY <2>3 DEF w
    <3>2. /\ k + 1 \in 1 .. w /\ u + v + k + 1 \in 1 .. u + v + w
          /\ k + 1 - 1 = k /\ ~ u + v + k + 1 <= u + v
          /\ u + v + k + 1 - (u + v) = k + 1
      BY <1>9, <3>1
    <3>3. Moved[u + v + k + 1] = c[k + 1]
      <4> DEFINE j == u + v + k + 1
      <4>1. j \in 1 .. u + v + w /\ ~ j <= u + v /\ j - (u + v) = k + 1
        BY <1>9, <3>1, <3>2
      <4> HIDE DEF j
      <4>2. Moved[j] = c[j - (u + v)] BY <1>8, <4>1
      <4> QED BY <4>1, <4>2 DEF j
    <3>4. c[k + 1] = zone[Group[3]].blocks[k] BY <1>4, <3>2
    <3> QED BY <1>6, <1>8, <2>3, <3>2, <3>3, <3>4
  <2> QED BY <2>1, <2>2, <2>3
<1> QED BY <1>8, <1>10, <1>11 DEF u, v, w

LEMMA NewHeads ==
  ASSUME Len(Moved) \in 0 .. 3 * ZoneTracks, NEW i \in 1 .. 3
  PROVE  /\ NewHead(i) \in 0 .. ZoneTracks
         /\ PouredBefore(i) = IF i = 1 THEN 0 ELSE IF i = 2 THEN ZoneTracks ELSE 2 * ZoneTracks
         /\ \A k \in 0 .. ZoneTracks - 1 :
               k < NewHead(i) <=> PouredBefore(i) + k + 1 \in 1 .. Len(Moved)
<1> DEFINE p == PouredBefore(i)
           m == Len(Moved)
           x == m - p
           y == Max({0, x})
<1>1. p = IF i = 1 THEN 0 ELSE IF i = 2 THEN ZoneTracks ELSE 2 * ZoneTracks
  BY Sizes DEF PouredBefore
<1>2. NewHead(i) = Min({ZoneTracks, y}) BY DEF NewHead
<1>3. p \in Nat /\ m \in Nat BY <1>1, Sizes
<1> HIDE DEF p, m
<1>4. x \in Int BY <1>3
<1> HIDE DEF x
<1>5. y = IF 0 >= x THEN 0 ELSE x BY <1>4, MaxOfTwo
<1> HIDE DEF y
<1>6. y \in Nat BY <1>4, <1>5
<1>7. NewHead(i) = IF ZoneTracks <= y THEN ZoneTracks ELSE y BY <1>2, <1>6, Sizes, MinOfTwo
<1>8. NewHead(i) \in 0 .. ZoneTracks BY <1>6, <1>7, Sizes
<1>9. ASSUME NEW k \in 0 .. ZoneTracks - 1
      PROVE  k < NewHead(i) <=> p + k + 1 \in 1 .. m
  <2>1. k < NewHead(i) <=> k < y BY <1>6, <1>7, Sizes
  <2>2. k < y <=> k < x BY <1>4, <1>5, Sizes
  <2>3. k < x <=> p + k + 1 <= m BY <1>3, Sizes DEF x
  <2> QED BY <1>3, <2>1, <2>2, <2>3, Sizes
<1> QED BY <1>1, <1>8, <1>9 DEF p, m

LEMMA ConvertedType ==
  ASSUME zone \in [Zone -> Entry], \A i \in 1 .. 3 : Group[i] \in Zone, NEW i \in 1 .. 3
  PROVE  /\ Converted[i] \in Entry
         /\ Converted[i].type = 1 /\ Converted[i].nsw = 0 /\ Converted[i].isFull = FALSE
         /\ Converted[i].isCache = zone[Group[i]].isCache
         /\ Converted[i].whp = NewHead(i)
         /\ \A k \in Track : k < NewHead(i) =>
               /\ PouredBefore(i) + k + 1 \in 1 .. Len(Moved)
               /\ Converted[i].blocks[k] = Moved[PouredBefore(i) + k + 1]
<1> DEFINE e == zone[Group[i]]
           new == [k \in Track |-> IF k < NewHead(i)
                                   THEN Moved[PouredBefore(i) + k + 1] ELSE e.blocks[k]]
<1>1. e \in Entry OBVIOUS
<1>2. Moved \in Seq(Block) /\ Len(Moved) \in 0 .. 3 * ZoneTracks BY MovedBlocks
<1>3. /\ NewHead(i) \in 0 .. ZoneTracks
      /\ \A k \in Track : k < NewHead(i) => PouredBefore(i) + k + 1 \in 1 .. Len(Moved)
  BY <1>2, NewHeads DEF Track
<1>4. new \in [Track -> Block]
  <2>1. \A j \in 1 .. Len(Moved) : Moved[j] \in Block BY <1>2
  <2>2. e.blocks \in [Track -> Block] BY <1>1 DEF Entry
  <2> HIDE DEF e
  <2> QED BY <1>3, <2>1, <2>2
<1>5. Converted[i] = [e EXCEPT !.type = 1, !.isFull = FALSE, !.nsw = 0, !.sealed = FALSE,
                               !.whp = NewHead(i), !.blocks = new]
  BY <1>1 DEF Converted, Entry
<1>6. \A k \in Track : k < NewHead(i) => new[k] = Moved[PouredBefore(i) + k + 1] OBVIOUS
<1> HIDE DEF e, new
<1>7. Converted[i] \in Entry
  <2>1. NewHead(i) \in 0 .. ZoneTracks /\ 1 \in 0 .. 2 /\ 0 \in Nat BY <1>3
  <2>2. Converted[i] = [type |-> 1, nsw |-> 0, whp |-> NewHead(i), lba |-> e.lba,
                        isFull |-> FALSE, isCache |-> e.isCache, sealed |-> FALSE,
                        blocks |-> new]
    BY <1>1, <1>5 DEF Entry
  <2>3. e.lba \in Nat /\ e.isCache \in BOOLEAN BY <1>1 DEF Entry
  <2> QED BY <1>4, <2>1, <2>2, <2>3 DEF Entry
<1>8. /\ Converted[i].type = 1 /\ Converted[i].nsw = 0 /\ Converted[i].isFull = FALSE
      /\ Converted[i].isCache = e.isCache /\ Converted[i].whp = NewHead(i)
      /\ Converted[i].blocks = new
  BY <1>1, <1>5 DEF Entry
<1> QED BY <1>3, <1>6, <1>7, <1>8 DEF e

LEMMA CacheZoneType ==
  ASSUME zone \in [Zone -> Entry], used \in Zone, cmrBoundary \in Nat
  PROVE  /\ CacheZone \in Entry /\ CacheZone.isCache
         /\ CacheZone.nsw = zone[used].nsw /\ CacheZone.whp = zone[used].whp
         /\ CacheZone.isFull = zone[used].isFull
<1>1. cmrBoundary * ZoneTracks \in Nat BY Sizes
<1> DEFINE l == cmrBoundary * ZoneTracks
<1> HIDE DEF l
<1>2. CacheZone = [zone[used] EXCEPT !.type = 0, !.isCache = TRUE, !.sealed = TRUE, !.lba = l]
  BY DEF CacheZone, l
<1>3. l \in Nat BY <1>1 DEF l
<1> DEFINE e == zone[used]
<1>4. e \in Entry OBVIOUS
<1>5. CacheZone = [e EXCEPT !.type = 0, !.isCache = TRUE, !.sealed = TRUE, !.lba = l]
  BY <1>2
<1> HIDE DEF e
<1>6. CacheZone = [type |-> 0, nsw |-> e.nsw, whp |-> e.whp, lba |-> l, isFull |-> e.isFull,
                   isCache |-> TRUE, sealed |-> TRUE, blocks |-> e.blocks]
  BY <1>4, <1>5 DEF Entry
<1>7. CacheZone \in Entry
  <2>1. 0 \in 0 .. 2 OBVIOUS
  <2>2. /\ e.nsw \in Nat /\ e.whp \in 0 .. ZoneTracks /\ e.isFull \in BOOLEAN
        /\ e.blocks \in [Track -> Block]
    BY <1>4 DEF Entry
  <2> QED BY <1>3, <1>6, <2>1, <2>2 DEF Entry
<1> QED BY <1>6, <1>7 DEF e

-----------------------------------------------------------------------------
(* Every operation keeps the types.                                        *)

LEMMA TypeFacts ==
  ASSUME TypeInv
  PROVE  /\ zone \in [Zone -> Entry] /\ used \in 0 .. BandCount
         /\ InUse \subseteq Zone /\ Zone \subseteq Nat /\ IsFiniteSet(InUse)
         /\ \A S : IsFiniteSet(Queued(S)) /\ Queued(S) \subseteq InUse
<1>1. zone \in [Zone -> Entry] /\ used \in 0 .. BandCount
  BY DEF TypeInv, FluidTypeOK, Entry, Block
<1>2. \A S : Queued(S) \subseteq InUse BY DEF Queued
<1> QED BY <1>1, <1>2, InUseFinite, FS_Subset

LEMMA JobOfLine ==
  ASSUME NEW r \in Lines, NEW skip \in SUBSET Nat, job' = Job(r, skip)
  PROVE  JobOK' /\ job'.rest \in 0 .. Word - 1 /\ job'.next = job'.lba
<1>1. /\ r \in [mode : Modes, fid : Fid, lba : Nat, n : Nat, hint : {0, 1}]
      /\ r.lba + r.n < Word
  BY FluidLinesAssumption DEF Modes
<1>2. r.n \in 0 .. Word - 1 /\ r.lba \in r.lba .. r.lba + r.n BY <1>1, Sizes
<1> QED BY <1>1, <1>2 DEF Job, JobOK, Owner

LEMMA NoJobOK ==
  ASSUME job' = NoJob
  PROVE  JobOK' /\ job'.rest \in 0 .. Word - 1 /\ job'.next = job'.lba
BY Sizes DEF NoJob, JobOK, Modes, Owner

LEMMA CountLineKeepsTypes ==
  ASSUME TypeInv, NEW r \in Lines, CountLine(r)
  PROVE  TypeInv'
<1>1. JobOK' /\ job'.rest \in 0 .. Word - 1 /\ job'.next = job'.lba
  BY JobOfLine DEF CountLine
<1>2. scan' = 0 /\ pc' = "count" BY DEF CountLine
<1>3. 0 \in 0 .. BandCount BY Sizes
<1>4. FluidTypeOK' BY <1>1, <1>2, <1>3 DEF CountLine, TypeInv, FluidTypeOK, InUse
<1>5. /\ SpareEntriesEmpty' /\ BoundariesOK' /\ QueueOK' /\ (used <= cmrCount + smrCount)'
      /\ RoundsOK'
  BY <1>2 DEF CountLine, Line, TypeInv, SpareEntriesEmpty, BoundariesOK, QueueOK, RoundsOK, InUse
<1>6. CleaningOK' BY <1>2 DEF CleaningOK, Cleaning
<1> QED BY <1>1, <1>4, <1>5, <1>6 DEF TypeInv

LEMMA OtherLineKeepsTypes ==
  ASSUME TypeInv, OtherLine
  PROVE  TypeInv'
BY DEF OtherLine, TypeInv, FluidTypeOK, JobOK, SpareEntriesEmpty, BoundariesOK, QueueOK,
       CleaningOK, RoundsOK, InUse, Unconverted

LEMMA EndOfTraceKeepsTypes ==
  ASSUME TypeInv, EndOfTrace
  PROVE  TypeInv'
<1>1. pc = "lines" /\ pc' \in {"done", "failed"} BY DEF EndOfTrace
<1>2. FluidTypeOK' BY <1>1 DEF EndOfTrace, TypeInv, FluidTypeOK, InUse
<1>3. /\ JobOK' /\ SpareEntriesEmpty' /\ BoundariesOK' /\ QueueOK'
      /\ (used <= cmrCount + smrCount)' /\ CleaningOK' /\ RoundsOK'
  BY <1>1 DEF EndOfTrace, TypeInv, JobOK, SpareEntriesEmpty, BoundariesOK, QueueOK,
              CleaningOK, Cleaning, RoundsOK, InUse
<1> QED BY <1>2, <1>3 DEF TypeInv

LEMMA CountZoneKeepsTypes ==
  ASSUME TypeInv, CountZone
  PROVE  TypeInv'
<1> DEFINE z == Min(Hits)
           rest == Minus(job.rest, Cardinality(Found(z)))
<1>1. pc = "count" /\ pc' = "count" BY DEF CountZone
<1>2. /\ zone \in [Zone -> Entry] /\ used \in 0 .. BandCount /\ InUse \subseteq Zone
      /\ scan \in 0 .. BandCount
  BY <1>1, TypeFacts DEF TypeInv, FluidTypeOK
<1>3. z \in scan .. used - 1 /\ z \in InUse
  <2>1. Hits \in SUBSET Nat /\ Hits # {} BY <1>2 DEF CountZone, Hits
  <2>2. z \in Hits BY <2>1, MinNatural
  <2> QED BY <1>2, <2>2 DEF Hits, InUse
<1>4. rest \in 0 .. Word - 1
  <2>1. Cardinality(Found(z)) \in Nat
    <3>1. IsFiniteSet(Track) BY Sizes, FirstNumbers DEF Track
    <3>2. Found(z) \in SUBSET Track BY DEF Found
    <3> QED BY <3>1, <3>2, FS_Subset, FS_CardinalityType
  <2> QED BY <2>1, Sizes, WordRange DEF TypeInv, JobOK
<1> HIDE DEF z, rest
<1>5. /\ job' = [job EXCEPT !.rest = rest]
      /\ zone' \in {zone, [zone EXCEPT ![z].isFull = FALSE]}
      /\ scan' \in {used, z + 1}
  BY DEF CountZone, z, rest
<1>6. JobOK' /\ job'.rest \in 0 .. Word - 1 /\ job'.next = job.next /\ job'.lba = job.lba
  BY <1>4, <1>5 DEF TypeInv, JobOK
<1>7. zone' \in [Zone -> Entry] BY <1>2, <1>5 DEF Entry
<1>8. \A y \in Zone : /\ zone'[y].nsw = zone[y].nsw /\ zone'[y].whp = zone[y].whp
                      /\ zone'[y].isCache = zone[y].isCache
                      /\ ~ zone[y].isFull => ~ zone'[y].isFull
  BY <1>2, <1>3, <1>5 DEF Entry
<1>9. scan' \in 0 .. BandCount
  <2>1. z \in 0 .. BandCount - 1 /\ used \in 0 .. BandCount BY <1>2, <1>3, Sizes
  <2> QED BY <1>5, <2>1, Sizes
<1>10. FluidTypeOK'
  BY <1>1, <1>2, <1>6, <1>7, <1>8, <1>9
     DEF CountZone, TypeInv, FluidTypeOK, InUse, Entry, Block
<1>11. SpareEntriesEmpty'
  BY <1>8 DEF CountZone, TypeInv, SpareEntriesEmpty
<1>12. BoundariesOK' /\ QueueOK' /\ (used <= cmrCount + smrCount)' /\ RoundsOK'
  BY <1>1 DEF CountZone, TypeInv, BoundariesOK, QueueOK, RoundsOK, InUse
<1>13. CleaningOK' BY <1>1 DEF CleaningOK, Cleaning
<1> QED BY <1>6, <1>10, <1>11, <1>12, <1>13 DEF TypeInv

LEMMA EndCountKeepsTypes ==
  ASSUME TypeInv, EndCount \/ EndWrite
  PROVE  TypeInv'
<1>1. /\ pc' = "lines" /\ job' = NoJob /\ scan' = 0
      /\ UNCHANGED <<home, zone, used, cmrBoundary, smrBoundary, cmrBands, remain,
                     cTotal, rTotal, cmrCount, smrCount, queue, rewrite, rounds, left>>
      /\ pc \in {"count", "place"}
  BY DEF EndCount, EndWrite
<1>2. JobOK' /\ job'.rest \in 0 .. Word - 1 BY <1>1, NoJobOK
<1>3. 0 \in 0 .. BandCount BY Sizes
<1>4. FluidTypeOK' BY <1>1, <1>2, <1>3 DEF TypeInv, FluidTypeOK, InUse
<1>5. /\ SpareEntriesEmpty' /\ BoundariesOK' /\ QueueOK' /\ (used <= cmrCount + smrCount)'
      /\ RoundsOK'
  BY <1>1 DEF TypeInv, SpareEntriesEmpty, BoundariesOK, QueueOK, RoundsOK, InUse
<1>6. CleaningOK' BY <1>1 DEF CleaningOK, Cleaning
<1> QED BY <1>2, <1>4, <1>5, <1>6 DEF TypeInv

LEMMA PlacesToUpdate ==
  ASSUME TypeInv, NEW fid, NEW b, Copies(fid, b) # {}
  PROVE  LET at == CopyToUpdate(fid, b)
         IN  /\ at \in Copies(fid, b) /\ at[1] \in InUse /\ at[1] \in Zone /\ at[2] \in Track
             /\ at[2] < zone[at[1]].whp /\ zone[at[1]].blocks[at[2]] = [fid |-> fid, lba |-> b]
<1> DEFINE all == Copies(fid, b)
           S == IF InCache(all) # {} THEN InCache(all) ELSE all
<1>1. InUse \subseteq Zone /\ Zone \subseteq Nat BY TypeFacts
<1>2. Track \subseteq Nat BY Sizes DEF Track
<1>3. S \subseteq all /\ S # {} BY DEF InCache
<1>4. all \in SUBSET (InUse \X Track) BY DEF Copies
<1>5. S \in SUBSET (Nat \X Nat)
  <2> HIDE DEF all, S
  <2> QED BY <1>1, <1>2, <1>3, <1>4
<1>6. CopyToUpdate(fid, b) = FirstOf(S) BY DEF CopyToUpdate
<1> HIDE DEF S
<1>7. CopyToUpdate(fid, b) \in all BY <1>3, <1>5, <1>6, FirstOfIsOne
<1> QED BY <1>1, <1>7 DEF Copies

LEMMA DiskTypes ==
  ASSUME home \in [DiskStore!Lba -> Owner], NEW fid \in Owner
  PROVE  /\ \A l, n : Written(l, n, fid) \in [DiskStore!Lba -> Owner]
         /\ \A S : DiskStore!Passed(S, fid) \in [DiskStore!Lba -> Owner]
         /\ \A l, n : Rewritten(l, n, fid) \in [DiskStore!Lba -> Owner]
<1>1. NoFid \in Owner BY DEF Owner
<1> QED BY <1>1 DEF Written, DiskStore!Passed, Rewritten

LEMMA WriteLineKeepsTypes ==
  ASSUME TypeInv, NEW r \in Lines, WriteLine(r)
  PROVE  TypeInv'
<1>1. /\ r \in [mode : Modes, fid : Fid, lba : Nat, n : Nat, hint : {0, 1}]
      /\ r.fid \in Owner
  BY FluidLinesAssumption DEF Modes, Owner
<1>2. pc = "lines" /\ scan' = 0 /\ 0 \in 0 .. BandCount BY Sizes DEF WriteLine, Line
<1>3. /\ zone \in [Zone -> Entry] /\ InUse \subseteq Zone /\ IsFiniteSet(InUse)
      /\ home \in [DiskStore!Lba -> Owner] /\ cTotal \in 0 .. Word - 1
  BY TypeFacts DEF TypeInv, FluidTypeOK
<1>4. JobOK' /\ job'.rest \in 0 .. Word - 1 /\ job'.next = job'.lba
  <2>1. CASE FreshLine(r)
    <3>1. PICK skip \in SUBSET (Leftovers \cap r.lba .. r.lba + r.n - 1) : job' = Job(r, skip)
      BY <2>1 DEF FreshLine
    <3>2. skip \in SUBSET Nat BY FluidLinesAssumption
    <3> QED BY <3>1, <3>2, JobOfLine
  <2>2. CASE UpdateLine(r)
    <3>1. Known(r) \in SUBSET Nat /\ Known(r) # {} BY <1>1, <2>2 DEF Known, UpdateLine
    <3>2. {Min(Known(r))} \in SUBSET Nat BY <3>1, MinNatural
    <3> QED BY <2>2, <3>2, JobOfLine DEF UpdateLine
  <2> QED BY <2>1, <2>2 DEF WriteLine
<1>5. /\ zone' \in [Zone -> Entry] /\ home' \in [DiskStore!Lba -> Owner]
      /\ cTotal' \in 0 .. Word - 1
      /\ \A z \in Zone : \/ zone'[z] = zone[z]
                         \/ z \in InUse /\ zone[z].isCache /\ zone'[z].isCache
      /\ pc' \in {"queue", "place", "undefined"}
  <2>1. CASE FreshLine(r) BY <1>3, <2>1 DEF FreshLine
  <2>2. CASE UpdateLine(r)
    <3> DEFINE b == Min(Known(r))
               at == CopyToUpdate(r.fid, b)
    <3>1. b \in Nat /\ Copies(r.fid, b) # {}
      <4>1. Known(r) \in SUBSET Nat /\ Known(r) # {} BY <1>1, <2>2 DEF Known, UpdateLine
      <4>2. b \in Known(r) BY <4>1, MinNatural
      <4> QED BY <4>1, <4>2 DEF Known
    <3>2. \/ pc' = "undefined" /\ UNCHANGED <<home, zone, cTotal>>
          \/ /\ InPlace(at) \/ ~ PastEnd
             /\ Update(r.fid, b)
             /\ pc' \in {"queue", "place"}
      BY <2>2 DEF UpdateLine
    <3> HIDE DEF b, at
    <3>3. CASE pc' = "undefined" /\ UNCHANGED <<home, zone, cTotal>> BY <1>3, <3>3
    <3>4. CASE InPlace(at) /\ Update(r.fid, b) /\ pc' \in {"queue", "place"}
      <4>1. UpdateInPlace(at, r.fid) BY <3>4 DEF Update, at
      <4> QED BY <1>1, <1>3, <3>4, <4>1, DiskTypes DEF UpdateInPlace
    <3>5. CASE ~ InPlace(at) /\ ~ PastEnd /\ Update(r.fid, b) /\ pc' \in {"queue", "place"}
      <4>1. UpdateInCaches(r.fid, b) BY <3>5 DEF Update, at
      <4>2. /\ OpenCaches \subseteq InUse
            /\ \A z \in OpenCaches : zone[z].isCache /\ zone[z].whp # ZoneTracks
        BY <3>5 DEF OpenCaches, PastEnd
      <4>3. zone' = [z \in Zone |-> IF z \in OpenCaches THEN Appended(z, r.fid, b) ELSE zone[z]]
        BY <4>1 DEF UpdateInCaches
      <4>4. \A z \in OpenCaches : /\ Appended(z, r.fid, b) \in Entry
                                  /\ Appended(z, r.fid, b).isCache = zone[z].isCache
        BY <1>1, <1>3, <3>1, <4>2, AppendedType
      <4>5. zone' \in [Zone -> Entry] BY <1>3, <4>3, <4>4
      <4>6. home' \in [DiskStore!Lba -> Owner] BY <1>1, <1>3, <4>1, DiskTypes DEF UpdateInCaches
      <4>7. cTotal' \in 0 .. Word - 1
        <5>1. IsFiniteSet(OpenCaches) BY <1>3, <4>2, FS_Subset
        <5>2. Cardinality(OpenCaches) \in Nat BY <5>1, FS_CardinalityType
        <5> QED BY <1>3, <4>1, <5>2, Sizes, WordRange DEF UpdateInCaches
      <4> QED BY <3>5, <4>2, <4>3, <4>4, <4>5, <4>6, <4>7
    <3> QED BY <3>2, <3>3, <3>4, <3>5
  <2> QED BY <2>1, <2>2 DEF WriteLine
<1>6. UNCHANGED <<used, cmrBoundary, smrBoundary, cmrBands, remain,
                  rTotal, cmrCount, smrCount, queue, rewrite, rounds>>
  BY DEF WriteLine
<1>7. InUse' = InUse BY <1>6 DEF InUse
<1>8. FluidTypeOK'
  <2>1. \A z \in InUse : ~ zone'[z].isCache => zone'[z].nsw <= zone'[z].whp
    BY <1>3, <1>5 DEF TypeInv, FluidTypeOK
  <2> QED BY <1>2, <1>4, <1>5, <1>6, <1>7, <2>1 DEF TypeInv, FluidTypeOK, Entry, Block
<1>9. SpareEntriesEmpty'
  <2>1. \A z \in Zone : z >= used => z \notin InUse BY Sizes DEF TypeInv, FluidTypeOK, Zone, InUse
  <2> QED BY <1>5, <1>6, <2>1 DEF TypeInv, SpareEntriesEmpty
<1>10. BoundariesOK' /\ QueueOK' /\ (used <= cmrCount + smrCount)' /\ RoundsOK'
  BY <1>2, <1>5, <1>6, <1>7 DEF TypeInv, BoundariesOK, QueueOK, RoundsOK
<1>11. CleaningOK' BY <1>2, <1>4, <1>5 DEF CleaningOK, Cleaning
<1> QED BY <1>4, <1>6, <1>8, <1>9, <1>10, <1>11 DEF TypeInv

-----------------------------------------------------------------------------
(* A cleaning.                                                             *)

LEMMA BuildQueuesKeepsTypes ==
  ASSUME TypeInv, BuildQueues
  PROVE  TypeInv'
<1> DEFINE C == Queued({0})
           S == Queued({1})
<1>1. /\ zone \in [Zone -> Entry] /\ used \in 0 .. BandCount /\ InUse \subseteq Zone
      /\ Zone \subseteq Nat /\ IsFiniteSet(InUse)
      /\ IsFiniteSet(C) /\ C \subseteq InUse /\ IsFiniteSet(S) /\ S \subseteq InUse
      /\ IsFiniteSet(Queued({0, 1})) /\ Queued({0, 1}) \subseteq InUse
  BY TypeFacts
<1>2. C \cap S = {} /\ C \cup S \subseteq {z \in InUse : ~ zone[z].isCache} BY DEF Queued
<1> HIDE DEF C, S
<1>3. /\ InOrder(C) \in Seq(C) /\ Len(InOrder(C)) = Cardinality(C) /\ IsInjective(InOrder(C))
      /\ InOrder(S) \in Seq(S) /\ Len(InOrder(S)) = Cardinality(S) /\ IsInjective(InOrder(S))
  <2>1. C \in SUBSET Nat /\ S \in SUBSET Nat BY <1>1
  <2> QED BY <1>1, <2>1, InOrderIsQueue
<1>4. queue' = [cmr |-> InOrder(C), smr |-> InOrder(S)] BY DEF BuildQueues, C, S
<1>5. /\ pc = "queue" /\ pc' \in {"place", "swap", "undefined"}
      /\ pc' = "swap" => cmrCount = Len(queue'.cmr) /\ smrCount = Len(queue'.smr)
  BY DEF BuildQueues
<1>6. UNCHANGED <<home, zone, used, cmrBoundary, smrBoundary, cmrBands, remain,
                  cTotal, cmrCount, smrCount, job, scan, rewrite, rounds>>
  BY DEF BuildQueues
<1>7. InUse' = InUse BY <1>6 DEF InUse
<1>8. rTotal' \in 0 .. Word - 1
  <2>1. NswOf(Queued({0, 1})) \in Nat BY <1>1, NswIsNat
  <2>2. rTotal \in Int BY Sizes DEF TypeInv, FluidTypeOK
  <2> QED BY <2>1, <2>2, WordRange DEF BuildQueues
<1>9. pc' = "swap" => \A z \in InUse : ~ zone[z].isCache
  <2> SUFFICES ASSUME pc' = "swap" PROVE \A z \in InUse : ~ zone[z].isCache OBVIOUS
  <2> DEFINE P == {z \in InUse : ~ zone[z].isCache}
  <2>1. cmrCount = Cardinality(C) /\ smrCount = Cardinality(S) BY <1>3, <1>4, <1>5
  <2>2. Cardinality(C \cup S) = Cardinality(C) + Cardinality(S) BY <1>1, <1>2, DisjointCount
  <2>3. used <= Cardinality(C \cup S) BY <2>1, <2>2 DEF TypeInv
  <2>4. P \subseteq InUse /\ C \cup S \subseteq P BY <1>2
  <2> HIDE DEF P
  <2>5. /\ IsFiniteSet(P) /\ Cardinality(C \cup S) <= Cardinality(P)
        /\ Cardinality(P) <= used /\ (Cardinality(P) = used => P = InUse)
    <3>1. Cardinality(InUse) = used BY <1>1, InUseFinite
    <3>2. P \in SUBSET InUse /\ C \cup S \in SUBSET P BY <2>4
    <3>3. IsFiniteSet(P) BY <1>1, <3>2, FS_Subset
    <3> QED BY <1>1, <3>1, <3>2, <3>3, FS_Subset
  <2>6. Cardinality(P) \in Nat /\ Cardinality(C \cup S) \in Nat /\ used \in Nat
    <3>1. IsFiniteSet(C \cup S) BY <2>4, <2>5, FS_Subset
    <3> QED BY <1>1, <2>5, <3>1, FS_CardinalityType
  <2>7. P = InUse BY <2>3, <2>5, <2>6
  <2> QED BY <2>7 DEF P
<1>10. QueueOK'
  <2>1. InOrder(C) \in Seq(InUse) /\ InOrder(S) \in Seq(InUse) BY <1>1, <1>3, SeqMonotonic
  <2> QED BY <1>3, <1>4, <1>7, <2>1 DEF QueueOK
<1>11. FluidTypeOK' BY <1>5, <1>6, <1>7, <1>8 DEF TypeInv, FluidTypeOK
<1>12. /\ JobOK' /\ SpareEntriesEmpty' /\ BoundariesOK' /\ (used <= cmrCount + smrCount)'
       /\ RoundsOK'
  BY <1>5, <1>6 DEF TypeInv, JobOK, SpareEntriesEmpty, BoundariesOK, RoundsOK
<1>13. CleaningOK'
  <2>1. scan = 0 /\ job.next = job.lba BY <1>5 DEF TypeInv, CleaningOK
  <2>2. pc' \in Cleaning => pc' = "swap" BY <1>5 DEF Cleaning
  <2>3. pc' = "swap" => Len(queue'.cmr) <= cmrCount
    BY <1>5 DEF TypeInv, FluidTypeOK
  <2> QED BY <1>5, <1>6, <1>7, <1>9, <2>1, <2>2, <2>3 DEF CleaningOK
<1> QED BY <1>6, <1>10, <1>11, <1>12, <1>13 DEF TypeInv

LEMMA SwapKeepsTypes ==
  ASSUME TypeInv, ZoneSwapping \/ NothingToSwap
  PROVE  TypeInv'
<1>1. /\ zone \in [Zone -> Entry] /\ InUse \subseteq Zone
      /\ queue.cmr \in Seq(InUse) /\ queue.smr \in Seq(InUse)
      /\ queue.cmr \in Seq(Zone) /\ queue.smr \in Seq(Zone)
      /\ IsInjective(queue.cmr) /\ IsInjective(queue.smr)
  <2>1. queue.cmr \in Seq(InUse) /\ queue.smr \in Seq(InUse) BY DEF TypeInv, QueueOK
  <2> QED BY <2>1, TypeFacts, SeqMonotonic DEF TypeInv, QueueOK
<1>2. /\ pc = "swap" /\ pc' \in {"trapped", "sort"}
      /\ UNCHANGED <<home, zone, used, cmrBoundary, smrBoundary, cmrBands, remain,
                     cTotal, rTotal, cmrCount, smrCount, job, scan, rewrite, rounds>>
  BY DEF ZoneSwapping, NothingToSwap
<1>3. InUse' = InUse BY <1>2 DEF InUse
<1>4. /\ queue' = [cmr |-> queue'.cmr, smr |-> queue'.smr]
      /\ queue'.cmr \in Seq(InUse) /\ queue'.smr \in Seq(InUse)
      /\ IsInjective(queue'.cmr) /\ IsInjective(queue'.smr)
      /\ Len(queue'.cmr) <= Len(queue.cmr)
  <2>1. CASE NothingToSwap
    <3>1. queue' = queue BY <2>1 DEF NothingToSwap
    <3>2. Len(queue.cmr) \in Nat BY <1>1
    <3> QED BY <1>1, <3>1, <3>2 DEF TypeInv, QueueOK
  <2>2. CASE ZoneSwapping
    <3> DEFINE c == Least(queue.cmr)
               s == Greatest(queue.smr)
    <3>1. queue.cmr # <<>> /\ queue.smr # <<>> BY <2>2 DEF ZoneSwapping
    <3>2. c \in DOMAIN queue.cmr BY <1>1, <3>1, LeastInQueue
    <3>3. \A i \in DOMAIN queue.smr : zone[queue.smr[i]].nsw <= ZoneTracks
      <4>1. \A z \in InUse : ~ zone[z].isCache BY <1>2 DEF TypeInv, CleaningOK, Cleaning
      <4>2. \A z \in InUse : /\ zone[z].nsw <= zone[z].whp
                             /\ zone[z].nsw \in Nat /\ zone[z].whp \in 0 .. ZoneTracks
        BY <1>1, <4>1 DEF TypeInv, FluidTypeOK, Entry
      <4>3. \A i \in DOMAIN queue.smr : queue.smr[i] \in InUse BY <1>1
      <4> QED BY <4>2, <4>3, Sizes
    <3>4. s \in DOMAIN queue.smr BY <1>1, <3>1, <3>3, GreatestInQueue
    <3>5. queue' = [cmr |-> Popped(queue.cmr, c), smr |-> Popped(queue.smr, s)]
      BY <2>2 DEF ZoneSwapping
    <3> HIDE DEF c, s
    <3>6. /\ Popped(queue.cmr, c) \in Seq(InUse) /\ IsInjective(Popped(queue.cmr, c))
          /\ Len(Popped(queue.cmr, c)) = Len(queue.cmr) - 1
      BY <1>1, <3>2, PoppedIsQueue
    <3>7. /\ Popped(queue.smr, s) \in Seq(InUse) /\ IsInjective(Popped(queue.smr, s))
      BY <1>1, <3>4, PoppedIsQueue
    <3>8. Len(queue.cmr) - 1 <= Len(queue.cmr)
      <4>1. Len(queue.cmr) \in Nat BY <1>1
      <4> QED BY <4>1
    <3> QED BY <3>5, <3>6, <3>7, <3>8
  <2> QED BY <2>1, <2>2
<1>5. QueueOK' BY <1>3, <1>4 DEF QueueOK
<1>6. FluidTypeOK' BY <1>2, <1>3 DEF TypeInv, FluidTypeOK
<1>7. /\ JobOK' /\ SpareEntriesEmpty' /\ BoundariesOK' /\ (used <= cmrCount + smrCount)'
      /\ RoundsOK'
  BY <1>2 DEF TypeInv, JobOK, SpareEntriesEmpty, BoundariesOK, RoundsOK
<1>8. CleaningOK'
  <2>1. /\ scan = 0 /\ job.next = job.lba /\ Len(queue.cmr) <= cmrCount
        /\ \A z \in InUse : ~ zone[z].isCache
    BY <1>2 DEF TypeInv, CleaningOK, Cleaning
  <2>2. Len(queue'.cmr) <= cmrCount
    <3>1. Len(queue.cmr) \in Nat /\ Len(queue'.cmr) \in Nat /\ cmrCount \in Nat
      BY <1>1, <1>4 DEF TypeInv, FluidTypeOK
    <3> QED BY <1>4, <2>1, <3>1
  <2> QED BY <1>2, <1>3, <2>1, <2>2 DEF CleaningOK
<1> QED BY <1>2, <1>5, <1>6, <1>7, <1>8 DEF TypeInv

LEMMA QueueFacts ==
  ASSUME TypeInv
  PROVE  /\ queue.cmr \in Seq(InUse) /\ queue.smr \in Seq(InUse)
         /\ queue.cmr \in Seq(Zone) /\ queue.smr \in Seq(Zone)
         /\ IsInjective(queue.cmr) /\ IsInjective(queue.smr)
         /\ Len(queue.cmr) \in Nat /\ Len(queue.smr) \in Nat
         /\ queue = [cmr |-> queue.cmr, smr |-> queue.smr]
<1>1. queue.cmr \in Seq(InUse) /\ queue.smr \in Seq(InUse) BY DEF TypeInv, QueueOK
<1>2. queue.cmr \in Seq(Zone) /\ queue.smr \in Seq(Zone) BY <1>1, TypeFacts, SeqMonotonic
<1> QED BY <1>1, <1>2 DEF TypeInv, QueueOK

\* The sorts change the order of a queue only.
LEMMA SortKeepsTypes ==
  ASSUME TypeInv, SortCMR \/ EndConversion
  PROVE  TypeInv'
<1>1. /\ pc \in {"sort", "convert"} /\ pc' \in {"undefined", "convert", "back"}
      /\ UNCHANGED <<home, zone, used, cmrBoundary, smrBoundary, cmrBands, remain,
                     cTotal, rTotal, cmrCount, smrCount, job, scan, rewrite, rounds>>
  BY DEF SortCMR, EndConversion
<1>2. InUse' = InUse BY <1>1 DEF InUse
<1>3. /\ Sorted(queue.cmr, 1) \in Seq(InUse) /\ IsInjective(Sorted(queue.cmr, 1))
      /\ Len(Sorted(queue.cmr, 1)) = Len(queue.cmr)
      /\ Sorted(queue.smr, -1) \in Seq(InUse) /\ IsInjective(Sorted(queue.smr, -1))
  <2>1. InUse \in SUBSET Zone /\ 1 \in {1, -1} /\ -1 \in {1, -1} BY TypeFacts
  <2> QED BY <2>1, TypeFacts, QueueFacts, SortedIsQueue
<1>4. /\ queue' = [cmr |-> queue'.cmr, smr |-> queue'.smr]
      /\ queue'.cmr \in {queue.cmr, Sorted(queue.cmr, 1)}
      /\ queue'.smr \in {queue.smr, Sorted(queue.smr, -1)}
  BY QueueFacts DEF SortCMR, EndConversion
<1>5. QueueOK' BY <1>2, <1>3, <1>4, QueueFacts DEF QueueOK
<1>6. Len(queue'.cmr) = Len(queue.cmr) BY <1>3, <1>4
<1>7. FluidTypeOK'
  <2>1. \A z \in InUse : ~ zone[z].isCache BY <1>1 DEF TypeInv, CleaningOK, Cleaning
  <2> QED BY <1>1, <1>2, <2>1 DEF TypeInv, FluidTypeOK
<1>8. /\ JobOK' /\ SpareEntriesEmpty' /\ BoundariesOK' /\ (used <= cmrCount + smrCount)'
      /\ RoundsOK'
  BY <1>1 DEF TypeInv, JobOK, SpareEntriesEmpty, BoundariesOK, RoundsOK
<1>9. CleaningOK'
  <2>1. /\ scan = 0 /\ job.next = job.lba /\ Len(queue.cmr) <= cmrCount
        /\ \A z \in InUse : ~ zone[z].isCache
    BY <1>1 DEF TypeInv, CleaningOK, Cleaning
  <2> QED BY <1>1, <1>2, <1>6, <2>1 DEF CleaningOK
<1> QED BY <1>1, <1>5, <1>7, <1>8, <1>9 DEF TypeInv

LEMMA StartConversionKeepsTypes ==
  ASSUME TypeInv, StartConversion \/ RoundUndefined
  PROVE  TypeInv'
<1>1. /\ UNCHANGED <<home, zone, used, cmrBoundary, smrBoundary, cmrBands, remain,
                     cTotal, rTotal, cmrCount, smrCount, job, scan, queue, rewrite>>
      /\ pc \in {"convert", "round"} /\ pc' \in {"trapped", "endless", "round", "undefined"}
      /\ rounds' \in {rounds, ToConvert \div 3}
      /\ pc' = "round" => /\ rounds' = ToConvert \div 3 /\ ToConvert >= 3
                          /\ Len(queue.cmr) > ToConvert
  <2>1. CASE StartConversion
    <3>1. ToConvert \in Nat /\ ~ ToConvert < 3 => ToConvert >= 3 BY Sizes
    <3> QED BY <2>1, <3>1, Sizes DEF StartConversion, Needed
  <2>2. CASE RoundUndefined BY <2>2 DEF RoundUndefined
  <2> QED BY <2>1, <2>2
<1>2. InUse' = InUse BY <1>1 DEF InUse
<1>3. FluidTypeOK' BY <1>1, <1>2 DEF TypeInv, FluidTypeOK
<1>4. /\ JobOK' /\ SpareEntriesEmpty' /\ BoundariesOK' /\ (used <= cmrCount + smrCount)'
      /\ QueueOK'
  BY <1>1, <1>2 DEF TypeInv, JobOK, SpareEntriesEmpty, BoundariesOK, QueueOK
<1>5. CleaningOK'
  <2>1. /\ scan = 0 /\ job.next = job.lba /\ Len(queue.cmr) <= cmrCount
        /\ \A z \in InUse : ~ zone[z].isCache
    BY <1>1 DEF TypeInv, CleaningOK, Cleaning
  <2> QED BY <1>1, <1>2, <2>1 DEF CleaningOK
<1>6. RoundsOK'
  <2>1. ToConvert \div 3 \in Nat /\ 3 * (ToConvert \div 3) <= ToConvert
        /\ (ToConvert >= 3 => ToConvert \div 3 > 0)
    BY Sizes
  <2>2. pc' = "round" => rounds' > 0 /\ 3 * rounds' < Len(queue.cmr)
    BY <1>1, <2>1, Sizes, QueueFacts
  <2>3. rounds' \in Nat BY <1>1, <2>1 DEF TypeInv, RoundsOK
  <2> QED BY <1>1, <2>2, <2>3 DEF TypeInv, RoundsOK
<1> QED BY <1>1, <1>3, <1>4, <1>5, <1>6 DEF TypeInv

LEMMA ConvertBackKeepsTypes ==
  ASSUME TypeInv, ConvertBack
  PROVE  TypeInv'
<1>1. /\ UNCHANGED <<home, zone, used, cmrBoundary, smrBoundary, cmrBands, remain,
                     cTotal, cmrCount, smrCount, job, scan, queue, rewrite, rounds>>
      /\ pc = "back" /\ pc' \in {"trapped", "endless", "back"}
  BY DEF ConvertBack
<1>2. InUse' = InUse BY <1>1 DEF InUse
<1>3. rTotal' \in 0 .. Word - 1
  <2>0. rTotal \in 0 .. Word - 1 BY DEF TypeInv, FluidTypeOK
  <2>1. CASE pc' # "back" BY <2>0, <2>1 DEF ConvertBack
  <2>2. CASE pc' = "back"
    <3>1. ToConvert >= 2 /\ Len(queue.smr) > ToConvert
      BY <1>1, <2>2, Sizes DEF ConvertBack, Needed
    <3>2. Len(queue.smr) \in 1 .. Len(queue.smr) /\ Len(queue.smr) - 1 \in 1 .. Len(queue.smr)
      BY <3>1, Sizes, QueueFacts
    <3>3. Back \in SUBSET Zone BY <3>2, QueueFacts DEF Back
    <3>4. IsFiniteSet(Back)
      <4>1. \A a, b : IsFiniteSet({a, b})
        <5> TAKE a, b
        <5>1. IsFiniteSet({a}) BY FS_Singleton
        <5>2. IsFiniteSet({a} \cup {b}) BY <5>1, FS_AddElement
        <5>3. {a} \cup {b} = {a, b} OBVIOUS
        <5> QED BY <5>2, <5>3
      <4> QED BY <4>1 DEF Back
    <3>5. NswOf(Back) \in Nat BY <3>3, <3>4, TypeFacts, NswIsNat
    <3>6. rTotal' = Minus(rTotal, NswOf(Back)) BY <2>2 DEF ConvertBack
    <3>7. rTotal \in Int BY <2>0, Sizes
    <3> QED BY <3>5, <3>6, <3>7, WordRange
  <2> QED BY <2>1, <2>2
<1>4. FluidTypeOK' BY <1>1, <1>2, <1>3 DEF TypeInv, FluidTypeOK
<1>5. /\ JobOK' /\ SpareEntriesEmpty' /\ BoundariesOK' /\ (used <= cmrCount + smrCount)'
      /\ QueueOK' /\ RoundsOK'
  BY <1>1, <1>2 DEF TypeInv, JobOK, SpareEntriesEmpty, BoundariesOK, QueueOK, RoundsOK
<1>6. CleaningOK'
  <2>1. /\ scan = 0 /\ job.next = job.lba /\ Len(queue.cmr) <= cmrCount
        /\ \A z \in InUse : ~ zone[z].isCache
    BY <1>1 DEF TypeInv, CleaningOK, Cleaning
  <2> QED BY <1>1, <1>2, <2>1 DEF CleaningOK
<1> QED BY <1>1, <1>4, <1>5, <1>6 DEF TypeInv

LEMMA EndCleaningKeepsTypes ==
  ASSUME TypeInv, EndCleaning
  PROVE  TypeInv'
<1>1. /\ UNCHANGED <<home, zone, used, cmrBoundary, smrBoundary, cmrBands, remain,
                     cTotal, rTotal, cmrCount, smrCount, job, scan, rewrite, rounds>>
      /\ pc = "back" /\ pc' = "place" /\ queue' = NoQueue
  BY DEF EndCleaning
<1>2. InUse' = InUse BY <1>1 DEF InUse
<1>3. FluidTypeOK' BY <1>1, <1>2 DEF TypeInv, FluidTypeOK
<1>4. /\ JobOK' /\ SpareEntriesEmpty' /\ BoundariesOK' /\ (used <= cmrCount + smrCount)'
      /\ RoundsOK' /\ CleaningOK'
  BY <1>1 DEF TypeInv, JobOK, SpareEntriesEmpty, BoundariesOK, RoundsOK, CleaningOK, Cleaning
<1>5. QueueOK'
  <2>1. <<>> \in Seq(InUse) BY EmptySeq
  <2>2. IsInjective(<<>>) BY DEF IsInjective
  <2> QED BY <1>1, <1>2, <2>1, <2>2 DEF QueueOK, NoQueue
<1> QED BY <1>1, <1>3, <1>4, <1>5 DEF TypeInv

\* The zones after a round: the three of the group converted, an entry behind
\* the last zone made a cache zone, the others as before.
LEMMA RoundZones ==
  ASSUME TypeInv, ConvertRound
  PROVE  /\ 3 <= Len(queue.cmr) /\ used \in Zone /\ cmrBoundary \in 0 .. BandCount - 1
         /\ \A i \in 1 .. 3 : Group[i] \in InUse /\ Group[i] \in Zone
         /\ \A i, j \in 1 .. 3 : Group[i] = Group[j] => i = j
         /\ Grouped \in SUBSET InUse /\ used \notin InUse
         /\ zone' \in [Zone -> Entry]
         /\ \A i \in 1 .. 3 : zone'[Group[i]] = Converted[i]
         /\ zone'[used] = CacheZone
         /\ \A z \in Zone : z \notin Grouped /\ z # used => zone'[z] = zone[z]
<1>1. /\ pc = "round" /\ ~ NoSpace
      /\ zone' = [z \in Zone |-> IF z \in Grouped
                                 THEN Converted[CHOOSE i \in 1 .. 3 : Group[i] = z]
                                 ELSE IF z = used THEN CacheZone ELSE zone[z]]
  BY DEF ConvertRound
<1>2. 3 <= Len(queue.cmr)
  <2>1. rounds \in Nat /\ rounds > 0 /\ 3 * rounds < Len(queue.cmr)
    BY <1>1 DEF TypeInv, RoundsOK
  <2> QED BY <2>1, QueueFacts
<1>3. used \in Zone /\ used \notin InUse /\ cmrBoundary \in 0 .. BandCount - 1
  BY <1>1, Sizes DEF NoSpace, TypeInv, FluidTypeOK, Zone, InUse
<1>4. zone \in [Zone -> Entry] /\ used \in 0 .. BandCount BY TypeFacts
<1>5. /\ \A i \in 1 .. 3 : Group[i] \in InUse /\ Group[i] \in Zone
      /\ \A i, j \in 1 .. 3 : Group[i] = Group[j] => i = j
      /\ Grouped \in SUBSET InUse
  BY <1>2, <1>4, GroupInQueue DEF TypeInv
<1>6. ASSUME NEW i \in 1 .. 3 PROVE zone'[Group[i]] = Converted[i] /\ Group[i] \in Grouped
  <2>1. Group[i] \in Grouped BY DEF Grouped
  <2>2. (CHOOSE j \in 1 .. 3 : Group[j] = Group[i]) = i BY <1>5
  <2> QED BY <1>1, <1>5, <2>1, <2>2
<1>7. zone'[used] = CacheZone /\ \A z \in Zone : z \notin Grouped /\ z # used => zone'[z] = zone[z]
  <2>1. used \notin Grouped BY <1>3, <1>5
  <2> QED BY <1>1, <1>3, <2>1
<1>8. zone' \in [Zone -> Entry]
  <2>1. \A i \in 1 .. 3 : Converted[i] \in Entry BY <1>4, <1>5, ConvertedType
  <2>2. CacheZone \in Entry BY <1>3, <1>4, CacheZoneType
  <2>3. \A z \in Grouped : \E i \in 1 .. 3 : z = Group[i] BY DEF Grouped
  <2>4. \A z \in Zone : zone'[z] \in Entry BY <1>4, <1>6, <1>7, <2>1, <2>2, <2>3
  <2>5. zone' = [z \in Zone |-> zone'[z]] BY <1>1
  <2> QED BY <2>4, <2>5
<1> QED BY <1>2, <1>3, <1>5, <1>6, <1>7, <1>8

LEMMA ConvertRoundKeepsTypes ==
  ASSUME TypeInv, ConvertRound
  PROVE  TypeInv'
<1>1. /\ 3 <= Len(queue.cmr) /\ used \in Zone /\ cmrBoundary \in 0 .. BandCount - 1
      /\ \A i \in 1 .. 3 : Group[i] \in InUse /\ Group[i] \in Zone
      /\ Grouped \in SUBSET InUse /\ used \notin InUse
      /\ zone' \in [Zone -> Entry]
      /\ \A i \in 1 .. 3 : zone'[Group[i]] = Converted[i]
      /\ zone'[used] = CacheZone
      /\ \A z \in Zone : z \notin Grouped /\ z # used => zone'[z] = zone[z]
  BY RoundZones
<1>2. /\ zone \in [Zone -> Entry] /\ used \in 0 .. BandCount
      /\ InUse \subseteq Zone /\ IsFiniteSet(InUse)
  BY TypeFacts
<1>3. /\ pc = "round" /\ pc' = "rewrite" /\ rounds' = rounds - 1
      /\ cmrBoundary' = cmrBoundary + 1 /\ cmrCount' = cmrCount - 2 /\ smrCount' = smrCount + 3
      /\ rewrite' = Group
      /\ UNCHANGED <<used, smrBoundary, job, scan>>
  BY DEF ConvertRound
<1>4. InUse' = InUse BY <1>3 DEF InUse
<1>5. \A z \in Grouped : \E i \in 1 .. 3 : z = Group[i] BY DEF Grouped
<1>6. ASSUME NEW z \in InUse PROVE zone'[z].isCache = zone[z].isCache
                                   /\ (z \in Grouped => zone'[z].nsw = 0)
  <2>1. CASE z \in Grouped
    <3>1. PICK i \in 1 .. 3 : z = Group[i] BY <1>5, <2>1
    <3>2. Converted[i].isCache = zone[Group[i]].isCache /\ Converted[i].nsw = 0
      BY <1>1, <1>2, ConvertedType
    <3>3. zone'[z] = Converted[i] BY <1>1, <3>1
    <3> QED BY <3>1, <3>2, <3>3
  <2>2. CASE z \notin Grouped BY <1>1, <1>2, <2>2
  <2> QED BY <2>1, <2>2
<1>7. /\ scan = 0 /\ job.next = job.lba /\ Len(queue.cmr) <= cmrCount
      /\ \A z \in InUse : ~ zone[z].isCache
  BY <1>3 DEF TypeInv, CleaningOK, Cleaning
<1>8. /\ home' \in [DiskStore!Lba -> Owner] /\ remain' \in 0 .. Word - 1
      /\ cTotal' \in 0 .. Word - 1 /\ rTotal' \in 0 .. Word - 1
  <2>1. home \in [DiskStore!Lba -> Owner] /\ {remain, cTotal, rTotal} \subseteq 0 .. Word - 1
    BY DEF TypeInv, FluidTypeOK
  <2>2. home' \in [DiskStore!Lba -> Owner]
    <3>1. FileZero \in Owner /\ NoFid \in Owner BY FluidFilesAssumption DEF Owner
    <3> QED BY <2>1, <3>1, DiskTypes DEF ConvertRound, Cleared
  <2>3. Len(Moved) + 2 * (ZoneTracks - CMRTracks) \in Int
    <3>1. Len(Moved) \in Nat BY <1>1, <1>2, MovedBlocks, Sizes
    <3> QED BY <3>1, Sizes
  <2>4. NswOf(Grouped) \in Nat
    <3>1. IsFiniteSet(Grouped) BY <1>1, <1>2, FS_Subset
    <3> QED BY <1>1, <1>2, <3>1, NswIsNat
  <2>5. remain \in Int /\ cTotal \in Int /\ rTotal \in Int /\ CMRTracks \in Int BY <2>1, Sizes
  <2> QED BY <2>2, <2>3, <2>4, <2>5, WordRange DEF ConvertRound
<1>9. cmrCount \in Nat /\ smrCount \in Nat /\ cmrCount' \in Nat /\ smrCount' \in Nat
      /\ (used <= cmrCount + smrCount)' /\ Len(queue.cmr) - 3 <= cmrCount'
  <2>1. cmrCount \in Nat /\ smrCount \in Nat /\ used <= cmrCount + smrCount
    BY DEF TypeInv, FluidTypeOK
  <2>2. Len(queue.cmr) \in Nat BY QueueFacts
  <2> QED BY <1>1, <1>2, <1>3, <1>7, <2>1, <2>2
<1>10. FluidTypeOK'
  <2>1. \A z \in InUse : ~ zone'[z].isCache => zone'[z].nsw <= zone'[z].whp
    <3> SUFFICES ASSUME NEW z \in InUse PROVE zone'[z].nsw <= zone'[z].whp OBVIOUS
    <3>1. CASE z \in Grouped
      <4>1. zone'[z].nsw = 0 /\ zone'[z].whp \in 0 .. ZoneTracks
        BY <1>1, <1>2, <1>6, <3>1 DEF Entry
      <4> QED BY <4>1, Sizes
    <3>2. CASE z \notin Grouped
      BY <1>1, <1>2, <1>7, <3>2 DEF TypeInv, FluidTypeOK
    <3> QED BY <3>1, <3>2
  <2>2. cmrBoundary' \in 0 .. BandCount + 1 /\ 0 \in Track BY <1>1, <1>3, Sizes DEF Track
  <2>3. job.rest \in 0 .. Word - 1 /\ smrBoundary \in -1 .. BandCount - 1
    BY DEF TypeInv, FluidTypeOK
  <2> QED BY <1>1, <1>2, <1>3, <1>4, <1>7, <1>8, <1>9, <2>1, <2>2, <2>3
          DEF FluidTypeOK, Entry, Block
<1>11. SpareEntriesEmpty'
  <2> SUFFICES ASSUME NEW z \in Zone, z >= used
               PROVE  zone'[z].nsw = 0 /\ zone'[z].whp = 0 /\ ~ zone'[z].isFull
    BY <1>3 DEF SpareEntriesEmpty
  <2>1. zone[z].nsw = 0 /\ zone[z].whp = 0 /\ ~ zone[z].isFull
    BY DEF TypeInv, SpareEntriesEmpty
  <2>2. z \notin Grouped BY <1>1, <1>2, Sizes DEF InUse, Zone
  <2>3. CASE z = used BY <1>1, <1>2, <2>1, <2>3, CacheZoneType
  <2>4. CASE z # used BY <1>1, <2>1, <2>2, <2>4
  <2> QED BY <2>3, <2>4
<1>12. JobOK' BY <1>3 DEF TypeInv, JobOK
<1>13. BoundariesOK' BY <1>1, <1>3, Sizes DEF TypeInv, BoundariesOK
<1>14. /\ queue' = [cmr |-> queue'.cmr, smr |-> queue'.smr] /\ queue'.smr = queue.smr
       /\ queue'.cmr \in Seq(InUse) /\ IsInjective(queue'.cmr)
       /\ Len(queue'.cmr) = Len(queue.cmr) - 3
  <2> DEFINE q == queue.cmr
             m == Len(q) - 3
             s == SubSeq(q, 1, m)
  <2>1. queue' = [cmr |-> s, smr |-> queue.smr]
    BY QueueFacts DEF ConvertRound
  <2>2. q \in Seq(InUse) /\ Len(q) \in Nat /\ m \in Nat /\ IsInjective(q)
    BY <1>1, QueueFacts
  <2>3. \A i \in 1 .. m : q[i] \in InUse /\ i \in DOMAIN q BY <2>2
  <2> HIDE DEF q, m
  <2>4. /\ s \in Seq(InUse) /\ Len(s) = IF 1 <= m THEN m - 1 + 1 ELSE 0
        /\ \A i \in 1 .. m - 1 + 1 : s[i] = q[1 + i - 1]
    BY <2>2, <2>3, SubSeqProperties
  <2> HIDE DEF s
  <2>5. Len(s) = m BY <2>2, <2>4
  <2>6. \A i \in 1 .. m : s[i] = q[i]
    <3>1. \A i \in 1 .. m : i \in 1 .. m - 1 + 1 /\ 1 + i - 1 = i BY <2>2
    <3> QED BY <2>4, <3>1
  <2>7. DOMAIN s = 1 .. m BY <2>4, <2>5
  <2>8. IsInjective(s) BY <2>2, <2>3, <2>6, <2>7 DEF IsInjective
  <2> QED BY <2>1, <2>4, <2>5, <2>8 DEF q, m
<1>15. QueueOK' BY <1>4, <1>14, QueueFacts DEF QueueOK
<1>16. CleaningOK'
  BY <1>3, <1>4, <1>6, <1>7, <1>9, <1>14 DEF CleaningOK, Cleaning
<1>17. RoundsOK'
  <2>1. rounds \in Nat /\ rounds > 0 /\ 3 * rounds < Len(queue.cmr)
    BY <1>3 DEF TypeInv, RoundsOK
  <2>2. rounds' \in Nat /\ 3 * rounds' < Len(queue'.cmr) BY <1>3, <1>14, <2>1, QueueFacts
  <2>3. Group \in Seq(Zone) /\ Group # <<>> BY <1>1, <1>2, GroupInQueue DEF TypeInv
  <2>4. ~ Unconverted'
    <3>1. zone'[used].isCache BY <1>1, <1>2, CacheZoneType
    <3> QED BY <1>1, <3>1 DEF Unconverted
  <2> QED BY <1>3, <2>2, <2>3, <2>4 DEF RoundsOK
<1> QED BY <1>9, <1>10, <1>11, <1>12, <1>13, <1>15, <1>16, <1>17 DEF TypeInv

LEMMA RewriteRunKeepsTypes ==
  ASSUME TypeInv, RewriteRun
  PROVE  TypeInv'
<1> DEFINE z == Head(rewrite)
           n == RunEnd(z) - scan
           last == RunEnd(z) = Extent(z)
<1>1. /\ pc = "rewrite" /\ scan \in Track /\ rewrite \in Seq(Zone) /\ rewrite # <<>>
      /\ zone \in [Zone -> Entry]
  BY TypeFacts DEF RewriteRun, TypeInv, FluidTypeOK, RoundsOK
<1>2. z \in Zone /\ Tail(rewrite) \in Seq(Zone) /\ Len(Tail(rewrite)) = Len(rewrite) - 1
      /\ Len(rewrite) \in Nat
  BY <1>1, HeadTailProperties
<1>3. /\ Extent(z) \in 1 .. ZoneTracks /\ RunEnd(z) \in Nat
      /\ RunEnd(z) # Extent(z) => RunEnd(z) \in Track
  BY <1>1, <1>2, RunEndType
<1> HIDE DEF z, n, last
<1>4. /\ home' = Rewritten(zone[z].lba + scan, n, zone[z].blocks[scan].fid)
      /\ remain' = IF last THEN Minus(remain, n) ELSE remain
      /\ scan' = IF last THEN 0 ELSE RunEnd(z)
      /\ rewrite' = IF last THEN Tail(rewrite) ELSE rewrite
      /\ pc' = IF ~ last \/ Len(rewrite) > 1 THEN "rewrite"
               ELSE IF rounds = 0 THEN "convert" ELSE "round"
      /\ UNCHANGED <<zone, used, cmrBoundary, smrBoundary, cmrBands, cTotal, rTotal,
                     cmrCount, smrCount, job, queue, rounds>>
  BY DEF RewriteRun, z, n, last
<1>5. InUse' = InUse BY <1>4 DEF InUse
<1>6. home' \in [DiskStore!Lba -> Owner]
  <2>1. zone[z].blocks[scan].fid \in Owner BY <1>1, <1>2 DEF Entry, Block
  <2> QED BY <1>4, <2>1, DiskTypes DEF TypeInv, FluidTypeOK
<1>7. remain' \in 0 .. Word - 1
  <2>1. n \in Int /\ remain \in 0 .. Word - 1 /\ remain \in Int
    BY <1>1, <1>3, Sizes DEF n, Track, TypeInv, FluidTypeOK
  <2>2. Minus(remain, n) \in 0 .. Word - 1 BY <2>1, WordRange
  <2> QED BY <1>4, <2>1, <2>2
<1>8. /\ pc' = "rewrite" => scan' \in Track
      /\ pc' # "rewrite" => scan' = 0
  <2>1. 0 \in Track BY Sizes DEF Track
  <2>2. ~ last => RunEnd(z) \in Track BY <1>3 DEF last
  <2> QED BY <1>4, <2>1, <2>2
<1>9. FluidTypeOK'
  <2>1. 0 \in 0 .. BandCount BY Sizes
  <2>2. \A y \in InUse : ~ zone[y].isCache BY <1>1 DEF TypeInv, CleaningOK, Cleaning
  <2> QED BY <1>4, <1>5, <1>6, <1>7, <1>8, <2>1, <2>2 DEF TypeInv, FluidTypeOK
<1>10. /\ JobOK' /\ SpareEntriesEmpty' /\ BoundariesOK' /\ (used <= cmrCount + smrCount)'
       /\ QueueOK'
  BY <1>1, <1>4, <1>5 DEF TypeInv, JobOK, SpareEntriesEmpty, BoundariesOK, QueueOK
<1>11. CleaningOK'
  <2>1. /\ job.next = job.lba /\ Len(queue.cmr) <= cmrCount
        /\ \A y \in InUse : ~ zone[y].isCache
    BY <1>1 DEF TypeInv, CleaningOK, Cleaning
  <2> QED BY <1>4, <1>5, <1>8, <2>1 DEF CleaningOK, Cleaning
<1>12. RoundsOK'
  <2>1. /\ rounds \in Nat /\ 3 * rounds < Len(queue.cmr) /\ ~ Unconverted
    BY <1>1 DEF TypeInv, RoundsOK
  <2>2. rounds # 0 => rounds > 0 BY <2>1
  <2>3. Len(rewrite) > 1 => Tail(rewrite) # <<>>
    <3> DEFINE t == Tail(rewrite)
    <3>1. Len(t) = Len(rewrite) - 1 /\ Len(rewrite) \in Nat BY <1>2
    <3> HIDE DEF t
    <3>2. t = <<>> => Len(t) = 0 OBVIOUS
    <3>3. Len(rewrite) > 1 => Len(t) # 0 BY <3>1
    <3> QED BY <3>2, <3>3 DEF t
  <2>4. pc' = "rewrite" => rewrite' # <<>>
    BY <1>1, <1>4, <2>3
  <2>5. rewrite' \in Seq(Zone) BY <1>1, <1>2, <1>4
  <2> QED BY <1>4, <2>1, <2>2, <2>4, <2>5 DEF RoundsOK, Unconverted
<1> QED BY <1>4, <1>9, <1>10, <1>11, <1>12 DEF TypeInv

-----------------------------------------------------------------------------
(* Placing the blocks of a write.                                          *)

LEMMA PlacedBlocks ==
  ASSUME JobOK, NEW next \in job.next .. job.lba + job.n
  PROVE  /\ Placed(next) \in SUBSET Nat /\ IsFiniteSet(Placed(next))
         /\ Cardinality(Placed(next)) \in Nat
         /\ \A b \in job.next .. next - 1 : b \in job.skip \/ b \in Placed(next)
<1>1. job.next \in Nat /\ job.lba \in Nat /\ job.n \in Nat BY DEF JobOK
<1> DEFINE a == job.next
           e == job.lba + job.n
<1>2. a \in Nat /\ e \in Nat /\ next \in a .. e BY <1>1
<1>3. Placed(next) = {b \in (a .. e - 1) \ job.skip : b < next}
  <2>a. job.lba + (job.n - 1) = e - 1 BY <1>1
  <2>1. Todo = (a .. e - 1) \ job.skip BY <2>a DEF Todo
  <2> HIDE DEF a, e
  <2> QED BY <2>1 DEF Placed
<1> HIDE DEF a, e
<1>4. IsFiniteSet(a .. e - 1) BY <1>2, FS_Interval
<1>5. Placed(next) \in SUBSET (a .. e - 1) BY <1>3
<1>6. IsFiniteSet(Placed(next)) BY <1>4, <1>5, FS_Subset
<1>7. \A b \in a .. next - 1 : b \in a .. e - 1 /\ b < next BY <1>2
<1>8. \A b \in a .. next - 1 : b \in job.skip \/ b \in Placed(next) BY <1>3, <1>7
<1>9. Placed(next) \in SUBSET Nat
  <2>1. a .. e - 1 \subseteq Nat BY <1>2
  <2> QED BY <1>5, <2>1
<1> QED BY <1>6, <1>8, <1>9, FS_CardinalityType DEF a

\* Blocks b of the request behind the write head of zone z.
Filling(z, b) ==
    LET c == Cardinality(b)
        w == zone[z].whp
    IN  /\ zone' \in [Zone -> Entry] /\ \A y \in Zone : y # z => zone'[y] = zone[y]
        /\ zone'[z].whp = w + c /\ zone'[z].isCache = zone[z].isCache
        /\ \A s \in Track : s < w => zone'[z].blocks[s] = zone[z].blocks[s]
        /\ \A i \in 0 .. c - 1 :
              /\ w + i \in Track
              /\ zone'[z].blocks[w + i] = [fid |-> job.fid, lba |-> Nth(b, i)]

LEMMA UsableIsRoom ==
  ASSUME TypeInv, NEW z \in Zone
  PROVE  Usable(z) \in 1 .. ZoneTracks
BY Sizes, TypeFacts DEF Usable, Entry

LEMMA PlaceFills ==
  ASSUME TypeInv, PlaceInZone
  PROVE  LET z == Min(Candidates)
         IN  /\ z \in Candidates /\ z \in scan .. used - 1 /\ z \in InUse /\ z \in Zone
             /\ \A y \in Candidates : z <= y
             /\ \E next \in job.next .. job.lba + job.n :
                   /\ LeavesAt(next, Usable(z) - zone[z].whp)
                   /\ PutInZone(z, Placed(next), next)
                   /\ zone[z].whp + Cardinality(Placed(next)) <= Usable(z)
                   /\ Filling(z, Placed(next))
                   /\ zone'[z].type = zone[z].type /\ zone'[z].lba = zone[z].lba
                   /\ zone'[z].sealed = zone[z].sealed
                   /\ zone'[z].nsw = zone[z].nsw + Cardinality(Placed(next))
                   /\ zone'[z].isFull = FullAfter(z, Placed(next), next)
<1> DEFINE z == Min(Candidates)
<1>1. /\ zone \in [Zone -> Entry] /\ used \in 0 .. BandCount /\ InUse \subseteq Zone
      /\ scan \in 0 .. BandCount
  BY TypeFacts DEF PlaceInZone, TypeInv, FluidTypeOK
<1>2. Candidates \in SUBSET Nat /\ Candidates # {} BY <1>1 DEF PlaceInZone, Candidates
<1>3. z \in Candidates /\ \A y \in Candidates : z <= y BY <1>2, MinNatural
<1>4. z \in scan .. used - 1 /\ z \in InUse /\ z \in Zone
  BY <1>1, <1>3 DEF Candidates, InUse
<1> HIDE DEF z
<1>5. PICK next \in job.next .. job.lba + job.n :
        /\ LeavesAt(next, Usable(z) - zone[z].whp)
        /\ PutInZone(z, Placed(next), next)
  BY DEF PlaceInZone, z
<1> DEFINE b == Placed(next)
           c == Cardinality(b)
           w == zone[z].whp
           f == Filled(zone[z], w, b)
<1>6. b \in SUBSET Nat /\ IsFiniteSet(b) /\ c \in Nat BY PlacedBlocks DEF TypeInv
<1>7. w \in Nat /\ Usable(z) \in 1 .. ZoneTracks /\ zone[z] \in Entry /\ zone[z].nsw \in Nat
  BY <1>1, <1>4, UsableIsRoom, Sizes DEF Entry
<1>8. c <= Usable(z) - w BY <1>5, <1>6, <1>7, Sizes DEF LeavesAt
<1>9. w + c <= Usable(z) /\ w + c <= ZoneTracks BY <1>6, <1>7, <1>8, Sizes
<1>10. /\ f \in Entry /\ f.whp = w + c
       /\ \A s \in Track : s < w => f.blocks[s] = zone[z].blocks[s]
       /\ \A i \in 0 .. c - 1 :
             w + i \in Track /\ f.blocks[w + i] = [fid |-> job.fid, lba |-> Nth(b, i)]
       /\ f.type = zone[z].type /\ f.nsw = zone[z].nsw /\ f.lba = zone[z].lba
       /\ f.isCache = zone[z].isCache /\ f.sealed = zone[z].sealed
  <2>1. JobOK BY DEF TypeInv
  <2> HIDE DEF b, c, w
  <2>2. w + Cardinality(b) <= ZoneTracks BY <1>9 DEF c
  <2> HIDE DEF f
  <2> QED BY <1>6, <1>7, <2>1, <2>2, FilledType DEF f, c
<1>11. FullAfter(z, b, next) \in BOOLEAN BY DEF FullAfter
<1>12. zone' = [zone EXCEPT ![z] = [f EXCEPT !.nsw = @ + c, !.isFull = FullAfter(z, b, next)]]
  BY <1>1, <1>4, <1>5 DEF PutInZone
<1> DEFINE full == FullAfter(z, b, next)
           g == [f EXCEPT !.nsw = @ + c, !.isFull = full]
<1> HIDE DEF b, c, w, f, full
<1>13. /\ g \in Entry /\ g.nsw = f.nsw + c /\ g.isFull = full /\ g.whp = f.whp
       /\ g.blocks = f.blocks /\ g.type = f.type /\ g.lba = f.lba
       /\ g.isCache = f.isCache /\ g.sealed = f.sealed
  <2>1. f.nsw + c \in Nat /\ full \in BOOLEAN BY <1>6, <1>10, <1>11, <1>7 DEF full, Entry
  <2> QED BY <1>10, <2>1 DEF Entry
<1> HIDE DEF g
<1>14. zone' \in [Zone -> Entry] /\ zone'[z] = g /\ \A y \in Zone : y # z => zone'[y] = zone[y]
  <2>1. zone' = [zone EXCEPT ![z] = g] BY <1>12 DEF g, full
  <2> QED BY <1>1, <1>4, <1>13, <2>1
<1>15. Filling(z, b) BY <1>10, <1>13, <1>14 DEF Filling, c, w
<1> QED BY <1>3, <1>4, <1>5, <1>9, <1>10, <1>13, <1>14, <1>15 DEF z, b, c, w, full

LEMMA PlaceInZoneKeepsTypes ==
  ASSUME TypeInv, PlaceInZone
  PROVE  TypeInv'
<1> DEFINE z == Min(Candidates)
<1>1. /\ z \in Candidates /\ z \in scan .. used - 1 /\ z \in InUse /\ z \in Zone
      /\ \E next \in job.next .. job.lba + job.n :
            /\ PutInZone(z, Placed(next), next)
            /\ zone[z].whp + Cardinality(Placed(next)) <= Usable(z)
            /\ Filling(z, Placed(next))
            /\ zone'[z].nsw = zone[z].nsw + Cardinality(Placed(next))
  BY PlaceFills
<1> HIDE DEF z
<1>2. PICK next \in job.next .. job.lba + job.n :
        /\ PutInZone(z, Placed(next), next)
        /\ zone[z].whp + Cardinality(Placed(next)) <= Usable(z)
        /\ Filling(z, Placed(next))
        /\ zone'[z].nsw = zone[z].nsw + Cardinality(Placed(next))
  BY <1>1
<1> DEFINE c == Cardinality(Placed(next))
<1>3. c \in Nat BY PlacedBlocks DEF TypeInv
<1>4. /\ pc = "place" /\ pc' = "place"
      /\ UNCHANGED <<used, cmrBoundary, smrBoundary, cmrBands, cTotal, rTotal,
                     cmrCount, smrCount, queue, rewrite, rounds>>
  BY DEF PlaceInZone
<1>5. /\ zone \in [Zone -> Entry] /\ used \in 0 .. BandCount /\ InUse \subseteq Zone
      /\ scan \in 0 .. BandCount
  BY <1>4, TypeFacts DEF TypeInv, FluidTypeOK
<1>6. /\ zone' \in [Zone -> Entry] /\ \A y \in Zone : y # z => zone'[y] = zone[y]
      /\ zone'[z].whp = zone[z].whp + c /\ zone'[z].isCache = zone[z].isCache
      /\ zone'[z].nsw = zone[z].nsw + c
  BY <1>2 DEF Filling
<1>7. /\ home' = Written(zone[z].lba + zone[z].whp, c, job.fid)
      /\ remain' = Minus(remain, c) /\ job' = [job EXCEPT !.next = next] /\ scan' = z + 1
  BY <1>2 DEF PutInZone
<1>8. InUse' = InUse BY <1>4 DEF InUse
<1>9. JobOK' /\ job'.rest \in 0 .. Word - 1
  <2>1. job.next \in Nat /\ job.lba \in Nat /\ job.n \in Nat /\ job.next \in job.lba .. job.lba + job.n
    BY DEF TypeInv, JobOK
  <2>2. next \in Nat /\ next \in job.lba .. job.lba + job.n BY <2>1
  <2> QED BY <1>7, <2>2 DEF TypeInv, JobOK
<1>10. /\ home' \in [DiskStore!Lba -> Owner] /\ remain' \in 0 .. Word - 1
       /\ scan' \in 0 .. BandCount
  <2>1. home' \in [DiskStore!Lba -> Owner]
    <3>1. job.fid \in Owner /\ home \in [DiskStore!Lba -> Owner]
      BY DEF TypeInv, JobOK, FluidTypeOK
    <3> QED BY <1>7, <3>1, DiskTypes
  <2>2. remain \in Int BY Sizes DEF TypeInv, FluidTypeOK
  <2>3. z + 1 \in 0 .. BandCount BY <1>1, <1>5, Sizes DEF Zone
  <2> QED BY <1>3, <1>7, <2>1, <2>2, <2>3, WordRange
<1> HIDE DEF c
<1>11. \A y \in InUse : ~ zone'[y].isCache => zone'[y].nsw <= zone'[y].whp
  <2> SUFFICES ASSUME NEW y \in InUse, ~ zone'[y].isCache PROVE zone'[y].nsw <= zone'[y].whp
    OBVIOUS
  <2>1. ~ zone[y].isCache BY <1>5, <1>6
  <2>2. zone[y].nsw <= zone[y].whp /\ zone[y].nsw \in Nat /\ zone[y].whp \in Nat
    BY <1>5, <2>1, Sizes DEF TypeInv, FluidTypeOK, Entry
  <2>3. CASE y = z BY <1>3, <1>6, <2>2, <2>3
  <2>4. CASE y # z BY <1>5, <1>6, <2>2, <2>4
  <2> QED BY <2>3, <2>4
<1>12. FluidTypeOK'
  BY <1>4, <1>6, <1>8, <1>9, <1>10, <1>11 DEF TypeInv, FluidTypeOK, Entry, Block
<1>13. SpareEntriesEmpty'
  <2>1. \A y \in Zone : y >= used => y # z BY <1>1, <1>5, Sizes DEF Zone
  <2> QED BY <1>4, <1>6, <2>1 DEF TypeInv, SpareEntriesEmpty
<1>14. /\ BoundariesOK' /\ QueueOK' /\ (used <= cmrCount + smrCount)' /\ RoundsOK'
       /\ CleaningOK'
  BY <1>4, <1>8 DEF TypeInv, BoundariesOK, QueueOK, RoundsOK, CleaningOK, Cleaning
<1> QED BY <1>4, <1>9, <1>12, <1>13, <1>14 DEF TypeInv

LEMMA AllocateFills ==
  ASSUME TypeInv, AllocateZone
  PROVE  /\ used \in Zone /\ used \notin InUse /\ InUse' = InUse \cup {used}
         /\ \E next \in job.next .. job.lba + job.n :
               /\ LeavesAt(next, RoomOf(job.hint))
               /\ PutInNewZone(job.hint, Placed(next), next)
               /\ Cardinality(Placed(next)) <= RoomOf(job.hint)
               /\ Filling(used, Placed(next))
               /\ zone'[used].nsw = 0
               /\ zone'[used].type = job.hint
               /\ zone'[used].sealed = (job.hint = 0)
               /\ zone'[used].lba = Boundary(job.hint) * ZoneTracks
               /\ zone'[used].isFull <=> Cardinality(Placed(next)) = RoomOf(job.hint)
         /\ zone[used].whp = 0
<1>1. /\ zone \in [Zone -> Entry] /\ used \in 0 .. BandCount /\ used < BandCount /\ JobOK
      /\ job.hint \in {0, 1} /\ used' = used + 1
  BY TypeFacts DEF AllocateZone, TypeInv, JobOK
<1>2. used \in Zone /\ used \notin InUse /\ InUse' = InUse \cup {used}
  BY <1>1, Sizes DEF Zone, InUse
<1>3. zone[used].nsw = 0 /\ zone[used].whp = 0 /\ ~ zone[used].isFull /\ zone[used] \in Entry
  BY <1>1, <1>2 DEF TypeInv, SpareEntriesEmpty
<1>4. PICK next \in job.next .. job.lba + job.n :
        /\ LeavesAt(next, RoomOf(job.hint))
        /\ PutInNewZone(job.hint, Placed(next), next)
  BY DEF AllocateZone
<1> DEFINE b == Placed(next)
           c == Cardinality(b)
           f == Filled(zone[used], 0, b)
           l == Boundary(job.hint) * ZoneTracks
           room == RoomOf(job.hint)
           tight == job.hint = 0
<1>5. b \in SUBSET Nat /\ IsFiniteSet(b) /\ c \in Nat BY <1>1, PlacedBlocks
<1>6. room \in 0 .. ZoneTracks BY Sizes DEF RoomOf
<1>7. c <= room BY <1>4, <1>5, <1>6, Sizes DEF LeavesAt
<1>8. l \in Nat
  <2>1. Boundary(job.hint) \in Nat
    <3>1. cmrBoundary \in 0 .. BandCount + 1 BY DEF TypeInv, FluidTypeOK
    <3>2. BandCount - 1 - used <= smrBoundary /\ smrBoundary \in -1 .. BandCount - 1
      BY DEF TypeInv, BoundariesOK, FluidTypeOK
    <3>3. smrBoundary \in Nat BY <1>1, <3>2, Sizes
    <3> QED BY <3>1, <3>3, Sizes DEF Boundary
  <2>2. \A x \in Nat : x * ZoneTracks \in Nat BY Sizes
  <2> QED BY <2>1, <2>2
<1>9. /\ f \in Entry /\ f.whp = 0 + c
      /\ \A i \in 0 .. c - 1 :
            0 + i \in Track /\ f.blocks[0 + i] = [fid |-> job.fid, lba |-> Nth(b, i)]
      /\ f.nsw = 0 /\ f.isFull = zone[used].isFull
      /\ f.isCache = zone[used].isCache
  <2> HIDE DEF b
  <2>1. 0 \in Nat /\ 0 + Cardinality(b) <= ZoneTracks BY <1>5, <1>6, <1>7, Sizes
  <2> HIDE DEF f, c
  <2> QED BY <1>1, <1>3, <1>5, <2>1, FilledType DEF f, c
<1> HIDE DEF b, c, f, l, room, tight
<1>10. zone' = [zone EXCEPT ![used] = [f EXCEPT !.type = job.hint, !.sealed = tight, !.lba = l,
                                               !.isFull = f.isFull \/ c = room]]
  BY <1>4 DEF PutInNewZone, b, c, f, l, room, tight
<1> DEFINE full == f.isFull \/ c = room
           g == [f EXCEPT !.type = job.hint, !.sealed = tight, !.lba = l, !.isFull = full]
<1> HIDE DEF full
<1>11. /\ g \in Entry /\ g.type = job.hint /\ g.sealed = tight /\ g.lba = l /\ g.isFull = full
       /\ g.nsw = f.nsw /\ g.whp = f.whp /\ g.blocks = f.blocks /\ g.isCache = f.isCache
  <2>1. full \in BOOLEAN /\ tight \in BOOLEAN BY DEF full, tight
  <2>2. job.hint \in 0 .. 2 BY <1>1
  <2>3. g = [f EXCEPT !.type = job.hint, !.sealed = tight, !.lba = l, !.isFull = full]
    OBVIOUS
  <2>4. f \in Entry BY <1>9
  <2> DEFINE h == job.hint
  <2> HIDE DEF g, h
  <2>5. g = [f EXCEPT !.type = h, !.sealed = tight, !.lba = l, !.isFull = full] BY <2>3 DEF h
  <2>6. h \in 0 .. 2 BY <2>2 DEF h
  <2>7. g \in Entry BY <1>8, <2>1, <2>4, <2>5, <2>6 DEF Entry
  <2>8. g.type = h /\ g.lba = l /\ g.nsw = f.nsw /\ g.whp = f.whp /\ g.blocks = f.blocks
    BY <1>8, <2>1, <2>4, <2>5, <2>6 DEF Entry
  <2>9. g.sealed = tight /\ g.isFull = full /\ g.isCache = f.isCache
    BY <1>8, <2>1, <2>4, <2>5, <2>6 DEF Entry
  <2> QED BY <2>7, <2>8, <2>9 DEF h
<1> HIDE DEF g
<1>12. /\ zone' \in [Zone -> Entry] /\ zone'[used] = g
       /\ \A y \in Zone : y # used => zone'[y] = zone[y]
  <2>1. zone' = [zone EXCEPT ![used] = g] BY <1>10 DEF g, full
  <2> QED BY <1>1, <1>2, <1>11, <2>1
<1>13. Filling(used, b)
  <2>1. \A s \in Track : ~ s < 0 BY Sizes DEF Track
  <2> QED BY <1>3, <1>9, <1>11, <1>12, <2>1 DEF Filling, c
<1>14. zone'[used].isFull <=> c = room BY <1>3, <1>9, <1>11, <1>12 DEF full
<1> QED BY <1>2, <1>3, <1>4, <1>7, <1>9, <1>11, <1>12, <1>13, <1>14
        DEF b, c, l, room, tight

LEMMA AllocateZoneKeepsTypes ==
  ASSUME TypeInv, AllocateZone
  PROVE  TypeInv'
<1>1. /\ used \in Zone /\ used \notin InUse /\ InUse' = InUse \cup {used}
      /\ zone[used].whp = 0
      /\ \E next \in job.next .. job.lba + job.n :
            /\ PutInNewZone(job.hint, Placed(next), next)
            /\ Cardinality(Placed(next)) <= RoomOf(job.hint)
            /\ Filling(used, Placed(next))
            /\ zone'[used].nsw = 0
  BY AllocateFills
<1>2. PICK next \in job.next .. job.lba + job.n :
        /\ PutInNewZone(job.hint, Placed(next), next)
        /\ Cardinality(Placed(next)) <= RoomOf(job.hint)
        /\ Filling(used, Placed(next))
        /\ zone'[used].nsw = 0
  BY <1>1
<1> DEFINE c == Cardinality(Placed(next))
<1>3. c \in Nat /\ job.hint \in {0, 1} /\ JobOK BY PlacedBlocks DEF TypeInv, JobOK
<1>4. /\ pc = "place" /\ pc' \in {"undefined", "place"}
      /\ used < BandCount /\ used' = used + 1 /\ scan' = used + 1
      /\ cmrBoundary' = cmrBoundary + (1 - job.hint) /\ smrBoundary' = smrBoundary - job.hint
      /\ cmrCount' = cmrCount + (1 - job.hint) /\ smrCount' = smrCount + job.hint
      /\ pc' # "undefined" => ~ (job.hint = 0 /\ cmrBoundary >= BandCount)
      /\ UNCHANGED <<cTotal, rTotal, queue, rewrite, rounds>>
  BY DEF AllocateZone
<1>5. /\ zone \in [Zone -> Entry] /\ used \in 0 .. BandCount /\ InUse \subseteq Zone
  BY TypeFacts
<1>6. /\ zone' \in [Zone -> Entry] /\ \A y \in Zone : y # used => zone'[y] = zone[y]
      /\ zone'[used].nsw = 0 /\ zone'[used].whp \in Nat
  BY <1>1, <1>2, Sizes DEF Filling, Entry
<1>7. /\ home' = Written(Boundary(job.hint) * ZoneTracks + zone[used].whp, c, job.fid)
      /\ remain' = Minus(remain, c + SealedTail(job.hint))
      /\ job' = [job EXCEPT !.next = next]
  BY <1>2 DEF PutInNewZone
<1>8. JobOK' /\ job'.rest \in 0 .. Word - 1
  <2>1. job.next \in Nat /\ job.lba \in Nat /\ job.n \in Nat /\ job.next \in job.lba .. job.lba + job.n
    BY <1>3 DEF JobOK
  <2>2. next \in Nat /\ next \in job.lba .. job.lba + job.n BY <2>1
  <2> QED BY <1>3, <1>7, <2>2 DEF JobOK
<1>9. home' \in [DiskStore!Lba -> Owner] /\ remain' \in 0 .. Word - 1
  <2>1. home' \in [DiskStore!Lba -> Owner]
    <3>1. job.fid \in Owner /\ home \in [DiskStore!Lba -> Owner]
      BY DEF TypeInv, JobOK, FluidTypeOK
    <3> QED BY <1>7, <3>1, DiskTypes
  <2>2. remain \in Int BY Sizes DEF TypeInv, FluidTypeOK
  <2>3. c + SealedTail(job.hint) \in Int BY <1>3, Sizes DEF SealedTail
  <2> QED BY <1>7, <2>1, <2>2, <2>3, WordRange
<1> HIDE DEF c
<1>10. /\ used' \in 0 .. BandCount /\ scan' \in 0 .. BandCount BY <1>4, <1>5, Sizes
<1>11. /\ cmrBoundary' \in 0 .. BandCount + 1 /\ smrBoundary' \in -1 .. BandCount - 1
       /\ BoundariesOK'
  <2>1. cmrBoundary \in 0 .. BandCount /\ smrBoundary \in -1 .. BandCount - 1
        /\ BandCount - 1 - used <= smrBoundary
    BY <1>4, Sizes DEF TypeInv, FluidTypeOK, BoundariesOK
  <2>2. cmrBoundary' \in 0 .. BandCount + 1 BY <1>3, <1>4, <2>1, Sizes
  <2>3. smrBoundary' \in -1 .. BandCount - 1 BY <1>3, <1>4, <1>5, <2>1, Sizes
  <2>4. BandCount - 1 - used' <= smrBoundary' BY <1>3, <1>4, <1>5, <2>1, Sizes
  <2>5. pc' # "undefined" => cmrBoundary' <= BandCount BY <1>3, <1>4, <2>1, Sizes
  <2> QED BY <2>2, <2>3, <2>4, <2>5 DEF BoundariesOK
<1>12. cmrCount' \in Nat /\ smrCount' \in Nat /\ (used <= cmrCount + smrCount)'
  <2>1. cmrCount \in Nat /\ smrCount \in Nat /\ used <= cmrCount + smrCount
    BY DEF TypeInv, FluidTypeOK
  <2> QED BY <1>3, <1>4, <1>5, <2>1
<1>13. \A y \in InUse' : ~ zone'[y].isCache => zone'[y].nsw <= zone'[y].whp
  <2> SUFFICES ASSUME NEW y \in InUse', ~ zone'[y].isCache PROVE zone'[y].nsw <= zone'[y].whp
    OBVIOUS
  <2>1. CASE y = used BY <1>6, <2>1
  <2>2. CASE y # used
    <3>1. y \in InUse /\ zone'[y] = zone[y] BY <1>1, <1>5, <1>6, <2>2
    <3> QED BY <3>1 DEF TypeInv, FluidTypeOK
  <2> QED BY <2>1, <2>2
<1>14. FluidTypeOK'
  BY <1>4, <1>6, <1>8, <1>9, <1>10, <1>11, <1>12, <1>13 DEF TypeInv, FluidTypeOK, Entry, Block
<1>15. SpareEntriesEmpty'
  <2>1. \A y \in Zone : y >= used + 1 => y # used /\ y >= used BY <1>5, Sizes DEF Zone
  <2> QED BY <1>4, <1>6, <2>1 DEF TypeInv, SpareEntriesEmpty
<1>16. QueueOK'
  <2>1. queue.cmr \in Seq(InUse') /\ queue.smr \in Seq(InUse')
    BY <1>1, QueueFacts, SeqMonotonic
  <2> QED BY <1>4, <2>1 DEF TypeInv, QueueOK
<1>17. RoundsOK' /\ CleaningOK'
  BY <1>4 DEF TypeInv, RoundsOK, CleaningOK, Cleaning
<1> QED BY <1>8, <1>11, <1>12, <1>14, <1>15, <1>16, <1>17 DEF TypeInv

LEMMA StutterKeepsTypes ==
  ASSUME TypeInv, UNCHANGED vars
  PROVE  TypeInv'
BY DEF vars, TypeInv, FluidTypeOK, JobOK, SpareEntriesEmpty, BoundariesOK, QueueOK,
       CleaningOK, RoundsOK, InUse, Unconverted

LEMMA InitTypes == Init => TypeInv
<1> SUFFICES ASSUME Init PROVE TypeInv OBVIOUS
<1>1. NoFid \in Owner /\ 0 \in Track BY Sizes DEF Owner, Track
<1>2. home \in [DiskStore!Lba -> Owner] /\ zone \in [Zone -> Entry]
      /\ \A z \in Zone : zone[z].nsw = 0 /\ zone[z].whp = 0 /\ zone[z].isFull = FALSE
  <2> DEFINE e == [type |-> 2, nsw |-> 0, whp |-> 0, lba |-> 0, isFull |-> FALSE,
                   isCache |-> FALSE, sealed |-> FALSE,
                   blocks |-> [k \in Track |-> [fid |-> NoFid, lba |-> 0]]]
  <2>1. e \in Entry
    <3>1. [fid |-> NoFid, lba |-> 0] \in Block BY <1>1 DEF Block
    <3> DEFINE n == [k \in Track |-> [fid |-> NoFid, lba |-> 0]]
    <3>2. n \in [Track -> Block] BY <3>1
    <3> HIDE DEF n
    <3>3. e = [type |-> 2, nsw |-> 0, whp |-> 0, lba |-> 0, isFull |-> FALSE,
               isCache |-> FALSE, sealed |-> FALSE, blocks |-> n]
      BY DEF n
    <3>4. 2 \in 0 .. 2 /\ 0 \in 0 .. ZoneTracks /\ 0 \in Nat BY Sizes
    <3> HIDE DEF e
    <3> QED BY <3>2, <3>3, <3>4 DEF Entry
  <2>2. e.nsw = 0 /\ e.whp = 0 /\ e.isFull = FALSE OBVIOUS
  <2>3. zone = [z \in Zone |-> e] BY DEF Init
  <2> HIDE DEF e
  <2>4. home = [l \in DiskStore!Lba |-> NoFid] BY DEF Init
  <2> QED BY <1>1, <2>1, <2>2, <2>3, <2>4
<1>3. /\ used = 0 /\ cmrBoundary = 0 /\ smrBoundary = BandCount - 1 /\ cmrBands = {}
      /\ remain = MaxBlock /\ cTotal = 0 /\ rTotal = 0 /\ cmrCount = 0 /\ smrCount = 0
      /\ job = NoJob /\ scan = 0 /\ queue = NoQueue /\ rewrite = <<>> /\ rounds = 0
      /\ pc = "lines"
  BY DEF Init
<1>4. JobOK /\ job.rest \in 0 .. Word - 1 BY <1>3, Sizes DEF NoJob, JobOK, Modes, Owner
<1>5. InUse = {} BY <1>3 DEF InUse
<1>6. FluidTypeOK
  <2>1. /\ 0 \in 0 .. BandCount /\ 0 \in 0 .. BandCount + 1 /\ BandCount - 1 \in -1 .. BandCount - 1
        /\ MaxBlock \in 0 .. Word - 1 /\ 0 \in 0 .. Word - 1 /\ 0 \in Nat
    BY Sizes
  <2> QED BY <1>2, <1>3, <1>4, <1>5, <2>1 DEF FluidTypeOK, Entry, Block
<1>7. SpareEntriesEmpty BY <1>2 DEF SpareEntriesEmpty
<1>8. BoundariesOK BY <1>3, Sizes DEF BoundariesOK
<1>9. QueueOK
  <2>1. <<>> \in Seq(InUse) BY EmptySeq
  <2>2. IsInjective(<<>>) BY DEF IsInjective
  <2> QED BY <1>3, <2>1, <2>2 DEF QueueOK, NoQueue
<1>10. CleaningOK BY <1>3 DEF CleaningOK, Cleaning
<1>11. RoundsOK
  <2>1. <<>> \in Seq(Zone) BY EmptySeq
  <2> QED BY <1>3, <2>1 DEF RoundsOK
<1> QED BY <1>3, <1>4, <1>6, <1>7, <1>8, <1>9, <1>10, <1>11 DEF TypeInv

LEMMA TypeInvariance == Spec => []TypeInv
<1>1. TypeInv /\ [Next]_vars => TypeInv'
  <2> SUFFICES ASSUME TypeInv, [Next]_vars PROVE TypeInv' OBVIOUS
  <2>1. CASE \E r \in Lines : CountLine(r) \/ WriteLine(r)
    BY <2>1, CountLineKeepsTypes, WriteLineKeepsTypes
  <2>2. CASE OtherLine BY <2>2, OtherLineKeepsTypes
  <2>3. CASE EndOfTrace BY <2>3, EndOfTraceKeepsTypes
  <2>4. CASE CountZone BY <2>4, CountZoneKeepsTypes
  <2>5. CASE EndCount \/ EndWrite BY <2>5, EndCountKeepsTypes
  <2>6. CASE BuildQueues BY <2>6, BuildQueuesKeepsTypes
  <2>7. CASE ZoneSwapping \/ NothingToSwap BY <2>7, SwapKeepsTypes
  <2>8. CASE SortCMR \/ EndConversion BY <2>8, SortKeepsTypes
  <2>9. CASE StartConversion \/ RoundUndefined BY <2>9, StartConversionKeepsTypes
  <2>10. CASE ConvertRound BY <2>10, ConvertRoundKeepsTypes
  <2>11. CASE RewriteRun BY <2>11, RewriteRunKeepsTypes
  <2>12. CASE ConvertBack BY <2>12, ConvertBackKeepsTypes
  <2>13. CASE EndCleaning BY <2>13, EndCleaningKeepsTypes
  <2>14. CASE PlaceInZone BY <2>14, PlaceInZoneKeepsTypes
  <2>15. CASE AllocateZone BY <2>15, AllocateZoneKeepsTypes
  <2>16. CASE UNCHANGED vars BY <2>16, StutterKeepsTypes
  <2> QED BY <2>1, <2>2, <2>3, <2>4, <2>5, <2>6, <2>7, <2>8, <2>9, <2>10, <2>11,
             <2>12, <2>13, <2>14, <2>15, <2>16 DEF Next, Step
<1> QED BY <1>1, InitTypes, PTL DEF Spec

\* The types of the space, for every trace; with them that no zone has more
\* blocks counted as written once than it has blocks, and that an SMR zone
\* comes to be converted back only when no cache zone is in use.
THEOREM FluidTypeCorrect == Spec => []FluidTypeOK
<1>1. TypeInv => FluidTypeOK BY DEF TypeInv
<1> QED BY <1>1, TypeInvariance, PTL
-----------------------------------------------------------------------------
(* The places of the zones on the disk.                                    *)

\* Zones of one band each: a track lies in the band of its zone, on the disk.
LEMMA BandArithmetic ==
  /\ \A b \in Nat : ZoneTracks * b \in Nat /\ b * ZoneTracks = ZoneTracks * b
                    /\ (b * ZoneTracks) \div ZoneTracks = b
  /\ \A a, b \in Nat : \A j, k \in Track :
        ZoneTracks * a + j = ZoneTracks * b + k => a = b /\ j = k
  /\ \A b \in Zone, k \in Track : ZoneTracks * b + k \in DiskStore!Lba
<1>1. ASSUME NEW b \in Nat
      PROVE  ZoneTracks * b \in Nat /\ b * ZoneTracks = ZoneTracks * b
             /\ (b * ZoneTracks) \div ZoneTracks = b
  <2>1. ZoneTracks \in Nat /\ ZoneTracks > 0 BY Sizes
  <2> QED BY <2>1
<1>2. ASSUME NEW a \in Nat, NEW b \in Nat, NEW j \in Track, NEW k \in Track,
             ZoneTracks * a + j = ZoneTracks * b + k
      PROVE  a = b /\ j = k
  <2>1. j \in 0 .. ZoneTracks - 1 /\ k \in 0 .. ZoneTracks - 1 /\ ZoneTracks \in Nat
    BY Sizes DEF Track
  <2>2. \A x, y \in Nat : x < y => ZoneTracks * x + ZoneTracks <= ZoneTracks * y
    <3> SUFFICES ASSUME NEW x \in Nat, NEW y \in Nat, x < y
                 PROVE  ZoneTracks * x + ZoneTracks <= ZoneTracks * y
      OBVIOUS
    <3>1. y - x - 1 \in Nat OBVIOUS
    <3>2. ZoneTracks * (y - x - 1) \in Nat BY <2>1, <3>1
    <3>3. ZoneTracks * (y - x - 1) = ZoneTracks * y - ZoneTracks * x - ZoneTracks BY <2>1
    <3>4. ZoneTracks * y \in Nat /\ ZoneTracks * x \in Nat BY <2>1
    <3> QED BY <2>1, <3>2, <3>3, <3>4
  <2>3. ZoneTracks * a \in Nat /\ ZoneTracks * b \in Nat BY <1>1
  <2>4. a < b => ZoneTracks * a + ZoneTracks <= ZoneTracks * b BY <2>2
  <2>5. b < a => ZoneTracks * b + ZoneTracks <= ZoneTracks * a BY <2>2
  <2>6. ~ a < b /\ ~ b < a BY <1>2, <2>1, <2>3, <2>4, <2>5
  <2>7. a = b BY <2>6
  <2> QED BY <1>2, <2>1, <2>3, <2>7
<1>3. ASSUME NEW b \in Zone, NEW k \in Track
      PROVE  ZoneTracks * b + k \in DiskStore!Lba
  <2>1. b \in Nat /\ b <= BandCount - 1 /\ k \in 0 .. ZoneTracks - 1 /\ ZoneTracks \in Nat
        /\ BandCount \in Nat
    BY Sizes DEF Zone, Track
  <2>2. BandCount - 1 - b \in Nat BY <2>1
  <2>3. ZoneTracks * (BandCount - 1 - b) \in Nat BY <2>1, <2>2
  <2>4. ZoneTracks * (BandCount - 1 - b) = BandCount * ZoneTracks - ZoneTracks - ZoneTracks * b
    BY <2>1
  <2>5. ZoneTracks * b \in Nat /\ BandCount * ZoneTracks \in Nat BY <2>1
  <2> QED BY <2>1, <2>3, <2>4, <2>5 DEF DiskStore!Lba, MaxBlock
<1> QED BY <1>1, <1>2, <1>3
\* A write to tracks that are all free.
Claimed(l, c, fid) == [k \in DiskStore!Lba |-> IF k \in l .. l + c - 1 THEN fid ELSE home[k]]

LEMMA WrittenFree ==
  ASSUME home \in [DiskStore!Lba -> Owner], NEW l \in Nat, NEW c \in Nat, NEW fid,
         \A i \in 0 .. c - 1 : l + i \in DiskStore!Lba /\ home[l + i] = NoFid
  PROVE  Written(l, c, fid) = Claimed(l, c, fid)
<1> SUFFICES ASSUME NEW k \in DiskStore!Lba
             PROVE  Written(l, c, fid)[k] = IF k \in l .. l + c - 1 THEN fid ELSE home[k]
  BY DEF Written, Claimed
<1>1. Written(l, c, fid)[k] = IF k \in DiskStore!Blocks(l, c) /\ home[k] \in {NoFid, fid}
                              THEN fid ELSE home[k]
  BY DEF Written
<1>2. k \in Nat /\ MaxBlock \in Nat /\ DiskStore!Lba = 0 .. MaxBlock - 1
  BY Sizes DEF DiskStore!Lba
<1>3. CASE c = 0
  <2>1. ~ k \in l .. l + c - 1 BY <1>2, <1>3
  <2>2. ~ k \in DiskStore!Blocks(l, c) BY <1>2, <1>3 DEF DiskStore!Blocks
  <2> QED BY <1>1, <2>1, <2>2
<1>4. CASE c > 0
  <2>1. c - 1 \in 0 .. c - 1 BY <1>4
  <2>2. l + (c - 1) \in DiskStore!Lba BY <2>1
  <2>3. l + c <= MaxBlock BY <1>2, <2>2
  <2>4. DiskStore!Blocks(l, c) = l .. l + c - 1 BY <2>3 DEF DiskStore!Blocks
  <2>5. k \in l .. l + c - 1 => home[k] = NoFid
    <3> SUFFICES ASSUME k \in l .. l + c - 1 PROVE home[k] = NoFid
      OBVIOUS
    <3>1. k - l \in 0 .. c - 1 /\ l + (k - l) = k BY <1>2
    <3> QED BY <3>1
  <2> QED BY <1>1, <2>4, <2>5
<1> QED BY <1>3, <1>4

\* Where the zones are.
LEMMA ZonePlaces ==
  ASSUME TypeInv, BandsApart
  PROVE  /\ \A z \in InUse : Band(z) \in Zone /\ zone[z].lba = ZoneTracks * Band(z)
         /\ \A y, z \in InUse : Band(y) = Band(z) => y = z
         /\ \A z \in InUse : zone[z].whp <= Usable(z) /\ zone[z].whp \in Nat
         /\ cmrBoundary \in 0 .. BandCount /\ smrBoundary \in -1 .. BandCount - 1
         /\ cmrBoundary + (BandCount - 1 - smrBoundary) = used
<1>1. /\ cmrBoundary \in 0 .. BandCount + 1 /\ smrBoundary \in -1 .. BandCount - 1
      /\ used \in 0 .. BandCount /\ BandCount \in Nat
      /\ zone \in [Zone -> Entry] /\ InUse \subseteq Zone
  BY Sizes, TypeFacts DEF TypeInv, FluidTypeOK
<1>2. cmrBoundary + (BandCount - 1 - smrBoundary) = used BY DEF BandsApart
<1>3. cmrBoundary \in 0 .. BandCount BY <1>1, <1>2
<1>4. \A z \in InUse : zone[z].whp \in Nat BY <1>1, Sizes DEF Entry
<1>5. \A z \in InUse : Band(z) \in Zone
  <2> SUFFICES ASSUME NEW z \in InUse PROVE Band(z) \in Zone
    OBVIOUS
  <2>1. Band(z) \in 0 .. cmrBoundary - 1 \/ Band(z) \in smrBoundary + 1 .. BandCount - 1
    BY DEF BandsApart
  <2> QED BY <1>1, <1>3, <2>1 DEF Zone
<1> QED BY <1>1, <1>2, <1>3, <1>4, <1>5 DEF BandsApart
\* Blocks written behind the write head of a zone, in use or taken into use.
LEMMA SlotsTaken ==
  ASSUME TypeInv, BandsApart, SlotsRecorded, job.fid \in Fid,
         NEW z \in Zone, NEW b, IsFiniteSet(b), Filling(z, b), InUse' = InUse \cup {z},
         z \notin InUse => zone[z].whp = 0, z \in InUse => zone'[z].lba = zone[z].lba,
         NEW base \in Zone, zone'[z].lba = ZoneTracks * base,
         \A y \in InUse : y # z => Band(y) # base,
         home' = Written(zone'[z].lba + zone[z].whp, Cardinality(b), job.fid)
  PROVE  LET at == zone'[z].lba + zone[z].whp
         IN  /\ SlotsRecorded'
             /\ \A l \in at .. at + Cardinality(b) - 1 : l \in DiskStore!Lba /\ home[l] = NoFid
             /\ home' = Claimed(at, Cardinality(b), job.fid)
<1> DEFINE c == Cardinality(b)
           w == zone[z].whp
           first == ZoneTracks * base
           at == first + w
<1>1. /\ zone \in [Zone -> Entry] /\ InUse \subseteq Zone
      /\ home \in [DiskStore!Lba -> Owner] /\ NoFid \notin Fid
  BY TypeFacts, FluidFilesAssumption DEF TypeInv, FluidTypeOK
<1>2. /\ \A y \in InUse : Band(y) \in Zone /\ zone[y].lba = ZoneTracks * Band(y)
      /\ \A y \in InUse : zone[y].whp \in Nat /\ \A k \in 0 .. zone[y].whp - 1 : k \in Track
  <2>1. \A y \in InUse : Band(y) \in Zone /\ zone[y].lba = ZoneTracks * Band(y) BY ZonePlaces
  <2>2. \A y \in InUse : zone[y].whp \in 0 .. ZoneTracks BY <1>1 DEF Entry
  <2> QED BY <2>1, <2>2, Sizes DEF Track
<1>3. c \in Nat /\ w \in Nat /\ first \in Nat /\ Zone \subseteq Nat
  <2>1. w \in 0 .. ZoneTracks BY <1>1 DEF Entry
  <2>2. first \in Nat BY BandArithmetic DEF Zone
  <2> QED BY <2>1, <2>2, FS_CardinalityType, Sizes DEF Zone
<1>4. /\ zone' \in [Zone -> Entry] /\ \A y \in Zone : y # z => zone'[y] = zone[y]
      /\ zone'[z].whp = w + c
      /\ \A s \in Track : s < w => zone'[z].blocks[s] = zone[z].blocks[s]
      /\ \A i \in 0 .. c - 1 : /\ w + i \in Track
                               /\ zone'[z].blocks[w + i] = [fid |-> job.fid, lba |-> Nth(b, i)]
  BY DEF Filling
<1>5. \A y \in InUse : y = z => Band(y) = base
  <2> SUFFICES ASSUME z \in InUse PROVE Band(z) = base
    OBVIOUS
  <2>1. ZoneTracks * Band(z) = ZoneTracks * base BY <1>2
  <2>2. 0 \in Track /\ Band(z) \in Nat /\ base \in Nat /\ ZoneTracks \in Nat
    BY <1>2, <1>3, Sizes DEF Track
  <2>3. ZoneTracks * Band(z) + 0 = ZoneTracks * base + 0 BY <2>1
  <2> QED BY <2>2, <2>3, BandArithmetic
<1>6. at = zone'[z].lba + zone[z].whp OBVIOUS
<1> HIDE DEF c, w, at
\* The tracks that are written are free.
<1>7. ASSUME NEW i \in 0 .. c - 1 PROVE at + i \in DiskStore!Lba /\ home[at + i] = NoFid
  <2>1. w + i \in Track BY <1>4
  <2>2. at + i = first + (w + i) BY <1>3 DEF at
  <2>3. at + i \in DiskStore!Lba BY <2>1, <2>2, BandArithmetic
  <2>4. ASSUME home[at + i] # NoFid PROVE FALSE
    <3>1. PICK y \in InUse : \E k \in 0 .. zone[y].whp - 1 : at + i = zone[y].lba + k
      BY <2>3, <2>4 DEF SlotsRecorded
    <3>2. PICK k \in 0 .. zone[y].whp - 1 : at + i = zone[y].lba + k BY <3>1
    <3>3. k \in Track /\ Band(y) \in Nat /\ base \in Nat BY <1>2, <1>3
    <3>4. ZoneTracks * base + (w + i) = ZoneTracks * Band(y) + k BY <1>2, <2>2, <3>2
    <3>5. base = Band(y) /\ w + i = k
      <4> DEFINE m == w + i
                 d == Band(y)
      <4>1. m \in Track /\ d \in Nat /\ ZoneTracks * base + m = ZoneTracks * d + k
        BY <2>1, <3>3, <3>4
      <4> HIDE DEF m, d
      <4>2. base = d /\ m = k BY <3>3, <4>1, BandArithmetic
      <4> QED BY <4>2 DEF m, d
    <3>6. y = z BY <3>5
    <3>7. k < w BY <1>2, <3>2, <3>6 DEF w
    <3> QED BY <1>3, <3>5, <3>7
  <2> QED BY <2>3, <2>4
<1>8. at \in Nat BY <1>3 DEF at
<1>9. /\ home' = Claimed(at, c, job.fid)
      /\ \A l \in DiskStore!Lba : home'[l] = IF l \in at .. at + c - 1 THEN job.fid ELSE home[l]
  <2>1. home' = Written(at, c, job.fid) BY <1>6 DEF c
  <2>2. \A i \in 0 .. c - 1 : at + i \in DiskStore!Lba /\ home[at + i] = NoFid BY <1>7
  <2>3. Written(at, c, job.fid) = Claimed(at, c, job.fid)
    BY <1>1, <1>3, <1>8, <2>2, WrittenFree
  <2> QED BY <2>1, <2>3 DEF Claimed
<1>10. ASSUME NEW l \in at .. at + c - 1
       PROVE  l \in DiskStore!Lba /\ home[l] = NoFid /\ l - at \in 0 .. c - 1 /\ at + (l - at) = l
  <2>1. l - at \in 0 .. c - 1 /\ at + (l - at) = l BY <1>3, <1>8
  <2> QED BY <1>7, <2>1
<1>11. ASSUME NEW y \in InUse', NEW k \in 0 .. zone'[y].whp - 1
       PROVE  /\ zone'[y].blocks[k].fid \in Fid
              /\ home'[zone'[y].lba + k] = zone'[y].blocks[k].fid
  <2>1. CASE y \in InUse /\ k < zone[y].whp
    <3>1. /\ zone'[y].blocks[k] = zone[y].blocks[k] /\ zone'[y].lba = zone[y].lba
          /\ k \in 0 .. zone[y].whp - 1
      <4>1. k \in 0 .. zone[y].whp - 1 BY <1>1, <1>2, <1>4, <2>1
      <4>2. k \in Track BY <1>2, <2>1, <4>1
      <4>3. CASE y = z BY <1>4, <2>1, <4>1, <4>2, <4>3 DEF w
      <4>4. CASE y # z BY <1>1, <1>4, <2>1, <4>1, <4>4
      <4> QED BY <4>3, <4>4
    <3> DEFINE l == zone[y].lba + k
    <3>2. zone[y].blocks[k].fid \in Fid /\ home[l] = zone[y].blocks[k].fid
      BY <2>1, <3>1 DEF SlotsRecorded
    <3>3. l \in DiskStore!Lba
      BY <1>2, <2>1, <3>1, BandArithmetic
    <3>4. l \notin at .. at + c - 1 BY <1>1, <1>10, <3>2
    <3> QED BY <1>9, <3>1, <3>2, <3>3, <3>4
  <2>2. CASE ~ (y \in InUse /\ k < zone[y].whp)
    <3>1. y = z /\ k >= w
      <4>1. CASE y = z
        <5>1. CASE z \in InUse BY <1>2, <1>3, <1>4, <2>2, <4>1, <5>1 DEF w
        <5>2. CASE z \notin InUse BY <1>3, <1>4, <4>1, <5>2 DEF w
        <5> QED BY <4>1, <5>1, <5>2
      <4>2. CASE y # z
        <5>1. y \in InUse /\ zone'[y].whp = zone[y].whp BY <1>1, <1>4, <4>2
        <5>2. k < zone[y].whp BY <1>2, <5>1
        <5> QED BY <2>2, <5>1, <5>2
      <4> QED BY <4>1, <4>2
    <3>2. k - w \in 0 .. c - 1 /\ w + (k - w) = k
      <4>1. zone'[y].whp = w + c BY <1>4, <3>1
      <4>2. k \in 0 .. (w + c) - 1 BY <4>1
      <4> QED BY <1>3, <3>1, <4>2
    <3>3. zone'[y].blocks[k].fid = job.fid
      <4> DEFINE i == k - w
      <4>1. i \in 0 .. c - 1 /\ w + i = k BY <3>2
      <4> HIDE DEF i
      <4>2. zone'[z].blocks[w + i] = [fid |-> job.fid, lba |-> Nth(b, i)] BY <1>4, <4>1
      <4> QED BY <3>1, <4>1, <4>2
    <3>4. zone'[y].lba + k = at + (k - w) BY <1>3, <3>1, <3>2 DEF at
    <3>5. at + (k - w) \in at .. at + c - 1 BY <1>3, <1>8, <3>2
    <3>6. at + (k - w) \in DiskStore!Lba BY <1>7, <3>2
    <3> QED BY <1>9, <3>3, <3>4, <3>5, <3>6
  <2> QED BY <2>1, <2>2
<1>12. ASSUME NEW l \in DiskStore!Lba, home'[l] # NoFid
       PROVE  \E y \in InUse' : \E k \in 0 .. zone'[y].whp - 1 : l = zone'[y].lba + k
  <2>1. CASE l \in at .. at + c - 1
    <3>1. w + (l - at) \in 0 .. zone'[z].whp - 1 BY <1>3, <1>4, <1>10, <2>1
    <3>2. l = zone'[z].lba + (w + (l - at)) BY <1>3, <1>8, <1>10, <2>1 DEF at
    <3> QED BY <3>1, <3>2
  <2>2. CASE l \notin at .. at + c - 1
    <3>1. home[l] # NoFid BY <1>9, <1>12, <2>2
    <3>2. PICK y \in InUse : \E k \in 0 .. zone[y].whp - 1 : l = zone[y].lba + k
      BY <3>1 DEF SlotsRecorded
    <3>3. zone'[y].lba = zone[y].lba /\ \A k \in 0 .. zone[y].whp - 1 : k \in 0 .. zone'[y].whp - 1
      <4>1. CASE y = z BY <1>2, <1>3, <1>4, <3>2, <4>1 DEF w
      <4>2. CASE y # z BY <1>1, <1>4, <3>2, <4>2
      <4> QED BY <4>1, <4>2
    <3> QED BY <3>2, <3>3
  <2> QED BY <2>1, <2>2
<1>13. SlotsRecorded' BY <1>11, <1>12 DEF SlotsRecorded, DiskStore!Lba
<1> QED BY <1>6, <1>9, <1>10, <1>13 DEF c, w, at
LEMMA CountFrom ==
  ASSUME NEW a \in Nat, NEW c \in Nat
  PROVE  Cardinality(a .. a + c - 1) = c
<1> DEFINE e == a + c - 1
<1>1. e \in Int /\ e - a + 1 = c /\ (a > e => c = 0) BY SMT
<1> HIDE DEF e
<1>2. Cardinality(a .. e) = IF a > e THEN 0 ELSE e - a + 1 BY <1>1, FS_Interval
<1> QED BY <1>1, <1>2 DEF e

\* The spare tracks, and what becomes of them.
LEMMA TailsApart ==
  ASSUME TypeInv, BandsApart, NEW base \in Zone, NEW m \in Track,
         \A y \in InUse : Band(y) = base /\ zone[y].type = 0 => m < CMRTracks
  PROVE  ZoneTracks * base + m \notin Tails
<1> SUFFICES ASSUME ZoneTracks * base + m \in Tails PROVE FALSE
  OBVIOUS
<1>1. PICK y \in Queued({0}), k \in CMRTracks .. ZoneTracks - 1 :
        ZoneTracks * base + m = zone[y].lba + k
  BY DEF Tails
<1>2. y \in InUse /\ zone[y].type = 0 BY DEF Queued
<1>3. zone[y].lba = ZoneTracks * Band(y) /\ Band(y) \in Zone BY <1>2, ZonePlaces
<1>4. k \in Track /\ k >= CMRTracks /\ m \in Int /\ CMRTracks \in Int
  BY Sizes DEF Track
<1> DEFINE d == Band(y)
<1>5. d \in Nat /\ base \in Nat /\ ZoneTracks * base + m = ZoneTracks * d + k
  BY <1>1, <1>3 DEF Zone
<1> HIDE DEF d
<1>6. base = d /\ m = k BY <1>4, <1>5, BandArithmetic
<1>7. m < CMRTracks BY <1>2, <1>6 DEF d
<1> QED BY <1>4, <1>6, <1>7

LEMMA SpareTaken ==
  ASSUME TypeInv, remain = Cardinality(Spare), NEW X, X \subseteq Spare, Spare' = Spare \ X,
         remain' = Minus(remain, Cardinality(X))
  PROVE  remain' = Cardinality(Spare')
<1>1. IsFiniteSet(Spare)
  <2>1. IsFiniteSet(DiskStore!Lba) BY Sizes, FirstNumbers DEF DiskStore!Lba
  <2>2. Spare \subseteq DiskStore!Lba BY DEF Spare
  <2> QED BY <2>1, <2>2, FS_Subset
<1>2. IsFiniteSet(X) /\ Cardinality(X) <= Cardinality(Spare) BY <1>1, FS_Subset
<1>3. Cardinality(X) \in Nat /\ Cardinality(Spare) \in Nat BY <1>1, <1>2, FS_CardinalityType
<1>4. Cardinality(Spare') = Cardinality(Spare) - Cardinality(X) BY <1>1, PartCount
<1>5. remain \in 0 .. Word - 1 BY DEF TypeInv, FluidTypeOK
<1> DEFINE a == Cardinality(Spare)
           x == Cardinality(X)
<1>6. a \in Nat /\ x \in Nat /\ x <= a /\ a < Word /\ Word \in Nat \ {0}
  BY <1>2, <1>3, <1>5, Sizes
<1> HIDE DEF a, x
<1>7. (a - x) % Word = a - x BY <1>6
<1> QED BY <1>4, <1>7 DEF Minus, a, x

\* What DiskInv says of the zones does not depend on isFull and nsw.
SameZone(z) ==
    /\ zone'[z].lba = zone[z].lba /\ zone'[z].type = zone[z].type
    /\ zone'[z].sealed = zone[z].sealed /\ zone'[z].isCache = zone[z].isCache

LEMMA SameDisk ==
  ASSUME TypeInv, DiskInv, UNCHANGED <<home, used, cmrBoundary, smrBoundary, cmrBands, remain>>,
         \A z \in Zone : /\ SameZone(z) /\ zone'[z].whp = zone[z].whp
                         /\ zone'[z].blocks = zone[z].blocks
  PROVE  DiskInv'
<1>1. InUse' = InUse /\ InUse \subseteq Zone BY TypeFacts DEF InUse
<1>2. Unconverted' => Unconverted BY DEF Unconverted, SameZone
<1>3. \A z \in InUse : Band(z)' = Band(z) /\ Usable(z)' = Usable(z)
  BY <1>1 DEF Band, Usable, SameZone
<1>4. BandsApart => BandsApart'
  <2> SUFFICES ASSUME BandsApart PROVE BandsApart'
    OBVIOUS
  <2>1. {Band(z)' : z \in {y \in InUse : zone'[y].type = 0}}
          = {Band(z) : z \in {y \in InUse : zone[y].type = 0}}
    <3>1. {y \in InUse : zone'[y].type = 0} = {y \in InUse : zone[y].type = 0}
      BY <1>1 DEF SameZone
    <3> QED BY <1>3, <3>1
  <2>2. (\A z \in InUse :
          /\ zone[z].lba = ZoneTracks * Band(z)
          /\ zone[z].sealed <=> zone[z].type = 0
          /\ \/ zone[z].type = 0 /\ Band(z) \in 0 .. cmrBoundary - 1
             \/ zone[z].type = 1 /\ Band(z) \in smrBoundary + 1 .. BandCount - 1
          /\ zone[z].whp <= Usable(z))'
    BY <1>1, <1>3 DEF BandsApart, SameZone
  <2>3. (\A y, z \in InUse : Band(y) = Band(z) => y = z)' BY <1>1, <1>3 DEF BandsApart
  <2> QED BY <1>1, <2>1, <2>2, <2>3 DEF BandsApart
<1>5. SlotsRecorded => SlotsRecorded' BY <1>1 DEF SlotsRecorded, SameZone
<1>6. Spare' = Spare
  <2>1. Queued({0})' = Queued({0}) BY <1>1 DEF Queued, SameZone
  <2>2. \A z \in Queued({0}) : zone'[z].lba = zone[z].lba BY <1>1 DEF Queued, SameZone
  <2>3. Tails' = Tails BY <2>1, <2>2 DEF Tails
  <2> QED BY <2>3 DEF Spare
<1> QED BY <1>2, <1>4, <1>5, <1>6 DEF DiskInv
LEMMA PlaceInZoneKeepsDisk ==
  ASSUME TypeInv, DiskInv, job.fid \in Fid, PlaceInZone
  PROVE  DiskInv'
<1> DEFINE z == Min(Candidates)
<1>1. /\ z \in InUse /\ z \in Zone
      /\ \E next \in job.next .. job.lba + job.n :
            /\ PutInZone(z, Placed(next), next)
            /\ zone[z].whp + Cardinality(Placed(next)) <= Usable(z)
            /\ Filling(z, Placed(next))
            /\ zone'[z].type = zone[z].type /\ zone'[z].lba = zone[z].lba
            /\ zone'[z].sealed = zone[z].sealed
  BY PlaceFills
<1> HIDE DEF z
<1>2. PICK next \in job.next .. job.lba + job.n :
        /\ PutInZone(z, Placed(next), next)
        /\ zone[z].whp + Cardinality(Placed(next)) <= Usable(z)
        /\ Filling(z, Placed(next))
        /\ zone'[z].type = zone[z].type /\ zone'[z].lba = zone[z].lba
        /\ zone'[z].sealed = zone[z].sealed
  BY <1>1
<1> DEFINE b == Placed(next)
           c == Cardinality(b)
           w == zone[z].whp
           at == zone[z].lba + w
           taken == at .. at + c - 1
<1>3. IsFiniteSet(b) /\ c \in Nat BY PlacedBlocks DEF TypeInv
<1>4. /\ home' = Written(at, c, job.fid) /\ remain' = Minus(remain, c)
      /\ UNCHANGED <<used, cmrBoundary, smrBoundary, cmrBands>>
  BY <1>2 DEF PutInZone, PlaceInZone
<1>5. Filling(z, b) /\ zone'[z].lba = zone[z].lba /\ w + c <= Usable(z) BY <1>2
<1> HIDE DEF b, c, w, at, taken
<1>6. InUse' = InUse /\ InUse \subseteq Zone /\ zone \in [Zone -> Entry]
  BY <1>4, TypeFacts DEF InUse
<1>7. /\ \A y \in Zone : SameZone(y)
      /\ \A y \in Zone : y # z => zone'[y] = zone[y]
      /\ zone'[z].whp = w + c
      /\ \A i \in 0 .. c - 1 : w + i \in Track
  BY <1>2, <1>5 DEF Filling, SameZone, c, w
<1> SUFFICES ASSUME Unconverted' PROVE (BandsApart /\ SlotsRecorded /\ remain = Cardinality(Spare))'
  BY DEF DiskInv
<1>8. BandsApart /\ SlotsRecorded /\ remain = Cardinality(Spare)
  <2>1. Unconverted BY <1>7 DEF Unconverted, SameZone
  <2> QED BY <2>1 DEF DiskInv
<1>9. \A y \in InUse : Band(y)' = Band(y) /\ Usable(y)' = Usable(y)
  BY <1>6, <1>7 DEF Band, Usable, SameZone
<1>10. BandsApart'
  <2>1. {Band(y)' : y \in {x \in InUse : zone'[x].type = 0}}
          = {Band(y) : y \in {x \in InUse : zone[x].type = 0}}
    <3>1. {x \in InUse : zone'[x].type = 0} = {x \in InUse : zone[x].type = 0}
      BY <1>6, <1>7 DEF SameZone
    <3> QED BY <1>9, <3>1
  <2>2. \A y \in InUse : zone'[y].whp <= Usable(y)
    BY <1>5, <1>6, <1>7, <1>8 DEF BandsApart
  <2>3. (\A y \in InUse :
          /\ zone[y].lba = ZoneTracks * Band(y)
          /\ zone[y].sealed <=> zone[y].type = 0
          /\ \/ zone[y].type = 0 /\ Band(y) \in 0 .. cmrBoundary - 1
             \/ zone[y].type = 1 /\ Band(y) \in smrBoundary + 1 .. BandCount - 1
          /\ zone[y].whp <= Usable(y))'
    BY <1>4, <1>6, <1>7, <1>8, <1>9, <2>2 DEF BandsApart, SameZone
  <2>4. (\A x, y \in InUse : Band(x) = Band(y) => x = y)' BY <1>6, <1>8, <1>9 DEF BandsApart
  <2> QED BY <1>4, <1>6, <1>8, <2>1, <2>3, <2>4 DEF BandsApart
<1> DEFINE base == Band(z)
<1>11. /\ base \in Zone /\ zone[z].lba = ZoneTracks * base
       /\ \A y \in InUse : Band(y) = base => y = z
  BY <1>1, <1>8, ZonePlaces
<1>12. base \in Nat /\ w \in Nat /\ ZoneTracks * base \in Nat /\ at = ZoneTracks * base + w /\ at \in Nat
  <2>1. base \in Nat BY <1>11 DEF Zone
  <2>2. w \in 0 .. ZoneTracks BY <1>1, <1>6 DEF Entry, w
  <2>3. ZoneTracks * base \in Nat BY <2>1, BandArithmetic
  <2> QED BY <1>11, <2>1, <2>2, <2>3, Sizes DEF at
<1> HIDE DEF base
<1>13. /\ SlotsRecorded'
       /\ \A l \in taken : l \in DiskStore!Lba /\ home[l] = NoFid
       /\ \A l \in DiskStore!Lba : home'[l] = IF l \in taken THEN job.fid ELSE home[l]
  <2>1. zone'[z].lba = ZoneTracks * base BY <1>5, <1>11
  <2>2. \A y \in InUse : y # z => Band(y) # base BY <1>11
  <2>3. InUse' = InUse \cup {z} BY <1>1, <1>6
  <2>4. home' = Written(zone'[z].lba + zone[z].whp, Cardinality(b), job.fid)
    BY <1>4, <1>5 DEF at, w, c
  <2> DEFINE from == zone'[z].lba + zone[z].whp
  <2>5. /\ SlotsRecorded'
        /\ \A l \in from .. from + Cardinality(b) - 1 : l \in DiskStore!Lba /\ home[l] = NoFid
        /\ home' = Claimed(from, Cardinality(b), job.fid)
    BY <1>1, <1>3, <1>5, <1>8, <1>11, <2>1, <2>2, <2>3, <2>4, SlotsTaken
  <2>6. from = at BY <1>5 DEF at, w
  <2> HIDE DEF from
  <2> QED BY <2>5, <2>6 DEF c, taken, Claimed
<1>14. taken \subseteq Spare
  <2> SUFFICES ASSUME NEW l \in taken PROVE l \notin Tails
    BY <1>13 DEF Spare
  <2> DEFINE i == l - at
             m == w + i
  <2>1. i \in 0 .. c - 1 /\ l = ZoneTracks * base + m BY <1>3, <1>12 DEF taken
  <2>2. m \in Track BY <1>7, <2>1
  <2>3. m < Usable(z)
    <3>1. Usable(z) \in Int BY Sizes DEF Usable
    <3> QED BY <1>3, <1>5, <1>12, <2>1, <3>1
  <2> HIDE DEF i, m
  <2>4. \A y \in InUse : Band(y) = base /\ zone[y].type = 0 => m < CMRTracks
    BY <1>8, <1>11, <2>3 DEF BandsApart, Usable
  <2>5. ZoneTracks * base + m \notin Tails BY <1>8, <1>11, <2>2, <2>4, TailsApart
  <2> QED BY <2>1, <2>5
<1>15. Spare' = Spare \ taken
  <2>1. Queued({0})' = Queued({0}) /\ \A y \in Queued({0}) : zone'[y].lba = zone[y].lba
    BY <1>6, <1>7 DEF Queued, SameZone
  <2>2. Tails' = Tails BY <2>1 DEF Tails
  <2>3. job.fid # NoFid BY FluidFilesAssumption
  <2>4. \A l \in DiskStore!Lba : home'[l] = NoFid <=> home[l] = NoFid /\ l \notin taken
    BY <1>13, <2>3
  <2> QED BY <2>2, <2>4 DEF Spare
<1>16. Cardinality(taken) = c BY <1>3, <1>12, CountFrom DEF taken
<1>17. remain' = Cardinality(Spare') BY <1>4, <1>8, <1>14, <1>15, <1>16, SpareTaken
<1> QED BY <1>10, <1>13, <1>17
LEMMA AllocateZoneKeepsDisk ==
  ASSUME TypeInv, DiskInv, job.fid \in Fid, AllocateZone
  PROVE  DiskInv'
<1> DEFINE h == job.hint
           base == Boundary(h)
<1>1. /\ used \in Zone /\ used \notin InUse /\ InUse' = InUse \cup {used}
      /\ zone[used].whp = 0
      /\ \E next \in job.next .. job.lba + job.n :
            /\ PutInNewZone(h, Placed(next), next)
            /\ Cardinality(Placed(next)) <= RoomOf(h)
            /\ Filling(used, Placed(next))
            /\ zone'[used].type = h
            /\ zone'[used].sealed = (h = 0)
            /\ zone'[used].lba = base * ZoneTracks
  BY AllocateFills
<1> HIDE DEF h, base
<1>2. PICK next \in job.next .. job.lba + job.n :
        /\ PutInNewZone(h, Placed(next), next)
        /\ Cardinality(Placed(next)) <= RoomOf(h)
        /\ Filling(used, Placed(next))
        /\ zone'[used].type = h
        /\ zone'[used].sealed = (h = 0)
        /\ zone'[used].lba = base * ZoneTracks
  BY <1>1
<1> DEFINE b == Placed(next)
           c == Cardinality(b)
<1>3. IsFiniteSet(b) /\ c \in Nat BY PlacedBlocks DEF TypeInv
<1>4. /\ home' = Written(base * ZoneTracks + zone[used].whp, c, job.fid)
      /\ remain' = Minus(remain, c + SealedTail(h))
      /\ cmrBands' = IF h = 0 THEN cmrBands \cup {base} ELSE cmrBands \ {base}
      /\ used' = used + 1 /\ used < BandCount
      /\ cmrBoundary' = cmrBoundary + (1 - h) /\ smrBoundary' = smrBoundary - h
      /\ h \in {0, 1}
      /\ zone \in [Zone -> Entry] /\ InUse \subseteq Zone
  BY <1>2, TypeFacts DEF PutInNewZone, AllocateZone, h, base, TypeInv, JobOK
<1>5. Filling(used, b) /\ c <= RoomOf(h) BY <1>2
<1> HIDE DEF b, c
<1>6. /\ zone' \in [Zone -> Entry] /\ \A y \in Zone : y # used => zone'[y] = zone[y]
      /\ zone'[used].whp = c /\ zone'[used].isCache = zone[used].isCache
      /\ \A i \in 0 .. c - 1 : i \in Track
  <2>1. \A i \in 0 .. c - 1 : zone[used].whp + i \in Track BY <1>5 DEF Filling, c
  <2>2. \A i \in 0 .. c - 1 : zone[used].whp + i = i BY <1>1
  <2> QED BY <1>1, <1>3, <1>5, <2>1, <2>2 DEF Filling, c
<1> SUFFICES ASSUME Unconverted' PROVE (BandsApart /\ SlotsRecorded /\ remain = Cardinality(Spare))'
  BY DEF DiskInv
<1>7. Unconverted /\ BandsApart /\ SlotsRecorded /\ remain = Cardinality(Spare)
  <2>1. Unconverted BY <1>1, <1>6 DEF Unconverted
  <2> QED BY <2>1 DEF DiskInv
\* The band that is taken is no other zone's.
<1>8. /\ base \in Zone
      /\ h = 0 => base = cmrBoundary
      /\ h = 1 => base = smrBoundary
  <2>1. /\ cmrBoundary \in 0 .. BandCount /\ smrBoundary \in -1 .. BandCount - 1
        /\ cmrBoundary + (BandCount - 1 - smrBoundary) = used
    BY <1>7, ZonePlaces
  <2>2. used \in 0 .. BandCount - 1 /\ BandCount \in Nat BY <1>1, Sizes DEF Zone
  <2> QED BY <1>4, <2>1, <2>2 DEF Boundary, base, Zone
<1>9. \A y \in InUse : Band(y) # base
  <2>1. /\ cmrBoundary \in 0 .. BandCount /\ smrBoundary \in -1 .. BandCount - 1
        /\ cmrBoundary + (BandCount - 1 - smrBoundary) = used
    BY <1>7, ZonePlaces
  <2>2. used \in 0 .. BandCount - 1 /\ BandCount \in Nat BY <1>1, Sizes DEF Zone
  <2>3. cmrBoundary <= smrBoundary BY <2>1, <2>2
  <2> SUFFICES ASSUME NEW y \in InUse, Band(y) = base PROVE FALSE
    OBVIOUS
  <2>4. base \in 0 .. cmrBoundary - 1 \/ base \in smrBoundary + 1 .. BandCount - 1
    BY <1>7 DEF BandsApart
  <2> QED BY <1>4, <1>8, <2>1, <2>3, <2>4
<1>10. /\ zone'[used].lba = ZoneTracks * base /\ base \in Nat /\ ZoneTracks * base \in Nat
       /\ \A y \in InUse' : y = used => Band(y)' = base
  <2>1. base \in Nat BY <1>8 DEF Zone
  <2>2. /\ ZoneTracks * base \in Nat /\ base * ZoneTracks = ZoneTracks * base
        /\ (base * ZoneTracks) \div ZoneTracks = base
    BY <2>1, BandArithmetic
  <2>3. \A y \in InUse' : y = used => Band(y)' = base BY <1>2, <2>2 DEF Band
  <2> QED BY <1>2, <2>1, <2>2, <2>3
<1>11. \A y \in InUse : zone'[y] = zone[y] /\ Band(y)' = Band(y) /\ Usable(y)' = Usable(y)
  BY <1>1, <1>4, <1>6 DEF Band, Usable
<1>12. BandsApart'
  <2>1. (cmrBoundary + (BandCount - 1 - smrBoundary) = used)'
    <3>1. /\ cmrBoundary \in 0 .. BandCount /\ smrBoundary \in -1 .. BandCount - 1
          /\ cmrBoundary + (BandCount - 1 - smrBoundary) = used /\ BandCount \in Nat
      BY <1>7, ZonePlaces, Sizes
    <3> QED BY <1>4, <3>1
  <2>2. ASSUME NEW y \in InUse'
        PROVE  (/\ zone[y].lba = ZoneTracks * Band(y)
                /\ zone[y].sealed <=> zone[y].type = 0
                /\ \/ zone[y].type = 0 /\ Band(y) \in 0 .. cmrBoundary - 1
                   \/ zone[y].type = 1 /\ Band(y) \in smrBoundary + 1 .. BandCount - 1
                /\ zone[y].whp <= Usable(y))'
    <3>0. cmrBoundary \in Nat /\ smrBoundary \in Int /\ BandCount \in Nat
      BY <1>7, ZonePlaces, Sizes
    <3>1. CASE y = used
      <4>1. zone'[y].lba = ZoneTracks * Band(y)' BY <1>10, <3>1
      <4>2. zone'[y].sealed <=> zone'[y].type = 0 BY <1>2, <3>1
      <4>3. \/ zone'[y].type = 0 /\ Band(y)' \in 0 .. cmrBoundary' - 1
            \/ zone'[y].type = 1 /\ Band(y)' \in smrBoundary' + 1 .. BandCount - 1
        BY <1>2, <1>4, <1>8, <1>10, <3>0, <3>1 DEF Zone
      <4>4. zone'[y].whp <= Usable(y)'
        BY <1>2, <1>4, <1>5, <1>6, <3>1 DEF Usable, RoomOf
      <4> QED BY <4>1, <4>2, <4>3, <4>4
    <3>2. CASE y # used
      <4>1. y \in InUse BY <1>1, <3>2
      <4>2. /\ zone[y].lba = ZoneTracks * Band(y)
            /\ zone[y].sealed <=> zone[y].type = 0
            /\ \/ zone[y].type = 0 /\ Band(y) \in 0 .. cmrBoundary - 1
               \/ zone[y].type = 1 /\ Band(y) \in smrBoundary + 1 .. BandCount - 1
            /\ zone[y].whp <= Usable(y)
        BY <1>7, <4>1 DEF BandsApart
      <4>3. \/ zone[y].type = 0 /\ Band(y) \in 0 .. cmrBoundary' - 1
            \/ zone[y].type = 1 /\ Band(y) \in smrBoundary' + 1 .. BandCount - 1
        BY <1>4, <3>0, <4>2
      <4> QED BY <1>11, <4>1, <4>2, <4>3
    <3> QED BY <3>1, <3>2
  <2>3. (\A x, y \in InUse : Band(x) = Band(y) => x = y)'
    BY <1>1, <1>7, <1>9, <1>10, <1>11 DEF BandsApart
  <2>4. cmrBands' = {Band(y)' : y \in {x \in InUse' : zone'[x].type = 0}}
    <3>1. cmrBands = {Band(y) : y \in {x \in InUse : zone[x].type = 0}} BY <1>7 DEF BandsApart
    <3>2. base \notin cmrBands BY <1>9, <3>1
    <3>3. CASE h = 0
      <4>1. {x \in InUse' : zone'[x].type = 0} = {x \in InUse : zone[x].type = 0} \cup {used}
        BY <1>1, <1>2, <1>11, <3>3
      <4>2. \A y \in {x \in InUse : zone[x].type = 0} : Band(y)' = Band(y) BY <1>11
      <4> HIDE DEF h
      <4>3. cmrBands' = cmrBands \cup {base} BY <1>4, <3>3
      <4>4. \A y \in {used} : Band(y)' = base BY <1>1, <1>10
      <4> QED BY <3>1, <4>1, <4>2, <4>3, <4>4
    <3>4. CASE h = 1
      <4>1. {x \in InUse' : zone'[x].type = 0} = {x \in InUse : zone[x].type = 0}
        BY <1>1, <1>2, <1>11, <3>4
      <4>2. \A y \in {x \in InUse : zone[x].type = 0} : Band(y)' = Band(y) BY <1>11
      <4>3. cmrBands' = cmrBands BY <1>4, <3>2, <3>4
      <4> QED BY <3>1, <4>1, <4>2, <4>3
    <3> QED BY <1>4, <3>3, <3>4
  <2> QED BY <2>1, <2>2, <2>3, <2>4 DEF BandsApart
<1> DEFINE first == ZoneTracks * base
           taken == first .. first + c - 1
           tail == IF h = 0 THEN first + CMRTracks .. first + (ZoneTracks - 1) ELSE {}
<1> HIDE DEF first
<1>13. first \in Nat /\ zone'[used].lba + zone[used].whp = first BY <1>1, <1>10 DEF first
<1>14. /\ SlotsRecorded'
       /\ \A l \in taken : l \in DiskStore!Lba /\ home[l] = NoFid
       /\ \A l \in DiskStore!Lba : home'[l] = IF l \in taken THEN job.fid ELSE home[l]
  <2>1. \A y \in InUse : y # used => Band(y) # base BY <1>9
  <2>2. home' = Written(zone'[used].lba + zone[used].whp, Cardinality(b), job.fid)
    BY <1>2, <1>4 DEF c
  <2> DEFINE from == zone'[used].lba + zone[used].whp
  <2>3. /\ SlotsRecorded'
        /\ \A l \in from .. from + Cardinality(b) - 1 : l \in DiskStore!Lba /\ home[l] = NoFid
        /\ home' = Claimed(from, Cardinality(b), job.fid)
    BY <1>1, <1>3, <1>5, <1>7, <1>8, <1>10, <2>1, <2>2, SlotsTaken
  <2>4. from = first BY <1>13
  <2> HIDE DEF from
  <2> QED BY <2>3, <2>4 DEF c, Claimed
\* What is taken was spare: the tracks written, and the tail of a CMR zone.
<1>15. \A m \in Track : first + m \in DiskStore!Lba /\ first + m \notin Tails
  <2>1. \A m \in Track : first + m \in DiskStore!Lba BY <1>8, BandArithmetic DEF first
  <2>2. ASSUME NEW m \in Track PROVE first + m \notin Tails
    <3>1. \A y \in InUse : Band(y) = base /\ zone[y].type = 0 => m < CMRTracks BY <1>9
    <3> QED BY <1>7, <1>8, <3>1, TailsApart DEF first
  <2> QED BY <2>1, <2>2
<1>16. \A m \in Track : home[first + m] = NoFid
  <2> SUFFICES ASSUME NEW m \in Track, home[first + m] # NoFid PROVE FALSE
    OBVIOUS
  <2>1. PICK y \in InUse : \E k \in 0 .. zone[y].whp - 1 : first + m = zone[y].lba + k
    BY <1>7, <1>15 DEF SlotsRecorded
  <2>2. PICK k \in 0 .. zone[y].whp - 1 : first + m = zone[y].lba + k BY <2>1
  <2> DEFINE d == Band(y)
  <2>3. d \in Nat /\ zone[y].lba = ZoneTracks * d BY <1>7, ZonePlaces DEF Zone
  <2>4. k \in Track
    <3>1. zone[y].whp \in 0 .. ZoneTracks BY <1>4 DEF Entry
    <3> QED BY <3>1, Sizes DEF Track
  <2> HIDE DEF d
  <2>5. ZoneTracks * base + m = ZoneTracks * d + k BY <2>2, <2>3 DEF first
  <2>6. base = d BY <1>10, <2>3, <2>4, <2>5, BandArithmetic
  <2> QED BY <1>9, <2>6 DEF d
<1>17. /\ \A l \in taken \cup tail : \E m \in Track : l = first + m
       /\ taken \cap tail = {}
  <2>1. c <= CMRTracks \/ h # 0 BY <1>5 DEF RoomOf
  <2>2. \A l \in taken : l - first \in 0 .. c - 1 /\ l = first + (l - first) BY <1>3, <1>13
  <2>3. \A l \in tail : l - first \in CMRTracks .. ZoneTracks - 1 /\ l = first + (l - first)
    BY <1>13, Sizes
  <2>4. \A l \in tail : l - first \in Track BY <2>3, Sizes DEF Track
  <2>5. \A l \in taken : l - first \in Track BY <1>6, <2>2
  <2>6. taken \cap tail = {}
    <3>1. CASE h = 0 BY <1>3, <1>13, <2>1, <3>1, Sizes
    <3>2. CASE h # 0 BY <3>2
    <3> QED BY <3>1, <3>2
  <2> HIDE DEF taken, tail
  <2> QED BY <2>2, <2>3, <2>4, <2>5, <2>6
<1>18. Cardinality(taken \cup tail) = c + SealedTail(h)
  <2>1. Cardinality(taken) = c BY <1>3, <1>13, CountFrom
  <2>2. IsFiniteSet(taken) BY <1>3, <1>13, FS_Interval
  <2>3. IsFiniteSet(tail) /\ Cardinality(tail) = SealedTail(h)
    <3>1. CASE h = 0
      <4> DEFINE a == first + CMRTracks
                 n == ZoneTracks - CMRTracks
      <4>1. a \in Nat /\ n \in Nat /\ a + n - 1 = first + (ZoneTracks - 1) BY <1>13, Sizes
      <4>2. tail = a .. first + (ZoneTracks - 1) BY <3>1
      <4> HIDE DEF a, n
      <4>3. tail = a .. a + n - 1 BY <4>1, <4>2
      <4>4. Cardinality(a .. a + n - 1) = n BY <4>1, CountFrom
      <4>5. IsFiniteSet(a .. a + n - 1) BY <4>1, FS_Interval
      <4> QED BY <3>1, <4>3, <4>4, <4>5 DEF SealedTail, n
    <3>2. CASE h # 0 BY <3>2, FS_EmptySet DEF SealedTail
    <3> QED BY <3>1, <3>2
  <2> HIDE DEF taken, tail
  <2> QED BY <1>17, <2>1, <2>2, <2>3, DisjointCount
<1>19. taken \cup tail \subseteq Spare
  <2> HIDE DEF taken, tail
  <2> QED BY <1>15, <1>16, <1>17 DEF Spare
<1>20. Tails' = Tails \cup tail
  <2>1. CASE h = 0
    <3>1. Queued({0})' = Queued({0}) \cup {used}
      BY <1>1, <1>2, <1>6, <1>7, <1>11, <2>1 DEF Queued, Unconverted
    <3>2. \A y \in Queued({0}) : zone'[y].lba = zone[y].lba BY <1>11 DEF Queued
    <3>3. zone'[used].lba = first BY <1>10 DEF first
    <3>4. \A l \in tail : l \in DiskStore!Lba /\ \E k \in CMRTracks .. ZoneTracks - 1 : l = first + k
      <4>1. \A l \in tail : l - first \in CMRTracks .. ZoneTracks - 1 /\ l = first + (l - first)
        BY <1>13, Sizes
      <4>2. \A l \in tail : l \in DiskStore!Lba
        <5> HIDE DEF taken, tail
        <5> QED BY <1>15, <1>17
      <4> HIDE DEF tail
      <4> QED BY <4>1, <4>2
    <3>5. \A k \in CMRTracks .. ZoneTracks - 1 : first + k \in tail BY <1>13, <2>1, Sizes
    <3> HIDE DEF tail
    <3> QED BY <3>1, <3>2, <3>3, <3>4, <3>5 DEF Tails
  <2>2. CASE h # 0
    <3>1. Queued({0})' = Queued({0})
      BY <1>1, <1>2, <1>6, <1>11, <2>2 DEF Queued
    <3>2. \A y \in Queued({0}) : zone'[y].lba = zone[y].lba BY <1>11 DEF Queued
    <3>3. Tails' = Tails BY <3>1, <3>2 DEF Tails
    <3> QED BY <2>2, <3>3
  <2> QED BY <2>1, <2>2
<1>21. Spare' = Spare \ (taken \cup tail)
  <2>1. job.fid # NoFid BY FluidFilesAssumption
  <2> HIDE DEF taken, tail
  <2>2. \A l \in DiskStore!Lba : home'[l] = NoFid <=> home[l] = NoFid /\ l \notin taken
    BY <1>14, <2>1
  <2> QED BY <1>20, <2>2 DEF Spare
<1>22. remain' = Cardinality(Spare')
  <2> HIDE DEF taken, tail
  <2> QED BY <1>4, <1>7, <1>18, <1>19, <1>21, SpareTaken
<1> QED BY <1>12, <1>14, <1>22
LEMMA UpdateKeepsDisk ==
  ASSUME TypeInv, DiskInv, NEW r \in Lines, WriteLine(r)
  PROVE  DiskInv'
<1>1. /\ UNCHANGED <<used, cmrBoundary, smrBoundary, cmrBands, remain>>
      /\ zone \in [Zone -> Entry] /\ home \in [DiskStore!Lba -> Owner] /\ InUse \subseteq Zone
  BY TypeFacts DEF WriteLine, TypeInv, FluidTypeOK
<1>2. CASE UNCHANGED <<home, zone>> BY <1>1, <1>2, SameDisk DEF SameZone
<1>3. CASE ~ Unconverted
  <2>1. ~ Unconverted'
    <3>1. PICK z \in Zone : zone[z].isCache BY <1>3 DEF Unconverted
    <3>2. zone'[z].isCache
      <4>1. CASE zone' = zone BY <3>1, <4>1
      <4>2. CASE \E fid, b : UpdateInCaches(fid, b)
        <5>1. PICK fid, b : UpdateInCaches(fid, b) BY <4>2
        <5>2. zone'[z] = IF z \in OpenCaches THEN Appended(z, fid, b) ELSE zone[z]
          BY <5>1 DEF UpdateInCaches
        <5>3. Appended(z, fid, b).isCache = zone[z].isCache BY <1>1 DEF Appended, Entry
        <5> QED BY <3>1, <5>2, <5>3
      <4> QED BY <4>1, <4>2
              DEF WriteLine, FreshLine, UpdateLine, Update, UpdateInPlace
    <3> QED BY <3>2 DEF Unconverted
  <2> QED BY <2>1 DEF DiskInv
\* The track that is written again is held by the file already.
<1>4. CASE Unconverted /\ UpdateLine(r) /\ Update(r.fid, Min(Known(r)))
  <2> DEFINE b == Min(Known(r))
             at == CopyToUpdate(r.fid, b)
             l == zone[at[1]].lba + at[2]
  <2>1. Copies(r.fid, b) # {}
    <3>1. r.lba \in Nat /\ r.n \in Nat BY FluidLinesAssumption
    <3>2. Known(r) \in SUBSET Nat /\ Known(r) # {} BY <1>4, <3>1 DEF Known, UpdateLine
    <3> QED BY <3>2, MinNatural DEF Known
  <2>2. /\ at[1] \in InUse /\ at[1] \in Zone /\ at[2] \in Track
        /\ at[2] < zone[at[1]].whp /\ zone[at[1]].blocks[at[2]] = [fid |-> r.fid, lba |-> b]
    BY <2>1, PlacesToUpdate
  <2>3. BandsApart /\ SlotsRecorded BY <1>4 DEF DiskInv
  <2>4. home[l] = r.fid /\ l \in DiskStore!Lba /\ l \in Nat
    <3>1. at[2] \in 0 .. zone[at[1]].whp - 1
      <4>1. zone[at[1]].whp \in Nat BY <2>2, <2>3, ZonePlaces
      <4> QED BY <2>2, <4>1, Sizes DEF Track
    <3>2. home[l] = r.fid BY <2>2, <2>3, <3>1 DEF SlotsRecorded
    <3>3. Band(at[1]) \in Zone /\ zone[at[1]].lba = ZoneTracks * Band(at[1])
      BY <2>2, <2>3, ZonePlaces
    <3>4. l \in DiskStore!Lba BY <2>2, <3>3, BandArithmetic
    <3> QED BY <3>2, <3>4, Sizes DEF DiskStore!Lba
  <2> HIDE DEF at, b, l
  <2>5. CASE UpdateInPlace(at, r.fid)
    <3>1. home' = Written(l, 1, r.fid) /\ zone' = zone BY <2>5 DEF UpdateInPlace, l
    <3>2. \A k \in DiskStore!Lba : k \in DiskStore!Blocks(l, 1) => k = l
      <4>1. \A k \in Int : k \in l .. l + 1 - 1 => k = l BY <2>4
      <4> QED BY <4>1, Sizes DEF DiskStore!Blocks, DiskStore!Lba
    <3>3. home' = home BY <1>1, <2>4, <3>1, <3>2 DEF Written
    <3> QED BY <1>2, <3>1, <3>3
  <2>6. CASE UpdateInCaches(r.fid, b)
    <3>1. OpenCaches = {} BY <1>1, <1>4 DEF Unconverted, OpenCaches
    <3>2. zone' = zone BY <1>1, <2>6, <3>1 DEF UpdateInCaches
    <3>3. home' = DiskStore!Passed({}, r.fid)
      <4>1. home' = LET tracks == {zone[z].lba + zone[z].whp : z \in {}}
                    IN  DiskStore!Passed({k \in tracks : home[k] \in {NoFid, r.fid}}, r.fid)
        BY <2>6, <3>1 DEF UpdateInCaches
      <4>2. {k \in {zone[z].lba + zone[z].whp : z \in {}} : home[k] \in {NoFid, r.fid}} = {}
        OBVIOUS
      <4> QED BY <4>1, <4>2
    <3>4. home' = home BY <1>1, <3>3 DEF DiskStore!Passed
    <3> QED BY <1>2, <3>2, <3>4
  <2> QED BY <1>4, <2>5, <2>6 DEF Update, b, at
<1> QED BY <1>2, <1>3, <1>4 DEF WriteLine, FreshLine, UpdateLine

\* A conversion sets up a cache zone, and no zone ever loses that mark.
LEMMA ConversionKeepsDisk ==
  ASSUME TypeInv, ConvertRound \/ RewriteRun
  PROVE  DiskInv'
<1>1. CASE ConvertRound
  <2>1. TypeInv' BY <1>1, ConvertRoundKeepsTypes
  <2>2. ~ Unconverted' BY <1>1, <2>1 DEF TypeInv, RoundsOK, ConvertRound
  <2> QED BY <2>2 DEF DiskInv
<1>2. CASE RewriteRun
  <2>1. ~ Unconverted' BY <1>2 DEF TypeInv, RoundsOK, RewriteRun, Unconverted
  <2> QED BY <2>1 DEF DiskInv
<1> QED BY <1>1, <1>2

LEMMA CountZoneKeepsDisk ==
  ASSUME TypeInv, DiskInv, CountZone
  PROVE  DiskInv'
<1>1. zone' \in {zone, [zone EXCEPT ![Min(Hits)].isFull = FALSE]} BY DEF CountZone
<1>2. zone \in [Zone -> Entry] BY TypeFacts
<1> DEFINE m == Min(Hits)
<1> HIDE DEF m
<1>3. zone' \in {zone, [zone EXCEPT ![m].isFull = FALSE]} BY <1>1 DEF m
<1>4. \A z \in Zone : /\ SameZone(z) /\ zone'[z].whp = zone[z].whp
                      /\ zone'[z].blocks = zone[z].blocks
  BY <1>2, <1>3 DEF SameZone, Entry
<1>5. UNCHANGED <<home, used, cmrBoundary, smrBoundary, cmrBands, remain>> BY DEF CountZone
<1> QED BY <1>4, <1>5, SameDisk

LEMMA OtherStepsKeepDisk ==
  ASSUME TypeInv, DiskInv,
         UNCHANGED <<home, zone, used, cmrBoundary, smrBoundary, cmrBands, remain>>
  PROVE  DiskInv'
BY SameDisk DEF SameZone

LEMMA InitDisk == Init => DiskInv
<1> SUFFICES ASSUME Init PROVE BandsApart /\ SlotsRecorded /\ remain = Cardinality(Spare)
  BY DEF DiskInv
<1>1. /\ used = 0 /\ cmrBoundary = 0 /\ smrBoundary = BandCount - 1 /\ cmrBands = {}
      /\ remain = MaxBlock /\ home = [l \in DiskStore!Lba |-> NoFid]
  BY DEF Init
<1>2. InUse = {} BY <1>1 DEF InUse
<1>3. BandsApart BY <1>1, <1>2, Sizes DEF BandsApart
<1>4. SlotsRecorded BY <1>1, <1>2 DEF SlotsRecorded
<1>5. Tails = {} BY <1>2 DEF Tails, Queued
<1>6. Spare = DiskStore!Lba BY <1>1, <1>5 DEF Spare
<1>7. Cardinality(DiskStore!Lba) = MaxBlock BY Sizes, FirstNumbers DEF DiskStore!Lba
<1> QED BY <1>1, <1>3, <1>4, <1>6, <1>7

\* A write is of a file.
WriterKnown == pc \in Cleaning \cup {"queue", "place"} => job.fid \in Fid

LEMMA WriterInvariance == Spec => []WriterKnown
<1>1. Init => WriterKnown BY DEF Init, WriterKnown, Cleaning
<1>2. WriterKnown /\ [Next]_vars => WriterKnown'
  <2> SUFFICES ASSUME WriterKnown, [Next]_vars PROVE WriterKnown' OBVIOUS
  <2> USE DEF WriterKnown, Cleaning
  <2>1. ASSUME NEW r \in Lines, CountLine(r) PROVE WriterKnown' BY <2>1 DEF CountLine
  <2>2. ASSUME NEW r \in Lines, WriteLine(r) PROVE WriterKnown'
    <3>1. r.fid \in Fid BY FluidLinesAssumption
    <3>2. \E skip : job' = Job(r, skip) BY <2>2 DEF WriteLine, FreshLine, UpdateLine
    <3> QED BY <3>1, <3>2 DEF Job
  <2>3. CASE OtherLine BY <2>3 DEF OtherLine
  <2>4. CASE EndOfTrace BY <2>4 DEF EndOfTrace
  <2>5. CASE CountZone BY <2>5 DEF CountZone
  <2>6. CASE EndCount \/ EndWrite BY <2>6 DEF EndCount, EndWrite
  <2>7. CASE BuildQueues BY <2>7 DEF BuildQueues
  <2>8. CASE ZoneSwapping \/ NothingToSwap BY <2>8 DEF ZoneSwapping, NothingToSwap
  <2>9. CASE SortCMR \/ EndConversion BY <2>9 DEF SortCMR, EndConversion
  <2>10. CASE StartConversion \/ RoundUndefined BY <2>10 DEF StartConversion, RoundUndefined
  <2>11. CASE ConvertRound BY <2>11 DEF ConvertRound
  <2>12. CASE RewriteRun BY <2>12 DEF RewriteRun
  <2>13. CASE ConvertBack BY <2>13 DEF ConvertBack
  <2>14. CASE EndCleaning BY <2>14 DEF EndCleaning
  <2>15. CASE PlaceInZone
    <3>1. pc = "place" /\ \E next : job' = [job EXCEPT !.next = next]
      BY <2>15 DEF PlaceInZone, PutInZone
    <3> QED BY <3>1
  <2>16. CASE AllocateZone
    <3>1. pc = "place" /\ \E next : job' = [job EXCEPT !.next = next]
      BY <2>16 DEF AllocateZone, PutInNewZone
    <3> QED BY <3>1
  <2>17. CASE UNCHANGED vars BY <2>17 DEF vars
  <2> QED BY <2>1, <2>2, <2>3, <2>4, <2>5, <2>6, <2>7, <2>8, <2>9, <2>10, <2>11,
             <2>12, <2>13, <2>14, <2>15, <2>16, <2>17 DEF Next, Step
<1> QED BY <1>1, <1>2, PTL DEF Spec

LEMMA DiskInvariance == Spec => []DiskInv
<1>1. TypeInv /\ WriterKnown /\ DiskInv /\ [Next]_vars => DiskInv'
  <2> SUFFICES ASSUME TypeInv, WriterKnown, DiskInv, [Next]_vars PROVE DiskInv' OBVIOUS
  <2>1. CASE \E r \in Lines : WriteLine(r) BY <2>1, UpdateKeepsDisk
  <2>2. CASE CountZone BY <2>2, CountZoneKeepsDisk
  <2>3. CASE ConvertRound \/ RewriteRun BY <2>3, ConversionKeepsDisk
  <2>4. CASE PlaceInZone
    <3>1. job.fid \in Fid BY <2>4 DEF PlaceInZone, WriterKnown
    <3> QED BY <2>4, <3>1, PlaceInZoneKeepsDisk
  <2>5. CASE AllocateZone
    <3>1. job.fid \in Fid BY <2>5 DEF AllocateZone, WriterKnown
    <3> QED BY <2>5, <3>1, AllocateZoneKeepsDisk
  <2>6. CASE \/ \E r \in Lines : CountLine(r)
             \/ OtherLine \/ EndOfTrace \/ EndCount \/ EndWrite
    <3>1. UNCHANGED <<home, zone, used, cmrBoundary, smrBoundary, cmrBands, remain>>
      BY <2>6 DEF CountLine, OtherLine, EndOfTrace, EndCount, EndWrite
    <3> QED BY <3>1, OtherStepsKeepDisk
  <2>7. CASE \/ BuildQueues \/ ZoneSwapping \/ NothingToSwap \/ SortCMR \/ StartConversion
             \/ RoundUndefined \/ EndConversion \/ ConvertBack \/ EndCleaning \/ UNCHANGED vars
    <3>1. UNCHANGED <<home, zone, used, cmrBoundary, smrBoundary, cmrBands, remain>>
      BY <2>7 DEF BuildQueues, ZoneSwapping, NothingToSwap, SortCMR, StartConversion,
                  RoundUndefined, EndConversion, ConvertBack, EndCleaning, vars
    <3> QED BY <3>1, OtherStepsKeepDisk
  <2> QED BY <2>1, <2>2, <2>3, <2>4, <2>5, <2>6, <2>7 DEF Next, Step
<1> QED BY <1>1, InitDisk, TypeInvariance, WriterInvariance, PTL DEF Spec
\* The records of the zones, counted.
WriteHeads == [z \in Zone |-> zone[z].whp]
Slots == Units(WriteHeads, InUse)

LEMMA HeadsIsCount ==
  ASSUME TypeInv
  PROVE  Heads = Cardinality(Slots) /\ IsFiniteSet(Slots)
<1> DEFINE f == WriteHeads
           S == InUse
           it == CHOOSE it : IsSum(it, f, S)
<1>0. zone \in [Zone -> Entry] /\ S \subseteq Zone /\ IsFiniteSet(S) BY TypeFacts
<1>1. \A z \in S : f[z] \in Nat BY <1>0, Sizes DEF Entry, WriteHeads
<1>2. Heads = it[S]
  <2> DEFINE jt == CHOOSE jt : jt = [s \in SUBSET S |->
                       IF s = {} THEN 0
                       ELSE zone[CHOOSE x \in s : TRUE].whp + jt[s \ {CHOOSE x \in s : TRUE}]]
  <2>1. Heads = jt[S] BY DEF Heads, MapThenSumSet, MapThenFoldSet
  <2>2. ASSUME NEW g, NEW s \in SUBSET S
        PROVE  (IF s = {} THEN 0
                ELSE zone[CHOOSE x \in s : TRUE].whp + g[s \ {CHOOSE x \in s : TRUE}])
               = (IF s = {} THEN 0
                  ELSE f[CHOOSE x \in s : TRUE] + g[s \ {CHOOSE x \in s : TRUE}])
    <3>1. s # {} => (CHOOSE x \in s : TRUE) \in Zone BY <1>0
    <3> QED BY <3>1 DEF WriteHeads
  <2>3. \A g : g = [s \in SUBSET S |->
                       IF s = {} THEN 0
                       ELSE zone[CHOOSE x \in s : TRUE].whp + g[s \ {CHOOSE x \in s : TRUE}]]
               <=> IsSum(g, f, S)
    <3> HIDE DEF f
    <3> QED BY <2>2 DEF IsSum
  <2>4. jt = it BY <2>3
  <2> QED BY <2>1, <2>4
<1> HIDE DEF f, S
<1>3. IsSum(it, f, S) BY <1>0, <1>1, SumExists
<1> HIDE DEF it
<1>4. it[S] = Cardinality(Units(f, S)) BY <1>0, <1>1, <1>3, SumIsCount
<1>5. IsFiniteSet(Units(f, S)) BY <1>0, <1>1, UnitsFinite
<1> QED BY <1>2, <1>4, <1>5 DEF f, S, Slots

LEMMA SlotsAre ==
  ASSUME TypeInv
  PROVE  Slots = {u \in InUse \X Track : u[2] < zone[u[1]].whp}
<1>1. /\ zone \in [Zone -> Entry] /\ InUse \subseteq Zone /\ Track \subseteq Nat
  BY TypeFacts, Sizes DEF Track
<1>2. ASSUME NEW u \in InUse \X Nat, u[2] < WriteHeads[u[1]]
      PROVE  u \in InUse \X Track /\ u[2] < zone[u[1]].whp
  <2>1. u = <<u[1], u[2]>> /\ u[1] \in InUse /\ u[2] \in Nat OBVIOUS
  <2>2. WriteHeads[u[1]] = zone[u[1]].whp /\ zone[u[1]].whp \in 0 .. ZoneTracks
    BY <1>1, <2>1 DEF Entry, WriteHeads
  <2>3. u[2] \in Track BY <1>2, <2>1, <2>2, Sizes DEF Track
  <2> QED BY <1>2, <2>1, <2>2, <2>3
<1>3. ASSUME NEW u \in InUse \X Track, u[2] < zone[u[1]].whp
      PROVE  u \in InUse \X Nat /\ u[2] < WriteHeads[u[1]]
  BY <1>1, <1>3 DEF WriteHeads
<1> QED BY <1>2, <1>3 DEF Slots, Units

\* Up to the first conversion the zones record each track held, and once.
LEMMA HeldTracks ==
  ASSUME TypeInv, BandsApart, SlotsRecorded
  PROVE  Cardinality({l \in DiskStore!Lba : home[l] # NoFid}) = Heads
<1> DEFINE held == {l \in DiskStore!Lba : home[l] # NoFid}
           f == [u \in Slots |-> zone[u[1]].lba + u[2]]
<1>1. ASSUME NEW u \in Slots
      PROVE  /\ u[1] \in InUse /\ u[2] \in Track /\ u = <<u[1], u[2]>>
             /\ u[2] \in 0 .. zone[u[1]].whp - 1
             /\ Band(u[1]) \in Zone /\ Band(u[1]) \in Nat
             /\ f[u] = ZoneTracks * Band(u[1]) + u[2]
  <2>1. u[1] \in InUse /\ u[2] \in Track /\ u = <<u[1], u[2]>> /\ u[2] < zone[u[1]].whp
    BY SlotsAre
  <2>2. Band(u[1]) \in Zone /\ zone[u[1]].lba = ZoneTracks * Band(u[1])
        /\ zone[u[1]].whp \in Nat
    BY <2>1, ZonePlaces
  <2> QED BY <2>1, <2>2, Sizes DEF Track, Zone
<1>2. f \in [Slots -> held]
  <2> SUFFICES ASSUME NEW u \in Slots PROVE f[u] \in held
    OBVIOUS
  <2>1. f[u] \in DiskStore!Lba BY <1>1, BandArithmetic
  <2>2. home[f[u]] # NoFid BY <1>1, FluidFilesAssumption DEF SlotsRecorded
  <2> QED BY <2>1, <2>2
<1>3. ASSUME NEW u \in Slots, NEW v \in Slots, f[u] = f[v] PROVE u = v
  <2> DEFINE a == Band(u[1])
             b == Band(v[1])
  <2>1. /\ a \in Nat /\ b \in Nat /\ u[2] \in Track /\ v[2] \in Track
        /\ ZoneTracks * a + u[2] = ZoneTracks * b + v[2]
    BY <1>1, <1>3
  <2> HIDE DEF a, b
  <2>2. a = b /\ u[2] = v[2] BY <2>1, BandArithmetic
  <2>3. u[1] = v[1] BY <1>1, <2>2, ZonePlaces DEF a, b
  <2> QED BY <1>1, <2>2, <2>3
<1>4. ASSUME NEW l \in held PROVE \E u \in Slots : f[u] = l
  <2>1. PICK z \in InUse : \E k \in 0 .. zone[z].whp - 1 : l = zone[z].lba + k
    BY DEF SlotsRecorded
  <2>2. PICK k \in 0 .. zone[z].whp - 1 : l = zone[z].lba + k BY <2>1
  <2>3. zone[z].whp \in 0 .. ZoneTracks BY TypeFacts DEF Entry
  <2>4. <<z, k>> \in Slots BY <2>3, Sizes, SlotsAre DEF Track
  <2> QED BY <2>2, <2>4
<1> HIDE DEF f, held
<1>5. Cardinality(held) = Cardinality(Slots) BY <1>2, <1>3, <1>4, HeadsIsCount, SameCount
<1> QED BY <1>5, HeadsIsCount DEF held

LEMMA TailTracks ==
  ASSUME TypeInv, BandsApart
  PROVE  /\ IsFiniteSet(Tails)
         /\ Cardinality(Tails) = (ZoneTracks - CMRTracks) * Cardinality(Queued({0}))
<1> DEFINE Q == Queued({0})
           K == CMRTracks .. ZoneTracks - 1
           f == [u \in Q \X K |-> zone[u[1]].lba + u[2]]
<1>1. ASSUME NEW u \in Q \X K
      PROVE  /\ u[1] \in Q /\ u[1] \in InUse /\ u[2] \in K /\ u[2] \in Track /\ u = <<u[1], u[2]>>
             /\ Band(u[1]) \in Zone /\ Band(u[1]) \in Nat
             /\ f[u] = ZoneTracks * Band(u[1]) + u[2]
  <2>1. u[1] \in Q /\ u[2] \in K /\ u = <<u[1], u[2]>> OBVIOUS
  <2>2. u[1] \in InUse BY <2>1, TypeFacts
  <2>3. u[2] \in Track BY <2>1, Sizes DEF Track
  <2>4. Band(u[1]) \in Zone /\ zone[u[1]].lba = ZoneTracks * Band(u[1]) BY <2>2, ZonePlaces
  <2> QED BY <2>1, <2>2, <2>3, <2>4 DEF Zone
<1>2. f \in [Q \X K -> Tails]
  <2> SUFFICES ASSUME NEW u \in Q \X K PROVE f[u] \in Tails
    OBVIOUS
  <2>1. f[u] \in DiskStore!Lba BY <1>1, BandArithmetic
  <2> QED BY <1>1, <2>1 DEF Tails
<1>3. ASSUME NEW u \in Q \X K, NEW v \in Q \X K, f[u] = f[v] PROVE u = v
  <2> DEFINE a == Band(u[1])
             b == Band(v[1])
  <2>1. /\ a \in Nat /\ b \in Nat /\ u[2] \in Track /\ v[2] \in Track
        /\ ZoneTracks * a + u[2] = ZoneTracks * b + v[2]
    BY <1>1, <1>3
  <2> HIDE DEF a, b
  <2>2. a = b /\ u[2] = v[2] BY <2>1, BandArithmetic
  <2>3. u[1] = v[1] BY <1>1, <2>2, ZonePlaces DEF a, b
  <2> QED BY <1>1, <2>2, <2>3
<1>4. ASSUME NEW l \in Tails PROVE \E u \in Q \X K : f[u] = l
  <2>1. PICK z \in Q, k \in K : l = zone[z].lba + k BY DEF Tails
  <2>2. <<z, k>> \in Q \X K OBVIOUS
  <2> QED BY <2>1, <2>2
<1>5. IsFiniteSet(Q) /\ Cardinality(Q) \in Nat BY TypeFacts, FS_CardinalityType
<1>6. IsFiniteSet(K) /\ Cardinality(K) = ZoneTracks - CMRTracks
  <2>1. /\ CMRTracks \in Nat /\ ZoneTracks - CMRTracks \in Nat
        /\ CMRTracks + (ZoneTracks - CMRTracks) - 1 = ZoneTracks - 1
    BY Sizes
  <2> DEFINE n == ZoneTracks - CMRTracks
  <2>2. K = CMRTracks .. CMRTracks + n - 1 BY <2>1
  <2>3. IsFiniteSet(K) BY Sizes, FS_Interval
  <2> HIDE DEF n, K
  <2>4. n \in Nat BY <2>1 DEF n
  <2>5. Cardinality(CMRTracks .. CMRTracks + n - 1) = n BY <2>1, <2>4, CountFrom
  <2> QED BY <2>2, <2>3, <2>5 DEF n
<1> HIDE DEF f, Q, K
<1>7. IsFiniteSet(Q \X K) /\ Cardinality(Q \X K) = Cardinality(Q) * Cardinality(K)
  BY <1>5, <1>6, FS_Product
<1>8. IsFiniteSet(Tails) /\ Cardinality(Tails) = Cardinality(Q \X K)
  BY <1>2, <1>3, <1>4, <1>7, SameCount
<1>9. ZoneTracks - CMRTracks \in Nat BY Sizes
<1> DEFINE a == Cardinality(Q)
           b == ZoneTracks - CMRTracks
<1>10. a * b = b * a
  <2>1. a \in Nat /\ b \in Nat BY <1>5, <1>9
  <2> HIDE DEF a, b
  <2> QED BY <2>1
<1> QED BY <1>6, <1>7, <1>8, <1>10 DEF Q
LEMMA DiskInvRecords ==
  ASSUME TypeInv, DiskInv
  PROVE  RecordsOnDisk
<1> SUFFICES ASSUME Unconverted
             PROVE  /\ \A z \in InUse : \A k \in 0 .. zone[z].whp - 1 :
                          home[zone[z].lba + k] = zone[z].blocks[k].fid
                    /\ Cardinality({l \in DiskStore!Lba : home[l] # NoFid}) = Heads
                    /\ cmrBands = {zone[z].lba \div ZoneTracks :
                                     z \in {y \in InUse : zone[y].type = 0}}
  BY DEF RecordsOnDisk
<1>1. BandsApart /\ SlotsRecorded BY DEF DiskInv
<1>2. Cardinality({l \in DiskStore!Lba : home[l] # NoFid}) = Heads BY <1>1, HeldTracks
<1>3. \A z \in InUse : \A k \in 0 .. zone[z].whp - 1 :
         home[zone[z].lba + k] = zone[z].blocks[k].fid
  BY <1>1 DEF SlotsRecorded
<1>4. cmrBands = {zone[z].lba \div ZoneTracks : z \in {y \in InUse : zone[y].type = 0}}
  BY <1>1 DEF BandsApart, Band
<1> QED BY <1>2, <1>3, <1>4

LEMMA DiskInvRemain ==
  ASSUME TypeInv, DiskInv
  PROVE  RemainIsFree
<1> SUFFICES ASSUME Unconverted
             PROVE  remain = Cardinality({l \in DiskStore!Lba : home[l] = NoFid})
                               - (ZoneTracks - CMRTracks) * Cardinality(Queued({0}))
  BY DEF RemainIsFree
<1> DEFINE free == {l \in DiskStore!Lba : home[l] = NoFid}
<1>1. BandsApart /\ SlotsRecorded /\ remain = Cardinality(Spare) BY DEF DiskInv
\* Nothing is ever written to the tracks that a CMR zone cannot use.
<1>2. Tails \subseteq free
  <2> SUFFICES ASSUME NEW l \in Tails, home[l] # NoFid PROVE FALSE
    BY DEF Tails
  <2>1. l \in DiskStore!Lba BY DEF Tails
  <2>2. PICK y \in InUse : \E k \in 0 .. zone[y].whp - 1 : l = zone[y].lba + k
    BY <1>1, <2>1 DEF SlotsRecorded
  <2>3. PICK k \in 0 .. zone[y].whp - 1 : l = zone[y].lba + k BY <2>2
  <2> DEFINE base == Band(y)
  <2>4. base \in Zone /\ zone[y].lba = ZoneTracks * base /\ zone[y].whp <= Usable(y)
        /\ zone[y].whp \in Nat
    BY <1>1, ZonePlaces
  <2>5. k \in Track /\ k < Usable(y)
    <3>1. Usable(y) \in 1 .. ZoneTracks BY TypeFacts, UsableIsRoom
    <3> QED BY <2>3, <2>4, <3>1, Sizes DEF Track
  <2>6. \A x \in InUse : Band(x) = base /\ zone[x].type = 0 => k < CMRTracks
    <3>1. \A x \in InUse : Band(x) = base => x = y BY <1>1, ZonePlaces
    <3>2. zone[y].type = 0 => Usable(y) = CMRTracks BY <1>1 DEF BandsApart, Usable
    <3> QED BY <2>5, <3>1, <3>2
  <2> HIDE DEF base
  <2>7. ZoneTracks * base + k \notin Tails BY <1>1, <2>4, <2>5, <2>6, TailsApart
  <2> QED BY <2>3, <2>4, <2>7
<1>3. Spare = free \ Tails BY DEF Spare
<1>4. IsFiniteSet(free)
  <2>1. IsFiniteSet(DiskStore!Lba) BY Sizes, FirstNumbers DEF DiskStore!Lba
  <2>2. free \subseteq DiskStore!Lba OBVIOUS
  <2> QED BY <2>1, <2>2, FS_Subset
<1> HIDE DEF free
<1>5. Cardinality(Spare) = Cardinality(free) - Cardinality(Tails)
  BY <1>2, <1>3, <1>4, PartCount
<1>6. Cardinality(Tails) = (ZoneTracks - CMRTracks) * Cardinality(Queued({0}))
  BY <1>1, TailTracks
<1> QED BY <1>1, <1>5, <1>6 DEF free

\* Up to the first conversion, with any trace and on a disk of any size, each
\* block that a zone records is on the disk at the track of its slot, the disk
\* holds no other blocks, and the bands kept away from batch_extend_fluidsmr
\* are those of the CMR zones.
THEOREM FluidRecordsOnDisk == Spec => []RecordsOnDisk
<1>1. TypeInv /\ DiskInv => RecordsOnDisk BY DiskInvRecords
<1> QED BY <1>1, TypeInvariance, DiskInvariance, PTL

\* Up to the first conversion block_remain is what the disk has free, less the
\* tracks that CMR zones cannot use.
THEOREM FluidRemainIsFree == Spec => []RemainIsFree
<1>1. TypeInv /\ DiskInv => RemainIsFree BY DiskInvRemain
<1> QED BY <1>1, TypeInvariance, DiskInvariance, PTL
-----------------------------------------------------------------------------
(* Every block of a write is placed.                                       *)

\* A write that goes on has left behind full zones only.
LEMMA FilledGrowsCopies ==
  ASSUME TypeInv, NEW z \in Zone, NEW b \in SUBSET Nat, IsFiniteSet(b), Filling(z, b),
         InUse' = InUse \cup {z}, z \notin InUse => zone[z].whp = 0
  PROVE  /\ \A fid, x : Copies(fid, x) # {} => Copies(fid, x)' # {}
         /\ \A fid, x : x \in b /\ fid = job.fid => Copies(fid, x)' # {}
         /\ \A y \in Zone : y # z => zone'[y] = zone[y]
<1> DEFINE c == Cardinality(b)
           w == zone[z].whp
<1>1. /\ zone \in [Zone -> Entry] /\ InUse \subseteq Zone /\ c \in Nat /\ w \in 0 .. ZoneTracks
      /\ w \in Nat /\ Track \subseteq Nat
  BY TypeFacts, FS_CardinalityType, Sizes DEF Entry, Track
<1>2. /\ zone' \in [Zone -> Entry] /\ \A y \in Zone : y # z => zone'[y] = zone[y]
      /\ zone'[z].whp = w + c
      /\ \A s \in Track : s < w => zone'[z].blocks[s] = zone[z].blocks[s]
      /\ \A i \in 0 .. c - 1 : /\ w + i \in Track
                               /\ zone'[z].blocks[w + i] = [fid |-> job.fid, lba |-> Nth(b, i)]
  BY DEF Filling
<1> HIDE DEF c, w
<1>3. ASSUME NEW fid, NEW x, Copies(fid, x) # {}
      PROVE  Copies(fid, x)' # {}
  <2>1. PICK p \in InUse \X Track : /\ p[2] < zone[p[1]].whp
                                    /\ zone[p[1]].blocks[p[2]] = [fid |-> fid, lba |-> x]
    BY <1>3 DEF Copies
  <2>2. p[1] \in InUse /\ p[2] \in Track /\ p[2] \in Nat BY <1>1, <2>1
  <2>3. p[2] < zone'[p[1]].whp /\ zone'[p[1]].blocks[p[2]] = zone[p[1]].blocks[p[2]]
    <3>1. CASE p[1] = z BY <1>1, <1>2, <2>1, <2>2, <3>1 DEF w
    <3>2. CASE p[1] # z BY <1>1, <1>2, <2>1, <2>2, <3>2
    <3> QED BY <3>1, <3>2
  <2>4. p \in InUse' \X Track BY <2>1
  <2> QED BY <2>1, <2>3, <2>4 DEF Copies, Track
<1>4. ASSUME NEW x \in b, NEW fid, fid = job.fid
      PROVE  Copies(fid, x)' # {}
  <2>1. PICK i \in 0 .. c - 1 : Nth(b, i) = x BY NthOnto DEF c
  <2>2. w + i \in Track /\ zone'[z].blocks[w + i] = [fid |-> job.fid, lba |-> x]
    BY <1>2, <2>1
  <2>3. w + i < zone'[z].whp BY <1>1, <1>2
  <2>4. <<z, w + i>> \in InUse' \X Track BY <2>2
  <2>5. <<z, w + i>> \in {p \in InUse' \X Track :
                            /\ p[2] < zone'[p[1]].whp
                            /\ zone'[p[1]].blocks[p[2]] = [fid |-> fid, lba |-> x]}
    BY <1>4, <2>2, <2>3, <2>4
  <2> QED BY <2>5 DEF Copies, Track
<1> QED BY <1>2, <1>3, <1>4
LEMMA PlaceInZoneKeepsPlaced ==
  ASSUME TypeInv, PlaceInv, PlaceInZone
  PROVE  PlaceInv'
<1> DEFINE z == Min(Candidates)
<1>1. /\ z \in Candidates /\ z \in scan .. used - 1 /\ z \in InUse /\ z \in Zone
      /\ \A y \in Candidates : z <= y
      /\ \E next \in job.next .. job.lba + job.n :
            /\ LeavesAt(next, Usable(z) - zone[z].whp)
            /\ PutInZone(z, Placed(next), next)
            /\ Filling(z, Placed(next))
            /\ zone'[z].type = zone[z].type /\ zone'[z].sealed = zone[z].sealed
            /\ zone'[z].isFull = FullAfter(z, Placed(next), next)
  BY PlaceFills
<1> HIDE DEF z
<1>2. PICK next \in job.next .. job.lba + job.n :
        /\ LeavesAt(next, Usable(z) - zone[z].whp)
        /\ PutInZone(z, Placed(next), next)
        /\ Filling(z, Placed(next))
        /\ zone'[z].type = zone[z].type /\ zone'[z].sealed = zone[z].sealed
        /\ zone'[z].isFull = FullAfter(z, Placed(next), next)
  BY <1>1
<1> DEFINE b == Placed(next)
           c == Cardinality(b)
<1>3. /\ b \in SUBSET Nat /\ IsFiniteSet(b) /\ c \in Nat
      /\ \A x \in job.next .. next - 1 : x \in job.skip \/ x \in b
  BY PlacedBlocks DEF TypeInv
<1>4. /\ pc = "place" /\ pc' = "place" /\ More /\ used' = used /\ InUse' = InUse
      /\ job' = [job EXCEPT !.next = next] /\ scan' = z + 1
      /\ InUse \subseteq Zone /\ Zone \subseteq Nat /\ zone \in [Zone -> Entry]
      /\ used \in 0 .. BandCount /\ scan \in 0 .. BandCount
  BY <1>2, TypeFacts DEF PlaceInZone, PutInZone, InUse, TypeInv, FluidTypeOK
<1>5. /\ job'.fid = job.fid /\ job'.lba = job.lba /\ job'.n = job.n /\ job'.hint = job.hint
      /\ job'.skip = job.skip /\ job'.next = next /\ next \in Nat /\ job.next \in Nat
      /\ job.lba \in Nat /\ job.n \in Nat /\ job.next \in job.lba .. job.lba + job.n
  <2>1. job.next \in Nat /\ job.lba \in Nat /\ job.n \in Nat
        /\ job.next \in job.lba .. job.lba + job.n
    BY DEF TypeInv, JobOK
  <2>2. next \in Nat BY <2>1
  <2> QED BY <1>4, <2>1, <2>2 DEF TypeInv, JobOK
<1>6. /\ zone'[z].whp = zone[z].whp + c /\ zone'[z].isCache = zone[z].isCache
      /\ \A y \in Zone : y # z => zone'[y] = zone[y]
  BY <1>2 DEF Filling
<1>7. FullZones'
  <2> SUFFICES ASSUME NEW y \in InUse, ~ zone'[y].isCache,
                      \/ zone'[y].isFull
                      \/ More' /\ y < z + 1 /\ zone'[y].type = job.hint
               PROVE  zone'[y].whp = Usable(y)'
    BY <1>4, <1>5 DEF FullZones
  <2>1. CASE y # z
    <3>1. zone'[y] = zone[y] /\ Usable(y)' = Usable(y) BY <1>4, <1>6, <2>1 DEF Usable
    <3>2. CASE zone[y].isFull \/ (y < scan /\ zone[y].type = job.hint)
      BY <1>4, <3>1, <3>2 DEF PlaceInv, FullZones
    <3>3. CASE ~ zone[y].isFull /\ y >= scan /\ y < z /\ zone[y].type = job.hint
      <4>1. y \in scan .. used - 1 BY <1>4, <3>3 DEF InUse
      <4>2. y \in Candidates BY <3>1, <3>3, <4>1 DEF Candidates
      <4> QED BY <1>1, <1>4, <3>3, <4>2
    <3>4. ~ zone[y].isFull => y < z /\ zone[y].type = job.hint
      <4>1. y \in Nat /\ z \in Nat BY <1>1, <1>4
      <4> QED BY <2>1, <3>1, <4>1
    <3> QED BY <1>4, <3>2, <3>3, <3>4
  <2>2. CASE y = z
    <3>1. Usable(y)' = Usable(z) BY <1>2, <2>2 DEF Usable
    <3>2. Usable(z) \in 1 .. ZoneTracks /\ zone[z].whp \in 0 .. ZoneTracks /\ ZoneTracks \in Nat
      BY <1>1, <1>4, UsableIsRoom, Sizes DEF Entry
    <3>3. CASE zone'[y].isFull
      <4>1. FullAfter(z, b, next) BY <1>2, <2>2, <3>3
      <4>2. zone[z].whp + c = Usable(z) BY <3>2, <4>1 DEF FullAfter
      <4> QED BY <1>6, <2>2, <3>1, <4>2
    <3>4. CASE More'
      <4>1. ~ Last(next) BY <1>5, <3>4 DEF More, Last
      <4>2. c = Usable(z) - zone[z].whp BY <1>2, <4>1 DEF LeavesAt
      <4> QED BY <1>3, <1>6, <2>2, <3>1, <3>2, <4>2
    <3> QED BY <3>3, <3>4
  <2> QED BY <2>1, <2>2
<1>8. PlacedSoFar'
  <2>1. /\ \A fid, x : Copies(fid, x) # {} => Copies(fid, x)' # {}
        /\ \A fid, x : x \in b /\ fid = job.fid => Copies(fid, x)' # {}
    <3>1. InUse' = InUse \cup {z} BY <1>1, <1>4
    <3> HIDE DEF b, c
    <3>2. Filling(z, b) BY <1>2 DEF b
    <3> QED BY <1>1, <1>3, <3>1, <3>2, FilledGrowsCopies
  <2> SUFFICES ASSUME NEW x \in job.lba .. next - 1
               PROVE  x \in job.skip \/ Copies(job.fid, x)' # {}
    <3> QED BY <1>4, <1>5 DEF PlacedSoFar
  <2>2. CASE x < job.next
    <3>1. x \in job.lba .. job.next - 1 BY <1>5, <2>2
    <3>2. x \in job.skip \/ Copies(job.fid, x) # {} BY <1>4, <3>1 DEF PlaceInv, PlacedSoFar
    <3>a. PICK fid : fid = job.fid OBVIOUS
    <3>3. fid = job'.fid /\ fid = job.fid BY <1>5, <3>a
    <3>4. x \in job.skip \/ Copies(fid, x) # {} BY <3>2, <3>a
    <3>5. x \in job.skip \/ Copies(fid, x)' # {} BY <2>1, <3>4
    <3> QED BY <3>3, <3>5
  <2>3. CASE x >= job.next
    <3>1. x \in job.next .. next - 1 BY <1>5, <2>3
    <3>2. x \in job.skip \/ x \in b BY <1>3, <3>1
    <3>a. PICK fid : fid = job.fid OBVIOUS
    <3>3. fid = job'.fid /\ fid = job.fid BY <1>5, <3>a
    <3>4. x \in job.skip \/ Copies(fid, x)' # {} BY <2>1, <3>2, <3>3
    <3> QED BY <3>3, <3>4
  <2> QED BY <1>5, <2>2, <2>3
<1> QED BY <1>7, <1>8 DEF PlaceInv
LEMMA AllocateZoneKeepsPlaced ==
  ASSUME TypeInv, PlaceInv, AllocateZone
  PROVE  PlaceInv'
<1> DEFINE h == job.hint
<1>1. /\ used \in Zone /\ used \notin InUse /\ InUse' = InUse \cup {used}
      /\ zone[used].whp = 0
      /\ \E next \in job.next .. job.lba + job.n :
            /\ LeavesAt(next, RoomOf(h))
            /\ PutInNewZone(h, Placed(next), next)
            /\ Filling(used, Placed(next))
            /\ zone'[used].type = h
            /\ zone'[used].sealed = (h = 0)
            /\ zone'[used].isFull <=> Cardinality(Placed(next)) = RoomOf(h)
  BY AllocateFills
<1> HIDE DEF h
<1>2. PICK next \in job.next .. job.lba + job.n :
        /\ LeavesAt(next, RoomOf(h))
        /\ PutInNewZone(h, Placed(next), next)
        /\ Filling(used, Placed(next))
        /\ zone'[used].type = h
        /\ zone'[used].sealed = (h = 0)
        /\ zone'[used].isFull <=> Cardinality(Placed(next)) = RoomOf(h)
  BY <1>1
<1> DEFINE b == Placed(next)
           c == Cardinality(b)
<1>3. /\ b \in SUBSET Nat /\ IsFiniteSet(b) /\ c \in Nat
      /\ \A x \in job.next .. next - 1 : x \in job.skip \/ x \in b
  BY PlacedBlocks DEF TypeInv
<1>4. /\ pc = "place" /\ More /\ Candidates = {} /\ used' = used + 1
      /\ job' = [job EXCEPT !.next = next] /\ scan' = used + 1
      /\ InUse \subseteq Zone /\ Zone \subseteq Nat /\ zone \in [Zone -> Entry]
      /\ used \in 0 .. BandCount /\ scan \in 0 .. BandCount /\ h \in {0, 1}
  BY <1>2, TypeFacts DEF AllocateZone, PutInNewZone, InUse, TypeInv, FluidTypeOK, JobOK, h
<1>5. /\ job'.fid = job.fid /\ job'.lba = job.lba /\ job'.n = job.n /\ job'.hint = h
      /\ job'.skip = job.skip /\ job'.next = next /\ next \in Nat /\ job.next \in Nat
      /\ job.lba \in Nat /\ job.n \in Nat /\ job.next \in job.lba .. job.lba + job.n
  <2>1. job.next \in Nat /\ job.lba \in Nat /\ job.n \in Nat
        /\ job.next \in job.lba .. job.lba + job.n
    BY DEF TypeInv, JobOK
  <2>2. next \in Nat BY <2>1
  <2> QED BY <1>4, <2>1, <2>2 DEF TypeInv, JobOK, h
<1>6. /\ zone'[used].whp = c /\ zone'[used].isCache = zone[used].isCache
      /\ \A y \in Zone : y # used => zone'[y] = zone[y]
  <2>1. zone'[used].whp = zone[used].whp + c BY <1>2 DEF Filling
  <2> QED BY <1>1, <1>2, <1>3, <2>1 DEF Filling
<1>7. FullZones'
  <2> SUFFICES ASSUME NEW y \in InUse', ~ zone'[y].isCache,
                      \/ zone'[y].isFull
                      \/ More' /\ y < used + 1 /\ zone'[y].type = h
               PROVE  zone'[y].whp = Usable(y)'
    BY <1>4, <1>5 DEF FullZones
  <2>1. CASE y # used
    <3>1. y \in InUse /\ zone'[y] = zone[y] /\ Usable(y)' = Usable(y)
      BY <1>1, <1>4, <1>6, <2>1 DEF Usable
    <3>2. CASE zone[y].isFull \/ (y < scan /\ zone[y].type = h)
      BY <1>4, <3>1, <3>2 DEF PlaceInv, FullZones, h
    <3>3. CASE ~ zone[y].isFull /\ y >= scan /\ zone[y].type = h
      <4>1. y \in scan .. used - 1 BY <1>4, <3>1, <3>3 DEF InUse
      <4>2. y \in Candidates BY <3>1, <3>3, <4>1 DEF Candidates, h
      <4> QED BY <1>4, <4>2
    <3>4. ~ zone[y].isFull => zone[y].type = h BY <3>1
    <3>5. y \in Nat BY <1>4, <3>1
    <3> QED BY <1>4, <3>2, <3>3, <3>4, <3>5
  <2>2. CASE y = used
    <3>1. Usable(y)' = RoomOf(h) BY <1>2, <2>2 DEF Usable, RoomOf
    <3>2. CASE zone'[y].isFull
      <4>1. c = RoomOf(h) BY <1>2, <2>2, <3>2
      <4> QED BY <1>6, <2>2, <3>1, <4>1
    <3>3. CASE More'
      <4>1. ~ Last(next) BY <1>5, <3>3 DEF More, Last
      <4>2. c = RoomOf(h) BY <1>2, <4>1 DEF LeavesAt
      <4> QED BY <1>6, <2>2, <3>1, <4>2
    <3> QED BY <3>2, <3>3
  <2> QED BY <2>1, <2>2
<1>8. PlacedSoFar'
  <2>1. /\ \A fid, x : Copies(fid, x) # {} => Copies(fid, x)' # {}
        /\ \A fid, x : x \in b /\ fid = job.fid => Copies(fid, x)' # {}
    <3> HIDE DEF b, c
    <3>1. Filling(used, b) BY <1>2 DEF b
    <3>2. PICK z : z = used OBVIOUS
    <3>3. /\ z \in Zone /\ Filling(z, b) /\ InUse' = InUse \cup {z}
          /\ z \notin InUse => zone[z].whp = 0
      BY <1>1, <3>1, <3>2
    <3> QED BY <1>3, <3>3, FilledGrowsCopies
  <2> SUFFICES ASSUME NEW x \in job.lba .. next - 1
               PROVE  x \in job.skip \/ Copies(job.fid, x)' # {}
    <3> QED BY <1>5 DEF PlacedSoFar
  <2>2. CASE x < job.next
    <3>1. x \in job.lba .. job.next - 1 BY <1>5, <2>2
    <3>2. x \in job.skip \/ Copies(job.fid, x) # {} BY <1>4, <3>1 DEF PlaceInv, PlacedSoFar
    <3>3. PICK fid : fid = job.fid OBVIOUS
    <3>4. fid = job'.fid BY <1>5, <3>3
    <3>5. x \in job.skip \/ Copies(fid, x)' # {} BY <2>1, <3>2, <3>3
    <3> QED BY <3>4, <3>5
  <2>3. CASE x >= job.next
    <3>1. x \in job.next .. next - 1 BY <1>5, <2>3
    <3>2. x \in job.skip \/ x \in b BY <1>3, <3>1
    <3>3. PICK fid : fid = job.fid OBVIOUS
    <3>4. fid = job'.fid BY <1>5, <3>3
    <3>5. x \in job.skip \/ Copies(fid, x)' # {} BY <2>1, <3>2, <3>3
    <3> QED BY <3>4, <3>5
  <2> QED BY <1>5, <2>2, <2>3
<1> QED BY <1>7, <1>8 DEF PlaceInv

\* Where a write starts to place its blocks, none is placed.
LEMMA StartOfPlacing ==
  ASSUME TypeInv', used' = used, scan' = 0, job'.next = job'.lba,
         \A z \in InUse : ~ zone'[z].isCache /\ zone'[z].isFull => zone'[z].whp = Usable(z)'
  PROVE  PlaceInv'
<1>1. InUse' = InUse BY DEF InUse
<1>2. FullZones'
  <2>1. \A z \in InUse : ~ z < 0
    <3>1. \A z \in InUse' : ~ z < 0 BY DEF InUse, TypeInv, FluidTypeOK
    <3> QED BY <1>1, <3>1
  <2> QED BY <1>1, <2>1 DEF FullZones
<1>3. PlacedSoFar'
  <2>1. \A b \in job'.lba .. job'.lba - 1 : FALSE
    <3>1. job'.lba \in Nat BY DEF TypeInv, JobOK
    <3> QED BY <3>1
  <2> QED BY <2>1 DEF PlacedSoFar
<1> QED BY <1>2, <1>3 DEF PlaceInv

LEMMA OutsidePlacing ==
  ASSUME pc' # "place", used' = used,
         \A z \in InUse : ~ zone'[z].isCache /\ zone'[z].isFull => zone'[z].whp = Usable(z)'
  PROVE  PlaceInv'
<1>1. InUse' = InUse BY DEF InUse
<1> QED BY <1>1 DEF PlaceInv, FullZones, PlacedSoFar

LEMMA SameZonesFull ==
  ASSUME PlaceInv, zone' = zone
  PROVE  \A z \in InUse : ~ zone'[z].isCache /\ zone'[z].isFull => zone'[z].whp = Usable(z)'
<1>1. \A z \in InUse : Usable(z)' = Usable(z) BY DEF Usable
<1> QED BY <1>1 DEF PlaceInv, FullZones
LEMMA WriteLineKeepsPlaced ==
  ASSUME TypeInv, PlaceInv, NEW r \in Lines, WriteLine(r)
  PROVE  PlaceInv'
<1>1. TypeInv' BY WriteLineKeepsTypes
<1>2. used' = used /\ scan' = 0 /\ pc = "lines" BY DEF WriteLine, Line
<1>3. job'.next = job'.lba
  <2>1. r.lba \in Nat BY FluidLinesAssumption
  <2>2. \E skip : job' = Job(r, skip) BY DEF WriteLine, FreshLine, UpdateLine
  <2> QED BY <2>2 DEF Job
<1>4. zone \in [Zone -> Entry] /\ InUse \subseteq Zone BY TypeFacts
\* A write changes cache zones only.
<1>5. \A z \in InUse : ~ zone'[z].isCache /\ zone'[z].isFull => zone'[z].whp = Usable(z)'
  <2>1. CASE zone' = zone BY <2>1, SameZonesFull
  <2>2. CASE \E fid, b : UpdateInCaches(fid, b)
    <3>1. PICK fid, b : UpdateInCaches(fid, b) BY <2>2
    <3> SUFFICES ASSUME NEW z \in InUse, ~ zone'[z].isCache, zone'[z].isFull
                 PROVE  zone'[z].whp = Usable(z)'
      OBVIOUS
    <3>2. zone'[z] = IF z \in OpenCaches THEN Appended(z, fid, b) ELSE zone[z]
      BY <1>4, <3>1 DEF UpdateInCaches
    <3>3. Appended(z, fid, b).isCache = zone[z].isCache BY <1>4 DEF Appended, Entry
    <3>4. z \notin OpenCaches BY <3>2, <3>3 DEF OpenCaches
    <3>5. zone'[z] = zone[z] /\ Usable(z)' = Usable(z) BY <3>2, <3>4 DEF Usable
    <3> QED BY <3>5 DEF PlaceInv, FullZones
  <2> QED BY <2>1, <2>2 DEF WriteLine, FreshLine, UpdateLine, Update, UpdateInPlace
<1> QED BY <1>1, <1>2, <1>3, <1>5, StartOfPlacing

LEMMA ConvertRoundKeepsPlaced ==
  ASSUME TypeInv, PlaceInv, ConvertRound
  PROVE  PlaceInv'
<1>1. /\ \A i \in 1 .. 3 : Group[i] \in InUse /\ Group[i] \in Zone
      /\ used \notin InUse
      /\ \A i \in 1 .. 3 : zone'[Group[i]] = Converted[i]
      /\ \A z \in Zone : z \notin Grouped /\ z # used => zone'[z] = zone[z]
  BY RoundZones
<1>2. zone \in [Zone -> Entry] /\ InUse \subseteq Zone BY TypeFacts
<1>3. pc' = "rewrite" /\ used' = used BY DEF ConvertRound
<1>4. ASSUME NEW z \in InUse, ~ zone'[z].isCache, zone'[z].isFull
      PROVE  zone'[z].whp = Usable(z)'
  <2>1. z \notin Grouped
    <3> SUFFICES ASSUME z \in Grouped PROVE FALSE
      OBVIOUS
    <3>1. PICK i \in 1 .. 3 : z = Group[i] BY DEF Grouped
    <3>2. Converted[i].isFull = FALSE BY <1>1, <1>2, ConvertedType
    <3> QED BY <1>1, <1>4, <3>1, <3>2
  <2>2. zone'[z] = zone[z] BY <1>1, <1>2, <2>1
  <2>3. Usable(z)' = Usable(z) BY <2>2 DEF Usable
  <2> QED BY <1>4, <2>2, <2>3 DEF PlaceInv, FullZones
<1> QED BY <1>3, <1>4, OutsidePlacing

LEMMA CountZoneKeepsPlaced ==
  ASSUME TypeInv, PlaceInv, CountZone
  PROVE  PlaceInv'
<1>1. zone' \in {zone, [zone EXCEPT ![Min(Hits)].isFull = FALSE]} BY DEF CountZone
<1>2. zone \in [Zone -> Entry] /\ InUse \subseteq Zone BY TypeFacts
<1> DEFINE m == Min(Hits)
<1> HIDE DEF m
<1>3. zone' \in {zone, [zone EXCEPT ![m].isFull = FALSE]} BY <1>1 DEF m
<1>4. \A z \in Zone : /\ zone'[z].isCache = zone[z].isCache /\ zone'[z].whp = zone[z].whp
                      /\ zone'[z].sealed = zone[z].sealed
                      /\ ~ zone[z].isFull => ~ zone'[z].isFull
  <2>1. CASE zone' = zone BY <2>1
  <2>2. CASE zone' = [zone EXCEPT ![m].isFull = FALSE]
    <3> SUFFICES ASSUME NEW z \in Zone
                 PROVE  /\ zone'[z].isCache = zone[z].isCache /\ zone'[z].whp = zone[z].whp
                        /\ zone'[z].sealed = zone[z].sealed
                        /\ ~ zone[z].isFull => ~ zone'[z].isFull
      OBVIOUS
    <3>1. CASE z = m
      <4>1. zone[z] \in Entry /\ zone'[z] = [zone[z] EXCEPT !.isFull = FALSE]
        BY <1>2, <2>2, <3>1
      <4> QED BY <4>1 DEF Entry
    <3>2. CASE z # m BY <1>2, <2>2, <3>2
    <3> QED BY <3>1, <3>2
  <2> QED BY <1>3, <2>1, <2>2
<1>5. \A z \in InUse : ~ zone'[z].isCache /\ zone'[z].isFull => zone'[z].whp = Usable(z)'
  <2>1. \A z \in InUse : Usable(z)' = Usable(z) BY <1>2, <1>4 DEF Usable
  <2> QED BY <1>2, <1>4, <2>1 DEF PlaceInv, FullZones
<1>6. pc' # "place" /\ used' = used BY DEF CountZone
<1> QED BY <1>5, <1>6, OutsidePlacing

LEMMA PlaceInvariance == Spec => []PlaceInv
<1>1. Init => PlaceInv BY DEF Init, PlaceInv, FullZones, PlacedSoFar, InUse
<1>2. TypeInv /\ PlaceInv /\ [Next]_vars => PlaceInv'
  <2> SUFFICES ASSUME TypeInv, PlaceInv, [Next]_vars PROVE PlaceInv' OBVIOUS
  <2>1. CASE \E r \in Lines : WriteLine(r) BY <2>1, WriteLineKeepsPlaced
  <2>2. CASE CountZone BY <2>2, CountZoneKeepsPlaced
  <2>3. CASE ConvertRound BY <2>3, ConvertRoundKeepsPlaced
  <2>4. CASE PlaceInZone BY <2>4, PlaceInZoneKeepsPlaced
  <2>5. CASE AllocateZone BY <2>5, AllocateZoneKeepsPlaced
  <2>6. CASE BuildQueues \/ EndCleaning
    <3>1. TypeInv' BY <2>6, BuildQueuesKeepsTypes, EndCleaningKeepsTypes
    <3>2. /\ used' = used /\ zone' = zone /\ scan' = scan /\ job' = job
          /\ pc \in {"queue", "back"}
      BY <2>6 DEF BuildQueues, EndCleaning
    <3>3. scan = 0 /\ job.next = job.lba BY <3>2 DEF TypeInv, CleaningOK, Cleaning
    <3> QED BY <3>1, <3>2, <3>3, StartOfPlacing, SameZonesFull
  <2>7. CASE OtherLine
    <3>1. pc' # "place" /\ used' = used /\ zone' = zone BY <2>7 DEF OtherLine, Line
    <3> QED BY <3>1, OutsidePlacing, SameZonesFull
  <2>8. CASE EndOfTrace \/ (\E r \in Lines : CountLine(r)) \/ EndCount \/ EndWrite
    <3>1. pc' # "place" /\ used' = used /\ zone' = zone
      BY <2>8 DEF EndOfTrace, CountLine, EndCount, EndWrite
    <3> QED BY <3>1, OutsidePlacing, SameZonesFull
  <2>9. CASE ZoneSwapping \/ NothingToSwap \/ SortCMR \/ StartConversion
    <3>1. pc' # "place" /\ used' = used /\ zone' = zone
      BY <2>9 DEF ZoneSwapping, NothingToSwap, SortCMR, StartConversion
    <3> QED BY <3>1, OutsidePlacing, SameZonesFull
  <2>10. CASE RoundUndefined \/ RewriteRun \/ EndConversion \/ ConvertBack
    <3>1. pc' # "place" /\ used' = used /\ zone' = zone
      BY <2>10 DEF RoundUndefined, RewriteRun, EndConversion, ConvertBack
    <3> QED BY <3>1, OutsidePlacing, SameZonesFull
  <2>11. CASE UNCHANGED vars
    <3>1. InUse' = InUse BY <2>11 DEF vars, InUse
    <3> QED BY <2>11, <3>1 DEF vars, PlaceInv, FullZones, PlacedSoFar, More, Copies, Usable
  <2> QED BY <2>1, <2>2, <2>3, <2>4, <2>5, <2>6, <2>7, <2>8, <2>9, <2>10, <2>11 DEF Next, Step
<1> QED BY <1>1, <1>2, TypeInvariance, PTL DEF Spec

LEMMA WriteEndsPlaced ==
  ASSUME TypeInv, PlaceInv, EndWrite, NEW b \in job.lba .. job.lba + job.n - 1
  PROVE  \/ Copies(job.fid, b) # {}
         \/ b \in job.skip
         \/ /\ b >= job.next /\ used = BandCount
            /\ \A z \in Queued({job.hint}) : zone[z].whp = Usable(z)
<1>1. /\ job.next \in Nat /\ job.lba \in Nat /\ job.n \in Nat
      /\ pc = "place" /\ (More => Candidates = {} /\ used = BandCount)
  BY DEF EndWrite, TypeInv, JobOK
<1>2. CASE b < job.next
  <2>1. b \in job.lba .. job.next - 1 BY <1>1, <1>2
  <2> QED BY <1>1, <2>1 DEF PlaceInv, PlacedSoFar
<1>3. CASE b >= job.next
  <2>1. More
    <3>1. b <= job.lba + job.n - 1 /\ b \in Int BY <1>1
    <3> QED BY <1>1, <1>3, <3>1 DEF More
  <2>2. ASSUME NEW z \in Queued({job.hint}) PROVE zone[z].whp = Usable(z)
    <3>1. z \in InUse /\ ~ zone[z].isCache /\ zone[z].type = job.hint BY DEF Queued
    <3>2. CASE z < scan BY <1>1, <2>1, <3>1, <3>2 DEF PlaceInv, FullZones
    <3>3. CASE z >= scan
      <4>1. scan \in Nat /\ used \in Nat BY <1>1, Sizes DEF TypeInv, FluidTypeOK
      <4>2. z \in scan .. used - 1 BY <3>1, <3>3, <4>1 DEF InUse
      <4>3. zone[z].isFull BY <1>1, <2>1, <3>1, <4>2 DEF Candidates
      <4> QED BY <3>1, <4>3 DEF PlaceInv, FullZones
    <3>4. z \in Nat /\ scan \in Nat BY <1>1, <3>1, TypeFacts DEF TypeInv, FluidTypeOK
    <3> QED BY <3>2, <3>3, <3>4
  <2> QED BY <1>1, <1>3, <2>1, <2>2
<1>4. b < job.next \/ b >= job.next BY <1>1
<1> QED BY <1>2, <1>3, <1>4

\* No write loses a block while there is room: when it ends, each of its blocks
\* is recorded or was to be skipped, or all zones are taken and those of the
\* hint are full.
THEOREM FluidPlacedOrDropped == Spec => PlacedOrDropped
<1>1. TypeInv /\ PlaceInv /\ [Next]_vars =>
        [EndWrite =>
           \A b \in job.lba .. job.lba + job.n - 1 :
              \/ Copies(job.fid, b) # {}
              \/ b \in job.skip
              \/ /\ b >= job.next /\ used = BandCount
                 /\ \A z \in Queued({job.hint}) : zone[z].whp = Usable(z)]_vars
  <2>1. ASSUME TypeInv, PlaceInv, EndWrite
        PROVE  \A b \in job.lba .. job.lba + job.n - 1 :
                  \/ Copies(job.fid, b) # {}
                  \/ b \in job.skip
                  \/ /\ b >= job.next /\ used = BandCount
                     /\ \A z \in Queued({job.hint}) : zone[z].whp = Usable(z)
    BY <2>1, WriteEndsPlaced
  <2> QED BY <2>1
<1> QED BY <1>1, TypeInvariance, PlaceInvariance, PTL DEF Spec, PlacedOrDropped
-----------------------------------------------------------------------------
(* What a read counts.                                                     *)

\* A zone that records each block once has no more of them in the window than
\* the window has blocks.
LEMMA FoundInWindow ==
  ASSUME TypeInv, NEW z \in Zone, job.mode = "read",
         \A k, m \in Found(z) : zone[z].blocks[k] = zone[z].blocks[m] => k = m
  PROVE  Cardinality(Found(z)) \in 0 .. job.rest
<1> DEFINE F == Found(z)
           W == job.lba .. job.lba + job.rest - 1
           f == [k \in F |-> zone[z].blocks[k].lba]
<1>1. /\ zone[z] \in Entry /\ job.lba \in Nat /\ job.rest \in 0 .. Word - 1 /\ job.rest \in Nat
      /\ Word \in Nat \ {0}
  BY TypeFacts, Sizes DEF TypeInv, JobOK
<1>2. Plus(job.lba, job.rest) <= job.lba + job.rest /\ Plus(job.lba, job.rest) \in Int
  <2>1. \A x \in Nat : x % Word <= x /\ x % Word \in Int BY <1>1
  <2> QED BY <1>1, <2>1 DEF Plus
<1>3. ASSUME NEW k \in F
      PROVE  /\ k \in Track /\ zone[z].blocks[k] \in Block /\ f[k] \in W
             /\ zone[z].blocks[k] = [fid |-> job.fid, lba |-> f[k]]
  <2>1. /\ k \in Track /\ zone[z].blocks[k].fid = job.fid
        /\ InWindow(zone[z].blocks[k].lba)
    BY DEF Found
  <2>2. zone[z].blocks \in [Track -> Block] BY <1>1 DEF Entry
  <2>3. zone[z].blocks[k] \in Block BY <2>1, <2>2
  <2>4. zone[z].blocks[k].lba \in Nat BY <2>3 DEF Block
  <2> DEFINE b == zone[z].blocks[k].lba
  <2>5. job.lba <= b /\ b < Plus(job.lba, job.rest) BY <2>1 DEF InWindow
  <2>6. b \in W
    <3> HIDE DEF b
    <3>1. b \in Nat BY <2>4 DEF b
    <3> QED BY <1>1, <1>2, <2>5, <3>1
  <2>7. zone[z].blocks[k] = [fid |-> job.fid, lba |-> b] BY <2>1, <2>3 DEF Block
  <2> QED BY <2>1, <2>3, <2>6, <2>7
<1>4. f \in [F -> W] BY <1>3
<1>5. \A k, m \in F : f[k] = f[m] => k = m
  <2> SUFFICES ASSUME NEW k \in F, NEW m \in F, f[k] = f[m] PROVE k = m
    OBVIOUS
  <2> HIDE DEF f
  <2>1. zone[z].blocks[k] = zone[z].blocks[m] BY <1>3
  <2> QED BY <2>1
<1>6. IsFiniteSet(W) /\ Cardinality(W) = job.rest
  <2> DEFINE l == job.lba
             e == job.lba + job.rest - 1
  <2>1. l \in Nat /\ l \in Int /\ e \in Int BY <1>1 DEF l, e
  <2> HIDE DEF e, l
  <2>2. IsFiniteSet(l .. e) BY <2>1, FS_Interval
  <2>3. Cardinality(W) = job.rest BY <1>1, CountFrom
  <2> QED BY <2>2, <2>3 DEF l, e
<1> HIDE DEF f, F, W
<1>7. f \in Injection(F, W) BY <1>4, <1>5 DEF Injection, IsInjective
<1>8. IsFiniteSet(F) /\ Cardinality(F) <= Cardinality(W) BY <1>6, <1>7, FS_Injection
<1>9. Cardinality(F) \in Nat BY <1>8, FS_CardinalityType
<1> QED BY <1>1, <1>6, <1>8, <1>9 DEF F

LEMMA CountStays ==
  ASSUME TypeInv, CountZone, job.mode = "read",
         \A k, m \in Found(Min(Hits)) :
            zone[Min(Hits)].blocks[k] = zone[Min(Hits)].blocks[m] => k = m
  PROVE  job'.rest <= job.rest
<1> DEFINE z == Min(Hits)
           c == Cardinality(Found(z))
<1>1. z \in Zone
  <2>0. pc = "count" /\ scan \in Nat BY DEF CountZone, TypeInv, FluidTypeOK
  <2>1. Hits \in SUBSET Nat /\ Hits # {}
    <3>1. \A i \in scan .. used - 1 : i \in Nat BY <2>0
    <3> QED BY <3>1 DEF CountZone, Hits
  <2>2. z \in Hits BY <2>1, MinNatural
  <2>3. z \in InUse
    <3>1. scan \in Nat BY DEF CountZone, TypeInv, FluidTypeOK
    <3>2. used \in Nat BY Sizes DEF TypeInv, FluidTypeOK
    <3> QED BY <2>2, <3>1, <3>2 DEF Hits, InUse
  <2> QED BY <2>3, TypeFacts
<1>2. job' = [job EXCEPT !.rest = Minus(job.rest, c)] BY DEF CountZone
<1> HIDE DEF z
<1>3. c \in 0 .. job.rest BY <1>1, FoundInWindow DEF z
<1>4. job.rest \in 0 .. Word - 1 /\ Word \in Nat \ {0} BY Sizes DEF TypeInv, JobOK
<1>5. job'.rest = Minus(job.rest, c) BY <1>2 DEF TypeInv, JobOK
<1> HIDE DEF c
<1>6. Minus(job.rest, c) = job.rest - c
  <2> DEFINE a == job.rest
  <2>1. a \in Nat /\ c \in Nat /\ c <= a /\ a < Word BY <1>3, <1>4
  <2> HIDE DEF a
  <2>2. (a - c) % Word = a - c BY <1>4, <2>1
  <2> QED BY <2>2 DEF Minus, a
<1> QED BY <1>3, <1>4, <1>5, <1>6

\* The unsigned count of a read passes zero only at a zone that records a block
\* of the request twice, whatever the window has shrunk to.
THEOREM FluidCountsWithinRequest == Spec => CountsWithinRequest
<1>1. TypeInv /\ [Next]_vars =>
        [CountZone /\ job.mode = "read" /\ job'.rest > job.rest =>
           \E k, m \in Found(Min(Hits)) :
              k # m /\ zone[Min(Hits)].blocks[k] = zone[Min(Hits)].blocks[m]]_vars
  <2>1. ASSUME TypeInv, CountZone, job.mode = "read", job'.rest > job.rest,
               \A k, m \in Found(Min(Hits)) :
                  zone[Min(Hits)].blocks[k] = zone[Min(Hits)].blocks[m] => k = m
        PROVE  FALSE
    <3>1. job'.rest <= job.rest BY <2>1, CountStays
    <3>2. job.rest \in Int BY <2>1, Sizes DEF TypeInv, JobOK
    <3>3. job'.rest \in Int
      <4>1. TypeInv' BY <2>1, CountZoneKeepsTypes
      <4> QED BY <4>1, Sizes DEF TypeInv, JobOK
    <3> QED BY <2>1, <3>1, <3>2, <3>3
  <2> QED BY <2>1
<1> QED BY <1>1, TypeInvariance, PTL DEF Spec, CountsWithinRequest

-----------------------------------------------------------------------------
(***************************************************************************)
(* A conversion pours the blocks of three zones into three zones: before   *)
(* and after it, their slots are one to one with the blocks moved.         *)
(***************************************************************************)
\* The slots S of three zones g lie in a row, those of the i-th from place
\* first[i] on, and fill the n places of m.
InRow(n, first, size, g, S, content, m) ==
    /\ \A i \in 1 .. 3 : first[i] \in Nat /\ size[i] \in Nat
    /\ \A i, j \in 1 .. 3 : g[i] = g[j] => i = j
    /\ first[1] + size[1] <= first[2] /\ first[2] + size[2] <= first[3]
    /\ \A j \in 1 .. n : \E i \in 1 .. 3 : first[i] < j /\ j <= first[i] + size[i]
    /\ \A u \in S : \E i \in 1 .. 3 : \E k \in Nat : u = <<g[i], k>> /\ k < size[i]
    /\ \A i \in 1 .. 3 : \A k \in Nat :
          k < size[i] => /\ first[i] + k + 1 <= n /\ <<g[i], k>> \in S
                         /\ content[<<g[i], k>>] = m[first[i] + k + 1]

\* The records of the slots are those of the places, as often.
SameRecords(n, S, content, m) ==
    /\ IsFiniteSet(S) /\ Cardinality(S) = n
    /\ \A r : Cardinality({u \in S : content[u] = r}) = Cardinality({j \in 1 .. n : m[j] = r})
    /\ {content[u] : u \in S} = {m[j] : j \in 1 .. n}

\* Each place is then that of one slot.
LEMMA PiecesFill ==
  ASSUME NEW n \in Nat, NEW first, NEW size, NEW g, NEW S, NEW content, NEW m,
         InRow(n, first, size, g, S, content, m)
  PROVE  SameRecords(n, S, content, m)
<1> USE DEF InRow
<1> DEFINE who(u) == CHOOSE i \in 1 .. 3 : g[i] = u[1]
           at == [u \in S |-> first[who(u)] + u[2] + 1]
<1>1. ASSUME NEW i \in 1 .. 3, NEW k \in Nat, k < size[i]
      PROVE  <<g[i], k>> \in S /\ at[<<g[i], k>>] = first[i] + k + 1
  <2>1. who(<<g[i], k>>) = i OBVIOUS
  <2>2. <<g[i], k>> \in S BY <1>1
  <2> HIDE DEF who
  <2> QED BY <2>1, <2>2
<1> HIDE DEF at, who
<1>2. first[2] <= first[3] /\ first[1] <= first[2]
  BY 1 \in 1 .. 3, 2 \in 1 .. 3, 3 \in 1 .. 3
<1>3. ASSUME NEW i \in 1 .. 3, NEW j \in 1 .. 3, i < j
      PROVE  first[i] + size[i] <= first[j]
  <2>1. 1 \in 1 .. 3 /\ 2 \in 1 .. 3 /\ 3 \in 1 .. 3 OBVIOUS
  <2>2. /\ first[1] \in Nat /\ first[2] \in Nat /\ first[3] \in Nat
        /\ size[1] \in Nat /\ size[2] \in Nat
    BY <2>1
  <2>3. (i = 1 /\ j = 2) \/ (i = 1 /\ j = 3) \/ (i = 2 /\ j = 3) BY <1>3
  <2> QED BY <1>2, <2>2, <2>3
<1>4. \A u \in S : at[u] \in 1 .. n /\ content[u] = m[at[u]]
  <2> TAKE u \in S
  <2>1. PICK i \in 1 .. 3, k \in Nat : u = <<g[i], k>> /\ k < size[i] OBVIOUS
  <2>2. first[i] + k + 1 <= n /\ content[u] = m[first[i] + k + 1] BY <2>1
  <2>3. at[u] = first[i] + k + 1 BY <1>1, <2>1
  <2>4. first[i] \in Nat OBVIOUS
  <2>5. first[i] + k + 1 \in 1 .. n BY <2>2, <2>4
  <2> QED BY <2>2, <2>3, <2>5
<1>5. \A u, v \in S : at[u] = at[v] => u = v
  <2> SUFFICES ASSUME NEW u \in S, NEW v \in S, at[u] = at[v] PROVE u = v OBVIOUS
  <2>1. PICK i \in 1 .. 3, k \in Nat : u = <<g[i], k>> /\ k < size[i] OBVIOUS
  <2>2. PICK j \in 1 .. 3, l \in Nat : v = <<g[j], l>> /\ l < size[j] OBVIOUS
  <2>3. first[i] + k + 1 = first[j] + l + 1
    <3>1. at[u] = first[i] + k + 1 BY <1>1, <2>1
    <3>2. at[v] = first[j] + l + 1 BY <1>1, <2>2
    <3> QED BY <3>1, <3>2
  <2>4. first[i] \in Nat /\ first[j] \in Nat /\ size[i] \in Nat /\ size[j] \in Nat OBVIOUS
  <2>5. ~ i < j /\ ~ j < i
    <3>1. i < j => first[i] + size[i] <= first[j] BY <1>3
    <3>2. j < i => first[j] + size[j] <= first[i] BY <1>3
    <3> QED BY <2>1, <2>2, <2>3, <2>4, <3>1, <3>2
  <2>6. i = j BY <2>5
  <2>7. k = l BY <2>3, <2>4, <2>6
  <2> QED BY <2>1, <2>2, <2>6, <2>7
<1>6. \A j \in 1 .. n : \E u \in S : at[u] = j
  <2> TAKE j \in 1 .. n
  <2>1. PICK i \in 1 .. 3 : first[i] < j /\ j <= first[i] + size[i] OBVIOUS
  <2>2. first[i] \in Nat /\ size[i] \in Nat OBVIOUS
  <2>3. PICK k \in Nat : k = j - first[i] - 1 BY <2>1, <2>2
  <2>4. k < size[i] /\ first[i] + k + 1 = j BY <2>1, <2>2, <2>3
  <2>5. <<g[i], k>> \in S /\ at[<<g[i], k>>] = j BY <1>1, <2>4
  <2> QED BY <2>5
<1>7. at \in [S -> 1 .. n] BY <1>4 DEF at
<1>8. IsFiniteSet(1 .. n) /\ Cardinality(1 .. n) = n
  <2>1. 1 > n => n = 0 OBVIOUS
  <2> QED BY <2>1, FS_Interval
<1>9. IsFiniteSet(S)
  <2>1. at \in Injection(S, 1 .. n) BY <1>5, <1>7 DEF Injection, IsInjective
  <2> QED BY <1>8, <2>1, FS_Injection
<1>10. Cardinality(S) = n BY <1>5, <1>6, <1>7, <1>8, <1>9, SameCount
<1>11. ASSUME NEW r
       PROVE  Cardinality({u \in S : content[u] = r}) = Cardinality({j \in 1 .. n : m[j] = r})
  <2> DEFINE A == {u \in S : content[u] = r}
             B == {j \in 1 .. n : m[j] = r}
             f == [u \in A |-> at[u]]
  <2>1. f \in [A -> B] BY <1>4
  <2>2. \A u, v \in A : f[u] = f[v] => u = v BY <1>5
  <2>3. \A j \in B : \E u \in A : f[u] = j
    <3> TAKE j \in B
    <3>1. PICK u \in S : at[u] = j BY <1>6
    <3>2. u \in A BY <1>4, <3>1
    <3> QED BY <3>1, <3>2
  <2>4. IsFiniteSet(A) BY <1>9, FS_Subset
  <2> HIDE DEF A, B, f
  <2>5. Cardinality(B) = Cardinality(A) BY <2>1, <2>2, <2>3, <2>4, SameCount
  <2> QED BY <2>5 DEF A, B
<1>12. {content[u] : u \in S} = {m[j] : j \in 1 .. n} BY <1>4, <1>6
<1> QED BY <1>9, <1>10, <1>11, <1>12 DEF SameRecords

\* What HeadsIsCount and SlotsAre say of a state holds of the next one too.
LEMMA CountOfSlots == TypeInv => /\ Heads = Cardinality(Slots) /\ IsFiniteSet(Slots)
                                 /\ Slots = {u \in InUse \X Track : u[2] < zone[u[1]].whp}
BY HeadsIsCount, SlotsAre

LEMMA NextCountOfSlots ==
  ASSUME TypeInv'
  PROVE  /\ Heads' = Cardinality(Slots') /\ IsFiniteSet(Slots')
         /\ Slots' = {u \in InUse' \X Track : u[2] < zone'[u[1]].whp}
<1>1. TypeInv' => (/\ Heads = Cardinality(Slots) /\ IsFiniteSet(Slots)
                   /\ Slots = {u \in InUse \X Track : u[2] < zone[u[1]].whp})'
  BY CountOfSlots, PTL
<1> QED BY <1>1

\* The slots of the three zones of a round, before and after it.
LEMMA SlotsPouredFrom ==
  ASSUME TypeInv, ConvertRound
  PROVE  LET S == {u \in Slots : u[1] \in Grouped}
             n == Len(Moved)
         IN  /\ n \in Nat /\ IsFiniteSet(S) /\ Cardinality(S) = n
             /\ \A r : Cardinality({u \in S : zone[u[1]].blocks[u[2]] = r})
                          = Cardinality({j \in 1 .. n : Moved[j] = r})
             /\ {zone[u[1]].blocks[u[2]] : u \in S} = {Moved[j] : j \in 1 .. n}
<1> DEFINE S == {u \in Slots : u[1] \in Grouped}
           n == Len(Moved)
           first == [i \in 1 .. 3 |-> TakenBefore(i)]
           size == [i \in 1 .. 3 |-> zone[Group[i]].whp]
           content == [u \in InUse \X Track |-> zone[u[1]].blocks[u[2]]]
<1>1. /\ zone \in [Zone -> Entry]
      /\ \A i \in 1 .. 3 : Group[i] \in InUse /\ Group[i] \in Zone
      /\ \A i, j \in 1 .. 3 : Group[i] = Group[j] => i = j
  BY RoundZones, TypeFacts
<1>2. /\ n = zone[Group[1]].whp + zone[Group[2]].whp + zone[Group[3]].whp
      /\ n \in 0 .. 3 * ZoneTracks
      /\ \A i \in 1 .. 3 : \A k \in 0 .. zone[Group[i]].whp - 1 :
            /\ TakenBefore(i) + k + 1 \in 1 .. n
            /\ Moved[TakenBefore(i) + k + 1] = zone[Group[i]].blocks[k]
  BY <1>1, MovedBlocks
<1>3. \A i \in 1 .. 3 : zone[Group[i]].whp \in 0 .. ZoneTracks BY <1>1 DEF Entry
<1>4. S = {u \in InUse \X Track : u[2] < zone[u[1]].whp /\ u[1] \in Grouped} BY SlotsAre
<1>5. \A u \in S : content[u] = zone[u[1]].blocks[u[2]] BY <1>4
<1>6. \A z : z \in Grouped <=> \E i \in 1 .. 3 : z = Group[i] BY DEF Grouped
<1>7. \A i \in 1 .. 3 : size[i] \in 0 .. ZoneTracks /\ size[i] = zone[Group[i]].whp BY <1>3
<1>8. /\ first[1] = 0 /\ first[2] = size[1] /\ first[3] = size[1] + size[2]
      /\ \A i \in 1 .. 3 : first[i] = TakenBefore(i)
  BY DEF TakenBefore
<1>9. n = size[1] + size[2] + size[3] /\ n \in Nat BY <1>2, Sizes
<1>10. \A i \in 1 .. 3 : size[i] \in Nat BY <1>7, Sizes
<1>11. ASSUME NEW i \in 1 .. 3, NEW k \in Nat, k < size[i]
       PROVE  /\ first[i] + k + 1 <= n /\ <<Group[i], k>> \in S
              /\ content[<<Group[i], k>>] = Moved[first[i] + k + 1]
  <2>1. k \in 0 .. zone[Group[i]].whp - 1 /\ k \in Track BY <1>7, <1>11, Sizes DEF Track
  <2>2. first[i] = TakenBefore(i) BY <1>8
  <2>3. first[i] + k + 1 \in 1 .. n /\ Moved[first[i] + k + 1] = zone[Group[i]].blocks[k]
    BY <1>2, <2>1, <2>2
  <2>4. <<Group[i], k>> \in S BY <1>1, <1>4, <1>6, <1>7, <1>11, <2>1
  <2>5. content[<<Group[i], k>>] = zone[Group[i]].blocks[k] BY <1>5, <2>4
  <2> HIDE DEF n, first, S, content
  <2>6. first[i] + k + 1 <= n BY <1>9, <2>3
  <2> QED BY <2>3, <2>4, <2>5, <2>6
<1>12. ASSUME NEW u \in S
       PROVE  \E i \in 1 .. 3 : \E k \in Nat : u = <<Group[i], k>> /\ k < size[i]
  <2>1. u = <<u[1], u[2]>> /\ u[2] \in Nat /\ u[2] < zone[u[1]].whp /\ u[1] \in Grouped
    BY <1>4, Sizes DEF Track
  <2>2. PICK i \in 1 .. 3 : u[1] = Group[i] BY <1>6, <2>1
  <2> QED BY <1>7, <2>1, <2>2
<1> HIDE DEF S, n, first, size, content
<1>13. \A i \in 1 .. 3 : first[i] \in Nat
  <2>1. size[1] \in Nat /\ size[2] \in Nat BY <1>10
  <2> QED BY <1>8, <2>1
<1>14. first[1] + size[1] <= first[2] /\ first[2] + size[2] <= first[3]
  <2>1. size[1] \in Nat /\ size[2] \in Nat BY <1>10
  <2> QED BY <1>8, <2>1
<1>15. ASSUME NEW j \in 1 .. n
       PROVE  \E i \in 1 .. 3 : first[i] < j /\ j <= first[i] + size[i]
  <2>1. size[1] \in Nat /\ size[2] \in Nat /\ size[3] \in Nat BY <1>10
  <2>2. j \in Nat /\ 1 <= j /\ j <= size[1] + size[2] + size[3] BY <1>9, <2>1
  <2>3. CASE j <= size[1] BY <1>8, <2>1, <2>2, <2>3
  <2>4. CASE j > size[1] /\ j <= size[1] + size[2] BY <1>8, <2>1, <2>2, <2>4
  <2>5. CASE j > size[1] + size[2] BY <1>8, <2>1, <2>2, <2>5
  <2> QED BY <2>1, <2>2, <2>3, <2>4, <2>5
<1>16. SameRecords(n, S, content, Moved)
  <2>1. InRow(n, first, size, Group, S, content, Moved)
    BY <1>1, <1>10, <1>11, <1>12, <1>13, <1>14, <1>15 DEF InRow
  <2> QED BY <1>9, <2>1, PiecesFill
<1>17. \A r : {u \in S : content[u] = r} = {u \in S : zone[u[1]].blocks[u[2]] = r} BY <1>5
<1>18. {content[u] : u \in S} = {zone[u[1]].blocks[u[2]] : u \in S} BY <1>5
<1> QED BY <1>9, <1>16, <1>17, <1>18 DEF S, n, SameRecords

LEMMA SlotsPouredInto ==
  ASSUME TypeInv, ConvertRound
  PROVE  LET S == {u \in Slots' : u[1] \in Grouped}
             n == Len(Moved)
         IN  /\ n \in Nat /\ IsFiniteSet(S) /\ Cardinality(S) = n
             /\ \A r : Cardinality({u \in S : zone'[u[1]].blocks[u[2]] = r})
                          = Cardinality({j \in 1 .. n : Moved[j] = r})
             /\ {zone'[u[1]].blocks[u[2]] : u \in S} = {Moved[j] : j \in 1 .. n}
<1> DEFINE S == {u \in Slots' : u[1] \in Grouped}
           n == Len(Moved)
           first == [i \in 1 .. 3 |-> PouredBefore(i)]
           size == [i \in 1 .. 3 |-> NewHead(i)]
           content == [u \in InUse \X Track |-> zone'[u[1]].blocks[u[2]]]
<1>1. /\ zone \in [Zone -> Entry]
      /\ \A i \in 1 .. 3 : Group[i] \in InUse /\ Group[i] \in Zone
      /\ \A i, j \in 1 .. 3 : Group[i] = Group[j] => i = j
      /\ \A i \in 1 .. 3 : zone'[Group[i]] = Converted[i]
  BY RoundZones, TypeFacts
<1>2. n \in 0 .. 3 * ZoneTracks BY <1>1, MovedBlocks
<1>3. ASSUME NEW i \in 1 .. 3
      PROVE  /\ NewHead(i) \in 0 .. ZoneTracks
             /\ PouredBefore(i) = IF i = 1 THEN 0
                                  ELSE IF i = 2 THEN ZoneTracks ELSE 2 * ZoneTracks
             /\ \A k \in 0 .. ZoneTracks - 1 :
                   k < NewHead(i) <=> PouredBefore(i) + k + 1 \in 1 .. n
    BY <1>2, NewHeads
<1>4. TypeInv' BY ConvertRoundKeepsTypes
<1>5. InUse' = InUse BY DEF ConvertRound, InUse
<1>6. S = {u \in InUse \X Track : u[2] < zone'[u[1]].whp /\ u[1] \in Grouped}
  BY <1>4, <1>5, NextCountOfSlots
<1>7. \A u \in S : content[u] = zone'[u[1]].blocks[u[2]] BY <1>6
<1>8. \A z : z \in Grouped <=> \E i \in 1 .. 3 : z = Group[i] BY DEF Grouped
<1>9. ASSUME NEW i \in 1 .. 3
      PROVE  /\ zone'[Group[i]].whp = NewHead(i)
             /\ \A k \in Track : k < NewHead(i) =>
                   zone'[Group[i]].blocks[k] = Moved[PouredBefore(i) + k + 1]
  <2>1. zone'[Group[i]] = Converted[i] BY <1>1
  <2>2. /\ Converted[i].whp = NewHead(i)
        /\ \A k \in Track : k < NewHead(i) =>
              Converted[i].blocks[k] = Moved[PouredBefore(i) + k + 1]
    BY <1>1, ConvertedType
  <2> QED BY <2>1, <2>2
<1>10. \A i \in 1 .. 3 : /\ size[i] = NewHead(i) /\ first[i] = PouredBefore(i)
                         /\ size[i] \in 0 .. ZoneTracks
  BY <1>3
<1>11. n \in Nat /\ n <= 3 * ZoneTracks BY <1>2, Sizes
<1>12. first[1] = 0 /\ first[2] = ZoneTracks /\ first[3] = 2 * ZoneTracks BY <1>3
<1> HIDE DEF n, first, size, content
<1>13. ASSUME NEW i \in 1 .. 3, NEW k \in Nat, k < size[i]
       PROVE  /\ first[i] + k + 1 <= n /\ <<Group[i], k>> \in S
              /\ content[<<Group[i], k>>] = Moved[first[i] + k + 1]
  <2>1. size[i] = NewHead(i) /\ first[i] = PouredBefore(i) /\ size[i] \in 0 .. ZoneTracks
    BY <1>10
  <2>2. k \in 0 .. ZoneTracks - 1 BY <1>13, <2>1, Sizes
  <2>3. first[i] + k + 1 \in 1 .. n BY <1>3, <1>13, <2>1, <2>2
  <2>4. k \in Track BY <2>2 DEF Track
  <2>5. <<Group[i], k>> \in S BY <1>1, <1>6, <1>8, <1>9, <1>13, <2>1, <2>4
  <2>6. content[<<Group[i], k>>] = zone'[Group[i]].blocks[k] BY <1>7, <2>5
  <2>7. zone'[Group[i]].blocks[k] = Moved[first[i] + k + 1] BY <1>9, <1>13, <2>1, <2>4
  <2>8. first[i] + k + 1 <= n BY <1>11, <2>3
  <2> QED BY <2>5, <2>6, <2>7, <2>8
<1>14. ASSUME NEW u \in S
       PROVE  \E i \in 1 .. 3 : \E k \in Nat : u = <<Group[i], k>> /\ k < size[i]
  <2>1. u = <<u[1], u[2]>> /\ u[2] \in Nat /\ u[2] < zone'[u[1]].whp /\ u[1] \in Grouped
    BY <1>6, Sizes DEF Track
  <2>2. PICK i \in 1 .. 3 : u[1] = Group[i] BY <1>8, <2>1
  <2> QED BY <1>9, <1>10, <2>1, <2>2
<1> HIDE DEF S
<1>15. \A i \in 1 .. 3 : first[i] \in Nat /\ size[i] \in Nat
  BY <1>10, <1>12, Sizes
<1>16. first[1] + size[1] <= first[2] /\ first[2] + size[2] <= first[3]
  <2>1. /\ size[1] \in Nat /\ size[1] <= ZoneTracks /\ size[2] \in Nat /\ size[2] <= ZoneTracks
    BY <1>10, Sizes
  <2> QED BY <1>12, <2>1, Sizes
<1>17. ASSUME NEW j \in 1 .. n
       PROVE  \E i \in 1 .. 3 : first[i] < j /\ j <= first[i] + size[i]
  <2>1. j \in Nat /\ 1 <= j /\ j <= n /\ j <= 3 * ZoneTracks BY <1>11, Sizes
  <2>2. PICK i \in 1 .. 3 : first[i] < j /\ j <= first[i] + ZoneTracks
    <3>1. CASE j <= ZoneTracks BY <1>12, <2>1, <3>1, Sizes
    <3>2. CASE j > ZoneTracks /\ j <= 2 * ZoneTracks BY <1>12, <2>1, <3>2, Sizes
    <3>3. CASE j > 2 * ZoneTracks BY <1>12, <2>1, <3>3, Sizes
    <3> QED BY <2>1, <3>1, <3>2, <3>3, Sizes
  <2>3. first[i] \in Nat /\ size[i] \in Nat /\ ZoneTracks \in Nat BY <1>15, Sizes
  <2>4. PICK k \in Nat : k = j - first[i] - 1 BY <2>1, <2>2, <2>3
  <2>5. k \in 0 .. ZoneTracks - 1 /\ first[i] + k + 1 = j BY <2>1, <2>2, <2>3, <2>4
  <2>6. k < size[i] BY <1>3, <1>10, <2>5
  <2>7. j <= first[i] + size[i] BY <2>1, <2>3, <2>5, <2>6
  <2> QED BY <2>2, <2>7
<1>18. SameRecords(n, S, content, Moved)
  <2>1. InRow(n, first, size, Group, S, content, Moved)
    BY <1>1, <1>13, <1>14, <1>15, <1>16, <1>17 DEF InRow
  <2> QED BY <1>11, <2>1, PiecesFill
<1>19. \A r : {u \in S : content[u] = r} = {u \in S : zone'[u[1]].blocks[u[2]] = r} BY <1>7
<1>20. {content[u] : u \in S} = {zone'[u[1]].blocks[u[2]] : u \in S} BY <1>7
<1> QED BY <1>11, <1>18, <1>19, <1>20 DEF S, n, SameRecords

\* The blocks that the zones record, and the places of one of them, by slot.
LEMMA RecordsBySlot ==
  ASSUME TypeInv
  PROVE  /\ Recorded = {zone[u[1]].blocks[u[2]] : u \in Slots}
         /\ \A fid, b : Copies(fid, b) = {u \in Slots :
                            zone[u[1]].blocks[u[2]] = [fid |-> fid, lba |-> b]}
<1>1. Slots = {u \in InUse \X Track : u[2] < zone[u[1]].whp} BY SlotsAre
<1>2. \A z \in InUse : zone[z].whp \in 0 .. ZoneTracks BY TypeFacts DEF Entry
<1>3. ASSUME NEW z \in InUse, NEW k \in 0 .. zone[z].whp - 1
      PROVE  <<z, k>> \in Slots
  <2>1. zone[z].whp \in Nat /\ zone[z].whp <= ZoneTracks BY <1>2, Sizes
  <2>2. k \in Track /\ k < zone[z].whp BY <2>1, Sizes DEF Track
  <2> QED BY <1>1, <2>2
<1>4. ASSUME NEW u \in Slots
      PROVE  u[1] \in InUse /\ u[2] \in 0 .. zone[u[1]].whp - 1
  <2>1. u[1] \in InUse /\ u[2] \in Track /\ u[2] < zone[u[1]].whp BY <1>1
  <2>2. zone[u[1]].whp \in Nat BY <1>2, <2>1, Sizes
  <2> QED BY <2>1, <2>2, Sizes DEF Track
<1>5. Recorded \subseteq {zone[u[1]].blocks[u[2]] : u \in Slots}
  <2> SUFFICES ASSUME NEW x \in Recorded PROVE \E u \in Slots : x = zone[u[1]].blocks[u[2]]
    OBVIOUS
  <2>1. PICK z \in InUse : x \in {zone[z].blocks[k] : k \in 0 .. zone[z].whp - 1}
    BY DEF Recorded
  <2>2. PICK k \in 0 .. zone[z].whp - 1 : x = zone[z].blocks[k] BY <2>1
  <2>3. <<z, k>> \in Slots BY <1>3
  <2> QED BY <2>2, <2>3
<1>6. {zone[u[1]].blocks[u[2]] : u \in Slots} \subseteq Recorded
  <2> SUFFICES ASSUME NEW u \in Slots PROVE zone[u[1]].blocks[u[2]] \in Recorded OBVIOUS
  <2>1. zone[u[1]].blocks[u[2]] \in {zone[u[1]].blocks[k] : k \in 0 .. zone[u[1]].whp - 1}
    BY <1>4
  <2> QED BY <1>4, <2>1 DEF Recorded
<1>7. ASSUME NEW fid, NEW b
      PROVE  Copies(fid, b) = {u \in Slots :
                                 zone[u[1]].blocks[u[2]] = [fid |-> fid, lba |-> b]}
  BY <1>1 DEF Copies
<1> QED BY <1>5, <1>6, <1>7

LEMMA RecordsAreBySlot ==
  TypeInv => /\ Recorded = {zone[u[1]].blocks[u[2]] : u \in Slots}
             /\ \A fid, b : Copies(fid, b) = {u \in Slots :
                               zone[u[1]].blocks[u[2]] = [fid |-> fid, lba |-> b]}
BY RecordsBySlot

LEMMA NextRecordsBySlot ==
  ASSUME TypeInv'
  PROVE  /\ Recorded' = {zone'[u[1]].blocks[u[2]] : u \in Slots'}
         /\ \A fid, b : Copies(fid, b)' = {u \in Slots' :
                            zone'[u[1]].blocks[u[2]] = [fid |-> fid, lba |-> b]}
<1>1. TypeInv' => (/\ Recorded = {zone[u[1]].blocks[u[2]] : u \in Slots}
                   /\ \A fid, b : Copies(fid, b) = {u \in Slots :
                               zone[u[1]].blocks[u[2]] = [fid |-> fid, lba |-> b]})'
  BY RecordsAreBySlot, PTL
<1> QED BY <1>1

\* The slots of S that hold record x, counted in two parts.
Holding(S, content, x) == {u \in S : content[u] = x}

LEMMA CountInParts ==
  ASSUME NEW A, IsFiniteSet(A), NEW B, IsFiniteSet(B), A \cap B = {}, NEW content, NEW x
  PROVE  Cardinality(Holding(A \cup B, content, x)) =
           Cardinality(Holding(A, content, x)) + Cardinality(Holding(B, content, x))
<1>1. /\ Holding(A \cup B, content, x) = Holding(A, content, x) \cup Holding(B, content, x)
      /\ Holding(A, content, x) \cap Holding(B, content, x) = {}
  BY DEF Holding
<1>2. IsFiniteSet(Holding(A, content, x)) /\ IsFiniteSet(Holding(B, content, x))
  BY FS_Subset DEF Holding
<1> QED BY <1>1, <1>2, DisjointCount

LEMMA ConversionRecords ==
  ASSUME TypeInv, ConvertRound
  PROVE  /\ Recorded' = Recorded /\ Heads' = Heads
         /\ \A fid, b : Cardinality(Copies(fid, b)') = Cardinality(Copies(fid, b))
<1> DEFINE S == Slots
           T == Slots'
           G == Grouped
           A == {u \in S : u[1] \in G}
           B == {u \in T : u[1] \in G}
           O == {u \in S : u[1] \notin G}
           P == {u \in T : u[1] \notin G}
           n == Len(Moved)
           M == {Moved[j] : j \in 1 .. n}
           c == [u \in InUse \X Track |-> zone[u[1]].blocks[u[2]]]
           d == [u \in InUse \X Track |-> zone'[u[1]].blocks[u[2]]]
<1>1. TypeInv' /\ InUse' = InUse BY ConvertRoundKeepsTypes DEF ConvertRound, InUse
<1>2. /\ S = {u \in InUse \X Track : u[2] < zone[u[1]].whp} /\ IsFiniteSet(S)
      /\ Heads = Cardinality(S)
  BY CountOfSlots
<1>3. /\ T = {u \in InUse \X Track : u[2] < zone'[u[1]].whp} /\ IsFiniteSet(T)
      /\ Heads' = Cardinality(T)
  BY <1>1, NextCountOfSlots
<1>4. \A z \in InUse : z \notin G => zone'[z] = zone[z]
  <2>1. InUse \subseteq Zone /\ used \notin InUse BY RoundZones, TypeFacts
  <2> QED BY <2>1, RoundZones
<1>5. /\ \A u \in S : u \in InUse \X Track /\ c[u] = zone[u[1]].blocks[u[2]]
      /\ \A u \in T : u \in InUse \X Track /\ d[u] = zone'[u[1]].blocks[u[2]]
  BY <1>2, <1>3
<1>6. /\ Recorded = {c[u] : u \in S} /\ Recorded' = {d[u] : u \in T}
      /\ \A fid, b : /\ Copies(fid, b) = {u \in S : c[u] = [fid |-> fid, lba |-> b]}
                     /\ Copies(fid, b)' = {u \in T : d[u] = [fid |-> fid, lba |-> b]}
  <2>1. /\ Recorded = {zone[u[1]].blocks[u[2]] : u \in S}
        /\ \A fid, b : Copies(fid, b) = {u \in S :
                          zone[u[1]].blocks[u[2]] = [fid |-> fid, lba |-> b]}
    BY RecordsBySlot
  <2>2. /\ Recorded' = {zone'[u[1]].blocks[u[2]] : u \in T}
        /\ \A fid, b : Copies(fid, b)' = {u \in T :
                          zone'[u[1]].blocks[u[2]] = [fid |-> fid, lba |-> b]}
    BY <1>1, NextRecordsBySlot
  <2> HIDE DEF S, T, c, d
  <2> QED BY <1>5, <2>1, <2>2
<1>7. /\ IsFiniteSet(A) /\ Cardinality(A) = n /\ n \in Nat
      /\ \A r : Cardinality({u \in A : zone[u[1]].blocks[u[2]] = r})
                   = Cardinality({j \in 1 .. n : Moved[j] = r})
      /\ {zone[u[1]].blocks[u[2]] : u \in A} = M
  BY SlotsPouredFrom
<1>8. /\ IsFiniteSet(B) /\ Cardinality(B) = n
      /\ \A r : Cardinality({u \in B : zone'[u[1]].blocks[u[2]] = r})
                   = Cardinality({j \in 1 .. n : Moved[j] = r})
      /\ {zone'[u[1]].blocks[u[2]] : u \in B} = M
  BY SlotsPouredInto
<1> HIDE DEF S, T, G, n, M, c, d
<1>9. P = O /\ \A u \in O : c[u] = d[u]
  <2>1. \A u \in InUse \X Track : u[1] \notin G => zone'[u[1]] = zone[u[1]] BY <1>4
  <2>2. P = O BY <1>2, <1>3, <2>1
  <2> QED BY <1>5, <2>1, <2>2
<1>10. S = O \cup A /\ T = P \cup B /\ O \cap A = {} /\ P \cap B = {} OBVIOUS
<1>11. {c[u] : u \in A} = M /\ {d[u] : u \in B} = M
  <2>1. {c[u] : u \in A} = {zone[u[1]].blocks[u[2]] : u \in A} BY <1>5
  <2>2. {d[u] : u \in B} = {zone'[u[1]].blocks[u[2]] : u \in B} BY <1>5
  <2> QED BY <1>7, <1>8, <2>1, <2>2
<1>12. Recorded' = Recorded
  <2>1. {c[u] : u \in S} = {c[u] : u \in O} \cup {c[u] : u \in A} BY <1>10
  <2>2. {d[u] : u \in T} = {d[u] : u \in P} \cup {d[u] : u \in B} BY <1>10
  <2>3. {d[u] : u \in P} = {c[u] : u \in O} BY <1>9
  <2> QED BY <1>6, <1>11, <2>1, <2>2, <2>3
<1>13. ASSUME NEW x
       PROVE  Cardinality({u \in T : d[u] = x}) = Cardinality({u \in S : c[u] = x})
  <2>1. Holding(A, c, x) = {u \in A : zone[u[1]].blocks[u[2]] = x} BY <1>5 DEF Holding
  <2>2. Holding(B, d, x) = {u \in B : zone'[u[1]].blocks[u[2]] = x} BY <1>5 DEF Holding
  <2>3. Cardinality(Holding(A, c, x)) = Cardinality(Holding(B, d, x))
    BY <1>7, <1>8, <2>1, <2>2
  <2>4. Holding(P, d, x) = Holding(O, c, x) BY <1>9 DEF Holding
  <2>5. IsFiniteSet(O) BY <1>2, FS_Subset
  <2> HIDE DEF O, P, A, B
  <2>6. Cardinality(Holding(O \cup A, c, x))
          = Cardinality(Holding(O, c, x)) + Cardinality(Holding(A, c, x))
    BY <1>7, <1>10, <2>5, CountInParts
  <2>7. Cardinality(Holding(P \cup B, d, x))
          = Cardinality(Holding(P, d, x)) + Cardinality(Holding(B, d, x))
    BY <1>8, <1>9, <1>10, <2>5, CountInParts
  <2>8. Cardinality(Holding(T, d, x)) = Cardinality(Holding(S, c, x))
    BY <1>10, <2>3, <2>4, <2>6, <2>7
  <2> QED BY <2>8 DEF Holding
<1>14. Heads' = Heads
  <2>1. IsFiniteSet(O) BY <1>2, FS_Subset
  <2> HIDE DEF O, P, A, B
  <2>2. Cardinality(O \cup A) = Cardinality(O) + n BY <1>7, <1>10, <2>1, DisjointCount
  <2>3. Cardinality(P \cup B) = Cardinality(P) + n BY <1>8, <1>9, <1>10, <2>1, DisjointCount
  <2> QED BY <1>2, <1>3, <1>9, <1>10, <2>2, <2>3
<1> QED BY <1>6, <1>12, <1>13, <1>14

\* Over a round of a conversion, whatever the three zones and their write
\* heads, every record of the space survives, each as often as before.
THEOREM FluidConversionKeepsRecords == Spec => ConversionKeepsRecords
<1> DEFINE Kept == ConvertRound /\ ~ NoSpace =>
              /\ Recorded' = Recorded /\ Heads' = Heads
              /\ \A r \in Recorded :
                    Cardinality(Copies(r.fid, r.lba)') = Cardinality(Copies(r.fid, r.lba))
<1>1. ASSUME TypeInv PROVE Kept
  <2> SUFFICES ASSUME ConvertRound
               PROVE  /\ Recorded' = Recorded /\ Heads' = Heads
                      /\ \A r \in Recorded :
                            Cardinality(Copies(r.fid, r.lba)')
                              = Cardinality(Copies(r.fid, r.lba))
    OBVIOUS
  <2>1. /\ Recorded' = Recorded /\ Heads' = Heads
        /\ \A fid, b : Cardinality(Copies(fid, b)') = Cardinality(Copies(fid, b))
    BY <1>1, ConversionRecords
  <2>2. ASSUME NEW r \in Recorded
        PROVE  Cardinality(Copies(r.fid, r.lba)') = Cardinality(Copies(r.fid, r.lba))
    <3>1. PICK fid, b : fid = r.fid /\ b = r.lba OBVIOUS
    <3>2. Cardinality(Copies(fid, b)') = Cardinality(Copies(fid, b)) BY <2>1
    <3> QED BY <3>1, <3>2
  <2> QED BY <2>1, <2>2
<1>2. Spec => [][Kept]_vars
  <2>1. ASSUME TypeInv PROVE [Kept]_vars BY <1>1, <2>1
  <2> HIDE DEF Kept
  <2> QED BY <2>1, TypeInvariance, PTL DEF Spec
<1> QED BY <1>2, PTL DEF ConversionKeepsRecords
=============================================================================
