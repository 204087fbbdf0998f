---------------------------- MODULE BatchProofs ----------------------------
(***************************************************************************)
(* Proofs that the loops of batch_extend, batch_extend_fluidsmr and of the *)
(* record functions compute what Disk states in closed form, for disks,    *)
(* bands and batches of any size.                                          *)
(***************************************************************************)
EXTENDS BatchLoops, DiskProofs, SequenceTheorems

-----------------------------------------------------------------------------
(* The order of a table.                                                   *)

Item == [pass : Nat, track : Track]

LEMMA BeforeIsOrder ==
  /\ \A e \in Item : ~ Before(e, e)
  /\ \A e, f \in Item : Before(e, f) => ~ Before(f, e)
  /\ \A e, f, g \in Item : Before(e, f) /\ Before(f, g) => Before(e, g)
  /\ \A e, f \in Item : e # f => Before(e, f) \/ Before(f, e)
<1>1. \A e \in Item : e.pass \in Int /\ e.track \in Int BY MaxBlockPositive DEF Item, Track
<1>2. \A e, f \in Item : e.pass = f.pass /\ e.track = f.track => e = f BY DEF Item
<1>3. \A e, f \in Item : e # f => Before(e, f) \/ Before(f, e) BY <1>1, <1>2 DEF Before
<1>4. \A e \in Item : ~ Before(e, e) BY <1>1 DEF Before
<1>5. \A e, f \in Item : Before(e, f) => ~ Before(f, e) BY <1>1 DEF Before
<1>6. ASSUME NEW e \in Item, NEW f \in Item, NEW g \in Item, Before(e, f), Before(f, g)
      PROVE  Before(e, g)
  BY <1>1, <1>6 DEF Before
<1> QED BY <1>3, <1>4, <1>5, <1>6

Earlier(E, e) == {g \in E : Before(g, e)}

LEMMA EarlierFinite ==
  ASSUME NEW E \in SUBSET Item, IsFiniteSet(E), NEW e
  PROVE  IsFiniteSet(Earlier(E, e)) /\ Cardinality(Earlier(E, e)) \in Nat
<1>1. Earlier(E, e) \in SUBSET E BY DEF Earlier
<1> QED BY <1>1, FS_Subset, FS_CardinalityType

LEMMA PlaceType ==
  ASSUME NEW E \in SUBSET Item, IsFiniteSet(E), NEW e \in E
  PROVE  Place(E, e) \in 1 .. Cardinality(E) /\ Place(E, e) \in Nat
<1> DEFINE P == Earlier(E, e)
<1>1. IsFiniteSet(P) /\ Cardinality(P) \in Nat BY EarlierFinite
<1>2. P \subseteq E /\ e \notin P BY BeforeIsOrder DEF Earlier
<1>3. Place(E, e) = 1 + Cardinality(P) BY DEF Place, Earlier
<1> HIDE DEF P
<1>4. P \cup {e} \in SUBSET E BY <1>2
<1>5. Cardinality(P \cup {e}) = Cardinality(P) + 1 BY <1>1, <1>2, FS_AddElement
<1>6. Cardinality(P \cup {e}) <= Cardinality(E) /\ Cardinality(E) \in Nat
  BY <1>4, FS_Subset, FS_CardinalityType
<1> QED BY <1>1, <1>3, <1>5, <1>6

LEMMA PlaceGrows ==
  ASSUME NEW E \in SUBSET Item, IsFiniteSet(E), NEW e \in E, NEW f \in E, Before(e, f)
  PROVE  Place(E, e) < Place(E, f)
<1> DEFINE P == Earlier(E, e)
           Q == Earlier(E, f)
<1>1. P \subseteq Q /\ e \in Q /\ e \notin P BY BeforeIsOrder DEF Earlier
<1>2. /\ IsFiniteSet(Q) /\ Cardinality(P) \in Nat /\ Cardinality(Q) \in Nat BY EarlierFinite
<1>3. Place(E, e) = 1 + Cardinality(P) /\ Place(E, f) = 1 + Cardinality(Q)
  BY DEF Place, Earlier
<1> HIDE DEF P, Q
<1>4. P \in SUBSET Q /\ P # Q BY <1>1
<1>5. Cardinality(P) <= Cardinality(Q) /\ Cardinality(Q) # Cardinality(P)
  BY <1>2, <1>4, FS_Subset
<1> QED BY <1>2, <1>3, <1>5

\* Places are in the order of the entries, one for each.
LEMMA PlaceOrder ==
  ASSUME NEW E \in SUBSET Item, IsFiniteSet(E), NEW e \in E, NEW f \in E
  PROVE  /\ Place(E, e) < Place(E, f) <=> Before(e, f)
         /\ Place(E, e) = Place(E, f) => e = f
<1>1. Place(E, e) \in Nat /\ Place(E, f) \in Nat BY PlaceType
<1>2. Before(e, f) => Place(E, e) < Place(E, f) BY PlaceGrows
<1>3. Before(f, e) => Place(E, f) < Place(E, e) BY PlaceGrows
<1>4. e = f \/ Before(e, f) \/ Before(f, e) BY BeforeIsOrder
<1> QED BY <1>1, <1>2, <1>3, <1>4

LEMMA PlaceOnto ==
  ASSUME NEW E \in SUBSET Item, IsFiniteSet(E), NEW k \in 1 .. Cardinality(E)
  PROVE  \E e \in E : Place(E, e) = k
<1> DEFINE T == 1 .. Cardinality(E)
           f == [e \in E |-> Place(E, e)]
<1>1. Cardinality(E) \in Nat BY FS_CardinalityType
<1>2. IsFiniteSet(T) /\ Cardinality(T) = Cardinality(E) BY <1>1, FS_Interval
<1>3. f \in [E -> T] BY PlaceType
<1>4. \A e, g \in E : f[e] = f[g] => e = g BY PlaceOrder
<1>5. f \in Injection(E, T) BY <1>3, <1>4 DEF Injection, IsInjective
<1>6. f \in Surjection(E, T) BY <1>2, <1>5, FS_Injection
<1> QED BY <1>6 DEF Surjection

-----------------------------------------------------------------------------
(* Sequences that list a table in its order.                               *)

Row == [track : Track, virtual : BOOLEAN]
RowOf(e) == [track |-> e.track, virtual |-> IsVirtual(e)]

Lists(s, E) ==
    /\ E \in SUBSET Item /\ IsFiniteSet(E)
    /\ s \in Seq(Row) /\ Len(s) = Cardinality(E)
    /\ \A e \in E : s[Place(E, e)] = RowOf(e)

LEMMA ListsNothing == Lists(<<>>, {})
BY FS_EmptySet DEF Lists

LEMMA ListsBoth ==
  ASSUME NEW E, NEW F, NEW s, NEW t, Lists(s, E), Lists(t, F),
         \A e \in E, f \in F : Before(e, f)
  PROVE  Lists(s \o t, E \cup F)
<1> DEFINE U == E \cup F
<1>0. /\ E \in SUBSET Item /\ F \in SUBSET Item /\ IsFiniteSet(E) /\ IsFiniteSet(F)
      /\ s \in Seq(Row) /\ t \in Seq(Row)
      /\ Len(s) = Cardinality(E) /\ Len(t) = Cardinality(F)
  BY DEF Lists
<1>1. E \cap F = {} BY <1>0, BeforeIsOrder
<1>2. /\ Cardinality(E) \in Nat /\ Cardinality(F) \in Nat
      /\ Cardinality(U) = Cardinality(E) + Cardinality(F) /\ IsFiniteSet(U)
  BY <1>0, <1>1, DisjointCount, FS_CardinalityType, FS_Union
<1>3. /\ s \o t \in Seq(Row) /\ Len(s \o t) = Cardinality(U)
      /\ \A k \in 1 .. Cardinality(U) :
            (s \o t)[k] = IF k <= Cardinality(E) THEN s[k] ELSE t[k - Cardinality(E)]
  <2>1. /\ s \o t \in Seq(Row) /\ Len(s \o t) = Len(s) + Len(t)
        /\ \A k \in 1 .. Len(s) + Len(t) :
              (s \o t)[k] = IF k <= Len(s) THEN s[k] ELSE t[k - Len(s)]
    BY <1>0, ConcatProperties
  <2>2. Len(s) + Len(t) = Cardinality(U) BY <1>0, <1>2
  <2> HIDE DEF U
  <2> QED BY <1>0, <2>1, <2>2
<1>4. ASSUME NEW e \in E PROVE (s \o t)[Place(U, e)] = RowOf(e)
  <2>1. Earlier(U, e) = Earlier(E, e) BY <1>0, BeforeIsOrder DEF Earlier
  <2>2. Place(U, e) = Place(E, e) BY <2>1 DEF Place, Earlier
  <2>3. Place(E, e) \in 1 .. Cardinality(E) BY <1>0, PlaceType
  <2>4. s[Place(E, e)] = RowOf(e) BY DEF Lists
  <2> DEFINE k == Place(E, e)
  <2> HIDE DEF k, U
  <2>5. k \in 1 .. Cardinality(U) /\ k <= Cardinality(E) BY <1>2, <2>3 DEF k
  <2>6. (s \o t)[k] = s[k] BY <1>3, <2>5
  <2> QED BY <2>2, <2>4, <2>6 DEF k
<1>5. ASSUME NEW f \in F PROVE (s \o t)[Place(U, f)] = RowOf(f)
  <2>1. Earlier(U, f) = E \cup Earlier(F, f) BY DEF Earlier
  <2>2. IsFiniteSet(Earlier(F, f)) /\ Cardinality(Earlier(F, f)) \in Nat
    BY <1>0, EarlierFinite
  <2>3. E \cap Earlier(F, f) = {} BY <1>1 DEF Earlier
  <2>4. Cardinality(Earlier(U, f)) = Cardinality(E) + Cardinality(Earlier(F, f))
    BY <1>0, <2>1, <2>2, <2>3, DisjointCount
  <2> DEFINE k == Place(F, f)
             q == Place(U, f)
  <2>5. q = 1 + Cardinality(Earlier(U, f)) /\ k = 1 + Cardinality(Earlier(F, f))
    BY DEF Place, Earlier
  <2>6. k \in 1 .. Cardinality(F) BY <1>0, PlaceType
  <2>7. t[k] = RowOf(f) BY DEF Lists
  <2> HIDE DEF k, q, U
  <2>8. q = Cardinality(E) + k BY <1>2, <2>2, <2>4, <2>5
  <2>9. q \in 1 .. Cardinality(U) /\ ~ q <= Cardinality(E) /\ q - Cardinality(E) = k
    BY <1>2, <2>6, <2>8
  <2> QED BY <1>3, <2>7, <2>9 DEF q
<1>6. U \in SUBSET Item BY <1>0
<1>7. \A e \in U : (s \o t)[Place(U, e)] = RowOf(e) BY <1>4, <1>5
<1> QED BY <1>2, <1>3, <1>6, <1>7 DEF Lists

-----------------------------------------------------------------------------
(* Sorted tracks.                                                          *)

LEMMA UpToIsRank ==
  ASSUME NEW S \in SUBSET Track, NEW t \in S
  PROVE  /\ Cardinality(UpTo(S, t)) = Rank(S, t) + 1
         /\ Cardinality(UpTo(S, t)) \in 1 .. Cardinality(S)
<1> DEFINE L == {k \in S : k < t}
<1>1. S \in SUBSET Nat /\ IsFiniteSet(S) /\ Cardinality(S) \in Nat
  BY TracksFinite, MaxBlockPositive DEF Track
<1>2. UpTo(S, t) = L \cup {t} /\ t \notin L
  <2>1. \A k \in S : k <= t <=> k < t \/ k = t BY <1>1
  <2>2. ~ t < t BY <1>1
  <2> QED BY <2>1, <2>2 DEF UpTo
<1>3. IsFiniteSet(L) BY <1>1, FS_Subset
<1>4. Rank(S, t) = Cardinality(L) /\ Rank(S, t) \in 0 .. Cardinality(S) - 1
  BY <1>1, RankType DEF Rank
<1> HIDE DEF L
<1>5. Cardinality(UpTo(S, t)) = Cardinality(L) + 1 BY <1>2, <1>3, FS_AddElement
<1> QED BY <1>1, <1>4, <1>5

LEMMA Sorted ==
  ASSUME NEW S \in SUBSET Track
  PROVE  LET s == InOrder(S)
             n == Cardinality(S)
         IN  /\ n \in Nat /\ s \in Seq(Track) /\ Len(s) = n
             /\ \A k \in 1 .. n : s[k] \in S /\ Cardinality(UpTo(S, s[k])) = k
             /\ \A t \in S : s[Cardinality(UpTo(S, t))] = t
<1> DEFINE s == InOrder(S)
           n == Cardinality(S)
<1>1. n \in Nat /\ S \in SUBSET Nat /\ IsFiniteSet(S)
  BY TracksFinite, MaxBlockPositive DEF Track
<1>2. ASSUME NEW k \in 1 .. n PROVE s[k] \in S /\ Cardinality(UpTo(S, s[k])) = k
  <2>1. k - 1 \in 0 .. n - 1 BY <1>1
  <2>2. PICK t \in S : Rank(S, t) = k - 1 BY <1>1, <2>1, RankOnto
  <2>3. Cardinality(UpTo(S, t)) = k
    <3>1. Cardinality(UpTo(S, t)) = (k - 1) + 1 BY <2>2, UpToIsRank
    <3> QED BY <1>1, <3>1
  <2>4. s[k] = CHOOSE u \in S : Cardinality(UpTo(S, u)) = k BY DEF InOrder
  <2> QED BY <2>3, <2>4
<1>3. s = [k \in 1 .. n |-> s[k]] BY DEF InOrder
<1>4. s \in Seq(Track) /\ Len(s) = n BY <1>1, <1>2, <1>3
<1>5. ASSUME NEW t \in S PROVE s[Cardinality(UpTo(S, t))] = t
  <2> DEFINE k == Cardinality(UpTo(S, t))
  <2>1. k \in 1 .. n BY UpToIsRank
  <2>2. s[k] \in S /\ Cardinality(UpTo(S, s[k])) = k BY <1>2, <2>1
  <2>3. Rank(S, s[k]) + 1 = Rank(S, t) + 1 BY <2>2, UpToIsRank
  <2>4. Rank(S, s[k]) \in 0 .. n - 1 /\ Rank(S, t) \in 0 .. n - 1 BY <1>1, <2>2, RankType
  <2> HIDE DEF k, s, n
  <2>5. Rank(S, s[k]) = Rank(S, t) BY <1>1, <2>3, <2>4
  <2>6. PICK u \in S : u = s[k] BY <2>2
  <2>7. Rank(S, u) = Rank(S, t) BY <2>5, <2>6
  <2>8. u = t BY <1>1, <2>7, RankInjective
  <2> QED BY <2>6, <2>8 DEF k
<1> HIDE DEF s
<1> QED BY <1>1, <1>2, <1>4, <1>5 DEF s

\* A later place is a greater track.
LEMMA SortedGrows ==
  ASSUME NEW S \in SUBSET Track, NEW j \in 1 .. Cardinality(S), NEW k \in 1 .. Cardinality(S),
         j < k
  PROVE  InOrder(S)[j] < InOrder(S)[k]
<1> DEFINE t == InOrder(S)[j]
           u == InOrder(S)[k]
<1>0. \A m \in 1 .. Cardinality(S) :
         InOrder(S)[m] \in S /\ Cardinality(UpTo(S, InOrder(S)[m])) = m
  BY Sorted
<1>1. t \in S /\ u \in S /\ Cardinality(UpTo(S, t)) = j /\ Cardinality(UpTo(S, u)) = k
  BY <1>0
<1>2. t \in Nat /\ u \in Nat /\ \A x \in S : x \in Nat
  <2>1. \A x \in S : x \in Nat BY MaxBlockPositive DEF Track
  <2> HIDE DEF t, u
  <2> QED BY <1>1, <2>1
<1> HIDE DEF t, u
<1>3. SUFFICES ASSUME u <= t PROVE FALSE
  BY <1>2 DEF t, u
<1>4. UpTo(S, u) \in SUBSET UpTo(S, t) BY <1>2, <1>3 DEF UpTo
<1>5. UpTo(S, t) \in SUBSET Track BY DEF UpTo
<1>6. IsFiniteSet(UpTo(S, t)) BY <1>5, TracksFinite
<1>7. Cardinality(UpTo(S, u)) <= Cardinality(UpTo(S, t)) BY <1>4, <1>6, FS_Subset
<1>8. k <= j BY <1>1, <1>7
<1>9. j \in Int /\ k \in Int BY Sorted
<1> QED BY <1>8, <1>9

LEMMA EntriesCount ==
  ASSUME NEW p \in Nat, NEW S \in SUBSET Track
  PROVE  /\ Entries(p, S) \in SUBSET Item /\ IsFiniteSet(Entries(p, S))
         /\ Cardinality(Entries(p, S)) = Cardinality(S)
<1> DEFINE f == [t \in S |-> [pass |-> p, track |-> t]]
<1>1. f \in [S -> Entries(p, S)] BY DEF Entries
<1>2. \A t, u \in S : f[t] = f[u] => t = u
  <2> SUFFICES ASSUME NEW t \in S, NEW u \in S, f[t] = f[u] PROVE t = u OBVIOUS
  <2>1. f[t].track = t /\ f[u].track = u OBVIOUS
  <2> QED BY <2>1
<1>3. \A e \in Entries(p, S) : \E t \in S : f[t] = e BY DEF Entries
<1>4. IsFiniteSet(S) BY TracksFinite
<1> HIDE DEF f
<1>5. IsFiniteSet(Entries(p, S)) /\ Cardinality(Entries(p, S)) = Cardinality(S)
  BY <1>1, <1>2, <1>3, <1>4, SameCount
<1> QED BY <1>5 DEF Entries, Item

\* The rows of a sorted set of tracks list the entries of one pass.
Rows(S, v) == [k \in 1 .. Len(InOrder(S)) |-> [track |-> InOrder(S)[k], virtual |-> v]]

LEMMA RowsList ==
  ASSUME NEW p \in Nat, NEW S \in SUBSET Track, NEW v \in BOOLEAN, v <=> p % Round # 0
  PROVE  Lists(Rows(S, v), Entries(p, S))
<1> DEFINE E == Entries(p, S)
           n == Cardinality(S)
<1>1. /\ n \in Nat /\ Len(InOrder(S)) = n
      /\ \A k \in 1 .. n : InOrder(S)[k] \in S /\ Cardinality(UpTo(S, InOrder(S)[k])) = k
      /\ \A t \in S : InOrder(S)[Cardinality(UpTo(S, t))] = t
  BY Sorted
<1>2. E \in SUBSET Item /\ IsFiniteSet(E) /\ Cardinality(E) = n BY EntriesCount
<1>3. Rows(S, v) \in Seq(Row) /\ Len(Rows(S, v)) = n
  <2>1. \A k \in 1 .. n : [track |-> InOrder(S)[k], virtual |-> v] \in Row BY <1>1 DEF Row
  <2>2. Rows(S, v) = [k \in 1 .. n |-> [track |-> InOrder(S)[k], virtual |-> v]]
    BY <1>1 DEF Rows
  <2>3. Rows(S, v) \in [1 .. n -> Row] BY <2>1, <2>2
  <2> HIDE DEF n
  <2> QED BY <1>1, <2>3
<1>4. ASSUME NEW e \in E PROVE Rows(S, v)[Place(E, e)] = RowOf(e)
  <2>1. PICK t \in S : e = [pass |-> p, track |-> t] BY DEF Entries
  <2> DEFINE L == {k \in S : k < t}
  <2>2. Earlier(E, e) = Entries(p, L)
    <3>1. \A u \in S : Before([pass |-> p, track |-> u], e) <=> u < t BY <2>1 DEF Before
    <3> QED BY <3>1 DEF Earlier, Entries
  <2>3. Cardinality(Entries(p, L)) = Cardinality(L)
    <3>1. L \in SUBSET Track OBVIOUS
    <3> QED BY <3>1, EntriesCount
  <2>4. Place(E, e) = 1 + Rank(S, t) BY <2>2, <2>3 DEF Place, Earlier, Rank
  <2>5. Rank(S, t) \in Int
    <3>1. S \in SUBSET Nat /\ IsFiniteSet(S) BY TracksFinite, MaxBlockPositive DEF Track
    <3>2. Rank(S, t) \in 0 .. n - 1 BY <3>1, RankType
    <3> QED BY <3>2
  <2>6. Place(E, e) = Cardinality(UpTo(S, t)) BY <2>4, <2>5, UpToIsRank
  <2>7. Cardinality(UpTo(S, t)) \in 1 .. n BY UpToIsRank
  <2>8. Rows(S, v)[Cardinality(UpTo(S, t))] = [track |-> t, virtual |-> v]
    BY <1>1, <2>7 DEF Rows
  <2>9. IsVirtual(e) = v BY <2>1 DEF IsVirtual
  <2> QED BY <2>1, <2>6, <2>8, <2>9 DEF RowOf
<1> QED BY <1>2, <1>3, <1>4 DEF Lists
-----------------------------------------------------------------------------
(* The loop over the batch.                                                *)

After(S) == IF fluid THEN FluidBandsAfter(S) ELSE BandsAfter(S)

LEMMA AfterStays ==
  ASSUME UNCHANGED <<fluid, diskVars>>
  PROVE  /\ \A S : BandsAfter(S)' = BandsAfter(S) /\ FluidBandsAfter(S)' = FluidBandsAfter(S)
         /\ \A S : After(S)' = After(S)
         /\ Used' = Used
<1>0. band' = band /\ fluid' = fluid /\ storage' = storage BY DEF diskVars
<1>1. \A S, b : BandAfter(S, b)' = BandAfter(S, b) BY <1>0 DEF BandAfter
<1>2. \A S : BandsAfter(S)' = BandsAfter(S) BY <1>1 DEF BandsAfter
<1>3. \A S : FluidBandsAfter(S)' = FluidBandsAfter(S)
  BY <1>0, <1>1 DEF FluidBandsAfter, FluidBandAfter
<1>4. Used' = Used BY <1>0 DEF Used, IsUsed
<1> QED BY <1>0, <1>2, <1>3, <1>4 DEF After

LEMMA BandOfTrack ==
  ASSUME NEW t \in Track
  PROVE  t \div BandTracks \in Band /\ t \in TracksOf(t \div BandTracks)
<1> DEFINE b == t \div BandTracks
           r == t % BandTracks
<1>1. /\ BandTracks \in Nat \ {0} /\ BandCount \in Nat \ {0} /\ t \in Nat
      /\ t <= MaxBlock - 1 /\ MaxBlock = BandCount * BandTracks
  BY BandTracksAssumption, BandCountAssumption, MaxBlockPositive DEF Track, MaxBlock
<1>2. b \in Nat /\ r \in 0 .. BandTracks - 1 /\ t = BandTracks * b + r BY <1>1
<1> HIDE DEF b, r
<1>3. b * BandTracks \in Nat /\ BandTracks * b = b * BandTracks BY <1>1, <1>2
<1>4. BandHead(b) \in Nat /\ BandHead(b) <= t /\ t <= BandHead(b) + BandTracks - 1
  BY <1>1, <1>2, <1>3 DEF BandHead
<1>5. b < BandCount
  <2>1. SUFFICES ASSUME b >= BandCount PROVE FALSE BY <1>1, <1>2
  <2>2. PICK d \in Nat : b = BandCount + d BY <1>1, <1>2, <2>1
  <2>3. b * BandTracks = BandCount * BandTracks + d * BandTracks BY <1>1, <2>2
  <2>4. d * BandTracks \in Nat /\ BandCount * BandTracks \in Nat BY <1>1, <2>2
  <2> QED BY <1>1, <1>2, <1>3, <2>3, <2>4
<1> QED BY <1>1, <1>2, <1>4, <1>5 DEF Band, TracksOf, b

\* One round of the loop does to the record of its band what Disk says.
LEMMA ScanIsAfter ==
  ASSUME band \in [Band -> BandRecord], NEW S \in SUBSET Track, NEW b \in Band,
         NEW t \in TracksOf(b), \A u \in S : u < t
  PROVE  Scan(BandAfter(S, b), t) = BandAfter(S \cup {t}, b)
<1> DEFINE old  == band[b]
           mine == S \cap TracksOf(b)
           all  == (S \cup {t}) \cap TracksOf(b)
<1>1. all = mine \cup {t} OBVIOUS
<1>2. /\ t \in Track /\ \A u \in Track : u \in Int /\ mine \subseteq Track
      /\ all \subseteq Track /\ \A u \in mine : u < t
  BY BandWithinDisk, MaxBlockPositive DEF Track
<1>3. old \in BandRecord /\ old.whp \in Int /\ old.rmw \in BOOLEAN
  BY <1>2 DEF BandRecord
<1>4. Max(all) = t
  <2>1. Max(all) \in all /\ \A u \in all : u <= Max(all) BY <1>1, <1>2, MaxTrack
  <2>2. t \in all /\ \A u \in all : u <= t BY <1>1, <1>2
  <2> HIDE DEF all
  <2> QED BY <1>2, <2>1, <2>2
<1>5. BandAfter(S \cup {t}, b) = [cmr |-> old.cmr,
              whp |-> NewHead(old, all),
              rmw |-> old.rmw \/ Min(all) < old.whp,
              start |-> IF ~ old.rmw /\ Min(all) < old.whp THEN Min(all) ELSE old.start,
              end |-> IF old.rmw \/ Min(all) < old.whp THEN Max(all) ELSE old.end]
  BY <1>1 DEF BandAfter
<1>6. CASE mine = {}
  <2>1. BandAfter(S, b) = old BY <1>6 DEF BandAfter
  <2>2. Min(all) = t
    <3>1. Min(all) \in all BY <1>1, <1>2, MinTrack
    <3> QED BY <1>1, <1>6, <3>1
  <2> DEFINE w == IF t > old.whp THEN t ELSE old.whp
  <2>3. NewHead(old, all) = w BY <1>4 DEF NewHead
  <2> HIDE DEF all, mine, old, w
  <2>4. old = [cmr |-> old.cmr, whp |-> old.whp, rmw |-> old.rmw,
               start |-> old.start, end |-> old.end]
    BY <1>3 DEF BandRecord
  <2>5. CASE old.rmw
    <3>1. Scan(old, t) = [old EXCEPT !.end = t, !.whp = IF t >= @ THEN t ELSE @]
      BY <2>5 DEF Scan
    <3>2. (IF t >= old.whp THEN t ELSE old.whp) = w BY <1>2, <1>3 DEF w
    <3>3. Scan(old, t) = [cmr |-> old.cmr, whp |-> w, rmw |-> TRUE,
                          start |-> old.start, end |-> t]
      BY <1>3, <2>4, <2>5, <3>1, <3>2
    <3> QED BY <1>4, <1>5, <2>1, <2>3, <2>5, <3>3
  <2>6. CASE ~ old.rmw /\ t >= old.whp
    <3>1. w = t /\ ~ t < old.whp BY <1>2, <1>3, <2>6 DEF w
    <3>2. Scan(old, t) = [old EXCEPT !.whp = t] BY <2>6 DEF Scan
    <3>3. Scan(old, t) = [cmr |-> old.cmr, whp |-> w, rmw |-> FALSE,
                          start |-> old.start, end |-> old.end]
      BY <1>3, <2>4, <2>6, <3>1, <3>2
    <3> QED BY <1>4, <1>5, <2>1, <2>2, <2>3, <2>6, <3>1, <3>3
  <2>7. CASE ~ old.rmw /\ ~ t >= old.whp
    <3>1. w = old.whp /\ t < old.whp BY <1>2, <1>3, <2>7 DEF w
    <3>2. Scan(old, t) = [old EXCEPT !.rmw = TRUE, !.start = t, !.end = t]
      BY <2>7 DEF Scan
    <3>3. Scan(old, t) = [cmr |-> old.cmr, whp |-> w, rmw |-> TRUE, start |-> t, end |-> t]
      BY <2>4, <3>1, <3>2
    <3> QED BY <1>4, <1>5, <2>1, <2>2, <2>3, <2>7, <3>1, <3>3
  <2> QED BY <2>5, <2>6, <2>7
<1>7. CASE mine # {}
  <2> DEFINE k == BandAfter(S, b)
  <2>1. k = [cmr |-> old.cmr,
              whp |-> NewHead(old, mine),
              rmw |-> old.rmw \/ Min(mine) < old.whp,
              start |-> IF ~ old.rmw /\ Min(mine) < old.whp THEN Min(mine) ELSE old.start,
              end |-> IF old.rmw \/ Min(mine) < old.whp THEN Max(mine) ELSE old.end]
    BY <1>7 DEF BandAfter
  <2>2. /\ Min(mine) \in mine /\ \A u \in mine : Min(mine) <= u
        /\ Max(mine) \in mine /\ \A u \in mine : u <= Max(mine)
    BY <1>2, <1>7, MinTrack, MaxTrack
  <2>3. Min(all) = Min(mine)
    <3>1. Min(all) \in all /\ \A u \in all : Min(all) <= u BY <1>1, <1>2, MinTrack
    <3> HIDE DEF mine, all
    <3> QED BY <1>1, <1>2, <2>2, <3>1
  <2> HIDE DEF all, mine, old, k
  <2>4. /\ Min(mine) \in Int /\ Max(mine) \in Int /\ t \in Int /\ Max(mine) < t
        /\ Min(mine) <= Max(mine)
    BY <1>2, <2>2
  <2> DEFINE h == IF Max(mine) > old.whp THEN Max(mine) ELSE old.whp
             w == IF t > old.whp THEN t ELSE old.whp
  <2>5. NewHead(old, mine) = h /\ NewHead(old, all) = w BY <1>4 DEF NewHead
  <2>6. h \in Int /\ w = IF t >= h THEN t ELSE h BY <1>3, <2>4
  <2> HIDE DEF h, w
  <2>7. CASE old.rmw
    <3>1. k = [cmr |-> old.cmr, whp |-> h, rmw |-> TRUE, start |-> old.start, end |-> Max(mine)]
      BY <2>1, <2>5, <2>7
    <3>2. Scan(k, t) = [k EXCEPT !.end = t, !.whp = IF t >= @ THEN t ELSE @]
      BY <3>1 DEF Scan
    <3>3. Scan(k, t) = [cmr |-> old.cmr, whp |-> w, rmw |-> TRUE,
                        start |-> old.start, end |-> t]
      BY <2>6, <3>1, <3>2
    <3> QED BY <1>4, <1>5, <2>5, <2>7, <3>3 DEF k
  <2>8. CASE ~ old.rmw /\ Min(mine) < old.whp
    <3>1. k = [cmr |-> old.cmr, whp |-> h, rmw |-> TRUE, start |-> Min(mine), end |-> Max(mine)]
      BY <2>1, <2>5, <2>8
    <3>2. Scan(k, t) = [k EXCEPT !.end = t, !.whp = IF t >= @ THEN t ELSE @]
      BY <3>1 DEF Scan
    <3>3. Scan(k, t) = [cmr |-> old.cmr, whp |-> w, rmw |-> TRUE,
                        start |-> Min(mine), end |-> t]
      BY <2>6, <3>1, <3>2
    <3> QED BY <1>4, <1>5, <2>3, <2>5, <2>8, <3>3 DEF k
  <2>9. CASE ~ old.rmw /\ ~ Min(mine) < old.whp
    <3>1. k = [cmr |-> old.cmr, whp |-> h, rmw |-> FALSE, start |-> old.start, end |-> old.end]
      BY <2>1, <2>5, <2>9
    <3>2. h = Max(mine) /\ t >= h /\ w = t BY <1>3, <2>4, <2>9 DEF h, w
    <3>3. Scan(k, t) = [k EXCEPT !.whp = t] BY <3>1, <3>2 DEF Scan
    <3>4. Scan(k, t) = [cmr |-> old.cmr, whp |-> w, rmw |-> FALSE,
                        start |-> old.start, end |-> old.end]
      BY <3>1, <3>2, <3>3
    <3> QED BY <1>4, <1>5, <2>3, <2>5, <2>9, <3>4 DEF k
  <2> QED BY <1>3, <2>7, <2>8, <2>9
<1> QED BY <1>6, <1>7

LEMMA AfterNext ==
  ASSUME band \in [Band -> BandRecord], NEW S \in SUBSET Track, NEW t \in Track,
         \A u \in S : u < t, fluid \in BOOLEAN
  PROVE  LET b == t \div BandTracks
             w == After(S)
         IN  After(S \cup {t}) = IF PassesOver(w[b]) THEN w ELSE [w EXCEPT ![b] = Scan(@, t)]
<1> DEFINE b == t \div BandTracks
           w == After(S)
           z == After(S \cup {t})
<1>1. b \in Band /\ t \in TracksOf(b) BY BandOfTrack
<1>2. \A c \in Band : c # b => BandAfter(S \cup {t}, c) = BandAfter(S, c)
  <2> SUFFICES ASSUME NEW c \in Band, c # b PROVE BandAfter(S \cup {t}, c) = BandAfter(S, c)
    OBVIOUS
  <2>1. t \notin TracksOf(c) BY <1>1, OneBandEach
  <2>2. (S \cup {t}) \cap TracksOf(c) = S \cap TracksOf(c) BY <2>1
  <2> QED BY <2>2 DEF BandAfter
<1>3. BandAfter(S \cup {t}, b) = Scan(BandAfter(S, b), t) BY <1>1, ScanIsAfter
<1>4. BandAfter(S, b).cmr = band[b].cmr BY <1>1, BandOfBatch DEF BandAfter
<1> HIDE DEF b
<1>5. CASE ~ fluid
  <2> DEFINE z1 == [w EXCEPT ![b] = Scan(@, t)]
  <2>1. w = [c \in Band |-> BandAfter(S, c)] /\ z = [c \in Band |-> BandAfter(S \cup {t}, c)]
    BY <1>5 DEF After, BandsAfter
  <2>2. z1 = [c \in Band |-> IF c = b THEN Scan(BandAfter(S, b), t) ELSE BandAfter(S, c)]
    BY <1>1, <2>1
  <2> HIDE DEF z1, w, z
  <2>3. z = z1 BY <1>2, <1>3, <2>1, <2>2
  <2> QED BY <1>5, <2>3 DEF PassesOver, z1, w, z, b
<1>6. CASE fluid
  <2> DEFINE z1 == [w EXCEPT ![b] = Scan(@, t)]
  <2>1. /\ w = [c \in Band |-> FluidBandAfter(S, c)]
        /\ z = [c \in Band |-> FluidBandAfter(S \cup {t}, c)]
    BY <1>6 DEF After, FluidBandsAfter
  <2>2. /\ \A c \in Band : c # b => FluidBandAfter(S \cup {t}, c) = FluidBandAfter(S, c)
        /\ w[b].cmr = band[b].cmr
    BY <1>1, <1>2, <1>4, <2>1 DEF FluidBandAfter
  <2>3. CASE band[b].cmr
    <3>1. FluidBandAfter(S \cup {t}, b) = FluidBandAfter(S, b) BY <2>3 DEF FluidBandAfter
    <3> HIDE DEF w, z
    <3>2. \A c \in Band : FluidBandAfter(S \cup {t}, c) = FluidBandAfter(S, c)
      BY <2>2, <3>1
    <3>3. z = w BY <2>1, <3>2
    <3> QED BY <1>6, <2>2, <2>3, <3>3 DEF PassesOver, w, z, b
  <2>4. CASE ~ band[b].cmr
    <3>1. FluidBandAfter(S \cup {t}, b) = Scan(FluidBandAfter(S, b), t)
      BY <1>3, <2>4 DEF FluidBandAfter
    <3>2. z1 = [c \in Band |-> IF c = b THEN Scan(FluidBandAfter(S, b), t)
                               ELSE FluidBandAfter(S, c)]
      BY <1>1, <2>1
    <3> HIDE DEF z1, w, z
    <3>3. z = z1 BY <2>1, <2>2, <3>1, <3>2
    <3> QED BY <1>6, <2>2, <2>4, <3>3 DEF PassesOver, z1, w, z, b
  <2> QED BY <2>3, <2>4
<1> QED BY <1>5, <1>6

-----------------------------------------------------------------------------
(* The loop over the bands.                                                *)

BandTail(p, bands, b) ==
    IF bands[b].rmw
    THEN Entries(p + 2*b + 1, Upstream(b, bands[b]) \cap Used) \cup
         Entries(p + 2*b + 2, Downstream(bands[b]) \cap Used)
    ELSE {}

\* The tails that the bands before c add.
TailsTo(p, bands, c) == UNION {BandTail(p, bands, b) : b \in {d \in Band : d < c}}

LEMMA TailsGrow ==
  ASSUME NEW p, NEW bands
  PROVE  /\ TailsTo(p, bands, 0) = {}
         /\ TailsTo(p, bands, BandCount) = Tails(p, bands, Used)
         /\ \A c \in Band : TailsTo(p, bands, c + 1) = TailsTo(p, bands, c) \cup BandTail(p, bands, c)
<1>1. \A d \in Band : d \in Int /\ ~ d < 0 /\ d < BandCount BY BandCountAssumption DEF Band
<1>2. TailsTo(p, bands, 0) = {} BY <1>1 DEF TailsTo
<1>3. TailsTo(p, bands, BandCount) = UNION {BandTail(p, bands, b) : b \in Band}
  BY <1>1 DEF TailsTo
<1>4. UNION {BandTail(p, bands, b) : b \in Band} = Tails(p, bands, Used)
  <2>1. \A b \in Band : bands[b].rmw =>
          BandTail(p, bands, b) = Entries(p + 2*b + 1, Upstream(b, bands[b]) \cap Used) \cup
                                  Entries(p + 2*b + 2, Downstream(bands[b]) \cap Used)
    BY DEF BandTail
  <2>2. \A b \in Band : ~ bands[b].rmw => BandTail(p, bands, b) = {} BY DEF BandTail
  <2> QED BY <2>1, <2>2 DEF Tails
<1>5. ASSUME NEW c \in Band
      PROVE  TailsTo(p, bands, c + 1) = TailsTo(p, bands, c) \cup BandTail(p, bands, c)
  <2>1. {d \in Band : d < c + 1} = {d \in Band : d < c} \cup {c} BY <1>1
  <2> QED BY <2>1 DEF TailsTo
<1> QED BY <1>2, <1>3, <1>4, <1>5

LEMMA TailPasses ==
  ASSUME NEW p \in Nat, NEW bands, NEW c \in 0 .. BandCount, NEW e \in TailsTo(p, bands, c)
  PROVE  e \in Item /\ p < e.pass /\ e.pass <= p + 2*c
<1>1. PICK b \in Band : b < c /\ e \in BandTail(p, bands, b) BY DEF TailsTo
<1>2. b \in Nat /\ c \in Nat /\ b + 1 <= c BY <1>1, BandCountAssumption DEF Band
<1>3. e.pass \in {p + 2*b + 1, p + 2*b + 2} /\ e \in [pass : {e.pass}, track : Used]
  BY <1>1 DEF BandTail, Entries
<1>4. Used \subseteq Track BY DEF Used
<1>5. e.pass \in Nat /\ p < e.pass /\ e.pass <= p + 2*c BY <1>2, <1>3
<1> QED BY <1>3, <1>4, <1>5 DEF Item

LEMMA AppendedRows ==
  ASSUME NEW X
  PROVE  Appended(X) = Rows(X \cap Used, TRUE)
BY DEF Appended, Rows, Used

\* The tail of one band in the mode.
LEMMA TailListed ==
  ASSUME NEW m \in Nat, NEW bands, NEW b \in Band, bands[b].rmw, NEW E, NEW s, Lists(s, E),
         \A e \in E : e.pass <= Round * m + 2*b
  PROVE  Lists(s \o Appended(Upstream(b, bands[b])) \o Appended(Downstream(bands[b])),
               E \cup BandTail(Round * m, bands, b))
<1> DEFINE p == Round * m
           U == Upstream(b, bands[b]) \cap Used
           D == Downstream(bands[b]) \cap Used
           q == p + 2*b + 1
           r == p + 2*b + 2
<1>1. Round \in Nat /\ p \in Nat /\ b \in Nat
  BY BandCountAssumption DEF Round, Band
<1>2. /\ q \in Nat /\ r \in Nat /\ q = p + (2*b + 1) /\ r = p + (2*b + 2)
      /\ 2*b + 1 \in 1 .. 2*BandCount /\ 2*b + 2 \in 1 .. 2*BandCount
  BY <1>1, BandCountAssumption DEF Band
<1>3. q % Round # 0 /\ r % Round # 0
  <2>1. (p + (2*b + 1)) % Round = 2*b + 1 /\ (p + (2*b + 2)) % Round = 2*b + 2
    BY <1>2, PassOfRound
  <2> QED BY <1>1, <1>2, <2>1
<1>4. U \in SUBSET Track /\ D \in SUBSET Track BY DEF Used
<1>5. Lists(Rows(U, TRUE), Entries(q, U)) /\ Lists(Rows(D, TRUE), Entries(r, D))
  <2> HIDE DEF q, r, U, D
  <2> QED BY <1>2, <1>3, <1>4, RowsList
<1>6. /\ \A e \in E : e.pass \in Nat /\ e.pass < q /\ e.pass < r
      /\ \A e \in Entries(q, U) : e.pass = q /\ q < r
      /\ \A e \in Entries(r, D) : e.pass = r
  BY <1>1, <1>2 DEF Lists, Item, Entries
<1> DEFINE S == s \o Rows(U, TRUE)
           F == E \cup Entries(q, U)
<1>7. Lists(S, F)
  <2>1. \A e \in E, f \in Entries(q, U) : Before(e, f) BY <1>6 DEF Before
  <2> HIDE DEF q, U
  <2> QED BY <1>5, <2>1, ListsBoth
<1>8. Lists(S \o Rows(D, TRUE), F \cup Entries(r, D))
  <2>1. \A e \in F, f \in Entries(r, D) : Before(e, f) BY <1>6 DEF Before
  <2> HIDE DEF S, F, D, r
  <2> QED BY <1>5, <1>7, <2>1, ListsBoth
<1>9. F \cup Entries(r, D) = E \cup BandTail(p, bands, b) BY DEF BandTail
<1>10. S \o Rows(D, TRUE)
         = s \o Appended(Upstream(b, bands[b])) \o Appended(Downstream(bands[b]))
  BY AppendedRows
<1> HIDE DEF S, F, D, r
<1> QED BY <1>8, <1>9, <1>10

\* One track of the batch.
LEMMA RowListed ==
  ASSUME NEW p \in Nat, p % Round = 0, NEW t \in Track, NEW E, NEW s, Lists(s, E),
         \A e \in E : e.pass < p \/ (e.pass = p /\ e.track < t)
  PROVE  Lists(Append(s, [track |-> t, virtual |-> FALSE]), E \cup Entries(p, {t}))
<1> DEFINE r == [track |-> t, virtual |-> FALSE]
           F == Entries(p, {t})
           f == [pass |-> p, track |-> t]
<1>1. F = {f} /\ f \in Item BY DEF Entries, Item
<1>2. IsFiniteSet(F) /\ Cardinality(F) = 1 BY <1>1, FS_Singleton
<1>3. Place(F, f) = 1
  <2>1. ~ Before(f, f) BY <1>1, BeforeIsOrder
  <2> HIDE DEF f, F
  <2>2. {g \in F : Before(g, f)} = {} BY <1>1, <2>1
  <2>3. Place(F, f) = 1 + Cardinality({}) BY <2>2 DEF Place
  <2> QED BY <2>3, FS_EmptySet
<1>4. RowOf(f) = r BY DEF RowOf, IsVirtual
<1>5. r \in Row /\ <<r>> \in Seq(Row) /\ Len(<<r>>) = 1 /\ <<r>>[1] = r BY DEF Row
<1> HIDE DEF r, f
<1>6. Lists(<<r>>, F) BY <1>1, <1>2, <1>3, <1>4, <1>5 DEF Lists
<1>7. \A e \in E : Before(e, f) BY DEF Before, f
<1>8. Lists(s \o <<r>>, E \cup F) BY <1>1, <1>6, <1>7, ListsBoth
<1>9. s \in Seq(Row) BY DEF Lists
<1>10. Append(s, r) = s \o <<r>> BY <1>5, <1>9, AppendIsConcat
<1> QED BY <1>8, <1>10 DEF r

-----------------------------------------------------------------------------
(* The rounds of batch_extend_fluidsmr.                                    *)

Sorting == batch = InOrder(BatchSet) /\ BatchSet \in SUBSET Track /\ BatchSet # {}

\* The first j tracks of the batch, and what the round of the m-th adds.
Done(j) == {batch[k] : k \in 1 .. j}
RoundBase(m) == Entries(Round * (m - 1), {batch[m]})
RoundTail(m) == Tails(Round * (m - 1), FluidBandsAfter(Done(m)), Used)
Rounds(j) == UNION {RoundBase(m) \cup RoundTail(m) : m \in 1 .. j}

LEMMA SortedBatch ==
  ASSUME Sorting
  PROVE  /\ Len(batch) \in Nat /\ Len(batch) >= 1
         /\ \A k \in 1 .. Len(batch) : /\ batch[k] \in BatchSet
                                       /\ Cardinality(UpTo(BatchSet, batch[k])) = k
         /\ \A t \in BatchSet : \E k \in 1 .. Len(batch) : batch[k] = t
         /\ \A j, k \in 1 .. Len(batch) : j < k => batch[j] < batch[k]
<1> DEFINE S == BatchSet
           n == Cardinality(S)
<1>1. batch = InOrder(S) /\ S \in SUBSET Track /\ S # {} BY DEF Sorting
<1>2. /\ n \in Nat /\ Len(batch) = n
      /\ \A k \in 1 .. n : batch[k] \in S /\ Cardinality(UpTo(S, batch[k])) = k
      /\ \A t \in S : batch[Cardinality(UpTo(S, t))] = t
  <2> HIDE DEF S
  <2> QED BY <1>1, Sorted
<1>3. IsFiniteSet(S) BY <1>1, TracksFinite
<1>4. n >= 1
  <2>1. n # 0 BY <1>1, <1>3, FS_EmptySet
  <2> QED BY <1>2, <2>1
<1>5. \A j, k \in 1 .. n : j < k => batch[j] < batch[k]
  <2> HIDE DEF S
  <2> QED BY <1>1, SortedGrows
<1>6. \A t \in S : Cardinality(UpTo(S, t)) \in 1 .. n
  <2> HIDE DEF S
  <2> QED BY <1>1, UpToIsRank
<1> HIDE DEF n
<1> QED BY <1>2, <1>4, <1>5, <1>6

LEMMA DoneGrows ==
  ASSUME Sorting
  PROVE  /\ Done(0) = {} /\ Done(Len(batch)) = BatchSet
         /\ \A j \in 1 .. Len(batch) :
               /\ Done(j) = Done(j - 1) \cup {batch[j]}
               /\ Done(j - 1) \in SUBSET Track /\ batch[j] \in Track
               /\ \A u \in Done(j - 1) : u < batch[j]
               /\ Done(j) = UpTo(BatchSet, batch[j])
<1>1. Done(0) = {} BY DEF Done
<1>2. Done(Len(batch)) = BatchSet BY DEF Done, BatchSet
<1>3. BatchSet \in SUBSET Track BY DEF Sorting
<1>4. ASSUME NEW j \in 1 .. Len(batch)
      PROVE  /\ Done(j) = Done(j - 1) \cup {batch[j]}
             /\ Done(j - 1) \in SUBSET Track /\ batch[j] \in Track
             /\ \A u \in Done(j - 1) : u < batch[j]
  <2>1. j \in Nat /\ 1 .. j = (1 .. j - 1) \cup {j}
    BY SortedBatch
  <2>2. \A k \in 1 .. j - 1 : k \in 1 .. Len(batch) /\ k < j BY SortedBatch
  <2>3. \A k \in 1 .. j - 1 : batch[k] \in Track /\ batch[k] < batch[j]
    BY <1>3, <2>2, SortedBatch
  <2> QED BY <1>3, <2>1, <2>3, SortedBatch DEF Done
<1>5. ASSUME NEW j \in 1 .. Len(batch) PROVE Done(j) = UpTo(BatchSet, batch[j])
  <2>1. Len(batch) \in Nat /\ j \in Nat BY SortedBatch
  <2>2. \A t \in BatchSet : t \in Int BY <1>3, MaxBlockPositive DEF Track
  <2>3. \A k \in 1 .. Len(batch) : batch[k] <= batch[j] <=> k <= j
    <3> SUFFICES ASSUME NEW k \in 1 .. Len(batch) PROVE batch[k] <= batch[j] <=> k <= j
      OBVIOUS
    <3>1. batch[k] \in Int /\ batch[j] \in Int BY <2>2, SortedBatch
    <3>2. k < j => batch[k] < batch[j] BY SortedBatch
    <3>3. j < k => batch[j] < batch[k] BY SortedBatch
    <3> QED BY <2>1, <3>1, <3>2, <3>3
  <2>4. UpTo(BatchSet, batch[j]) = {batch[k] : k \in {m \in 1 .. Len(batch) : m <= j}}
    BY <2>3, SortedBatch DEF UpTo
  <2>5. {m \in 1 .. Len(batch) : m <= j} = 1 .. j BY <2>1
  <2> QED BY <2>4, <2>5 DEF Done
<1> QED BY <1>1, <1>2, <1>4, <1>5

LEMMA RoundsGrow ==
  ASSUME NEW j \in Nat
  PROVE  Rounds(0) = {} /\ Rounds(j + 1) = Rounds(j) \cup (RoundBase(j + 1) \cup RoundTail(j + 1))
<1>1. 1 .. 0 = {} /\ 1 .. j + 1 = (1 .. j) \cup {j + 1} OBVIOUS
<1> QED BY <1>1 DEF Rounds

\* The passes of one round come before those of the next.
LEMMA RoundsEnd ==
  ASSUME NEW j \in Nat, NEW e \in Rounds(j)
  PROVE  e.pass \in Int /\ e.pass < Round * j
<1>1. PICK m \in 1 .. j : e \in RoundBase(m) \/ e \in RoundTail(m) BY DEF Rounds
<1> DEFINE p == Round * (m - 1)
<1>2. Round \in Nat /\ Round = 2*BandCount + 1 /\ BandCount \in Nat /\ BandCount \in 0 .. BandCount
  BY BandCountAssumption DEF Round
<1>3. m - 1 \in Nat /\ p \in Nat BY <1>2
<1>4. e.pass \in Int /\ e.pass <= p + 2*BandCount
  <2>1. CASE e \in RoundBase(m)
    <3>1. e.pass = p BY <2>1 DEF RoundBase, Entries
    <3> QED BY <1>2, <1>3, <3>1
  <2>2. CASE e \in RoundTail(m)
    <3>1. e \in TailsTo(p, FluidBandsAfter(Done(m)), BandCount)
      BY <2>2, TailsGrow DEF RoundTail
    <3> HIDE DEF p
    <3>2. e \in Item /\ e.pass <= p + 2*BandCount BY <1>2, <1>3, <3>1, TailPasses
    <3> QED BY <3>2 DEF Item
  <2> QED BY <1>1, <2>1, <2>2
<1>5. p + Round = Round * m BY <1>2
<1>6. Round * m <= Round * j
  <2>1. PICK d \in Nat : j = m + d
    <3>1. j - m \in Nat /\ j = m + (j - m) OBVIOUS
    <3> QED BY <3>1
  <2>2. Round * j = Round * m + Round * d /\ Round * d \in Nat BY <1>2, <2>1
  <2> QED BY <1>2, <2>2
<1> HIDE DEF p
<1>7. Round * m \in Int /\ Round * j \in Int BY <1>2
<1> QED BY <1>2, <1>3, <1>4, <1>5, <1>6, <1>7

LEMMA RoundsAll ==
  ASSUME Sorting
  PROVE  Rounds(Len(batch)) = FluidExtension(BatchSet, Used)
<1>1. ASSUME NEW m \in 1 .. Len(batch)
      PROVE  RoundBase(m) \cup RoundTail(m)
               = Entries(RoundOf(BatchSet, batch[m]), {batch[m]}) \cup
                 Tails(RoundOf(BatchSet, batch[m]), FluidBandsAfter(UpTo(BatchSet, batch[m])), Used)
  <2>1. RoundOf(BatchSet, batch[m]) = Round * (m - 1) BY SortedBatch DEF RoundOf
  <2>2. Done(m) = UpTo(BatchSet, batch[m]) BY DoneGrows
  <2> QED BY <2>1, <2>2 DEF RoundBase, RoundTail
<1>2. \A t \in BatchSet : \E m \in 1 .. Len(batch) : batch[m] = t BY SortedBatch
<1>3. \A m \in 1 .. Len(batch) : batch[m] \in BatchSet BY SortedBatch
<1> DEFINE X(t) == Entries(RoundOf(BatchSet, t), {t}) \cup
                   Tails(RoundOf(BatchSet, t), FluidBandsAfter(UpTo(BatchSet, t)), Used)
           Y(m) == RoundBase(m) \cup RoundTail(m)
<1>4. \A m \in 1 .. Len(batch) : Y(m) = X(batch[m]) BY <1>1
<1> HIDE DEF X, Y
<1>5. {Y(m) : m \in 1 .. Len(batch)} = {X(t) : t \in BatchSet} BY <1>2, <1>3, <1>4
<1> QED BY <1>5 DEF Rounds, FluidExtension, X, Y

-----------------------------------------------------------------------------
(* The invariant of the loops.                                             *)

\* The entries of the round or batch at hand before its tails, and the pass
\* before them.
Base == IF fluid THEN Rounds(i - 2) \cup RoundBase(i - 1) ELSE Entries(0, BatchSet)
Turn == IF fluid THEN i - 2 ELSE 0

LoopTypes ==
    /\ fluid \in BOOLEAN /\ Sorting /\ band \in [Band -> BandRecord]
    /\ pc \in {"tracks", "bands", "record"}
    /\ pc = "tracks" => i \in 1 .. Len(batch)
    /\ pc = "bands" => i \in 2 .. Len(batch) + 1 /\ bc \in 0 .. BandCount
    /\ pc = "bands" /\ ~ fluid => i = Len(batch) + 1

LoopInv ==
    /\ LoopTypes
    /\ pc # "record" => work = After(Done(i - 1))
    /\ pc = "record" => work = After(BatchSet)
    /\ pc = "tracks" => Lists(extend, IF fluid THEN Rounds(i - 1) ELSE Entries(0, Done(i - 1)))
    /\ pc = "bands" => Lists(extend, Base \cup TailsTo(Round * Turn, work, bc))
    /\ pc = "record" => Lists(extend, TableOfDisk)

LEMMA LoopStays ==
  ASSUME UNCHANGED <<fluid, batch, diskVars>>
  PROVE  /\ BatchSet' = BatchSet
         /\ \A j : Done(j)' = Done(j) /\ RoundBase(j)' = RoundBase(j) /\ Rounds(j)' = Rounds(j)
         /\ \A p, w, c : TailsTo(p, w, c)' = TailsTo(p, w, c)
<1>1. batch' = batch BY DEF diskVars
<1>2. Used' = Used /\ \A S : FluidBandsAfter(S)' = FluidBandsAfter(S) BY AfterStays
<1>3. \A j : Done(j)' = Done(j) BY <1>1 DEF Done
<1>4. \A j : RoundBase(j)' = RoundBase(j) BY <1>1 DEF RoundBase
<1>5. \A j : RoundTail(j)' = RoundTail(j) BY <1>2, <1>3 DEF RoundTail
<1>6. \A j : Rounds(j)' = Rounds(j) BY <1>4, <1>5 DEF Rounds
<1>7. \A p, w, c : TailsTo(p, w, c)' = TailsTo(p, w, c) BY <1>2 DEF TailsTo, BandTail
<1> QED BY <1>1, <1>3, <1>4, <1>6, <1>7 DEF BatchSet

LEMMA TableStays ==
  ASSUME UNCHANGED <<fluid, batch, work, diskVars>>
  PROVE  TableOfDisk' = TableOfDisk
<1>1. fluid' = fluid /\ batch' = batch /\ work' = work /\ band' = band BY DEF diskVars
<1>2. BatchSet' = BatchSet BY <1>1 DEF BatchSet
<1>3. Used' = Used /\ \A S : FluidBandsAfter(S)' = FluidBandsAfter(S) BY AfterStays
<1>4. FluidExtension(BatchSet, Used)' = FluidExtension(BatchSet, Used)
  <2>1. \A t : RoundOf(BatchSet, t)' = RoundOf(BatchSet, t)
    BY <1>2 DEF RoundOf, UpTo
  <2>2. \A t : UpTo(BatchSet, t)' = UpTo(BatchSet, t) BY <1>2 DEF UpTo
  <2>3. \A t : FluidBandsAfter(UpTo(BatchSet, t))' = FluidBandsAfter(UpTo(BatchSet, t))
    BY <1>1, <2>2 DEF FluidBandsAfter, FluidBandAfter, BandAfter
  <2> DEFINE X(t) == Entries(RoundOf(BatchSet, t), {t}) \cup
                     Tails(RoundOf(BatchSet, t), FluidBandsAfter(UpTo(BatchSet, t)), Used)
  <2>4. ASSUME NEW t PROVE X(t)' = X(t)
    <3> DEFINE p == RoundOf(BatchSet, t)
               w == FluidBandsAfter(UpTo(BatchSet, t))
    <3>1. p' = p /\ w' = w /\ Used' = Used BY <1>3, <2>1, <2>3
    <3> HIDE DEF p, w
    <3>2. Tails(p, w, Used)' = Tails(p, w, Used)
      BY <3>1 DEF Tails, Entries, Upstream, Downstream
    <3> QED BY <3>1, <3>2 DEF p, w
  <2>5. FluidExtension(BatchSet, Used)' = UNION {X(t)' : t \in BatchSet'}
    BY DEF FluidExtension
  <2>6. {X(t)' : t \in BatchSet'} = {X(t) : t \in BatchSet} BY <1>2, <2>4
  <2> QED BY <2>5, <2>6 DEF FluidExtension
<1>5. Extension(BatchSet, work, Used)' = Extension(BatchSet, work, Used)
  BY <1>1, <1>2, <1>3 DEF Extension, Tails, Entries, Upstream, Downstream
<1> QED BY <1>1, <1>4, <1>5 DEF TableOfDisk

LEMMA LoopInitInv == LoopInit => LoopInv
<1> SUFFICES ASSUME LoopInit PROVE LoopInv OBVIOUS
<1>1. /\ fluid \in BOOLEAN /\ work = band /\ i = 1 /\ extend = <<>> /\ pc = "tracks"
  BY DEF LoopInit
<1>2. band \in [Band -> BandRecord]
  <2>1. \A b \in Band : BandChoice(b) \subseteq BandRecord
    BY BandWithinDisk DEF BandChoice, BandRecord
  <2>2. band \in {f \in [Band -> UNION {BandChoice(b) : b \in Band}] :
                    \A b \in Band : f[b] \in BandChoice(b)}
    BY DEF LoopInit
  <2> QED BY <2>1, <2>2
<1>3. PICK S \in SUBSET Track : S # {} /\ batch = InOrder(S)
  <2>1. \E S \in (SUBSET Track) \ {{}} : batch = InOrder(S)
    <3> DEFINE P(S) == \E holes \in SUBSET Coverable(band) :
          /\ fluid => Cardinality(S) <= FluidBatch
          /\ Cardinality(holes) <= IF fluid THEN FluidHoles ELSE Holes
          /\ batch = InOrder(S)
          /\ storage = [t \in Track |->
               IF t \in S \cup (Coverable(band) \ holes)
               THEN [status |-> "in_use", lba |-> t, count |-> 1]
               ELSE [status |-> "free", lba |-> 0, count |-> 0]]
    <3>1. \E S \in (SUBSET Track) \ {{}} : P(S) BY DEF LoopInit
    <3>2. \A S : P(S) => batch = InOrder(S) OBVIOUS
    <3> HIDE DEF P
    <3> QED BY <3>1, <3>2
  <2> QED BY <2>1
<1>4. BatchSet = S
  <2>1. /\ Len(batch) = Cardinality(S)
        /\ \A k \in 1 .. Cardinality(S) : batch[k] \in S
        /\ \A t \in S : batch[Cardinality(UpTo(S, t))] = t
    BY <1>3, Sorted
  <2>2. \A t \in S : Cardinality(UpTo(S, t)) \in 1 .. Cardinality(S) BY <1>3, UpToIsRank
  <2> QED BY <2>1, <2>2 DEF BatchSet
<1>5. Sorting
  <2>1. S \in SUBSET Track /\ S # {} BY <1>3
  <2>2. batch = InOrder(BatchSet) BY <1>3, <1>4
  <2>3. BatchSet \in SUBSET Track /\ BatchSet # {} BY <1>4, <2>1
  <2> QED BY <2>2, <2>3 DEF Sorting
<1>6. LoopTypes BY <1>1, <1>2, <1>5, SortedBatch DEF LoopTypes
<1>7. Done(0) = {} BY DEF Done
<1>8. After({}) = band
  <2>1. \A b \in Band : BandAfter({}, b) = band[b] BY DEF BandAfter
  <2> QED BY <1>2, <2>1 DEF After, BandsAfter, FluidBandsAfter, FluidBandAfter
<1>9. Rounds(0) = {} /\ Entries(0, {}) = {}
  <2>1. 0 \in Nat OBVIOUS
  <2> QED BY <2>1, RoundsGrow DEF Entries
<1>10. i - 1 = 0 BY <1>1
<1> QED BY <1>1, <1>6, <1>7, <1>8, <1>9, <1>10, ListsNothing DEF LoopInv

LEMMA ScanTrackInv == LoopInv /\ ScanTrack => LoopInv'
<1> SUFFICES ASSUME LoopInv, ScanTrack PROVE LoopInv' OBVIOUS
<1> DEFINE t == batch[i]
           D == Done(i - 1)
           m == IF fluid THEN i - 1 ELSE 0
           E == IF fluid THEN Rounds(i - 1) ELSE Entries(0, D)
           last == fluid \/ i = Len(batch)
<1>1. /\ LoopTypes /\ pc = "tracks" /\ i \in 1 .. Len(batch)
      /\ work = After(D) /\ Lists(extend, E)
  BY DEF LoopInv, LoopTypes, ScanTrack
<1>2. /\ fluid \in BOOLEAN /\ Sorting /\ band \in [Band -> BandRecord] BY <1>1 DEF LoopTypes
<1>3. /\ Len(batch) \in Nat /\ i \in Nat /\ i - 1 \in Nat /\ (i - 1) + 1 = i
  BY <1>1, <1>2, SortedBatch
<1>4. /\ D \in SUBSET Track /\ t \in Track /\ Done(i) = D \cup {t}
      /\ \A u \in D : u < t
  BY <1>1, <1>2, DoneGrows
<1>5. UNCHANGED <<fluid, batch, diskVars>> BY DEF ScanTrack
<1>6. i' = i + 1 /\ bc' = 0 /\ pc' = IF last THEN "bands" ELSE "tracks"
  BY DEF ScanTrack
<1>7. work' = After(D \cup {t})
  <2> DEFINE b == t \div BandTracks
  <2>1. work' = IF PassesOver(work[b]) THEN work ELSE [work EXCEPT ![b] = Scan(@, t)]
    BY DEF ScanTrack
  <2>2. After(D \cup {t}) = IF PassesOver(After(D)[b]) THEN After(D)
                            ELSE [After(D) EXCEPT ![b] = Scan(@, t)]
    <3> HIDE DEF D, t
    <3> QED BY <1>2, <1>4, AfterNext
  <2> QED BY <1>1, <2>1, <2>2
<1>8. Lists(extend', E \cup Entries(Round * m, {t}))
  <2>1. m \in Nat /\ Round \in Nat BY <1>2, <1>3, BandCountAssumption DEF Round
  <2>2. Round * m \in Nat /\ (Round * m) % Round = 0
    <3>1. (Round * m + 0) % Round = 0 BY <2>1, PassOfRound, BandCountAssumption
    <3>2. Round * m \in Nat BY <2>1
    <3> HIDE DEF m
    <3> QED BY <3>1, <3>2
  <2>3. \A e \in E : e.pass < Round * m \/ (e.pass = Round * m /\ e.track < t)
    <3>1. CASE fluid BY <1>3, <3>1, RoundsEnd
    <3>2. CASE ~ fluid
      <4>1. Round * m = 0 BY <2>1, <3>2
      <4>2. \A e \in E : e.pass = 0 /\ e.track \in D BY <3>2 DEF Entries
      <4> QED BY <1>4, <4>1, <4>2
    <3> QED BY <3>1, <3>2
  <2>4. extend' = Append(extend, [track |-> t, virtual |-> FALSE]) BY DEF ScanTrack
  <2> DEFINE p == Round * m
  <2> HIDE DEF E, t, p
  <2>5. Lists(Append(extend, [track |-> t, virtual |-> FALSE]), E \cup Entries(p, {t}))
    <3>1. p \in Nat /\ p % Round = 0 BY <2>2 DEF p
    <3>2. \A e \in E : e.pass < p \/ (e.pass = p /\ e.track < t) BY <2>3 DEF p
    <3> QED BY <1>1, <1>4, <3>1, <3>2, RowListed
  <2> QED BY <2>4, <2>5 DEF p
<1>9. ~ fluid => E \cup Entries(Round * m, {t}) = Entries(0, Done(i))
  <2> SUFFICES ASSUME ~ fluid PROVE E \cup Entries(Round * m, {t}) = Entries(0, Done(i))
    OBVIOUS
  <2>1. Round * m = 0 BY BandCountAssumption DEF Round
  <2> QED BY <1>4, <2>1 DEF Entries
<1>10. /\ BatchSet' = BatchSet /\ Len(batch)' = Len(batch)
       /\ \A j : Done(j)' = Done(j) /\ RoundBase(j)' = RoundBase(j) /\ Rounds(j)' = Rounds(j)
       /\ \A p, w, c : TailsTo(p, w, c)' = TailsTo(p, w, c)
       /\ \A S : After(S)' = After(S)
  BY <1>5, LoopStays, AfterStays
<1>11. LoopTypes'
  <2>1. fluid' = fluid /\ band' = band /\ batch' = batch BY <1>5 DEF diskVars
  <2>2. Sorting' BY <1>2, <1>10, <2>1 DEF Sorting
  <2>3. CASE last
    <3>1. i' \in 2 .. Len(batch) + 1 /\ bc' \in 0 .. BandCount
      BY <1>1, <1>3, <1>6, BandCountAssumption
    <3> QED BY <1>2, <1>6, <2>1, <2>2, <2>3, <3>1 DEF LoopTypes
  <2>4. CASE ~ last
    <3>1. i' \in 1 .. Len(batch) BY <1>1, <1>3, <1>6, <2>4
    <3> QED BY <1>2, <1>6, <2>1, <2>2, <2>4, <3>1 DEF LoopTypes
  <2> QED BY <2>3, <2>4
<1>12. i' - 1 = i /\ i' - 2 = i - 1 BY <1>3, <1>6
<1>13. Done(i - 1)' = Done(i)
  <2>1. batch' = batch BY <1>5
  <2> QED BY <1>12, <2>1 DEF Done
<1>14. work' = After(Done(i - 1))'
  <2>1. band' = band /\ fluid' = fluid BY <1>5 DEF diskVars
  <2>2. After(Done(i - 1))' = After(Done(i))
    <3>1. \A b \in Band : BandAfter(Done(i - 1), b)' = BandAfter(Done(i), b)
      BY <1>13, <2>1 DEF BandAfter
    <3> QED BY <2>1, <3>1 DEF After, BandsAfter, FluidBandsAfter, FluidBandAfter
  <2> QED BY <1>4, <1>7, <2>2
<1>15. ~ last => Lists(extend, Entries(0, Done(i - 1)))' /\ ~ fluid'
  BY <1>5, <1>8, <1>9, <1>13 DEF Lists, Entries
<1>16. last => Lists(extend, Base \cup TailsTo(Round * Turn, work, bc))'
  <2> SUFFICES ASSUME last
               PROVE  Lists(extend, Base \cup TailsTo(Round * Turn, work, bc))'
    OBVIOUS
  <2>1. TailsTo(Round * Turn, work, bc)' = {}
    <3>1. {d \in Band : d < bc'} = {} BY <1>6 DEF Band
    <3> QED BY <3>1 DEF TailsTo
  <2>2. Base' = E \cup Entries(Round * m, {t})
    <3>1. CASE fluid
      <4>1. Rounds(i - 2)' = Rounds(i - 1)
        <5>1. \A k : RoundTail(k)' = RoundTail(k)
          <6>1. Used' = Used /\ \A S : FluidBandsAfter(S)' = FluidBandsAfter(S)
            BY <1>5, AfterStays
          <6> QED BY <1>10, <6>1 DEF RoundTail
        <5> QED BY <1>10, <1>12, <5>1 DEF Rounds
      <4>2. RoundBase(i - 1)' = RoundBase(i)
        <5>1. batch' = batch BY <1>5
        <5> QED BY <1>12, <5>1 DEF RoundBase
      <4>3. Base' = Rounds(i - 1) \cup RoundBase(i) BY <1>5, <3>1, <4>1, <4>2 DEF Base
      <4> QED BY <3>1, <4>3 DEF RoundBase
    <3>2. CASE ~ fluid
      <4>1. Done(i) = BatchSet BY <1>2, <3>2, DoneGrows
      <4>2. Base' = Entries(0, BatchSet) BY <1>5, <1>10, <3>2 DEF Base
      <4> QED BY <1>9, <3>2, <4>1, <4>2
    <3> QED BY <3>1, <3>2
  <2>3. (Base \cup TailsTo(Round * Turn, work, bc))' = E \cup Entries(Round * m, {t})
    BY <2>1, <2>2
  <2> HIDE DEF E, m, t
  <2> QED BY <1>8, <2>3 DEF Lists
<1> HIDE DEF last
<1> QED BY <1>6, <1>11, <1>14, <1>15, <1>16 DEF LoopInv

LEMMA ExtendBandInv == LoopInv /\ ExtendBand => LoopInv'
<1> SUFFICES ASSUME LoopInv, ExtendBand PROVE LoopInv' OBVIOUS
<1> DEFINE p == Round * Turn
           E == Base \cup TailsTo(p, work, bc)
<1>1. /\ LoopTypes /\ pc = "bands" /\ bc < BandCount /\ bc \in 0 .. BandCount
      /\ i \in 2 .. Len(batch) + 1
      /\ work = After(Done(i - 1)) /\ Lists(extend, E)
  BY DEF LoopInv, LoopTypes, ExtendBand
<1>2. Sorting /\ fluid \in BOOLEAN BY <1>1 DEF LoopTypes
<1>3. /\ Len(batch) \in Nat /\ i \in Nat /\ Turn \in Nat /\ bc \in Band /\ bc \in Nat
      /\ i - 2 \in Nat
  <2>1. Len(batch) \in Nat BY <1>2, SortedBatch
  <2> QED BY <1>1, <1>2, <2>1, BandCountAssumption DEF Turn, Band
<1>4. Round \in Nat /\ p \in Nat BY <1>3, BandCountAssumption DEF Round
<1>5. UNCHANGED <<fluid, batch, i, work, pc, diskVars>> /\ bc' = bc + 1
  BY DEF ExtendBand
<1>6. \A e \in E : e.pass <= p + 2*bc
  <2>1. \A e \in Base : e.pass \in Int /\ e.pass <= p
    <3>1. CASE fluid
      <4>1. p = Round * (i - 2) BY <3>1 DEF Turn
      <4>2. Base = Rounds(i - 2) \cup RoundBase(i - 1) BY <3>1 DEF Base
      <4>3. \A e \in Rounds(i - 2) : e.pass \in Int /\ e.pass < p
        <5>1. i - 2 \in Nat BY <1>3
        <5> HIDE DEF p
        <5> QED BY <4>1, <5>1, RoundsEnd
      <4>4. \A e \in RoundBase(i - 1) : e.pass = p
        <5>1. (i - 1) - 1 = i - 2 BY <1>3
        <5> QED BY <4>1, <5>1 DEF RoundBase, Entries
      <4> HIDE DEF p
      <4> QED BY <1>4, <4>2, <4>3, <4>4
    <3>2. CASE ~ fluid
      <4>1. p = 0 BY <1>4, <3>2 DEF Turn
      <4> QED BY <3>2, <4>1 DEF Base, Entries
    <3> QED BY <3>1, <3>2
  <2>2. \A e \in TailsTo(p, work, bc) : e.pass <= p + 2*bc
    <3> HIDE DEF p
    <3> QED BY <1>1, <1>4, TailPasses
  <2> HIDE DEF p
  <2> QED BY <1>3, <1>4, <2>1, <2>2
<1>7. Lists(extend', E \cup BandTail(p, work, bc))
  <2>1. CASE ~ work[bc].rmw
    <3>1. extend' = extend BY <2>1 DEF ExtendBand
    <3>2. BandTail(p, work, bc) = {} BY <2>1 DEF BandTail
    <3> QED BY <1>1, <3>1, <3>2
  <2>2. CASE work[bc].rmw
    <3>1. extend' = extend \o Appended(Upstream(bc, work[bc])) \o Appended(Downstream(work[bc]))
      BY <2>2 DEF ExtendBand, Upstream, Downstream
    <3> HIDE DEF E
    <3> QED BY <1>1, <1>3, <1>6, <2>2, <3>1, TailListed
  <2> QED BY <2>1, <2>2
<1>8. E \cup BandTail(p, work, bc) = Base \cup TailsTo(p, work, bc + 1)
  <2>1. TailsTo(p, work, bc + 1) = TailsTo(p, work, bc) \cup BandTail(p, work, bc)
    <3> HIDE DEF p
    <3> QED BY <1>3, TailsGrow
  <2> QED BY <2>1
<1>9. /\ BatchSet' = BatchSet /\ Len(batch)' = Len(batch)
      /\ \A j : Done(j)' = Done(j) /\ RoundBase(j)' = RoundBase(j) /\ Rounds(j)' = Rounds(j)
      /\ \A q, w, c : TailsTo(q, w, c)' = TailsTo(q, w, c)
      /\ \A S : After(S)' = After(S)
  BY <1>5, LoopStays, AfterStays
<1>10. Base' = Base
  <2>1. fluid' = fluid /\ i' = i /\ batch' = batch BY <1>5
  <2>2. \A k : RoundTail(k)' = RoundTail(k)
    <3>1. Used' = Used /\ \A S : FluidBandsAfter(S)' = FluidBandsAfter(S)
      BY <1>5, AfterStays
    <3> QED BY <1>9, <3>1 DEF RoundTail
  <2>3. Rounds(i - 2)' = Rounds(i - 2) BY <1>9, <2>1, <2>2 DEF Rounds
  <2>4. RoundBase(i - 1)' = RoundBase(i - 1) BY <2>1 DEF RoundBase
  <2> QED BY <1>9, <2>1, <2>3, <2>4 DEF Base
<1>11. TailsTo(Round * Turn, work, bc)' = TailsTo(p, work, bc + 1)
  <2>1. p' = p /\ work' = work /\ bc' = bc + 1 BY <1>5 DEF Turn
  <2>2. Used' = Used BY <1>5, AfterStays
  <2> QED BY <2>1, <2>2 DEF TailsTo, BandTail
<1>12. LoopTypes'
  <2>1. fluid' = fluid /\ band' = band /\ batch' = batch /\ i' = i /\ pc' = pc
    BY <1>5 DEF diskVars
  <2>2. Sorting' BY <1>2, <1>9, <2>1 DEF Sorting
  <2>3. bc' \in 0 .. BandCount BY <1>3, <1>5, BandCountAssumption DEF Band
  <2> QED BY <1>1, <2>1, <2>2, <2>3 DEF LoopTypes
<1>13. work' = After(Done(i - 1))'
  <2>1. band' = band /\ fluid' = fluid BY <1>5 DEF diskVars
  <2>2. Done(i - 1)' = Done(i - 1) BY <1>5 DEF Done
  <2>3. After(Done(i - 1))' = After(Done(i - 1))
    <3>1. \A b \in Band : BandAfter(Done(i - 1), b)' = BandAfter(Done(i - 1), b)
      BY <2>1, <2>2 DEF BandAfter
    <3> QED BY <2>1, <3>1 DEF After, BandsAfter, FluidBandsAfter, FluidBandAfter
  <2> QED BY <1>1, <1>5, <2>3
<1>14. Lists(extend, Base \cup TailsTo(Round * Turn, work, bc))'
  <2>1. (Base \cup TailsTo(Round * Turn, work, bc))' = Base \cup TailsTo(p, work, bc + 1)
    BY <1>10, <1>11
  <2>2. (Base \cup TailsTo(Round * Turn, work, bc))' = E \cup BandTail(p, work, bc)
    BY <1>8, <2>1
  <2> HIDE DEF E, p
  <2> QED BY <1>7, <2>2 DEF Lists
<1> QED BY <1>1, <1>5, <1>12, <1>13, <1>14 DEF LoopInv

LEMMA NextTrackInv == LoopInv /\ NextTrack => LoopInv'
<1> SUFFICES ASSUME LoopInv, NextTrack PROVE LoopInv' OBVIOUS
<1>1. /\ LoopTypes /\ pc = "bands" /\ bc = BandCount /\ i <= Len(batch)
      /\ i \in 2 .. Len(batch) + 1
      /\ work = After(Done(i - 1))
      /\ Lists(extend, Base \cup TailsTo(Round * Turn, work, BandCount))
  BY DEF LoopInv, LoopTypes, NextTrack
<1>2. Sorting BY <1>1 DEF LoopTypes
<1>3. Len(batch) \in Nat /\ i \in Nat /\ i - 2 \in Nat /\ (i - 2) + 1 = i - 1
      /\ i \in 1 .. Len(batch)
  BY <1>1, <1>2, SortedBatch
<1>4. fluid BY <1>1, <1>3 DEF LoopTypes
<1>5. Base \cup TailsTo(Round * Turn, work, BandCount) = Rounds(i - 1)
  <2>1. Base = Rounds(i - 2) \cup RoundBase(i - 1) /\ Turn = i - 2 BY <1>4 DEF Base, Turn
  <2>2. TailsTo(Round * Turn, work, BandCount) = Tails(Round * (i - 2), work, Used)
    BY <2>1, TailsGrow
  <2>3. work = FluidBandsAfter(Done(i - 1)) /\ (i - 1) - 1 = i - 2
    BY <1>1, <1>3, <1>4 DEF After
  <2>4. TailsTo(Round * Turn, work, BandCount) = RoundTail(i - 1)
    BY <2>2, <2>3 DEF RoundTail
  <2>5. Rounds((i - 2) + 1)
          = Rounds(i - 2) \cup (RoundBase((i - 2) + 1) \cup RoundTail((i - 2) + 1))
    BY <1>3, RoundsGrow
  <2> QED BY <1>3, <2>1, <2>4, <2>5
<1>6. UNCHANGED <<fluid, batch, i, work, extend, diskVars>> /\ pc' = "tracks"
  BY DEF NextTrack
<1>7. fluid' = fluid /\ band' = band /\ batch' = batch /\ i' = i BY <1>6 DEF diskVars
<1>8. BatchSet' = BatchSet BY <1>7 DEF BatchSet
<1>9. LoopTypes' BY <1>1, <1>3, <1>6, <1>7, <1>8 DEF LoopTypes, Sorting
<1>10. Done(i - 1)' = Done(i - 1) BY <1>7 DEF Done
<1>11. work' = After(Done(i - 1))'
  <2>1. After(Done(i - 1))' = After(Done(i - 1))
    <3>1. \A b \in Band : BandAfter(Done(i - 1), b)' = BandAfter(Done(i - 1), b)
      BY <1>7, <1>10 DEF BandAfter
    <3> QED BY <1>7, <3>1 DEF After, BandsAfter, FluidBandsAfter, FluidBandAfter
  <2> QED BY <1>1, <1>6, <2>1
<1>12. Rounds(i - 1)' = Rounds(i - 1)
  <2>1. /\ Used' = Used /\ \A S : FluidBandsAfter(S)' = FluidBandsAfter(S)
        /\ \A j : Done(j)' = Done(j)
    BY <1>6, AfterStays, LoopStays
  <2> QED BY <1>7, <2>1 DEF Rounds, RoundBase, RoundTail
<1>13. Lists(extend, IF fluid THEN Rounds(i - 1) ELSE Entries(0, Done(i - 1)))'
  <2>1. Lists(extend', Rounds(i - 1)) BY <1>1, <1>5, <1>6
  <2> QED BY <1>4, <1>7, <1>12, <2>1 DEF Lists
<1> QED BY <1>6, <1>9, <1>11, <1>13 DEF LoopInv

LEMMA StartRecordInv == LoopInv /\ StartRecord => LoopInv'
<1> SUFFICES ASSUME LoopInv, StartRecord PROVE LoopInv' OBVIOUS
<1>1. /\ LoopTypes /\ pc = "bands" /\ bc = BandCount /\ ~ i <= Len(batch)
      /\ i \in 2 .. Len(batch) + 1
      /\ work = After(Done(i - 1))
      /\ Lists(extend, Base \cup TailsTo(Round * Turn, work, BandCount))
  <2>1. i > Len(batch) /\ i \in 2 .. Len(batch) + 1 BY DEF LoopInv, LoopTypes, StartRecord
  <2>2. Sorting BY DEF LoopInv, LoopTypes
  <2>3. ~ i <= Len(batch) BY <2>1, <2>2, SortedBatch
  <2> QED BY <2>3 DEF LoopInv, LoopTypes, StartRecord
<1>2. Sorting /\ fluid \in BOOLEAN BY <1>1 DEF LoopTypes
<1>3. /\ Len(batch) \in Nat /\ i \in Nat /\ i = Len(batch) + 1 /\ i - 1 = Len(batch)
      /\ i - 2 \in Nat /\ (i - 2) + 1 = i - 1
  BY <1>1, <1>2, SortedBatch
<1>4. Done(i - 1) = BatchSet BY <1>2, <1>3, DoneGrows
<1>5. Base \cup TailsTo(Round * Turn, work, BandCount) = TableOfDisk
  <2>1. TailsTo(Round * Turn, work, BandCount) = Tails(Round * Turn, work, Used)
    BY TailsGrow
  <2>2. CASE fluid
    <3>1. Base = Rounds(i - 2) \cup RoundBase(i - 1) /\ Turn = i - 2 BY <2>2 DEF Base, Turn
    <3>2. work = FluidBandsAfter(Done(i - 1)) /\ (i - 1) - 1 = i - 2
      BY <1>1, <1>3, <2>2 DEF After
    <3>3. Tails(Round * Turn, work, Used) = RoundTail(i - 1) BY <3>1, <3>2 DEF RoundTail
    <3>4. Rounds((i - 2) + 1)
            = Rounds(i - 2) \cup (RoundBase((i - 2) + 1) \cup RoundTail((i - 2) + 1))
      BY <1>3, RoundsGrow
    <3>5. Rounds(Len(batch)) = TableOfDisk BY <1>2, <2>2, RoundsAll DEF TableOfDisk
    <3> QED BY <1>3, <2>1, <3>1, <3>3, <3>4, <3>5
  <2>3. CASE ~ fluid
    <3>1. Round * Turn = 0 BY <2>3, BandCountAssumption DEF Turn, Round
    <3> QED BY <2>1, <2>3, <3>1 DEF Base, TableOfDisk, Extension
  <2> QED BY <1>2, <2>2, <2>3
<1>6. UNCHANGED <<fluid, batch, work, extend, diskVars>> /\ pc' = "record"
  BY DEF StartRecord
<1>7. fluid' = fluid /\ band' = band /\ batch' = batch /\ storage' = storage
  BY <1>6 DEF diskVars
<1>8. BatchSet' = BatchSet BY <1>7 DEF BatchSet
<1>9. LoopTypes' BY <1>1, <1>6, <1>7, <1>8 DEF LoopTypes, Sorting
<1>10. After(BatchSet)' = After(BatchSet)
  <2>1. \A b \in Band : BandAfter(BatchSet, b)' = BandAfter(BatchSet, b)
    BY <1>7, <1>8 DEF BandAfter
  <2> QED BY <1>7, <2>1 DEF After, BandsAfter, FluidBandsAfter, FluidBandAfter
<1>11. TableOfDisk' = TableOfDisk BY <1>6, TableStays
<1>12. Lists(extend, TableOfDisk)' BY <1>1, <1>5, <1>6, <1>11 DEF Lists
<1> QED BY <1>1, <1>4, <1>6, <1>9, <1>10, <1>12 DEF LoopInv

LEMMA RecordEntryInv == LoopInv /\ RecordEntry => LoopInv'
<1> SUFFICES ASSUME LoopInv, RecordEntry PROVE LoopInv' OBVIOUS
<1>1. LoopTypes /\ pc = "record" /\ work = After(BatchSet) /\ Lists(extend, TableOfDisk)
  BY DEF LoopInv, RecordEntry
<1>6. UNCHANGED <<fluid, batch, work, extend, pc, diskVars>> BY DEF RecordEntry
<1>7. fluid' = fluid /\ band' = band /\ batch' = batch /\ pc' = pc
  BY <1>6 DEF diskVars
<1>8. BatchSet' = BatchSet BY <1>7 DEF BatchSet
<1>9. LoopTypes' BY <1>1, <1>6, <1>7, <1>8 DEF LoopTypes, Sorting
<1>10. After(BatchSet)' = After(BatchSet)
  <2>1. \A b \in Band : BandAfter(BatchSet, b)' = BandAfter(BatchSet, b)
    BY <1>7, <1>8 DEF BandAfter
  <2> QED BY <1>7, <2>1 DEF After, BandsAfter, FluidBandsAfter, FluidBandAfter
<1>11. TableOfDisk' = TableOfDisk BY <1>6, TableStays
<1>12. Lists(extend, TableOfDisk)' BY <1>1, <1>6, <1>11 DEF Lists
<1> QED BY <1>1, <1>6, <1>7, <1>9, <1>10, <1>12 DEF LoopInv

LEMMA LoopStepInv == LoopInv /\ [LoopNext]_<<loopVars, diskVars>> => LoopInv'
<1> SUFFICES ASSUME LoopInv, [LoopNext]_<<loopVars, diskVars>> PROVE LoopInv' OBVIOUS
<1>1. CASE ScanTrack BY <1>1, ScanTrackInv
<1>2. CASE ExtendBand BY <1>2, ExtendBandInv
<1>3. CASE NextTrack BY <1>3, NextTrackInv
<1>4. CASE StartRecord BY <1>4, StartRecordInv
<1>5. CASE RecordEntry BY <1>5, RecordEntryInv
<1>6. CASE UNCHANGED <<loopVars, diskVars>>
  <2>1. UNCHANGED <<fluid, batch, i, bc, work, extend, pc, diskVars>>
    BY <1>6 DEF loopVars
  <2>2. /\ fluid' = fluid /\ band' = band /\ batch' = batch /\ i' = i /\ bc' = bc
        /\ work' = work /\ extend' = extend /\ pc' = pc /\ Used' = Used
    BY <2>1, AfterStays DEF diskVars
  <2>3. BatchSet' = BatchSet /\ Done(i - 1)' = Done(i - 1) BY <2>2 DEF BatchSet, Done
  <2>4. After(BatchSet)' = After(BatchSet) /\ After(Done(i - 1))' = After(Done(i - 1))
    <3>1. \A b \in Band : BandAfter(BatchSet, b)' = BandAfter(BatchSet, b)
      BY <2>2, <2>3 DEF BandAfter
    <3>2. \A b \in Band : BandAfter(Done(i - 1), b)' = BandAfter(Done(i - 1), b)
      BY <2>2, <2>3 DEF BandAfter
    <3> QED BY <2>2, <3>1, <3>2 DEF After, BandsAfter, FluidBandsAfter, FluidBandAfter
  <2>5. TableOfDisk' = TableOfDisk BY <2>1, TableStays
  <2>6. /\ \A S : FluidBandsAfter(S)' = FluidBandsAfter(S)
        /\ \A j : Done(j)' = Done(j)
    BY <2>1, AfterStays, LoopStays
  <2>7. /\ Rounds(i - 1)' = Rounds(i - 1) /\ Rounds(i - 2)' = Rounds(i - 2)
        /\ RoundBase(i - 1)' = RoundBase(i - 1)
    BY <2>2, <2>6 DEF Rounds, RoundBase, RoundTail
  <2>8. Base' = Base BY <2>2, <2>3, <2>7 DEF Base
  <2>9. Turn' = Turn BY <2>2 DEF Turn
  <2>10. TailsTo(Round * Turn, work, bc)' = TailsTo(Round * Turn, work, bc)
    BY <2>2, <2>9 DEF TailsTo, BandTail
  <2>11. LoopTypes' BY <2>2, <2>3 DEF LoopInv, LoopTypes, Sorting
  <2>12. pc = "tracks" => (Lists(extend, IF fluid THEN Rounds(i - 1)
                                         ELSE Entries(0, Done(i - 1))))'
    BY <2>2, <2>3, <2>7 DEF LoopInv, Lists
  <2>13. pc = "bands" => Lists(extend, Base \cup TailsTo(Round * Turn, work, bc))'
    <3>1. (Base \cup TailsTo(Round * Turn, work, bc))'
            = Base \cup TailsTo(Round * Turn, work, bc)
      BY <2>8, <2>10
    <3> QED BY <2>2, <3>1 DEF LoopInv, Lists
  <2>14. pc = "record" => Lists(extend, TableOfDisk)' BY <2>2, <2>5 DEF LoopInv, Lists
  <2> QED BY <2>2, <2>4, <2>11, <2>12, <2>13, <2>14 DEF LoopInv
<1> QED BY <1>1, <1>2, <1>3, <1>4, <1>5, <1>6 DEF LoopNext

\* The loops of batch_extend and batch_extend_fluidsmr leave the band array
\* and the extended table that Disk states in closed form.
THEOREM ExtendHolds == LoopSpec => []ExtendAgrees
<1>1. LoopInv => ExtendAgrees
  <2> SUFFICES ASSUME LoopInv, pc = "record"
               PROVE  LET E == TableOfDisk
                      IN  /\ work = IF fluid THEN FluidBandsAfter(BatchSet)
                                   ELSE BandsAfter(BatchSet)
                          /\ Len(extend) = Cardinality(E)
                          /\ \A e \in E : extend[Place(E, e)]
                                            = [track |-> e.track, virtual |-> IsVirtual(e)]
    BY DEF ExtendAgrees
  <2> QED BY DEF LoopInv, Lists, RowOf, After
<1> QED BY <1>1, LoopInitInv, LoopStepInv, PTL DEF LoopSpec

-----------------------------------------------------------------------------
(* Runs and sums of a listed table, by position.                           *)

Cuts(s) == {k \in 1 .. Len(s) : k = 1 \/ s[k - 1].track + 1 # s[k].track}
Marked(s) == {k \in 1 .. Len(s) : s[k].virtual}
Together(s, k, l) == \A c \in Cuts(s) : k < c <=> l < c
InMarkedRun(s) == {k \in 1 .. Len(s) : \E v \in Marked(s) : Together(s, k, v)}

\* What the entries at the positions X are charged.
SumOf(s, X) ==
    LET V == InMarkedRun(s)
        C == Cuts(s)
    IN  [time |-> Cost(Cardinality(X \cap (C \ V)), Cardinality(X \ V))
                  + 3 * Cost(Cardinality(X \cap (C \cap V)), Cardinality(X \cap V)),
         own |-> Cardinality(X \ Marked(s)),
         rewrite |-> Cardinality(X \cap Marked(s)),
         reread |-> Cardinality(X \cap V)]

\* What of A and of the rest is in X or in R is counted in each.
Splits(X, R, A) ==
    /\ Cardinality(X \cap A) \in Nat /\ Cardinality(X \ A) \in Nat
    /\ Cardinality(R \cap A) \in Nat /\ Cardinality(R \ A) \in Nat
    /\ Cardinality((X \cup R) \cap A) = Cardinality(X \cap A) + Cardinality(R \cap A)
    /\ Cardinality((X \cup R) \ A) = Cardinality(X \ A) + Cardinality(R \ A)

LEMMA SplitCount ==
  ASSUME NEW X, IsFiniteSet(X), NEW R, IsFiniteSet(R), X \cap R = {}, NEW A
  PROVE  Splits(X, R, A)
<1>2. /\ IsFiniteSet(X \cap A) /\ IsFiniteSet(R \cap A)
      /\ IsFiniteSet(X \ A) /\ IsFiniteSet(R \ A)
  <2>1. /\ X \cap A \in SUBSET X /\ R \cap A \in SUBSET R
        /\ X \ A \in SUBSET X /\ R \ A \in SUBSET R
    OBVIOUS
  <2> QED BY <2>1, FS_Subset
<1>3. /\ (X \cup R) \cap A = (X \cap A) \cup (R \cap A)
      /\ (X \cup R) \ A = (X \ A) \cup (R \ A)
      /\ (X \cap A) \cap (R \cap A) = {} /\ (X \ A) \cap (R \ A) = {}
  OBVIOUS
<1>4. Cardinality((X \cup R) \cap A) = Cardinality(X \cap A) + Cardinality(R \cap A)
  BY <1>2, <1>3, DisjointCount
<1>5. Cardinality((X \cup R) \ A) = Cardinality(X \ A) + Cardinality(R \ A)
  BY <1>2, <1>3, DisjointCount
<1> QED BY <1>2, <1>4, <1>5, FS_CardinalityType DEF Splits

\* The time to pass over m tracks.
OnePass(m) == LSeek + m * LTrack

\* What one more run of m tracks costs.
CostGrows(c, t, m) ==
    /\ Cost(c, t) \in Nat /\ OnePass(m) \in Nat
    /\ Cost(c + 1, t + m) = Cost(c, t) + OnePass(m)
    /\ Cost(c + 0, t + 0) = Cost(c, t)

LEMMA CostOfRun ==
  ASSUME NEW c \in Nat, NEW t \in Nat, NEW m \in Nat
  PROVE  CostGrows(c, t, m)
<1>1. LSeek \in Nat /\ LTrack \in Nat BY LSeekAssumption, LTrackAssumption
<1>2. (c + 1) * LSeek = c * LSeek + LSeek /\ c * LSeek \in Nat BY <1>1
<1>3. (t + m) * LTrack = t * LTrack + m * LTrack BY <1>1
<1>4. t * LTrack \in Nat /\ m * LTrack \in Nat BY <1>1
<1>5. c + 0 = c /\ t + 0 = t OBVIOUS
<1> QED BY <1>1, <1>2, <1>3, <1>4, <1>5 DEF Cost, OnePass, CostGrows

\* Record on sums z.
Charged(z, r) ==
    LET once == OnePass(r.tracks)
    IN  IF r.virtual
        THEN [time |-> z.time + once + 2 * once,
              own |-> z.own + r.own,
              rewrite |-> z.rewrite + (r.tracks - r.own),
              reread |-> z.reread + r.tracks]
        ELSE [z EXCEPT !.time = @ + once, !.own = @ + r.tracks]

\* The loop of record_write before the entry at k: the run in progress began
\* at position b, and all before b is charged.
RunSince(s, k, r, b) ==
    /\ k \in 1 .. Len(s) + 1 /\ b \in 1 .. k
    /\ r.tracks = k + 1 - b
    /\ r.own = Cardinality((b .. k - 1) \ Marked(s))
    /\ r.virtual \in BOOLEAN
    /\ r.virtual <=> \E v \in Marked(s) : b <= v /\ v < k
    /\ r = [tracks |-> r.tracks, own |-> r.own, virtual |-> r.virtual]
    /\ k <= Len(s) => b \in Cuts(s)
    /\ k = Len(s) + 1 => b = k
    /\ \A c \in Cuts(s) : ~ (b < c /\ c <= k)

RunState(s, k, r, z) ==
    \E b \in 1 .. k : RunSince(s, k, r, b) /\ z = SumOf(s, 1 .. b - 1)

\* Run r with the entry at k.
Counted(s, k, r) ==
    [tracks |-> r.tracks, own |-> IF s[k].virtual THEN r.own ELSE r.own + 1,
     virtual |-> r.virtual \/ s[k].virtual]

LEMMA CountedRun ==
  ASSUME NEW s \in Seq(Row), NEW k \in 1 .. Len(s), NEW r, NEW b \in 1 .. k, RunSince(s, k, r, b)
  PROVE  /\ Counted(s, k, r).own = Cardinality((b .. k) \ Marked(s))
         /\ Counted(s, k, r).virtual \in BOOLEAN
         /\ Counted(s, k, r).virtual <=> \E v \in Marked(s) : b <= v /\ v <= k
<1>1. Len(s) \in Nat /\ k \in Nat /\ b \in Nat /\ s[k] \in Row BY ElementOfSeq
<1>2. /\ r.own = Cardinality((b .. k - 1) \ Marked(s)) /\ r.virtual \in BOOLEAN
      /\ r.virtual <=> \E v \in Marked(s) : b <= v /\ v < k
  BY DEF RunSince
<1>3. s[k].virtual \in BOOLEAN /\ (s[k].virtual <=> k \in Marked(s)) BY <1>1 DEF Row, Marked
<1>4. b .. k = (b .. k - 1) \cup {k} /\ k \notin b .. k - 1 BY <1>1
<1> DEFINE A == (b .. k - 1) \ Marked(s)
<1>5. IsFiniteSet(A)
  <2>1. IsFiniteSet(b .. k - 1) BY <1>1, FS_Interval
  <2> QED BY <2>1, FS_Subset
<1>6. Counted(s, k, r).own = Cardinality((b .. k) \ Marked(s))
  <2>1. CASE s[k].virtual
    <3>1. (b .. k) \ Marked(s) = A BY <1>3, <1>4, <2>1
    <3> QED BY <1>2, <2>1, <3>1 DEF Counted
  <2>2. CASE ~ s[k].virtual
    <3>1. (b .. k) \ Marked(s) = A \cup {k} /\ k \notin A BY <1>3, <1>4, <2>2
    <3> HIDE DEF A
    <3>2. Cardinality(A \cup {k}) = Cardinality(A) + 1 BY <1>5, <3>1, FS_AddElement
    <3>3. r.own = Cardinality(A) BY <1>2 DEF A
    <3> QED BY <2>2, <3>1, <3>2, <3>3 DEF Counted
  <2> QED BY <2>1, <2>2
<1>7. Counted(s, k, r).virtual = (r.virtual \/ s[k].virtual) BY DEF Counted
<1>8. \A v \in Marked(s) : v \in Nat BY DEF Marked
<1>9. (\E v \in Marked(s) : b <= v /\ v <= k) <=> (r.virtual \/ s[k].virtual)
  BY <1>1, <1>2, <1>3, <1>8
<1> QED BY <1>2, <1>3, <1>6, <1>7, <1>9

\* The next entry goes on with the run.
LEMMA RunGoesOn ==
  ASSUME NEW s \in Seq(Row), NEW k \in 1 .. Len(s), NEW r, NEW z, RunState(s, k, r, z),
         k < Len(s), s[k].track + 1 = s[k + 1].track
  PROVE  RunState(s, k + 1, [Counted(s, k, r) EXCEPT !.tracks = @ + 1], z)
<1>1. PICK b \in 1 .. k : RunSince(s, k, r, b) /\ z = SumOf(s, 1 .. b - 1) BY DEF RunState
<1> DEFINE q == [Counted(s, k, r) EXCEPT !.tracks = @ + 1]
<1>2. Len(s) \in Nat /\ k \in Nat /\ b \in Nat /\ k + 1 \in 1 .. Len(s) OBVIOUS
<1>3. /\ q.tracks = r.tracks + 1 /\ q.own = Counted(s, k, r).own
      /\ q.virtual = Counted(s, k, r).virtual
      /\ q = [tracks |-> q.tracks, own |-> q.own, virtual |-> q.virtual]
  BY DEF Counted
<1>4. k + 1 \notin Cuts(s) BY <1>2 DEF Cuts
<1>5. \A c \in Cuts(s) : c \in Nat BY DEF Cuts
<1>6. /\ r.tracks = k + 1 - b /\ b \in Cuts(s) /\ \A c \in Cuts(s) : ~ (b < c /\ c <= k)
  BY <1>1, <1>2 DEF RunSince
<1>7. /\ q.own = Cardinality((b .. k) \ Marked(s)) /\ q.virtual \in BOOLEAN
      /\ q.virtual <=> \E v \in Marked(s) : b <= v /\ v <= k
  BY <1>1, <1>3, CountedRun
<1> HIDE DEF q
<1>8. (k + 1) - 1 = k /\ q.tracks = (k + 1) + 1 - b BY <1>2, <1>3, <1>6
<1>9. \A c \in Cuts(s) : ~ (b < c /\ c <= k + 1) BY <1>2, <1>4, <1>5, <1>6
<1>10. \A v \in Marked(s) : v <= k <=> v < k + 1 BY <1>2 DEF Marked
<1>11. RunSince(s, k + 1, q, b)
  <2>1. b \in 1 .. k + 1 /\ k + 1 \in 1 .. Len(s) + 1 /\ k + 1 # Len(s) + 1 BY <1>2
  <2> QED BY <1>3, <1>6, <1>7, <1>8, <1>9, <1>10, <2>1 DEF RunSince
<1>12. b \in 1 .. k + 1 BY <1>2
<1> QED BY <1>1, <1>11, <1>12 DEF RunState, q

\* The run b .. k ends with the entry at k: it is alone with itself.
LEMMA WholeRun ==
  ASSUME NEW s \in Seq(Row), NEW k \in 1 .. Len(s), NEW b \in 1 .. k, b \in Cuts(s),
         \A c \in Cuts(s) : ~ (b < c /\ c <= k),
         ~ (k < Len(s) /\ s[k].track + 1 = s[k + 1].track)
  PROVE  /\ (b .. k) \cap Cuts(s) = {b}
         /\ \A j \in b .. k : j \in InMarkedRun(s) <=> \E v \in Marked(s) : b <= v /\ v <= k
<1>1. Len(s) \in Nat /\ k \in Nat /\ b \in Nat OBVIOUS
<1>2. \A c \in Cuts(s) : c \in 1 .. Len(s) BY DEF Cuts
<1>3. (b .. k) \cap Cuts(s) = {b} BY <1>1, <1>2
<1>4. k < Len(s) => k + 1 \in Cuts(s)
  <2> SUFFICES ASSUME k < Len(s) PROVE k + 1 \in Cuts(s) OBVIOUS
  <2>1. k + 1 \in 1 .. Len(s) /\ (k + 1) - 1 = k BY <1>1
  <2> QED BY <2>1 DEF Cuts
<1>5. ASSUME NEW j \in b .. k, NEW l \in 1 .. Len(s)
      PROVE  Together(s, j, l) <=> b <= l /\ l <= k
  <2>1. j \in Nat /\ l \in Nat /\ b <= j /\ j <= k BY <1>1
  <2>2. b <= l /\ l <= k => Together(s, j, l)
    <3> SUFFICES ASSUME b <= l, l <= k, NEW c \in Cuts(s) PROVE j < c <=> l < c
      BY DEF Together
    <3>1. c \in Nat /\ ~ (b < c /\ c <= k) BY <1>2
    <3> HIDE DEF Cuts
    <3> QED BY <1>1, <2>1, <3>1
  <2>3. l < b => ~ Together(s, j, l) BY <1>1, <2>1 DEF Together
  <2>4. l > k => ~ Together(s, j, l)
    <3> SUFFICES ASSUME l > k PROVE ~ Together(s, j, l) OBVIOUS
    <3>1. k < Len(s) BY <1>1, <2>1
    <3>2. k + 1 \in Cuts(s) /\ j < k + 1 /\ ~ l < k + 1 BY <1>1, <1>4, <2>1, <3>1
    <3> QED BY <3>2 DEF Together
  <2> QED BY <1>1, <2>1, <2>2, <2>3, <2>4
<1>6. \A v \in Marked(s) : v \in 1 .. Len(s) BY DEF Marked
<1>7. \A j \in b .. k : j \in 1 .. Len(s) BY <1>1
<1> QED BY <1>3, <1>5, <1>6, <1>7 DEF InMarkedRun

LEMMA RunEnds ==
  ASSUME NEW s \in Seq(Row), NEW k \in 1 .. Len(s), NEW r, NEW z, RunState(s, k, r, z),
         ~ (k < Len(s) /\ s[k].track + 1 = s[k + 1].track)
  PROVE  RunState(s, k + 1, NewRun, Charged(z, Counted(s, k, r)))
<1>1. PICK b \in 1 .. k : RunSince(s, k, r, b) /\ z = SumOf(s, 1 .. b - 1) BY DEF RunState
<1> DEFINE q == Counted(s, k, r)
           X == 1 .. b - 1
           R == b .. k
           C == Cuts(s)
           V == InMarkedRun(s)
           M == Marked(s)
           n == Len(s)
<1>2. n \in Nat /\ k \in Nat /\ b \in Nat /\ (k + 1) - 1 = k OBVIOUS
<1>3. /\ X \in SUBSET (1 .. n) /\ R \in SUBSET (1 .. n) /\ X \cap R = {}
      /\ X \cup R = 1 .. (k + 1) - 1
  BY <1>2
<1>4. /\ r.tracks = k + 1 - b /\ b \in C /\ \A c \in C : ~ (b < c /\ c <= k)
  BY <1>1, <1>2 DEF RunSince
<1>5. /\ q.own = Cardinality(R \ M) /\ q.virtual \in BOOLEAN
      /\ q.virtual <=> \E v \in M : b <= v /\ v <= k
  BY <1>1, CountedRun
<1>6. q.tracks = r.tracks BY DEF Counted
<1>7. Cardinality(R) = q.tracks /\ IsFiniteSet(R) /\ q.tracks \in Nat
  <2>1. IsFiniteSet(R) /\ Cardinality(R) = k - b + 1 BY <1>2, FS_Interval
  <2> HIDE DEF R, q
  <2> QED BY <1>2, <1>4, <1>6, <2>1
<1>8. /\ R \cap C = {b}
      /\ \A j \in R : j \in V <=> \E v \in M : b <= v /\ v <= k
  BY <1>4, WholeRun
<1>9. \A A : Splits(X, R, A)
  <2>1. IsFiniteSet(X) BY <1>2, FS_Interval
  <2> HIDE DEF X, R
  <2> QED BY <1>3, <1>7, <2>1, SplitCount
<1>10. b \in R /\ Cardinality({b}) = 1 /\ Cardinality({}) = 0
  <2>1. b \in R BY <1>2
  <2>2. Cardinality({b}) = 1 BY FS_Singleton
  <2> QED BY <2>1, <2>2, FS_EmptySet
<1>11. \A v \in M : v \in R <=> b <= v /\ v <= k
  <2>1. \A v \in M : v \in Int BY DEF Marked
  <2> HIDE DEF M
  <2> QED BY <1>2, <2>1
<1> DEFINE y == SumOf(s, X \cup R)
<1>12. y = Charged(z, q)
  <2> DEFINE c1 == Cardinality(X \cap (C \ V))
             c2 == Cardinality(X \cap (C \cap V))
             t1 == Cardinality(X \ V)
             t2 == Cardinality(X \cap V)
             o  == Cardinality(X \ M)
             w  == Cardinality(X \cap M)
  <2>1. z = [time |-> Cost(c1, t1) + 3 * Cost(c2, t2), own |-> o, rewrite |-> w, reread |-> t2]
    BY <1>1 DEF SumOf
  <2>2. y = [time |-> Cost(c1 + Cardinality(R \cap (C \ V)), t1 + Cardinality(R \ V))
                      + 3 * Cost(c2 + Cardinality(R \cap (C \cap V)), t2 + Cardinality(R \cap V)),
             own |-> o + Cardinality(R \ M),
             rewrite |-> w + Cardinality(R \cap M),
             reread |-> t2 + Cardinality(R \cap V)]
    <3> HIDE DEF X, R, C, V, M
    <3> QED BY <1>9 DEF Splits, SumOf, C, V, M
  <2>3. /\ c1 \in Nat /\ c2 \in Nat /\ t1 \in Nat /\ t2 \in Nat /\ o \in Nat /\ w \in Nat
    BY <1>9 DEF Splits
  <2>4. LSeek \in Nat /\ LTrack \in Nat BY LSeekAssumption, LTrackAssumption
  <2> DEFINE once == OnePass(q.tracks)
  <2>5. CASE q.virtual
    <3>1. R \cap V = R /\ R \ V = {} /\ R \cap (C \ V) = {} /\ R \cap (C \cap V) = {b}
      BY <1>5, <1>8, <1>10, <2>5
    <3>2. Cardinality(R \cap M) = q.tracks - Cardinality(R \ M)
      <4>1. Cardinality(R \ M) = Cardinality(R) - Cardinality(R \cap M)
        <5> HIDE DEF R, M
        <5> QED BY <1>7, FS_Difference
      <4>2. Cardinality(R \cap M) \in Nat /\ Cardinality(R \ M) \in Nat BY <1>9 DEF Splits
      <4> HIDE DEF R, M, q
      <4> QED BY <1>7, <4>1, <4>2
    <3>3. Charged(z, q) = [time |-> z.time + once + 2 * once, own |-> z.own + q.own,
                           rewrite |-> z.rewrite + (q.tracks - q.own),
                           reread |-> z.reread + q.tracks]
      BY <2>5 DEF Charged
    <3>4. y = [time |-> Cost(c1 + 0, t1 + 0) + 3 * Cost(c2 + 1, t2 + q.tracks),
               own |-> o + q.own, rewrite |-> w + (q.tracks - q.own), reread |-> t2 + q.tracks]
      BY <1>5, <1>7, <1>10, <2>2, <3>1, <3>2
    <3> HIDE DEF c1, c2, t1, t2, o, w, q, y
    <3>5. Cost(c1 + 0, t1 + 0) + 3 * Cost(c2 + 1, t2 + q.tracks)
            = Cost(c1, t1) + 3 * Cost(c2, t2) + once + 2 * once
      <4>1. CostGrows(c1, t1, q.tracks) /\ CostGrows(c2, t2, q.tracks)
        BY <1>7, <2>3, CostOfRun
      <4> HIDE DEF once
      <4> QED BY <4>1 DEF CostGrows, once
    <3>6. Charged(z, q) = [time |-> Cost(c1, t1) + 3 * Cost(c2, t2) + once + 2 * once,
                           own |-> o + q.own, rewrite |-> w + (q.tracks - q.own),
                           reread |-> t2 + q.tracks]
      <4> HIDE DEF once
      <4> QED BY <2>1, <3>3
    <3> QED BY <3>4, <3>5, <3>6
  <2>6. CASE ~ q.virtual
    <3>1. /\ R \cap V = {} /\ R \ V = R /\ R \cap (C \ V) = {b} /\ R \cap (C \cap V) = {}
      BY <1>5, <1>8, <1>10, <2>6
    <3>2. R \cap M = {} /\ R \ M = R
      <4>1. ~ \E v \in M : b <= v /\ v <= k BY <1>5, <2>6
      <4> HIDE DEF R, M
      <4>2. R \cap M = {} BY <1>11, <4>1
      <4> QED BY <4>2
    <3>3. Charged(z, q) = [z EXCEPT !.time = @ + once, !.own = @ + q.tracks]
      BY <2>6 DEF Charged
    <3>4. y = [time |-> Cost(c1 + 1, t1 + q.tracks) + 3 * Cost(c2 + 0, t2 + 0),
               own |-> o + q.tracks, rewrite |-> w + 0, reread |-> t2 + 0]
      BY <1>7, <1>10, <2>2, <3>1, <3>2
    <3> HIDE DEF c1, c2, t1, t2, o, w, q, y
    <3>5. Cost(c1 + 1, t1 + q.tracks) + 3 * Cost(c2 + 0, t2 + 0)
            = (Cost(c1, t1) + 3 * Cost(c2, t2)) + once
      <4>1. CostGrows(c1, t1, q.tracks) /\ CostGrows(c2, t2, q.tracks)
        BY <1>7, <2>3, CostOfRun
      <4> HIDE DEF once
      <4> QED BY <4>1 DEF CostGrows, once
    <3>6. w + 0 = w /\ t2 + 0 = t2 BY <2>3
    <3>7. Charged(z, q) = [time |-> (Cost(c1, t1) + 3 * Cost(c2, t2)) + once,
                           own |-> o + q.tracks, rewrite |-> w, reread |-> t2]
      BY <2>1, <3>3
    <3> QED BY <3>4, <3>5, <3>6, <3>7
  <2> QED BY <1>5, <2>5, <2>6
<1>13. RunSince(s, k + 1, NewRun, k + 1)
  <2>1. ((k + 1) .. (k + 1) - 1) = {} BY <1>2
  <2>2. NewRun.tracks = (k + 1) + 1 - (k + 1) BY <1>2 DEF NewRun
  <2>3. Cardinality(((k + 1) .. (k + 1) - 1) \ Marked(s)) = 0 BY <2>1, FS_EmptySet
  <2>4. ~ \E v \in Marked(s) : k + 1 <= v /\ v < k + 1 BY <1>2 DEF Marked
  <2>5. \A c \in Cuts(s) : ~ (k + 1 < c /\ c <= k + 1) BY <1>2 DEF Cuts
  <2>6. k + 1 <= Len(s) => k + 1 \in Cuts(s)
    <3> SUFFICES ASSUME k + 1 <= Len(s) PROVE k + 1 \in Cuts(s) OBVIOUS
    <3>1. k < Len(s) /\ k + 1 \in 1 .. Len(s) BY <1>2
    <3> QED BY <1>2, <3>1 DEF Cuts
  <2>7. k + 1 \in 1 .. Len(s) + 1 /\ k + 1 \in 1 .. k + 1 BY <1>2
  <2> QED BY <2>2, <2>3, <2>4, <2>5, <2>6, <2>7 DEF RunSince, NewRun
<1>14. Charged(z, q) = SumOf(s, 1 .. (k + 1) - 1) BY <1>3, <1>12
<1>15. k + 1 \in 1 .. k + 1 BY <1>2
<1> HIDE DEF q
<1> QED BY <1>13, <1>14, <1>15 DEF RunState, q

-----------------------------------------------------------------------------
(* The runs and sums of a table are those of the sequence that lists it.   *)

LEMMA PlaceCount ==
  ASSUME NEW E \in SUBSET Item, IsFiniteSet(E), NEW A \in SUBSET E,
         NEW B \in SUBSET (1 .. Cardinality(E)), \A e \in E : e \in A <=> Place(E, e) \in B
  PROVE  Cardinality(A) = Cardinality(B)
<1> DEFINE f == [e \in A |-> Place(E, e)]
<1>1. f \in [A -> B] OBVIOUS
<1>2. \A d, e \in A : f[d] = f[e] => d = e BY PlaceOrder
<1>3. \A k \in B : \E e \in A : f[e] = k
  <2> SUFFICES ASSUME NEW k \in B PROVE \E e \in A : f[e] = k OBVIOUS
  <2>1. PICK e \in E : Place(E, e) = k BY PlaceOnto
  <2> QED BY <2>1
<1>4. IsFiniteSet(A) BY FS_Subset
<1> HIDE DEF f
<1> QED BY <1>1, <1>2, <1>3, <1>4, SameCount

LEMMA JoinsPlaces ==
  ASSUME NEW E, NEW s, Lists(s, E), NEW e \in E, NEW f \in E
  PROVE  Joins(E, e, f) <=> Place(E, f) = Place(E, e) + 1 /\ f.track = e.track + 1
<1>1. E \in SUBSET Item /\ IsFiniteSet(E) BY DEF Lists
<1> DEFINE n == Cardinality(E)
<1>2. /\ n \in Nat /\ Place(E, e) \in 1 .. n /\ Place(E, f) \in 1 .. n
      /\ Place(E, e) \in Nat /\ Place(E, f) \in Nat
  BY <1>1, PlaceType, FS_CardinalityType
<1>3. \A g, h \in E : Place(E, g) < Place(E, h) <=> Before(g, h) BY <1>1, PlaceOrder
<1>4. \A g \in E : Place(E, g) \in Nat BY <1>1, PlaceType
<1>5. ASSUME Before(e, f), ~ \E g \in E : Before(e, g) /\ Before(g, f)
      PROVE  Place(E, f) = Place(E, e) + 1
  <2>1. SUFFICES ASSUME Place(E, e) + 1 < Place(E, f) PROVE FALSE BY <1>2, <1>3, <1>5
  <2>2. Place(E, e) + 1 \in 1 .. n BY <1>2, <2>1
  <2>3. PICK g \in E : Place(E, g) = Place(E, e) + 1 BY <1>1, <2>2, PlaceOnto
  <2>4. Place(E, e) < Place(E, g) /\ Place(E, g) < Place(E, f) BY <1>2, <2>1, <2>3
  <2> QED BY <1>3, <1>5, <2>4
<1>6. ASSUME Place(E, f) = Place(E, e) + 1
      PROVE  Before(e, f) /\ ~ \E g \in E : Before(e, g) /\ Before(g, f)
  <2>1. Before(e, f) BY <1>2, <1>3, <1>6
  <2>2. ASSUME NEW g \in E, Before(e, g), Before(g, f) PROVE FALSE
    <3>1. Place(E, e) < Place(E, g) /\ Place(E, g) < Place(E, f) BY <1>3, <2>2
    <3> QED BY <1>2, <1>4, <1>6, <3>1
  <2> QED BY <2>1, <2>2
<1> QED BY <1>5, <1>6 DEF Joins

LEMMA HeadsAreCuts ==
  ASSUME NEW E, NEW s, Lists(s, E), NEW f \in E
  PROVE  f \in Heads(E) <=> Place(E, f) \in Cuts(s)
<1>1. /\ E \in SUBSET Item /\ IsFiniteSet(E) /\ Len(s) = Cardinality(E)
      /\ \A e \in E : s[Place(E, e)] = RowOf(e)
  BY DEF Lists
<1> DEFINE k == Place(E, f)
           n == Cardinality(E)
<1>2. n \in Nat /\ k \in 1 .. n /\ k \in Nat
  BY <1>1, PlaceType, FS_CardinalityType
<1>3. \A e \in E : s[Place(E, e)].track = e.track
  <2> SUFFICES ASSUME NEW e \in E PROVE s[Place(E, e)].track = e.track OBVIOUS
  <2>1. s[Place(E, e)] = RowOf(e) BY <1>1
  <2> QED BY <2>1 DEF RowOf
<1>4. \A e \in E : Place(E, e) \in Nat BY <1>1, PlaceType
<1>5. \A e \in E : Joins(E, e, f) <=> k = Place(E, e) + 1 /\ f.track = e.track + 1
  BY JoinsPlaces
<1>6. CASE k = 1
  <2>1. \A e \in E : Place(E, e) \in 1 .. n BY <1>1, PlaceType
  <2>2. \A e \in E : k # Place(E, e) + 1 BY <1>6, <2>1
  <2>3. f \in Heads(E) BY <1>5, <2>2 DEF Heads
  <2>4. k \in Cuts(s) BY <1>1, <1>2, <1>6 DEF Cuts
  <2> QED BY <2>3, <2>4
<1>7. CASE k # 1
  <2>1. k - 1 \in 1 .. n BY <1>2, <1>7
  <2>2. PICK e \in E : Place(E, e) = k - 1
    <3> HIDE DEF k
    <3> QED BY <1>1, <2>1, PlaceOnto
  <2>3. k = Place(E, e) + 1 BY <1>2, <2>2
  <2>4. \A g \in E : k = Place(E, g) + 1 => g = e
    <3> SUFFICES ASSUME NEW g \in E, k = Place(E, g) + 1 PROVE g = e OBVIOUS
    <3>1. Place(E, g) = Place(E, e) BY <1>4, <2>3
    <3> QED BY <1>1, <3>1, PlaceOrder
  <2>5. f \in Heads(E) <=> ~ f.track = e.track + 1
    <3> HIDE DEF k
    <3> QED BY <1>5, <2>3, <2>4 DEF Heads
  <2>6. s[k - 1].track = e.track /\ s[k].track = f.track BY <1>3, <2>2
  <2>7. k \in Cuts(s) <=> s[k - 1].track + 1 # s[k].track
    <3> HIDE DEF k
    <3> QED BY <1>1, <1>2, <1>7 DEF Cuts
  <2> QED BY <2>5, <2>6, <2>7
<1> QED BY <1>6, <1>7

LEMMA RunsAreSame ==
  ASSUME NEW E, NEW s, Lists(s, E), NEW e \in E, NEW f \in E
  PROVE  SameRun(E, e, f) <=> Together(s, Place(E, e), Place(E, f))
<1>1. E \in SUBSET Item /\ IsFiniteSet(E) /\ Len(s) = Cardinality(E) BY DEF Lists
<1>2. \A g, h \in E : Before(g, h) <=> Place(E, g) < Place(E, h) BY <1>1, PlaceOrder
<1>3. \A h \in E : h \in Heads(E) <=> Place(E, h) \in Cuts(s) BY HeadsAreCuts
<1>4. \A c \in Cuts(s) : \E h \in Heads(E) : Place(E, h) = c
  <2> SUFFICES ASSUME NEW c \in Cuts(s) PROVE \E h \in Heads(E) : Place(E, h) = c OBVIOUS
  <2>1. c \in 1 .. Cardinality(E) BY <1>1 DEF Cuts
  <2>2. PICK h \in E : Place(E, h) = c BY <1>1, <2>1, PlaceOnto
  <2> QED BY <1>3, <2>2
<1>5. Heads(E) \subseteq E BY DEF Heads
<1>6. SameRun(E, e, f) <=> \A h \in Heads(E) : Before(e, h) <=> Before(f, h)
  BY DEF SameRun
<1>7. (\A h \in Heads(E) : Before(e, h) <=> Before(f, h))
        <=> \A c \in Cuts(s) : Place(E, e) < c <=> Place(E, f) < c
  BY <1>2, <1>3, <1>4, <1>5
<1> QED BY <1>6, <1>7 DEF Together

LEMMA MarkedIsVirtual ==
  ASSUME NEW E, NEW s, Lists(s, E), NEW e \in E
  PROVE  /\ e \in Virtual(E) <=> Place(E, e) \in Marked(s)
         /\ e \in InVirtualRun(E) <=> Place(E, e) \in InMarkedRun(s)
<1>1. /\ E \in SUBSET Item /\ IsFiniteSet(E) /\ Len(s) = Cardinality(E)
      /\ \A d \in E : s[Place(E, d)] = RowOf(d)
  BY DEF Lists
<1>2. \A d \in E : Place(E, d) \in 1 .. Len(s) BY <1>1, PlaceType
<1>3. \A d \in E : d \in Virtual(E) <=> Place(E, d) \in Marked(s)
  <2> SUFFICES ASSUME NEW d \in E PROVE d \in Virtual(E) <=> Place(E, d) \in Marked(s)
    OBVIOUS
  <2>1. s[Place(E, d)] = RowOf(d) BY <1>1
  <2>2. s[Place(E, d)].virtual = IsVirtual(d) BY <2>1 DEF RowOf
  <2>3. d \in Virtual(E) <=> IsVirtual(d) BY DEF Virtual
  <2>4. Place(E, d) \in Marked(s) <=> s[Place(E, d)].virtual BY <1>2 DEF Marked
  <2> QED BY <2>2, <2>3, <2>4
<1>4. \A v \in Marked(s) : \E d \in Virtual(E) : Place(E, d) = v
  <2> SUFFICES ASSUME NEW v \in Marked(s) PROVE \E d \in Virtual(E) : Place(E, d) = v OBVIOUS
  <2>1. v \in 1 .. Cardinality(E) BY <1>1 DEF Marked
  <2>2. PICK d \in E : Place(E, d) = v BY <1>1, <2>1, PlaceOnto
  <2> QED BY <1>3, <2>2
<1>5. Virtual(E) \subseteq E BY DEF Virtual
<1>6. \A d \in E : SameRun(E, e, d) <=> Together(s, Place(E, e), Place(E, d))
  BY RunsAreSame
<1>7. (\E v \in Virtual(E) : SameRun(E, e, v))
        <=> \E v \in Marked(s) : Together(s, Place(E, e), v)
  BY <1>3, <1>4, <1>5, <1>6
<1> QED BY <1>2, <1>3, <1>7 DEF InVirtualRun, InMarkedRun

\* What Disk charges for a table.
Charges(E) == [time |-> Time(E), own |-> Own(E),
               rewrite |-> Cardinality(Virtual(E)), reread |-> Cardinality(InVirtualRun(E))]

LEMMA SumIsCharges ==
  ASSUME NEW E, NEW s, Lists(s, E)
  PROVE  SumOf(s, 1 .. Len(s)) = Charges(E)
<1> DEFINE X == 1 .. Len(s)
           V == InMarkedRun(s)
           C == Cuts(s)
           M == Marked(s)
           H == Heads(E)
           W == InVirtualRun(E)
           U == Virtual(E)
<1>1. /\ E \in SUBSET Item /\ IsFiniteSet(E) /\ Len(s) = Cardinality(E) BY DEF Lists
<1>2. \A e \in E : /\ Place(E, e) \in X
                   /\ e \in H <=> Place(E, e) \in C
                   /\ e \in U <=> Place(E, e) \in M
                   /\ e \in W <=> Place(E, e) \in V
  BY <1>1, PlaceType, HeadsAreCuts, MarkedIsVirtual
<1>3. H \subseteq E /\ W \subseteq E /\ U \subseteq E BY DEF Heads, InVirtualRun, Virtual
<1>4. C \subseteq X /\ V \subseteq X /\ M \subseteq X BY DEF Cuts, InMarkedRun, Marked
<1>5. X = 1 .. Cardinality(E) BY <1>1
<1> HIDE DEF X, V, C, M, H, W, U
<1>6. Cardinality(H \ W) = Cardinality(X \cap (C \ V))
  <2>1. \A e \in E : e \in H \ W <=> Place(E, e) \in X \cap (C \ V) BY <1>2
  <2>2. H \ W \in SUBSET E /\ X \cap (C \ V) \in SUBSET (1 .. Cardinality(E)) BY <1>3, <1>5
  <2> QED BY <1>1, <2>1, <2>2, PlaceCount
<1>7. Cardinality(E \ W) = Cardinality(X \ V)
  <2>1. \A e \in E : e \in E \ W <=> Place(E, e) \in X \ V BY <1>2
  <2>2. E \ W \in SUBSET E /\ X \ V \in SUBSET (1 .. Cardinality(E)) BY <1>3, <1>5
  <2> QED BY <1>1, <2>1, <2>2, PlaceCount
<1>8. Cardinality(H \cap W) = Cardinality(X \cap (C \cap V))
  <2>1. \A e \in E : e \in H \cap W <=> Place(E, e) \in X \cap (C \cap V) BY <1>2
  <2>2. H \cap W \in SUBSET E /\ X \cap (C \cap V) \in SUBSET (1 .. Cardinality(E))
    BY <1>3, <1>5
  <2> QED BY <1>1, <2>1, <2>2, PlaceCount
<1>9. Cardinality(W) = Cardinality(X \cap V)
  <2>1. \A e \in E : e \in W <=> Place(E, e) \in X \cap V BY <1>2
  <2>2. W \in SUBSET E /\ X \cap V \in SUBSET (1 .. Cardinality(E)) BY <1>3, <1>5
  <2> QED BY <1>1, <2>1, <2>2, PlaceCount
<1>10. Cardinality(U) = Cardinality(X \cap M)
  <2>1. \A e \in E : e \in U <=> Place(E, e) \in X \cap M BY <1>2
  <2>2. U \in SUBSET E /\ X \cap M \in SUBSET (1 .. Cardinality(E)) BY <1>3, <1>5
  <2> QED BY <1>1, <2>1, <2>2, PlaceCount
<1>11. Cardinality(E \ U) = Cardinality(X \ M)
  <2>1. \A e \in E : e \in E \ U <=> Place(E, e) \in X \ M BY <1>2
  <2>2. E \ U \in SUBSET E /\ X \ M \in SUBSET (1 .. Cardinality(E)) BY <1>3, <1>5
  <2> QED BY <1>1, <2>1, <2>2, PlaceCount
<1>12. SumOf(s, X) = [time |-> Cost(Cardinality(X \cap (C \ V)), Cardinality(X \ V))
                              + 3 * Cost(Cardinality(X \cap (C \cap V)), Cardinality(X \cap V)),
                      own |-> Cardinality(X \ M), rewrite |-> Cardinality(X \cap M),
                      reread |-> Cardinality(X \cap V)]
  BY DEF SumOf, C, V, M
<1>13. /\ Time(E) = Cost(Cardinality(H \ W), Cardinality(E \ W))
                     + 3 * Cost(Cardinality(H \cap W), Cardinality(W))
       /\ Own(E) = Cardinality(E \ U)
  BY DEF Time, Own, H, W, U
<1>14. SumOf(s, X) = Charges(E)
  BY <1>6, <1>7, <1>8, <1>9, <1>10, <1>11, <1>12, <1>13 DEF Charges, W, U
<1> QED BY <1>14 DEF X

-----------------------------------------------------------------------------
(* The loop of record_write.                                               *)

Nothing == [time |-> 0, own |-> 0, rewrite |-> 0, reread |-> 0]

RecordInv ==
    /\ pc # "record" => run = NewRun /\ sums = Nothing
    /\ pc = "record" => RunState(extend, i, run, sums)

LEMMA FirstRun ==
  ASSUME NEW s \in Seq(Row)
  PROVE  RunState(s, 1, NewRun, Nothing)
<1>1. Len(s) \in Nat /\ 1 - 1 = 0 /\ 1 .. 0 = {} OBVIOUS
<1>2. Nothing = SumOf(s, {})
  <2>1. \A A : {} \cap A = {} /\ {} \ A = {} OBVIOUS
  <2>2. Cost(0, 0) = 0 /\ 3 * 0 = 0 /\ 0 + 0 = 0
    BY LSeekAssumption, LTrackAssumption DEF Cost
  <2>3. Cardinality({}) = 0 BY FS_EmptySet
  <2> QED BY <2>1, <2>2, <2>3 DEF SumOf, Nothing
<1>3. RunSince(s, 1, NewRun, 1)
  <2>1. NewRun.tracks = 1 + 1 - 1 BY DEF NewRun
  <2>2. Cardinality((1 .. 1 - 1) \ Marked(s)) = 0
    <3>1. (1 .. 1 - 1) \ Marked(s) = {} BY <1>1
    <3> QED BY <3>1, FS_EmptySet
  <2>3. ~ \E v \in Marked(s) : 1 <= v /\ v < 1 BY DEF Marked
  <2>4. \A c \in Cuts(s) : ~ (1 < c /\ c <= 1) BY DEF Cuts
  <2>5. 1 <= Len(s) => 1 \in Cuts(s) BY <1>1 DEF Cuts
  <2>6. 1 \in 1 .. Len(s) + 1 /\ 1 \in 1 .. 1 BY <1>1
  <2> QED BY <2>1, <2>2, <2>3, <2>4, <2>5, <2>6 DEF RunSince, NewRun
<1> QED BY <1>1, <1>2, <1>3 DEF RunState

LEMMA RunUpdated ==
  ASSUME NEW q, q = [tracks |-> q.tracks, own |-> q.own, virtual |-> q.virtual], NEW v, NEW o
  PROVE  [q EXCEPT !.virtual = v, !.own = o] = [tracks |-> q.tracks, own |-> o, virtual |-> v]
<1>1. PICK a, b, c : q = [tracks |-> a, own |-> b, virtual |-> c] OBVIOUS
<1> DEFINE p == [q EXCEPT !.virtual = v]
<1>2. p = [tracks |-> a, own |-> b, virtual |-> v] BY <1>1
<1>3. [q EXCEPT !.virtual = v, !.own = o] = [p EXCEPT !.own = o] OBVIOUS
<1> HIDE DEF p
<1>4. [p EXCEPT !.own = o] = [tracks |-> a, own |-> o, virtual |-> v] BY <1>2
<1>5. q.tracks = a BY <1>1
<1> QED BY <1>3, <1>4, <1>5

LEMMA RecordStep == LoopInv /\ RecordInv /\ [LoopNext]_<<loopVars, diskVars>> => RecordInv'
<1> SUFFICES ASSUME LoopInv, RecordInv, [LoopNext]_<<loopVars, diskVars>> PROVE RecordInv'
  OBVIOUS
<1>1. CASE ScanTrack \/ ExtendBand \/ NextTrack
  <2>1. pc # "record" /\ pc' # "record" /\ run' = run /\ sums' = sums
    BY <1>1 DEF ScanTrack, ExtendBand, NextTrack
  <2> QED BY <2>1 DEF RecordInv
<1>2. CASE StartRecord
  <2>1. /\ pc # "record" /\ pc' = "record" /\ i' = 1 /\ run' = run /\ sums' = sums
    BY <1>2 DEF StartRecord
  <2>2. extend' \in Seq(Row) BY <1>2, StartRecordInv, <2>1 DEF LoopInv, Lists
  <2>3. RunState(extend', 1, NewRun, Nothing) BY <2>2, FirstRun
  <2> QED BY <2>1, <2>3 DEF RecordInv, RunState, RunSince
<1>3. CASE RecordEntry
  <2>1. /\ pc = "record" /\ pc' = pc /\ extend' = extend /\ i' = i + 1 /\ i <= Len(extend)
        /\ RunState(extend, i, run, sums) /\ extend \in Seq(Row)
    BY <1>3 DEF RecordEntry, RecordInv, LoopInv, Lists
  <2>2. i \in 1 .. Len(extend)
    <3>1. i \in 1 .. Len(extend) + 1 BY <2>1 DEF RunState, RunSince
    <3> QED BY <2>1, <3>1
  <2> DEFINE c == i < Len(extend) /\ extend[i].track + 1 = extend[i + 1].track
             r == [run EXCEPT !.virtual = @ \/ extend[i].virtual,
                              !.own = IF extend[i].virtual THEN @ ELSE @ + 1]
  <2>3. r = Counted(extend, i, run)
    <3>1. run = [tracks |-> run.tracks, own |-> run.own, virtual |-> run.virtual]
      BY <2>1 DEF RunState, RunSince
    <3> DEFINE v == run.virtual \/ extend[i].virtual
               o == IF extend[i].virtual THEN run.own ELSE run.own + 1
    <3>2. Counted(extend, i, run) = [tracks |-> run.tracks, own |-> o, virtual |-> v]
      BY DEF Counted
    <3>3. r = [run EXCEPT !.virtual = v, !.own = o] OBVIOUS
    <3> HIDE DEF v, o, r
    <3>4. r = [tracks |-> run.tracks, own |-> o, virtual |-> v] BY <3>1, <3>3, RunUpdated
    <3> QED BY <3>2, <3>4
  <2>4. \/ c /\ run' = [r EXCEPT !.tracks = @ + 1] /\ sums' = sums
        \/ ~ c /\ sums' = Record(r) /\ run' = NewRun
    BY <1>3 DEF RecordEntry
  <2>5. Record(r) = Charged(sums, r) BY DEF Record, Charged, OnePass
  <2> HIDE DEF r, c
  <2>6. RunState(extend, i + 1, run', sums')
    <3>1. CASE c BY <2>1, <2>2, <2>3, <2>4, <3>1, RunGoesOn DEF c
    <3>2. CASE ~ c BY <2>1, <2>2, <2>3, <2>4, <2>5, <3>2, RunEnds DEF c
    <3> QED BY <3>1, <3>2
  <2>7. RunState(extend', i', run', sums') BY <2>1, <2>6
  <2> QED BY <2>1, <2>7 DEF RecordInv
<1>4. CASE UNCHANGED <<loopVars, diskVars>>
  BY <1>4 DEF RecordInv, loopVars
<1> QED BY <1>1, <1>2, <1>3, <1>4 DEF LoopNext

\* The loop of record_write and record_delete charges the counters and the
\* time that Disk states on the table as a set.
THEOREM RecordHolds == LoopSpec => []RecordAgrees
<1>1. LoopInit => RecordInv
  <2> SUFFICES ASSUME LoopInit PROVE RecordInv OBVIOUS
  <2>1. /\ pc = "tracks" /\ run = NewRun
        /\ sums = [time |-> 0, own |-> 0, rewrite |-> 0, reread |-> 0]
    BY DEF LoopInit
  <2> QED BY <2>1 DEF RecordInv, Nothing
<1>2. LoopInv /\ RecordInv => RecordAgrees
  <2> SUFFICES ASSUME LoopInv, RecordInv, pc = "record", i > Len(extend)
               PROVE  sums = Charges(TableOfDisk)
    BY DEF RecordAgrees, Charges
  <2>1. Lists(extend, TableOfDisk) /\ RunState(extend, i, run, sums) /\ extend \in Seq(Row)
    BY DEF LoopInv, RecordInv, Lists
  <2>2. PICK b \in 1 .. i : RunSince(extend, i, run, b) /\ sums = SumOf(extend, 1 .. b - 1)
    BY <2>1 DEF RunState
  <2>3. i \in 1 .. Len(extend) + 1 /\ Len(extend) \in Nat BY <2>1, <2>2 DEF RunSince
  <2>4. i = Len(extend) + 1 BY <2>3
  <2>5. b - 1 = Len(extend) BY <2>2, <2>3, <2>4 DEF RunSince
  <2> QED BY <2>1, <2>2, <2>5, SumIsCharges
<1> QED BY <1>1, <1>2, LoopInitInv, LoopStepInv, RecordStep, PTL DEF LoopSpec
=============================================================================
