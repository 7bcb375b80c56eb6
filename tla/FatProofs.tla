----------------------------- MODULE FatProofs -----------------------------
(***************************************************************************)
(* Proofs about the FAT volume.                                            *)
(***************************************************************************)
EXTENDS Fat, FiniteSetTheorems, SequenceTheorems, WellFoundedInduction, TLAPS

-----------------------------------------------------------------------------
(* Numbers *)

\* A nonempty set of numbers has a least element.
LEMMA LeastExists ==
  ASSUME NEW T \in SUBSET Nat, T # {}
  PROVE  \E m \in T : \A k \in T : m <= k
<1> DEFINE R == OpToRel(<, Nat)
<1>1. \E x \in T : \A y \in T : ~(<<y, x>> \in R)
  BY NatLessThanWellFounded, WFMin
<1>2. \A x, y \in T : <<y, x>> \notin R => ~(y < x)
  BY DEF OpToRel
<1>3. \E x \in T : \A y \in T : ~(y < x)
  BY <1>1, <1>2, Zenon
<1> QED BY <1>3

\* A nonempty set of numbers bounded by n has a largest element.
LEMMA LargestExists ==
  ASSUME NEW n \in Nat, NEW T \in SUBSET (0 .. n), T # {}
  PROVE  \E m \in T : \A k \in T : k <= m
<1> DEFINE S == {n - t : t \in T}
<1>1. S \in SUBSET Nat
  OBVIOUS
<1>2. S # {}
  OBVIOUS
<1>3. PICK s \in S : \A k \in S : s <= k
  <2> HIDE DEF S
  <2> QED BY <1>1, <1>2, LeastExists
<1> QED BY <1>3

\* Induction over a set: one with 0 that is closed under successor has every
\* number.
LEMMA NatSetInduction ==
  ASSUME NEW S, 0 \in S, \A n \in Nat : n \in S => n + 1 \in S
  PROVE  Nat \subseteq S
<1> SUFFICES ASSUME Nat \ S # {} PROVE FALSE
  OBVIOUS
<1>1. PICK m \in Nat \ S : \A k \in Nat \ S : m <= k
  BY LeastExists
<1>2. m - 1 \in Nat /\ m - 1 \in S
  BY <1>1
<1> QED BY <1>1, <1>2

-----------------------------------------------------------------------------
(* Following a chain. *)

IsWalk(w, c, k) == w = [i \in 0 .. k |-> IF i = 0 THEN c ELSE NextCluster(w[i - 1])]

LEMMA WalkSteps ==
  ASSUME NEW c, NEW k \in Nat, NEW w, IsWalk(w, c, k)
  PROVE  /\ w[0] = c
         /\ \A i \in 0 .. k - 1 : w[i + 1] = NextCluster(w[i])
<1>1. \A i \in 0 .. k : w[i] = IF i = 0 THEN c ELSE NextCluster(w[i - 1])
  BY DEF IsWalk
<1>2. ASSUME NEW i \in 0 .. k - 1 PROVE w[i + 1] = NextCluster(w[i])
  <2>1. i + 1 \in 0 .. k /\ i + 1 # 0 /\ (i + 1) - 1 = i
    OBVIOUS
  <2> QED BY <1>1, <2>1
<1> QED BY <1>1, <1>2

LEMMA WalkExists ==
  ASSUME NEW c, NEW k \in Nat
  PROVE  \E w : IsWalk(w, c, k)
<1> DEFINE S == {n \in Nat : \E w : IsWalk(w, c, n)}
<1>1. 0 \in S
  <2> DEFINE w == [i \in 0 .. 0 |-> c]
  <2>1. w = [i \in 0 .. 0 |-> IF i = 0 THEN c ELSE NextCluster(w[i - 1])]
    OBVIOUS
  <2> QED BY <2>1 DEF IsWalk
<1>2. ASSUME NEW n \in Nat, n \in S PROVE n + 1 \in S
  <2>1. PICK w : IsWalk(w, c, n)
    BY <1>2
  <2>w. \A j \in 0 .. n - 1 : w[j + 1] = NextCluster(w[j])
    BY <2>1, WalkSteps
  <2> DEFINE v == [i \in 0 .. n + 1 |-> IF i = n + 1 THEN NextCluster(w[n]) ELSE w[i]]
  <2>2. ASSUME NEW i \in 0 .. n + 1 PROVE v[i] = IF i = 0 THEN c ELSE NextCluster(v[i - 1])
    <3>1. CASE i = 0
      BY <2>1, <3>1, WalkSteps
    <3>2. CASE i # 0 /\ i # n + 1
      <4>1. i - 1 \in 0 .. n - 1 /\ (i - 1) + 1 = i
        BY <3>2
      <4>2. w[i] = NextCluster(w[i - 1])
        BY <2>w, <4>1
      <4>3. v[i] = w[i] /\ v[i - 1] = w[i - 1]
        BY <3>2, <4>1
      <4> QED BY <3>2, <4>2, <4>3
    <3>3. CASE i = n + 1
      <4>1. v[i - 1] = w[n] /\ v[i] = NextCluster(w[n])
        BY <3>3
      <4> QED BY <3>3, <4>1
    <3> QED BY <3>1, <3>2, <3>3
  <2>3. v = [i \in 0 .. n + 1 |-> IF i = 0 THEN c ELSE NextCluster(v[i - 1])]
    <3>1. v = [i \in 0 .. n + 1 |-> v[i]]
      OBVIOUS
    <3> HIDE DEF v
    <3> QED BY <2>2, <3>1
  <2>4. IsWalk(v, c, n + 1)
    <3> HIDE DEF v
    <3> QED BY <2>3 DEF IsWalk
  <2> HIDE DEF v
  <2> QED BY <2>4
<1> HIDE DEF S
<1>3. Nat \subseteq S
  BY <1>1, <1>2, NatSetInduction
<1> QED BY <1>3 DEF S

LEMMA WalksAgree ==
  ASSUME NEW c, NEW k \in Nat, NEW w, IsWalk(w, c, k),
         NEW m \in Nat, k < m, NEW v, IsWalk(v, c, m)
  PROVE  \A i \in 0 .. k : w[i] = v[i]
<1> DEFINE S == {n \in Nat : n <= k => w[n] = v[n]}
<1>w. \A i \in 0 .. k - 1 : w[i + 1] = NextCluster(w[i])
  BY WalkSteps
<1>v. \A i \in 0 .. m - 1 : v[i + 1] = NextCluster(v[i])
  BY WalkSteps
<1>1. 0 \in S
  BY WalkSteps
<1>2. ASSUME NEW n \in Nat, n \in S PROVE n + 1 \in S
  <2> SUFFICES ASSUME n + 1 <= k PROVE w[n + 1] = v[n + 1]
    OBVIOUS
  <2>1. n \in 0 .. k - 1 /\ n \in 0 .. m - 1
    OBVIOUS
  <2>2. w[n + 1] = NextCluster(w[n]) /\ v[n + 1] = NextCluster(v[n])
    BY <1>w, <1>v, <2>1
  <2>3. w[n] = v[n]
    BY <1>2
  <2> QED BY <2>2, <2>3
<1> HIDE DEF S
<1>3. Nat \subseteq S
  BY <1>1, <1>2, NatSetInduction
<1> QED BY <1>3 DEF S

\* Follow is the walk along the table.
LEMMA FollowIsWalk ==
  ASSUME NEW c, NEW k \in Nat
  PROVE  \E w : IsWalk(w, c, k) /\ Follow(c, k) = w[k]
<1>1. PICK w : IsWalk(w, c, k)
  BY WalkExists
<1> DEFINE walk == CHOOSE u : u = [i \in 0 .. k |-> IF i = 0 THEN c ELSE NextCluster(u[i - 1])]
<1>2. walk = [i \in 0 .. k |-> IF i = 0 THEN c ELSE NextCluster(walk[i - 1])]
  BY <1>1 DEF IsWalk
<1>3. Follow(c, k) = walk[k]
  BY DEF Follow
<1> HIDE DEF walk
<1>4. IsWalk(walk, c, k)
  BY <1>2 DEF IsWalk
<1> QED BY <1>3, <1>4

LEMMA FollowSteps ==
  \A c : /\ Follow(c, 0) = c
         /\ \A k \in Nat : Follow(c, k + 1) = NextCluster(Follow(c, k))
<1> TAKE c
<1>1. Follow(c, 0) = c
  <2>1. PICK w : IsWalk(w, c, 0) /\ Follow(c, 0) = w[0]
    BY FollowIsWalk
  <2> QED BY <2>1, WalkSteps
<1>2. ASSUME NEW k \in Nat PROVE Follow(c, k + 1) = NextCluster(Follow(c, k))
  <2>0. PICK m \in Nat : m = k + 1
    OBVIOUS
  <2>1. PICK w : IsWalk(w, c, k) /\ Follow(c, k) = w[k]
    BY FollowIsWalk
  <2>2. PICK v : IsWalk(v, c, m) /\ Follow(c, m) = v[m]
    BY FollowIsWalk
  <2>3. \A i \in 0 .. m - 1 : v[i + 1] = NextCluster(v[i])
    BY <2>2, WalkSteps
  <2>4. \A i \in 0 .. k : w[i] = v[i]
    BY <2>0, <2>1, <2>2, WalksAgree
  <2>5. v[m] = NextCluster(v[k]) /\ w[k] = v[k]
    BY <2>0, <2>3, <2>4
  <2> QED BY <2>0, <2>1, <2>2, <2>5
<1> QED BY <1>1, <1>2

-----------------------------------------------------------------------------
(* Sets of clusters in ascending order. *)

Rank(S, s) == Cardinality({y \in S : y < s})

LEMMA ClustersFinite ==
  /\ IsFiniteSet(Clusters) /\ Cardinality(Clusters) = NumClusters
  /\ Clusters \subseteq Nat /\ Free \notin Clusters /\ kEndOfClusterchain \notin Clusters
  /\ kEndOfClusterchain # Free /\ Root \in Clusters
  /\ \A S \in SUBSET Clusters : IsFiniteSet(S) /\ Cardinality(S) \in Nat /\ Cardinality(S) <= NumClusters
<1>1. IsFiniteSet(Clusters) /\ Cardinality(Clusters) = NumClusters
  BY FatAssumption, FS_Interval DEF Clusters
<1>2. \A S \in SUBSET Clusters : IsFiniteSet(S) /\ Cardinality(S) \in Nat /\ Cardinality(S) <= NumClusters
  BY <1>1, FS_Subset, FS_CardinalityType
<1>3. /\ Clusters \subseteq Nat /\ Free \notin Clusters /\ kEndOfClusterchain \notin Clusters
      /\ kEndOfClusterchain # Free /\ Root \in Clusters
  BY FatAssumption DEF Clusters, Free, kEndOfClusterchain, Root
<1> QED BY <1>1, <1>2, <1>3

LEMMA SubsetsAreNumbers ==
  ASSUME NEW S \in SUBSET Clusters
  PROVE  S \subseteq Nat /\ \A x \in S : x \in Int
BY ClustersFinite

LEMMA DisjointCardinality ==
  ASSUME NEW A, NEW B, IsFiniteSet(A), IsFiniteSet(B), A \cap B = {}
  PROVE  Cardinality(A \cup B) = Cardinality(A) + Cardinality(B)
<1>1. Cardinality(A \cup B) = Cardinality(A) + Cardinality(B) - Cardinality(A \cap B)
  BY FS_Union
<1>2. Cardinality(A \cap B) = 0 /\ Cardinality(A) \in Nat /\ Cardinality(B) \in Nat
  BY FS_EmptySet, FS_CardinalityType
<1> QED BY <1>1, <1>2

LEMMA LowestIs ==
  ASSUME NEW S \in SUBSET Clusters, S # {}
  PROVE  Lowest(S) \in S /\ \A y \in S : Lowest(S) <= y
<1>1. S \in SUBSET Nat
  BY ClustersFinite
<1>2. \E x \in S : \A y \in S : x <= y
  BY <1>1, LeastExists
<1> QED BY <1>2 DEF Lowest

LEMMA HighestIs ==
  ASSUME NEW S \in SUBSET Clusters, S # {}
  PROVE  Highest(S) \in S /\ \A y \in S : Highest(S) >= y
<1>1. S \in SUBSET (0 .. NumClusters + 1) /\ NumClusters + 1 \in Nat
  BY FatAssumption DEF Clusters
<1>2. \E x \in S : \A y \in S : y <= x
  BY <1>1, LargestExists
<1>3. \A x, y \in S : y <= x <=> x >= y
  BY <1>1
<1>4. \E x \in S : \A y \in S : x >= y
  BY <1>2, <1>3
<1> QED BY <1>4 DEF Highest

LEMMA LowestIsUnique ==
  ASSUME NEW S \in SUBSET Clusters, NEW x \in S, \A y \in S : x <= y
  PROVE  Lowest(S) = x
<1>1. Lowest(S) \in S /\ Lowest(S) <= x /\ x <= Lowest(S)
  BY LowestIs
<1>2. x \in Int /\ Lowest(S) \in Int
  BY <1>1, SubsetsAreNumbers
<1> QED BY <1>1, <1>2

LEMMA RankBounds ==
  ASSUME NEW S \in SUBSET Clusters, NEW s \in S
  PROVE  /\ Rank(S, s) \in Nat /\ Rank(S, s) < Cardinality(S)
         /\ Rank(S, s) = 0 => s = Lowest(S)
         /\ s = Lowest(S) => Rank(S, s) = 0
<1> DEFINE T == {y \in S : y < s}
<1>0. S \subseteq Nat /\ T \in SUBSET S /\ T \in SUBSET Clusters
  BY ClustersFinite
<1>1. /\ IsFiniteSet(S) /\ IsFiniteSet(T) /\ Cardinality(S) \in Nat /\ Cardinality(T) \in Nat
  BY <1>0, ClustersFinite
<1>2. T # S
  BY <1>0
<1>3. Cardinality(T) <= Cardinality(S) /\ Cardinality(T) # Cardinality(S)
  <2> HIDE DEF T
  <2> QED BY <1>0, <1>1, <1>2, FS_Subset
<1>4. Cardinality(T) = 0 <=> T = {}
  BY <1>1, FS_EmptySet
<1>5. T = {} => \A y \in S : s <= y
  BY <1>0
<1>6. s = Lowest(S) => T = {}
  <2>1. S # {} /\ \A y \in S : Lowest(S) <= y
    BY LowestIs
  <2> SUFFICES ASSUME s = Lowest(S), NEW y \in S, y < s PROVE FALSE
    OBVIOUS
  <2>2. s <= y /\ s \in Int /\ y \in Int
    BY <1>0, <2>1
  <2> QED BY <2>2
<1> QED BY <1>1, <1>3, <1>4, <1>5, <1>6, LowestIsUnique DEF Rank

LEMMA RankOrder ==
  ASSUME NEW S \in SUBSET Clusters, NEW s \in S, NEW u \in S, u <= s
  PROVE  Rank(S, u) <= Rank(S, s)
<1> DEFINE T == {y \in S : y < s}
           U == {y \in S : y < u}
<1>0. \A x \in S : x \in Int
  BY SubsetsAreNumbers
<1>1. U \in SUBSET T /\ T \in SUBSET Clusters
  BY <1>0
<1>2. IsFiniteSet(T)
  BY <1>1, ClustersFinite
<1>3. Cardinality(U) <= Cardinality(T)
  <2> HIDE DEF T, U
  <2> QED BY <1>1, <1>2, FS_Subset
<1> QED BY <1>3 DEF Rank

\* The element after s in S.
Above(S, s) == {y \in S : y > s}

LEMMA RankSuccessor ==
  ASSUME NEW S \in SUBSET Clusters, NEW s \in S, Above(S, s) # {}
  PROVE  /\ Lowest(Above(S, s)) \in S /\ Lowest(Above(S, s)) > s
         /\ Rank(S, Lowest(Above(S, s))) = Rank(S, s) + 1
<1>1. PICK u : u = Lowest(Above(S, s))
  OBVIOUS
<1>2. u \in S /\ u > s /\ \A y \in S : y > s => u <= y
  <2>1. Above(S, s) \in SUBSET Clusters
    BY DEF Above
  <2> QED BY <1>1, <2>1, LowestIs DEF Above
<1> DEFINE T == {y \in S : y < s}
<1>3. {y \in S : y < u} = T \cup {s}
  <2>1. \A x \in S : x \in Int
    BY SubsetsAreNumbers
  <2> QED BY <1>2, <2>1
<1>4. IsFiniteSet(T) /\ s \notin T /\ Cardinality(T) \in Nat
  <2>1. T \in SUBSET Clusters
    OBVIOUS
  <2>2. IsFiniteSet(T) /\ Cardinality(T) \in Nat
    BY <2>1, ClustersFinite
  <2> QED BY <2>2, ClustersFinite
<1>5. Cardinality(T \cup {s}) = Cardinality(T) + 1
  <2> HIDE DEF T
  <2> QED BY <1>4, FS_AddElement
<1> QED BY <1>1, <1>2, <1>3, <1>5 DEF Rank

LEMMA Predecessor ==
  ASSUME NEW S \in SUBSET Clusters, NEW s \in S, s # Lowest(S)
  PROVE  \E y \in S : Above(S, y) # {} /\ Lowest(Above(S, y)) = s
<1> DEFINE T == {y \in S : y < s}
<1>0. \A x \in S : x \in Int
  BY SubsetsAreNumbers
<1>1. T # {} /\ T \in SUBSET Clusters
  <2>1. T = {} => \A y \in S : s <= y
    BY <1>0
  <2> QED BY <2>1, LowestIsUnique
<1>2. PICK y : y = Highest(T)
  OBVIOUS
<1>3. y \in T /\ \A z \in T : y >= z
  <2> HIDE DEF T
  <2> QED BY <1>1, <1>2, HighestIs
<1>4. s \in Above(S, y) /\ \A z \in Above(S, y) : s <= z
  BY <1>0, <1>3 DEF Above
<1>5. Above(S, y) \in SUBSET Clusters
  BY DEF Above
<1> QED BY <1>3, <1>4, <1>5, LowestIsUnique

-----------------------------------------------------------------------------
(* The layout of the volume. *)

Used(t) == {x \in Clusters : t[x] # Free}
HeadOf(first, o) == IF o = "root" THEN Root ELSE first[o]
OwnersOf(first) == {"root"} \cup {f \in Files : first[f] # 0}

\* Every cluster in use has an owner and a depth, its distance from the first
\* cluster of the owner's chain.
Layout(t, first, depth, own) ==
  /\ depth \in [Clusters -> Nat]
  /\ \A x \in Used(t) :
       /\ own[x] \in OwnersOf(first)
       /\ depth[x] < Cardinality(Used(t))
       /\ IF depth[x] = 0 THEN x = HeadOf(first, own[x]) ELSE \E y \in Used(t) : t[y] = x
       /\ IF t[x] = kEndOfClusterchain
          THEN \A y \in Used(t) : own[y] = own[x] => depth[y] <= depth[x]
          ELSE t[x] \in Used(t) /\ own[t[x]] = own[x] /\ depth[t[x]] = depth[x] + 1
  /\ \A o \in OwnersOf(first) :
       HeadOf(first, o) \in Used(t) /\ own[HeadOf(first, o)] = o /\ depth[HeadOf(first, o)] = 0

HasLayout == \E depth, own : Layout(fat, first_cluster, depth, own)

Tables == [Clusters -> {Free, kEndOfClusterchain} \cup Clusters]

LEMMA UsedFacts ==
  ASSUME NEW t
  PROVE  /\ Used(t) \in SUBSET Clusters /\ IsFiniteSet(Used(t))
         /\ Cardinality(Used(t)) \in Nat /\ Cardinality(Used(t)) <= NumClusters
         /\ kEndOfClusterchain \notin Used(t)
<1>1. Used(t) \in SUBSET Clusters
  BY DEF Used
<1> QED BY <1>1, ClustersFinite

\* Where a walk from a cluster in use is.
LEMMA WalkStaysInChain ==
  ASSUME NEW depth, NEW own, Layout(fat, first_cluster, depth, own), NEW c \in Used(fat)
  PROVE  \A k \in Nat :
           \/ Follow(c, k) = kEndOfClusterchain
           \/ /\ Follow(c, k) \in Used(fat)
              /\ own[Follow(c, k)] = own[c] /\ depth[Follow(c, k)] = depth[c] + k
<1> DEFINE P(k) == \/ Follow(c, k) = kEndOfClusterchain
                   \/ /\ Follow(c, k) \in Used(fat)
                      /\ own[Follow(c, k)] = own[c] /\ depth[Follow(c, k)] = depth[c] + k
           S == {k \in Nat : P(k)}
<1>0. depth[c] \in Nat
  BY UsedFacts DEF Layout
<1>1. 0 \in S
  BY <1>0, FollowSteps
<1>2. ASSUME NEW k \in Nat, k \in S PROVE k + 1 \in S
  <2>1. Follow(c, k + 1) = NextCluster(Follow(c, k))
    BY FollowSteps
  <2>2. PICK x : x = Follow(c, k)
    OBVIOUS
  <2>3. CASE x = kEndOfClusterchain
    BY <2>1, <2>2, <2>3, ClustersFinite DEF NextCluster
  <2>4. CASE x # kEndOfClusterchain
    <3>1. x \in Used(fat) /\ own[x] = own[c] /\ depth[x] = depth[c] + k
      BY <1>2, <2>2, <2>4
    <3>2. Follow(c, k + 1) = fat[x]
      BY <2>1, <2>2, <3>1, UsedFacts DEF NextCluster
    <3>3. \/ fat[x] = kEndOfClusterchain
          \/ fat[x] \in Used(fat) /\ own[fat[x]] = own[x] /\ depth[fat[x]] = depth[x] + 1
      BY <3>1 DEF Layout
    <3>4. fat[x] # kEndOfClusterchain => depth[fat[x]] = depth[c] + (k + 1)
      BY <1>0, <3>1, <3>3
    <3> QED BY <3>1, <3>2, <3>3, <3>4
  <2> QED BY <2>3, <2>4
<1>3. Nat \subseteq S
  <2> HIDE DEF S
  <2> QED BY <1>1, <1>2, NatSetInduction
<1> QED BY <1>3

\* Every cluster in use is on the chain of its owner.
LEMMA OnTheChain ==
  ASSUME NEW depth, NEW own, Layout(fat, first_cluster, depth, own), NEW x \in Used(fat)
  PROVE  Follow(HeadOf(first_cluster, own[x]), depth[x]) = x
<1> DEFINE S == {k \in Nat : \A y \in Used(fat) :
                   depth[y] = k => Follow(HeadOf(first_cluster, own[y]), k) = y}
<1>1. 0 \in S
  BY FollowSteps DEF Layout
<1>2. ASSUME NEW k \in Nat, k \in S PROVE k + 1 \in S
  <2> SUFFICES ASSUME NEW y \in Used(fat), depth[y] = k + 1
               PROVE  Follow(HeadOf(first_cluster, own[y]), k + 1) = y
    OBVIOUS
  <2>1. PICK z \in Used(fat) : fat[z] = y
    BY DEF Layout
  <2>2. y # kEndOfClusterchain
    BY UsedFacts
  <2>3. own[y] = own[z] /\ depth[y] = depth[z] + 1 /\ depth[z] \in Nat
    BY <2>1, <2>2, UsedFacts DEF Layout
  <2>4. Follow(HeadOf(first_cluster, own[z]), k) = z
    BY <1>2, <2>3
  <2>5. Follow(HeadOf(first_cluster, own[y]), k + 1) = NextCluster(z)
    BY <2>3, <2>4, FollowSteps
  <2> QED BY <2>1, <2>5, UsedFacts DEF NextCluster
<1>3. Nat \subseteq S
  <2> HIDE DEF S
  <2> QED BY <1>1, <1>2, NatSetInduction
<1>4. depth[x] \in Nat
  BY UsedFacts DEF Layout
<1> QED BY <1>3, <1>4

\* The same as a formula of the state, and of the next state.
LEMMA LayoutFacts ==
  \A depth, own : Layout(fat, first_cluster, depth, own) =>
    /\ \A c \in Used(fat), k \in Nat :
         \/ Follow(c, k) = kEndOfClusterchain
         \/ /\ Follow(c, k) \in Used(fat)
            /\ own[Follow(c, k)] = own[c] /\ depth[Follow(c, k)] = depth[c] + k
    /\ \A x \in Used(fat) : \A h : h = HeadOf(first_cluster, own[x]) => Follow(h, depth[x]) = x
BY WalkStaysInChain, OnTheChain

LEMMA LayoutFactsNext ==
  \A depth, own : Layout(fat', first_cluster', depth, own) =>
    /\ \A c \in Used(fat'), k \in Nat :
         \/ Follow(c, k)' = kEndOfClusterchain
         \/ /\ Follow(c, k)' \in Used(fat')
            /\ own[Follow(c, k)'] = own[c] /\ depth[Follow(c, k)'] = depth[c] + k
    /\ \A x \in Used(fat') : \A h : h = HeadOf(first_cluster', own[x]) => Follow(h, depth[x])' = x
<1>1. (\A depth, own : Layout(fat, first_cluster, depth, own) =>
        /\ \A c \in Used(fat), k \in Nat :
             \/ Follow(c, k) = kEndOfClusterchain
             \/ /\ Follow(c, k) \in Used(fat)
                /\ own[Follow(c, k)] = own[c] /\ depth[Follow(c, k)] = depth[c] + k
        /\ \A x \in Used(fat) : \A h : h = HeadOf(first_cluster, own[x]) => Follow(h, depth[x]) = x)'
  BY LayoutFacts, PTL
<1> QED BY <1>1

LEMMA OwnerAndDepthDetermine ==
  ASSUME NEW depth, NEW own, Layout(fat, first_cluster, depth, own),
         NEW x \in Used(fat), NEW y \in Used(fat), own[x] = own[y], depth[x] = depth[y]
  PROVE  x = y
BY OnTheChain

LEMMA LastIsLast ==
  ASSUME NEW depth, NEW own, Layout(fat, first_cluster, depth, own), NEW c \in Used(fat)
  PROVE  /\ LastCluster(c) \in Used(fat) /\ own[LastCluster(c)] = own[c]
         /\ fat[LastCluster(c)] = kEndOfClusterchain
         /\ fat[c] = kEndOfClusterchain => LastCluster(c) = c
<1> DEFINE Ends(k) == NextCluster(Follow(c, k)) = kEndOfClusterchain
           IsLast(k) == Ends(k) /\ \A j \in 0 .. k - 1 : NextCluster(Follow(c, j)) # kEndOfClusterchain
           K == {k \in Nat : Ends(k)}
<1>0. NumClusters \in Nat /\ depth[c] \in Nat
  BY FatAssumption, UsedFacts DEF Layout
<1>1. NumClusters \in K
  <2>1. PICK x : x = Follow(c, NumClusters)
    OBVIOUS
  <2>2. CASE x \in Used(fat) /\ depth[x] = depth[c] + NumClusters
    <3>1. depth[x] < Cardinality(Used(fat)) /\ depth[x] \in Nat
      BY <2>2, UsedFacts DEF Layout
    <3>2. depth[x] < NumClusters
      BY <1>0, <3>1, UsedFacts
    <3> QED BY <1>0, <2>2, <3>2
  <2>3. CASE x = kEndOfClusterchain
    BY <1>0, <2>1, <2>3, ClustersFinite DEF NextCluster
  <2> QED BY <1>0, <2>1, <2>2, <2>3, WalkStaysInChain
<1>2. PICK m \in K : \A k \in K : m <= k
  <2>1. K \in SUBSET Nat /\ K # {}
    BY <1>1
  <2> HIDE DEF K
  <2> QED BY <2>1, LeastExists
<1>3. m \in 0 .. NumClusters /\ IsLast(m)
  <2>1. m \in Nat /\ m <= NumClusters /\ Ends(m)
    BY <1>0, <1>1, <1>2
  <2>2. ASSUME NEW j \in 0 .. m - 1 PROVE ~Ends(j)
    <3>1. j \in Nat /\ ~(m <= j)
      BY <2>1
    <3> QED BY <1>2, <3>1
  <2> QED BY <1>0, <2>1, <2>2
<1>4. PICK k \in 0 .. NumClusters : IsLast(k) /\ LastCluster(c) = Follow(c, k)
  <2> DEFINE n == CHOOSE k \in 0 .. NumClusters : IsLast(k)
  <2>1. n \in 0 .. NumClusters /\ IsLast(n)
    BY <1>3
  <2>2. LastCluster(c) = Follow(c, n)
    BY DEF LastCluster
  <2> HIDE DEF n
  <2> QED BY <2>1, <2>2
<1>5. Follow(c, k) # kEndOfClusterchain
  <2>1. CASE k = 0
    BY <2>1, FollowSteps, UsedFacts
  <2>2. CASE k # 0
    <3>1. k - 1 \in Nat /\ k - 1 \in 0 .. k - 1 /\ (k - 1) + 1 = k
      BY <1>0, <2>2
    <3>2. Follow(c, k) = NextCluster(Follow(c, k - 1))
      BY <3>1, FollowSteps
    <3> QED BY <1>4, <3>1, <3>2
  <2> QED BY <2>1, <2>2
<1>6. k \in Nat
  BY <1>0
<1>7. Follow(c, k) \in Used(fat) /\ own[Follow(c, k)] = own[c]
  BY <1>5, <1>6, WalkStaysInChain
<1>8. fat[Follow(c, k)] = kEndOfClusterchain
  BY <1>4, <1>7, UsedFacts DEF NextCluster
<1>9. ASSUME fat[c] = kEndOfClusterchain PROVE k = 0
  <2>1. NextCluster(Follow(c, 0)) = kEndOfClusterchain
    BY <1>9, FollowSteps, UsedFacts DEF NextCluster
  <2>2. 0 \in 0 .. k - 1 \/ k = 0
    BY <1>6
  <2> QED BY <1>4, <2>1, <2>2
<1> QED BY <1>4, <1>7, <1>8, <1>9, FollowSteps

\* The table with the clusters of S linked in ascending order behind last, and
\* with a new chain of them.
Linked(t, S, last) ==
  [x \in Clusters |->
     IF x \in S \cup {last}
     THEN LET rest == IF x = last THEN S ELSE {y \in S : y > x}
          IN  IF rest = {} THEN kEndOfClusterchain ELSE Lowest(rest)
     ELSE t[x]]

LinkedNew(t, S) ==
  [x \in Clusters |->
     IF x \in S
     THEN LET rest == {y \in S : y > x}
          IN  IF rest = {} THEN kEndOfClusterchain ELSE Lowest(rest)
     ELSE t[x]]

LEMMA LinkedFacts ==
  ASSUME NEW t \in Tables, NEW S \in SUBSET (Clusters \ Used(t)),
         NEW last \in Used(t), NEW u, u = Linked(t, S, last)
  PROVE  /\ u \in Tables /\ Used(u) = Used(t) \cup S
         /\ \A x \in Used(t) \ {last} : u[x] = t[x]
         /\ u[last] = IF S = {} THEN kEndOfClusterchain ELSE Lowest(S)
         /\ \A x \in S : u[x] = IF Above(S, x) = {} THEN kEndOfClusterchain ELSE Lowest(Above(S, x))
<1>0. last \in Clusters /\ last \notin S /\ Used(t) \subseteq Clusters /\ S \in SUBSET Clusters
  BY DEF Used
<1>1. \A x \in Clusters \ (S \cup {last}) : u[x] = t[x]
  BY DEF Linked
<1>2. u[last] = IF S = {} THEN kEndOfClusterchain ELSE Lowest(S)
  BY <1>0 DEF Linked
<1>3. \A x \in S : u[x] = IF Above(S, x) = {} THEN kEndOfClusterchain ELSE Lowest(Above(S, x))
  BY <1>0 DEF Linked, Above
<1>4. \A x \in S \cup {last} : u[x] \in {kEndOfClusterchain} \cup Clusters
  <2>1. S # {} => Lowest(S) \in Clusters
    BY <1>0, LowestIs
  <2>2. ASSUME NEW x \in S, Above(S, x) # {} PROVE Lowest(Above(S, x)) \in Clusters
    <3>1. Above(S, x) \in SUBSET Clusters
      BY <1>0 DEF Above
    <3> QED BY <2>2, <3>1, LowestIs
  <2> QED BY <1>2, <1>3, <2>1, <2>2
<1>5. \A x \in Clusters : t[x] \in {Free, kEndOfClusterchain} \cup Clusters
  BY DEF Tables
<1>6. u \in Tables
  <2>1. u = [x \in Clusters |-> u[x]]
    BY DEF Linked
  <2>2. \A x \in Clusters : u[x] \in {Free, kEndOfClusterchain} \cup Clusters
    BY <1>1, <1>4, <1>5
  <2> QED BY <2>1, <2>2 DEF Tables
<1>7. \A x \in S \cup {last} : u[x] # Free
  BY <1>4, ClustersFinite
<1>8. Used(u) = Used(t) \cup S
  BY <1>0, <1>1, <1>7 DEF Used
<1> QED BY <1>0, <1>1, <1>2, <1>3, <1>6, <1>8

LEMMA LinkedNewFacts ==
  ASSUME NEW t \in Tables, NEW S \in SUBSET (Clusters \ Used(t)), NEW u, u = LinkedNew(t, S)
  PROVE  /\ u \in Tables /\ Used(u) = Used(t) \cup S
         /\ \A x \in Used(t) : u[x] = t[x]
         /\ \A x \in S : u[x] = IF Above(S, x) = {} THEN kEndOfClusterchain ELSE Lowest(Above(S, x))
<1>0. Used(t) \subseteq Clusters /\ S \in SUBSET Clusters /\ S \cap Used(t) = {}
  BY DEF Used
<1>1. \A x \in Clusters \ S : u[x] = t[x]
  BY DEF LinkedNew
<1>3. \A x \in S : u[x] = IF Above(S, x) = {} THEN kEndOfClusterchain ELSE Lowest(Above(S, x))
  BY <1>0 DEF LinkedNew, Above
<1>4. \A x \in S : u[x] \in {kEndOfClusterchain} \cup Clusters
  <2>2. ASSUME NEW x \in S, Above(S, x) # {} PROVE Lowest(Above(S, x)) \in Clusters
    <3>1. Above(S, x) \in SUBSET Clusters
      BY <1>0 DEF Above
    <3> QED BY <2>2, <3>1, LowestIs
  <2> QED BY <1>3, <2>2
<1>5. \A x \in Clusters : t[x] \in {Free, kEndOfClusterchain} \cup Clusters
  BY DEF Tables
<1>6. u \in Tables
  <2>1. u = [x \in Clusters |-> u[x]]
    BY DEF LinkedNew
  <2>2. \A x \in Clusters : u[x] \in {Free, kEndOfClusterchain} \cup Clusters
    BY <1>1, <1>4, <1>5
  <2> QED BY <2>1, <2>2 DEF Tables
<1>7. \A x \in S : u[x] # Free
  BY <1>4, ClustersFinite
<1>8. Used(u) = Used(t) \cup S
  BY <1>0, <1>1, <1>7 DEF Used
<1> QED BY <1>0, <1>1, <1>3, <1>6, <1>8

\* A layout of the table u that leaves the clusters in use where they are and
\* puts those of S in the chain of o, in ascending order from depth base on.
Continues(u, first, depth, own, S, base, o) ==
  \E depth2, own2 :
    /\ Layout(u, first, depth2, own2)
    /\ \A x \in Used(fat) : depth2[x] = depth[x] /\ own2[x] = own[x]
    /\ \A x \in S : depth2[x] = base + Rank(S, x) /\ own2[x] = o

\* Linking free clusters behind the end of a chain keeps the layout.
LEMMA ExtendLayout ==
  ASSUME fat \in Tables, NEW depth, NEW own, Layout(fat, first_cluster, depth, own),
         NEW S \in SUBSET (Clusters \ Used(fat)),
         NEW last \in Used(fat), fat[last] = kEndOfClusterchain,
         NEW u, u = Linked(fat, S, last)
  PROVE  Continues(u, first_cluster, depth, own, S, depth[last] + 1, own[last])
<1> DEFINE d2 == [x \in Clusters |-> IF x \in S THEN depth[last] + 1 + Rank(S, x) ELSE depth[x]]
           o2 == [x \in Clusters |-> IF x \in S THEN own[last] ELSE own[x]]
<1>0. /\ Used(fat) \subseteq Clusters /\ S \in SUBSET Clusters /\ S \cap Used(fat) = {}
      /\ \A x \in Clusters : depth[x] \in Nat
  BY DEF Used, Layout
<1>1. /\ Used(u) = Used(fat) \cup S
      /\ \A x \in Used(fat) \ {last} : u[x] = fat[x]
      /\ u[last] = IF S = {} THEN kEndOfClusterchain ELSE Lowest(S)
      /\ \A x \in S : u[x] = IF Above(S, x) = {} THEN kEndOfClusterchain ELSE Lowest(Above(S, x))
  BY LinkedFacts
<1>2. \A x \in S : Rank(S, x) \in Nat /\ Rank(S, x) < Cardinality(S)
  BY <1>0, RankBounds
<1>3. /\ \A x \in Used(fat) : d2[x] = depth[x] /\ o2[x] = own[x]
      /\ \A x \in S : d2[x] = depth[last] + 1 + Rank(S, x) /\ o2[x] = own[last]
  BY <1>0
<1>4. d2 \in [Clusters -> Nat]
  BY <1>0, <1>2
<1>5. /\ Cardinality(Used(u)) = Cardinality(Used(fat)) + Cardinality(S)
      /\ Cardinality(Used(fat)) \in Nat /\ Cardinality(S) \in Nat
  <2>1. IsFiniteSet(Used(fat)) /\ IsFiniteSet(S) /\ Cardinality(Used(fat)) \in Nat /\ Cardinality(S) \in Nat
    BY <1>0, ClustersFinite
  <2>2. Used(fat) \cap S = {}
    BY <1>0
  <2>3. Cardinality(Used(fat) \cup S) = Cardinality(Used(fat)) + Cardinality(S)
    BY <2>1, <2>2, DisjointCardinality
  <2> QED BY <1>1, <2>1, <2>3
<1> HIDE DEF d2, o2
<1>6. ASSUME NEW x \in Used(u) PROVE o2[x] \in OwnersOf(first_cluster)
  BY <1>1, <1>3 DEF Layout
<1>7. ASSUME NEW x \in Used(u) PROVE d2[x] < Cardinality(Used(u))
  <2>1. CASE x \in Used(fat)
    <3>1. depth[x] < Cardinality(Used(fat)) /\ depth[x] \in Nat
      BY <1>0, <2>1 DEF Layout
    <3> QED BY <1>3, <1>5, <2>1, <3>1
  <2>2. CASE x \in S
    <3>1. depth[last] < Cardinality(Used(fat)) /\ depth[last] \in Nat
      BY <1>0 DEF Layout
    <3> QED BY <1>2, <1>3, <1>5, <2>2, <3>1
  <2> QED BY <1>1, <2>1, <2>2
<1>8. ASSUME NEW x \in Used(u)
      PROVE  IF d2[x] = 0 THEN x = HeadOf(first_cluster, o2[x]) ELSE \E y \in Used(u) : u[y] = x
  <2>1. CASE x \in Used(fat)
    <3>1. CASE d2[x] = 0
      BY <1>3, <2>1, <3>1 DEF Layout
    <3>2. CASE d2[x] # 0
      <4>1. PICK y \in Used(fat) : fat[y] = x
        BY <1>3, <2>1, <3>2 DEF Layout
      <4>2. y # last
        BY <2>1, <4>1, UsedFacts
      <4> QED BY <1>1, <3>2, <4>1, <4>2
    <3> QED BY <3>1, <3>2
  <2>2. CASE x \in S
    <3>1. d2[x] # 0
      BY <1>0, <1>2, <1>3, <2>2
    <3>2. CASE x = Lowest(S)
      BY <1>1, <2>2, <3>1, <3>2
    <3>3. CASE x # Lowest(S)
      <4>1. PICK y \in S : Above(S, y) # {} /\ Lowest(Above(S, y)) = x
        BY <1>0, <2>2, <3>3, Predecessor
      <4> QED BY <1>1, <3>1, <4>1
    <3> QED BY <3>2, <3>3
  <2> QED BY <1>1, <2>1, <2>2
<1>9. ASSUME NEW x \in Used(u)
      PROVE  IF u[x] = kEndOfClusterchain
             THEN \A y \in Used(u) : o2[y] = o2[x] => d2[y] <= d2[x]
             ELSE u[x] \in Used(u) /\ o2[u[x]] = o2[x] /\ d2[u[x]] = d2[x] + 1
  <2>1. CASE x \in Used(fat) \ {last} /\ u[x] = kEndOfClusterchain
    <3>1. fat[x] = kEndOfClusterchain /\ \A y \in Used(fat) : own[y] = own[x] => depth[y] <= depth[x]
      BY <1>1, <2>1 DEF Layout
    <3>2. \A y \in Used(fat) : own[y] = own[last] => depth[y] <= depth[last]
      BY DEF Layout
    <3>3. own[x] # own[last]
      <4>1. own[x] = own[last] => depth[x] = depth[last]
        BY <1>0, <2>1, <3>1, <3>2
      <4> QED BY <2>1, <4>1, OwnerAndDepthDetermine
    <3> QED BY <1>1, <1>3, <2>1, <3>1, <3>3
  <2>2. CASE x \in Used(fat) \ {last} /\ u[x] # kEndOfClusterchain
    <3>1. u[x] = fat[x] /\ fat[x] \in Used(fat) /\ own[fat[x]] = own[x] /\ depth[fat[x]] = depth[x] + 1
      BY <1>1, <2>2 DEF Layout
    <3> QED BY <1>1, <1>3, <2>2, <3>1
  <2>3. CASE x = last /\ S = {}
    <3>1. \A y \in Used(fat) : own[y] = own[last] => depth[y] <= depth[last]
      BY DEF Layout
    <3> QED BY <1>1, <1>3, <2>3, <3>1
  <2>4. CASE x = last /\ S # {}
    <3>1. Lowest(S) \in S
      BY <1>0, <2>4, LowestIs
    <3>2. Rank(S, Lowest(S)) = 0
      BY <1>0, <3>1, RankBounds
    <3>3. u[x] = Lowest(S) /\ Lowest(S) # kEndOfClusterchain
      BY <1>0, <1>1, <2>4, <3>1, ClustersFinite
    <3>4. d2[Lowest(S)] = depth[last] + 1 /\ o2[Lowest(S)] = own[last]
      BY <1>0, <1>3, <3>1, <3>2
    <3> QED BY <1>1, <1>3, <2>4, <3>1, <3>3, <3>4
  <2>5. CASE x \in S /\ Above(S, x) = {}
    <3>1. u[x] = kEndOfClusterchain
      BY <1>1, <2>5
    <3>2. ASSUME NEW y \in S PROVE d2[y] <= d2[x]
      <4>1. y <= x
        BY <1>0, <2>5, SubsetsAreNumbers DEF Above
      <4>2. Rank(S, y) <= Rank(S, x)
        BY <1>0, <2>5, <4>1, RankOrder
      <4> QED BY <1>0, <1>2, <1>3, <2>5, <4>2
    <3>3. ASSUME NEW y \in Used(fat), own[y] = own[last] PROVE d2[y] <= d2[x]
      <4>1. depth[y] <= depth[last]
        BY <3>3 DEF Layout
      <4> QED BY <1>0, <1>2, <1>3, <2>5, <4>1
    <3> QED BY <1>1, <1>3, <2>5, <3>1, <3>2, <3>3
  <2>6. CASE x \in S /\ Above(S, x) # {}
    <3>1. PICK y : y = Lowest(Above(S, x))
      OBVIOUS
    <3>2. y \in S /\ Rank(S, y) = Rank(S, x) + 1
      BY <1>0, <2>6, <3>1, RankSuccessor
    <3>3. u[x] = y /\ y # kEndOfClusterchain
      BY <1>0, <1>1, <2>6, <3>1, <3>2, ClustersFinite
    <3>4. d2[y] = d2[x] + 1 /\ o2[y] = o2[x]
      BY <1>0, <1>2, <1>3, <2>6, <3>2
    <3> QED BY <1>1, <3>2, <3>3, <3>4
  <2> QED BY <1>1, <2>1, <2>2, <2>3, <2>4, <2>5, <2>6
<1>10. ASSUME NEW o \in OwnersOf(first_cluster)
       PROVE  /\ HeadOf(first_cluster, o) \in Used(u)
              /\ o2[HeadOf(first_cluster, o)] = o /\ d2[HeadOf(first_cluster, o)] = 0
  <2>1. /\ HeadOf(first_cluster, o) \in Used(fat)
        /\ own[HeadOf(first_cluster, o)] = o /\ depth[HeadOf(first_cluster, o)] = 0
    BY DEF Layout
  <2> QED BY <1>1, <1>3, <2>1
<1>11. Layout(u, first_cluster, d2, o2)
  BY <1>4, <1>6, <1>7, <1>8, <1>9, <1>10 DEF Layout
<1> QED BY <1>3, <1>11 DEF Continues

\* So does a new chain of free clusters for a file that had none.
LEMMA AllocateLayout ==
  ASSUME fat \in Tables, NEW depth, NEW own, Layout(fat, first_cluster, depth, own),
         first_cluster \in [Files -> {0} \cup Clusters],
         NEW S \in SUBSET (Clusters \ Used(fat)), S # {},
         NEW f \in Files, first_cluster[f] = 0,
         NEW u, u = LinkedNew(fat, S),
         NEW first, first = [first_cluster EXCEPT ![f] = Lowest(S)]
  PROVE  Continues(u, first, depth, own, S, 0, f)
<1> DEFINE d2 == [x \in Clusters |-> IF x \in S THEN Rank(S, x) ELSE depth[x]]
           o2 == [x \in Clusters |-> IF x \in S THEN f ELSE own[x]]
<1>0. /\ Used(fat) \subseteq Clusters /\ S \in SUBSET Clusters /\ S \cap Used(fat) = {}
      /\ \A x \in Clusters : depth[x] \in Nat
  BY DEF Used, Layout
<1>1. /\ Used(u) = Used(fat) \cup S
      /\ \A x \in Used(fat) : u[x] = fat[x]
      /\ \A x \in S : u[x] = IF Above(S, x) = {} THEN kEndOfClusterchain ELSE Lowest(Above(S, x))
  BY LinkedNewFacts
<1>2. \A x \in S : Rank(S, x) \in Nat /\ Rank(S, x) < Cardinality(S)
  BY <1>0, RankBounds
<1>3. /\ \A x \in Used(fat) : d2[x] = depth[x] /\ o2[x] = own[x]
      /\ \A x \in S : d2[x] = Rank(S, x) /\ o2[x] = f
  BY <1>0
<1>4. d2 \in [Clusters -> Nat]
  BY <1>0, <1>2
<1>5. /\ Cardinality(Used(u)) = Cardinality(Used(fat)) + Cardinality(S)
      /\ Cardinality(Used(fat)) \in Nat /\ Cardinality(S) \in Nat
  <2>1. IsFiniteSet(Used(fat)) /\ IsFiniteSet(S) /\ Cardinality(Used(fat)) \in Nat /\ Cardinality(S) \in Nat
    BY <1>0, ClustersFinite
  <2>2. Used(fat) \cap S = {}
    BY <1>0
  <2>3. Cardinality(Used(fat) \cup S) = Cardinality(Used(fat)) + Cardinality(S)
    BY <2>1, <2>2, DisjointCardinality
  <2> QED BY <1>1, <2>1, <2>3
<1> HIDE DEF d2, o2
<1>l. Lowest(S) \in S /\ Lowest(S) # 0 /\ Rank(S, Lowest(S)) = 0
  <2>1. Lowest(S) \in S
    BY <1>0, LowestIs
  <2> QED BY <1>0, <2>1, RankBounds, ClustersFinite DEF Free
<1>f. /\ f # "root" /\ f \notin OwnersOf(first_cluster)
      /\ OwnersOf(first) = OwnersOf(first_cluster) \cup {f}
      /\ HeadOf(first, f) = Lowest(S)
      /\ \A o \in OwnersOf(first_cluster) : HeadOf(first, o) = HeadOf(first_cluster, o)
  <2>1. f # "root"
    BY FatAssumption
  <2>2. first[f] = Lowest(S) /\ \A g \in Files \ {f} : first[g] = first_cluster[g]
    OBVIOUS
  <2>3. f \notin OwnersOf(first_cluster)
    BY <2>1 DEF OwnersOf
  <2>4. OwnersOf(first) = OwnersOf(first_cluster) \cup {f}
    BY <1>l, <2>2 DEF OwnersOf
  <2>5. HeadOf(first, f) = Lowest(S)
    BY <2>1, <2>2 DEF HeadOf
  <2>6. ASSUME NEW o \in OwnersOf(first_cluster) PROVE HeadOf(first, o) = HeadOf(first_cluster, o)
    BY <2>2, <2>3 DEF HeadOf, OwnersOf
  <2> QED BY <2>1, <2>3, <2>4, <2>5, <2>6
<1>o. \A x \in Used(fat) : own[x] \in OwnersOf(first_cluster) /\ own[x] # f
  BY <1>f DEF Layout
<1>6. ASSUME NEW x \in Used(u) PROVE o2[x] \in OwnersOf(first)
  BY <1>1, <1>3, <1>f, <1>o
<1>7. ASSUME NEW x \in Used(u) PROVE d2[x] < Cardinality(Used(u))
  <2>1. CASE x \in Used(fat)
    <3>1. depth[x] < Cardinality(Used(fat)) /\ depth[x] \in Nat
      BY <1>0, <2>1 DEF Layout
    <3> QED BY <1>3, <1>5, <2>1, <3>1
  <2>2. CASE x \in S
    BY <1>2, <1>3, <1>5, <2>2
  <2> QED BY <1>1, <2>1, <2>2
<1>8. ASSUME NEW x \in Used(u)
      PROVE  IF d2[x] = 0 THEN x = HeadOf(first, o2[x]) ELSE \E y \in Used(u) : u[y] = x
  <2>1. CASE x \in Used(fat)
    <3>1. CASE d2[x] = 0
      <4>1. x = HeadOf(first_cluster, own[x])
        BY <1>3, <2>1, <3>1 DEF Layout
      <4> QED BY <1>3, <1>f, <1>o, <2>1, <3>1, <4>1
    <3>2. CASE d2[x] # 0
      <4>1. PICK y \in Used(fat) : fat[y] = x
        BY <1>3, <2>1, <3>2 DEF Layout
      <4> QED BY <1>1, <3>2, <4>1
    <3> QED BY <3>1, <3>2
  <2>2. CASE x \in S
    <3>2. CASE x = Lowest(S)
      BY <1>3, <1>f, <1>l, <2>2, <3>2
    <3>3. CASE x # Lowest(S)
      <4>1. PICK y \in S : Above(S, y) # {} /\ Lowest(Above(S, y)) = x
        BY <1>0, <2>2, <3>3, Predecessor
      <4>2. d2[x] # 0
        BY <1>0, <1>3, <2>2, <3>3, RankBounds
      <4> QED BY <1>1, <4>1, <4>2
    <3> QED BY <3>2, <3>3
  <2> QED BY <1>1, <2>1, <2>2
<1>9. ASSUME NEW x \in Used(u)
      PROVE  IF u[x] = kEndOfClusterchain
             THEN \A y \in Used(u) : o2[y] = o2[x] => d2[y] <= d2[x]
             ELSE u[x] \in Used(u) /\ o2[u[x]] = o2[x] /\ d2[u[x]] = d2[x] + 1
  <2>1. CASE x \in Used(fat) /\ u[x] = kEndOfClusterchain
    <3>1. fat[x] = kEndOfClusterchain /\ \A y \in Used(fat) : own[y] = own[x] => depth[y] <= depth[x]
      BY <1>1, <2>1 DEF Layout
    <3> QED BY <1>1, <1>3, <1>o, <2>1, <3>1
  <2>2. CASE x \in Used(fat) /\ u[x] # kEndOfClusterchain
    <3>1. u[x] = fat[x] /\ fat[x] \in Used(fat) /\ own[fat[x]] = own[x] /\ depth[fat[x]] = depth[x] + 1
      BY <1>1, <2>2 DEF Layout
    <3> QED BY <1>1, <1>3, <2>2, <3>1
  <2>5. CASE x \in S /\ Above(S, x) = {}
    <3>1. u[x] = kEndOfClusterchain
      BY <1>1, <2>5
    <3>2. ASSUME NEW y \in S PROVE d2[y] <= d2[x]
      <4>1. y <= x
        BY <1>0, <2>5, SubsetsAreNumbers DEF Above
      <4>2. Rank(S, y) <= Rank(S, x)
        BY <1>0, <2>5, <4>1, RankOrder
      <4> QED BY <1>3, <2>5, <4>2
    <3> QED BY <1>1, <1>3, <1>o, <2>5, <3>1, <3>2
  <2>6. CASE x \in S /\ Above(S, x) # {}
    <3>1. PICK y : y = Lowest(Above(S, x))
      OBVIOUS
    <3>2. y \in S /\ Rank(S, y) = Rank(S, x) + 1
      BY <1>0, <2>6, <3>1, RankSuccessor
    <3>3. u[x] = y /\ y # kEndOfClusterchain
      BY <1>0, <1>1, <2>6, <3>1, <3>2, ClustersFinite
    <3>4. d2[y] = d2[x] + 1 /\ o2[y] = o2[x]
      BY <1>3, <2>6, <3>2
    <3> QED BY <1>1, <3>2, <3>3, <3>4
  <2> QED BY <1>1, <2>1, <2>2, <2>5, <2>6
<1>10. ASSUME NEW o \in OwnersOf(first)
       PROVE  HeadOf(first, o) \in Used(u) /\ o2[HeadOf(first, o)] = o /\ d2[HeadOf(first, o)] = 0
  <2>1. CASE o = f
    BY <1>1, <1>3, <1>f, <1>l, <2>1
  <2>2. CASE o # f
    <3>1. o \in OwnersOf(first_cluster)
      BY <1>f, <2>2
    <3>2. /\ HeadOf(first_cluster, o) \in Used(fat)
          /\ own[HeadOf(first_cluster, o)] = o /\ depth[HeadOf(first_cluster, o)] = 0
      BY <3>1 DEF Layout
    <3> QED BY <1>1, <1>3, <1>f, <3>1, <3>2
  <2> QED BY <2>1, <2>2
<1>11. Layout(u, first, d2, o2)
  BY <1>4, <1>6, <1>7, <1>8, <1>9, <1>10 DEF Layout
<1>12. \A x \in S : d2[x] = 0 + Rank(S, x)
  BY <1>2, <1>3
<1> QED BY <1>3, <1>11, <1>12 DEF Continues

-----------------------------------------------------------------------------
(* The chains. *)

\* A volume with a layout has sound chains.
LEMMA LayoutIsSound ==
  ASSUME TypeOK, NEW depth, NEW own, Layout(fat, first_cluster, depth, own)
  PROVE  ChainsSound
<1>0. /\ Owners = OwnersOf(first_cluster) /\ NumClusters \in Nat
      /\ Used(fat) = Clusters \ FreeClusters /\ Used(fat) \subseteq Clusters
  BY FatAssumption DEF Owners, OwnersOf, Used, FreeClusters
<1>1. \A o \in Owners :
        /\ HeadOf(first_cluster, o) \in Used(fat)
        /\ own[HeadOf(first_cluster, o)] = o /\ depth[HeadOf(first_cluster, o)] = 0
  BY <1>0 DEF Layout
<1>2. \A o \in Owners : Chain(o) = {Follow(HeadOf(first_cluster, o), k) : k \in 0 .. NumClusters} \cap Clusters
  BY DEF Chain, HeadOf
<1>3. ASSUME NEW o \in Owners, NEW k \in Nat
      PROVE  \/ Follow(HeadOf(first_cluster, o), k) = kEndOfClusterchain
             \/ /\ Follow(HeadOf(first_cluster, o), k) \in Used(fat)
                /\ own[Follow(HeadOf(first_cluster, o), k)] = o
                /\ depth[Follow(HeadOf(first_cluster, o), k)] = k
  <2>1. PICK h : h = HeadOf(first_cluster, o)
    OBVIOUS
  <2>2. h \in Used(fat) /\ own[h] = o /\ depth[h] = 0
    BY <1>1, <2>1
  <2>3. \/ Follow(h, k) = kEndOfClusterchain
        \/ Follow(h, k) \in Used(fat) /\ own[Follow(h, k)] = own[h] /\ depth[Follow(h, k)] = depth[h] + k
    BY <2>2, WalkStaysInChain
  <2> QED BY <2>1, <2>2, <2>3
<1>4. ASSUME NEW o \in Owners PROVE Follow(HeadOf(first_cluster, o), NumClusters) = kEndOfClusterchain
  <2>1. PICK x : x = Follow(HeadOf(first_cluster, o), NumClusters)
    OBVIOUS
  <2>2. ASSUME x \in Used(fat), depth[x] = NumClusters PROVE FALSE
    <3>1. depth[x] < Cardinality(Used(fat)) /\ Cardinality(Used(fat)) \in Nat /\ Cardinality(Used(fat)) <= NumClusters
      BY <2>2, UsedFacts DEF Layout
    <3> QED BY <1>0, <2>2, <3>1
  <2> QED BY <1>0, <1>3, <2>1, <2>2
<1>5. ASSUME NEW o \in Owners, NEW x \in Chain(o) PROVE x \in Used(fat) /\ own[x] = o
  <2>1. PICK k \in 0 .. NumClusters : x = Follow(HeadOf(first_cluster, o), k)
    BY <1>2
  <2>2. k \in Nat /\ x \in Clusters
    BY <1>0, <1>2
  <2>3. x # kEndOfClusterchain
    BY <2>2, ClustersFinite
  <2> QED BY <1>3, <2>1, <2>2, <2>3
<1>6. ASSUME NEW x \in Used(fat) PROVE own[x] \in Owners /\ x \in Chain(own[x])
  <2>1. own[x] \in Owners /\ depth[x] < Cardinality(Used(fat)) /\ depth[x] \in Nat
    BY <1>0 DEF Layout
  <2>2. depth[x] \in 0 .. NumClusters
    <3>1. Cardinality(Used(fat)) \in Nat /\ Cardinality(Used(fat)) <= NumClusters
      BY UsedFacts
    <3> QED BY <1>0, <2>1, <3>1
  <2>3. x = Follow(HeadOf(first_cluster, own[x]), depth[x])
    BY OnTheChain
  <2> QED BY <1>0, <1>2, <2>1, <2>2, <2>3
<1>7. \A o \in Owners :
        Follow(IF o = "root" THEN Root ELSE first_cluster[o], NumClusters) = kEndOfClusterchain
  BY <1>4 DEF HeadOf
<1>8. \A o, p \in Owners : o # p => Chain(o) \cap Chain(p) = {}
  BY <1>5
<1>9. UNION {Chain(o) : o \in Owners} = Clusters \ FreeClusters
  BY <1>0, <1>5, <1>6
<1> QED BY <1>7, <1>8, <1>9 DEF ChainsSound

\* The clusters the scans find.
LEMMA CandidatesAre ==
  ASSUME NEW n \in Nat
  PROVE  /\ Candidates(n) \in SUBSET (Clusters \ Used(fat))
         /\ \A m \in Nat \ {0} : HasRoom(m) /\ n > 0 => Candidates(n) # {}
         /\ n = 1 => \A x, y \in Candidates(n) : x = y
<1>1. FreeClusters = Clusters \ Used(fat) /\ FreeClusters \in SUBSET Clusters
  BY DEF FreeClusters, Used
<1>2. Candidates(n) = {c \in FreeClusters : Rank(FreeClusters, c) < n}
  BY DEF Candidates, Rank
<1>3. ASSUME NEW m \in Nat \ {0}, HasRoom(m), n > 0 PROVE Candidates(n) # {}
  <2>1. FreeClusters # {}
    BY <1>3, FS_EmptySet DEF HasRoom
  <2>2. Lowest(FreeClusters) \in FreeClusters
    BY <1>1, <2>1, LowestIs
  <2>3. Rank(FreeClusters, Lowest(FreeClusters)) = 0
    BY <1>1, <2>2, RankBounds
  <2> QED BY <1>2, <1>3, <2>2, <2>3
<1>4. ASSUME n = 1, NEW x \in Candidates(n) PROVE x = Lowest(FreeClusters)
  <2>1. x \in FreeClusters /\ Rank(FreeClusters, x) < 1
    BY <1>2, <1>4
  <2>2. Rank(FreeClusters, x) = 0
    BY <1>1, <2>1, RankBounds
  <2> QED BY <1>1, <2>1, <2>2, RankBounds
<1> QED BY <1>1, <1>2, <1>3, <1>4

LEMMA DivMod ==
  ASSUME NEW a \in Nat, NEW b \in Nat \ {0}
  PROVE  /\ a \div b \in Nat /\ a % b \in 0 .. b - 1
         /\ a = b * (a \div b) + (a % b)
OBVIOUS

LEMMA DivModUnique ==
  ASSUME NEW b \in Nat \ {0}, NEW q \in Nat, NEW r \in 0 .. b - 1
  PROVE  (q * b + r) \div b = q /\ (q * b + r) % b = r
OBVIOUS

LEMMA NumClusterIs ==
  ASSUME NEW len \in Nat
  PROVE  /\ num_cluster(len) \in Nat
         /\ len > 0 => num_cluster(len) > 0
         /\ len <= bytes_per_cluster => num_cluster(len) <= 1
<1> DEFINE a == len + bytes_per_cluster - 1
           q == a \div bytes_per_cluster
<1>0. bytes_per_cluster \in Nat \ {0} /\ a \in Nat
  BY FatAssumption
<1>1. q \in Nat /\ a % bytes_per_cluster \in 0 .. bytes_per_cluster - 1 /\ a = bytes_per_cluster * q + (a % bytes_per_cluster)
  <2> HIDE DEF a
  <2> QED BY <1>0, DivMod
<1>2. PICK b, r, m : b = bytes_per_cluster /\ r = a % bytes_per_cluster /\ m = q
  OBVIOUS
<1>3. b \in Nat \ {0} /\ r \in 0 .. b - 1 /\ m \in Nat /\ len + b - 1 = b * m + r
  BY <1>0, <1>1, <1>2
<1>4. len > 0 => m > 0
  BY <1>3
<1>5. len <= b => m <= 1
  <2>1. m > 1 => b * m >= b * 2
    BY <1>3
  <2> QED BY <1>3, <2>1
<1> QED BY <1>1, <1>2, <1>4, <1>5 DEF num_cluster

-----------------------------------------------------------------------------
(* The directory. *)

LEMMA RootFacts ==
  ASSUME NEW t, NEW first, NEW depth, NEW own, Layout(t, first, depth, own)
  PROVE  Root \in Used(t) /\ own[Root] = "root" /\ depth[Root] = 0
BY DEF Layout, OwnersOf, HeadOf

LEMMA DirectoryLength ==
  HasLayout => /\ DirLength \in Nat
               /\ \A k \in Nat : k < DirLength <=> Follow(Root, k) \in Clusters
<1> SUFFICES ASSUME HasLayout
             PROVE  /\ DirLength \in Nat
                    /\ \A k \in Nat : k < DirLength <=> Follow(Root, k) \in Clusters
  OBVIOUS
<1>1. PICK depth, own : Layout(fat, first_cluster, depth, own)
  BY DEF HasLayout
<1>2. \A k \in Nat :
        \/ Follow(Root, k) = kEndOfClusterchain
        \/ Follow(Root, k) \in Used(fat) /\ depth[Follow(Root, k)] = k
  <2>1. Root \in Used(fat) /\ depth[Root] = 0
    BY <1>1, RootFacts
  <2> QED BY <1>1, <2>1, WalkStaysInChain
<1> DEFINE K == {k \in Nat : Follow(Root, k) \notin Clusters}
<1>3. NumClusters \in K /\ NumClusters \in Nat
  <2>0. NumClusters \in Nat
    BY FatAssumption
  <2>1. PICK x : x = Follow(Root, NumClusters)
    OBVIOUS
  <2>2. ASSUME x \in Used(fat), depth[x] = NumClusters PROVE FALSE
    <3>1. depth[x] < Cardinality(Used(fat)) /\ Cardinality(Used(fat)) \in Nat /\ Cardinality(Used(fat)) <= NumClusters
      BY <1>1, <2>2, UsedFacts DEF Layout
    <3> QED BY <2>0, <2>2, <3>1
  <2>3. x = kEndOfClusterchain
    BY <1>2, <2>0, <2>1, <2>2
  <2> QED BY <2>0, <2>1, <2>3, ClustersFinite
<1>4. PICK m \in K : \A k \in K : m <= k
  <2>1. K \in SUBSET Nat /\ K # {}
    BY <1>3
  <2> HIDE DEF K
  <2> QED BY <2>1, LeastExists
<1>5. m \in Nat /\ m <= NumClusters
  BY <1>3, <1>4
<1> DEFINE S == {i \in Nat : Follow(Root, m + i) = kEndOfClusterchain}
<1>6. 0 \in S
  BY <1>2, <1>4, <1>5, UsedFacts
<1>7. ASSUME NEW i \in Nat, i \in S PROVE i + 1 \in S
  <2>1. m + i \in Nat /\ m + (i + 1) = (m + i) + 1
    BY <1>5
  <2>2. Follow(Root, (m + i) + 1) = NextCluster(Follow(Root, m + i))
    BY <2>1, FollowSteps
  <2>3. NextCluster(kEndOfClusterchain) = kEndOfClusterchain
    BY ClustersFinite DEF NextCluster
  <2> QED BY <1>7, <2>1, <2>2, <2>3
<1>8. Nat \subseteq S
  <2> HIDE DEF S
  <2> QED BY <1>6, <1>7, NatSetInduction
<1>9. ASSUME NEW k \in Nat PROVE k < m <=> Follow(Root, k) \in Clusters
  <2>1. CASE k < m
    <3>1. ~(m <= k)
      BY <1>5, <2>1
    <3> QED BY <1>4, <2>1, <3>1
  <2>2. CASE ~(k < m)
    <3>1. k - m \in Nat /\ m + (k - m) = k
      BY <1>5, <2>2
    <3>2. Follow(Root, m + (k - m)) = kEndOfClusterchain
      BY <1>8, <3>1
    <3> QED BY <2>2, <3>1, <3>2, ClustersFinite
  <2> QED BY <2>1, <2>2
<1>10. {k \in 0 .. NumClusters : Follow(Root, k) \in Clusters} = 0 .. m - 1
  BY <1>3, <1>5, <1>9
<1>11. DirLength = m
  <2>1. Cardinality(0 .. m - 1) = m
    BY <1>5, FS_Interval
  <2> QED BY <1>10, <2>1 DEF DirLength
<1> QED BY <1>5, <1>9, <1>11

LEMMA EntryIs ==
  HasLayout =>
    \A k \in Nat :
      /\ k \in DirEntries <=> Follow(Root, k \div EntriesPerCluster) \in Clusters
      /\ k \in DirEntries => \A j \in 0 .. k - 1 : j \in DirEntries
<1> SUFFICES ASSUME HasLayout, NEW k \in Nat
             PROVE  /\ k \in DirEntries <=> Follow(Root, k \div EntriesPerCluster) \in Clusters
                    /\ k \in DirEntries => \A j \in 0 .. k - 1 : j \in DirEntries
  OBVIOUS
<1>1. PICK e, q, r : e = EntriesPerCluster /\ q = k \div EntriesPerCluster /\ r = k % EntriesPerCluster
  OBVIOUS
<1>2. e \in Nat \ {0} /\ q \in Nat /\ r \in 0 .. e - 1 /\ k = e * q + r
  BY <1>1, FatAssumption, DivMod
<1>3. PICK l : l = DirLength
  OBVIOUS
<1>4. l \in Nat /\ DirEntries = 0 .. l * e - 1
  BY <1>1, <1>3, DirectoryLength DEF DirEntries
<1>5. k < l * e <=> q < l
  <2>1. CASE q < l
    <3>1. e * (q + 1) <= e * l
      BY <1>2, <1>4, <2>1
    <3> QED BY <1>2, <1>4, <2>1, <3>1
  <2>2. CASE ~(q < l)
    <3>1. e * l <= e * q
      BY <1>2, <1>4, <2>2
    <3> QED BY <1>2, <1>4, <2>2, <3>1
  <2> QED BY <2>1, <2>2
<1>6. l * e \in Nat
  BY <1>2, <1>4
<1>7. k \in DirEntries <=> q < l
  BY <1>4, <1>5, <1>6
<1>8. k \in DirEntries => \A j \in 0 .. k - 1 : j \in DirEntries
  BY <1>4, <1>6
<1> QED BY <1>1, <1>2, <1>3, <1>7, <1>8, DirectoryLength

LEMMA EntryIsNext ==
  HasLayout' =>
    \A k \in Nat :
      /\ k \in DirEntries' <=> Follow(Root, k \div EntriesPerCluster)' \in Clusters
      /\ k \in DirEntries' => \A j \in 0 .. k - 1 : j \in DirEntries'
<1>1. (HasLayout =>
         \A k \in Nat :
           /\ k \in DirEntries <=> Follow(Root, k \div EntriesPerCluster) \in Clusters
           /\ k \in DirEntries => \A j \in 0 .. k - 1 : j \in DirEntries)'
  BY EntryIs, PTL
<1> QED BY <1>1

\* No entry of a file that is not found lies before the end.
LEMMA NoneBefore ==
  ASSUME NEW g, ~FindFile(g), NEW k \in Nat,
         \A j \in 0 .. k - 1 : j \in DirEntries /\ Slot(j) # "0x00"
  PROVE  \A j \in 0 .. k - 1 : Slot(j) # g
<1> DEFINE T == {j \in 0 .. k - 1 : Slot(j) = g}
<1> SUFFICES ASSUME T # {} PROVE FALSE
  OBVIOUS
<1>1. T \in SUBSET Nat
  OBVIOUS
<1>2. PICK m \in T : \A j \in T : m <= j
  <2> HIDE DEF T
  <2> QED BY <1>1, LeastExists
<1>3. m \in 0 .. k - 1 /\ Slot(m) = g
  OBVIOUS
<1>4. ASSUME NEW j \in 0 .. m - 1 PROVE Slot(j) \notin {"0x00", g}
  <2>1. j \in 0 .. k - 1 /\ ~(m <= j)
    BY <1>3
  <2> QED BY <1>2, <2>1
<1> QED BY <1>3, <1>4 DEF FindFile

\* A step that only uses an entry which was free or deleted hides no file.
LEMMA FoundKept ==
  ASSUME HasLayout, NEW g, g \notin {"0x00", "0xe5"},
         \A k \in DirEntries :
           /\ k \in DirEntries'
           /\ Slot(k)' = Slot(k) \/ (Slot(k) \in {"0x00", "0xe5"} /\ Slot(k)' = g),
         NEW f, f # g, f \notin {"0x00", "0xe5"}, FindFile(f)
  PROVE  FindFile(f)'
<1>1. PICK k \in DirEntries : Slot(k) = f /\ \A j \in 0 .. k - 1 : Slot(j) \notin {"0x00", f}
  BY DEF FindFile
<1>2. k \in Nat
  BY DEF DirEntries
<1>3. \A j \in 0 .. k - 1 : j \in DirEntries
  BY <1>2, EntryIs
<1>4. Slot(k)' = f /\ k \in DirEntries'
  BY <1>1
<1>5. \A j \in 0 .. k - 1 : Slot(j)' \notin {"0x00", f}
  BY <1>1, <1>3
<1> QED BY <1>4, <1>5 DEF FindFile

\* A step after which every cluster is where it was.
Grown(depth, own, depth2, own2) ==
  /\ Layout(fat, first_cluster, depth, own)
  /\ Layout(fat', first_cluster', depth2, own2)
  /\ Used(fat) \subseteq Used(fat')
  /\ \A x \in Used(fat) : depth2[x] = depth[x] /\ own2[x] = own[x]

Grows == \E depth, own, depth2, own2 : Grown(depth, own, depth2, own2)

LEMMA DirectoryGrown ==
  ASSUME NEW depth, NEW own, NEW depth2, NEW own2, Grown(depth, own, depth2, own2)
  PROVE  /\ HasLayout /\ HasLayout'
         /\ \A k \in Nat : Follow(Root, k) \in Clusters =>
              /\ Follow(Root, k)' = Follow(Root, k) /\ Follow(Root, k) \in Used(fat)
              /\ own[Follow(Root, k)] = "root" /\ depth[Follow(Root, k)] = k
         /\ \A k \in Nat : Follow(Root, k)' \in Clusters =>
              /\ Follow(Root, k)' \in Used(fat')
              /\ own2[Follow(Root, k)'] = "root" /\ depth2[Follow(Root, k)'] = k
              /\ Follow(Root, k)' \in Used(fat) => Follow(Root, k)' = Follow(Root, k)
<1>0. /\ Layout(fat, first_cluster, depth, own) /\ Layout(fat', first_cluster', depth2, own2)
      /\ Used(fat) \subseteq Used(fat')
      /\ \A x \in Used(fat) : depth2[x] = depth[x] /\ own2[x] = own[x]
  BY DEF Grown
<1>1. HasLayout /\ HasLayout'
  BY <1>0 DEF HasLayout
<1>2. /\ Root \in Used(fat) /\ own[Root] = "root" /\ depth[Root] = 0
      /\ Root \in Used(fat') /\ own2[Root] = "root" /\ depth2[Root] = 0
  BY <1>0, RootFacts
<1>3. HeadOf(first_cluster, "root") = Root /\ HeadOf(first_cluster', "root") = Root
  BY DEF HeadOf
<1>4. ASSUME NEW k \in Nat, Follow(Root, k) \in Clusters
      PROVE  /\ Follow(Root, k)' = Follow(Root, k) /\ Follow(Root, k) \in Used(fat)
             /\ own[Follow(Root, k)] = "root" /\ depth[Follow(Root, k)] = k
  <2>1. PICK x : x = Follow(Root, k)
    OBVIOUS
  <2>2. x # kEndOfClusterchain
    BY <1>4, <2>1, ClustersFinite
  <2>3. x \in Used(fat) /\ own[x] = own[Root] /\ depth[x] = depth[Root] + k
    BY <1>0, <1>2, <2>1, <2>2, LayoutFacts
  <2>4. x \in Used(fat') /\ own2[x] = "root" /\ depth2[x] = k /\ own[x] = "root" /\ depth[x] = k
    BY <1>0, <1>2, <2>3
  <2>5. Follow(Root, depth2[x])' = x
    BY <1>0, <1>3, <2>4, LayoutFactsNext
  <2> QED BY <2>1, <2>3, <2>4, <2>5
<1>5. ASSUME NEW k \in Nat, Follow(Root, k)' \in Clusters
      PROVE  /\ Follow(Root, k)' \in Used(fat')
             /\ own2[Follow(Root, k)'] = "root" /\ depth2[Follow(Root, k)'] = k
             /\ Follow(Root, k)' \in Used(fat) => Follow(Root, k)' = Follow(Root, k)
  <2>1. PICK x : x = Follow(Root, k)'
    OBVIOUS
  <2>2. x # kEndOfClusterchain
    BY <1>5, <2>1, ClustersFinite
  <2>3. x \in Used(fat') /\ own2[x] = own2[Root] /\ depth2[x] = depth2[Root] + k
    BY <1>0, <1>2, <2>1, <2>2, LayoutFactsNext
  <2>4. own2[x] = "root" /\ depth2[x] = k
    BY <1>2, <2>3
  <2>5. ASSUME x \in Used(fat) PROVE x = Follow(Root, k)
    <3>1. own[x] = "root" /\ depth[x] = k
      BY <1>0, <2>4, <2>5
    <3>2. Follow(Root, depth[x]) = x
      BY <1>0, <1>3, <2>5, <3>1, LayoutFacts
    <3> QED BY <3>1, <3>2
  <2> QED BY <2>1, <2>3, <2>4, <2>5
<1> QED BY <1>1, <1>4, <1>5

LEMMA EntriesGrown ==
  ASSUME NEW depth, NEW own, NEW depth2, NEW own2, Grown(depth, own, depth2, own2), NEW k \in DirEntries
  PROVE  /\ k \in Nat /\ k \div EntriesPerCluster \in Nat /\ k % EntriesPerCluster \in 0 .. EntriesPerCluster - 1
         /\ k \in DirEntries'
         /\ Follow(Root, k \div EntriesPerCluster) \in Used(fat)
         /\ Follow(Root, k \div EntriesPerCluster)' = Follow(Root, k \div EntriesPerCluster)
<1>0. HasLayout /\ HasLayout'
  BY DirectoryGrown
<1>1. k \in Nat
  BY DEF DirEntries
<1>2. k \div EntriesPerCluster \in Nat /\ k % EntriesPerCluster \in 0 .. EntriesPerCluster - 1
  BY <1>1, FatAssumption, DivMod
<1>3. Follow(Root, k \div EntriesPerCluster) \in Clusters
  BY <1>0, <1>1, EntryIs
<1>4. PICK q \in Nat : q = k \div EntriesPerCluster
  BY <1>2
<1>5. Follow(Root, q)' = Follow(Root, q) /\ Follow(Root, q) \in Used(fat)
  BY <1>3, <1>4, DirectoryGrown
<1>6. Follow(Root, q)' \in Clusters
  BY <1>3, <1>4, <1>5
<1>7. k \in DirEntries'
  BY <1>0, <1>1, <1>4, <1>6, EntryIsNext
<1> QED BY <1>1, <1>2, <1>4, <1>5, <1>7

LEMMA SameEntries ==
  ASSUME NEW depth, NEW own, NEW depth2, NEW own2, Grown(depth, own, depth2, own2),
         \A x \in Used(fat') \ Used(fat) : own2[x] # "root", NEW k \in DirEntries'
  PROVE  k \in DirEntries
<1>0. HasLayout /\ HasLayout'
  BY DirectoryGrown
<1>1. k \in Nat
  BY DEF DirEntries
<1>2. PICK q \in Nat : q = k \div EntriesPerCluster
  BY <1>1, FatAssumption, DivMod
<1>3. Follow(Root, q)' \in Clusters
  BY <1>0, <1>1, <1>2, EntryIsNext
<1>4. Follow(Root, q)' = Follow(Root, q)
  BY <1>3, DirectoryGrown
<1> QED BY <1>0, <1>1, <1>2, <1>3, <1>4, EntryIs

\* A step that leaves the directory and its chain alone.
LEMMA SameDirectory ==
  ASSUME NEW depth, NEW own, NEW depth2, NEW own2, Grown(depth, own, depth2, own2),
         slots' = slots, \A x \in Used(fat') \ Used(fat) : own2[x] # "root"
  PROVE  /\ \A f \in Files : FindFile(f) => FindFile(f)'
         /\ (\A k \in DirEntries : Slot(k) # "stale") => \A k \in DirEntries' : Slot(k)' # "stale"
<1>0. HasLayout /\ HasLayout'
  BY DirectoryGrown
<1>1. ASSUME NEW k \in DirEntries PROVE k \in DirEntries' /\ Slot(k)' = Slot(k)
  BY EntriesGrown DEF Slot
<1>2. ASSUME NEW f \in Files, FindFile(f) PROVE FindFile(f)'
  <2>1. f \notin {"0x00", "0xe5"} /\ f # "none"
    BY FatAssumption
  <2> QED BY <1>0, <1>1, <1>2, <2>1, FoundKept
<1>3. \A k \in DirEntries' : k \in DirEntries
  BY SameEntries
<1> QED BY <1>1, <1>2, <1>3

\* CreateFile takes the first entry that is free or deleted.
LEMMA EntryTaken ==
  ASSUME TypeOK, NEW depth, NEW own, Grown(depth, own, depth, own), Used(fat') = Used(fat),
         NEW g \in Files, ~FindFile(g), Usable # {}, NEW k, k = Lowest(Usable),
         slots' = [slots EXCEPT ![Follow(Root, k \div EntriesPerCluster)][k % EntriesPerCluster] = g]
  PROVE  /\ FindFile(g)'
         /\ \A f \in Files : FindFile(f) => FindFile(f)'
         /\ (\A j \in DirEntries : Slot(j) # "stale") => \A j \in DirEntries' : Slot(j)' # "stale"
<1>0. HasLayout /\ HasLayout'
  BY DirectoryGrown
<1>g. g \notin {"0x00", "0xe5", "stale"}
  BY FatAssumption
<1>1. k \in Usable /\ \A j \in Usable : k <= j
  <2>1. Usable \in SUBSET Nat
    BY DEF Usable, DirEntries
  <2>2. \E x \in Usable : \A y \in Usable : x <= y
    BY <2>1, LeastExists
  <2> QED BY <2>2 DEF Lowest
<1>2. k \in DirEntries /\ Slot(k) \in {"0x00", "0xe5"}
  BY <1>1 DEF Usable
<1>3. PICK c, q, r : c = Follow(Root, k \div EntriesPerCluster) /\ q = k \div EntriesPerCluster /\ r = k % EntriesPerCluster
  OBVIOUS
<1>4. /\ k \in Nat /\ q \in Nat /\ r \in 0 .. EntriesPerCluster - 1 /\ k \in DirEntries'
      /\ c = Follow(Root, q) /\ c \in Used(fat) /\ c \in Clusters /\ Follow(Root, q)' = c
  BY <1>2, <1>3, EntriesGrown, UsedFacts
<1>5. /\ slots \in [Clusters -> [0 .. EntriesPerCluster - 1 -> Slots]]
      /\ slots' = [slots EXCEPT ![c][r] = g]
  BY <1>3 DEF TypeOK
<1>6. /\ slots'[c][r] = g
      /\ \A x \in Clusters, i \in 0 .. EntriesPerCluster - 1 : x # c \/ i # r => slots'[x][i] = slots[x][i]
  <2>1. slots[c] \in [0 .. EntriesPerCluster - 1 -> Slots]
    BY <1>4, <1>5
  <2>2. slots'[c] = [slots[c] EXCEPT ![r] = g] /\ \A x \in Clusters \ {c} : slots'[x] = slots[x]
    BY ONLY <1>4, <1>5
  <2>3. slots'[c][r] = g /\ \A i \in (0 .. EntriesPerCluster - 1) \ {r} : slots'[c][i] = slots[c][i]
    BY ONLY <1>4, <2>1, <2>2
  <2> QED BY <2>2, <2>3
<1>7. Slot(k)' = g
  BY <1>3, <1>4, <1>6 DEF Slot
<1>8. ASSUME NEW j \in DirEntries, j # k PROVE Slot(j)' = Slot(j)
  <2>1. PICK x, p, i : x = Follow(Root, j \div EntriesPerCluster) /\ p = j \div EntriesPerCluster /\ i = j % EntriesPerCluster
    OBVIOUS
  <2>2. /\ j \in Nat /\ p \in Nat /\ i \in 0 .. EntriesPerCluster - 1
        /\ x = Follow(Root, p) /\ x \in Used(fat) /\ x \in Clusters /\ Follow(Root, p)' = x
    BY <2>1, EntriesGrown, UsedFacts
  <2>3. depth[x] = p /\ depth[c] = q
    BY <1>4, <2>2, DirectoryGrown
  <2>4. k = EntriesPerCluster * q + r /\ j = EntriesPerCluster * p + i
    BY <1>3, <1>4, <2>1, <2>2, FatAssumption, DivMod
  <2>5. x # c \/ i # r
    BY <1>8, <2>3, <2>4
  <2>6. slots'[x][i] = slots[x][i]
    BY <1>6, <2>2, <2>5
  <2> QED BY <2>1, <2>2, <2>6 DEF Slot
<1>9. FindFile(g)'
  <2>1. ASSUME NEW j \in 0 .. k - 1 PROVE j \in DirEntries /\ Slot(j) \notin {"0x00", "0xe5"}
    <3>1. j \in DirEntries
      BY <1>0, <1>2, <1>4, EntryIs
    <3>2. ~(k <= j)
      BY <1>4
    <3> QED BY <1>1, <3>1, <3>2 DEF Usable
  <2>2. \A j \in 0 .. k - 1 : Slot(j) # g
    BY <1>4, <2>1, NoneBefore
  <2>3. ASSUME NEW j \in 0 .. k - 1 PROVE Slot(j)' \notin {"0x00", g}
    <3>1. j # k
      BY <1>4
    <3> QED BY <1>8, <2>1, <2>2, <3>1
  <2> QED BY <1>4, <1>7, <2>3 DEF FindFile
<1>10. ASSUME NEW f \in Files, FindFile(f) PROVE FindFile(f)'
  <2>1. f # g /\ f \notin {"0x00", "0xe5"}
    BY <1>10, FatAssumption
  <2>2. \A j \in DirEntries :
          /\ j \in DirEntries'
          /\ Slot(j)' = Slot(j) \/ (Slot(j) \in {"0x00", "0xe5"} /\ Slot(j)' = g)
    BY <1>2, <1>7, <1>8, EntriesGrown
  <2> QED BY <1>0, <1>g, <1>10, <2>1, <2>2, FoundKept
<1>11. \A j \in DirEntries' : j \in DirEntries
  BY SameEntries
<1> QED BY <1>g, <1>7, <1>8, <1>9, <1>10, <1>11

\* Or it adds a cleared cluster to the directory.
LEMMA DirectoryExtended ==
  ASSUME TypeOK, NEW depth, NEW own, NEW depth2, NEW own2, Grown(depth, own, depth2, own2),
         NEW g \in Files, ~FindFile(g), Usable = {},
         NEW x \in Clusters, x \notin Used(fat), Used(fat') = Used(fat) \cup {x}, own2[x] = "root",
         slots' = [slots EXCEPT ![x] = [i \in 0 .. EntriesPerCluster - 1 |-> IF i = 0 THEN g ELSE "0x00"]]
  PROVE  /\ FindFile(g)'
         /\ \A f \in Files : FindFile(f) => FindFile(f)'
         /\ (\A j \in DirEntries : Slot(j) # "stale") => \A j \in DirEntries' : Slot(j)' # "stale"
<1>0. HasLayout /\ HasLayout' /\ EntriesPerCluster \in Nat \ {0}
  BY DirectoryGrown, FatAssumption
<1>g. g \notin {"0x00", "0xe5", "stale"}
  BY FatAssumption
<1>1. /\ slots'[x] = [i \in 0 .. EntriesPerCluster - 1 |-> IF i = 0 THEN g ELSE "0x00"]
      /\ \A c \in Used(fat) : slots'[c] = slots[c]
  BY UsedFacts DEF TypeOK
<1>2. ASSUME NEW j \in DirEntries PROVE j \in DirEntries' /\ Slot(j)' = Slot(j) /\ Slot(j) \notin {"0x00", "0xe5"}
  <2>1. /\ j \in DirEntries'
        /\ Follow(Root, j \div EntriesPerCluster) \in Used(fat)
        /\ Follow(Root, j \div EntriesPerCluster)' = Follow(Root, j \div EntriesPerCluster)
    BY EntriesGrown
  <2> QED BY <1>1, <2>1 DEF Slot, Usable
<1>3. PICK d : d = depth2[x]
  OBVIOUS
<1>4. d \in Nat /\ Follow(Root, d)' = x
  <2>1. Layout(fat', first_cluster', depth2, own2) /\ x \in Used(fat')
    BY DEF Grown
  <2>2. HeadOf(first_cluster', own2[x]) = Root
    BY DEF HeadOf
  <2>3. depth2[x] \in Nat
    BY <2>1 DEF Layout
  <2> QED BY <1>3, <2>1, <2>2, <2>3, LayoutFactsNext
<1>5. ASSUME NEW j \in DirEntries', j \notin DirEntries
      PROVE  /\ j \in Nat /\ j \div EntriesPerCluster = d
             /\ Slot(j)' = IF j % EntriesPerCluster = 0 THEN g ELSE "0x00"
  <2>1. j \in Nat
    BY DEF DirEntries
  <2>2. PICK p, i : p = j \div EntriesPerCluster /\ i = j % EntriesPerCluster
    OBVIOUS
  <2>3. p \in Nat /\ i \in 0 .. EntriesPerCluster - 1
    BY <1>0, <2>1, <2>2, DivMod
  <2>4. Follow(Root, p)' \in Clusters /\ Follow(Root, p) \notin Clusters
    BY <1>0, <1>5, <2>1, <2>2, EntryIs, EntryIsNext
  <2>5. Follow(Root, p)' \in Used(fat') /\ depth2[Follow(Root, p)'] = p /\ Follow(Root, p)' \notin Used(fat)
    BY <2>3, <2>4, DirectoryGrown
  <2>6. Follow(Root, p)' = x
    BY <2>5
  <2>7. slots'[x][i] = IF i = 0 THEN g ELSE "0x00"
    BY <1>1, <2>3
  <2> QED BY <1>3, <2>1, <2>2, <2>5, <2>6, <2>7 DEF Slot
<1>6. PICK k : k = d * EntriesPerCluster
  OBVIOUS
<1>7. k \in Nat /\ k \div EntriesPerCluster = d /\ k % EntriesPerCluster = 0
  <2>1. 0 \in 0 .. EntriesPerCluster - 1 /\ d * EntriesPerCluster + 0 = k /\ k \in Nat
    BY <1>0, <1>4, <1>6
  <2>2. (d * EntriesPerCluster + 0) \div EntriesPerCluster = d /\ (d * EntriesPerCluster + 0) % EntriesPerCluster = 0
    BY <1>0, <1>4, <2>1, DivModUnique
  <2> QED BY <2>1, <2>2
<1>8. k \in DirEntries' /\ k \notin DirEntries
  <2>1. k \in DirEntries'
    BY <1>0, <1>4, <1>7, EntryIsNext
  <2>2. ASSUME k \in DirEntries PROVE FALSE
    <3>1. Follow(Root, k \div EntriesPerCluster) \in Used(fat) /\ Follow(Root, k \div EntriesPerCluster)' = Follow(Root, k \div EntriesPerCluster)
      BY <2>2, EntriesGrown
    <3> QED BY <1>4, <1>7, <3>1
  <2> QED BY <2>1, <2>2
<1>9. ASSUME NEW j \in 0 .. k - 1 PROVE j \in DirEntries
  <2>0. j \in Nat /\ j < k
    BY <1>7
  <2>1. j \in DirEntries'
    BY <1>0, <1>7, <1>8, EntryIsNext
  <2>2. PICK e, p, i : e = EntriesPerCluster /\ p = j \div EntriesPerCluster /\ i = j % EntriesPerCluster
    OBVIOUS
  <2>3. e \in Nat \ {0} /\ p \in Nat /\ i \in 0 .. e - 1 /\ j = e * p + i
    BY <1>0, <2>0, <2>2, DivMod
  <2>4. p # d
    BY <1>4, <1>6, <2>0, <2>2, <2>3
  <2> QED BY <1>5, <2>1, <2>2, <2>4
<1>10. FindFile(g)'
  <2>1. Slot(k)' = g
    BY <1>5, <1>7, <1>8
  <2>2. \A j \in 0 .. k - 1 : j \in DirEntries /\ Slot(j) # "0x00"
    BY <1>2, <1>9
  <2>3. \A j \in 0 .. k - 1 : Slot(j) # g
    BY <1>7, <2>2, NoneBefore
  <2>4. \A j \in 0 .. k - 1 : Slot(j)' \notin {"0x00", g}
    BY <1>2, <2>2, <2>3
  <2> QED BY <1>8, <2>1, <2>4 DEF FindFile
<1>11. ASSUME NEW f \in Files, FindFile(f) PROVE FindFile(f)'
  <2>1. f # g /\ f \notin {"0x00", "0xe5"}
    BY <1>11, FatAssumption
  <2> QED BY <1>0, <1>2, <1>g, <1>11, <2>1, FoundKept
<1> QED BY <1>2, <1>5, <1>g, <1>10, <1>11

-----------------------------------------------------------------------------
(* The inductive invariant. *)

InFile(c, f) ==
  /\ c \in Used(fat) /\ first_cluster[f] # 0
  /\ \E q \in Nat : c = Follow(first_cluster[f], q)

\* A descriptor writes into the chain of its file, within the file or at its end.
Position(d) == fds[d].wr_off_ + writing[d].total

Writer(d) ==
  /\ fds[d].wr_cluster_ # 0 => IsOpen(d) /\ InFile(fds[d].wr_cluster_, fds[d].file)
  /\ InCall(d) => IsOpen(d) /\ fds[d].wr_cluster_ # 0
  /\ ~InCall(d) => writing[d].total = 0
  /\ writing[d].total <= writing[d].len
  /\ IsOpen(d) => Position(d) <= Len(content[fds[d].file])
Writers == \A d \in Fds : Writer(d)

\* Files that have clusters or a descriptor are in the directory.
Listed ==
  /\ \A f \in Files : first_cluster[f] # 0 => FindFile(f)
  /\ \A d \in Fds : IsOpen(d) => FindFile(fds[d].file)
  /\ \A k \in DirEntries : Slot(k) # "stale"

IInv == TypeOK /\ HasLayout /\ Writers /\ Listed

LEMMA OpenIs ==
  TypeOK =>
    \A d \in Fds :
      /\ IsOpen(d) <=> fds[d].file \in Files
      /\ IsOpen(d) <=> fds[d] \in Descriptors
<1>1. NotOpen.file = "none" /\ "none" \notin Files
  BY FatAssumption DEF NotOpen
<1>2. \A fd \in Descriptors : fd.file \in Files
  BY DEF Descriptors
<1> QED BY <1>1, <1>2 DEF TypeOK, IsOpen

LEMMA OpenIsNext ==
  TypeOK' =>
    \A d \in Fds :
      /\ IsOpen(d)' <=> fds'[d].file \in Files
      /\ IsOpen(d)' <=> fds'[d] \in Descriptors
<1>1. (TypeOK =>
         \A d \in Fds :
           /\ IsOpen(d) <=> fds[d].file \in Files
           /\ IsOpen(d) <=> fds[d] \in Descriptors)'
  BY OpenIs, PTL
<1> QED BY <1>1

LEMMA InFileIs ==
  \A depth, own : Layout(fat, first_cluster, depth, own) =>
    \A c : \A f \in Files : InFile(c, f) <=> c \in Used(fat) /\ own[c] = f
<1> SUFFICES ASSUME NEW depth, NEW own, Layout(fat, first_cluster, depth, own), NEW c, NEW f \in Files
             PROVE  InFile(c, f) <=> c \in Used(fat) /\ own[c] = f
  OBVIOUS
<1>0. f # "root"
  BY FatAssumption
<1>1. ASSUME InFile(c, f) PROVE c \in Used(fat) /\ own[c] = f
  <2>1. PICK q \in Nat : c = Follow(first_cluster[f], q)
    BY <1>1 DEF InFile
  <2>2. c \in Used(fat) /\ f \in OwnersOf(first_cluster) /\ HeadOf(first_cluster, f) = first_cluster[f]
    BY <1>0, <1>1 DEF InFile, OwnersOf, HeadOf
  <2>3. first_cluster[f] \in Used(fat) /\ own[first_cluster[f]] = f
    BY <2>2 DEF Layout
  <2>4. c # kEndOfClusterchain
    BY <2>2, UsedFacts
  <2> QED BY <2>1, <2>2, <2>3, <2>4, WalkStaysInChain
<1>2. ASSUME c \in Used(fat), own[c] = f PROVE InFile(c, f)
  <2>1. f \in OwnersOf(first_cluster) /\ depth[c] \in Nat
    BY <1>2, UsedFacts DEF Layout
  <2>2. first_cluster[f] # 0 /\ HeadOf(first_cluster, f) = first_cluster[f]
    BY <1>0, <2>1 DEF OwnersOf, HeadOf
  <2>3. Follow(first_cluster[f], depth[c]) = c
    BY <1>2, <2>2, OnTheChain
  <2> QED BY <1>2, <2>1, <2>2, <2>3 DEF InFile
<1> QED BY <1>1, <1>2

LEMMA InFileIsNext ==
  \A depth, own : Layout(fat', first_cluster', depth, own) =>
    \A c : \A f \in Files : InFile(c, f)' <=> c \in Used(fat') /\ own[c] = f
<1>1. (\A depth, own : Layout(fat, first_cluster, depth, own) =>
         \A c : \A f \in Files : InFile(c, f) <=> c \in Used(fat) /\ own[c] = f)'
  BY InFileIs, PTL
<1> QED BY <1>1

LEMMA InFileKept ==
  ASSUME NEW depth, NEW own, NEW depth2, NEW own2, Grown(depth, own, depth2, own2),
         NEW c, NEW f \in Files, InFile(c, f)
  PROVE  InFile(c, f)'
<1>1. c \in Used(fat) /\ own[c] = f
  BY InFileIs DEF Grown
<1>2. c \in Used(fat') /\ own2[c] = f
  BY <1>1 DEF Grown
<1> QED BY <1>2, InFileIsNext DEF Grown

\* How the table changes.
LEMMA TableSame ==
  ASSUME HasLayout, fat' = fat, first_cluster' = first_cluster
  PROVE  \E depth, own : Grown(depth, own, depth, own) /\ Used(fat') = Used(fat)
<1>1. PICK depth, own : Layout(fat, first_cluster, depth, own)
  BY DEF HasLayout
<1>2. Layout(fat', first_cluster', depth, own) /\ Used(fat') = Used(fat)
  BY <1>1
<1> QED BY <1>1, <1>2 DEF Grown

\* ExtendCluster and AllocateClusterChain, for their new table u.
LEMMA Extended ==
  ASSUME TypeOK, NEW depth, NEW own, Layout(fat, first_cluster, depth, own),
         NEW c \in Used(fat), NEW n \in Nat, NEW S, S = Candidates(n),
         NEW u, ExtendCluster(c, n).fat = u
  PROVE  /\ u \in Tables /\ S \in SUBSET (Clusters \ Used(fat)) /\ Used(u) = Used(fat) \cup S
         /\ ExtendCluster(c, n).cluster \in Used(u)
         /\ S # {} => ExtendCluster(c, n).cluster = Highest(S) /\ Highest(S) \in S
         /\ \E depth2, own2 :
              /\ Layout(u, first_cluster, depth2, own2)
              /\ \A x \in Used(fat) : depth2[x] = depth[x] /\ own2[x] = own[x]
              /\ \A x \in S : /\ own2[x] = own[c]
                              /\ fat[c] = kEndOfClusterchain => depth2[x] = depth[c] + 1 + Rank(S, x)
<1>0. fat \in Tables
  BY DEF TypeOK, Tables
<1>1. S \in SUBSET (Clusters \ Used(fat)) /\ S \in SUBSET Clusters
  BY CandidatesAre
<1>2. PICK last : last = LastCluster(c)
  OBVIOUS
<1>3. /\ last \in Used(fat) /\ own[last] = own[c] /\ fat[last] = kEndOfClusterchain
      /\ fat[c] = kEndOfClusterchain => last = c
  BY <1>2, LastIsLast
<1>4. u = Linked(fat, S, last) /\ ExtendCluster(c, n).cluster = IF S = {} THEN last ELSE Highest(S)
  BY <1>2 DEF ExtendCluster, Linked
<1>5. u \in Tables /\ Used(u) = Used(fat) \cup S
  BY ONLY <1>0, <1>1, <1>3, <1>4, LinkedFacts
<1>6. S # {} => Highest(S) \in S
  BY <1>1, HighestIs
<1>7. PICK depth2, own2 :
        /\ Layout(u, first_cluster, depth2, own2)
        /\ \A x \in Used(fat) : depth2[x] = depth[x] /\ own2[x] = own[x]
        /\ \A x \in S : depth2[x] = (depth[last] + 1) + Rank(S, x) /\ own2[x] = own[last]
  <2>1. Layout(fat, first_cluster, depth, own)
    OBVIOUS
  <2>2. Continues(u, first_cluster, depth, own, S, depth[last] + 1, own[last])
    BY ONLY <1>0, <1>1, <1>3, <1>4, <2>1, ExtendLayout
  <2> QED BY <2>2 DEF Continues
<1>8. ExtendCluster(c, n).cluster \in Used(u)
  BY <1>3, <1>4, <1>5, <1>6
<1>9. \A x \in S : /\ own2[x] = own[c]
                   /\ fat[c] = kEndOfClusterchain => depth2[x] = depth[c] + 1 + Rank(S, x)
  BY <1>3, <1>7
<1>10. S # {} => ExtendCluster(c, n).cluster = Highest(S)
  BY <1>4
<1> QED BY <1>1, <1>5, <1>6, <1>7, <1>8, <1>9, <1>10

LEMMA Allocated ==
  ASSUME TypeOK, NEW depth, NEW own, Layout(fat, first_cluster, depth, own),
         NEW f \in Files, first_cluster[f] = 0,
         NEW n \in Nat, NEW S, S = Candidates(IF n = 0 THEN 1 ELSE n),
         NEW m \in Nat \ {0}, HasRoom(m),
         NEW u, AllocateClusterChain(n).fat = u,
         NEW first, [first_cluster EXCEPT ![f] = AllocateClusterChain(n).cluster] = first
  PROVE  /\ u \in Tables /\ S \in SUBSET (Clusters \ Used(fat)) /\ Used(u) = Used(fat) \cup S
         /\ AllocateClusterChain(n).cluster \in S
         /\ \E depth2, own2 :
              /\ Layout(u, first, depth2, own2)
              /\ \A x \in Used(fat) : depth2[x] = depth[x] /\ own2[x] = own[x]
              /\ \A x \in S : own2[x] = f
<1>0. fat \in Tables /\ first_cluster \in [Files -> {0} \cup Clusters] /\ f \in Files /\ first_cluster[f] = 0
  BY DEF TypeOK, Tables
<1>1. S \in SUBSET (Clusters \ Used(fat)) /\ S \in SUBSET Clusters /\ S # {}
  <2>1. PICK i \in Nat : i = IF n = 0 THEN 1 ELSE n
    OBVIOUS
  <2>2. i > 0 /\ S = Candidates(i)
    BY <2>1
  <2> QED BY <2>2, CandidatesAre
<1>2. u = LinkedNew(fat, S) /\ AllocateClusterChain(n).cluster = Lowest(S)
  BY DEF AllocateClusterChain, LinkedNew
<1>3. u \in Tables /\ Used(u) = Used(fat) \cup S
  BY ONLY <1>0, <1>1, <1>2, LinkedNewFacts
<1>4. first = [first_cluster EXCEPT ![f] = Lowest(S)]
  BY <1>2
<1>5. PICK depth2, own2 :
        /\ Layout(u, first, depth2, own2)
        /\ \A x \in Used(fat) : depth2[x] = depth[x] /\ own2[x] = own[x]
        /\ \A x \in S : own2[x] = f
  <2>1. Layout(fat, first_cluster, depth, own)
    OBVIOUS
  <2>2. Continues(u, first, depth, own, S, 0, f)
    BY ONLY <1>0, <1>1, <1>2, <1>4, <2>1, AllocateLayout
  <2> QED BY <2>2 DEF Continues
<1>6. Lowest(S) \in S
  BY <1>1, LowestIs
<1> QED BY <1>1, <1>2, <1>3, <1>5, <1>6

LEMMA FunctionIsSequence ==
  ASSUME NEW S, NEW n \in Nat, NEW f \in [1 .. n -> S]
  PROVE  f \in Seq(S) /\ Len(f) = n
OBVIOUS

LEMMA SequenceParts ==
  ASSUME NEW S, NEW f \in Seq(S)
  PROVE  Len(f) \in Nat /\ f \in [1 .. Len(f) -> S]
OBVIOUS

LEMMA OverwriteIs ==
  ASSUME NEW S, NEW bytes \in Seq(S), NEW offset \in Nat, offset <= Len(bytes), NEW new \in Seq(S)
  PROVE  /\ Overwrite(bytes, offset, new) \in Seq(S)
         /\ Len(bytes) <= Len(Overwrite(bytes, offset, new))
         /\ offset + Len(new) <= Len(Overwrite(bytes, offset, new))
         /\ \A k \in 1 .. Len(Overwrite(bytes, offset, new)) :
              /\ Overwrite(bytes, offset, new)[k] =
                   IF k > offset /\ k <= offset + Len(new) THEN new[k - offset] ELSE bytes[k]
              /\ k <= Len(bytes) \/ (k > offset /\ k <= offset + Len(new))
<1>1. PICK n, l : n = Len(new) /\ l = Len(bytes)
  OBVIOUS
<1>2. n \in Nat /\ l \in Nat /\ bytes \in [1 .. l -> S] /\ new \in [1 .. n -> S]
  BY <1>1, SequenceParts
<1>3. PICK m : m = IF offset + n > l THEN offset + n ELSE l
  OBVIOUS
<1>4. m \in Nat /\ l <= m /\ offset + n <= m
  BY <1>2, <1>3
<1>5. PICK o : o = Overwrite(bytes, offset, new)
  OBVIOUS
<1>6. o = [k \in 1 .. m |-> IF k > offset /\ k <= offset + n THEN new[k - offset] ELSE bytes[k]]
  BY <1>1, <1>3, <1>5 DEF Overwrite
<1>7. \A k \in 1 .. m : k <= l \/ (k > offset /\ k <= offset + n)
  BY <1>1, <1>2, <1>3
<1>8. ASSUME NEW k \in 1 .. m
      PROVE  (IF k > offset /\ k <= offset + n THEN new[k - offset] ELSE bytes[k]) \in S
  <2>1. CASE k > offset /\ k <= offset + n
    <3>1. k - offset \in 1 .. n
      BY <1>2, <1>4, <2>1
    <3> QED BY <1>2, <2>1, <3>1
  <2>2. CASE ~(k > offset /\ k <= offset + n)
    <3>1. k \in 1 .. l
      BY <1>2, <1>4, <1>7, <2>2
    <3>2. bytes[k] \in S
      BY <1>2, <3>1
    <3> QED BY <2>2, <3>2
  <2> QED BY <2>1, <2>2
<1>9. o \in [1 .. m -> S]
  BY <1>6, <1>8
<1>10. o \in Seq(S) /\ Len(o) = m
  BY <1>4, <1>9, FunctionIsSequence
<1>11. \A k \in 1 .. m : o[k] = IF k > offset /\ k <= offset + n THEN new[k - offset] ELSE bytes[k]
  BY <1>6
<1> QED BY <1>1, <1>4, <1>5, <1>7, <1>10, <1>11

LEMMA InitIInv == Init => IInv
<1> SUFFICES ASSUME Init PROVE IInv
  OBVIOUS
<1>1. TypeOK
  <2>1. fat \in [Clusters -> {Free, kEndOfClusterchain} \cup Clusters]
    BY DEF Init
  <2>2. slots \in [Clusters -> [0 .. EntriesPerCluster - 1 -> Slots]]
    <3>1. PICK used \in 0 .. EntriesPerCluster : \E entries \in [0 .. used - 1 -> {"0xe5", "image"}] :
            slots = [c \in Clusters |-> [i \in 0 .. EntriesPerCluster - 1 |->
                       IF c # Root THEN "stale" ELSE IF i < used THEN entries[i] ELSE "0x00"]]
      BY DEF Init
    <3>2. PICK entries \in [0 .. used - 1 -> {"0xe5", "image"}] :
            slots = [c \in Clusters |-> [i \in 0 .. EntriesPerCluster - 1 |->
                       IF c # Root THEN "stale" ELSE IF i < used THEN entries[i] ELSE "0x00"]]
      BY <3>1
    <3>3. ASSUME NEW i \in 0 .. EntriesPerCluster - 1, i < used PROVE entries[i] \in Slots
      <4>1. i \in 0 .. used - 1
        BY <3>3, FatAssumption
      <4> QED BY <4>1 DEF Slots
    <3> QED BY <3>2, <3>3 DEF Slots
  <2>3. disk \in [Clusters -> [0 .. bytes_per_cluster - 1 -> Bytes]]
    BY DEF Init, Bytes
  <2>4. first_cluster \in [Files -> {0} \cup Clusters] /\ file_size \in [Files -> Nat]
    BY DEF Init
  <2>5. fds \in [Fds -> Descriptors \cup {NotOpen}]
    BY DEF Init
  <2>6. writing \in [Fds -> [active : BOOLEAN, len : Nat, total : Nat]]
    BY DEF Init, Idle
  <2>7. content \in [Files -> Seq(Bytes)]
    BY DEF Init
  <2> QED BY <2>1, <2>2, <2>3, <2>4, <2>5, <2>6, <2>7 DEF TypeOK
<1>2. Used(fat) = {Root} /\ fat[Root] = kEndOfClusterchain /\ OwnersOf(first_cluster) = {"root"}
  BY ClustersFinite DEF Init, Used, OwnersOf
<1>3. HasLayout
  <2> DEFINE depth == [c \in Clusters |-> 0]
             own == [c \in Clusters |-> "root"]
  <2>1. Cardinality(Used(fat)) = 1
    BY <1>2, FS_Singleton
  <2>2. HeadOf(first_cluster, "root") = Root
    BY DEF HeadOf
  <2>3. depth \in [Clusters -> Nat] /\ depth[Root] = 0 /\ own[Root] = "root"
    BY ClustersFinite
  <2> HIDE DEF depth, own
  <2>4. Layout(fat, first_cluster, depth, own)
    BY <1>2, <2>1, <2>2, <2>3 DEF Layout
  <2> QED BY <2>4 DEF HasLayout
<1>4. Writers
  BY DEF Init, Writers, Writer, NotOpen, Idle, InCall, IsOpen
<1>5. ASSUME NEW k \in DirEntries PROVE Slot(k) # "stale"
  <2>1. k \in Nat /\ Follow(Root, k \div EntriesPerCluster) \in Clusters
    <3>1. k \in Nat
      BY DEF DirEntries
    <3> QED BY <1>3, <3>1, EntryIs
  <2>2. PICK depth, own : Layout(fat, first_cluster, depth, own)
    BY <1>3 DEF HasLayout
  <2>3. PICK q \in Nat, r \in 0 .. EntriesPerCluster - 1 : q = k \div EntriesPerCluster /\ r = k % EntriesPerCluster
    BY <2>1, FatAssumption, DivMod
  <2>4. Follow(Root, q) = Root
    <3>1. Root \in Used(fat)
      BY <1>2
    <3>2. Follow(Root, q) # kEndOfClusterchain
      BY <2>1, <2>3, ClustersFinite
    <3> QED BY <1>2, <2>2, <3>1, <3>2, WalkStaysInChain
  <2>5. Slot(k) = slots[Root][r]
    BY <2>3, <2>4 DEF Slot
  <2>6. PICK used \in 0 .. EntriesPerCluster : \E entries \in [0 .. used - 1 -> {"0xe5", "image"}] :
            slots = [c \in Clusters |-> [i \in 0 .. EntriesPerCluster - 1 |->
                       IF c # Root THEN "stale" ELSE IF i < used THEN entries[i] ELSE "0x00"]]
    BY DEF Init
  <2>7. PICK entries \in [0 .. used - 1 -> {"0xe5", "image"}] :
            slots = [c \in Clusters |-> [i \in 0 .. EntriesPerCluster - 1 |->
                       IF c # Root THEN "stale" ELSE IF i < used THEN entries[i] ELSE "0x00"]]
    BY <2>6
  <2>8. slots[Root][r] = IF r < used THEN entries[r] ELSE "0x00"
    BY <2>7, ClustersFinite
  <2>9. r < used => entries[r] \in {"0xe5", "image"}
    <3>1. r < used => r \in 0 .. used - 1
      BY FatAssumption
    <3> QED BY <3>1
  <2> QED BY <2>5, <2>8, <2>9
<1>6. Listed
  BY <1>5 DEF Init, Listed, IsOpen
<1> QED BY <1>1, <1>3, <1>4, <1>6 DEF IInv


-----------------------------------------------------------------------------
(* What the steps keep. *)

LEMMA FollowType ==
  ASSUME TypeOK, NEW c \in Nat
  PROVE  \A k \in Nat : Follow(c, k) \in Nat
<1> DEFINE S == {k \in Nat : Follow(c, k) \in Nat}
<1>1. 0 \in S
  BY FollowSteps
<1>2. ASSUME NEW k \in Nat, k \in S PROVE k + 1 \in S
  <2>1. Follow(c, k + 1) = NextCluster(Follow(c, k))
    BY FollowSteps
  <2>2. \A x \in Clusters : fat[x] \in {Free, kEndOfClusterchain} \cup Clusters
    BY DEF TypeOK
  <2>3. Free \in Nat /\ kEndOfClusterchain \in Nat
    BY FatAssumption DEF Free, kEndOfClusterchain
  <2>4. \A x : NextCluster(x) \in Nat
    BY <2>2, <2>3, ClustersFinite DEF NextCluster
  <2> QED BY <2>1, <2>4
<1>3. Nat \subseteq S
  <2> HIDE DEF S
  <2> QED BY <1>1, <1>2, NatSetInduction
<1> QED BY <1>3

\* A step of a descriptor that leaves the directory alone.
LEMMA VolumeKept ==
  ASSUME IInv, TypeOK', NEW depth, NEW own, NEW depth2, NEW own2, Grown(depth, own, depth2, own2),
         slots' = slots, \A x \in Used(fat') \ Used(fat) : own2[x] # "root",
         \A d \in Fds : fds'[d].file = fds[d].file,
         \A f \in Files : first_cluster'[f] # 0 => FindFile(f)
  PROVE  HasLayout' /\ Listed'
<1>1. HasLayout'
  BY DirectoryGrown
<1>2. /\ \A f \in Files : FindFile(f) => FindFile(f)'
      /\ (\A k \in DirEntries : Slot(k) # "stale") => \A k \in DirEntries' : Slot(k)' # "stale"
  BY SameDirectory
<1>3. \A k \in DirEntries : Slot(k) # "stale"
  BY DEF IInv, Listed
<1>4. ASSUME NEW d \in Fds, IsOpen(d)' PROVE FindFile(fds[d].file)'
  <2>1. fds[d].file \in Files
    BY <1>4, OpenIsNext
  <2>2. IsOpen(d)
    BY <2>1, OpenIs DEF IInv
  <2> QED BY <1>2, <2>1, <2>2 DEF IInv, Listed
<1>5. Listed'
  BY <1>2, <1>3, <1>4 DEF Listed
<1> QED BY <1>1, <1>5

\* The descriptors that do not take part in a step.
LEMMA OthersWrite ==
  ASSUME IInv, TypeOK', NEW depth, NEW own, NEW depth2, NEW own2, Grown(depth, own, depth2, own2),
         \A f \in Files : Len(content[f]) <= Len(content'[f]),
         NEW d \in Fds, fds'[d] = fds[d], writing'[d] = writing[d]
  PROVE  Writer(d)'
<1>1. Writer(d) /\ TypeOK
  BY DEF IInv, Writers
<1>2. (IsOpen(d)' <=> IsOpen(d)) /\ (InCall(d)' <=> InCall(d)) /\ Position(d)' = Position(d)
  BY DEF IsOpen, InCall, Position
<1>3. IsOpen(d) => fds[d].file \in Files
  BY <1>1, OpenIs
<1>4. fds[d].wr_cluster_ # 0 => InFile(fds[d].wr_cluster_, fds[d].file)'
  BY <1>1, <1>3, InFileKept DEF Writer
<1>5. IsOpen(d) => Position(d) <= Len(content'[fds[d].file])
  <2> SUFFICES ASSUME IsOpen(d) PROVE Position(d) <= Len(content'[fds[d].file])
    OBVIOUS
  <2>1. PICK f \in Files : f = fds[d].file
    BY <1>3
  <2>2. PICK p, l, m : p = Position(d) /\ l = Len(content[f]) /\ m = Len(content'[f])
    OBVIOUS
  <2>3. p \in Nat /\ l \in Nat /\ m \in Nat
    <3>1. fds[d].wr_off_ \in Nat /\ writing[d].total \in Nat
      BY <1>1, OpenIs DEF TypeOK, Descriptors
    <3>2. content[f] \in Seq(Bytes) /\ content'[f] \in Seq(Bytes)
      BY <1>1 DEF TypeOK
    <3> QED BY <2>2, <3>1, <3>2 DEF Position
  <2>4. p <= l /\ l <= m
    BY <1>1, <2>1, <2>2 DEF Writer
  <2>5. p <= m
    BY <2>3, <2>4
  <2> QED BY <2>1, <2>2, <2>5
<1> QED BY <1>1, <1>2, <1>4, <1>5 DEF Writer

LEMMA SameContent ==
  ASSUME TypeOK, content' = content
  PROVE  \A f \in Files : Len(content[f]) <= Len(content'[f])
BY DEF TypeOK

-----------------------------------------------------------------------------
(* The steps. *)

LEMMA ReadStep ==
  ASSUME IInv, NEW d \in Fds, NEW len \in ReadSizes, Read(d, len)
  PROVE  IInv'
<1>0. /\ TypeOK /\ HasLayout /\ Writers /\ IsOpen(d) /\ fds' = [fds EXCEPT ![d] = AfterRead(fds[d], len)]
      /\ UNCHANGED <<fat, slots, disk, first_cluster, file_size, writing, content>>
  BY DEF IInv, Read
<1>1. PICK fd : fd = fds[d]
  OBVIOUS
<1>2. fd \in Descriptors /\ fd.file \in Files
  BY <1>0, <1>1, OpenIs
<1>3. PICK n : n = ReadLength(fd, len)
  OBVIOUS
<1>4. n \in Nat
  <2>1. file_size[fd.file] \in Nat /\ fd.rd_off_ \in Nat /\ len \in Nat
    BY <1>0, <1>2, FatAssumption DEF TypeOK, Descriptors
  <2> QED BY <1>3, <2>1 DEF ReadLength, Minimum
<1>5. PICK pos : pos = fd.rd_cluster_off_ + n
  OBVIOUS
<1>6. pos \in Nat /\ pos \div bytes_per_cluster \in Nat /\ pos % bytes_per_cluster \in 0 .. bytes_per_cluster - 1
  <2>1. fd.rd_cluster_off_ \in Nat
    BY <1>2, FatAssumption DEF Descriptors
  <2>2. pos \in Nat
    BY <1>4, <1>5, <2>1
  <2> QED BY <2>2, FatAssumption, DivMod
<1>7. PICK c : c = Follow(ReadStart(fd), pos \div bytes_per_cluster)
  OBVIOUS
<1>8. c \in Nat
  <2>1. ReadStart(fd) \in Nat
    BY <1>0, <1>2, ClustersFinite DEF ReadStart, TypeOK, Descriptors
  <2> QED BY <1>0, <1>6, <1>7, <2>1, FollowType
<1>9. fds'[d] = [fd EXCEPT !.rd_off_ = @ + n, !.rd_cluster_ = c, !.rd_cluster_off_ = pos % bytes_per_cluster]
  BY <1>0, <1>1, <1>3, <1>5, <1>7 DEF TypeOK, AfterRead
<1>10. /\ fds'[d] \in Descriptors
       /\ fds'[d].file = fd.file /\ fds'[d].wr_off_ = fd.wr_off_
       /\ fds'[d].wr_cluster_ = fd.wr_cluster_ /\ fds'[d].wr_cluster_off_ = fd.wr_cluster_off_
  <2>1. fd.rd_off_ + n \in Nat
    BY <1>2, <1>4 DEF Descriptors
  <2> QED BY <1>2, <1>6, <1>8, <1>9, <2>1 DEF Descriptors
<1>11. fds' \in [Fds -> Descriptors \cup {NotOpen}] /\ \A e \in Fds \ {d} : fds'[e] = fds[e]
  BY <1>0, <1>10 DEF TypeOK
<1>12. TypeOK'
  BY <1>0, <1>11 DEF TypeOK
<1>13. PICK depth, own : Grown(depth, own, depth, own) /\ Used(fat') = Used(fat)
  BY <1>0, TableSame
<1>14. \A e \in Fds : fds'[e].file = fds[e].file
  BY <1>1, <1>10, <1>11
<1>15. HasLayout' /\ Listed'
  <2>1. \A f \in Files : first_cluster'[f] # 0 => FindFile(f)
    BY <1>0 DEF IInv, Listed
  <2> QED BY <1>0, <1>12, <1>13, <1>14, <2>1, VolumeKept
<1>16. Writer(d)'
  <2>1. IsOpen(d)' /\ (InCall(d)' <=> InCall(d)) /\ Position(d)' = Position(d)
    BY <1>0, <1>1, <1>10, <1>12, OpenIsNext DEF InCall, Position
  <2>2. Writer(d)
    BY <1>0 DEF Writers
  <2>3. fd.wr_cluster_ # 0 => InFile(fd.wr_cluster_, fd.file)'
    BY <1>1, <1>2, <1>13, <2>2, InFileKept DEF Writer
  <2> QED BY <1>0, <1>1, <1>10, <2>1, <2>2, <2>3 DEF Writer
<1>17. ASSUME NEW e \in Fds PROVE Writer(e)'
  <2>1. CASE e # d
    BY <1>0, <1>11, <1>12, <1>13, <2>1, SameContent, OthersWrite
  <2> QED BY <1>16, <2>1
<1> QED BY <1>12, <1>15, <1>17 DEF IInv, Writers

LEMMA WriteEndStep ==
  ASSUME IInv, NEW d \in Fds, WriteEnd(d)
  PROVE  IInv'
<1>1. PICK fd, end : fd = fds[d] /\ end = fds[d].wr_off_ + writing[d].total
  OBVIOUS
<1>0. /\ TypeOK /\ HasLayout /\ Writers /\ InCall(d) /\ Writer(d)
      /\ fds' = [fds EXCEPT ![d].wr_off_ = end]
      /\ file_size' = [file_size EXCEPT ![fd.file] = end]
      /\ writing' = [writing EXCEPT ![d] = Idle]
      /\ UNCHANGED <<fat, slots, disk, first_cluster, content>>
  BY <1>1 DEF IInv, WriteEnd, Writers
<1>2. IsOpen(d) /\ fd \in Descriptors /\ fd.file \in Files
  BY <1>0, <1>1, OpenIs DEF Writer
<1>3. end \in Nat
  BY <1>0, <1>1, <1>2 DEF TypeOK, Descriptors
<1>4. fds'[d] = [fd EXCEPT !.wr_off_ = end]
  BY <1>0, <1>1 DEF TypeOK
<1>5. /\ fds'[d] \in Descriptors
      /\ fds'[d].file = fd.file /\ fds'[d].wr_off_ = end
      /\ fds'[d].wr_cluster_ = fd.wr_cluster_ /\ fds'[d].wr_cluster_off_ = fd.wr_cluster_off_
  BY <1>2, <1>3, <1>4 DEF Descriptors
<1>6. fds' \in [Fds -> Descriptors \cup {NotOpen}] /\ \A e \in Fds \ {d} : fds'[e] = fds[e]
  BY <1>0, <1>5 DEF TypeOK
<1>7. /\ writing' \in [Fds -> [active : BOOLEAN, len : Nat, total : Nat]]
      /\ writing'[d] = Idle /\ \A e \in Fds \ {d} : writing'[e] = writing[e]
  BY <1>0 DEF TypeOK, Idle
<1>8. file_size' \in [Files -> Nat]
  BY <1>0, <1>3 DEF TypeOK
<1>12. TypeOK'
  BY <1>0, <1>6, <1>7, <1>8 DEF TypeOK
<1>13. PICK depth, own : Grown(depth, own, depth, own) /\ Used(fat') = Used(fat)
  BY <1>0, TableSame
<1>14. \A e \in Fds : fds'[e].file = fds[e].file
  BY <1>1, <1>5, <1>6
<1>15. HasLayout' /\ Listed'
  <2>1. \A f \in Files : first_cluster'[f] # 0 => FindFile(f)
    BY <1>0 DEF IInv, Listed
  <2> QED BY <1>0, <1>12, <1>13, <1>14, <2>1, VolumeKept
<1>16. Writer(d)'
  <2>1. IsOpen(d)' /\ ~InCall(d)' /\ writing'[d].total = 0 /\ writing'[d].len = 0
    BY <1>5, <1>7, <1>12, OpenIsNext DEF InCall, Idle
  <2>2. Position(d)' = end /\ end = Position(d)
    BY <1>1, <1>3, <1>5, <2>1 DEF Position
  <2>3. fd.wr_cluster_ # 0 => InFile(fd.wr_cluster_, fd.file)'
    BY <1>0, <1>1, <1>2, <1>13, InFileKept DEF Writer
  <2>4. end <= Len(content[fd.file])
    BY <1>0, <1>1, <1>2, <2>2 DEF Writer
  <2> QED BY <1>0, <1>1, <1>5, <2>1, <2>2, <2>3, <2>4 DEF Writer
<1>17. ASSUME NEW e \in Fds PROVE Writer(e)'
  <2>1. CASE e # d
    BY <1>0, <1>6, <1>7, <1>12, <1>13, <2>1, SameContent, OthersWrite
  <2> QED BY <1>16, <2>1
<1> QED BY <1>12, <1>15, <1>17 DEF IInv, Writers

\* Write up to its loop, given the cluster c it starts in.
LEMMA WriteStarts ==
  ASSUME IInv, NEW d \in Fds, NEW len \in WriteSizes, IsOpen(d), ~InCall(d), NEW c \in Clusters,
         writing' = [writing EXCEPT ![d] = [active |-> TRUE, len |-> len, total |-> 0]],
         fds' = [fds EXCEPT ![d].wr_cluster_ = c],
         fat' \in Tables, first_cluster' \in [Files -> {0} \cup Clusters],
         UNCHANGED <<slots, disk, file_size, content>>,
         NEW depth, NEW own, NEW depth2, NEW own2, Grown(depth, own, depth2, own2),
         \A x \in Used(fat') \ Used(fat) : own2[x] # "root",
         NEW f, f = fds[d].file, InFile(c, f)',
         \A g \in Files : first_cluster'[g] # 0 => first_cluster[g] # 0 \/ g = f
  PROVE  IInv' /\ Grows
<1>0. TypeOK /\ HasLayout /\ Writers /\ Writer(d) /\ Listed
  BY DEF IInv, Writers
<1>1. PICK fd : fd = fds[d]
  OBVIOUS
<1>2. fd \in Descriptors /\ fd.file \in Files /\ len \in Nat
  BY <1>0, <1>1, OpenIs, FatAssumption
<1>3. fds'[d] = [fd EXCEPT !.wr_cluster_ = c]
  BY <1>0, <1>1 DEF TypeOK
<1>4. /\ fds'[d] \in Descriptors
      /\ fds'[d].file = fd.file /\ fds'[d].wr_off_ = fd.wr_off_ /\ fds'[d].wr_cluster_ = c
  BY <1>2, <1>3 DEF Descriptors
<1>5. fds' \in [Fds -> Descriptors \cup {NotOpen}] /\ \A e \in Fds \ {d} : fds'[e] = fds[e]
  BY <1>0, <1>4 DEF TypeOK
<1>6. /\ writing' \in [Fds -> [active : BOOLEAN, len : Nat, total : Nat]]
      /\ writing'[d] = [active |-> TRUE, len |-> len, total |-> 0] /\ \A e \in Fds \ {d} : writing'[e] = writing[e]
  BY <1>0, <1>2 DEF TypeOK
<1>7. TypeOK'
  BY <1>0, <1>5, <1>6 DEF TypeOK, Tables
<1>8. \A e \in Fds : fds'[e].file = fds[e].file
  BY <1>1, <1>4, <1>5
<1>9. \A g \in Files : first_cluster'[g] # 0 => FindFile(g)
  BY <1>0 DEF Listed
<1>10. HasLayout' /\ Listed'
  BY <1>7, <1>8, <1>9, VolumeKept
<1>11. Writer(d)'
  <2>1. IsOpen(d)' /\ InCall(d)' /\ writing'[d].total = 0 /\ writing'[d].len = len
    BY <1>4, <1>6, <1>7, OpenIsNext DEF InCall
  <2>2. c # 0
    BY ClustersFinite DEF Free
  <2>3. writing[d].total = 0
    BY <1>0 DEF Writer
  <2>4. Position(d)' = Position(d)
    BY <1>1, <1>4, <2>1, <2>3 DEF Position
  <2>5. Position(d) <= Len(content[fd.file])
    BY <1>0, <1>1 DEF Writer
  <2> QED BY <1>1, <1>2, <1>4, <2>1, <2>2, <2>4, <2>5 DEF Writer
<1>12. ASSUME NEW e \in Fds PROVE Writer(e)'
  <2>1. CASE e # d
    BY <1>0, <1>5, <1>6, <1>7, <2>1, SameContent, OthersWrite
  <2> QED BY <1>11, <2>1
<1> QED BY <1>7, <1>10, <1>12 DEF IInv, Writers, Grows

\* The first cluster of a file is in it.
LEMMA HeadInFile ==
  ASSUME NEW depth, NEW own, Layout(fat, first_cluster, depth, own), NEW f \in Files, first_cluster[f] # 0
  PROVE  /\ first_cluster[f] \in Used(fat) /\ own[first_cluster[f]] = f /\ depth[first_cluster[f]] = 0
         /\ InFile(first_cluster[f], f)
<1>1. f \in OwnersOf(first_cluster) /\ HeadOf(first_cluster, f) = first_cluster[f]
  BY FatAssumption DEF OwnersOf, HeadOf
<1>2. first_cluster[f] \in Used(fat) /\ own[first_cluster[f]] = f /\ depth[first_cluster[f]] = 0
  BY <1>1 DEF Layout
<1> QED BY <1>2, InFileIs

LEMMA WriteStep ==
  ASSUME IInv, NEW d \in Fds, NEW len \in WriteSizes, Write(d, len)
  PROVE  IInv' /\ Grows
<1>0. /\ TypeOK /\ HasLayout /\ Writers /\ Writer(d) /\ Listed /\ IsOpen(d) /\ ~InCall(d)
      /\ writing' = [writing EXCEPT ![d] = [active |-> TRUE, len |-> len, total |-> 0]]
      /\ UNCHANGED <<slots, disk, file_size, content>>
  BY DEF IInv, Writers, Write
<1>1. PICK f : f = fds[d].file
  OBVIOUS
<1>2. f \in Files /\ fds[d] \in Descriptors /\ len \in Nat /\ fat \in Tables /\ first_cluster \in [Files -> {0} \cup Clusters]
  BY <1>0, <1>1, OpenIs, FatAssumption DEF TypeOK, Tables
<1>3. CASE fds[d].wr_cluster_ # 0 /\ UNCHANGED <<fat, first_cluster, fds>>
  <2>1. PICK depth, own : Grown(depth, own, depth, own) /\ Used(fat') = Used(fat)
    BY <1>0, <1>3, TableSame
  <2>2. PICK c : c = fds[d].wr_cluster_
    OBVIOUS
  <2>3. c \in Clusters /\ InFile(c, f)
    BY <1>0, <1>1, <1>2, <1>3, <2>2 DEF Writer, Descriptors
  <2>4. InFile(c, f)'
    BY <1>2, <2>1, <2>3, InFileKept
  <2>5. fds' = [fds EXCEPT ![d].wr_cluster_ = c]
    BY <1>0, <1>2, <1>3, <2>2 DEF TypeOK, Descriptors
  <2>6. /\ \A x \in Used(fat') \ Used(fat) : own[x] # "root"
        /\ \A g \in Files : first_cluster'[g] # 0 => first_cluster[g] # 0 \/ g = f
        /\ fat' \in Tables /\ first_cluster' \in [Files -> {0} \cup Clusters]
    BY <1>2, <1>3, <2>1
  <2> QED BY <1>0, <1>1, <2>1, <2>3, <2>4, <2>5, <2>6, WriteStarts, ZenonT(60)
<1>4. CASE /\ fds[d].wr_cluster_ = 0 /\ first_cluster[f] # 0
           /\ fds' = [fds EXCEPT ![d].wr_cluster_ = first_cluster[f]]
           /\ UNCHANGED <<fat, first_cluster>>
  <2>1. PICK depth, own : Grown(depth, own, depth, own) /\ Used(fat') = Used(fat)
    BY <1>0, <1>4, TableSame
  <2>2. PICK c : c = first_cluster[f]
    OBVIOUS
  <2>3. c \in Clusters /\ InFile(c, f)
    BY <1>2, <1>4, <2>1, <2>2, HeadInFile DEF Grown
  <2>4. InFile(c, f)'
    BY <1>2, <2>1, <2>3, InFileKept
  <2>6. /\ \A x \in Used(fat') \ Used(fat) : own[x] # "root"
        /\ \A g \in Files : first_cluster'[g] # 0 => first_cluster[g] # 0 \/ g = f
        /\ fat' \in Tables /\ first_cluster' \in [Files -> {0} \cup Clusters]
    BY <1>2, <1>4, <2>1
  <2> QED BY <1>0, <1>1, <1>4, <2>1, <2>2, <2>3, <2>4, <2>6, WriteStarts
<1>5. CASE /\ fds[d].wr_cluster_ = 0 /\ first_cluster[f] = 0
           /\ HasRoom(IF len = 0 THEN 1 ELSE num_cluster(len))
           /\ fat' = AllocateClusterChain(num_cluster(len)).fat
           /\ first_cluster' = [first_cluster EXCEPT ![f] = AllocateClusterChain(num_cluster(len)).cluster]
           /\ fds' = [fds EXCEPT ![d].wr_cluster_ = AllocateClusterChain(num_cluster(len)).cluster]
  <2>1. PICK depth, own : Layout(fat, first_cluster, depth, own)
    BY <1>0 DEF HasLayout
  <2>2. PICK n \in Nat : n = num_cluster(len) /\ (len > 0 => n > 0)
    BY <1>2, NumClusterIs
  <2>3. PICK S, c : S = Candidates(IF n = 0 THEN 1 ELSE n) /\ c = AllocateClusterChain(n).cluster
    OBVIOUS
  <2>4. PICK m \in Nat \ {0} : HasRoom(m)
    <3>1. CASE len = 0
      BY <1>5, <3>1
    <3>2. CASE len # 0
      BY <1>2, <1>5, <2>2, <3>2
    <3> QED BY <3>1, <3>2
  <2>5. PICK u, first : fat' = u /\ first_cluster' = first
    OBVIOUS
  <2>6. AllocateClusterChain(n).fat = u /\ [first_cluster EXCEPT ![f] = AllocateClusterChain(n).cluster] = first
    BY <1>5, <2>2, <2>5
  <2>7. /\ u \in Tables /\ S \in SUBSET (Clusters \ Used(fat)) /\ Used(u) = Used(fat) \cup S
        /\ AllocateClusterChain(n).cluster \in S
        /\ \E depth2, own2 :
             /\ Layout(u, first, depth2, own2)
             /\ \A x \in Used(fat) : depth2[x] = depth[x] /\ own2[x] = own[x]
             /\ \A x \in S : own2[x] = f
    <3>1. TypeOK /\ first_cluster[f] = 0 /\ f \in Files
      BY <1>0, <1>2, <1>5
    <3> QED BY ONLY <2>1, <2>2, <2>3, <2>4, <2>6, <3>1, Allocated
  <2>8. PICK depth2, own2 :
          /\ Layout(u, first, depth2, own2)
          /\ \A x \in Used(fat) : depth2[x] = depth[x] /\ own2[x] = own[x]
          /\ \A x \in S : own2[x] = f
    BY <2>7
  <2>9. c \in S /\ c \in Clusters
    BY <2>3, <2>7
  <2>10. Grown(depth, own, depth2, own2) /\ Used(fat') = Used(fat) \cup S /\ fat' \in Tables
    BY <2>1, <2>5, <2>7, <2>8 DEF Grown
  <2>11. InFile(c, f)'
    BY <1>2, <2>8, <2>9, <2>10, InFileIsNext DEF Grown
  <2>12. f # "root"
    BY <1>2, FatAssumption
  <2>13. \A x \in Used(fat') \ Used(fat) : own2[x] # "root"
    BY <2>8, <2>10, <2>12
  <2>14. first_cluster' = [first_cluster EXCEPT ![f] = c]
    BY <1>5, <2>2, <2>3
  <2>15. /\ first_cluster' \in [Files -> {0} \cup Clusters]
         /\ \A g \in Files : first_cluster'[g] # 0 => first_cluster[g] # 0 \/ g = f
    BY <1>1, <1>2, <2>9, <2>14
  <2>16. fds' = [fds EXCEPT ![d].wr_cluster_ = c]
    BY <1>5, <2>2, <2>3
  <2> HIDE <1>5
  <2> QED BY <1>0, <1>1, <2>9, <2>10, <2>11, <2>13, <2>15, <2>16, WriteStarts, ZenonT(60)
<1> QED BY <1>1, <1>3, <1>4, <1>5 DEF Write

\* One turn of the loop, given the cluster c it fills from off on: n bytes at
\* position at.
Turn(d, c, off, n, at, f, new) ==
  /\ n \in Nat /\ n > 0 /\ off + n <= bytes_per_cluster /\ at \in Nat /\ at = Position(d) /\ f = fds[d].file /\ f \in Files
  /\ writing[d].total \in Nat /\ writing[d].total + n <= writing[d].len
  /\ new = [k \in 1 .. n |-> <<d, at + k>>] /\ new \in Seq(Bytes) /\ Len(new) = n
  /\ disk' = [disk EXCEPT ![c] = [i \in 0 .. bytes_per_cluster - 1 |->
                IF i >= off /\ i < off + n THEN new[i - off + 1] ELSE disk[c][i]]]
  /\ disk' \in [Clusters -> [0 .. bytes_per_cluster - 1 -> Bytes]]
  /\ fds' \in [Fds -> Descriptors \cup {NotOpen}] /\ \A e \in Fds \ {d} : fds'[e] = fds[e]
  /\ fds'[d] \in Descriptors /\ fds'[d].file = f /\ fds'[d].wr_off_ = fds[d].wr_off_
  /\ fds'[d].wr_cluster_ = c /\ fds'[d].wr_cluster_off_ = off + n
  /\ writing' \in [Fds -> [active : BOOLEAN, len : Nat, total : Nat]]
  /\ \A e \in Fds \ {d} : writing'[e] = writing[e]
  /\ writing'[d].active = writing[d].active /\ writing'[d].len = writing[d].len
  /\ writing'[d].total = writing[d].total + n
  /\ content' \in [Files -> Seq(Bytes)] /\ content'[f] = Overwrite(content[f], at, new)
  /\ \A g \in Files \ {f} : content'[g] = content[g]

LEMMA FillIs ==
  ASSUME IInv, NEW d \in Fds, InCall(d), writing[d].len - writing[d].total > 0,
         NEW c \in Clusters, NEW off \in Nat, off < bytes_per_cluster, Fill(d, c, off)
  PROVE  \E n, at, f, new : Turn(d, c, off, n, at, f, new)
<1>0. TypeOK /\ Writer(d) /\ bytes_per_cluster \in Nat
  BY FatAssumption DEF IInv, Writers
<1>1. PICK fd, w, f, at : fd = fds[d] /\ w = writing[d] /\ f = fds[d].file /\ at = fds[d].wr_off_ + writing[d].total
  OBVIOUS
<1>2. fd \in Descriptors /\ f \in Files /\ w \in [active : BOOLEAN, len : Nat, total : Nat] /\ fd.wr_off_ \in Nat /\ f = fd.file
  BY <1>0, <1>1, OpenIs DEF Writer, TypeOK, Descriptors
<1>3. w.len \in Nat /\ w.total \in Nat /\ at \in Nat /\ w.len - w.total > 0
  BY <1>1, <1>2
<1>4. PICK n : n = Minimum(w.len - w.total, bytes_per_cluster - off)
  OBVIOUS
<1>5. n \in Nat /\ n > 0 /\ off + n <= bytes_per_cluster /\ w.total + n <= w.len
  BY <1>0, <1>3, <1>4 DEF Minimum
<1>6. PICK new : new = [k \in 1 .. n |-> <<d, at + k>>]
  OBVIOUS
<1>7. new \in [1 .. n -> Bytes]
  BY <1>3, <1>5, <1>6 DEF Bytes
<1>8. new \in Seq(Bytes) /\ Len(new) = n
  BY <1>5, <1>7, FunctionIsSequence
<1>9. /\ disk' = [disk EXCEPT ![c] = [i \in 0 .. bytes_per_cluster - 1 |->
                     IF i >= off /\ i < off + n THEN new[i - off + 1] ELSE disk[c][i]]]
      /\ fds' = [fds EXCEPT ![d].wr_cluster_ = c, ![d].wr_cluster_off_ = off + n]
      /\ writing' = [writing EXCEPT ![d].total = @ + n]
      /\ content' = [content EXCEPT ![f] = Overwrite(@, at, new)]
  BY <1>1, <1>4, <1>6 DEF Fill
<1>10. disk' \in [Clusters -> [0 .. bytes_per_cluster - 1 -> Bytes]]
  <2>1. ASSUME NEW i \in 0 .. bytes_per_cluster - 1
        PROVE  (IF i >= off /\ i < off + n THEN new[i - off + 1] ELSE disk[c][i]) \in Bytes
    <3>1. CASE i >= off /\ i < off + n
      <4>1. i - off + 1 \in 1 .. n
        BY <1>5, <3>1
      <4> QED BY <1>7, <3>1, <4>1
    <3>2. CASE ~(i >= off /\ i < off + n)
      <4>1. disk[c][i] \in Bytes
        BY <1>0 DEF TypeOK
      <4> QED BY <3>2, <4>1
    <3> QED BY <3>1, <3>2
  <2>2. disk \in [Clusters -> [0 .. bytes_per_cluster - 1 -> Bytes]]
    BY <1>0 DEF TypeOK
  <2> QED BY <1>9, <2>1, <2>2
<1>11. fds'[d] = [fd EXCEPT !.wr_cluster_ = c, !.wr_cluster_off_ = off + n]
  BY <1>0, <1>1, <1>9 DEF TypeOK
<1>12. /\ fds'[d] \in Descriptors /\ fds'[d].file = f /\ fds'[d].wr_off_ = fd.wr_off_
       /\ fds'[d].wr_cluster_ = c /\ fds'[d].wr_cluster_off_ = off + n
  <2>1. off + n \in 0 .. bytes_per_cluster
    BY <1>0, <1>5
  <2> QED BY <1>2, <1>11, <2>1 DEF Descriptors
<1>13. fds' \in [Fds -> Descriptors \cup {NotOpen}] /\ \A e \in Fds \ {d} : fds'[e] = fds[e]
  BY <1>0, <1>9, <1>12 DEF TypeOK
<1>14. writing'[d] = [w EXCEPT !.total = w.total + n]
  BY <1>0, <1>1, <1>9 DEF TypeOK
<1>15. /\ writing'[d].active = w.active /\ writing'[d].len = w.len /\ writing'[d].total = w.total + n
       /\ writing'[d] \in [active : BOOLEAN, len : Nat, total : Nat]
  <2>1. w.total + n \in Nat
    BY <1>3, <1>5
  <2> QED BY <1>2, <1>14, <2>1
<1>16. /\ writing' \in [Fds -> [active : BOOLEAN, len : Nat, total : Nat]]
       /\ \A e \in Fds \ {d} : writing'[e] = writing[e]
  BY <1>0, <1>9, <1>15 DEF TypeOK
<1>17. PICK old : old = content[f]
  OBVIOUS
<1>18. old \in Seq(Bytes) /\ at <= Len(old)
  BY <1>0, <1>1, <1>2, <1>17 DEF Writer, Position, TypeOK
<1>19. Overwrite(old, at, new) \in Seq(Bytes)
  BY <1>3, <1>8, <1>18, OverwriteIs
<1>20. /\ content' \in [Files -> Seq(Bytes)] /\ content'[f] = Overwrite(old, at, new)
       /\ \A g \in Files \ {f} : content'[g] = content[g]
  <2>1. content' = [content EXCEPT ![f] = Overwrite(old, at, new)] /\ content \in [Files -> Seq(Bytes)]
    BY <1>0, <1>9, <1>17 DEF TypeOK
  <2> QED BY ONLY <1>2, <1>19, <2>1
<1> QED
  <2>1. at = Position(d)
    BY <1>1 DEF Position
  <2>2. /\ n \in Nat /\ n > 0 /\ off + n <= bytes_per_cluster /\ at \in Nat /\ f = fds[d].file /\ f \in Files
        /\ writing[d].total \in Nat /\ writing[d].total + n <= writing[d].len
    BY <1>1, <1>2, <1>3, <1>5
  <2>3. /\ fds'[d].wr_off_ = fds[d].wr_off_ /\ content'[f] = Overwrite(content[f], at, new)
        /\ writing'[d].active = writing[d].active /\ writing'[d].len = writing[d].len
        /\ writing'[d].total = writing[d].total + n
    BY <1>1, <1>12, <1>15, <1>17, <1>20
  <2>4. disk' = [disk EXCEPT ![c] = [i \in 0 .. bytes_per_cluster - 1 |->
                     IF i >= off /\ i < off + n THEN new[i - off + 1] ELSE disk[c][i]]]
    BY <1>9
  <2>5. Turn(d, c, off, n, at, f, new)
    BY ONLY <1>6, <1>8, <1>10, <1>12, <1>13, <1>16, <1>20, <2>1, <2>2, <2>3, <2>4 DEF Turn
  <2> QED BY <2>5

LEMMA Filled ==
  ASSUME IInv, NEW d \in Fds, InCall(d), NEW c, NEW off, NEW n, NEW at, NEW f, NEW new,
         Turn(d, c, off, n, at, f, new), c # 0,
         UNCHANGED <<slots, first_cluster, file_size>>, fat' \in Tables,
         NEW depth, NEW own, NEW depth2, NEW own2, Grown(depth, own, depth2, own2),
         \A x \in Used(fat') \ Used(fat) : own2[x] # "root",
         InFile(c, f)'
  PROVE  IInv'
<1>0. TypeOK /\ Writer(d) /\ Listed
  BY DEF IInv, Writers
<1>1. TypeOK'
  BY <1>0 DEF TypeOK, Turn, Tables
<1>2. \A e \in Fds : fds'[e].file = fds[e].file
  BY DEF Turn
<1>3. HasLayout' /\ Listed'
  <2>1. \A g \in Files : first_cluster'[g] # 0 => FindFile(g)
    BY <1>0 DEF Listed
  <2> QED BY <1>1, <1>2, <2>1, VolumeKept
<1>4. PICK old : old = content[f]
  OBVIOUS
<1>5. /\ f \in Files /\ old \in Seq(Bytes) /\ at \in Nat /\ at <= Len(old) /\ new \in Seq(Bytes) /\ n = Len(new)
      /\ content'[f] = Overwrite(old, at, new)
  BY <1>0, <1>4 DEF Turn, TypeOK, Writer
<1>6. Len(old) <= Len(content'[f]) /\ at + n <= Len(content'[f])
  <2>1. Len(old) <= Len(Overwrite(old, at, new)) /\ at + Len(new) <= Len(Overwrite(old, at, new))
    BY <1>5, OverwriteIs
  <2> QED BY <1>5, <2>1
<1>7. \A g \in Files : Len(content[g]) <= Len(content'[g])
  <2>1. \A g \in Files \ {f} : content'[g] = content[g] /\ Len(content[g]) \in Nat
    BY <1>0 DEF Turn, TypeOK
  <2> QED BY <1>4, <1>6, <2>1
<1>8. Writer(d)'
  <2>1. IsOpen(d)' /\ InCall(d)'
    BY <1>1, OpenIsNext DEF Turn, InCall
  <2>2. Position(d)' = at + n
    <3>1. at = fds[d].wr_off_ + writing[d].total /\ fds[d].wr_off_ \in Nat /\ writing[d].total \in Nat /\ n \in Nat
      BY <1>0, OpenIs DEF Turn, Position, Descriptors, TypeOK
    <3>2. fds'[d].wr_off_ = fds[d].wr_off_ /\ writing'[d].total = writing[d].total + n
      BY DEF Turn
    <3> QED BY <3>1, <3>2 DEF Position
  <2>3. /\ fds'[d].wr_cluster_ = c /\ fds'[d].file = f
        /\ writing'[d].total <= writing'[d].len
    BY DEF Turn
  <2> QED BY <1>6, <2>1, <2>2, <2>3 DEF Writer
<1>9. ASSUME NEW e \in Fds PROVE Writer(e)'
  <2>1. CASE e # d
    <3>1. fds'[e] = fds[e] /\ writing'[e] = writing[e]
      BY <2>1 DEF Turn
    <3> QED BY <1>1, <1>7, <3>1, OthersWrite
  <2> QED BY <1>8, <2>1
<1> QED BY <1>1, <1>3, <1>9 DEF IInv, Writers

\* Where a turn writes: on in its cluster, or at the start of the next one.
\* That is the next one in the chain, but behind the end it is the last of the
\* clusters ExtendCluster adds.
Place(d, c, off, f, depth, own, depth2, own2) ==
  /\ Grown(depth, own, depth2, own2) /\ fat' \in Tables /\ c \in Used(fat') /\ own2[c] = f
  /\ \A x \in Used(fat') \ Used(fat) : own2[x] = f
  /\ off \in Nat /\ off < bytes_per_cluster
  /\ \/ c = fds[d].wr_cluster_ /\ off = fds[d].wr_cluster_off_
     \/ /\ fds[d].wr_cluster_off_ = bytes_per_cluster /\ off = 0
        /\ writing[d].len <= bytes_per_cluster => depth2[c] = depth[fds[d].wr_cluster_] + 1

LEMMA LoopPlaces ==
  ASSUME IInv, NEW d \in Fds, WriteLoop(d)
  PROVE  \E c, off, n, at, f, new, depth, own, depth2, own2 :
           Turn(d, c, off, n, at, f, new) /\ Place(d, c, off, f, depth, own, depth2, own2)
<1>0. /\ TypeOK /\ HasLayout /\ Writer(d) /\ InCall(d) /\ IsOpen(d)
      /\ UNCHANGED <<slots, first_cluster, file_size>>
      /\ bytes_per_cluster \in Nat \ {0}
  BY FatAssumption DEF IInv, Writers, Writer, WriteLoop
<1>1. PICK left, c0, f, o : left = writing[d].len - writing[d].total /\ c0 = fds[d].wr_cluster_ /\ f = fds[d].file /\ o = fds[d].wr_cluster_off_
  OBVIOUS
<1>2. /\ f \in Files /\ f # "root" /\ left \in Nat /\ left > 0 /\ left <= writing[d].len /\ o \in 0 .. bytes_per_cluster
      /\ c0 \in Clusters /\ c0 \in Used(fat) /\ InFile(c0, f)
  <2>1. fds[d] \in Descriptors /\ f \in Files /\ c0 # 0 /\ InFile(c0, f)
    BY <1>0, <1>1, OpenIs DEF Writer
  <2>2. writing[d].len \in Nat /\ writing[d].total \in Nat /\ left > 0
    BY <1>0, <1>1 DEF TypeOK, WriteLoop
  <2>3. f # "root"
    BY <2>1, FatAssumption
  <2>4. c0 \in Clusters /\ o \in 0 .. bytes_per_cluster
    BY <1>1, <2>1 DEF Descriptors
  <2>5. c0 \in Used(fat)
    BY <2>1 DEF InFile
  <2> QED BY <1>1, <2>1, <2>2, <2>3, <2>4, <2>5
<1>3. fat \in Tables
  BY <1>0 DEF TypeOK, Tables
<1>4. CASE o < bytes_per_cluster /\ Fill(d, c0, o) /\ UNCHANGED fat
  <2>1. PICK depth, own : Grown(depth, own, depth, own) /\ Used(fat') = Used(fat)
    BY <1>0, <1>4, TableSame
  <2>2. PICK n, at, g, new : Turn(d, c0, o, n, at, g, new)
    BY <1>0, <1>1, <1>2, <1>4, FillIs
  <2>3. g = f
    BY <1>1, <2>2 DEF Turn
  <2>4. own[c0] = f
    BY <1>2, <2>1, InFileIs DEF Grown
  <2>5. Place(d, c0, o, f, depth, own, depth, own)
    BY <1>1, <1>2, <1>3, <1>4, <2>1, <2>4 DEF Place
  <2> QED BY <2>2, <2>3, <2>5
<1>5. CASE o = bytes_per_cluster /\ NextCluster(c0) # kEndOfClusterchain /\ Fill(d, NextCluster(c0), 0) /\ UNCHANGED fat
  <2>1. PICK depth, own : Grown(depth, own, depth, own) /\ Used(fat') = Used(fat)
    BY <1>0, <1>5, TableSame
  <2>2. PICK c : c = NextCluster(c0)
    OBVIOUS
  <2>3. c = fat[c0] /\ c # kEndOfClusterchain
    BY <1>2, <1>5, <2>2 DEF NextCluster
  <2>4. own[c0] = f
    BY <1>2, <2>1, InFileIs DEF Grown
  <2>5. c \in Used(fat) /\ own[c] = f /\ depth[c] = depth[c0] + 1
    BY <1>2, <2>1, <2>3, <2>4 DEF Grown, Layout
  <2>6. c \in Clusters
    BY <2>5, UsedFacts
  <2>7. PICK n, at, g, new : Turn(d, c, 0, n, at, g, new)
    BY <1>0, <1>1, <1>2, <1>5, <2>2, <2>6, FillIs
  <2>8. g = f
    BY <1>1, <2>7 DEF Turn
  <2>9. Place(d, c, 0, f, depth, own, depth, own)
    BY <1>0, <1>1, <1>3, <1>5, <2>1, <2>5 DEF Place
  <2> QED BY <2>7, <2>8, <2>9
<1>6. CASE /\ o = bytes_per_cluster /\ NextCluster(c0) = kEndOfClusterchain
           /\ HasRoom(num_cluster(left)) /\ fat' = ExtendCluster(c0, num_cluster(left)).fat
           /\ Fill(d, ExtendCluster(c0, num_cluster(left)).cluster, 0)
  <2>1. PICK depth, own : Layout(fat, first_cluster, depth, own)
    BY <1>0 DEF HasLayout
  <2>2. PICK n \in Nat : n = num_cluster(left) /\ n > 0 /\ (left <= bytes_per_cluster => n <= 1)
    BY <1>2, NumClusterIs
  <2>3. PICK S, c, u : S = Candidates(n) /\ c = ExtendCluster(c0, n).cluster /\ fat' = u
    OBVIOUS
  <2>4. ExtendCluster(c0, n).fat = u /\ Fill(d, c, 0) /\ HasRoom(n) /\ fat[c0] = kEndOfClusterchain
    BY <1>2, <1>6, <2>2, <2>3 DEF NextCluster
  <2>5. /\ u \in Tables /\ S \in SUBSET (Clusters \ Used(fat)) /\ Used(u) = Used(fat) \cup S
        /\ ExtendCluster(c0, n).cluster \in Used(u)
        /\ S # {} => ExtendCluster(c0, n).cluster = Highest(S) /\ Highest(S) \in S
        /\ \E depth2, own2 :
             /\ Layout(u, first_cluster, depth2, own2)
             /\ \A x \in Used(fat) : depth2[x] = depth[x] /\ own2[x] = own[x]
             /\ \A x \in S : /\ own2[x] = own[c0]
                             /\ fat[c0] = kEndOfClusterchain => depth2[x] = depth[c0] + 1 + Rank(S, x)
    BY ONLY <1>0, <1>2, <2>1, <2>2, <2>3, <2>4, Extended
  <2>6. PICK depth2, own2 :
          /\ Layout(u, first_cluster, depth2, own2)
          /\ \A x \in Used(fat) : depth2[x] = depth[x] /\ own2[x] = own[x]
          /\ \A x \in S : own2[x] = own[c0] /\ depth2[x] = depth[c0] + 1 + Rank(S, x)
    BY <2>4, <2>5
  <2>7. Grown(depth, own, depth2, own2) /\ Used(fat') = Used(fat) \cup S /\ fat' \in Tables
    BY <1>0, <2>1, <2>3, <2>5, <2>6 DEF Grown
  <2>8. S # {} /\ c \in S /\ c \in Clusters
    BY <2>2, <2>3, <2>4, <2>5, CandidatesAre
  <2>9. own[c0] = f
    BY <1>2, <2>1, InFileIs
  <2>10. writing[d].len <= bytes_per_cluster => depth2[c] = depth[c0] + 1
    <3> SUFFICES ASSUME writing[d].len <= bytes_per_cluster PROVE depth2[c] = depth[c0] + 1
      OBVIOUS
    <3>1. n = 1
      <4>1. writing[d].len \in Nat
        BY <1>0 DEF TypeOK
      <4> QED BY <1>0, <1>2, <2>2, <4>1
    <3>2. \A x, y \in S : x = y
      BY <2>3, <3>1, CandidatesAre
    <3>3. {y \in S : y < c} = {}
      <4>1. c \in Int /\ ~(c < c)
        BY <2>8, ClustersFinite
      <4>2. \A y \in S : y = c
        BY <2>8, <3>2
      <4> QED BY <4>1, <4>2
    <3>4. Rank(S, c) = 0
      BY <3>3, FS_EmptySet DEF Rank
    <3>5. depth[c0] \in Nat
      BY <1>2, <2>1 DEF Layout
    <3> QED BY <2>6, <2>8, <3>4, <3>5
  <2>11. PICK m, at, g, new : Turn(d, c, 0, m, at, g, new)
    <3>1. 0 \in Nat /\ 0 < bytes_per_cluster /\ writing[d].len - writing[d].total > 0
      BY <1>0, <1>1, <1>2
    <3> QED BY <1>0, <2>4, <2>8, <3>1, FillIs
  <2>12. g = f
    BY <1>1, <2>11 DEF Turn
  <2>13. Place(d, c, 0, f, depth, own, depth2, own2)
    BY <1>0, <1>1, <1>6, <2>6, <2>7, <2>8, <2>9, <2>10 DEF Place
  <2> QED BY <2>11, <2>12, <2>13
<1>7. o = bytes_per_cluster \/ o < bytes_per_cluster
  BY <1>0, <1>2
<1> QED BY <1>1, <1>4, <1>5, <1>6, <1>7 DEF WriteLoop

LEMMA WriteLoopStep ==
  ASSUME IInv, NEW d \in Fds, WriteLoop(d)
  PROVE  IInv'
<1>1. PICK c, off, n, at, f, new, depth, own, depth2, own2 :
        Turn(d, c, off, n, at, f, new) /\ Place(d, c, off, f, depth, own, depth2, own2)
  BY LoopPlaces
<1>2. UNCHANGED <<slots, first_cluster, file_size>> /\ InCall(d)
  BY DEF WriteLoop
<1>3. /\ f \in Files /\ f # "root" /\ c \in Used(fat') /\ fat' \in Tables /\ Grown(depth, own, depth2, own2)
      /\ own2[c] = f /\ \A x \in Used(fat') \ Used(fat) : own2[x] = f
  BY <1>1, FatAssumption DEF Turn, Place
<1>4. InFile(c, f)'
  BY <1>3, InFileIsNext DEF Grown
<1>5. c # 0
  BY <1>3, UsedFacts, ClustersFinite DEF Free
<1> QED BY <1>1, <1>2, <1>3, <1>4, <1>5, Filled

\* OpenFile of a file that is in the directory, and of one it creates.
LEMMA OpenStep ==
  ASSUME IInv, NEW d \in Fds, NEW f \in Files, OpenFile(d, f)
  PROVE  IInv' /\ Grows
<1>0. /\ TypeOK /\ HasLayout /\ Writers /\ Listed /\ ~IsOpen(d)
      /\ fds' = [fds EXCEPT ![d] = [NotOpen EXCEPT !.file = f]]
      /\ UNCHANGED <<disk, writing, content>>
      /\ f # "root" /\ bytes_per_cluster \in Nat \ {0} /\ EntriesPerCluster \in Nat \ {0}
  BY FatAssumption DEF IInv, OpenFile
<1>1. PICK depth, own : Layout(fat, first_cluster, depth, own)
  BY <1>0 DEF HasLayout
<1>2. /\ fds'[d] \in Descriptors /\ fds'[d].file = f /\ fds'[d].wr_cluster_ = 0 /\ fds'[d].wr_off_ = 0
      /\ fds' \in [Fds -> Descriptors \cup {NotOpen}] /\ \A e \in Fds \ {d} : fds'[e] = fds[e]
  <2>1. PICK new : new = [NotOpen EXCEPT !.file = f]
    OBVIOUS
  <2>2. new \in Descriptors /\ new.file = f /\ new.wr_cluster_ = 0 /\ new.wr_off_ = 0
    BY <1>0, <2>1 DEF NotOpen, Descriptors
  <2>3. fds' = [fds EXCEPT ![d] = new] /\ fds \in [Fds -> Descriptors \cup {NotOpen}]
    BY <1>0, <2>1 DEF TypeOK
  <2> QED BY <2>2, <2>3
<1>3. /\ \A k \in DirEntries : Slot(k) # "stale"
      /\ \A g \in Files : first_cluster[g] # 0 => FindFile(g)
  BY <1>0 DEF Listed
\* What is left to show of the directory and the table.
<1>4. ASSUME NEW depth2, NEW own2, Grown(depth, own, depth2, own2), TypeOK',
             FindFile(f)', \A g \in Files : FindFile(g) => FindFile(g)',
             \A k \in DirEntries' : Slot(k)' # "stale",
             first_cluster' = first_cluster
      PROVE  IInv' /\ Grows
  <2>1. HasLayout'
    BY <1>4, DirectoryGrown
  <2>2. ASSUME NEW e \in Fds, IsOpen(e)', NEW g, g = fds'[e].file PROVE FindFile(g)'
    <3>1. CASE e = d
      BY <1>2, <1>4, <2>2, <3>1
    <3>2. CASE e # d
      <4>1. g = fds[e].file /\ g \in Files
        BY <1>2, <1>4, <2>2, <3>2, OpenIsNext
      <4>2. IsOpen(e)
        BY <1>0, <4>1, OpenIs
      <4>3. FindFile(g)
        BY <1>0, <4>1, <4>2 DEF Listed
      <4> QED BY <1>4, <4>1, <4>3
    <3> QED BY <3>1, <3>2
  <2>3. Listed'
    BY <1>3, <1>4, <2>2 DEF Listed
  <2>4. Writer(d)'
    <3>1. IsOpen(d)' /\ ~InCall(d) /\ writing[d].total = 0
      <4>1. ~InCall(d) /\ writing[d].total = 0
        BY <1>0 DEF Writers, Writer
      <4> QED BY <1>2, <1>4, <4>1, OpenIsNext
    <3>2. content[f] \in Seq(Bytes) /\ writing[d].len \in Nat
      BY <1>0 DEF TypeOK
    <3>3. Position(d)' = 0 /\ 0 <= Len(content[f]) /\ writing[d].total <= writing[d].len
      BY <1>0, <1>2, <3>1, <3>2 DEF Position
    <3> QED BY <1>0, <1>2, <3>1, <3>3 DEF Writer, InCall
  <2>5. ASSUME NEW e \in Fds PROVE Writer(e)'
    <3>1. CASE e # d
      BY <1>0, <1>2, <1>4, <3>1, SameContent, OthersWrite
    <3> QED BY <2>4, <3>1
  <2> QED BY <1>4, <2>1, <2>3, <2>5 DEF IInv, Writers, Grows
<1>5. CASE FindFile(f) /\ UNCHANGED <<fat, slots, first_cluster, file_size>>
  <2>1. TypeOK'
    BY <1>0, <1>2, <1>5 DEF TypeOK
  <2>2. Grown(depth, own, depth, own) /\ Used(fat') = Used(fat)
    BY <1>1, <1>5 DEF Grown
  <2>3. /\ \A g \in Files : FindFile(g) => FindFile(g)'
        /\ \A k \in DirEntries' : Slot(k)' # "stale"
    BY <1>3, <1>5, <2>2, SameDirectory
  <2> QED BY <1>4, <1>5, <2>1, <2>2, <2>3
<1>6. CASE ~FindFile(f) /\ CreateFile(f)
  <2>0. first_cluster' = first_cluster /\ file_size' \in [Files -> Nat]
    <3>1. first_cluster' = [first_cluster EXCEPT ![f] = 0] /\ file_size' = [file_size EXCEPT ![f] = 0]
      BY <1>6 DEF CreateFile
    <3>2. first_cluster[f] = 0
      BY <1>3, <1>6
    <3> QED BY <1>0, <3>1, <3>2 DEF TypeOK
  <2>1. CASE Usable # {}
    <3>1. PICK k : k = Lowest(Usable)
      OBVIOUS
    <3>2. /\ slots' = [slots EXCEPT ![Follow(Root, k \div EntriesPerCluster)][k % EntriesPerCluster] = f]
          /\ UNCHANGED fat
      BY <1>6, <2>1, <3>1 DEF CreateFile
    <3>3. Grown(depth, own, depth, own) /\ Used(fat') = Used(fat)
      BY <1>1, <2>0, <3>2 DEF Grown
    <3>4. /\ FindFile(f)' /\ \A g \in Files : FindFile(g) => FindFile(g)'
          /\ \A j \in DirEntries' : Slot(j)' # "stale"
      BY <1>0, <1>3, <1>6, <2>1, <3>1, <3>2, <3>3, EntryTaken
    <3>5. slots' \in [Clusters -> [0 .. EntriesPerCluster - 1 -> Slots]]
      <4>1. slots \in [Clusters -> [0 .. EntriesPerCluster - 1 -> Slots]] /\ f \in Slots
        BY <1>0 DEF TypeOK, Slots
      <4> QED BY <3>2, <4>1
    <3>6. TypeOK'
      BY <1>0, <1>2, <2>0, <3>2, <3>5 DEF TypeOK
    <3> QED BY <1>4, <2>0, <3>3, <3>4, <3>6
  <2>2. CASE Usable = {}
    <3>1. PICK S, c, u : S = Candidates(1) /\ c = ExtendCluster(Root, 1).cluster /\ fat' = u
      OBVIOUS
    <3>2. /\ ExtendCluster(Root, 1).fat = u /\ HasRoom(1)
          /\ slots' = [slots EXCEPT ![c] = [i \in 0 .. EntriesPerCluster - 1 |-> IF i = 0 THEN f ELSE "0x00"]]
      BY <1>6, <2>2, <3>1 DEF CreateFile
    <3>3. Root \in Used(fat) /\ own[Root] = "root"
      BY <1>1, RootFacts
    <3>4. 1 \in Nat /\ TypeOK
      BY <1>0
    <3>5. /\ u \in Tables /\ S \in SUBSET (Clusters \ Used(fat)) /\ Used(u) = Used(fat) \cup S
          /\ ExtendCluster(Root, 1).cluster \in Used(u)
          /\ S # {} => ExtendCluster(Root, 1).cluster = Highest(S) /\ Highest(S) \in S
          /\ \E depth2, own2 :
               /\ Layout(u, first_cluster, depth2, own2)
               /\ \A x \in Used(fat) : depth2[x] = depth[x] /\ own2[x] = own[x]
               /\ \A x \in S : /\ own2[x] = own[Root]
                               /\ fat[Root] = kEndOfClusterchain => depth2[x] = depth[Root] + 1 + Rank(S, x)
      BY ONLY <1>1, <3>1, <3>2, <3>3, <3>4, Extended
    <3>6. PICK depth2, own2 :
            /\ Layout(u, first_cluster, depth2, own2)
            /\ \A x \in Used(fat) : depth2[x] = depth[x] /\ own2[x] = own[x]
            /\ \A x \in S : own2[x] = own[Root]
      BY <3>5
    <3>7. S # {} /\ \A x, y \in S : x = y
      BY <3>1, <3>2, CandidatesAre
    <3>8. c \in S /\ S = {c} /\ c \in Clusters /\ c \notin Used(fat) /\ own2[c] = "root"
      BY <3>1, <3>3, <3>5, <3>6, <3>7
    <3>9. Grown(depth, own, depth2, own2) /\ Used(fat') = Used(fat) \cup {c} /\ fat' \in Tables
      BY <1>1, <2>0, <3>1, <3>5, <3>6, <3>8 DEF Grown
    <3>10. /\ FindFile(f)' /\ \A g \in Files : FindFile(g) => FindFile(g)'
           /\ \A j \in DirEntries' : Slot(j)' # "stale"
      BY <1>0, <1>3, <1>6, <2>2, <3>2, <3>8, <3>9, DirectoryExtended
    <3>11. slots' \in [Clusters -> [0 .. EntriesPerCluster - 1 -> Slots]]
      <4>1. slots \in [Clusters -> [0 .. EntriesPerCluster - 1 -> Slots]] /\ f \in Slots /\ "0x00" \in Slots
        BY <1>0 DEF TypeOK, Slots
      <4> QED BY <3>2, <4>1
    <3>12. TypeOK'
      BY <1>0, <1>2, <2>0, <3>9, <3>11 DEF TypeOK, Tables
    <3> QED BY <1>4, <2>0, <3>9, <3>10, <3>12
  <2> QED BY <2>1, <2>2
<1> QED BY <1>5, <1>6 DEF OpenFile

LEMMA NextIInv == IInv /\ [Next]_vars => IInv'
<1> SUFFICES ASSUME IInv, [Next]_vars PROVE IInv'
  OBVIOUS
<1>1. CASE UNCHANGED vars
  <2>1. TypeOK /\ HasLayout /\ \A f \in Files : first_cluster'[f] # 0 => FindFile(f)
    BY <1>1 DEF IInv, Listed, vars
  <2>2. TypeOK'
    BY <1>1, <2>1 DEF vars, TypeOK
  <2>3. PICK depth, own : Grown(depth, own, depth, own) /\ Used(fat') = Used(fat)
    BY <1>1, <2>1, TableSame DEF vars
  <2>4. HasLayout' /\ Listed'
    BY <1>1, <2>1, <2>2, <2>3, VolumeKept DEF vars
  <2>5. \A d \in Fds : Writer(d)'
    BY <1>1, <2>1, <2>2, <2>3, SameContent, OthersWrite DEF vars
  <2> QED BY <2>2, <2>4, <2>5 DEF IInv, Writers
<1>2. CASE Next
  <2>1. PICK d \in Fds : \/ \E f \in Files : OpenFile(d, f)
                         \/ \E len \in ReadSizes : Read(d, len)
                         \/ \E len \in WriteSizes : Write(d, len)
                         \/ WriteLoop(d)
                         \/ WriteEnd(d)
    BY <1>2 DEF Next
  <2> QED BY <2>1, OpenStep, ReadStep, WriteStep, WriteLoopStep, WriteEndStep
<1> QED BY <1>1, <1>2

-----------------------------------------------------------------------------
(* The theorems. *)

\* The volume of every behaviour has a layout: an owner and a depth for every
\* cluster that AllocateClusterChain and ExtendCluster have taken, descriptors
\* that write into the chains of their files, and a directory without a hole.
THEOREM AlwaysLaidOut == Spec => []IInv
<1>1. Init => IInv
  BY InitIInv
<1>2. IInv /\ [Next]_vars => IInv'
  BY NextIInv
<1> QED BY <1>1, <1>2, PTL DEF Spec

\* The chains of fat.cpp are sound in every state: each of them ends, no two
\* share a cluster, and no cluster in use is lost.
THEOREM ChainsAlwaysSound == Spec => []ChainsSound
<1>1. IInv => ChainsSound
  BY LayoutIsSound DEF IInv, HasLayout
<1> QED BY <1>1, AlwaysLaidOut, PTL

\* FindFile finds every file that CreateFile made, and the directory shows no
\* entry that was in a cluster before AllocateEntry cleared it.
THEOREM DirectoryAlwaysExact == Spec => []DirectoryExact
<1>1. IInv => DirectoryExact
  BY DEF IInv, Listed, DirectoryExact
<1> QED BY <1>1, AlwaysLaidOut, PTL

-----------------------------------------------------------------------------
(* The bytes of the files. *)

LEMMA NowhereFromNone ==
  \A k \in Nat : Follow(0, k) \notin Clusters
<1> DEFINE S == {k \in Nat : Follow(0, k) \notin Clusters}
<1>1. 0 \in S
  BY FollowSteps, ClustersFinite DEF Free
<1>2. ASSUME NEW k \in Nat, k \in S PROVE k + 1 \in S
  BY <1>2, FollowSteps, ClustersFinite DEF NextCluster
<1>3. Nat \subseteq S
  <2> HIDE DEF S
  <2> QED BY <1>1, <1>2, NatSetInduction
<1> QED BY <1>3

\* The cluster q links behind the first one of a file is the one of depth q.
LEMMA PlaceInFile ==
  \A depth, own : Layout(fat, first_cluster, depth, own) =>
    \A f \in Files : \A q \in Nat : \A x :
      x \in Clusters /\ x = Follow(first_cluster[f], q) <=> x \in Used(fat) /\ own[x] = f /\ depth[x] = q
<1> SUFFICES ASSUME NEW depth, NEW own, Layout(fat, first_cluster, depth, own), NEW f \in Files, NEW q \in Nat, NEW x
             PROVE  x \in Clusters /\ x = Follow(first_cluster[f], q) <=> x \in Used(fat) /\ own[x] = f /\ depth[x] = q
  OBVIOUS
<1>0. f # "root"
  BY FatAssumption
<1>1. ASSUME x \in Clusters, x = Follow(first_cluster[f], q) PROVE x \in Used(fat) /\ own[x] = f /\ depth[x] = q
  <2>1. PICK h : h = first_cluster[f]
    OBVIOUS
  <2>2. h # 0
    BY <1>1, <2>1, NowhereFromNone
  <2>3. h \in Used(fat) /\ own[h] = f /\ depth[h] = 0
    BY <2>1, <2>2, HeadInFile
  <2>4. x # kEndOfClusterchain
    BY <1>1, ClustersFinite
  <2>5. x \in Used(fat) /\ own[x] = own[h] /\ depth[x] = depth[h] + q
    BY <1>1, <2>1, <2>3, <2>4, WalkStaysInChain
  <2> QED BY <2>3, <2>5
<1>2. ASSUME x \in Used(fat), own[x] = f, depth[x] = q PROVE x \in Clusters /\ x = Follow(first_cluster[f], q)
  <2>1. HeadOf(first_cluster, own[x]) = first_cluster[f]
    BY <1>0, <1>2 DEF HeadOf
  <2> QED BY <1>2, <2>1, OnTheChain, UsedFacts
<1> QED BY <1>1, <1>2

LEMMA PlaceInFileNext ==
  \A depth, own : Layout(fat', first_cluster', depth, own) =>
    \A f \in Files : \A q \in Nat : \A x :
      x \in Clusters /\ x = Follow(first_cluster[f], q)' <=> x \in Used(fat') /\ own[x] = f /\ depth[x] = q
<1>1. (\A depth, own : Layout(fat, first_cluster, depth, own) =>
         \A f \in Files : \A q \in Nat : \A x :
           x \in Clusters /\ x = Follow(first_cluster[f], q) <=> x \in Used(fat) /\ own[x] = f /\ depth[x] = q)'
  BY PlaceInFile, PTL
<1> QED BY <1>1

\* Byte k of the files lies in the cluster of its owner at its depth.
LEMMA StoredIs ==
  \A depth, own : Layout(fat, first_cluster, depth, own) =>
    (ContentStored <=>
       \A f \in Files : \A k \in 1 .. Len(content[f]) : \E x \in Used(fat) :
         /\ own[x] = f /\ depth[x] = (k - 1) \div bytes_per_cluster
         /\ disk[x][(k - 1) % bytes_per_cluster] = content[f][k])
<1> SUFFICES ASSUME NEW depth, NEW own, Layout(fat, first_cluster, depth, own)
             PROVE  ContentStored <=>
                      \A f \in Files : \A k \in 1 .. Len(content[f]) : \E x \in Used(fat) :
                        /\ own[x] = f /\ depth[x] = (k - 1) \div bytes_per_cluster
                        /\ disk[x][(k - 1) % bytes_per_cluster] = content[f][k]
  OBVIOUS
<1> DEFINE ByChain(f, k) ==
             /\ Follow(first_cluster[f], (k - 1) \div bytes_per_cluster) \in Clusters
             /\ disk[Follow(first_cluster[f], (k - 1) \div bytes_per_cluster)][(k - 1) % bytes_per_cluster] = content[f][k]
           ByDepth(f, k) ==
             \E x \in Used(fat) :
               /\ own[x] = f /\ depth[x] = (k - 1) \div bytes_per_cluster
               /\ disk[x][(k - 1) % bytes_per_cluster] = content[f][k]
<1>1. ASSUME NEW f \in Files, NEW k \in 1 .. Len(content[f]) PROVE ByChain(f, k) <=> ByDepth(f, k)
  <2>1. PICK j, q, i, v : j = k - 1 /\ q = (k - 1) \div bytes_per_cluster /\ i = (k - 1) % bytes_per_cluster /\ v = content[f][k]
    OBVIOUS
  <2>2. q \in Nat
    <3>1. j \in Nat
      BY <2>1
    <3> QED BY <2>1, <3>1, FatAssumption, DivMod
  <2>3. (Follow(first_cluster[f], q) \in Clusters /\ disk[Follow(first_cluster[f], q)][i] = v)
        <=> (\E x \in Used(fat) : own[x] = f /\ depth[x] = q /\ disk[x][i] = v)
    <3>1. PICK y : y = Follow(first_cluster[f], q)
      OBVIOUS
    <3>2. \A x : x \in Clusters /\ x = y <=> x \in Used(fat) /\ own[x] = f /\ depth[x] = q
      BY <2>2, <3>1, PlaceInFile
    <3>3. (y \in Clusters /\ disk[y][i] = v) <=> (\E x \in Used(fat) : own[x] = f /\ depth[x] = q /\ disk[x][i] = v)
      BY ONLY <3>2
    <3> QED BY <3>1, <3>3
  <2> QED BY <2>1, <2>3
<1>2. ContentStored <=> \A f \in Files : \A k \in 1 .. Len(content[f]) : ByChain(f, k)
  BY DEF ContentStored
<1> HIDE DEF ByChain, ByDepth
<1>3. ContentStored <=> \A f \in Files : \A k \in 1 .. Len(content[f]) : ByDepth(f, k)
  BY <1>1, <1>2
<1> QED BY <1>3 DEF ByDepth

LEMMA StoredIsNext ==
  \A depth, own : Layout(fat', first_cluster', depth, own) =>
    (ContentStored' <=>
       \A f \in Files : \A k \in 1 .. Len(content'[f]) : \E x \in Used(fat') :
         /\ own[x] = f /\ depth[x] = (k - 1) \div bytes_per_cluster
         /\ disk'[x][(k - 1) % bytes_per_cluster] = content'[f][k])
<1>1. (\A depth, own : Layout(fat, first_cluster, depth, own) =>
         (ContentStored <=>
            \A f \in Files : \A k \in 1 .. Len(content[f]) : \E x \in Used(fat) :
              /\ own[x] = f /\ depth[x] = (k - 1) \div bytes_per_cluster
              /\ disk[x][(k - 1) % bytes_per_cluster] = content[f][k]))'
  BY StoredIs, PTL
<1> QED BY <1>1

\* A descriptor's position is where it writes next, and no Write is of more
\* than a cluster.
Cursor(d) ==
  /\ fds[d].wr_cluster_ = 0 => Position(d) = 0 /\ fds[d].wr_cluster_off_ = 0
  /\ fds[d].wr_cluster_ # 0 =>
       \E q \in Nat : /\ fds[d].wr_cluster_ = Follow(first_cluster[fds[d].file], q)
                      /\ Position(d) = q * bytes_per_cluster + fds[d].wr_cluster_off_

SInv ==
  /\ IInv /\ ContentStored
  /\ \A d \in Fds : Cursor(d) /\ writing[d].len <= bytes_per_cluster

LEMMA CursorIs ==
  \A depth, own : Layout(fat, first_cluster, depth, own) =>
    \A d \in Fds : \A f \in Files :
      fds[d].wr_cluster_ # 0 /\ fds[d].file = f /\ InFile(fds[d].wr_cluster_, f) =>
        (Cursor(d) <=> Position(d) = depth[fds[d].wr_cluster_] * bytes_per_cluster + fds[d].wr_cluster_off_)
<1> SUFFICES ASSUME NEW depth, NEW own, Layout(fat, first_cluster, depth, own), NEW d \in Fds, NEW f \in Files,
                    NEW c, c = fds[d].wr_cluster_, c # 0, fds[d].file = f, InFile(c, f)
             PROVE  Cursor(d) <=> Position(d) = depth[c] * bytes_per_cluster + fds[d].wr_cluster_off_
  OBVIOUS
<1>1. c \in Used(fat) /\ own[c] = f /\ c \in Clusters /\ depth[c] \in Nat
  BY InFileIs, UsedFacts DEF Layout
<1>2. \A q \in Nat : c = Follow(first_cluster[f], q) <=> depth[c] = q
  BY <1>1, PlaceInFile
<1>3. (\E q \in Nat : c = Follow(first_cluster[f], q) /\ Position(d) = q * bytes_per_cluster + fds[d].wr_cluster_off_)
      <=> Position(d) = depth[c] * bytes_per_cluster + fds[d].wr_cluster_off_
  BY <1>1, <1>2
<1> QED BY <1>3 DEF Cursor

LEMMA CursorIsNext ==
  \A depth, own : Layout(fat', first_cluster', depth, own) =>
    \A d \in Fds : \A f \in Files :
      fds'[d].wr_cluster_ # 0 /\ fds'[d].file = f /\ InFile(fds[d].wr_cluster_, f)' =>
        (Cursor(d)' <=> Position(d)' = depth[fds'[d].wr_cluster_] * bytes_per_cluster + fds'[d].wr_cluster_off_)
<1>1. (\A depth, own : Layout(fat, first_cluster, depth, own) =>
         \A d \in Fds : \A f \in Files :
           fds[d].wr_cluster_ # 0 /\ fds[d].file = f /\ InFile(fds[d].wr_cluster_, f) =>
             (Cursor(d) <=> Position(d) = depth[fds[d].wr_cluster_] * bytes_per_cluster + fds[d].wr_cluster_off_))'
  BY CursorIs, PTL
<1> QED BY <1>1

\* Steps that write no byte.
LEMMA StoredKept ==
  ASSUME ContentStored, disk' = disk, content' = content,
         NEW depth, NEW own, NEW depth2, NEW own2, Grown(depth, own, depth2, own2)
  PROVE  ContentStored'
<1>1. /\ Layout(fat, first_cluster, depth, own) /\ Layout(fat', first_cluster', depth2, own2)
      /\ \A x \in Used(fat) : x \in Used(fat') /\ own2[x] = own[x] /\ depth2[x] = depth[x]
  BY DEF Grown
<1>2. \A f \in Files : \A k \in 1 .. Len(content[f]) : \E x \in Used(fat) :
         /\ own[x] = f /\ depth[x] = (k - 1) \div bytes_per_cluster
         /\ disk[x][(k - 1) % bytes_per_cluster] = content[f][k]
  BY <1>1, StoredIs
<1>3. ASSUME NEW f \in Files, NEW k \in 1 .. Len(content'[f])
      PROVE  \E x \in Used(fat') :
               /\ own2[x] = f /\ depth2[x] = (k - 1) \div bytes_per_cluster
               /\ disk'[x][(k - 1) % bytes_per_cluster] = content'[f][k]
  <2>1. k \in 1 .. Len(content[f])
    OBVIOUS
  <2>2. PICK x \in Used(fat) :
         /\ own[x] = f /\ depth[x] = (k - 1) \div bytes_per_cluster
         /\ disk[x][(k - 1) % bytes_per_cluster] = content[f][k]
    BY <1>2, <2>1
  <2> QED BY <1>1, <2>2
<1> QED BY <1>1, <1>3, StoredIsNext

LEMMA CursorKept ==
  ASSUME IInv, NEW depth, NEW own, NEW depth2, NEW own2, Grown(depth, own, depth2, own2),
         NEW d \in Fds, Cursor(d), Position(d)' = Position(d),
         fds'[d].file = fds[d].file, fds'[d].wr_cluster_ = fds[d].wr_cluster_,
         fds'[d].wr_cluster_off_ = fds[d].wr_cluster_off_
  PROVE  Cursor(d)'
<1>1. CASE fds[d].wr_cluster_ = 0
  BY <1>1 DEF Cursor
<1>2. CASE fds[d].wr_cluster_ # 0
  <2>1. PICK c, f : c = fds[d].wr_cluster_ /\ f = fds[d].file
    OBVIOUS
  <2>2. InFile(c, f) /\ f \in Files
    BY <1>2, <2>1, OpenIs DEF IInv, Writers, Writer
  <2>3. InFile(c, f)'
    BY <2>2, InFileKept
  <2>4. c \in Used(fat)
    BY <2>2 DEF InFile
  <2>5. depth2[c] = depth[c]
    BY <2>4 DEF Grown
  <2>6. Position(d) = depth[c] * bytes_per_cluster + fds[d].wr_cluster_off_
    BY <1>2, <2>1, <2>2, CursorIs DEF Grown
  <2>7. Position(d)' = depth2[c] * bytes_per_cluster + fds'[d].wr_cluster_off_
    BY <2>5, <2>6
  <2>8. Layout(fat', first_cluster', depth2, own2) /\ fds'[d].wr_cluster_ = c /\ c # 0 /\ fds'[d].file = f
    BY <1>2, <2>1 DEF Grown
  <2> QED BY <2>2, <2>3, <2>7, <2>8, CursorIsNext
<1> QED BY <1>1, <1>2

\* Steps that write no byte, and the descriptors they do not move.
LEMMA QuietStep ==
  ASSUME SInv, IInv', Grows, disk' = disk, content' = content,
         NEW d \in Fds, Cursor(d)', writing'[d].len <= bytes_per_cluster,
         \A e \in Fds \ {d} : fds'[e] = fds[e] /\ writing'[e] = writing[e]
  PROVE  SInv'
<1>1. PICK depth, own, depth2, own2 : Grown(depth, own, depth2, own2)
  BY DEF Grows
<1>2. ContentStored'
  BY <1>1, StoredKept DEF SInv
<1>3. ASSUME NEW e \in Fds, e # d PROVE Cursor(e)' /\ writing'[e].len <= bytes_per_cluster
  <2>1. fds'[e] = fds[e] /\ writing'[e] = writing[e] /\ Cursor(e) /\ IInv /\ writing[e].len <= bytes_per_cluster
    BY <1>3 DEF SInv
  <2>2. Position(e)' = Position(e)
    BY <2>1 DEF Position
  <2> QED BY <1>1, <2>1, <2>2, CursorKept
<1> QED BY <1>2, <1>3 DEF SInv

LEMMA OpenStored ==
  ASSUME SInv, NEW d \in Fds, NEW f \in Files, OpenFile(d, f)
  PROVE  SInv'
<1>1. IInv' /\ Grows
  BY OpenStep DEF SInv
<1>2. /\ fds' = [fds EXCEPT ![d] = [NotOpen EXCEPT !.file = f]] /\ ~IsOpen(d)
      /\ UNCHANGED <<disk, writing, content>> /\ TypeOK /\ Writer(d)
  BY DEF OpenFile, SInv, IInv, Writers
<1>3. fds'[d] = [NotOpen EXCEPT !.file = f] /\ \A e \in Fds \ {d} : fds'[e] = fds[e]
  BY <1>2 DEF TypeOK
<1>4. fds'[d].wr_cluster_ = 0 /\ fds'[d].wr_off_ = 0 /\ fds'[d].wr_cluster_off_ = 0
  BY <1>3 DEF NotOpen
<1>5. writing'[d].total = 0
  BY <1>2 DEF Writer
<1>6. Cursor(d)'
  <2>1. Position(d)' = 0
    BY <1>4, <1>5 DEF Position
  <2> QED BY <1>4, <2>1 DEF Cursor
<1>7. writing'[d].len <= bytes_per_cluster
  BY <1>2 DEF SInv
<1> QED BY <1>1, <1>2, <1>3, <1>6, <1>7, QuietStep

LEMMA ReadStored ==
  ASSUME SInv, NEW d \in Fds, NEW len \in ReadSizes, Read(d, len)
  PROVE  SInv'
<1>1. IInv /\ IInv' /\ TypeOK /\ HasLayout /\ Cursor(d) /\ writing[d].len <= bytes_per_cluster
  BY ReadStep DEF SInv, IInv
<1>2. /\ fds' = [fds EXCEPT ![d] = AfterRead(fds[d], len)] /\ IsOpen(d)
      /\ UNCHANGED <<fat, slots, disk, first_cluster, file_size, writing, content>>
  BY DEF Read
<1>3. fds'[d] = AfterRead(fds[d], len) /\ fds[d] \in Descriptors /\ \A e \in Fds \ {d} : fds'[e] = fds[e]
  BY <1>1, <1>2, OpenIs DEF TypeOK
<1>4. /\ fds'[d].file = fds[d].file /\ fds'[d].wr_off_ = fds[d].wr_off_
      /\ fds'[d].wr_cluster_ = fds[d].wr_cluster_ /\ fds'[d].wr_cluster_off_ = fds[d].wr_cluster_off_
  BY <1>3 DEF AfterRead, Descriptors
<1>5. PICK depth, own : Grown(depth, own, depth, own)
  BY <1>1, <1>2, TableSame
<1>6. Position(d)' = Position(d)
  BY <1>2, <1>4 DEF Position
<1>7. Cursor(d)'
  BY <1>1, <1>4, <1>5, <1>6, CursorKept
<1>8. Grows
  BY <1>5 DEF Grows
<1> QED BY <1>1, <1>2, <1>3, <1>7, <1>8, QuietStep

LEMMA WriteEndStored ==
  ASSUME SInv, NEW d \in Fds, WriteEnd(d)
  PROVE  SInv'
<1>1. IInv /\ IInv' /\ TypeOK /\ HasLayout /\ Cursor(d) /\ Writer(d)
  BY WriteEndStep DEF SInv, IInv, Writers
<1>2. PICK end : end = fds[d].wr_off_ + writing[d].total
  OBVIOUS
<1>3. /\ fds' = [fds EXCEPT ![d].wr_off_ = end] /\ InCall(d)
      /\ writing' = [writing EXCEPT ![d] = Idle]
      /\ UNCHANGED <<fat, slots, disk, first_cluster, content>>
  BY <1>2 DEF WriteEnd
<1>4. /\ fds'[d] = [fds[d] EXCEPT !.wr_off_ = end] /\ fds[d] \in Descriptors
      /\ writing'[d] = Idle /\ \A e \in Fds \ {d} : fds'[e] = fds[e] /\ writing'[e] = writing[e]
      /\ end \in Nat
  BY <1>1, <1>2, <1>3, OpenIs, SMTT(30) DEF TypeOK, Writer, Descriptors
<1>5. /\ fds'[d].file = fds[d].file /\ fds'[d].wr_off_ = end
      /\ fds'[d].wr_cluster_ = fds[d].wr_cluster_ /\ fds'[d].wr_cluster_off_ = fds[d].wr_cluster_off_
      /\ writing'[d].total = 0 /\ writing'[d].len = 0
  BY <1>4 DEF Descriptors, Idle
<1>6. PICK depth, own : Grown(depth, own, depth, own)
  BY <1>1, <1>3, TableSame
<1>7. Position(d)' = Position(d)
  BY <1>2, <1>4, <1>5 DEF Position
<1>8. Cursor(d)'
  BY <1>1, <1>5, <1>6, <1>7, CursorKept
<1>9. Grows /\ writing'[d].len <= bytes_per_cluster
  BY <1>5, <1>6, FatAssumption DEF Grows
<1> QED BY <1>1, <1>3, <1>4, <1>8, <1>9, QuietStep

LEMMA FollowStartsNext ==
  \A c : Follow(c, 0)' = c
<1>1. \A c : Follow(c, 0) = c
  BY FollowSteps
<1>2. (\A c : Follow(c, 0) = c)'
  BY <1>1, PTL
<1> QED BY <1>2

LEMMA WriteStored ==
  ASSUME SInv, NEW d \in Fds, NEW len \in WriteSizes, len <= bytes_per_cluster, Write(d, len)
  PROVE  SInv'
<1>1. IInv /\ IInv' /\ Grows /\ TypeOK /\ Cursor(d) /\ Writer(d)
  BY WriteStep DEF SInv, IInv, Writers
<1>2. PICK f : f = fds[d].file
  OBVIOUS
<1>3. /\ writing' = [writing EXCEPT ![d] = [active |-> TRUE, len |-> len, total |-> 0]]
      /\ UNCHANGED <<slots, disk, file_size, content>> /\ IsOpen(d) /\ ~InCall(d)
  BY DEF Write
<1>4. /\ writing'[d].len = len /\ writing'[d].total = 0 /\ writing[d].total = 0
      /\ \A e \in Fds \ {d} : writing'[e] = writing[e]
      /\ fds[d] \in Descriptors /\ f \in Files
  BY <1>1, <1>2, <1>3, OpenIs DEF TypeOK, Writer
<1>5. PICK depth, own, depth2, own2 : Grown(depth, own, depth2, own2)
  BY <1>1 DEF Grows
<1>6. CASE fds[d].wr_cluster_ # 0 /\ UNCHANGED fds
  <2>1. Position(d)' = Position(d)
    BY <1>4, <1>6 DEF Position
  <2>2. Cursor(d)'
    BY <1>1, <1>5, <1>6, <2>1, CursorKept
  <2> QED BY <1>1, <1>3, <1>4, <1>6, <2>2, QuietStep
<1>7. ASSUME NEW c, fds[d].wr_cluster_ = 0, fds' = [fds EXCEPT ![d].wr_cluster_ = c], first_cluster'[f] = c
      PROVE  SInv'
  <2>1. fds'[d] = [fds[d] EXCEPT !.wr_cluster_ = c] /\ \A e \in Fds \ {d} : fds'[e] = fds[e]
    BY <1>1, <1>7 DEF TypeOK
  <2>2. /\ fds'[d].wr_cluster_ = c /\ fds'[d].file = f /\ fds'[d].wr_off_ = fds[d].wr_off_
        /\ fds'[d].wr_cluster_off_ = fds[d].wr_cluster_off_
    BY <1>2, <1>4, <2>1 DEF Descriptors
  <2>3. Position(d)' = 0 /\ fds'[d].wr_cluster_off_ = 0
    <3>1. Position(d) = 0 /\ fds[d].wr_cluster_off_ = 0
      BY <1>1, <1>7 DEF Cursor
    <3>2. Position(d)' = Position(d)
      BY <1>4, <2>2 DEF Position
    <3> QED BY <2>2, <3>1, <3>2
  <2>4. Follow(c, 0)' = c
    BY FollowStartsNext
  <2>5. Follow(first_cluster[fds[d].file], 0)' = c
    BY <1>7, <2>2, <2>4
  <2>6. 0 = 0 * bytes_per_cluster + 0
    BY FatAssumption
  <2>7. Cursor(d)'
    BY <2>2, <2>3, <2>5, <2>6 DEF Cursor
  <2> QED BY <1>1, <1>3, <1>4, <2>1, <2>7, QuietStep
<1>8. CASE /\ fds[d].wr_cluster_ = 0 /\ fds' = [fds EXCEPT ![d].wr_cluster_ = first_cluster[f]]
           /\ UNCHANGED first_cluster
  BY <1>7, <1>8
<1>9. ASSUME NEW c, fds[d].wr_cluster_ = 0, fds' = [fds EXCEPT ![d].wr_cluster_ = c],
             first_cluster' = [first_cluster EXCEPT ![f] = c]
      PROVE  SInv'
  BY <1>1, <1>4, <1>7, <1>9 DEF TypeOK
<1> QED BY <1>2, <1>6, <1>8, <1>9 DEF Write

\* A turn of the loop writes byte k of the file where byte k belongs, and over
\* no other.
LEMMA LoopStored ==
  ASSUME SInv, NEW d \in Fds, WriteLoop(d)
  PROVE  SInv'
<1>0. /\ IInv /\ IInv' /\ TypeOK /\ Writer(d) /\ Cursor(d) /\ ContentStored /\ InCall(d) /\ IsOpen(d)
      /\ writing[d].len <= bytes_per_cluster /\ bytes_per_cluster \in Nat \ {0}
  BY WriteLoopStep, FatAssumption DEF SInv, IInv, Writers, Writer, WriteLoop
<1>1. PICK c, off, n, at, f, new, depth, own, depth2, own2 :
        Turn(d, c, off, n, at, f, new) /\ Place(d, c, off, f, depth, own, depth2, own2)
  BY <1>0, LoopPlaces
<1>2. /\ Grown(depth, own, depth2, own2)
      /\ Layout(fat, first_cluster, depth, own) /\ Layout(fat', first_cluster', depth2, own2)
      /\ \A x \in Used(fat) : x \in Used(fat') /\ own2[x] = own[x] /\ depth2[x] = depth[x]
  BY <1>1 DEF Place, Grown
<1>3. PICK b, q, c0, o : b = bytes_per_cluster /\ q = depth2[c] /\ c0 = fds[d].wr_cluster_ /\ o = fds[d].wr_cluster_off_
  OBVIOUS
<1>4. /\ b \in Nat \ {0} /\ q \in Nat /\ off \in Nat /\ off < b /\ n \in Nat /\ n > 0 /\ off + n <= b /\ at \in Nat
      /\ f \in Files /\ f = fds[d].file /\ c \in Used(fat') /\ c \in Clusters /\ own2[c] = f
      /\ Len(new) = n /\ new \in Seq(Bytes) /\ at = Position(d)
  <2>1. c \in Used(fat') /\ c \in Clusters
    BY <1>1, UsedFacts DEF Place
  <2>2. depth2[c] \in Nat
    BY <1>2, <2>1 DEF Layout
  <2> QED BY <1>0, <1>1, <1>3, <2>1, <2>2 DEF Turn, Place
<1>5. at = q * b + off
  <2>1. c0 # 0 /\ InFile(c0, f) /\ o \in Nat
    BY <1>0, <1>3, <1>4, OpenIs DEF Writer, Descriptors
  <2>2. at = depth[c0] * b + o /\ c0 \in Used(fat) /\ depth[c0] \in Nat
    <3>1. c0 \in Used(fat)
      BY <2>1 DEF InFile
    <3>2. depth[c0] \in Nat
      BY <1>2, <3>1, UsedFacts DEF Layout
    <3> QED BY <1>0, <1>2, <1>3, <1>4, <2>1, <3>1, <3>2, CursorIs
  <2>3. CASE c = c0 /\ off = o
    BY <1>2, <1>3, <2>2, <2>3
  <2>4. CASE o = b /\ off = 0 /\ q = depth[c0] + 1
    <3>1. PICK p \in Nat : p = depth[c0]
      BY <2>2
    <3>2. at = p * b + b /\ q = p + 1
      BY <2>2, <2>4, <3>1
    <3>3. (p + 1) * b = p * b + b /\ p * b \in Nat
      BY <1>4
    <3> QED BY <1>4, <2>4, <3>2, <3>3
  <2> QED BY <1>0, <1>1, <1>3, <2>3, <2>4 DEF Place
<1>6. /\ \A x \in Clusters \ {c} : disk'[x] = disk[x]
      /\ \A i \in 0 .. b - 1 : disk'[c][i] = IF i >= off /\ i < off + n THEN new[i - off + 1] ELSE disk[c][i]
  <2>1. /\ disk \in [Clusters -> [0 .. b - 1 -> Bytes]]
        /\ disk' = [disk EXCEPT ![c] = [i \in 0 .. b - 1 |->
                     IF i >= off /\ i < off + n THEN new[i - off + 1] ELSE disk[c][i]]]
    BY <1>0, <1>1, <1>3 DEF TypeOK, Turn
  <2> QED BY ONLY <1>4, <2>1
<1>7. PICK old : old = content[f]
  OBVIOUS
<1>8. /\ content'[f] = Overwrite(old, at, new) /\ \A g \in Files \ {f} : content'[g] = content[g]
      /\ old \in Seq(Bytes) /\ at <= Len(old)
  BY <1>0, <1>1, <1>4, <1>7 DEF Turn, TypeOK, Writer
<1>9. \A k \in 1 .. Len(content'[f]) :
        /\ content'[f][k] = IF k > at /\ k <= at + n THEN new[k - at] ELSE old[k]
        /\ k <= Len(old) \/ (k > at /\ k <= at + n)
  <2>1. \A k \in 1 .. Len(Overwrite(old, at, new)) :
          /\ Overwrite(old, at, new)[k] = IF k > at /\ k <= at + Len(new) THEN new[k - at] ELSE old[k]
          /\ k <= Len(old) \/ (k > at /\ k <= at + Len(new))
    BY <1>4, <1>8, OverwriteIs
  <2> QED BY <1>4, <1>8, <2>1
<1>10. \A g \in Files : \A k \in 1 .. Len(content[g]) : \E x \in Used(fat) :
         /\ own[x] = g /\ depth[x] = (k - 1) \div bytes_per_cluster
         /\ disk[x][(k - 1) % bytes_per_cluster] = content[g][k]
  <2>1. ContentStored /\ Layout(fat, first_cluster, depth, own)
    BY <1>0, <1>2
  <2> QED BY ONLY <2>1, StoredIs
<1>11. ASSUME NEW g \in Files, NEW k \in 1 .. Len(content'[g])
       PROVE  \E x \in Used(fat') :
                /\ own2[x] = g /\ depth2[x] = (k - 1) \div bytes_per_cluster
                /\ disk'[x][(k - 1) % bytes_per_cluster] = content'[g][k]
  <2>1. PICK p, i : p = (k - 1) \div b /\ i = (k - 1) % b
    OBVIOUS
  <2>2. k \in Nat /\ k >= 1 /\ p \in Nat /\ i \in 0 .. b - 1 /\ k - 1 = b * p + i
    <3>1. PICK j \in Nat : j = k - 1
      OBVIOUS
    <3>2. j \div b \in Nat /\ (j % b) \in 0 .. b - 1 /\ j = b * (j \div b) + (j % b)
      BY <1>4, DivMod
    <3> QED BY <2>1, <3>1, <3>2
  <2>3. SUFFICES \E x \in Used(fat') : own2[x] = g /\ depth2[x] = p /\ disk'[x][i] = content'[g][k]
    BY <1>3, <2>1
  <2>4. CASE g # f
    <3>1. content'[g] = content[g]
      BY <1>8, <2>4
    <3>2. PICK x \in Used(fat) : own[x] = g /\ depth[x] = p /\ disk[x][i] = content[g][k]
      BY <1>3, <1>10, <2>1, <3>1
    <3>3. x # c /\ x \in Clusters
      BY <1>2, <1>4, <2>4, <3>2, UsedFacts
    <3> QED BY <1>2, <1>6, <3>1, <3>2, <3>3
  <2>5. CASE g = f /\ k > at /\ k <= at + n
    <3>1. PICK r : r = off + (k - 1 - at)
      OBVIOUS
    <3>2. r \in 0 .. b - 1 /\ r >= off /\ r < off + n /\ k - 1 = q * b + r /\ r - off + 1 = k - at
      <4>1. PICK m \in Nat : m = q * b
        BY <1>4
      <4>2. at = m + off /\ k > at /\ k <= at + n /\ r = off + (k - 1 - at)
        BY <1>5, <2>5, <3>1, <4>1
      <4>3. k \in Nat /\ off \in Nat /\ n \in Nat /\ b \in Nat /\ off + n <= b /\ at \in Nat
        BY <1>4, <2>2
      <4>4. r \in 0 .. b - 1 /\ r >= off /\ r < off + n /\ k - 1 = m + r /\ r - off + 1 = k - at
        BY ONLY <4>2, <4>3, m \in Nat
      <4> QED BY <4>1, <4>4
    <3>3. (q * b + r) \div b = q /\ (q * b + r) % b = r
      BY <1>4, <3>2, DivModUnique
    <3>4. p = q /\ i = r
      BY <2>1, <3>2, <3>3
    <3>5. disk'[c][r] = new[k - at]
      BY <1>6, <3>2
    <3>6. content'[f][k] = new[k - at]
      BY <1>9, <2>5
    <3> QED BY <1>3, <1>4, <2>5, <3>4, <3>5, <3>6
  <2>6. CASE g = f /\ ~(k > at /\ k <= at + n)
    <3>1. content'[f][k] = old[k] /\ k \in 1 .. Len(old)
      BY <1>9, <2>2, <2>6
    <3>2. PICK x \in Used(fat) : own[x] = f /\ depth[x] = p /\ disk[x][i] = old[k]
      BY <1>3, <1>4, <1>7, <1>10, <2>1, <3>1
    <3>3. disk'[x][i] = disk[x][i]
      <4>1. CASE x # c
        BY <1>6, <3>2, <4>1, UsedFacts
      <4>2. CASE x = c
        <5>1. p = q
          BY <1>2, <1>3, <3>2, <4>2
        <5>2. PICK m : m = q * b
          OBVIOUS
        <5>3. m \in Nat /\ at = m + off /\ k - 1 = m + i
          BY <1>4, <1>5, <2>2, <5>1, <5>2
        <5>4. ~(i >= off /\ i < off + n)
          BY <1>4, <2>2, <2>6, <5>3
        <5> QED BY <1>6, <2>2, <4>2, <5>4
      <4> QED BY <4>1, <4>2
    <3> QED BY <1>2, <2>6, <3>1, <3>2, <3>3
  <2> QED BY <2>4, <2>5, <2>6
<1>12. ContentStored'
  BY <1>2, <1>11, StoredIsNext
<1>13. Cursor(d)' /\ writing'[d].len <= bytes_per_cluster
  <2>1. /\ fds'[d].wr_cluster_ = c /\ fds'[d].file = f /\ fds'[d].wr_cluster_off_ = off + n
        /\ writing'[d].len = writing[d].len
    BY <1>1 DEF Turn
  <2>2. Position(d)' = at + n
    <3>1. at = fds[d].wr_off_ + writing[d].total /\ fds[d].wr_off_ \in Nat /\ writing[d].total \in Nat
      BY <1>0, <1>4, OpenIs DEF Position, Descriptors, TypeOK
    <3>2. fds'[d].wr_off_ = fds[d].wr_off_ /\ writing'[d].total = writing[d].total + n
      BY <1>1 DEF Turn
    <3> QED BY <1>4, <3>1, <3>2 DEF Position
  <2>3. InFile(c, f)' /\ c # 0
    BY <1>2, <1>4, InFileIsNext, ClustersFinite DEF Free
  <2>4. at + n = q * b + (off + n)
    <3>1. q * b \in Nat
      BY <1>4
    <3> QED BY <1>4, <1>5, <3>1
  <2> QED BY <1>0, <1>2, <1>3, <1>4, <2>1, <2>2, <2>3, <2>4, CursorIsNext
<1>14. ASSUME NEW e \in Fds, e # d PROVE Cursor(e)' /\ writing'[e].len <= bytes_per_cluster
  <2>1. fds'[e] = fds[e] /\ writing'[e] = writing[e] /\ Cursor(e) /\ writing[e].len <= bytes_per_cluster
    BY <1>1, <1>14 DEF SInv, Turn
  <2>2. Position(e)' = Position(e)
    BY <2>1 DEF Position
  <2> QED BY <1>0, <1>2, <2>1, <2>2, CursorKept
<1> QED BY <1>0, <1>12, <1>13, <1>14 DEF SInv

LEMMA InitSInv == Init => SInv
<1> SUFFICES ASSUME Init PROVE SInv
  OBVIOUS
<1>1. IInv
  BY InitIInv
<1>2. ContentStored
  <2>1. \A f \in Files : Len(content[f]) = 0
    BY DEF Init
  <2> QED BY <2>1 DEF ContentStored
<1>3. ASSUME NEW d \in Fds PROVE Cursor(d) /\ writing[d].len <= bytes_per_cluster
  BY FatAssumption DEF Init, Cursor, Position, NotOpen, Idle
<1> QED BY <1>1, <1>2, <1>3 DEF SInv

LEMMA NextSInv ==
  ASSUME WriteSizes \subseteq 0 .. bytes_per_cluster
  PROVE  SInv /\ [Next]_vars => SInv'
<1> SUFFICES ASSUME SInv, [Next]_vars PROVE SInv'
  OBVIOUS
<1>1. CASE UNCHANGED vars
  <2>1. IInv' /\ IInv
    BY NextIInv DEF SInv
  <2>2. HasLayout /\ fat' = fat /\ first_cluster' = first_cluster /\ disk' = disk /\ content' = content
        /\ fds' = fds /\ writing' = writing
    BY <1>1, <2>1 DEF IInv, vars
  <2>3. PICK depth, own : Grown(depth, own, depth, own)
    BY <2>2, TableSame
  <2>4. ContentStored'
    BY <2>2, <2>3, StoredKept DEF SInv
  <2>5. ASSUME NEW d \in Fds PROVE Cursor(d)' /\ writing'[d].len <= bytes_per_cluster
    <3>1. Position(d)' = Position(d)
      BY <2>2 DEF Position
    <3> QED BY <2>1, <2>2, <2>3, <3>1, CursorKept DEF SInv
  <2> QED BY <2>1, <2>4, <2>5 DEF SInv
<1>2. CASE Next
  <2>1. PICK d \in Fds : \/ \E f \in Files : OpenFile(d, f)
                         \/ \E len \in ReadSizes : Read(d, len)
                         \/ \E len \in WriteSizes : Write(d, len)
                         \/ WriteLoop(d)
                         \/ WriteEnd(d)
    BY <1>2 DEF Next
  <2>2. \A len \in WriteSizes : len <= bytes_per_cluster
    BY FatAssumption
  <2> QED BY <2>1, <2>2, OpenStored, ReadStored, WriteStored, LoopStored, WriteEndStored
<1> QED BY <1>1, <1>2

\* If no Write is of more than a cluster, as PutString's 1024 bytes are not on
\* the image, every byte that FileDescriptor::Write took lies where the chain
\* of its file leads to: whatever the descriptors, the order of their turns and
\* the number of clusters.  (A longer one skips clusters at fat.cpp:330.)
THEOREM ContentAlwaysStored ==
  WriteSizes \subseteq 0 .. bytes_per_cluster => (Spec => []ContentStored)
<1> SUFFICES ASSUME WriteSizes \subseteq 0 .. bytes_per_cluster PROVE Spec => []ContentStored
  OBVIOUS
<1>1. Init => SInv
  BY InitSInv
<1>2. SInv /\ [Next]_vars => SInv'
  BY NextSInv
<1>3. SInv => ContentStored
  BY DEF SInv
<1> QED BY <1>1, <1>2, <1>3, PTL DEF Spec

-----------------------------------------------------------------------------
(* The bytes a Read returns. *)

LEMMA FollowOn ==
  ASSUME NEW c, NEW i \in Nat
  PROVE  \A j \in Nat : Follow(Follow(c, i), j) = Follow(c, i + j)
<1> DEFINE S == {j \in Nat : Follow(Follow(c, i), j) = Follow(c, i + j)}
<1>1. 0 \in S
  BY FollowSteps
<1>2. ASSUME NEW j \in Nat, j \in S PROVE j + 1 \in S
  <2>1. PICK m \in Nat : m = i + j
    OBVIOUS
  <2>2. Follow(Follow(c, i), j + 1) = NextCluster(Follow(Follow(c, i), j))
    BY FollowSteps
  <2>3. Follow(c, m + 1) = NextCluster(Follow(c, m))
    BY FollowSteps
  <2>4. Follow(Follow(c, i), j) = Follow(c, m) /\ m + 1 = i + (j + 1)
    BY <1>2, <2>1
  <2>5. Follow(Follow(c, i), j + 1) = Follow(c, i + (j + 1))
    BY <2>2, <2>3, <2>4
  <2> QED BY <2>5
<1>3. Nat \subseteq S
  <2> HIDE DEF S
  <2> QED BY <1>1, <1>2, NatSetInduction
<1> QED BY <1>3

LEMMA EndStaysEnd ==
  \A k \in Nat : Follow(kEndOfClusterchain, k) = kEndOfClusterchain
<1> DEFINE S == {k \in Nat : Follow(kEndOfClusterchain, k) = kEndOfClusterchain}
<1>1. 0 \in S
  BY FollowSteps
<1>2. ASSUME NEW k \in Nat, k \in S PROVE k + 1 \in S
  BY <1>2, FollowSteps, ClustersFinite DEF NextCluster
<1>3. Nat \subseteq S
  <2> HIDE DEF S
  <2> QED BY <1>1, <1>2, NatSetInduction
<1> QED BY <1>3

\* fd reads on at byte q * bytes_per_cluster + rd_cluster_off_ of its file.
ReadsAt(fd, q) ==
  /\ q \in Nat /\ ReadStart(fd) = Follow(first_cluster[fd.file], q)
  /\ fd.rd_off_ = q * bytes_per_cluster + fd.rd_cluster_off_

\* A descriptor has read nothing, or to the end of the last cluster, or it
\* stands in the cluster of its position.  A file is no longer than what was
\* written to it.
Reader(fd) ==
  \/ fd.rd_cluster_ = kEndOfClusterchain
  \/ fd.rd_cluster_ = 0 /\ fd.rd_off_ = 0 /\ fd.rd_cluster_off_ = 0
  \/ /\ fd.rd_cluster_ \in Clusters
     /\ \E q \in Nat : /\ fd.rd_cluster_ = Follow(first_cluster[fd.file], q)
                       /\ fd.rd_off_ = q * bytes_per_cluster + fd.rd_cluster_off_
Readers == \A d \in Fds : IsOpen(d) => Reader(fds[d])
Sizes == \A f \in Files : file_size[f] <= Len(content[f])

RInv == SInv /\ Readers /\ Sizes

\* Reading where the content is stored.
LEMMA ReadIsContent ==
  ASSUME TypeOK, ContentStored, Sizes, NEW fd, NEW q, ReadsAt(fd, q), NEW len \in Nat,
         fd.file \in Files, fd.rd_cluster_off_ \in 0 .. bytes_per_cluster - 1, fd.rd_off_ \in Nat,
         fd.rd_off_ <= file_size[fd.file]
  PROVE  ReadBytes(fd, len) = Expected(fd, len)
<1>1. PICK b, f, r, o, size, text : /\ b = bytes_per_cluster /\ f = fd.file /\ r = fd.rd_off_ /\ o = fd.rd_cluster_off_
                                    /\ size = file_size[f] /\ text = content[f]
  OBVIOUS
<1>2. /\ b \in Nat \ {0} /\ f \in Files /\ r \in Nat /\ o \in 0 .. b - 1 /\ size \in Nat /\ r <= size /\ q \in Nat
      /\ text \in Seq(Bytes) /\ Len(text) \in Nat /\ size <= Len(text) /\ r = q * b + o
  BY <1>1, FatAssumption DEF TypeOK, Sizes, ReadsAt
<1>3. PICK m : m = Minimum(len, size - r)
  OBVIOUS
<1>4. m \in Nat /\ r + m <= size /\ ReadLength(fd, len) = m
  BY <1>1, <1>2, <1>3 DEF Minimum, ReadLength
<1>5. PICK bytes, want : bytes = ReadBytes(fd, len) /\ want = Expected(fd, len)
  OBVIOUS
<1>6. want = SubSeq(text, r + 1, r + m)
  BY <1>1, <1>3, <1>5 DEF Expected
<1>7. /\ want \in Seq(Bytes) /\ Len(want) = m
      /\ \A k \in 1 .. m : want[k] = text[r + k]
  <2>1. \A i \in r + 1 .. r + m : text[i] \in Bytes
    <3>1. \A i \in r + 1 .. r + m : i \in 1 .. Len(text)
      BY <1>2, <1>4
    <3> QED BY <1>2, <3>1
  <2>2. r + 1 \in Int /\ r + m \in Int /\ (r + m) - (r + 1) + 1 = m /\ (r + 1 <= r + m <=> m # 0)
    BY <1>2, <1>4
  <2>3. /\ want \in Seq(Bytes) /\ Len(want) = IF r + 1 <= r + m THEN (r + m) - (r + 1) + 1 ELSE 0
        /\ \A i \in 1 .. (r + m) - (r + 1) + 1 : want[i] = text[(r + 1) + i - 1]
    BY <1>6, <2>1, <2>2, SubSeqProperties
  <2>4. \A i \in 1 .. m : (r + 1) + i - 1 = r + i
    BY <1>2, <1>4
  <2> QED BY <1>4, <2>2, <2>3, <2>4
<1>8. bytes = [k \in 1 .. m |->
        IF Follow(ReadStart(fd), (o + k - 1) \div b) \in Clusters
        THEN disk[Follow(ReadStart(fd), (o + k - 1) \div b)][(o + k - 1) % b] ELSE Wild]
  BY <1>1, <1>4, <1>5 DEF ReadBytes
<1>9. ASSUME NEW k \in 1 .. m PROVE bytes[k] = text[r + k]
  <2>1. PICK j, p, i : j = o + k - 1 /\ p = (o + k - 1) \div b /\ i = (o + k - 1) % b
    OBVIOUS
  <2>2. j \in Nat /\ p \in Nat /\ i \in 0 .. b - 1 /\ j = b * p + i
    <3>1. j \in Nat
      BY <1>2, <1>4, <2>1
    <3> QED BY <1>2, <2>1, <3>1, DivMod
  <2>3. PICK s \in Nat : s = q + p
    BY <1>2, <2>2
  <2>4. r + k \in 1 .. Len(text) /\ (r + k) - 1 = s * b + i
    <3>1. r + k \in 1 .. Len(text) /\ (r + k) - 1 = q * b + j
      <4>1. PICK n \in Nat : n = q * b
        BY <1>2
      <4>2. r = n + o
        BY <1>2, <4>1
      <4> QED BY <1>2, <1>4, <2>1, <4>1, <4>2
    <3>2. (q + p) * b = q * b + b * p
      BY <1>2, <2>2
    <3>3. q * b \in Nat /\ b * p \in Nat
      BY <1>2, <2>2
    <3> QED BY <2>2, <2>3, <3>1, <3>2, <3>3
  <2>5. (s * b + i) \div b = s /\ (s * b + i) % b = i
    BY <1>2, <2>2, DivModUnique
  <2>6. PICK x : x = Follow(first_cluster[f], s)
    OBVIOUS
  <2>7. x \in Clusters /\ disk[x][i] = text[r + k]
    <3>1. \A n \in 1 .. Len(text) :
            /\ Follow(first_cluster[f], (n - 1) \div b) \in Clusters
            /\ disk[Follow(first_cluster[f], (n - 1) \div b)][(n - 1) % b] = text[n]
      BY <1>1, <1>2 DEF ContentStored
    <3>2. PICK n : n = r + k
      OBVIOUS
    <3>3. n \in 1 .. Len(text) /\ (n - 1) \div b = s /\ (n - 1) % b = i
      BY <2>4, <2>5, <3>2
    <3> QED BY <2>6, <3>1, <3>2, <3>3
  <2>8. Follow(ReadStart(fd), p) = x
    <3>1. ReadStart(fd) = Follow(first_cluster[f], q)
      BY <1>1 DEF ReadsAt
    <3>2. Follow(Follow(first_cluster[f], q), p) = Follow(first_cluster[f], q + p)
      BY <1>2, <2>2, FollowOn
    <3> QED BY <2>3, <2>6, <3>1, <3>2
  <2> QED BY <1>8, <2>1, <2>7, <2>8
<1>10. DOMAIN bytes = 1 .. m /\ bytes = [k \in 1 .. m |-> bytes[k]]
  BY <1>8
<1>11. want = [k \in 1 .. m |-> want[k]]
  <2>1. want \in [1 .. m -> Bytes]
    BY <1>7, SequenceParts
  <2> QED BY <2>1
<1>12. bytes = want
  <2>1. \A k \in 1 .. m : bytes[k] = want[k]
    BY <1>7, <1>9
  <2> QED BY ONLY <1>10, <1>11, <2>1
<1> QED BY <1>5, <1>12

LEMMA ReadersRead == RInv => ReadReturnsContent
<1> SUFFICES ASSUME RInv, NEW d \in Fds, NEW len \in ReadSizes, IsOpen(d), ~InCall(d)
             PROVE  /\ ~Outrun(fds[d]) => ReadBytes(fds[d], len) = Expected(fds[d], len)
                    /\ \A offset \in 0 .. file_size[fds[d].file] - 1 :
                         ReadBytes(LoadFd(fds[d].file, offset), len) = Expected(LoadFd(fds[d].file, offset), len)
  BY DEF ReadReturnsContent
<1>0. TypeOK /\ ContentStored /\ Sizes /\ Reader(fds[d]) /\ len \in Nat /\ bytes_per_cluster \in Nat \ {0}
  BY FatAssumption DEF RInv, SInv, IInv, Readers
<1>1. PICK fd, f : fd = fds[d] /\ f = fds[d].file
  OBVIOUS
<1>2. /\ fd \in Descriptors /\ f \in Files /\ fd.file = f /\ fd.rd_cluster_off_ \in 0 .. bytes_per_cluster - 1
      /\ fd.rd_off_ \in Nat /\ file_size[f] \in Nat /\ Len(content[f]) \in Nat /\ file_size[f] <= Len(content[f])
  <2>1. fd \in Descriptors /\ f \in Files
    BY <1>0, <1>1, OpenIs
  <2>2. fd.file = f /\ fd.rd_cluster_off_ \in 0 .. bytes_per_cluster - 1 /\ fd.rd_off_ \in Nat
    BY <1>1, <2>1 DEF Descriptors
  <2>3. file_size[f] \in Nat /\ content[f] \in Seq(Bytes)
    BY <1>0, <2>1 DEF TypeOK
  <2> QED BY <1>0, <2>1, <2>2, <2>3 DEF Sizes
<1>3. ASSUME ~Outrun(fd) PROVE ReadBytes(fd, len) = Expected(fd, len)
  <2>1. fd.rd_off_ <= file_size[f] /\ fd.rd_cluster_ # kEndOfClusterchain
    BY <1>2, <1>3 DEF Outrun
  <2>2. PICK q : ReadsAt(fd, q)
    <3>1. CASE fd.rd_cluster_ = 0 /\ fd.rd_off_ = 0 /\ fd.rd_cluster_off_ = 0
      <4>1. ReadStart(fd) = Follow(first_cluster[fd.file], 0)
        BY <3>1, FollowSteps DEF ReadStart
      <4>2. 0 = 0 * bytes_per_cluster + 0
        BY <1>0
      <4>3. ReadsAt(fd, 0)
        BY <3>1, <4>1, <4>2 DEF ReadsAt
      <4> QED BY <4>3
    <3>2. CASE /\ fd.rd_cluster_ \in Clusters
               /\ \E q \in Nat : /\ fd.rd_cluster_ = Follow(first_cluster[fd.file], q)
                                 /\ fd.rd_off_ = q * bytes_per_cluster + fd.rd_cluster_off_
      <4>1. fd.rd_cluster_ # 0
        BY <3>2, ClustersFinite DEF Free
      <4> QED BY <3>2, <4>1 DEF ReadsAt, ReadStart
    <3> QED BY <1>0, <1>1, <2>1, <3>1, <3>2 DEF Reader
  <2> QED BY <1>0, <1>2, <2>1, <2>2, ReadIsContent
<1>4. ASSUME NEW offset \in 0 .. file_size[f] - 1
      PROVE  ReadBytes(LoadFd(f, offset), len) = Expected(LoadFd(f, offset), len)
  <2>1. PICK q, i, c : q = offset \div bytes_per_cluster /\ i = offset % bytes_per_cluster /\ c = Follow(first_cluster[f], q)
    OBVIOUS
  <2>2. /\ offset \in Nat /\ offset < file_size[f] /\ q \in Nat /\ i \in 0 .. bytes_per_cluster - 1
        /\ offset = bytes_per_cluster * q + i
    <3>1. offset \in Nat /\ offset < file_size[f]
      BY <1>2, <1>4
    <3> QED BY <1>0, <2>1, <3>1, DivMod
  <2>3. c \in Clusters /\ c # 0
    <3>1. PICK k : k = offset + 1
      OBVIOUS
    <3>2. k \in 1 .. Len(content[f]) /\ k - 1 = offset
      BY <1>2, <2>2, <3>1
    <3>3. Follow(first_cluster[f], (k - 1) \div bytes_per_cluster) \in Clusters
      BY <1>0, <1>2, <3>2 DEF ContentStored
    <3> QED BY <2>1, <3>2, <3>3, ClustersFinite DEF Free
  <2>4. PICK load : load = LoadFd(f, offset)
    OBVIOUS
  <2>5. load.file = f /\ load.rd_off_ = offset /\ load.rd_cluster_ = c /\ load.rd_cluster_off_ = i
    BY <2>1, <2>4 DEF LoadFd, NotOpen
  <2>6. offset = q * bytes_per_cluster + i
    BY <1>0, <2>2
  <2>7. ReadsAt(load, q)
    BY <2>1, <2>2, <2>3, <2>5, <2>6 DEF ReadsAt, ReadStart
  <2>8. load.rd_off_ <= file_size[load.file]
    BY <1>2, <2>2, <2>5
  <2>9. ReadBytes(load, len) = Expected(load, len)
    BY <1>0, <1>2, <2>2, <2>5, <2>7, <2>8, ReadIsContent
  <2> QED BY <2>4, <2>9
<1> QED BY <1>1, <1>3, <1>4

\* Steps that read nothing.
LEMMA ReaderKept ==
  ASSUME NEW depth, NEW own, NEW depth2, NEW own2, Grown(depth, own, depth2, own2),
         NEW fd, NEW fd2, fd.file \in Files, Reader(fd), fd2.file = fd.file,
         fd2.rd_off_ = fd.rd_off_, fd2.rd_cluster_ = fd.rd_cluster_, fd2.rd_cluster_off_ = fd.rd_cluster_off_
  PROVE  Reader(fd2)'
<1>1. CASE /\ fd.rd_cluster_ \in Clusters
           /\ \E q \in Nat : /\ fd.rd_cluster_ = Follow(first_cluster[fd.file], q)
                             /\ fd.rd_off_ = q * bytes_per_cluster + fd.rd_cluster_off_
  <2>1. PICK q \in Nat : /\ fd.rd_cluster_ = Follow(first_cluster[fd.file], q)
                         /\ fd.rd_off_ = q * bytes_per_cluster + fd.rd_cluster_off_
    BY <1>1
  <2>2. PICK x, f : x = fd.rd_cluster_ /\ f = fd.file
    OBVIOUS
  <2>3. x \in Used(fat) /\ own[x] = f /\ depth[x] = q
    BY <1>1, <2>1, <2>2, PlaceInFile DEF Grown
  <2>4. x \in Used(fat') /\ own2[x] = f /\ depth2[x] = q
    BY <2>3 DEF Grown
  <2>5. x = Follow(first_cluster[f], q)'
    BY <2>2, <2>4, PlaceInFileNext DEF Grown
  <2> QED BY <1>1, <2>1, <2>2, <2>5 DEF Reader
<1>2. CASE ~(/\ fd.rd_cluster_ \in Clusters
             /\ \E q \in Nat : /\ fd.rd_cluster_ = Follow(first_cluster[fd.file], q)
                               /\ fd.rd_off_ = q * bytes_per_cluster + fd.rd_cluster_off_)
  BY <1>2 DEF Reader
<1> QED BY <1>1, <1>2

SameReader(d) ==
  /\ fds'[d].file = fds[d].file /\ fds'[d].rd_off_ = fds[d].rd_off_
  /\ fds'[d].rd_cluster_ = fds[d].rd_cluster_ /\ fds'[d].rd_cluster_off_ = fds[d].rd_cluster_off_

LEMMA SameReaders ==
  ASSUME RInv, SInv', Grows, NEW d \in Fds, IsOpen(d)', SameReader(d)
  PROVE  Reader(fds[d])'
<1>1. PICK fd, fd2 : fd = fds[d] /\ fd2 = fds'[d]
  OBVIOUS
<1>2. fd.file \in Files
  BY <1>1, OpenIsNext DEF SInv, IInv, SameReader
<1>3. Reader(fd)
  BY <1>1, <1>2, OpenIs DEF RInv, Readers, SInv, IInv
<1>4. PICK depth, own, depth2, own2 : Grown(depth, own, depth2, own2)
  BY DEF Grows
<1>5. Reader(fd2)'
  BY <1>1, <1>2, <1>3, <1>4, ReaderKept DEF SameReader
<1> QED BY <1>1, <1>5

\* A Read moves a descriptor by as many bytes as it returns.
LEMMA ReaderMoves ==
  ASSUME RInv, NEW d \in Fds, NEW len \in ReadSizes, Read(d, len)
  PROVE  Reader(fds[d])'
<1>0. /\ TypeOK /\ ContentStored /\ Sizes /\ HasLayout /\ IsOpen(d) /\ Reader(fds[d]) /\ len \in Nat /\ bytes_per_cluster \in Nat \ {0}
      /\ fds' = [fds EXCEPT ![d] = AfterRead(fds[d], len)] /\ fat' = fat /\ first_cluster' = first_cluster
  BY FatAssumption DEF RInv, SInv, IInv, Readers, Read
<1>1. PICK fd, f, b, o, r : fd = fds[d] /\ f = fds[d].file /\ b = bytes_per_cluster /\ o = fds[d].rd_cluster_off_ /\ r = fds[d].rd_off_
  OBVIOUS
<1>2. fd \in Descriptors /\ f \in Files /\ fd.file = f /\ o = fd.rd_cluster_off_ /\ r = fd.rd_off_ /\ o \in 0 .. b - 1 /\ r \in Nat /\ b \in Nat \ {0}
  <2>1. fd \in Descriptors /\ f \in Files
    BY <1>0, <1>1, OpenIs
  <2> QED BY <1>0, <1>1, <2>1 DEF Descriptors
<1>3. PICK depth, own : Layout(fat, first_cluster, depth, own)
  BY <1>0 DEF HasLayout
<1>4. PICK n, pos : n = ReadLength(fd, len) /\ pos = o + ReadLength(fd, len)
  OBVIOUS
<1>5. n \in Nat /\ pos \in Nat /\ pos = o + n
  <2>1. file_size[f] \in Nat
    BY <1>0, <1>2 DEF TypeOK
  <2> QED BY <1>0, <1>2, <1>4, <2>1 DEF ReadLength, Minimum
<1>6. PICK p, i, start, c : p = pos \div b /\ i = pos % b /\ start = ReadStart(fd) /\ c = Follow(ReadStart(fd), pos \div b)
  OBVIOUS
<1>7. p \in Nat /\ i \in 0 .. b - 1 /\ pos = b * p + i /\ c = Follow(start, p)
  BY <1>2, <1>5, <1>6, DivMod
<1>8. PICK fd2 : fd2 = fds'[d]
  OBVIOUS
<1>9. fd2.file = f /\ fd2.rd_off_ = r + n /\ fd2.rd_cluster_ = c /\ fd2.rd_cluster_off_ = i
  <2>1. fd2 = [fd EXCEPT !.rd_off_ = @ + n, !.rd_cluster_ = c, !.rd_cluster_off_ = i]
    <3>1. fds'[d] = AfterRead(fd, len)
      BY <1>0, <1>1 DEF TypeOK
    <3> QED BY <1>1, <1>2, <1>4, <1>6, <1>8, <3>1 DEF AfterRead
  <2> QED BY <1>2, <2>1 DEF Descriptors
<1>10. SUFFICES Reader(fd2)
  <2>1. Grown(depth, own, depth, own)
    BY <1>0, <1>3 DEF Grown
  <2>2. Reader(fd2)'
    BY <1>2, <1>9, <1>10, <2>1, ReaderKept
  <2> QED BY <1>8, <2>2
<1>11. ASSUME NEW q \in Nat, start = Follow(first_cluster[f], q), r = q * b + o, start \in Clusters
       PROVE  Reader(fd2)
  <2>1. start \in Used(fat)
    BY <1>2, <1>3, <1>11, PlaceInFile
  <2>2. c = kEndOfClusterchain \/ c \in Used(fat)
    BY <1>3, <1>7, <2>1, WalkStaysInChain
  <2>3. CASE c = kEndOfClusterchain
    BY <1>9, <2>3 DEF Reader
  <2>4. CASE c \in Used(fat)
    <3>1. c \in Clusters
      BY <2>4, UsedFacts
    <3>2. PICK s \in Nat : s = q + p
      BY <1>7, <1>11
    <3>3. c = Follow(first_cluster[f], s)
      BY <1>7, <1>11, <3>2, FollowOn
    <3>4. r + n = s * b + i
      <4>1. (q + p) * b = q * b + b * p /\ q * b \in Nat /\ b * p \in Nat
        BY <1>2, <1>7, <1>11
      <4>2. PICK u, v : u = q * b /\ v = b * p
        OBVIOUS
      <4>3. u \in Nat /\ v \in Nat /\ s * b = u + v /\ r = u + o /\ pos = v + i
        BY <1>7, <1>11, <3>2, <4>1, <4>2
      <4>4. o \in Nat /\ n \in Nat /\ i \in Nat /\ pos = o + n
        BY <1>2, <1>5, <1>7
      <4> QED BY ONLY <4>3, <4>4
    <3> QED BY <1>1, <1>9, <3>1, <3>3, <3>4 DEF Reader
  <2> QED BY <2>2, <2>3, <2>4
<1>12. CASE fd.rd_cluster_ = kEndOfClusterchain
  <2>1. start = kEndOfClusterchain
    BY <1>6, <1>12, ClustersFinite DEF ReadStart, Free
  <2>2. c = kEndOfClusterchain
    BY <1>7, <2>1, EndStaysEnd
  <2> QED BY <1>9, <2>2 DEF Reader
<1>13. CASE fd.rd_cluster_ = 0 /\ fd.rd_off_ = 0 /\ fd.rd_cluster_off_ = 0
  <2>1. start = first_cluster[f] /\ r = 0 /\ o = 0
    BY <1>2, <1>6, <1>13 DEF ReadStart
  <2>2. CASE first_cluster[f] # 0
    <3>1. start \in Clusters
      BY <1>0, <1>2, <2>1, <2>2 DEF TypeOK
    <3>2. start = Follow(first_cluster[f], 0) /\ 0 = 0 * b + 0
      BY <1>2, <2>1, FollowSteps
    <3> QED BY <1>11, <2>1, <3>1, <3>2
  <2>3. CASE first_cluster[f] = 0
    <3>1. content[f] \in Seq(Bytes) /\ file_size[f] \in Nat
      BY <1>0, <1>2 DEF TypeOK
    <3>2. Len(content[f]) = 0
      <4>1. ASSUME Len(content[f]) # 0 PROVE FALSE
        <5>1. 1 \in 1 .. Len(content[f])
          BY <3>1, <4>1
        <5>2. Follow(first_cluster[f], (1 - 1) \div bytes_per_cluster) \in Clusters
          BY <1>0, <1>2, <5>1 DEF ContentStored
        <5>3. PICK k : k = (1 - 1) \div bytes_per_cluster
          OBVIOUS
        <5>4. k \in Nat
          BY <1>0, <5>3, DivMod
        <5> QED BY <2>3, <5>2, <5>3, <5>4, NowhereFromNone
      <4> QED BY <4>1
    <3>3. file_size[f] = 0
      BY <1>0, <1>2, <3>1, <3>2 DEF Sizes
    <3>4. n = 0
      BY <1>0, <1>2, <1>4, <2>1, <3>3 DEF ReadLength, Minimum
    <3>5. pos = 0
      BY <1>5, <2>1, <3>4
    <3>6. p = 0 /\ i = 0
      <4>1. (0 * b + 0) \div b = 0 /\ (0 * b + 0) % b = 0
        <5>1. 0 \in 0 .. b - 1
          BY <1>2
        <5> QED BY <1>2, <5>1, DivModUnique
      <4>2. 0 * b + 0 = 0
        BY <1>2
      <4> QED BY <1>6, <3>5, <4>1, <4>2
    <3>7. c = 0
      BY <1>7, <2>1, <2>3, <3>6, FollowSteps
    <3> QED BY <1>9, <2>1, <3>4, <3>6, <3>7 DEF Reader
  <2> QED BY <2>2, <2>3
<1>14. CASE /\ fd.rd_cluster_ \in Clusters
            /\ \E q \in Nat : /\ fd.rd_cluster_ = Follow(first_cluster[fd.file], q)
                              /\ fd.rd_off_ = q * bytes_per_cluster + fd.rd_cluster_off_
  <2>1. start = fd.rd_cluster_
    BY <1>6, <1>14, ClustersFinite DEF ReadStart, Free
  <2> QED BY <1>1, <1>2, <1>11, <1>14, <2>1
<1> QED BY <1>0, <1>1, <1>12, <1>13, <1>14 DEF Reader

LEMMA SizesKept ==
  ASSUME RInv, SInv', file_size' = file_size, \A f \in Files : Len(content[f]) <= Len(content'[f])
  PROVE  Sizes'
<1>1. ASSUME NEW f \in Files PROVE file_size[f] <= Len(content'[f])
  <2>1. PICK a, l, m : a = file_size[f] /\ l = Len(content[f]) /\ m = Len(content'[f])
    OBVIOUS
  <2>2. content[f] \in Seq(Bytes) /\ content'[f] \in Seq(Bytes) /\ a \in Nat
    BY <2>1 DEF RInv, SInv, IInv, TypeOK
  <2>3. l \in Nat /\ m \in Nat /\ l <= m /\ a <= l
    BY <2>1, <2>2 DEF RInv, Sizes
  <2>4. a <= m
    BY <2>2, <2>3
  <2> QED BY <2>1, <2>4
<1> QED BY <1>1 DEF Sizes

LEMMA OpenReads ==
  ASSUME RInv, NEW d \in Fds, NEW f \in Files, OpenFile(d, f)
  PROVE  RInv'
<1>1. SInv /\ SInv' /\ Grows /\ TypeOK
  BY OpenStored, OpenStep DEF RInv, SInv, IInv
<1>2. /\ fds' = [fds EXCEPT ![d] = [NotOpen EXCEPT !.file = f]] /\ content' = content
      /\ file_size' = file_size \/ file_size' = [file_size EXCEPT ![f] = 0]
  BY DEF OpenFile, CreateFile
<1>3. fds'[d] = [NotOpen EXCEPT !.file = f] /\ \A e \in Fds \ {d} : fds'[e] = fds[e]
  BY <1>1, <1>2 DEF TypeOK
<1>4. ASSUME NEW e \in Fds, IsOpen(e)' PROVE Reader(fds[e])'
  <2>1. CASE e = d
    BY <1>3, <2>1 DEF NotOpen, Reader
  <2>2. CASE e # d
    <3>1. SameReader(e)
      BY <1>3, <2>2 DEF SameReader
    <3> QED BY <1>1, <1>4, <3>1, SameReaders
  <2> QED BY <2>1, <2>2
<1>5. Sizes'
  <2>1. ASSUME NEW g \in Files PROVE file_size'[g] <= Len(content[g])
    <3>1. file_size \in [Files -> Nat] /\ content[g] \in Seq(Bytes) /\ file_size[g] <= Len(content[g])
      BY <1>1 DEF TypeOK, RInv, Sizes
    <3>2. file_size'[g] = file_size[g] \/ file_size'[g] = 0
      BY <1>2, <3>1
    <3>3. 0 <= Len(content[g])
      BY <3>1
    <3> QED BY <3>1, <3>2, <3>3
  <2> QED BY <1>2, <2>1 DEF Sizes
<1> QED BY <1>1, <1>4, <1>5 DEF RInv, Readers

LEMMA ReadReads ==
  ASSUME RInv, NEW d \in Fds, NEW len \in ReadSizes, Read(d, len)
  PROVE  RInv'
<1>1. SInv /\ SInv' /\ TypeOK /\ HasLayout
  BY ReadStored DEF RInv, SInv, IInv
<1>2. /\ fds' = [fds EXCEPT ![d] = AfterRead(fds[d], len)]
      /\ fat' = fat /\ first_cluster' = first_cluster /\ content' = content /\ file_size' = file_size
  BY DEF Read
<1>3. \A e \in Fds \ {d} : fds'[e] = fds[e]
  BY <1>1, <1>2 DEF TypeOK
<1>4. Grows
  BY <1>1, <1>2, TableSame DEF Grows
<1>5. ASSUME NEW e \in Fds, IsOpen(e)' PROVE Reader(fds[e])'
  <2>1. CASE e = d
    BY <2>1, ReaderMoves
  <2>2. CASE e # d
    <3>1. SameReader(e)
      BY <1>3, <2>2 DEF SameReader
    <3> QED BY <1>1, <1>4, <1>5, <3>1, SameReaders
  <2> QED BY <2>1, <2>2
<1>6. Sizes'
  BY <1>1, <1>2, SameContent, SizesKept
<1> QED BY <1>1, <1>5, <1>6 DEF RInv, Readers

LEMMA WriteReads ==
  ASSUME RInv, NEW d \in Fds, NEW len \in WriteSizes, len <= bytes_per_cluster, Write(d, len)
  PROVE  RInv'
<1>1. SInv /\ SInv' /\ Grows /\ TypeOK /\ IsOpen(d)
  BY WriteStored, WriteStep DEF RInv, SInv, IInv, Write
<1>2. content' = content /\ file_size' = file_size /\ (fds' = fds \/ \E c : fds' = [fds EXCEPT ![d].wr_cluster_ = c])
  BY DEF Write
<1>3. fds[d] \in Descriptors
  BY <1>1, OpenIs
<1>4. ASSUME NEW e \in Fds, IsOpen(e)' PROVE Reader(fds[e])'
  <2>1. CASE fds' = fds
    <3>1. SameReader(e)
      BY <2>1 DEF SameReader
    <3> QED BY <1>1, <1>4, <3>1, SameReaders
  <2>2. ASSUME NEW c, fds' = [fds EXCEPT ![d].wr_cluster_ = c] PROVE Reader(fds[e])'
    <3>1. fds'[d] = [fds[d] EXCEPT !.wr_cluster_ = c] /\ \A x \in Fds \ {d} : fds'[x] = fds[x]
      BY <1>1, <2>2 DEF TypeOK
    <3>2. SameReader(e)
      BY <1>3, <3>1 DEF SameReader, Descriptors
    <3> QED BY <1>1, <1>4, <3>2, SameReaders
  <2> QED BY <1>2, <2>1, <2>2
<1>5. Sizes'
  BY <1>1, <1>2, SameContent, SizesKept
<1> QED BY <1>1, <1>4, <1>5 DEF RInv, Readers

LEMMA LoopReads ==
  ASSUME RInv, NEW d \in Fds, WriteLoop(d)
  PROVE  RInv'
<1>1. SInv /\ SInv' /\ IInv /\ IInv' /\ TypeOK /\ Writer(d) /\ InCall(d) /\ IsOpen(d) /\ file_size' = file_size
  BY LoopStored DEF RInv, SInv, IInv, Writers, Writer, WriteLoop
<1>2. PICK c, off, n, at, f, new, depth, own, depth2, own2 :
        Turn(d, c, off, n, at, f, new) /\ Place(d, c, off, f, depth, own, depth2, own2)
  BY <1>1, LoopPlaces
<1>3. Grows
  BY <1>2 DEF Place, Grows
<1>4. PICK x, y : fds' = [fds EXCEPT ![d].wr_cluster_ = x, ![d].wr_cluster_off_ = y]
  <2>1. \E x, y : Fill(d, x, y)
    BY DEF WriteLoop
  <2> QED BY <2>1 DEF Fill
<1>5. fds[d] \in Descriptors
  BY <1>1, OpenIs
<1>6. ASSUME NEW e \in Fds, IsOpen(e)' PROVE Reader(fds[e])'
  <2>0. fds'[d] = [fds[d] EXCEPT !.wr_cluster_ = x, !.wr_cluster_off_ = y] /\ \A z \in Fds \ {d} : fds'[z] = fds[z]
    BY <1>1, <1>4 DEF TypeOK
  <2>1. SameReader(e)
    BY <1>5, <2>0 DEF SameReader, Descriptors
  <2> QED BY <1>1, <1>3, <1>6, <2>1, SameReaders
<1>7. \A g \in Files : Len(content[g]) <= Len(content'[g])
  <2>1. /\ f \in Files /\ content[f] \in Seq(Bytes) /\ at \in Nat /\ at <= Len(content[f]) /\ new \in Seq(Bytes)
        /\ content'[f] = Overwrite(content[f], at, new)
    BY <1>1, <1>2 DEF Turn, TypeOK, Writer
  <2>2. PICK old : old = content[f]
    OBVIOUS
  <2>3. Len(old) <= Len(Overwrite(old, at, new))
    BY <2>1, <2>2, OverwriteIs
  <2>4. \A g \in Files \ {f} : content'[g] = content[g] /\ Len(content[g]) \in Nat
    BY <1>1, <1>2 DEF Turn, TypeOK
  <2> QED BY <2>1, <2>2, <2>3, <2>4
<1>8. Sizes'
  BY <1>1, <1>7, SizesKept
<1> QED BY <1>1, <1>6, <1>8 DEF RInv, Readers

LEMMA EndReads ==
  ASSUME RInv, NEW d \in Fds, WriteEnd(d)
  PROVE  RInv'
<1>1. SInv /\ SInv' /\ TypeOK /\ HasLayout /\ Writer(d) /\ IsOpen(d)
  BY WriteEndStored DEF RInv, SInv, IInv, Writers, Writer, WriteEnd
<1>2. PICK end, f : end = fds[d].wr_off_ + writing[d].total /\ f = fds[d].file
  OBVIOUS
<1>3. /\ fds' = [fds EXCEPT ![d].wr_off_ = end] /\ file_size' = [file_size EXCEPT ![f] = end]
      /\ fat' = fat /\ first_cluster' = first_cluster /\ content' = content
  BY <1>2 DEF WriteEnd
<1>4. fds[d] \in Descriptors /\ f \in Files
  BY <1>1, <1>2, OpenIs
<1>5. Grows
  BY <1>1, <1>3, TableSame DEF Grows
<1>6. ASSUME NEW e \in Fds, IsOpen(e)' PROVE Reader(fds[e])'
  <2>1. SameReader(e)
    BY <1>1, <1>3, <1>4 DEF SameReader, TypeOK, Descriptors
  <2> QED BY <1>1, <1>5, <1>6, <2>1, SameReaders
<1>7. Sizes'
  <2>1. end <= Len(content[f])
    BY <1>1, <1>2 DEF Writer, Position
  <2>2. \A g \in Files : file_size[g] <= Len(content[g])
    BY DEF RInv, Sizes
  <2>3. \A g \in Files : file_size'[g] = IF g = f THEN end ELSE file_size[g]
    BY <1>1, <1>3 DEF TypeOK
  <2> QED BY <1>3, <2>1, <2>2, <2>3 DEF Sizes
<1> QED BY <1>1, <1>6, <1>7 DEF RInv, Readers

LEMMA NextRInv ==
  ASSUME WriteSizes \subseteq 0 .. bytes_per_cluster
  PROVE  RInv /\ [Next]_vars => RInv'
<1> SUFFICES ASSUME RInv, [Next]_vars PROVE RInv'
  OBVIOUS
<1>1. CASE UNCHANGED vars
  <2>1. SInv' /\ TypeOK /\ HasLayout
    BY NextSInv DEF RInv, SInv, IInv
  <2>2. fat' = fat /\ first_cluster' = first_cluster /\ content' = content /\ fds' = fds /\ file_size' = file_size
    BY <1>1 DEF vars
  <2>3. Grows
    BY <2>1, <2>2, TableSame DEF Grows
  <2>4. ASSUME NEW e \in Fds, IsOpen(e)' PROVE Reader(fds[e])'
    BY <2>1, <2>2, <2>3, <2>4, SameReaders DEF SameReader
  <2>5. Sizes'
    BY <2>1, <2>2, SameContent, SizesKept
  <2> QED BY <2>1, <2>4, <2>5 DEF RInv, Readers
<1>2. CASE Next
  <2>1. PICK d \in Fds : \/ \E f \in Files : OpenFile(d, f)
                         \/ \E len \in ReadSizes : Read(d, len)
                         \/ \E len \in WriteSizes : Write(d, len)
                         \/ WriteLoop(d)
                         \/ WriteEnd(d)
    BY <1>2 DEF Next
  <2>2. \A len \in WriteSizes : len <= bytes_per_cluster
    BY FatAssumption
  <2> QED BY <2>1, <2>2, OpenReads, ReadReads, WriteReads, LoopReads, EndReads
<1> QED BY <1>1, <1>2

\* Under the same bound, FileDescriptor::Read and Load return the bytes of the
\* file from their position on, up to its size: after any calls, while others
\* write, for every length and every size of the volume.
THEOREM ReadsAlwaysReturnContent ==
  WriteSizes \subseteq 0 .. bytes_per_cluster => (Spec => []ReadReturnsContent)
<1> SUFFICES ASSUME WriteSizes \subseteq 0 .. bytes_per_cluster PROVE Spec => []ReadReturnsContent
  OBVIOUS
<1>1. Init => RInv
  <2> SUFFICES ASSUME Init PROVE RInv
    OBVIOUS
  <2>1. SInv
    BY InitSInv
  <2>2. Readers /\ Sizes
    BY DEF Init, Readers, Sizes, IsOpen
  <2> QED BY <2>1, <2>2 DEF RInv
<1>2. RInv /\ [Next]_vars => RInv'
  BY NextRInv
<1>3. RInv => ReadReturnsContent
  BY ReadersRead
<1> QED BY <1>1, <1>2, <1>3, PTL DEF Spec

=============================================================================
