--------------------------- MODULE FatFiles_proofs ---------------------------
(***************************************************************************)
(* Proofs about the files of fat.c, on every disk, with files, handles and *)
(* requests of every size, for the calls that use no handle in one of the  *)
(* ways (Patterns) that fat.c does not get right.                          *)
(*                                                                         *)
(* What is proved of a write and of a read, from any state in which the    *)
(* tables are in order and the handle is where its last call left it, is   *)
(* used twice: for the invariant, and for what the calls do.  The loops of *)
(* both are runs of steps, and what holds after each step is said by       *)
(* Going (a write) and Looping (a read).                                   *)
(***************************************************************************)
EXTENDS FatFiles, Counting, SequenceTheorems, TLAPS

(***************************************************************************)
(* Division.                                                               *)
(***************************************************************************)
LEMMA DivMod ==
  ASSUME NEW a \in Int, NEW b \in Nat \ {0}
  PROVE  /\ a \div b \in Int /\ a % b \in 0 .. b - 1
         /\ a = b * (a \div b) + (a % b)
         /\ a >= 0 => a \div b \in Nat
<1> DEFINE k == a \div b
           m == a % b
<1>2. k \in Int /\ m \in 0 .. b - 1 /\ a = b * k + m
  <2>1. k \in Int
    OBVIOUS
  <2>2. m \in 0 .. b - 1
    OBVIOUS
  <2>3. a = b * k + m
    OBVIOUS
  <2> QED
    BY <2>1, <2>2, <2>3
<1> HIDE DEF k, m
<1>3. ASSUME a >= 0, k < 0 PROVE FALSE
  <2>1. 0 - k - 1 \in Nat
    BY <1>2, <1>3
  <2>2. b * (0 - k - 1) >= 0
    BY <2>1
  <2>3. b * (0 - k - 1) = 0 - b * k - b
    BY <1>2
  <2> QED
    BY <1>2, <1>3, <2>2, <2>3
<1>4. k = a \div b /\ m = a % b
  BY DEF k, m
<1>5. a >= 0 => k \in Nat
  BY <1>2, <1>3
<1> QED
  BY <1>2, <1>4, <1>5

LEMMA DivModNat ==
  ASSUME NEW a \in Nat, NEW b \in Nat \ {0}
  PROVE  a \div b \in Nat /\ a % b \in 0 .. b - 1 /\ a = b * (a \div b) + (a % b)
BY DivMod, a \in Int, a >= 0

LEMMA DivModIs ==
  ASSUME NEW a \in Int, NEW b \in Nat \ {0}, NEW q \in Int, NEW r \in 0 .. b - 1, a = b * q + r
  PROVE  a \div b = q /\ a % b = r
<1>1. a \div b \in Int /\ a % b \in 0 .. b - 1 /\ a = b * (a \div b) + (a % b)
  BY DivMod
<1> DEFINE k == a \div b
           m == a % b
<1>2. k \in Int /\ m \in 0 .. b - 1 /\ a = b * k + m
  BY <1>1
<1> HIDE DEF k, m
<1>3. ~ (k < q)
  <2> SUFFICES ASSUME k < q PROVE FALSE
    OBVIOUS
  <2>1. q - k - 1 \in Nat
    BY <1>2
  <2>2. b * (q - k - 1) >= 0
    BY <2>1
  <2>3. b * (q - k - 1) = b * q - b * k - b
    BY <1>2
  <2> QED
    BY <1>2, <2>2, <2>3
<1>4. ~ (k > q)
  <2> SUFFICES ASSUME k > q PROVE FALSE
    OBVIOUS
  <2>1. k - q - 1 \in Nat
    BY <1>2
  <2>2. b * (k - q - 1) >= 0
    BY <2>1
  <2>3. b * (k - q - 1) = b * k - b * q - b
    BY <1>2
  <2> QED
    BY <1>2, <2>2, <2>3
<1>5. k = q
  BY <1>2, <1>3, <1>4
<1> QED
  BY <1>2, <1>5 DEF k, m

LEMMA DivOrder ==
  ASSUME NEW a \in Int, NEW c \in Int, NEW b \in Nat \ {0}, a <= c
  PROVE  a \div b <= c \div b
<1> DEFINE k == a \div b
           m == a % b
           l == c \div b
           n == c % b
<1>1. k \in Int /\ m \in 0 .. b - 1 /\ a = b * k + m
  BY DivMod
<1>2. l \in Int /\ n \in 0 .. b - 1 /\ c = b * l + n
  BY DivMod
<1> HIDE DEF k, m, l, n
<1>3. ASSUME l < k PROVE FALSE
  <2>1. k - l - 1 \in Nat
    BY <1>1, <1>2, <1>3
  <2>2. b * (k - l - 1) >= 0
    BY <2>1
  <2>3. b * (k - l - 1) = b * k - b * l - b
    BY <1>1, <1>2
  <2> QED
    BY <1>1, <1>2, <2>2, <2>3
<1> QED
  BY <1>1, <1>2, <1>3 DEF k, l

(* Sectors of n bytes, clusters of c sectors.                              *)
(* The bytes p, in clusters of c sectors of n bytes.                       *)
InClusters(p, c, n) ==
  /\ c * n \in Nat \ {0}
  /\ p \div (c * n) = (p \div n) \div c
  /\ p % (c * n) = n * ((p \div n) % c) + (p % n)
  /\ (p % (c * n)) \div n = (p \div n) % c
  /\ (p % (c * n)) % n = p % n

LEMMA SectorsInClusters ==
  ASSUME NEW p \in Nat, NEW n \in Nat \ {0}, NEW c \in Nat \ {0}
  PROVE  InClusters(p, c, n)
<1> DEFINE q == p \div n
           o == p % n
           k == q \div c
           u == q % c
<1>1. q \in Nat /\ o \in 0 .. n - 1 /\ p = n * q + o
  BY DivModNat
<1> HIDE DEF q, o
<1>2. k \in Nat /\ u \in 0 .. c - 1 /\ q = c * k + u
  BY <1>1, DivModNat
<1> HIDE DEF k, u
<1>3. c * n \in Nat \ {0}
  OBVIOUS
<1>4. n * u \in Nat /\ n * u <= n * (c - 1)
  <2>1. c - 1 - u \in Nat /\ u \in Nat
    BY <1>2
  <2>2. n * (c - 1 - u) >= 0 /\ n * u \in Nat
    BY <2>1
  <2>3. n * (c - 1 - u) = n * (c - 1) - n * u
    BY <2>1
  <2> QED
    BY <2>2, <2>3
<1>5. n * (c - 1) = c * n - n
  OBVIOUS
<1>6. n * u + o \in 0 .. c * n - 1
  BY <1>1, <1>3, <1>4, <1>5
<1>7. n * (c * k + u) = (c * n) * k + n * u
  BY <1>2
<1>8. p = (c * n) * k + (n * u + o)
  BY <1>1, <1>2, <1>7
<1>9. p \div (c * n) = k /\ p % (c * n) = n * u + o
  BY <1>2, <1>3, <1>6, <1>8, DivModIs
<1>10. (n * u + o) \div n = u /\ (n * u + o) % n = o
  BY <1>1, <1>2, <1>4, DivModIs
<1>11. k = q \div c /\ u = q % c
  BY DEF k, u
<1>12. (p \div (c * n) = q \div c) /\ p % (c * n) = n * (q % c) + o
  BY ONLY <1>9, <1>11
<1>13. (p % (c * n)) \div n = q % c /\ (p % (c * n)) % n = o
  BY ONLY <1>9, <1>10, <1>11
<1>14. q = p \div n /\ o = p % n
  BY DEF q, o
<1> QED
  BY ONLY <1>3, <1>12, <1>13, <1>14 DEF InClusters

(* The clusters a size calls for, from its last byte.                      *)
LEMMA LastByte ==
  ASSUME NEW z \in Nat, NEW n \in Nat \ {0}
  PROVE  /\ z = 0 => (z + n - 1) \div n = 0
         /\ z > 0 => (z + n - 1) \div n = (z - 1) \div n + 1
<1>1. CASE z = 0
  BY <1>1, DivModIs, n - 1 = n * 0 + (n - 1), n - 1 \in 0 .. n - 1, z + n - 1 = n - 1
<1>2. CASE z > 0
  <2> DEFINE k == (z - 1) \div n
             o == (z - 1) % n
  <2>1. k \in Nat /\ o \in 0 .. n - 1 /\ z - 1 = n * k + o
    BY <1>2, DivModNat, z - 1 \in Nat
  <2> HIDE DEF k, o
  <2>2. n * (k + 1) = n * k + n
    BY <2>1
  <2>3. z + n - 1 = n * (k + 1) + o
    BY <2>1, <2>2
  <2>4. (z + n - 1) \div n = k + 1
    BY <2>1, <2>3, DivModIs
  <2> QED
    BY <1>2, <2>4 DEF k
<1> QED
  BY <1>1, <1>2

(***************************************************************************)
(* Following a chain.                                                      *)
(***************************************************************************)
Walk(t, c, k, h) == h = [i \in 0 .. k |-> IF i = 0 THEN c ELSE Follow(t, h[i - 1])]

LEMMA WalkSteps ==
  ASSUME NEW t, NEW c, NEW k \in Nat, NEW h, Walk(t, c, k, h)
  PROVE  h[0] = c /\ \A i \in 0 .. k - 1 : h[i + 1] = Follow(t, h[i])
<1>1. h = [i \in 0 .. k |-> IF i = 0 THEN c ELSE Follow(t, h[i - 1])]
  BY DEF Walk
<1>2. \A i \in 0 .. k : h[i] = IF i = 0 THEN c ELSE Follow(t, h[i - 1])
  BY <1>1
<1>3. ASSUME NEW i \in 0 .. k - 1 PROVE h[i + 1] = Follow(t, h[i])
  <2>1. i + 1 \in 0 .. k /\ i + 1 # 0 /\ i + 1 - 1 = i
    OBVIOUS
  <2> QED
    BY <1>2, <2>1
<1> QED
  BY <1>2, <1>3

LEMMA WalkThere ==
  ASSUME NEW t, NEW c, NEW k \in Nat
  PROVE  \E h : Walk(t, c, k, h)
<1> DEFINE S == {j \in Nat : \E h : Walk(t, c, j, h)}
<1>1. 0 \in S
  <2> DEFINE h == [j \in 0 .. 0 |-> c]
  <2>1. h = [j \in 0 .. 0 |-> IF j = 0 THEN c ELSE Follow(t, h[j - 1])]
    OBVIOUS
  <2>2. Walk(t, c, 0, h)
    BY <2>1 DEF Walk
  <2> QED
    BY <2>2
<1>2. ASSUME NEW n \in Nat, n \in S PROVE n + 1 \in S
  <2>1. PICK h : Walk(t, c, n, h)
    BY <1>2
  <2>2. h[0] = c /\ \A i \in 0 .. n - 1 : h[i + 1] = Follow(t, h[i])
    BY <2>1, WalkSteps
  <2> DEFINE g == [j \in 0 .. n + 1 |-> IF j = n + 1 THEN Follow(t, h[n]) ELSE h[j]]
  <2>3. \A j \in 0 .. n : g[j] = h[j]
    OBVIOUS
  <2>4. g[0] = c /\ g[n + 1] = Follow(t, h[n])
    BY <2>2
  <2>5. ASSUME NEW j \in 1 .. n + 1 PROVE g[j] = Follow(t, g[j - 1])
    <3>1. CASE j = n + 1
      BY <2>3, <2>4, <3>1
    <3>2. CASE j # n + 1
      <4>1. j - 1 \in 0 .. n - 1 /\ j - 1 + 1 = j /\ j \in 0 .. n /\ j - 1 \in 0 .. n
        BY <3>2
      <4> QED
        BY <2>2, <2>3, <4>1
    <3> QED
      BY <3>1, <3>2
  <2>6. g = [j \in 0 .. n + 1 |-> g[j]]
    OBVIOUS
  <2> HIDE DEF g
  <2>7. \A j \in 0 .. n + 1 : g[j] = IF j = 0 THEN c ELSE Follow(t, g[j - 1])
    BY <2>4, <2>5
  <2>8. [j \in 0 .. n + 1 |-> g[j]]
          = [j \in 0 .. n + 1 |-> IF j = 0 THEN c ELSE Follow(t, g[j - 1])]
    BY ONLY <2>7
  <2>9. Walk(t, c, n + 1, g)
    BY ONLY <2>6, <2>8 DEF Walk
  <2> QED
    BY <2>9
<1> HIDE DEF S
<1>3. k \in S
  BY <1>1, <1>2, SetInduction
<1> QED
  BY <1>3 DEF S

LEMMA WalksAgree ==
  ASSUME NEW t, NEW c, NEW k \in Nat, NEW n \in Nat, k <= n,
         NEW h, Walk(t, c, k, h), NEW g, Walk(t, c, n, g)
  PROVE  \A i \in 0 .. k : h[i] = g[i]
<1> DEFINE S == {j \in Nat : j <= k => h[j] = g[j]}
<1>1. h[0] = c /\ \A i \in 0 .. k - 1 : h[i + 1] = Follow(t, h[i])
  BY WalkSteps
<1>2. g[0] = c /\ \A i \in 0 .. n - 1 : g[i + 1] = Follow(t, g[i])
  BY WalkSteps
<1>3. 0 \in S
  BY <1>1, <1>2
<1>4. ASSUME NEW j \in Nat, j \in S PROVE j + 1 \in S
  BY <1>1, <1>2, <1>4
<1> HIDE DEF S
<1>5. Nat \subseteq S
  BY <1>3, <1>4, SetInduction
<1> QED
  BY <1>5 DEF S

LEMMA NthIs ==
  ASSUME NEW t, NEW c, NEW k \in Nat
  PROVE  \E h : Walk(t, c, k, h) /\ Nth(t, c, k) = h[k]
<1> DEFINE At == CHOOSE h_1 : Walk(t, c, k, h_1)
<1>1. Walk(t, c, k, At)
  <2> HIDE DEF Walk
  <2> QED
    BY WalkThere
<1>2. Nth(t, c, k) = At[k]
  BY DEF Nth, Walk
<1> HIDE DEF At
<1> QED
  BY <1>1, <1>2

LEMMA NthSteps ==
  ASSUME NEW t, NEW c
  PROVE  Nth(t, c, 0) = c /\ \A k \in Nat : Nth(t, c, k + 1) = Follow(t, Nth(t, c, k))
<1>1. Nth(t, c, 0) = c
  <2>1. PICK h : Walk(t, c, 0, h) /\ Nth(t, c, 0) = h[0]
    BY NthIs
  <2> QED
    BY <2>1, WalkSteps
<1>2. ASSUME NEW k \in Nat PROVE Nth(t, c, k + 1) = Follow(t, Nth(t, c, k))
  <2>1. PICK h : Walk(t, c, k, h) /\ Nth(t, c, k) = h[k]
    BY NthIs
  <2>2. PICK g : Walk(t, c, k + 1, g) /\ Nth(t, c, k + 1) = g[k + 1]
    BY NthIs
  <2>3. h[k] = g[k]
    <3>1. \A i \in 0 .. k : h[i] = g[i]
      BY <2>1, <2>2, WalksAgree, k + 1 \in Nat, k <= k + 1
    <3> QED
      BY <3>1
  <2>4. g[k + 1] = Follow(t, g[k])
    BY <2>2, WalkSteps
  <2> QED
    BY <2>1, <2>2, <2>3, <2>4
<1> QED
  BY <1>1, <1>2

(* Following on from the middle.                                           *)
LEMMA NthAdd ==
  ASSUME NEW t, NEW c, NEW i \in Nat, NEW j \in Nat
  PROVE  Nth(t, Nth(t, c, i), j) = Nth(t, c, i + j)
<1> DEFINE d == Nth(t, c, i)
           S == {k \in Nat : Nth(t, d, k) = Nth(t, c, i + k)}
<1>1. 0 \in S
  BY NthSteps
<1>2. ASSUME NEW k \in Nat, k \in S PROVE k + 1 \in S
  <2>1. Nth(t, d, k + 1) = Follow(t, Nth(t, d, k))
    BY NthSteps
  <2>2. i + k \in Nat /\ i + (k + 1) = i + k + 1
    OBVIOUS
  <2>3. Nth(t, c, i + k + 1) = Follow(t, Nth(t, c, i + k))
    BY <2>2, NthSteps
  <2> QED
    BY <1>2, <2>1, <2>2, <2>3
<1> HIDE DEF S
<1>3. j \in S
  BY <1>1, <1>2, SetInduction
<1> QED
  BY <1>3 DEF S

(* Beyond the end nothing is followed.                                     *)
LEMMA NthEnds ==
  ASSUME NEW t, NEW c, NEW i \in Nat, fatEndCluster(Nth(t, c, i)), NEW j \in Nat, i <= j
  PROVE  Nth(t, c, j) = Nth(t, c, i)
<1> DEFINE S == {k \in Nat : Nth(t, c, i + k) = Nth(t, c, i)}
<1>1. 0 \in S
  OBVIOUS
<1>2. ASSUME NEW k \in Nat, k \in S PROVE k + 1 \in S
  <2>2. i + k \in Nat /\ i + (k + 1) = i + k + 1
    OBVIOUS
  <2>3. Nth(t, c, i + k + 1) = Follow(t, Nth(t, c, i + k))
    BY <2>2, NthSteps
  <2> QED
    BY <1>2, <2>2, <2>3 DEF Follow
<1> HIDE DEF S
<1>3. j - i \in S
  BY <1>1, <1>2, SetInduction, j - i \in Nat
<1> QED
  BY <1>3, i + (j - i) = j DEF S

(* What is not on the way does not matter.                                 *)
Untouched(t, u, c, n) ==
  \A i \in 0 .. n - 1 : fatEndCluster(Nth(t, c, i)) \/ u[Nth(t, c, i)] = t[Nth(t, c, i)]
SameWay(t, u, c, n) == \A i \in 0 .. n : Nth(u, c, i) = Nth(t, c, i)

LEMMA NthFrame ==
  ASSUME NEW t, NEW u, NEW c, NEW n \in Nat, Untouched(t, u, c, n)
  PROVE  SameWay(t, u, c, n)
<1> DEFINE S == {k \in Nat : k <= n => Nth(u, c, k) = Nth(t, c, k)}
<1>1. 0 \in S
  BY NthSteps
<1>2. ASSUME NEW k \in Nat, k \in S PROVE k + 1 \in S
  <2> SUFFICES ASSUME k + 1 <= n PROVE Nth(u, c, k + 1) = Nth(t, c, k + 1)
    OBVIOUS
  <2>1. Nth(t, c, k + 1) = Follow(t, Nth(t, c, k)) /\ Nth(u, c, k + 1) = Follow(u, Nth(u, c, k))
    BY NthSteps
  <2>2. Nth(u, c, k) = Nth(t, c, k) /\ k \in 0 .. n - 1
    BY <1>2
  <2> QED
    BY <2>1, <2>2 DEF Follow, Untouched
<1> HIDE DEF S
<1>3. Nat \subseteq S
  BY <1>1, <1>2, SetInduction
<1> QED
  BY <1>3 DEF S, SameWay

(***************************************************************************)
(* Chains: s starts one of m clusters, which are Own.                      *)
(***************************************************************************)
LinkSet == Clusters \cup {0, EOC}
Table   == [Clusters -> LinkSet]

ChainOf(t, s, m) ==
  /\ m = 0 => s \in {0, EOC}
  /\ \A i \in 0 .. m - 1 : Nth(t, s, i) \in Clusters
  /\ \A i, j \in 0 .. m - 1 : i # j => Nth(t, s, i) # Nth(t, s, j)
  /\ m > 0 => Nth(t, s, m) = EOC
Own(t, s, m) == {Nth(t, s, i) : i \in 0 .. m - 1}

LEMMA DiskIs ==
  ASSUME disk \in Disks
  PROVE  /\ SectorSize \in Nat \ {0} /\ sectors_per_cluster \in Nat \ {0}
         /\ disk.rootsize \in Nat /\ disk.datasize \in Nat
         /\ num_clusters \in Nat /\ num_clusters <= EOC /\ EOC \in Nat /\ EOC >= 2
         /\ Clusters = 2 .. num_clusters - 1
<1>1. /\ disk \in [sectors_per_cluster : Nat \ {0}, rootsize : Nat, datasize : Nat]
      /\ SectorSize \in Nat \ {0}
      /\ (disk.rootsize + disk.datasize) \div disk.sectors_per_cluster <= EOC
      /\ EOC \in Nat /\ EOC >= 2
  BY DiskAssumption DEF FIRST_DATA_CLUSTER
<1>2. disk.sectors_per_cluster \in Nat \ {0} /\ disk.rootsize + disk.datasize \in Nat
  BY <1>1
<1>3. (disk.rootsize + disk.datasize) \div disk.sectors_per_cluster \in Nat
  BY <1>2, DivModNat
<1> QED
  BY <1>1, <1>2, <1>3 DEF sectors_per_cluster, num_clusters, Clusters, FIRST_DATA_CLUSTER

LEMMA ClustersAre ==
  ASSUME disk \in Disks
  PROVE  /\ Clusters \subseteq Nat /\ 0 \notin Clusters /\ EOC \notin Clusters
         /\ \A c \in Clusters : ~ fatEndCluster(c)
         /\ fatEndCluster(0) /\ fatEndCluster(EOC) /\ EOC # 0
         /\ IsFiniteSet(Clusters) /\ Cardinality(Clusters) \in Nat
<1>1. /\ num_clusters \in Nat /\ num_clusters <= EOC /\ EOC \in Nat /\ EOC >= 2
      /\ Clusters = 2 .. num_clusters - 1
  BY DiskIs
<1>2. IsFiniteSet(Clusters) /\ Cardinality(Clusters) \in Nat
  BY <1>1, FS_Interval, FS_CardinalityType, num_clusters - 1 \in Int
<1> QED
  BY <1>1, <1>2 DEF fatEndCluster, FIRST_DATA_CLUSTER

SameOn(t, u, A) == \A c \in A : u[c] = t[c]

LEMMA ChainFrame ==
  ASSUME disk \in Disks, NEW t, NEW u, NEW s, NEW m \in Nat, ChainOf(t, s, m),
         SameOn(t, u, Own(t, s, m))
  PROVE  /\ ChainOf(u, s, m) /\ Own(u, s, m) = Own(t, s, m)
         /\ \A i \in 0 .. m : Nth(u, s, i) = Nth(t, s, i)
<1>1. Untouched(t, u, s, m)
  BY DEF Own, Untouched, SameOn
<1>2. \A i \in 0 .. m : Nth(u, s, i) = Nth(t, s, i)
  BY <1>1, NthFrame DEF SameWay
<1> QED
  BY <1>2 DEF ChainOf, Own

LEMMA ChainFirst ==
  ASSUME disk \in Disks, NEW t \in Table, NEW c \in Clusters, NEW u, u = [t EXCEPT ![c] = EOC]
  PROVE  ChainOf(u, c, 1) /\ Own(u, c, 1) = {c}
<1>1. Nth(u, c, 0) = c /\ Nth(u, c, 0 + 1) = Follow(u, Nth(u, c, 0))
  BY NthSteps
<1>2. Nth(u, c, 1) = EOC
  BY <1>1, ClustersAre DEF Follow, Table
<1>3. \A i \in 0 .. 1 - 1 : i = 0
  OBVIOUS
<1>4. Own(u, c, 1) = {c}
  BY <1>1, <1>3, 0 \in 0 .. 1 - 1 DEF Own
<1> QED
  BY <1>1, <1>2, <1>3, <1>4 DEF ChainOf

(* The last cluster of a chain and the rule for its links.                 *)
LEMMA ChainLinks ==
  ASSUME disk \in Disks, NEW t, NEW s, NEW m \in Nat, ChainOf(t, s, m)
  PROVE  \A i \in 0 .. m - 1 : /\ t[Nth(t, s, i)] = Nth(t, s, i + 1)
                               /\ Nth(t, s, i) \in Clusters
                               /\ i = m - 1 <=> Nth(t, s, i + 1) = EOC
<1> SUFFICES ASSUME NEW i \in 0 .. m - 1
             PROVE  /\ t[Nth(t, s, i)] = Nth(t, s, i + 1)
                    /\ Nth(t, s, i) \in Clusters
                    /\ i = m - 1 <=> Nth(t, s, i + 1) = EOC
  OBVIOUS
<1>1. Nth(t, s, i + 1) = Follow(t, Nth(t, s, i)) /\ Nth(t, s, i) \in Clusters
  BY NthSteps DEF ChainOf
<1>2. i # m - 1 => i + 1 \in 0 .. m - 1
  OBVIOUS
<1>3. i = m - 1 => i + 1 = m /\ m > 0
  OBVIOUS
<1> QED
  BY <1>1, <1>2, <1>3, ClustersAre DEF Follow, ChainOf

LEMMA ChainGrow ==
  ASSUME disk \in Disks, NEW t \in Table, NEW s, NEW m \in Nat \ {0}, ChainOf(t, s, m),
         NEW c \in Clusters, c \notin Own(t, s, m), NEW last, last = Nth(t, s, m - 1),
         NEW u, u = [[t EXCEPT ![last] = c] EXCEPT ![c] = EOC]
  PROVE  /\ ChainOf(u, s, m + 1) /\ Own(u, s, m + 1) = Own(t, s, m) \cup {c}
         /\ \A i \in 0 .. m - 1 : Nth(u, s, i) = Nth(t, s, i)
         /\ Nth(u, s, m) = c
<1>1. last \in Clusters /\ last # c /\ m - 1 \in 0 .. m - 1 /\ last \in Own(t, s, m)
  BY DEF ChainOf, Own
<1>2. u[last] = c /\ u[c] = EOC /\ \A d \in Clusters : d # last /\ d # c => u[d] = t[d]
  BY <1>1 DEF Table
<1>3. \A i \in 0 .. (m - 1) - 1 : u[Nth(t, s, i)] = t[Nth(t, s, i)]
  <2> SUFFICES ASSUME NEW i \in 0 .. (m - 1) - 1 PROVE u[Nth(t, s, i)] = t[Nth(t, s, i)]
    OBVIOUS
  <2>1. i \in 0 .. m - 1 /\ i # m - 1
    OBVIOUS
  <2>2. Nth(t, s, i) \in Clusters /\ Nth(t, s, i) # last /\ Nth(t, s, i) # c
    BY <1>1, <2>1 DEF ChainOf, Own
  <2> QED
    BY <1>2, <2>2
<1>4. \A i \in 0 .. m - 1 : Nth(u, s, i) = Nth(t, s, i)
  <2>1. m - 1 \in Nat
    OBVIOUS
  <2>2. Untouched(t, u, s, m - 1)
    BY ONLY <1>3, Zenon DEF Untouched
  <2>3. SameWay(t, u, s, m - 1)
    BY <2>1, <2>2, NthFrame
  <2> QED
    BY <2>3 DEF SameWay
<1>5. Nth(u, s, m) = Follow(u, Nth(u, s, m - 1))
  <2>1. m - 1 \in Nat /\ (m - 1) + 1 = m
    OBVIOUS
  <2>2. \A k \in Nat : Nth(u, s, k + 1) = Follow(u, Nth(u, s, k))
    BY NthSteps
  <2> QED
    BY <2>1, <2>2
<1>6. Nth(u, s, m) = c
  BY <1>1, <1>2, <1>4, <1>5, ClustersAre DEF Follow
<1>7. Nth(u, s, m + 1) = EOC
  <2>1. Nth(u, s, m + 1) = Follow(u, Nth(u, s, m))
    BY NthSteps
  <2> QED
    BY <1>2, <1>6, <2>1, ClustersAre DEF Follow
<1>8. \A i \in 0 .. (m + 1) - 1 : i \in 0 .. m - 1 \/ i = m
  OBVIOUS
<1>9. \A i \in 0 .. m - 1 : Nth(u, s, i) \in Own(t, s, m) /\ Nth(u, s, i) \in Clusters
  BY <1>4 DEF ChainOf, Own
<1>10. Own(u, s, m + 1) = Own(t, s, m) \cup {c}
  <2>1. ASSUME NEW x \in Own(u, s, m + 1) PROVE x \in Own(t, s, m) \cup {c}
    BY <1>6, <1>8, <1>9, <2>1 DEF Own
  <2>2. ASSUME NEW x \in Own(t, s, m) PROVE x \in Own(u, s, m + 1)
    <3>1. PICK i \in 0 .. m - 1 : x = Nth(t, s, i)
      BY <2>2 DEF Own
    <3>2. i \in 0 .. (m + 1) - 1
      OBVIOUS
    <3> QED
      BY <1>4, <3>1, <3>2 DEF Own
  <2>3. c \in Own(u, s, m + 1)
    BY <1>6, m \in 0 .. (m + 1) - 1 DEF Own
  <2> QED
    BY <2>1, <2>2, <2>3
<1>11. ASSUME NEW i \in 0 .. (m + 1) - 1, NEW j \in 0 .. (m + 1) - 1, i # j
       PROVE  Nth(u, s, i) # Nth(u, s, j)
  <2>1. CASE i = m
    BY <1>6, <1>8, <1>9, <1>11, <2>1
  <2>2. CASE j = m
    BY <1>6, <1>8, <1>9, <1>11, <2>2
  <2>3. CASE i # m /\ j # m
    <3>1. i \in 0 .. m - 1 /\ j \in 0 .. m - 1
      BY <2>3
    <3> QED
      BY <1>4, <1>11, <3>1 DEF ChainOf
  <2> QED
    BY <2>1, <2>2, <2>3
<1>12. \A i \in 0 .. (m + 1) - 1 : Nth(u, s, i) \in Clusters
  BY <1>6, <1>8, <1>9
<1>13. ChainOf(u, s, m + 1)
  <2>1. m + 1 # 0
    OBVIOUS
  <2>2. \A i, j \in 0 .. (m + 1) - 1 : i # j => Nth(u, s, i) # Nth(u, s, j)
    BY <1>11
  <2> QED
    BY <1>7, <1>12, <2>1, <2>2 DEF ChainOf
<1> QED
  BY <1>4, <1>6, <1>10, <1>13

(* The clusters of a chain, counted, and as Chain and fatNuke find them.   *)
Found(t, s, n) == {Nth(t, s, k) : k \in 0 .. n}

LEMMA ChainCounts ==
  ASSUME disk \in Disks, NEW t, NEW s, NEW m \in Nat, ChainOf(t, s, m)
  PROVE  /\ Own(t, s, m) \subseteq Clusters /\ IsFiniteSet(Own(t, s, m))
         /\ Cardinality(Own(t, s, m)) = m /\ m <= Cardinality(Clusters)
<1>1. Own(t, s, m) \subseteq Clusters
  BY DEF Own, ChainOf
<1> DEFINE b == [i \in 0 .. m - 1 |-> Nth(t, s, i)]
<1>2. b \in Bijection(0 .. m - 1, Own(t, s, m))
  BY DEF Bijection, Injection, Surjection, IsInjective, Own, ChainOf
<1>3. IsFiniteSet(0 .. m - 1) /\ Cardinality(0 .. m - 1) = m
  BY FS_Interval, m - 1 \in Int
<1>4. IsFiniteSet(Own(t, s, m)) /\ Cardinality(Own(t, s, m)) = m
  <2>1. ExistsBijection(0 .. m - 1, Own(t, s, m))
    BY <1>2 DEF ExistsBijection
  <2> QED
    BY <1>3, <2>1, FS_Bijection
<1>5. Cardinality(Own(t, s, m)) <= Cardinality(Clusters)
  BY <1>1, ClustersAre, FS_Subset
<1> QED
  BY <1>1, <1>4, <1>5

LEMMA ChainFound ==
  ASSUME disk \in Disks, NEW t, NEW s, NEW m \in Nat, ChainOf(t, s, m),
         NEW n \in Nat, m <= n + 1
  PROVE  Found(t, s, n) \ {0, EOC} = Own(t, s, m)
<1>1. ASSUME NEW c \in Own(t, s, m) PROVE c \in Found(t, s, n) \ {0, EOC}
  <2>1. PICK i \in 0 .. m - 1 : c = Nth(t, s, i)
    BY <1>1 DEF Own
  <2>2. c \in Clusters /\ i \in 0 .. n
    BY <2>1 DEF ChainOf
  <2> QED
    BY <2>1, <2>2, ClustersAre DEF Found
<1>2. ASSUME NEW c \in Found(t, s, n), c \notin {0, EOC} PROVE c \in Own(t, s, m)
  <2>1. PICK i \in 0 .. n : c = Nth(t, s, i)
    BY DEF Found
  <2>2. CASE i < m
    BY <2>1, <2>2, i \in 0 .. m - 1 DEF Own
  <2>3. CASE m <= i
    <3>1. Nth(t, s, m) \in {0, EOC}
      BY NthSteps DEF ChainOf
    <3>2. fatEndCluster(Nth(t, s, m))
      BY <3>1, ClustersAre
    <3>3. c = Nth(t, s, m)
      BY <2>1, <2>3, <3>2, NthEnds
    <3> QED
      BY <1>2, <3>1, <3>3
  <2> QED
    BY <2>1, <2>2, <2>3
<1> QED
  BY <1>1, <1>2

(* Nothing is a link but what belongs to a chain of some file.             *)
Tidy(t, E, S, M) ==
  /\ t \in Table
  /\ \A f \in E : M[f] \in Nat /\ ChainOf(t, S[f], M[f])
  /\ \A f, g \in E : f # g => Own(t, S[f], M[f]) \cap Own(t, S[g], M[g]) = {}
  /\ \A c \in Clusters : t[c] # 0 => \E f \in E : c \in Own(t, S[f], M[f])

(* The chain of one file changes, or is made free.                         *)
Others(t, E, S, M, f) == UNION {Own(t, S[g], M[g]) : g \in E \ {f}}

LEMMA TidyRest ==
  ASSUME disk \in Disks, NEW t, NEW E, NEW S, NEW M, Tidy(t, E, S, M), NEW f, NEW u \in Table,
         SameOn(t, u, Others(t, E, S, M, f)),
         NEW g \in E, g # f
  PROVE  /\ ChainOf(u, S[g], M[g]) /\ Own(u, S[g], M[g]) = Own(t, S[g], M[g])
         /\ \A i \in 0 .. M[g] : Nth(u, S[g], i) = Nth(t, S[g], i)
<1>1. M[g] \in Nat /\ ChainOf(t, S[g], M[g])
  BY DEF Tidy
<1>2. SameOn(t, u, Own(t, S[g], M[g]))
  BY DEF Others, SameOn
<1>3. PICK s, m : s = S[g] /\ m = M[g]
  OBVIOUS
<1>4. m \in Nat /\ ChainOf(t, s, m) /\ SameOn(t, u, Own(t, s, m))
  BY <1>1, <1>2, <1>3
<1>5. /\ ChainOf(u, s, m) /\ Own(u, s, m) = Own(t, s, m)
      /\ \A i \in 0 .. m : Nth(u, s, i) = Nth(t, s, i)
  BY <1>4, ChainFrame
<1> QED
  BY <1>3, <1>5

LEMMA TidyChanged ==
  ASSUME disk \in Disks, NEW t, NEW E, NEW S, NEW M, Tidy(t, E, S, M), NEW f, NEW u \in Table,
         SameOn(t, u, Others(t, E, S, M, f)),
         NEW s, NEW m \in Nat, ChainOf(u, s, m), Own(u, s, m) \cap Others(t, E, S, M, f) = {},
         \A c \in Clusters : u[c] # 0 => c \in Own(u, s, m) \cup Others(t, E, S, M, f),
         NEW F, F = E \cup {f}, NEW S2, NEW M2,
         \A g \in F : S2[g] = (IF g = f THEN s ELSE S[g]) /\ M2[g] = (IF g = f THEN m ELSE M[g])
  PROVE  Tidy(u, F, S2, M2)
<1>1. \A g \in F : g # f => /\ g \in E /\ S2[g] = S[g] /\ M2[g] = M[g] /\ M[g] \in Nat
                            /\ ChainOf(u, S[g], M[g]) /\ Own(u, S[g], M[g]) = Own(t, S[g], M[g])
  BY TidyRest DEF Tidy
<1>2. f \in F /\ S2[f] = s /\ M2[f] = m
  OBVIOUS
<1>3. ASSUME NEW g \in F, NEW h \in F, g # h
      PROVE  Own(u, S2[g], M2[g]) \cap Own(u, S2[h], M2[h]) = {}
  <2>1. CASE g = f
    BY <1>1, <1>2, <1>3, <2>1 DEF Others
  <2>2. CASE h = f
    BY <1>1, <1>2, <1>3, <2>2 DEF Others
  <2>3. CASE g # f /\ h # f
    BY <1>1, <1>3, <2>3 DEF Tidy
  <2> QED
    BY <2>1, <2>2, <2>3
<1>4. ASSUME NEW c \in Clusters, u[c] # 0 PROVE \E g \in F : c \in Own(u, S2[g], M2[g])
  <2>1. CASE c \in Own(u, s, m)
    BY <1>2, <2>1
  <2>2. CASE c \in Others(t, E, S, M, f)
    <3>1. PICK g \in E \ {f} : c \in Own(t, S[g], M[g])
      BY <2>2 DEF Others
    <3> QED
      BY <1>1, <3>1
  <2> QED
    BY <1>4, <2>1, <2>2
<1>5. \A g \in F : M2[g] \in Nat /\ ChainOf(u, S2[g], M2[g])
  BY <1>1, <1>2
<1> QED
  BY <1>3, <1>4, <1>5 DEF Tidy

(* fatNuke frees the clusters of f and no others.                          *)
LEMMA NukeDoes ==
  ASSUME disk \in Disks, NEW t, NEW E, NEW S, NEW M, Tidy(t, E, S, M), NEW f,
         NEW s, (s \in {0, EOC} /\ f \notin E) \/ (f \in E /\ s = S[f]),
         NEW u, u = fatNuke(t, s)
  PROVE  /\ u \in Table
         /\ SameOn(t, u, Others(t, E, S, M, f))
         /\ \A c \in Clusters : u[c] # 0 => c \in Others(t, E, S, M, f)
<1>1. \E m \in Nat : ChainOf(t, s, m) /\ (f \in E => m = M[f]) /\ (f \notin E => m = 0)
  <2>1. CASE f \in E
    BY <2>1 DEF Tidy
  <2>2. CASE f \notin E
    BY <2>2 DEF ChainOf
  <2> QED
    BY <2>1, <2>2
<1>2. PICK m \in Nat : ChainOf(t, s, m) /\ (f \in E => m = M[f]) /\ (f \notin E => m = 0)
  BY <1>1
<1>3. t \in Table /\ DOMAIN t = Clusters
  BY DEF Tidy, Table
<1>4. Found(t, s, Cardinality(Clusters)) \ {0, EOC} = Own(t, s, m)
  BY <1>2, ChainCounts, ChainFound, ClustersAre
<1>5. u = [d \in Clusters |-> IF d \in Found(t, s, Cardinality(Clusters)) THEN 0 ELSE t[d]]
  BY <1>3 DEF fatNuke, Found
<1>6. \A d \in Clusters : u[d] = IF d \in Own(t, s, m) THEN 0 ELSE t[d]
  BY <1>4, <1>5, ClustersAre
<1>7. u \in Table
  BY <1>3, <1>5 DEF Table, LinkSet
<1>8. \A g \in E : g # f => Own(t, S[g], M[g]) \cap Own(t, s, m) = {} /\ Own(t, S[g], M[g]) \subseteq Clusters
  <2> SUFFICES ASSUME NEW g \in E, g # f
               PROVE  Own(t, S[g], M[g]) \cap Own(t, s, m) = {} /\ Own(t, S[g], M[g]) \subseteq Clusters
    OBVIOUS
  <2>1. Own(t, S[g], M[g]) \subseteq Clusters
    BY ChainCounts DEF Tidy
  <2>2. CASE f \in E
    BY <1>2, <2>1, <2>2 DEF Tidy
  <2>3. CASE f \notin E
    BY <1>2, <2>1, <2>3 DEF Own
  <2> QED
    BY <2>1, <2>2, <2>3
<1>9. ASSUME NEW c \in Others(t, E, S, M, f) PROVE u[c] = t[c]
  BY <1>6, <1>8 DEF Others
<1>10. ASSUME NEW c \in Clusters, u[c] # 0 PROVE c \in Others(t, E, S, M, f)
  <2>1. t[c] # 0 /\ c \notin Own(t, s, m)
    BY <1>6, <1>10
  <2>2. PICK g \in E : c \in Own(t, S[g], M[g])
    BY <2>1 DEF Tidy
  <2>3. g # f
    BY <1>2, <2>1, <2>2
  <2> QED
    BY <2>2, <2>3 DEF Others
<1> QED
  BY <1>7, <1>9, <1>10 DEF SameOn

(***************************************************************************)
(* Handles, and the state of a write.                                      *)
(***************************************************************************)
Handle ==
  [file : Files \cup {NoFile}, startcluster : LinkSet, fileSize : Nat, currentCluster : LinkSet,
   nextCluster : LinkSet, sectorStart : Int, sectorUpto : Nat, currpos : Int]

Byte  == {<<"old", s, o>> : s \in Sectors, o \in Offsets} \cup {New(i) : i \in Int} \cup {Zero, <<"unknown">>}
Block == [Offsets -> Byte]
Writing ==
  [h : Handle, next : Table, cache : Table \cup {Empty}, currcluster : LinkSet, bbuf : Block,
   holds : [Sectors -> Block], stray : BOOLEAN, monitor : {"no", "disk_full", "internal_error"}]

(* What a step may leave alone.                                            *)
SameDisk(w, v)  == v.next = w.next /\ v.cache = w.cache
SameHolds(w, v) == v.holds = w.holds /\ v.stray = w.stray
SameFile(w, v)  == v.h.file = w.h.file /\ v.h.startcluster = w.h.startcluster /\ v.h.nextCluster = w.h.nextCluster
SameSize(w, v)  == v.h.fileSize = w.h.fileSize /\ v.h.currpos = w.h.currpos
SamePlace(w, v) == /\ v.currcluster = w.currcluster /\ v.h.currentCluster = w.h.currentCluster
                   /\ v.h.sectorStart = w.h.sectorStart /\ v.h.sectorUpto = w.h.sectorUpto

LEMMA NextSectorIs ==
  ASSUME NEW w \in Writing, NEW v, v = NextSector(w)
  PROVE  /\ v \in Writing /\ v.h.sectorUpto = w.h.sectorUpto + 1
         /\ v.currcluster = w.currcluster /\ v.h.currentCluster = w.h.currentCluster
         /\ v.h.sectorStart = w.h.sectorStart
         /\ SameDisk(w, v) /\ SameHolds(w, v) /\ SameFile(w, v) /\ SameSize(w, v)
         /\ v.monitor = w.monitor /\ v.bbuf = w.bbuf
<1> DEFINE g == [w.h EXCEPT !.sectorUpto = @ + 1]
<1>1. w.h \in Handle
  BY DEF Writing
<1>2. /\ g \in Handle /\ g.sectorUpto = w.h.sectorUpto + 1
      /\ g.currentCluster = w.h.currentCluster /\ g.sectorStart = w.h.sectorStart
      /\ g.file = w.h.file /\ g.startcluster = w.h.startcluster /\ g.nextCluster = w.h.nextCluster
      /\ g.fileSize = w.h.fileSize /\ g.currpos = w.h.currpos
  BY <1>1 DEF Handle
<1>3. v = [w EXCEPT !.h = g]
  BY DEF NextSector
<1> HIDE DEF g
<1>4. /\ v \in Writing /\ v.h = g /\ v.currcluster = w.currcluster
      /\ SameDisk(w, v) /\ SameHolds(w, v) /\ v.monitor = w.monitor /\ v.bbuf = w.bbuf
  BY <1>2, <1>3 DEF Writing, SameDisk, SameHolds
<1> QED
  BY <1>2, <1>4 DEF SameFile, SameSize

LEMMA AdvancedIs ==
  ASSUME NEW w \in Writing, NEW k \in Int, NEW v, v = Advanced(w, k)
  PROVE  /\ v \in Writing /\ v.h.currpos = w.h.currpos + k /\ v.h.fileSize = w.h.fileSize
         /\ SameDisk(w, v) /\ SameHolds(w, v) /\ SameFile(w, v) /\ SamePlace(w, v)
         /\ v.monitor = w.monitor /\ v.bbuf = w.bbuf
<1> DEFINE g == [w.h EXCEPT !.currpos = @ + k]
<1>1. w.h \in Handle
  BY DEF Writing
<1>2. /\ g \in Handle /\ g.currpos = w.h.currpos + k /\ g.sectorUpto = w.h.sectorUpto
      /\ g.currentCluster = w.h.currentCluster /\ g.sectorStart = w.h.sectorStart
      /\ g.file = w.h.file /\ g.startcluster = w.h.startcluster /\ g.nextCluster = w.h.nextCluster
      /\ g.fileSize = w.h.fileSize
  BY <1>1 DEF Handle
<1>3. v = [w EXCEPT !.h = g]
  BY DEF Advanced
<1> HIDE DEF g
<1>4. /\ v \in Writing /\ v.h = g /\ v.currcluster = w.currcluster
      /\ SameDisk(w, v) /\ SameHolds(w, v) /\ v.monitor = w.monitor /\ v.bbuf = w.bbuf
  BY <1>2, <1>3 DEF Writing, SameDisk, SameHolds
<1> QED
  BY <1>2, <1>4 DEF SameFile, SamePlace

LEMMA EnterIs ==
  ASSUME disk \in Disks, NEW w \in Writing, NEW c \in LinkSet, NEW v, v = Enter(w, c)
  PROVE  /\ v \in Writing /\ v.h.sectorUpto = 0
         /\ v.currcluster = c /\ v.h.currentCluster = c /\ v.h.sectorStart = SectorStart(c)
         /\ SameDisk(w, v) /\ SameHolds(w, v) /\ SameFile(w, v) /\ SameSize(w, v)
         /\ v.monitor = w.monitor /\ v.bbuf = w.bbuf
<1>1. SectorStart(c) \in Int
  BY DiskIs, ClustersAre DEF SectorStart, LinkSet, FIRST_DATA_CLUSTER
<1> QED
  BY <1>1 DEF Writing, Handle, Enter, SameDisk, SameHolds, SameFile, SameSize, LinkSet

(* A block with k bytes of the caller's, or zeros, from offset o.          *)
Laid(b, o, k, from) == [x \in Offsets |-> IF x \in o .. o + k - 1 THEN New(from + x - o) ELSE b[x]]
Blank(b, o, k) == [x \in Offsets |-> IF x \in o .. o + k - 1 THEN Zero ELSE b[x]]

LEMMA FilledIs ==
  ASSUME NEW w \in Writing, NEW o \in Int, NEW k \in Int, NEW from \in Int, NEW v, v = Filled(w, o, k, from)
  PROVE  /\ v \in Writing
         /\ v.bbuf = Laid(w.bbuf, o, k, from)
         /\ SameDisk(w, v) /\ SameHolds(w, v) /\ v.h = w.h /\ v.currcluster = w.currcluster
         /\ v.monitor = w.monitor
<1> DEFINE b == [x \in Offsets |-> IF x \in o .. o + k - 1 THEN New(from + x - o) ELSE w.bbuf[x]]
<1>1. b \in Block
  <2>1. \A x \in Offsets : w.bbuf[x] \in Byte
    BY DEF Writing, Block
  <2>2. \A x \in o .. o + k - 1 : from + x - o \in Int
    OBVIOUS
  <2>3. \A x \in o .. o + k - 1 : New(from + x - o) \in Byte
    BY <2>2 DEF Byte
  <2> QED
    BY <2>1, <2>3 DEF Block
<1>2. v = [w EXCEPT !.bbuf = b]
  BY DEF Filled
<1> HIDE DEF b
<1>3. v \in Writing /\ v.bbuf = b /\ SameDisk(w, v) /\ SameHolds(w, v) /\ v.h = w.h
      /\ v.currcluster = w.currcluster /\ v.monitor = w.monitor
  BY <1>1, <1>2 DEF Writing, SameDisk, SameHolds
<1> QED
  BY <1>3 DEF b, Laid

LEMMA ZeroedIs ==
  ASSUME NEW w \in Writing, NEW o \in Int, NEW k \in Int, NEW v, v = Zeroed(w, o, k)
  PROVE  /\ v \in Writing
         /\ v.bbuf = Blank(w.bbuf, o, k)
         /\ SameDisk(w, v) /\ SameHolds(w, v) /\ v.h = w.h /\ v.currcluster = w.currcluster
         /\ v.monitor = w.monitor
<1> DEFINE b == [x \in Offsets |-> IF x \in o .. o + k - 1 THEN Zero ELSE w.bbuf[x]]
<1>1. b \in Block
  <2>1. \A x \in Offsets : w.bbuf[x] \in Byte
    BY DEF Writing, Block
  <2>2. Zero \in Byte
    BY DEF Byte
  <2> QED
    BY <2>1, <2>2 DEF Block
<1>2. v = [w EXCEPT !.bbuf = b]
  BY DEF Zeroed
<1> HIDE DEF b
<1>3. v \in Writing /\ v.bbuf = b /\ SameDisk(w, v) /\ SameHolds(w, v) /\ v.h = w.h
      /\ v.currcluster = w.currcluster /\ v.monitor = w.monitor
  BY <1>1, <1>2 DEF Writing, SameDisk, SameHolds
<1> QED
  BY <1>3 DEF b, Blank

LEMMA ReadLogicalIs ==
  ASSUME NEW w \in Writing, NEW v, v = fatReadLogical(w)
  PROVE  /\ v \in Writing
         /\ Current(w.h) \in Sectors => v.bbuf = w.holds[Current(w.h)]
         /\ SameDisk(w, v) /\ SameHolds(w, v) /\ v.h = w.h /\ v.currcluster = w.currcluster
         /\ v.monitor = w.monitor
<1> DEFINE b == IF Current(w.h) \in Sectors THEN w.holds[Current(w.h)] ELSE Unknown
<1>1. b \in Block
  <2>1. Unknown \in Block
    <3>1. <<"unknown">> \in Byte
      BY DEF Byte
    <3> QED
      BY <3>1 DEF Unknown, Block
  <2>2. Current(w.h) \in Sectors => w.holds[Current(w.h)] \in Block
    BY DEF Writing
  <2> QED
    BY <2>1, <2>2
<1>2. v = [w EXCEPT !.bbuf = b]
  BY DEF fatReadLogical
<1>3. Current(w.h) \in Sectors => b = w.holds[Current(w.h)]
  OBVIOUS
<1> HIDE DEF b
<1> QED
  BY <1>1, <1>2, <1>3 DEF Writing, SameDisk, SameHolds

LEMMA WriteLogicalIs ==
  ASSUME NEW w \in Writing, NEW v, v = fatWriteLogical(w)
  PROVE  /\ v \in Writing
         /\ w.monitor # "no" => v = w
         /\ w.monitor = "no" /\ Current(w.h) \in Sectors =>
              v.holds = [w.holds EXCEPT ![Current(w.h)] = w.bbuf] /\ v.stray = w.stray
         /\ v.next = w.next /\ v.cache \in {w.cache, Empty}
         /\ v.h = w.h /\ v.currcluster = w.currcluster /\ v.monitor = w.monitor /\ v.bbuf = w.bbuf
<1>1. CASE w.monitor # "no"
  BY <1>1 DEF fatWriteLogical
<1>2. CASE w.monitor = "no" /\ Current(w.h) \in Sectors
  <2> DEFINE g == [w.holds EXCEPT ![Current(w.h)] = w.bbuf]
  <2>1. g \in [Sectors -> Block]
    BY <1>2 DEF Writing
  <2>2. v = [[w EXCEPT !.cache = Empty] EXCEPT !.holds = g]
    BY <1>2 DEF fatWriteLogical, Uncached, Writing
  <2>3. g = [w.holds EXCEPT ![Current(w.h)] = w.bbuf]
    OBVIOUS
  <2> HIDE DEF g
  <2> QED
    BY <1>2, <2>1, <2>2, <2>3 DEF Writing
<1>3. CASE w.monitor = "no" /\ Current(w.h) \notin Sectors
  <2>1. v = [[w EXCEPT !.cache = Empty] EXCEPT !.stray = TRUE]
    BY <1>3 DEF fatWriteLogical, Uncached, Writing
  <2> QED
    BY <1>3, <2>1 DEF Writing
<1> QED
  BY <1>1, <1>2, <1>3

(* No cluster number lies behind the data area.                            *)
RootIsShort == \A d \in Disks : d.rootsize <= 2 * d.sectors_per_cluster

LEMMA Index ==
  ASSUME disk \in Disks, NEW q \in Nat
  PROVE  /\ q \div sectors_per_cluster \in Nat /\ q % sectors_per_cluster \in Nat
         /\ q % sectors_per_cluster \in 0 .. sectors_per_cluster - 1
         /\ sectors_per_cluster \in Nat \ {0}
<1>1. sectors_per_cluster \in Nat \ {0}
  BY DiskIs
<1>2. q \div sectors_per_cluster \in Nat /\ q % sectors_per_cluster \in 0 .. sectors_per_cluster - 1
  BY <1>1, DivModNat
<1> QED
  BY <1>1, <1>2

SectorsOf(c) == SectorStart(c) .. SectorStart(c) + sectors_per_cluster - 1
SectorAt(t, s, j) == SectorStart(Nth(t, s, j \div sectors_per_cluster)) + (j % sectors_per_cluster)

LEMMA SectorsAre ==
  ASSUME disk \in Disks, RootIsShort, NEW c \in Clusters, NEW u \in 0 .. sectors_per_cluster - 1
  PROVE  SectorStart(c) \in Nat /\ SectorStart(c) + u \in Sectors /\ SectorStart(c) + u \in SectorsOf(c)
<1> DEFINE spc == sectors_per_cluster
           n == num_clusters
<1>1. /\ spc \in Nat \ {0} /\ disk.rootsize \in Nat /\ disk.datasize \in Nat
      /\ n \in Nat /\ Clusters = 2 .. n - 1
  BY DiskIs
<1>2. disk.rootsize <= 2 * spc
  BY DEF RootIsShort, sectors_per_cluster
<1>3. n * spc <= disk.rootsize + disk.datasize
  <2> DEFINE a == disk.rootsize + disk.datasize
  <2>1. a \in Nat
    BY <1>1
  <2>2. n = a \div spc
    BY DEF num_clusters
  <2> HIDE DEF a, spc, n
  <2>3. a = spc * (a \div spc) + (a % spc) /\ a % spc \in 0 .. spc - 1
    BY <1>1, <2>1, DivModNat
  <2>4. a = spc * n + (a % spc) /\ a % spc >= 0
    BY <1>1, <2>2, <2>3
  <2>5. spc * n = n * spc /\ spc * n \in Nat /\ a % spc \in Nat
    BY <1>1, <2>3
  <2>6. n * spc <= a
    BY <2>1, <2>4, <2>5
  <2> QED
    BY <2>6 DEF a
<1>4. SectorStart(c) = (c - 2) * spc
  BY DEF SectorStart, FIRST_DATA_CLUSTER
<1>5. c \in Nat /\ c - 2 \in Nat /\ n - 1 - c \in Nat
  BY <1>1
<1>6. u \in Nat /\ u <= spc - 1
  BY <1>1
<1> HIDE DEF spc, n
<1>7. (c - 2) * spc \in Nat /\ (n - 1 - c) * spc \in Nat
  BY <1>1, <1>5
<1>8. (n - 1 - c) * spc = n * spc - (c - 2) * spc - 3 * spc
  BY <1>1, <1>5
<1>9. (c - 2) * spc + u <= disk.datasize - 1
  BY SMTT(30), <1>1, <1>2, <1>3, <1>6, <1>7, <1>8
<1>10. SectorStart(c) \in Nat /\ SectorStart(c) + u \in 0 .. disk.datasize - 1
  BY <1>1, <1>4, <1>6, <1>7, <1>9
<1>11. SectorStart(c) + u \in SectorStart(c) .. SectorStart(c) + spc - 1
  BY <1>1, <1>6, <1>10
<1> QED
  BY <1>10, <1>11 DEF spc, Sectors, SectorsOf

(* Two places in the data area are the same only if they are of the same   *)
(* cluster.                                                                *)
LEMMA SectorsApart ==
  ASSUME disk \in Disks, NEW c \in Clusters, NEW d \in Clusters,
         NEW u \in 0 .. sectors_per_cluster - 1, NEW v \in 0 .. sectors_per_cluster - 1,
         SectorStart(c) + u = SectorStart(d) + v
  PROVE  c = d /\ u = v
<1> DEFINE spc == sectors_per_cluster
           a == SectorStart(c) + u
<1>1. spc \in Nat \ {0} /\ Clusters \subseteq Nat
  BY DiskIs, ClustersAre
<1>2. c - 2 \in Int /\ d - 2 \in Int /\ c \in Nat /\ d \in Nat
  BY <1>1
<1>3. SectorStart(c) = spc * (c - 2) /\ SectorStart(d) = spc * (d - 2)
  BY <1>1, <1>2 DEF SectorStart, FIRST_DATA_CLUSTER
<1>4. a = spc * (c - 2) + u /\ a = spc * (d - 2) + v
  BY <1>3
<1> HIDE DEF a, spc
<1>5. a \in Int
  BY <1>1, <1>2, <1>4 DEF spc
<1>6. a \div spc = c - 2 /\ a % spc = u
  BY <1>1, <1>2, <1>4, <1>5, DivModIs DEF spc
<1>7. a \div spc = d - 2 /\ a % spc = v
  <2>1. spc \in Nat \ {0} /\ d - 2 \in Int /\ v \in 0 .. spc - 1
    BY <1>1, <1>2 DEF spc
  <2> QED
    BY ONLY <1>4, <1>5, <2>1, DivModIs
<1> QED
  BY <1>2, <1>6, <1>7

LEMMA WithinCluster ==
  ASSUME disk \in Disks, NEW c \in Clusters, NEW s \in SectorsOf(c)
  PROVE  \E u \in 0 .. sectors_per_cluster - 1 : s = SectorStart(c) + u
<1>1. sectors_per_cluster \in Nat \ {0} /\ SectorStart(c) \in Int
  BY DiskIs, ClustersAre DEF SectorStart, FIRST_DATA_CLUSTER
<1>2. s \in Int /\ SectorStart(c) <= s /\ s <= SectorStart(c) + sectors_per_cluster - 1
  BY <1>1 DEF SectorsOf
<1>3. s - SectorStart(c) \in 0 .. sectors_per_cluster - 1 /\ s = SectorStart(c) + (s - SectorStart(c))
  BY <1>1, <1>2
<1> QED
  BY <1>3

(***************************************************************************)
(* A write under way.  x is what it may not touch, and where it started.   *)
(***************************************************************************)
Disk(w, x, m) ==
  /\ w \in Writing /\ w.h.file = x.file /\ m \in Nat \ {0} /\ x.least \in Nat /\ m >= x.least
  /\ ChainOf(w.next, w.h.startcluster, m)
  /\ Own(w.next, w.h.startcluster, m) \cap x.others = {}
  /\ SameOn(x.table, w.next, x.others)
  /\ \A c \in Clusters : w.next[c] # 0 => c \in Own(w.next, w.h.startcluster, m) \cup x.others
  /\ \A c \in x.others : c \in Clusters /\ w.next[c] # 0
  /\ w.cache \in {Empty, w.next} /\ ~ w.stray
  /\ \A s \in Sectors : (\A c \in Own(w.next, w.h.startcluster, m) : s \notin SectorsOf(c))
                          => w.holds[s] = Old(s)

At(w, q) ==
  /\ w.currcluster = Nth(w.next, w.h.startcluster, q \div sectors_per_cluster)
  /\ w.h.currentCluster = w.currcluster /\ w.h.sectorStart = SectorStart(w.currcluster)
  /\ w.h.sectorUpto = q % sectors_per_cluster

Stands(w, x, q, m) ==
  Disk(w, x, m) /\ w.monitor = "no" /\ q \in Nat /\ q \div sectors_per_cluster < m /\ At(w, q)

Stuck(w, x) ==
  /\ \E m \in Nat \ {0} : Disk(w, x, m)
  /\ w.monitor = "disk_full" /\ \A c \in Clusters : w.next[c] # 0

(* What is in sector j of the file.                                        *)
Blk(w, j) == w.holds[SectorAt(w.next, w.h.startcluster, j)]
KeepsBlocks(w, v, m) == \A j \in Nat : j \div sectors_per_cluster < m => Blk(v, j) = Blk(w, j)

LEMMA SectorAtIs ==
  ASSUME disk \in Disks, RootIsShort, NEW t, NEW s, NEW m \in Nat, ChainOf(t, s, m),
         NEW j \in Nat, j \div sectors_per_cluster < m
  PROVE  /\ Nth(t, s, j \div sectors_per_cluster) \in Own(t, s, m)
         /\ Nth(t, s, j \div sectors_per_cluster) \in Clusters
         /\ j % sectors_per_cluster \in 0 .. sectors_per_cluster - 1
         /\ SectorAt(t, s, j) \in Sectors
         /\ SectorAt(t, s, j) \in SectorsOf(Nth(t, s, j \div sectors_per_cluster))
<1>1. sectors_per_cluster \in Nat \ {0}
  BY DiskIs
<1>2. j \div sectors_per_cluster \in Nat /\ j % sectors_per_cluster \in 0 .. sectors_per_cluster - 1
  BY <1>1, DivModNat
<1>3. j \div sectors_per_cluster \in 0 .. m - 1
  BY <1>2
<1>4. /\ Nth(t, s, j \div sectors_per_cluster) \in Own(t, s, m)
      /\ Nth(t, s, j \div sectors_per_cluster) \in Clusters
  BY <1>3 DEF ChainOf, Own
<1> QED
  BY <1>2, <1>4, SectorsAre DEF SectorAt

LEMMA SectorAtOnce ==
  ASSUME disk \in Disks, NEW t, NEW s, NEW m \in Nat, ChainOf(t, s, m),
         NEW i \in Nat, i \div sectors_per_cluster < m,
         NEW j \in Nat, j \div sectors_per_cluster < m,
         SectorAt(t, s, i) = SectorAt(t, s, j)
  PROVE  i = j
<1> DEFINE spc == sectors_per_cluster
<1>1. spc \in Nat \ {0}
  BY DiskIs
<1>2. /\ i \div spc \in Nat /\ i % spc \in 0 .. spc - 1 /\ i = spc * (i \div spc) + (i % spc)
      /\ j \div spc \in Nat /\ j % spc \in 0 .. spc - 1 /\ j = spc * (j \div spc) + (j % spc)
  BY <1>1, DivModNat
<1>3. i \div spc \in 0 .. m - 1 /\ j \div spc \in 0 .. m - 1
  BY <1>2
<1>4. Nth(t, s, i \div spc) = Nth(t, s, j \div spc) /\ i % spc = j % spc
  BY <1>2, <1>3, SectorsApart DEF SectorAt, ChainOf
<1>5. i \div spc = j \div spc
  BY <1>3, <1>4 DEF ChainOf
<1> QED
  BY <1>2, <1>4, <1>5

(***************************************************************************)
(* The steps of a write.                                                   *)
(***************************************************************************)
LEMMA StandsThere ==
  ASSUME disk \in Disks, RootIsShort, NEW w, NEW x, NEW q, NEW m, Stands(w, x, q, m)
  PROVE  /\ Current(w.h) = SectorAt(w.next, w.h.startcluster, q) /\ Current(w.h) \in Sectors
         /\ w.currcluster \in Own(w.next, w.h.startcluster, m) /\ w.currcluster \in Clusters
         /\ w \in Writing /\ w.monitor = "no" /\ m \in Nat /\ q \in Nat
         /\ w.bbuf \in Block /\ w.holds \in [Sectors -> Block]
<1>1. /\ m \in Nat /\ ChainOf(w.next, w.h.startcluster, m) /\ q \in Nat
      /\ q \div sectors_per_cluster < m
  BY DEF Stands, Disk
<1>2. /\ Nth(w.next, w.h.startcluster, q \div sectors_per_cluster) \in Own(w.next, w.h.startcluster, m)
      /\ Nth(w.next, w.h.startcluster, q \div sectors_per_cluster) \in Clusters
      /\ SectorAt(w.next, w.h.startcluster, q) \in Sectors
  BY <1>1, SectorAtIs
<1>3. Current(w.h) = SectorAt(w.next, w.h.startcluster, q)
  BY DEF Stands, At, Current, SectorAt
<1> QED
  BY <1>1, <1>2, <1>3 DEF Stands, At, Disk, Writing

(* A sector of the file is written.                                        *)
LEMMA WriteSector ==
  ASSUME disk \in Disks, RootIsShort, NEW w, NEW x, NEW q, NEW m, Stands(w, x, q, m),
         NEW v, v = fatWriteLogical(w)
  PROVE  /\ Stands(v, x, q, m) /\ v.h = w.h /\ v.bbuf = w.bbuf
         /\ Blk(v, q) = w.bbuf
         /\ \A j \in Nat : j \div sectors_per_cluster < m /\ j # q => Blk(v, j) = Blk(w, j)
<1> DEFINE s == w.h.startcluster
           here == Current(w.h)
<1>1. /\ here = SectorAt(w.next, s, q) /\ here \in Sectors
      /\ w.currcluster \in Own(w.next, s, m) /\ w.currcluster \in Clusters
      /\ w \in Writing /\ w.monitor = "no" /\ m \in Nat /\ q \in Nat
      /\ w.holds \in [Sectors -> Block]
  BY StandsThere
<1>2. /\ v \in Writing
      /\ v.holds = [w.holds EXCEPT ![here] = w.bbuf] /\ v.stray = w.stray
      /\ v.next = w.next /\ v.cache \in {w.cache, Empty}
      /\ v.h = w.h /\ v.currcluster = w.currcluster /\ v.monitor = w.monitor /\ v.bbuf = w.bbuf
  BY <1>1, WriteLogicalIs
<1>3. q \div sectors_per_cluster < m /\ ChainOf(w.next, s, m) /\ Disk(w, x, m) /\ At(w, q)
  BY DEF Stands, Disk
<1>4. here \in SectorsOf(w.currcluster)
  BY <1>1, <1>3, SectorAtIs DEF At
<1>5. ASSUME NEW z \in Sectors, \A c \in Own(v.next, v.h.startcluster, m) : z \notin SectorsOf(c)
      PROVE  v.holds[z] = Old(z)
  <2>1. z # here
    BY <1>1, <1>2, <1>4, <1>5
  <2>2. w.holds[z] = Old(z)
    BY <1>2, <1>3, <1>5 DEF Disk
  <2> QED
    BY <1>1, <1>2, <2>1, <2>2
<1>6. Disk(v, x, m)
  BY <1>2, <1>3, <1>5 DEF Disk
<1>7. At(v, q)
  BY <1>2, <1>3 DEF At
<1>8. Blk(v, q) = w.bbuf
  BY <1>1, <1>2 DEF Blk
<1>9. ASSUME NEW j \in Nat, j \div sectors_per_cluster < m, j # q PROVE Blk(v, j) = Blk(w, j)
  <2>1. SectorAt(w.next, s, j) # here /\ SectorAt(w.next, s, j) \in Sectors
    BY <1>1, <1>3, <1>9, SectorAtOnce, SectorAtIs
  <2> QED
    BY <1>1, <1>2, <2>1 DEF Blk
<1> QED
  BY <1>1, <1>2, <1>3, <1>6, <1>7, <1>8, <1>9 DEF Stands

(* Steps that change only bbuf, or only the position in the file.          *)
LEMMA SameStands ==
  ASSUME NEW w, NEW v, NEW x, NEW q, NEW m, Stands(w, x, q, m), v \in Writing,
         SameDisk(w, v), SameHolds(w, v), SameFile(w, v), SamePlace(w, v), v.monitor = w.monitor
  PROVE  Stands(v, x, q, m) /\ KeepsBlocks(w, v, m)
<1>1. v.next = w.next /\ v.h.startcluster = w.h.startcluster /\ v.holds = w.holds
  BY DEF SameDisk, SameFile, SameHolds
<1>2. Disk(v, x, m)
  BY <1>1 DEF Stands, Disk, SameDisk, SameHolds, SameFile
<1>3. At(v, q)
  BY <1>1 DEF Stands, At, SamePlace
<1> QED
  BY <1>1, <1>2, <1>3 DEF Stands, KeepsBlocks, Blk

LEMMA SameStuck ==
  ASSUME NEW w, NEW v, NEW x, Stuck(w, x), v \in Writing,
         v.next = w.next, v.cache \in {w.cache, Empty}, SameHolds(w, v), SameFile(w, v), v.monitor = w.monitor
  PROVE  Stuck(v, x)
<1>1. v.next = w.next /\ v.h.startcluster = w.h.startcluster /\ v.holds = w.holds
  BY DEF SameFile, SameHolds
<1>2. ASSUME NEW m \in Nat \ {0}, Disk(w, x, m) PROVE Disk(v, x, m)
  BY <1>1, <1>2 DEF Disk, SameHolds, SameFile
<1> QED
  BY <1>1, <1>2 DEF Stuck

LEMMA ReadSector ==
  ASSUME disk \in Disks, RootIsShort, NEW w, NEW x, NEW q, NEW m, Stands(w, x, q, m),
         NEW v, v = fatReadLogical(w)
  PROVE  Stands(v, x, q, m) /\ v.h = w.h /\ KeepsBlocks(w, v, m) /\ v.bbuf = Blk(w, q)
<1>1. Current(w.h) = SectorAt(w.next, w.h.startcluster, q) /\ Current(w.h) \in Sectors /\ w \in Writing
  BY StandsThere
<1>2. /\ v \in Writing /\ v.bbuf = w.holds[Current(w.h)]
      /\ SameDisk(w, v) /\ SameHolds(w, v) /\ v.h = w.h /\ v.currcluster = w.currcluster
      /\ v.monitor = w.monitor
  BY <1>1, ReadLogicalIs
<1>3. SameFile(w, v) /\ SamePlace(w, v)
  BY <1>2 DEF SameFile, SamePlace
<1>4. Stands(v, x, q, m) /\ KeepsBlocks(w, v, m)
  BY <1>2, <1>3, SameStands
<1> QED
  BY <1>1, <1>2, <1>4 DEF Blk

LEMMA NextIndex ==
  ASSUME NEW q \in Nat, NEW c \in Nat \ {0}
  PROVE  /\ q % c = c - 1 => (q + 1) \div c = q \div c + 1 /\ (q + 1) % c = 0
         /\ q % c # c - 1 => (q + 1) \div c = q \div c /\ (q + 1) % c = (q % c) + 1
<1> DEFINE k == q \div c
           u == q % c
<1>1. k \in Nat /\ u \in 0 .. c - 1 /\ q = c * k + u
  BY DivModNat
<1>2. k = q \div c /\ u = q % c
  OBVIOUS
<1> HIDE DEF k, u
<1>3. CASE u = c - 1
  <2>1. q + 1 = c * (k + 1) + 0 /\ k + 1 \in Int /\ 0 \in 0 .. c - 1
    BY <1>1, <1>3
  <2>2. (q + 1) \div c = k + 1 /\ (q + 1) % c = 0
    BY <2>1, DivModIs, q + 1 \in Int
  <2> QED
    BY <1>2, <1>3, <2>2
<1>4. CASE u # c - 1
  <2>1. q + 1 = c * k + (u + 1) /\ k \in Int /\ u + 1 \in 0 .. c - 1
    BY <1>1, <1>4
  <2>2. (q + 1) \div c = k /\ (q + 1) % c = u + 1
    BY <2>1, DivModIs, q + 1 \in Int
  <2> QED
    BY <1>2, <1>4, <2>2
<1> QED
  BY <1>3, <1>4

LEMMA FreeCluster ==
  ASSUME disk \in Disks, NEW t \in Table, NEW c, c = fatFindFreeCluster(t)
  PROVE  /\ c = 0 => \A d \in Clusters : t[d] # 0
         /\ c # 0 => c \in Clusters /\ t[c] = 0
         /\ (\A d \in Clusters : t[d] # 0) => c = 0
<1> DEFINE free == {d \in Clusters : t[d] = 0}
<1>1. CASE free = {}
  BY <1>1 DEF fatFindFreeCluster
<1>2. CASE free # {}
  <2>1. free \in SUBSET Nat
    BY ClustersAre
  <2>2. \E d \in free : \A e \in free : d <= e
    BY <1>2, <2>1, LeastNumber
  <2>3. c = CHOOSE d \in free : \A e \in free : d <= e
    BY <1>2 DEF fatFindFreeCluster
  <2>4. c \in free
    BY <2>2, <2>3
  <2> QED
    BY <2>4, ClustersAre
<1> QED
  BY <1>1, <1>2

(* The next sector of the same cluster.                                    *)
LEMMA OnWithin ==
  ASSUME disk \in Disks, NEW w, NEW x, NEW q, NEW m, Stands(w, x, q, m),
         NEW v, v = NextSector(w)
  PROVE  /\ AtClusterEnd(v) <=> (q + 1) % sectors_per_cluster = 0
         /\ ~ AtClusterEnd(v) => Stands(v, x, q + 1, m)
         /\ KeepsBlocks(w, v, m)
         /\ v \in Writing /\ Disk(v, x, m) /\ v.monitor = "no" /\ v.bbuf = w.bbuf
         /\ v.currcluster = w.currcluster
         /\ SameDisk(w, v) /\ SameHolds(w, v) /\ SameFile(w, v) /\ SameSize(w, v)
<1> DEFINE spc == sectors_per_cluster
<1>1. /\ w \in Writing /\ q \in Nat /\ spc \in Nat \ {0} /\ q % spc \in 0 .. spc - 1
      /\ w.h.sectorUpto = q % spc /\ w.monitor = "no" /\ Disk(w, x, m) /\ At(w, q)
      /\ q \div spc < m
  <2>1. q \in Nat /\ spc \in Nat \ {0}
    BY DiskIs DEF Stands
  <2>2. q % spc \in 0 .. spc - 1
    BY <2>1, DivModNat
  <2> QED
    BY <2>1, <2>2 DEF Stands, Disk, At
<1>2. /\ v \in Writing /\ v.h.sectorUpto = w.h.sectorUpto + 1
      /\ v.currcluster = w.currcluster /\ v.h.currentCluster = w.h.currentCluster
      /\ v.h.sectorStart = w.h.sectorStart
      /\ SameDisk(w, v) /\ SameHolds(w, v) /\ SameFile(w, v) /\ SameSize(w, v)
      /\ v.monitor = w.monitor /\ v.bbuf = w.bbuf
  BY <1>1, NextSectorIs
<1>3. v.next = w.next /\ v.h.startcluster = w.h.startcluster /\ v.holds = w.holds
  BY <1>2 DEF SameDisk, SameFile, SameHolds
<1>4. Disk(v, x, m) /\ KeepsBlocks(w, v, m)
  BY <1>1, <1>2, <1>3 DEF Disk, SameDisk, SameHolds, SameFile, KeepsBlocks, Blk
<1>5. AtClusterEnd(v) <=> q % spc = spc - 1
  BY <1>1, <1>2 DEF AtClusterEnd
<1>6. /\ q % spc = spc - 1 => (q + 1) \div spc = q \div spc + 1 /\ (q + 1) % spc = 0
      /\ q % spc # spc - 1 => (q + 1) \div spc = q \div spc /\ (q + 1) % spc = (q % spc) + 1
  BY <1>1, NextIndex
<1> HIDE DEF spc
<1>7. AtClusterEnd(v) <=> (q + 1) % spc = 0
  BY <1>1, <1>5, <1>6
<1>8. ASSUME ~ AtClusterEnd(v) PROVE Stands(v, x, q + 1, m)
  <2>1. (q + 1) \div spc = q \div spc /\ (q + 1) % spc = (q % spc) + 1
    BY <1>5, <1>6, <1>8
  <2>2. At(v, q + 1)
    BY <1>1, <1>2, <1>3, <2>1 DEF At, spc
  <2> QED
    BY <1>1, <1>2, <1>4, <2>1, <2>2 DEF Stands, spc
<1> QED
  BY <1>1, <1>2, <1>4, <1>7, <1>8 DEF spc

(* The clusters of others are in use and are not the file's.               *)
LEMMA ChainedKeeps ==
  ASSUME disk \in Disks, NEW w, NEW x, NEW m, Disk(w, x, m), NEW c \in Clusters, w.next[c] = 0,
         NEW last, last = Nth(w.next, w.h.startcluster, m - 1),
         NEW v \in Writing, SameHolds(w, v), SameFile(w, v), v.cache = Empty,
         v.next = [[w.next EXCEPT ![last] = c] EXCEPT ![c] = EOC]
  PROVE  /\ Disk(v, x, m + 1) /\ Nth(v.next, v.h.startcluster, m) = c
         /\ \A i \in 0 .. m - 1 : Nth(v.next, v.h.startcluster, i) = Nth(w.next, w.h.startcluster, i)
<1> DEFINE s == w.h.startcluster
           own == Own(w.next, s, m)
<1>1. /\ m \in Nat \ {0} /\ ChainOf(w.next, s, m) /\ w.next \in Table /\ v.next \in Table
      /\ own \cap x.others = {} /\ v.h.startcluster = s /\ v.holds = w.holds /\ v.stray = w.stray
      /\ v.h.file = w.h.file
  BY DEF Disk, Writing, SameHolds, SameFile
<1>2. c \notin own
  <2>1. SUFFICES ASSUME c \in own PROVE FALSE
    OBVIOUS
  <2>2. PICK i \in 0 .. m - 1 : c = Nth(w.next, s, i)
    BY <2>1 DEF Own
  <2>3. w.next[c] = Nth(w.next, s, i + 1)
    BY <1>1, <2>2, ChainLinks
  <2>4. i + 1 \in 0 .. m - 1 \/ i + 1 = m
    BY <1>1
  <2>5. Nth(w.next, s, i + 1) # 0
    BY <1>1, <2>4, ClustersAre DEF ChainOf
  <2> QED
    BY <2>3, <2>5
<1>3. /\ ChainOf(v.next, s, m + 1) /\ Own(v.next, s, m + 1) = own \cup {c}
      /\ \A i \in 0 .. m - 1 : Nth(v.next, s, i) = Nth(w.next, s, i)
      /\ Nth(v.next, s, m) = c
  BY <1>1, <1>2, ChainGrow
<1>4. last \in own /\ last \in Clusters
  BY <1>1, m - 1 \in 0 .. m - 1 DEF Own, ChainOf
<1>5. \A d \in Clusters : v.next[d] = IF d = c THEN EOC ELSE IF d = last THEN c ELSE w.next[d]
  BY <1>1, <1>4 DEF Table
<1>6. c \notin x.others /\ last \notin x.others
  BY <1>1, <1>4 DEF Disk
<1>7. \A d \in x.others : d \in Clusters /\ v.next[d] = w.next[d] /\ w.next[d] # 0
  BY <1>5, <1>6 DEF Disk
<1>8. SameOn(x.table, v.next, x.others)
  BY <1>7 DEF Disk, SameOn
<1>9. \A d \in Clusters : v.next[d] # 0 => d \in own \cup {c} \cup x.others
  BY <1>4, <1>5 DEF Disk
<1>10. \A z \in Sectors : (\A d \in own \cup {c} : z \notin SectorsOf(d)) => v.holds[z] = Old(z)
  BY <1>1 DEF Disk
<1>11. (own \cup {c}) \cap x.others = {}
  BY <1>1, <1>6
<1>12. m + 1 \in Nat \ {0} /\ m + 1 >= x.least /\ ~ v.stray /\ w.h.file = x.file
  <2>1. x.least \in Nat /\ m >= x.least => m + 1 >= x.least
    BY <1>1
  <2> QED
    BY <1>1, <2>1 DEF Disk
<1>13. Disk(v, x, m + 1)
  BY <1>1, <1>3, <1>7, <1>8, <1>9, <1>10, <1>11, <1>12 DEF Disk
<1> QED
  BY <1>1, <1>3, <1>13

(* fatChain at the end of the last cluster: a new one, or a full disk.     *)
LEMMA ChainAdds ==
  ASSUME disk \in Disks, NEW w \in Writing, NEW x, NEW m, Disk(w, x, m), w.monitor = "no",
         w.currcluster = Nth(w.next, w.h.startcluster, m - 1), NEW v, v = fatChain(w)
  PROVE  /\ v \in Writing /\ SameFile(w, v) /\ SameSize(w, v) /\ SameHolds(w, v)
         /\ \/ Stuck(v, x)
            \/ /\ Disk(v, x, m + 1) /\ v.monitor = "no"
               /\ v.currcluster = Nth(v.next, v.h.startcluster, m)
               /\ v.h.currentCluster = v.currcluster /\ v.h.sectorUpto = 0
               /\ v.h.sectorStart = SectorStart(v.currcluster)
               /\ \A i \in 0 .. m - 1 : Nth(v.next, v.h.startcluster, i) = Nth(w.next, w.h.startcluster, i)
<1> DEFINE c == fatFindFreeCluster(w.next)
           cur == w.currcluster
<1>1. m \in Nat \ {0} /\ ChainOf(w.next, w.h.startcluster, m) /\ w.next \in Table
  BY DEF Disk, Writing
<1>2. cur \in Clusters /\ ~ fatEndCluster(cur)
  BY <1>1, m - 1 \in 0 .. m - 1, ClustersAre DEF ChainOf
<1>3. /\ c = 0 => \A d \in Clusters : w.next[d] # 0
      /\ c # 0 => c \in Clusters /\ w.next[c] = 0
  BY <1>1, FreeCluster
<1>4. CASE c = 0
  <2>1. v = [w EXCEPT !.monitor = "disk_full"]
    BY <1>4 DEF fatChain
  <2>2. /\ v \in Writing /\ v.monitor = "disk_full" /\ v.h = w.h /\ v.next = w.next /\ v.cache = w.cache
        /\ v.holds = w.holds /\ v.stray = w.stray
    BY <2>1 DEF Writing
  <2>3. Disk(v, x, m)
    BY <2>2 DEF Disk
  <2>4. Stuck(v, x)
    BY <1>1, <1>3, <1>4, <2>2, <2>3 DEF Stuck
  <2> QED
    BY <2>2, <2>4 DEF SameFile, SameSize, SameHolds
<1>5. CASE c # 0
  <2>1. c \in Clusters /\ w.next[c] = 0
    BY <1>3, <1>5
  <2> DEFINE t == [[w.next EXCEPT ![cur] = c] EXCEPT ![c] = EOC]
             y == fatMarkCluster([w EXCEPT !.next[cur] = c], c)
  <2>2. v = Enter(y, c)
    BY <1>2, <1>5 DEF fatChain
  <2>3. t \in Table
    BY <1>1, <1>2, <2>1 DEF Table, LinkSet
  <2>4. y = [[w EXCEPT !.cache = Empty] EXCEPT !.next = t]
    <3>1. [w EXCEPT !.next[cur] = c] = [w EXCEPT !.next = [w.next EXCEPT ![cur] = c]]
      BY DEF Writing
    <3> DEFINE a == [w.next EXCEPT ![cur] = c]
               g == [w EXCEPT !.next = a]
    <3>2. g.next = a
      BY DEF Writing
    <3>3. y = [[g EXCEPT !.cache = Empty] EXCEPT !.next[c] = EOC]
      BY <3>1 DEF fatMarkCluster, Uncached
    <3>4. [g EXCEPT !.cache = Empty].next = a
      BY DEF Writing
    <3>5. t = [a EXCEPT ![c] = EOC]
      OBVIOUS
    <3> HIDE DEF a, t, y
    <3>6. y = [[g EXCEPT !.cache = Empty] EXCEPT !.next = t]
      BY <3>3, <3>4, <3>5 DEF Writing
    <3> QED
      BY <3>6 DEF Writing
  <2> HIDE DEF t, y
  <2>5. /\ y \in Writing /\ y.next = t /\ y.cache = Empty /\ y.h = w.h /\ y.holds = w.holds
        /\ y.stray = w.stray /\ y.monitor = w.monitor
    BY <2>3, <2>4 DEF Writing
  <2>6. /\ v \in Writing /\ v.h.sectorUpto = 0
        /\ v.currcluster = c /\ v.h.currentCluster = c /\ v.h.sectorStart = SectorStart(c)
        /\ SameDisk(y, v) /\ SameHolds(y, v) /\ SameFile(y, v) /\ SameSize(y, v)
        /\ v.monitor = y.monitor
    BY <2>1, <2>2, <2>5, EnterIs DEF LinkSet
  <2>7. SameFile(w, v) /\ SameSize(w, v) /\ SameHolds(w, v) /\ v.cache = Empty /\ v.next = t
    BY <2>5, <2>6 DEF SameFile, SameSize, SameHolds, SameDisk
  <2>8. /\ Disk(v, x, m + 1) /\ Nth(v.next, v.h.startcluster, m) = c
        /\ \A i \in 0 .. m - 1 : Nth(v.next, v.h.startcluster, i) = Nth(w.next, w.h.startcluster, i)
    BY <2>1, <2>6, <2>7, ChainedKeeps DEF t
  <2> QED
    BY <2>5, <2>6, <2>7, <2>8
<1> QED
  BY <1>4, <1>5

(* To the next sector, in a new cluster at the end of the last one.        *)
Longer(q, m) == IF (q + 1) % sectors_per_cluster = 0 THEN m + 1 ELSE m

LEMMA GoOn ==
  ASSUME disk \in Disks, RootIsShort, NEW w, NEW x, NEW q, NEW m, Stands(w, x, q, m),
         (q + 1) % sectors_per_cluster = 0 => (q + 1) \div sectors_per_cluster = m,
         NEW v, v = OrChain(NextSector(w))
  PROVE  /\ v \in Writing /\ SameFile(w, v) /\ SameSize(w, v)
         /\ Stuck(v, x) \/ (Stands(v, x, q + 1, Longer(q, m)) /\ KeepsBlocks(w, v, m))
<1> DEFINE u == NextSector(w)
           spc == sectors_per_cluster
<1>1. /\ AtClusterEnd(u) <=> (q + 1) % spc = 0
      /\ ~ AtClusterEnd(u) => Stands(u, x, q + 1, m)
      /\ KeepsBlocks(w, u, m)
      /\ u \in Writing /\ Disk(u, x, m) /\ u.monitor = "no"
      /\ u.currcluster = w.currcluster
      /\ SameDisk(w, u) /\ SameHolds(w, u) /\ SameFile(w, u) /\ SameSize(w, u)
  BY OnWithin
<1>2. v = IF AtClusterEnd(u) THEN fatChain(u) ELSE u
  BY DEF OrChain
<1> HIDE DEF u
<1>3. q \in Nat /\ m \in Nat \ {0} /\ spc \in Nat \ {0} /\ w \in Writing
      /\ w.currcluster = Nth(w.next, w.h.startcluster, q \div spc)
  BY DiskIs DEF Stands, Disk, At
<1>4. CASE ~ AtClusterEnd(u)
  <2>1. v = u /\ Longer(q, m) = m
    BY <1>1, <1>2, <1>4 DEF Longer
  <2> QED
    BY <1>1, <1>4, <2>1
<1>5. CASE AtClusterEnd(u)
  <2>1. (q + 1) % spc = 0 /\ (q + 1) \div spc = m /\ Longer(q, m) = m + 1
    BY <1>1, <1>5 DEF Longer
  <2>2. q \div spc = m - 1
    <3>1. /\ q % spc = spc - 1 => (q + 1) \div spc = q \div spc + 1 /\ (q + 1) % spc = 0
          /\ q % spc # spc - 1 => (q + 1) \div spc = q \div spc /\ (q + 1) % spc = (q % spc) + 1
      BY <1>3, NextIndex
    <3>2. q % spc \in Nat /\ q \div spc \in Nat
      BY <1>3, Index
    <3> HIDE DEF spc
    <3> QED
      BY <1>3, <2>1, <3>1, <3>2
  <2>3. u.currcluster = Nth(u.next, u.h.startcluster, m - 1)
    BY <1>1, <1>3, <2>2 DEF SameDisk, SameFile
  <2>4. v = fatChain(u)
    BY <1>2, <1>5
  <2>5. /\ v \in Writing /\ SameFile(u, v) /\ SameSize(u, v) /\ SameHolds(u, v)
        /\ \/ Stuck(v, x)
           \/ /\ Disk(v, x, m + 1) /\ v.monitor = "no"
              /\ v.currcluster = Nth(v.next, v.h.startcluster, m)
              /\ v.h.currentCluster = v.currcluster /\ v.h.sectorUpto = 0
              /\ v.h.sectorStart = SectorStart(v.currcluster)
              /\ \A i \in 0 .. m - 1 : Nth(v.next, v.h.startcluster, i) = Nth(u.next, u.h.startcluster, i)
    BY <1>1, <2>3, <2>4, ChainAdds
  <2>6. SameFile(w, v) /\ SameSize(w, v)
    BY <1>1, <2>5 DEF SameFile, SameSize
  <2>7. CASE ~ Stuck(v, x)
    <3>1. At(v, q + 1)
      BY <2>1, <2>5, <2>7 DEF At
    <3>2. Stands(v, x, q + 1, m + 1)
      BY <1>3, <2>1, <2>5, <2>7, <3>1 DEF Stands
    <3>3. ASSUME NEW j \in Nat, j \div spc < m PROVE Blk(v, j) = Blk(w, j)
      <4>1. j \div spc \in 0 .. m - 1
        BY <1>3, <3>3, Index
      <4>2. Nth(v.next, v.h.startcluster, j \div spc) = Nth(u.next, u.h.startcluster, j \div spc)
        BY <2>5, <2>7, <4>1
      <4>3. Blk(v, j) = Blk(u, j)
        BY <2>5, <4>2 DEF Blk, SectorAt, SameHolds
      <4> QED
        BY <1>1, <3>3, <4>3 DEF KeepsBlocks
    <3> QED
      BY <2>1, <2>5, <2>6, <3>2, <3>3 DEF KeepsBlocks
  <2> QED
    BY <2>5, <2>6, <2>7
<1> QED
  BY <1>4, <1>5

(* To the next sector, in the next cluster of the chain.                   *)
LEMMA FollowOn ==
  ASSUME disk \in Disks, RootIsShort, NEW w, NEW x, NEW q, NEW m, Stands(w, x, q, m),
         (q + 1) \div sectors_per_cluster < m,
         NEW v, v = OrFollow(NextSector(w))
  PROVE  /\ v \in Writing /\ SameFile(w, v) /\ SameSize(w, v)
         /\ Stands(v, x, q + 1, m) /\ KeepsBlocks(w, v, m)
<1> DEFINE u == NextSector(w)
           spc == sectors_per_cluster
           s == w.h.startcluster
<1>1. /\ AtClusterEnd(u) <=> (q + 1) % spc = 0
      /\ ~ AtClusterEnd(u) => Stands(u, x, q + 1, m)
      /\ KeepsBlocks(w, u, m)
      /\ u \in Writing /\ Disk(u, x, m) /\ u.monitor = "no"
      /\ u.currcluster = w.currcluster
      /\ SameDisk(w, u) /\ SameHolds(w, u) /\ SameFile(w, u) /\ SameSize(w, u)
  BY OnWithin
<1>2. v = IF AtClusterEnd(u) THEN Followed(u) ELSE u
  BY DEF OrFollow
<1>3. q \in Nat /\ m \in Nat \ {0} /\ spc \in Nat \ {0} /\ w \in Writing
      /\ w.currcluster = Nth(w.next, s, q \div spc) /\ ChainOf(w.next, s, m)
  BY DiskIs DEF Stands, Disk, At
<1>4. u.next = w.next /\ u.h.startcluster = s /\ u.next \in Table /\ u.cache \in {Empty, u.next}
  BY <1>1 DEF SameDisk, SameFile, Disk, Writing
<1> HIDE DEF u
<1>5. CASE ~ AtClusterEnd(u)
  BY <1>1, <1>2, <1>5
<1>6. CASE AtClusterEnd(u)
  <2>1. (q + 1) % spc = 0
    BY <1>1, <1>6
  <2>2. q \div spc \in 0 .. m - 1 /\ (q + 1) \div spc = q \div spc + 1
    <3>1. /\ q % spc = spc - 1 => (q + 1) \div spc = q \div spc + 1 /\ (q + 1) % spc = 0
          /\ q % spc # spc - 1 => (q + 1) \div spc = q \div spc /\ (q + 1) % spc = (q % spc) + 1
      BY <1>3, NextIndex
    <3>2. q % spc \in Nat /\ q \div spc \in Nat
      BY <1>3, Index
    <3>3. (q + 1) \div spc < m
      OBVIOUS
    <3> HIDE DEF spc
    <3> QED
      BY <1>3, <2>1, <3>1, <3>2, <3>3
  <2> DEFINE d == Nth(u.next, s, q \div spc + 1)
             cache == Caching(u.next, u.cache, u.currcluster)
             g == [u EXCEPT !.cache = cache]
  <2>3. Seen(u.next, u.cache) = u.next
    BY <1>4 DEF Seen
  <2>4. d = Follow(u.next, u.currcluster)
    <3>1. q \div spc \in Nat
      BY <2>2
    <3>2. d = Follow(u.next, Nth(u.next, s, q \div spc))
      BY <3>1, NthSteps
    <3> QED
      BY <1>1, <1>3, <1>4, <3>2
  <2>5. d \in Clusters
    BY <1>3, <1>4, <2>2, q \div spc + 1 \in 0 .. m - 1 DEF ChainOf
  <2>6. cache \in {Empty, u.next}
    BY <1>4, <2>3 DEF Caching
  <2>7. v = Enter(g, d)
    BY <1>2, <1>6, <2>3, <2>4 DEF Followed
  <2> HIDE DEF d, cache
  <2>8. /\ g \in Writing /\ g.cache = cache /\ g.next = u.next /\ g.h = u.h /\ g.holds = u.holds
        /\ g.stray = u.stray /\ g.monitor = u.monitor
    BY <1>1, <1>4, <2>6 DEF Writing
  <2> HIDE DEF g
  <2>9. /\ v \in Writing /\ v.h.sectorUpto = 0
        /\ v.currcluster = d /\ v.h.currentCluster = d /\ v.h.sectorStart = SectorStart(d)
        /\ SameDisk(g, v) /\ SameHolds(g, v) /\ SameFile(g, v) /\ SameSize(g, v)
        /\ v.monitor = g.monitor
    BY <2>5, <2>7, <2>8, EnterIs DEF LinkSet
  <2>10. /\ SameFile(w, v) /\ SameSize(w, v) /\ v.next = u.next /\ v.cache = cache
         /\ v.holds = u.holds /\ v.stray = u.stray /\ v.monitor = "no"
         /\ v.h.startcluster = s /\ v.h.file = u.h.file
    BY <1>1, <1>4, <2>8, <2>9 DEF SameFile, SameSize, SameDisk, SameHolds
  <2>11. Disk(v, x, m)
    BY <1>1, <1>4, <2>6, <2>9, <2>10 DEF Disk
  <2>12. At(v, q + 1)
    BY <2>1, <2>2, <2>9, <2>10 DEF At, d
  <2>13. Stands(v, x, q + 1, m)
    BY <1>3, <2>10, <2>11, <2>12 DEF Stands
  <2>14. KeepsBlocks(w, v, m)
    BY <1>1, <1>4, <2>10 DEF KeepsBlocks, Blk
  <2> QED
    BY <2>9, <2>10, <2>13, <2>14
<1> QED
  BY <1>5, <1>6

(* After the disk has run full a write changes nothing any more.           *)
LEMMA StuckIs ==
  ASSUME NEW w, NEW x, Stuck(w, x)
  PROVE  /\ w \in Writing /\ w.monitor = "disk_full" /\ w.monitor # "no"
         /\ w.next \in Table /\ w.cache \in {Empty, w.next} /\ w.currcluster \in LinkSet
BY DEF Stuck, Disk, Writing

LEMMA StuckSteps ==
  ASSUME disk \in Disks, NEW w, NEW x, Stuck(w, x)
  PROVE  /\ Stuck(NextSector(w), x) /\ Stuck(OrChain(w), x) /\ Stuck(OrFollow(w), x)
         /\ fatWriteLogical(w) = w /\ Stuck(fatReadLogical(w), x)
<1>1. /\ w \in Writing /\ w.monitor = "disk_full" /\ w.monitor # "no"
      /\ w.next \in Table /\ w.cache \in {Empty, w.next} /\ w.currcluster \in LinkSet
  BY StuckIs
<1>2. Stuck(NextSector(w), x)
  <2> DEFINE v == NextSector(w)
  <2>1. v \in Writing /\ SameDisk(w, v) /\ SameHolds(w, v) /\ SameFile(w, v) /\ v.monitor = w.monitor
    BY <1>1, NextSectorIs
  <2> HIDE DEF v
  <2>2. Stuck(v, x)
    BY <2>1, SameStuck DEF SameDisk
  <2> QED
    BY <2>2 DEF v
<1>3. Stuck(OrChain(w), x)
  <2>1. fatFindFreeCluster(w.next) = 0
    BY <1>1, FreeCluster DEF Stuck
  <2>2. fatChain(w) = [w EXCEPT !.monitor = "disk_full"]
    BY <2>1 DEF fatChain
  <2>3. [w EXCEPT !.monitor = "disk_full"] = w
    BY <1>1 DEF Writing
  <2> QED
    BY <2>2, <2>3 DEF OrChain
<1>4. Stuck(OrFollow(w), x)
  <2> DEFINE d == Follow(w.next, w.currcluster)
             cache == Caching(w.next, w.cache, w.currcluster)
             g == [w EXCEPT !.cache = cache]
             v == Enter(g, d)
  <2>1. Seen(w.next, w.cache) = w.next
    BY <1>1 DEF Seen
  <2>2. d \in LinkSet
    <3>1. ~ fatEndCluster(w.currcluster) => w.currcluster \in Clusters
      BY <1>1, ClustersAre DEF LinkSet
    <3> QED
      BY <1>1, <3>1 DEF Follow, Table
  <2>3. cache \in {Empty, w.next}
    BY <1>1, <2>1 DEF Caching
  <2>4. Followed(w) = v
    BY <2>1 DEF Followed
  <2> HIDE DEF d, cache
  <2>5. /\ g \in Writing /\ g.cache = cache /\ g.next = w.next /\ g.h = w.h /\ g.holds = w.holds
        /\ g.stray = w.stray /\ g.monitor = w.monitor
    BY <1>1, <2>3 DEF Writing
  <2> HIDE DEF g
  <2>6. /\ v \in Writing /\ SameDisk(g, v) /\ SameHolds(g, v) /\ SameFile(g, v) /\ v.monitor = g.monitor
    BY <2>2, <2>5, EnterIs
  <2> HIDE DEF v
  <2>7. /\ v.next = w.next /\ v.cache = cache /\ v.holds = w.holds /\ v.stray = w.stray
        /\ v.h.file = w.h.file /\ v.h.startcluster = w.h.startcluster /\ v.monitor = w.monitor
    BY <2>5, <2>6 DEF SameDisk, SameHolds, SameFile
  <2>8. ASSUME NEW m \in Nat \ {0}, Disk(w, x, m) PROVE Disk(v, x, m)
    BY <2>3, <2>6, <2>7, <2>8 DEF Disk
  <2>9. Stuck(v, x)
    BY <2>7, <2>8 DEF Stuck
  <2> QED
    BY <2>4, <2>9 DEF OrFollow
<1>5. fatWriteLogical(w) = w
  BY <1>1 DEF fatWriteLogical
<1>6. Stuck(fatReadLogical(w), x)
  <2> DEFINE v == fatReadLogical(w)
  <2>1. v \in Writing /\ SameDisk(w, v) /\ SameHolds(w, v) /\ v.h = w.h /\ v.monitor = w.monitor
    BY <1>1, ReadLogicalIs
  <2> HIDE DEF v
  <2>2. Stuck(v, x)
    BY <2>1, SameStuck DEF SameDisk, SameFile
  <2> QED
    BY <2>2 DEF v
<1> QED
  BY <1>2, <1>3, <1>4, <1>5, <1>6

LEMMA StuckFills ==
  ASSUME disk \in Disks, NEW w, NEW x, Stuck(w, x), NEW o \in Int, NEW k \in Int, NEW n \in Int
  PROVE  Stuck(Filled(w, o, k, n), x) /\ Stuck(Zeroed(w, o, k), x) /\ Stuck(Advanced(w, n), x)
<1>1. w \in Writing
  BY StuckIs
<1>2. Stuck(Filled(w, o, k, n), x)
  <2>0. PICK v : v = Filled(w, o, k, n)
    OBVIOUS
  <2>1. v \in Writing /\ SameDisk(w, v) /\ SameHolds(w, v) /\ v.h = w.h /\ v.monitor = w.monitor
    BY <1>1, <2>0, FilledIs
  <2>2. Stuck(v, x)
    BY <2>1, SameStuck DEF SameDisk, SameFile
  <2> QED
    BY <2>0, <2>2
<1>3. Stuck(Zeroed(w, o, k), x)
  <2>0. PICK v : v = Zeroed(w, o, k)
    OBVIOUS
  <2>1. v \in Writing /\ SameDisk(w, v) /\ SameHolds(w, v) /\ v.h = w.h /\ v.monitor = w.monitor
    BY <1>1, <2>0, ZeroedIs
  <2>2. Stuck(v, x)
    BY <2>1, SameStuck DEF SameDisk, SameFile
  <2> QED
    BY <2>0, <2>2
<1>4. Stuck(Advanced(w, n), x)
  <2> DEFINE v == Advanced(w, n)
  <2>1. v \in Writing /\ SameDisk(w, v) /\ SameHolds(w, v) /\ SameFile(w, v) /\ v.monitor = w.monitor
    BY <1>1, AdvancedIs
  <2> HIDE DEF v
  <2>2. Stuck(v, x)
    BY <2>1, SameStuck DEF SameDisk, SameFile
  <2> QED
    BY <2>2 DEF v
<1> QED
  BY <1>2, <1>3, <1>4

(* How many clusters there are when a file of z bytes is being written in  *)
(* sector q.                                                               *)
Reaching(z, q) ==
  IF ClustersFor(z) > q \div sectors_per_cluster THEN ClustersFor(z) ELSE (q \div sectors_per_cluster) + 1

LEMMA SizeInClusters ==
  ASSUME disk \in Disks, NEW z \in Nat
  PROVE  /\ z = 0 => ClustersFor(z) = 0
         /\ z > 0 => /\ (z - 1) \div SectorSize \in Nat
                     /\ ClustersFor(z) = (((z - 1) \div SectorSize) \div sectors_per_cluster) + 1
         /\ ClustersFor(z) \in Nat
<1>1. SectorSize \in Nat \ {0} /\ sectors_per_cluster \in Nat \ {0}
  BY DiskIs
<1>2. ClusterSize = sectors_per_cluster * SectorSize /\ ClusterSize \in Nat \ {0}
  BY <1>1 DEF ClusterSize
<1>3. /\ z = 0 => ClustersFor(z) = 0
      /\ z > 0 => ClustersFor(z) = ((z - 1) \div ClusterSize) + 1
  BY <1>2, LastByte DEF ClustersFor
<1>4. CASE z = 0
  BY <1>3, <1>4
<1>5. CASE z > 0
  <2>1. z - 1 \in Nat
    BY <1>5
  <2>2. (z - 1) \div ClusterSize = ((z - 1) \div SectorSize) \div sectors_per_cluster
    <3>1. PICK c, n, y : c = sectors_per_cluster /\ n = SectorSize /\ y = z - 1
      OBVIOUS
    <3>2. y \in Nat /\ n \in Nat \ {0} /\ c \in Nat \ {0}
      BY <1>1, <2>1, <3>1
    <3>4. InClusters(y, c, n)
      BY <3>2, SectorsInClusters
    <3>3. y \div (c * n) = (y \div n) \div c
      BY ONLY <3>4, Zenon DEF InClusters
    <3> QED
      BY <1>2, <3>1, <3>3
  <2>3. (z - 1) \div SectorSize \in Nat
    BY <1>1, <2>1, DivModNat
  <2>4. ((z - 1) \div SectorSize) \div sectors_per_cluster \in Nat
    BY <2>3, Index
  <2> QED
    BY <1>3, <1>5, <2>2, <2>3, <2>4
<1> QED
  BY <1>4, <1>5

(* Sector q of a file of z bytes: it begins before the end, or not.        *)
LEMMA ReachingIs ==
  ASSUME disk \in Disks, NEW z \in Nat, NEW q \in Nat
  PROVE  /\ Reaching(z, q) \in Nat /\ q \div sectors_per_cluster < Reaching(z, q)
         /\ q * SectorSize < z => Reaching(z, q) = ClustersFor(z) /\ q \div sectors_per_cluster < ClustersFor(z)
         /\ z <= (q + 1) * SectorSize => Reaching(z, q) = (q \div sectors_per_cluster) + 1
<1> DEFINE spc == sectors_per_cluster
           l == (z - 1) \div SectorSize
<1>1. /\ z = 0 => ClustersFor(z) = 0
      /\ z > 0 => l \in Nat /\ ClustersFor(z) = (l \div spc) + 1
      /\ ClustersFor(z) \in Nat
  BY SizeInClusters
<1>2. q \div spc \in Nat /\ spc \in Nat \ {0} /\ SectorSize \in Nat \ {0}
  <2>1. SectorSize \in Nat \ {0}
    BY DiskIs
  <2>2. q \div spc \in Nat /\ spc \in Nat \ {0}
    BY Index
  <2> QED
    BY <2>1, <2>2
<1>3. Reaching(z, q) \in Nat /\ q \div spc < Reaching(z, q)
  BY <1>1, <1>2 DEF Reaching
<1>4. z > 0 => z - 1 = SectorSize * l + ((z - 1) % SectorSize) /\ (z - 1) % SectorSize \in 0 .. SectorSize - 1
  BY <1>2, DivMod, z - 1 \in Int
<1> HIDE DEF l
<1>5. ASSUME q * SectorSize < z PROVE q \div spc < ClustersFor(z)
  <2> DEFINE r == (z - 1) % SectorSize
  <2>0. z > 0 /\ q * SectorSize \in Nat
    BY <1>2, <1>5
  <2>1. z - 1 = SectorSize * l + r /\ r \in 0 .. SectorSize - 1 /\ l \in Nat
    BY <1>1, <1>4, <2>0
  <2> HIDE DEF r
  <2>2. ~ (l < q)
    <3> SUFFICES ASSUME l < q PROVE FALSE
      OBVIOUS
    <3>1. q - l - 1 \in Nat
      BY <2>1
    <3>2. SectorSize * (q - l - 1) >= 0
      BY <1>2, <3>1
    <3>3. SectorSize * (q - l - 1) = q * SectorSize - SectorSize * l - SectorSize
      BY <1>2, <2>1
    <3> QED
      BY <1>2, <1>5, <2>1, <3>2, <3>3
  <2>3. q \div spc <= l \div spc
    BY <1>2, <2>1, <2>2, DivOrder
  <2> QED
    BY <1>1, <1>2, <2>0, <2>1, <2>3
<1>6. ASSUME z <= (q + 1) * SectorSize PROVE ClustersFor(z) <= (q \div spc) + 1
  <2>1. CASE z = 0
    BY <1>1, <1>2, <2>1
  <2>2. CASE z > 0
    <3> DEFINE r == (z - 1) % SectorSize
    <3>1. z - 1 = SectorSize * l + r /\ r \in 0 .. SectorSize - 1 /\ l \in Nat
      BY <1>1, <1>4, <2>2
    <3> HIDE DEF r
    <3>2. ~ (q < l)
      <4> SUFFICES ASSUME q < l PROVE FALSE
        OBVIOUS
      <4>1. l - q - 1 \in Nat
        BY <3>1
      <4>2. SectorSize * (l - q - 1) >= 0
        BY <1>2, <4>1
      <4>3. SectorSize * (l - q - 1) = SectorSize * l - (q + 1) * SectorSize
        BY <1>2, <3>1
      <4> QED
        BY <1>2, <1>6, <3>1, <4>2, <4>3
    <3>3. l \div spc <= q \div spc /\ l \div spc \in Nat
      BY <1>2, <3>1, <3>2, DivOrder, Index
    <3> QED
      BY <1>1, <1>2, <2>2, <3>3
  <2> QED
    BY <2>1, <2>2
<1> QED
  BY <1>1, <1>2, <1>3, <1>5, <1>6 DEF Reaching

(***************************************************************************)
(* What a write puts where: the first n bytes of the file are those of F.  *)
(***************************************************************************)
Later(a, b) == IF a > b THEN a ELSE b

Holds(w, F, n, m) ==
  \A i \in Nat : i < n => /\ (i \div SectorSize) \div sectors_per_cluster < m
                          /\ Blk(w, i \div SectorSize)[i % SectorSize] = F[i]

LEMMA ByteAt ==
  ASSUME disk \in Disks, NEW i \in Nat, NEW q \in Nat
  PROVE  /\ i \div SectorSize \in Nat /\ i % SectorSize \in Offsets
         /\ i \div SectorSize = q <=> (q * SectorSize <= i /\ i < (q + 1) * SectorSize)
         /\ i \div SectorSize = q => i % SectorSize = i - q * SectorSize
         /\ q * SectorSize \in Nat /\ (q + 1) * SectorSize = q * SectorSize + SectorSize
<1> DEFINE k == i \div SectorSize
           o == i % SectorSize
<1>1. SectorSize \in Nat \ {0}
  BY DiskIs
<1>2. k \in Nat /\ o \in 0 .. SectorSize - 1 /\ i = SectorSize * k + o
  BY <1>1, DivModNat
<1>3. q * SectorSize \in Nat /\ (q + 1) * SectorSize = q * SectorSize + SectorSize
  BY <1>1
<1>4. ASSUME q * SectorSize <= i, i < (q + 1) * SectorSize PROVE k = q
  <2>1. i - q * SectorSize \in 0 .. SectorSize - 1 /\ i = SectorSize * q + (i - q * SectorSize)
    BY <1>1, <1>3, <1>4
  <2> QED
    BY <1>1, <2>1, DivModIs
<1> HIDE DEF k, o
<1>5. ASSUME k = q PROVE q * SectorSize <= i /\ i < (q + 1) * SectorSize /\ o = i - q * SectorSize
  BY <1>1, <1>2, <1>3, <1>5
<1>6. k = i \div SectorSize /\ o = i % SectorSize
  BY DEF k, o
<1> QED
  BY <1>2, <1>3, <1>4, <1>5, <1>6 DEF Offsets

LEMMA HoldsKept ==
  ASSUME NEW w, NEW v, NEW F, NEW n, NEW m \in Nat, NEW m2 \in Nat, m <= m2, disk \in Disks,
         Holds(w, F, n, m), KeepsBlocks(w, v, m)
  PROVE  Holds(v, F, n, m2)
<1> SUFFICES ASSUME NEW i \in Nat, i < n
             PROVE  /\ (i \div SectorSize) \div sectors_per_cluster < m2
                    /\ Blk(v, i \div SectorSize)[i % SectorSize] = F[i]
  BY DEF Holds
<1>1. /\ (i \div SectorSize) \div sectors_per_cluster < m
      /\ Blk(w, i \div SectorSize)[i % SectorSize] = F[i]
  BY DEF Holds
<1>2. i \div SectorSize \in Nat
  BY ByteAt, 0 \in Nat
<1>3. (i \div SectorSize) \div sectors_per_cluster \in Nat
  BY <1>2, Index
<1>4. Blk(v, i \div SectorSize) = Blk(w, i \div SectorSize)
  BY <1>1, <1>2 DEF KeepsBlocks
<1> QED
  BY <1>1, <1>3, <1>4

(* Sector q is written, with what bbuf has.                                *)
Covers(b, q, F, n, G, k) ==
  \A i \in Nat : i < k => IF i \div SectorSize = q THEN b[i % SectorSize] = G[i]
                          ELSE i < n /\ G[i] = F[i]

LEMMA PutIn ==
  ASSUME disk \in Disks, RootIsShort, NEW w, NEW x, NEW q, NEW m, Stands(w, x, q, m),
         NEW F, NEW n \in Nat, Holds(w, F, n, m), NEW G, NEW k \in Nat, Covers(w.bbuf, q, F, n, G, k),
         NEW v, v = fatWriteLogical(w)
  PROVE  Stands(v, x, q, m) /\ v.h = w.h /\ Holds(v, G, k, m)
<1>1. /\ Stands(v, x, q, m) /\ v.h = w.h /\ Blk(v, q) = w.bbuf
      /\ \A j \in Nat : j \div sectors_per_cluster < m /\ j # q => Blk(v, j) = Blk(w, j)
  BY WriteSector
<1>2. ASSUME NEW i \in Nat, i < k
      PROVE  /\ (i \div SectorSize) \div sectors_per_cluster < m
             /\ Blk(v, i \div SectorSize)[i % SectorSize] = G[i]
  <2>1. i \div SectorSize \in Nat
    BY ByteAt, 0 \in Nat
  <2>2. CASE i \div SectorSize = q
    <3>1. q \div sectors_per_cluster < m
      BY DEF Stands
    <3>2. w.bbuf[i % SectorSize] = G[i]
      BY <1>2, <2>2 DEF Covers
    <3> QED
      BY <1>1, <2>2, <3>1, <3>2
  <2>3. CASE i \div SectorSize # q
    <3>1. i < n /\ G[i] = F[i]
      BY <1>2, <2>3 DEF Covers
    <3>2. /\ (i \div SectorSize) \div sectors_per_cluster < m
          /\ Blk(w, i \div SectorSize)[i % SectorSize] = F[i]
      BY <3>1 DEF Holds
    <3> QED
      BY <1>1, <2>1, <2>3, <3>1, <3>2
  <2> QED
    BY <2>2, <2>3
<1> QED
  BY <1>1, <1>2 DEF Holds

(* What bbuf keeps of sector q, when it is filled from offset o on.        *)
Keeps(b, q, F, n, o, k) ==
  \A i \in Nat : i < n /\ i \div SectorSize = q /\ i % SectorSize \notin o .. o + k - 1
                   => b[i % SectorSize] = F[i]

Over(F, G, p, k, from) ==
  \A i \in Nat : G[i] = IF i \in p .. p + k - 1 THEN New(from + i - p) ELSE F[i]
Blanked(F, G, p, k) ==
  \A i \in Nat : G[i] = IF i \in p .. p + k - 1 THEN Zero ELSE F[i]

LEMMA Fits ==
  ASSUME disk \in Disks, NEW q \in Nat, NEW o \in Nat, NEW k \in Nat, o + k <= SectorSize,
         NEW n \in Nat, q * SectorSize + o <= n, NEW i \in Nat, i < Later(n, q * SectorSize + o + k),
         NEW p, p = q * SectorSize + o
  PROVE  /\ i \div SectorSize = q => (i \in p .. p + k - 1 <=> i % SectorSize \in o .. o + k - 1)
         /\ i \div SectorSize = q => (i % SectorSize) - o = i - p
         /\ i \div SectorSize # q => i \notin p .. p + k - 1
         /\ i < n \/ i \in p .. p + k - 1
<1>1. /\ i % SectorSize \in Offsets
      /\ i \div SectorSize = q <=> (q * SectorSize <= i /\ i < (q + 1) * SectorSize)
      /\ i \div SectorSize = q => i % SectorSize = i - q * SectorSize
      /\ q * SectorSize \in Nat /\ (q + 1) * SectorSize = q * SectorSize + SectorSize
  BY ByteAt
<1>2. SectorSize \in Nat \ {0}
  BY DiskIs
<1> DEFINE s == q * SectorSize
           d == i \div SectorSize
           r == i % SectorSize
<1>3. /\ r \in Int /\ (d = q <=> (s <= i /\ i < s + SectorSize))
      /\ d = q => r = i - s
      /\ s \in Nat /\ p = s + o /\ i < Later(n, s + o + k) /\ s + o <= n
  BY <1>1, <1>2 DEF Offsets
<1> HIDE DEF s, d, r
<1>4. /\ d = q => (i \in p .. p + k - 1 <=> r \in o .. o + k - 1)
      /\ d = q => r - o = i - p
      /\ d # q => i \notin p .. p + k - 1
      /\ i < n \/ i \in p .. p + k - 1
  BY <1>2, <1>3 DEF Later
<1> QED
  BY <1>4 DEF d, r

(* The caller's bytes, or zeros, go into a part of sector q.               *)
LEMMA FillHere ==
  ASSUME disk \in Disks, RootIsShort, NEW w, NEW x, NEW q, NEW m, Stands(w, x, q, m),
         NEW F, NEW n \in Nat, Holds(w, F, n, m), NEW o \in Nat, NEW k \in Nat, o + k <= SectorSize,
         q * SectorSize + o <= n, Keeps(w.bbuf, q, F, n, o, k),
         NEW from \in Int, NEW G, Over(F, G, q * SectorSize + o, k, from),
         NEW v, v = fatWriteLogical(Filled(w, o, k, from))
  PROVE  Stands(v, x, q, m) /\ v.h = w.h /\ Holds(v, G, Later(n, q * SectorSize + o + k), m)
<1>0. PICK u : u = Filled(w, o, k, from)
  OBVIOUS
<1>1. w \in Writing /\ q \in Nat /\ o \in Int /\ k \in Int
  BY StandsThere
<1>2. /\ u \in Writing /\ u.bbuf = Laid(w.bbuf, o, k, from)
      /\ SameDisk(w, u) /\ SameHolds(w, u) /\ u.h = w.h /\ u.currcluster = w.currcluster
      /\ u.monitor = w.monitor
  BY <1>0, <1>1, FilledIs
<1>3. SameFile(w, u) /\ SamePlace(w, u)
  BY <1>2 DEF SameFile, SamePlace
<1>4. Stands(u, x, q, m) /\ KeepsBlocks(w, u, m)
  BY <1>2, <1>3, SameStands
<1>5. m \in Nat /\ m <= m
  BY <1>4 DEF Stands, Disk
<1>6. Holds(u, F, n, m)
  BY <1>4, <1>5, HoldsKept
<1>7. PICK p : p = q * SectorSize + o
  OBVIOUS
<1>8. p \in Nat /\ Later(n, p + k) \in Nat
  <2>1. q * SectorSize \in Nat
    BY <1>1, DiskIs
  <2> QED
    BY <1>7, <2>1 DEF Later
<1>9. Covers(u.bbuf, q, F, n, G, Later(n, p + k))
  <2> SUFFICES ASSUME NEW i \in Nat, i < Later(n, p + k)
               PROVE  IF i \div SectorSize = q THEN u.bbuf[i % SectorSize] = G[i]
                      ELSE i < n /\ G[i] = F[i]
    BY DEF Covers
  <2>1. /\ i \div SectorSize = q => (i \in p .. p + k - 1 <=> i % SectorSize \in o .. o + k - 1)
        /\ i \div SectorSize = q => (i % SectorSize) - o = i - p
        /\ i \div SectorSize # q => i \notin p .. p + k - 1
        /\ i < n \/ i \in p .. p + k - 1
    BY <1>1, <1>7, Fits
  <2>2. G[i] = IF i \in p .. p + k - 1 THEN New(from + i - p) ELSE F[i]
    BY <1>7 DEF Over
  <2>3. i % SectorSize \in Offsets /\ i % SectorSize \in Int
    <3>1. i % SectorSize \in Offsets
      BY ByteAt, 0 \in Nat
    <3>2. Offsets \subseteq Int
      BY DiskIs DEF Offsets
    <3> QED
      BY <3>1, <3>2
  <2>4. CASE i \div SectorSize = q
    <3>1. u.bbuf[i % SectorSize] = IF i % SectorSize \in o .. o + k - 1 THEN New(from + (i % SectorSize) - o)
                                   ELSE w.bbuf[i % SectorSize]
      BY <1>2, <2>3 DEF Laid
    <3>2. CASE i \in p .. p + k - 1
      <4>1. i % SectorSize \in o .. o + k - 1
        BY <2>1, <2>4, <3>2
      <4>2. from + (i % SectorSize) - o = from + i - p
        <5>1. PICK r : r = i % SectorSize
          OBVIOUS
        <5>2. r \in Int /\ r - o = i - p
          BY <2>1, <2>3, <2>4, <5>1
        <5>3. from + r - o = from + i - p
          BY <1>8, <5>2
        <5> QED
          BY <5>1, <5>3
      <4> QED
        BY <2>2, <2>4, <3>1, <3>2, <4>1, <4>2
    <3>3. CASE i \notin p .. p + k - 1
      <4>1. i % SectorSize \notin o .. o + k - 1 /\ i < n
        BY <2>1, <2>4, <3>3
      <4>2. w.bbuf[i % SectorSize] = F[i]
        BY <2>4, <4>1 DEF Keeps
      <4> QED
        BY <2>2, <2>4, <3>1, <3>3, <4>1, <4>2
    <3> QED
      BY <3>2, <3>3
  <2>5. CASE i \div SectorSize # q
    BY <2>1, <2>2, <2>5
  <2> QED
    BY <2>4, <2>5
<1>10. Stands(v, x, q, m) /\ v.h = u.h /\ Holds(v, G, Later(n, p + k), m)
  BY <1>0, <1>4, <1>6, <1>8, <1>9, PutIn
<1> QED
  BY <1>2, <1>7, <1>10

LEMMA BlankHere ==
  ASSUME disk \in Disks, RootIsShort, NEW w, NEW x, NEW q, NEW m, Stands(w, x, q, m),
         NEW F, NEW n \in Nat, Holds(w, F, n, m), NEW o \in Nat, NEW k \in Nat, o + k <= SectorSize,
         q * SectorSize + o <= n, Keeps(w.bbuf, q, F, n, o, k),
         NEW G, Blanked(F, G, q * SectorSize + o, k),
         NEW v, v = fatWriteLogical(Zeroed(w, o, k))
  PROVE  Stands(v, x, q, m) /\ v.h = w.h /\ Holds(v, G, Later(n, q * SectorSize + o + k), m)
<1>0. PICK u : u = Zeroed(w, o, k)
  OBVIOUS
<1>1. w \in Writing /\ q \in Nat /\ o \in Int /\ k \in Int
  BY StandsThere
<1>2. /\ u \in Writing /\ u.bbuf = Blank(w.bbuf, o, k)
      /\ SameDisk(w, u) /\ SameHolds(w, u) /\ u.h = w.h /\ u.currcluster = w.currcluster
      /\ u.monitor = w.monitor
  BY <1>0, <1>1, ZeroedIs
<1>3. SameFile(w, u) /\ SamePlace(w, u)
  BY <1>2 DEF SameFile, SamePlace
<1>4. Stands(u, x, q, m) /\ KeepsBlocks(w, u, m)
  BY <1>2, <1>3, SameStands
<1>5. m \in Nat /\ m <= m
  BY <1>4 DEF Stands, Disk
<1>6. Holds(u, F, n, m)
  BY <1>4, <1>5, HoldsKept
<1>7. PICK p : p = q * SectorSize + o
  OBVIOUS
<1>8. p \in Nat /\ Later(n, p + k) \in Nat
  <2>1. q * SectorSize \in Nat
    BY <1>1, DiskIs
  <2> QED
    BY <1>7, <2>1 DEF Later
<1>9. Covers(u.bbuf, q, F, n, G, Later(n, p + k))
  <2> SUFFICES ASSUME NEW i \in Nat, i < Later(n, p + k)
               PROVE  IF i \div SectorSize = q THEN u.bbuf[i % SectorSize] = G[i]
                      ELSE i < n /\ G[i] = F[i]
    BY DEF Covers
  <2>1. /\ i \div SectorSize = q => (i \in p .. p + k - 1 <=> i % SectorSize \in o .. o + k - 1)
        /\ i \div SectorSize # q => i \notin p .. p + k - 1
        /\ i < n \/ i \in p .. p + k - 1
    BY <1>1, <1>7, Fits
  <2>2. G[i] = IF i \in p .. p + k - 1 THEN Zero ELSE F[i]
    BY <1>7 DEF Blanked
  <2>3. i % SectorSize \in Offsets
    BY ByteAt, 0 \in Nat
  <2>4. CASE i \div SectorSize = q
    <3>1. u.bbuf[i % SectorSize] = IF i % SectorSize \in o .. o + k - 1 THEN Zero ELSE w.bbuf[i % SectorSize]
      BY <1>2, <2>3 DEF Blank
    <3>2. CASE i \in p .. p + k - 1
      BY <2>1, <2>2, <2>4, <3>1, <3>2
    <3>3. CASE i \notin p .. p + k - 1
      <4>1. i % SectorSize \notin o .. o + k - 1 /\ i < n
        BY <2>1, <2>4, <3>3
      <4>2. w.bbuf[i % SectorSize] = F[i]
        BY <2>4, <4>1 DEF Keeps
      <4> QED
        BY <2>2, <2>4, <3>1, <3>3, <4>1, <4>2
    <3> QED
      BY <3>2, <3>3
  <2>5. CASE i \div SectorSize # q
    BY <2>1, <2>2, <2>5
  <2> QED
    BY <2>4, <2>5
<1>10. Stands(v, x, q, m) /\ v.h = u.h /\ Holds(v, G, Later(n, p + k), m)
  BY <1>0, <1>4, <1>6, <1>8, <1>9, PutIn
<1> QED
  BY <1>2, <1>7, <1>10

(* Nothing of the file lies behind sector q.                               *)
LEMMA ChainOn ==
  ASSUME disk \in Disks, NEW z \in Nat, NEW q \in Nat, z <= (q + 1) * SectorSize,
         NEW m, m = Reaching(z, q)
  PROVE  /\ (q + 1) % sectors_per_cluster = 0 => (q + 1) \div sectors_per_cluster = m
         /\ Longer(q, m) = Reaching(z, q + 1)
         /\ m \in Nat /\ Reaching(z, q + 1) \in Nat /\ m <= Reaching(z, q + 1)
<1> DEFINE spc == sectors_per_cluster
           k == q \div spc
           k1 == (q + 1) \div spc
<1>1. SectorSize \in Nat \ {0} /\ q + 1 \in Nat
  BY DiskIs
<1>2. k \in Nat /\ q % spc \in Nat /\ spc \in Nat \ {0}
  BY Index
<1>3. z <= ((q + 1) + 1) * SectorSize
  <2>1. (q + 1) * SectorSize \in Nat /\ ((q + 1) + 1) * SectorSize = (q + 1) * SectorSize + SectorSize
    BY <1>1
  <2> QED
    BY <1>1, <2>1
<1>4. m = k + 1
  BY ReachingIs
<1>5. Reaching(z, q + 1) = k1 + 1
  BY <1>1, <1>3, ReachingIs
<1>6. /\ q % spc = spc - 1 => k1 = k + 1 /\ (q + 1) % spc = 0
      /\ q % spc # spc - 1 => k1 = k /\ (q + 1) % spc = (q % spc) + 1
  BY <1>2, NextIndex
<1>7. Longer(q, m) = IF (q + 1) % spc = 0 THEN m + 1 ELSE m
  BY DEF Longer
<1> HIDE DEF spc, k, k1
<1> QED
  BY <1>2, <1>4, <1>5, <1>6, <1>7 DEF spc, k, k1

(* A write going on: in sector q, and n bytes of the file are as in F.     *)
Going(w, x, q, F, n) ==
  /\ Stands(w, x, q, Reaching(w.h.fileSize, q))
  /\ Holds(w, F, n, Reaching(w.h.fileSize, q))

LEMMA GoingIs ==
  ASSUME NEW w, NEW x, NEW q, NEW F, NEW n, Going(w, x, q, F, n)
  PROVE  /\ w \in Writing /\ w.h \in Handle /\ w.h.fileSize \in Nat /\ w.h.currpos \in Int /\ q \in Nat
         /\ w.monitor = "no" /\ Reaching(w.h.fileSize, q) \in Nat \ {0}
         /\ w.next \in Table /\ w.cache \in {Empty, w.next}
BY DEF Going, Stands, Disk, Writing, Handle

LEMMA OnwardsDo ==
  ASSUME disk \in Disks, RootIsShort, NEW w, NEW x, NEW q, NEW F, NEW n, Going(w, x, q, F, n),
         w.h.currpos = (q + 1) * SectorSize, NEW v, v = Onwards(NextSector(w))
  PROVE  /\ SameFile(w, v) /\ SameSize(w, v)
         /\ Stuck(v, x) \/ Going(v, x, q + 1, F, n)
<1>0. PICK z, m, u : z = w.h.fileSize /\ m = Reaching(z, q) /\ u = NextSector(w)
  OBVIOUS
<1>1. w \in Writing /\ z \in Nat /\ q \in Nat /\ m \in Nat /\ Stands(w, x, q, m) /\ Holds(w, F, n, m)
      /\ q + 1 \in Nat
  <2>1. w \in Writing /\ z \in Nat /\ q \in Nat /\ m \in Nat
    BY <1>0, GoingIs
  <2> QED
    BY <1>0, <2>1 DEF Going
<1>2. SameSize(w, u)
  BY <1>0, <1>1, OnWithin
<1>3. v = IF (q + 1) * SectorSize < z THEN OrFollow(u) ELSE OrChain(u)
  BY <1>0, <1>2 DEF Onwards, SameSize
<1>4. SectorSize \in Nat \ {0}
  BY DiskIs
<1>5. CASE (q + 1) * SectorSize < z
  <2>1. q * SectorSize < z
    <3>1. q * SectorSize \in Nat /\ (q + 1) * SectorSize = q * SectorSize + SectorSize
      BY <1>1, <1>4
    <3> QED
      BY <1>1, <1>4, <1>5, <3>1
  <2>2. m = ClustersFor(z)
    BY <1>0, <1>1, <2>1, ReachingIs
  <2>3. Reaching(z, q + 1) = m /\ (q + 1) \div sectors_per_cluster < m
    BY <1>1, <1>5, <2>2, ReachingIs
  <2>4. v = OrFollow(NextSector(w))
    BY <1>0, <1>3, <1>5
  <2>5. SameFile(w, v) /\ SameSize(w, v) /\ Stands(v, x, q + 1, m) /\ KeepsBlocks(w, v, m)
    BY <1>1, <2>3, <2>4, FollowOn
  <2>6. Holds(v, F, n, m)
    BY <1>1, <2>5, HoldsKept, m <= m
  <2> QED
    BY <1>0, <2>3, <2>5, <2>6 DEF Going, SameSize
<1>6. CASE ~ ((q + 1) * SectorSize < z)
  <2>1. z <= (q + 1) * SectorSize
    BY <1>1, <1>4, <1>6
  <2>2. /\ (q + 1) % sectors_per_cluster = 0 => (q + 1) \div sectors_per_cluster = m
        /\ Longer(q, m) = Reaching(z, q + 1)
        /\ m \in Nat /\ Reaching(z, q + 1) \in Nat /\ m <= Reaching(z, q + 1)
    BY <1>0, <1>1, <2>1, ChainOn
  <2>3. v = OrChain(NextSector(w))
    BY <1>0, <1>3, <1>6
  <2>4. /\ SameFile(w, v) /\ SameSize(w, v)
        /\ Stuck(v, x) \/ (Stands(v, x, q + 1, Longer(q, m)) /\ KeepsBlocks(w, v, m))
    BY <1>1, <2>2, <2>3, GoOn
  <2>5. CASE ~ Stuck(v, x)
    <3>1. Holds(v, F, n, Reaching(z, q + 1))
      BY <1>1, <2>2, <2>4, <2>5, HoldsKept
    <3> QED
      BY <1>0, <2>2, <2>4, <2>5, <3>1 DEF Going, SameSize
  <2> QED
    BY <2>4, <2>5
<1> QED
  BY <1>5, <1>6

(* As OnwardsDo behind the end of the file, where it is being expanded.    *)
LEMMA ExpandsOn ==
  ASSUME disk \in Disks, RootIsShort, NEW w, NEW x, NEW q, NEW F, NEW n, Going(w, x, q, F, n),
         w.h.fileSize <= (q + 1) * SectorSize, NEW v, v = OrChain(NextSector(w))
  PROVE  /\ SameFile(w, v) /\ SameSize(w, v)
         /\ Stuck(v, x) \/ Going(v, x, q + 1, F, n)
<1>0. PICK z, m : z = w.h.fileSize /\ m = Reaching(z, q)
  OBVIOUS
<1>1. w \in Writing /\ z \in Nat /\ q \in Nat /\ m \in Nat /\ Stands(w, x, q, m) /\ Holds(w, F, n, m)
  BY <1>0, GoingIs DEF Going
<1>2. /\ (q + 1) % sectors_per_cluster = 0 => (q + 1) \div sectors_per_cluster = m
      /\ Longer(q, m) = Reaching(z, q + 1)
      /\ m \in Nat /\ Reaching(z, q + 1) \in Nat /\ m <= Reaching(z, q + 1)
  BY <1>0, <1>1, ChainOn
<1>4. /\ SameFile(w, v) /\ SameSize(w, v)
      /\ Stuck(v, x) \/ (Stands(v, x, q + 1, Longer(q, m)) /\ KeepsBlocks(w, v, m))
  BY <1>1, <1>2, GoOn
<1>5. CASE ~ Stuck(v, x)
  <2>1. Holds(v, F, n, Reaching(z, q + 1))
    BY <1>1, <1>2, <1>4, <1>5, HoldsKept
  <2> QED
    BY <1>0, <1>2, <1>4, <1>5, <2>1 DEF Going, SameSize
<1> QED
  BY <1>4, <1>5

(* The position in the file is not the one on the disk.                    *)
LEMMA AdvancedGoes ==
  ASSUME NEW w, NEW x, NEW q, NEW F, NEW n, Going(w, x, q, F, n), NEW k \in Int, disk \in Disks,
         NEW v, v = Advanced(w, k)
  PROVE  /\ Going(v, x, q, F, n) /\ SameFile(w, v)
         /\ v.h.fileSize = w.h.fileSize /\ v.h.currpos = w.h.currpos + k /\ v.bbuf = w.bbuf
<1>1. w \in Writing
  BY GoingIs
<1>2. /\ v \in Writing /\ v.h.currpos = w.h.currpos + k /\ v.h.fileSize = w.h.fileSize
      /\ SameDisk(w, v) /\ SameHolds(w, v) /\ SameFile(w, v) /\ SamePlace(w, v)
      /\ v.monitor = w.monitor /\ v.bbuf = w.bbuf
  BY <1>1, AdvancedIs
<1>3. PICK m : m = Reaching(w.h.fileSize, q)
  OBVIOUS
<1>4. Stands(w, x, q, m) /\ Holds(w, F, n, m) /\ m \in Nat
  BY <1>3, GoingIs DEF Going
<1>5. Stands(v, x, q, m) /\ KeepsBlocks(w, v, m)
  BY <1>2, <1>4, SameStands
<1>6. Holds(v, F, n, m)
  BY <1>4, <1>5, HoldsKept, m <= m
<1> QED
  BY <1>2, <1>3, <1>5, <1>6 DEF Going

LEMMA ReadGoes ==
  ASSUME disk \in Disks, RootIsShort, NEW w, NEW x, NEW q, NEW F, NEW n, Going(w, x, q, F, n),
         NEW v, v = fatReadLogical(w)
  PROVE  Going(v, x, q, F, n) /\ v.h = w.h /\ \A o \in Int, k \in Int : Keeps(v.bbuf, q, F, n, o, k)
<1>3. PICK m : m = Reaching(w.h.fileSize, q)
  OBVIOUS
<1>4. Stands(w, x, q, m) /\ Holds(w, F, n, m) /\ m \in Nat
  BY <1>3, GoingIs DEF Going
<1>5. Stands(v, x, q, m) /\ v.h = w.h /\ KeepsBlocks(w, v, m) /\ v.bbuf = Blk(w, q)
  BY <1>4, ReadSector
<1>6. Holds(v, F, n, m)
  BY <1>4, <1>5, HoldsKept, m <= m
<1>7. \A i \in Nat : i < n /\ i \div SectorSize = q => v.bbuf[i % SectorSize] = F[i]
  BY <1>4, <1>5 DEF Holds
<1> QED
  BY <1>3, <1>5, <1>6, <1>7 DEF Going, Keeps

LEMMA FillGoes ==
  ASSUME disk \in Disks, RootIsShort, NEW w, NEW x, NEW q, NEW F, NEW n \in Nat, Going(w, x, q, F, n),
         NEW o \in Nat, NEW k \in Nat, o + k <= SectorSize,
         q * SectorSize + o <= n, Keeps(w.bbuf, q, F, n, o, k),
         NEW from \in Int, NEW G, Over(F, G, q * SectorSize + o, k, from),
         NEW v, v = fatWriteLogical(Filled(w, o, k, from))
  PROVE  v.h = w.h /\ Going(v, x, q, G, Later(n, q * SectorSize + o + k))
<1>1. PICK m : m = Reaching(w.h.fileSize, q)
  OBVIOUS
<1>2. Stands(w, x, q, m) /\ Holds(w, F, n, m)
  BY <1>1 DEF Going
<1>3. Stands(v, x, q, m) /\ v.h = w.h /\ Holds(v, G, Later(n, q * SectorSize + o + k), m)
  BY <1>2, FillHere
<1> QED
  BY <1>1, <1>3 DEF Going

LEMMA BlankGoes ==
  ASSUME disk \in Disks, RootIsShort, NEW w, NEW x, NEW q, NEW F, NEW n \in Nat, Going(w, x, q, F, n),
         NEW o \in Nat, NEW k \in Nat, o + k <= SectorSize,
         q * SectorSize + o <= n, Keeps(w.bbuf, q, F, n, o, k),
         NEW G, Blanked(F, G, q * SectorSize + o, k),
         NEW v, v = fatWriteLogical(Zeroed(w, o, k))
  PROVE  v.h = w.h /\ Going(v, x, q, G, Later(n, q * SectorSize + o + k))
<1>1. PICK m : m = Reaching(w.h.fileSize, q)
  OBVIOUS
<1>2. Stands(w, x, q, m) /\ Holds(w, F, n, m)
  BY <1>1 DEF Going
<1>3. Stands(v, x, q, m) /\ v.h = w.h /\ Holds(v, G, Later(n, q * SectorSize + o + k), m)
  BY <1>2, BlankHere
<1> QED
  BY <1>1, <1>3 DEF Going

(* The sector that the position p in a file of z bytes belongs to: at the  *)
(* end of a full sector still that one.                                    *)
Full(p) == p % SectorSize = 0
Sector(p, z) == IF p = z /\ Full(p) /\ p # 0 THEN (p \div SectorSize) - 1 ELSE p \div SectorSize

LEMMA FullSector ==
  ASSUME disk \in Disks, NEW q \in Nat, NEW o \in 0 .. SectorSize, NEW p, p = q * SectorSize + o
  PROVE  /\ p \in Nat
         /\ o = SectorSize => Full(p) /\ p # 0 /\ p \div SectorSize = q + 1
         /\ o # SectorSize => (Full(p) <=> o = 0) /\ p \div SectorSize = q /\ p % SectorSize = o
<1>1. SectorSize \in Nat \ {0}
  BY DiskIs
<1>2. q * SectorSize \in Nat /\ (q + 1) * SectorSize = q * SectorSize + SectorSize
  BY <1>1
<1>3. CASE o = SectorSize
  <2>1. p = SectorSize * (q + 1) + 0 /\ 0 \in 0 .. SectorSize - 1 /\ p \in Nat /\ p # 0 /\ q + 1 \in Int
    BY <1>1, <1>2, <1>3
  <2>2. p \div SectorSize = q + 1 /\ p % SectorSize = 0
    <3>1. PICK k, o1, n : k = q + 1 /\ o1 = 0 /\ n = SectorSize
      OBVIOUS
    <3>2. p = n * k + o1 /\ o1 \in 0 .. n - 1 /\ p \in Int /\ k \in Int /\ n \in Nat \ {0}
      BY <1>1, <2>1, <3>1
    <3>3. p \div n = k /\ p % n = o1
      BY ONLY <3>2, DivModIs
    <3> QED
      BY <3>1, <3>3
  <2> QED
    BY <1>3, <2>1, <2>2 DEF Full
<1>4. CASE o # SectorSize
  <2>1. p = SectorSize * q + o /\ o \in 0 .. SectorSize - 1 /\ p \in Nat
    BY <1>1, <1>2, <1>4
  <2>2. p \div SectorSize = q /\ p % SectorSize = o
    BY <1>1, <2>1, DivModIs
  <2> QED
    BY <1>4, <2>1, <2>2 DEF Full
<1> QED
  BY <1>3, <1>4

LEMMA UsedIs ==
  ASSUME disk \in Disks, NEW h, h.currpos \in Nat, NEW p, p = h.currpos,
         NEW q, q = Sector(p, h.fileSize), NEW used, used = Used(h)
  PROVE  /\ q \in Nat /\ used \in 0 .. SectorSize /\ q * SectorSize + used = p
         /\ used = SectorSize <=> (p = h.fileSize /\ Full(p) /\ p # 0)
<1>1. SectorSize \in Nat \ {0}
  BY DiskIs
<1> DEFINE k == p \div SectorSize
           o == p % SectorSize
<1>2. k \in Nat /\ o \in 0 .. SectorSize - 1 /\ p = SectorSize * k + o
  BY <1>1, DivModNat
<1>3. k * SectorSize = SectorSize * k /\ k * SectorSize \in Nat
  BY <1>1, <1>2
<1>4. /\ q = IF p = h.fileSize /\ o = 0 /\ p # 0 THEN k - 1 ELSE k
      /\ used = IF o = 0 /\ p = h.fileSize /\ p # 0 THEN SectorSize ELSE o
      /\ Full(p) <=> o = 0
  BY DEF Sector, Used, Full
<1> HIDE DEF k, o
<1>5. CASE p = h.fileSize /\ o = 0 /\ p # 0
  <2>1. k # 0
    BY <1>1, <1>2, <1>5
  <2>2. k - 1 \in Nat /\ (k - 1) * SectorSize = k * SectorSize - SectorSize
    BY <1>1, <1>2, <2>1
  <2>3. (k - 1) * SectorSize + SectorSize = p
    BY <1>1, <1>2, <1>3, <1>5, <2>2
  <2> QED
    BY <1>1, <1>4, <1>5, <2>2, <2>3
<1>6. CASE ~ (p = h.fileSize /\ o = 0 /\ p # 0)
  <2>1. q = k /\ used = o
    BY <1>4, <1>6
  <2>2. k * SectorSize + o = p
    BY <1>2, <1>3
  <2> QED
    BY <1>1, <1>2, <1>4, <1>6, <2>1, <2>2
<1> QED
  BY <1>5, <1>6

(* The bytes are put; from where they are to go is P.                      *)
LEMMA BeforeGoes ==
  ASSUME disk \in Disks, RootIsShort, NEW w, NEW x, NEW q, NEW F, NEW z \in Nat, Going(w, x, q, F, z),
         w.h.fileSize = z, NEW p \in Nat, w.h.currpos = p, p <= z,
         NEW used, used = Used(w.h), q * SectorSize + used = p, used \in 0 .. SectorSize,
         NEW v, v = ReadBefore(w, used)
  PROVE  /\ Going(v, x, q, F, z) /\ v.h = w.h
         /\ used # SectorSize => \A k \in Int : Keeps(v.bbuf, q, F, z, used, k)
<1>1. CASE p < z \/ used \notin {0, SectorSize}
  <2>1. v = fatReadLogical(w)
    BY <1>1 DEF ReadBefore
  <2>2. Going(v, x, q, F, z) /\ v.h = w.h /\ \A o \in Int, k \in Int : Keeps(v.bbuf, q, F, z, o, k)
    BY <2>1, ReadGoes
  <2>3. used \in Int
    BY DiskIs
  <2> QED
    BY <2>2, <2>3
<1>2. CASE ~ (p < z \/ used \notin {0, SectorSize})
  <2>1. v = w
    BY <1>2 DEF ReadBefore
  <2>2. ASSUME used # SectorSize, NEW k \in Int PROVE Keeps(v.bbuf, q, F, z, used, k)
    <3>1. used = 0 /\ p = z /\ q \in Nat
      BY <1>2, <2>2, GoingIs
    <3>2. q * SectorSize = z
      <4>1. q * SectorSize \in Nat
        BY <3>1, DiskIs
      <4> QED
        BY <3>1, <4>1
    <3> SUFFICES ASSUME NEW i \in Nat, i < z, i \div SectorSize = q PROVE FALSE
      BY DEF Keeps
    <3>3. q * SectorSize <= i
      BY <3>1, ByteAt
    <3> QED
      BY <3>2, <3>3
  <2> QED
    BY <2>1, <2>2
<1> QED
  BY <1>1, <1>2

(* Ready to put bytes at p in a file of z bytes.                           *)
Ready(w, x, F, p, z) ==
  /\ p \in Nat /\ z \in Nat /\ p <= z /\ w.h.currpos = p /\ w.h.fileSize = z
  /\ Going(w, x, Sector(p, z), F, z)

(* From w to v the file stays the same and the position becomes p.         *)
Moves(w, v, p) == SameFile(w, v) /\ v.h.fileSize = w.h.fileSize /\ v.h.currpos = p

LEMMA PutWithinDoes ==
  ASSUME disk \in Disks, RootIsShort, NEW w, NEW x, NEW F, NEW p, NEW z, Ready(w, x, F, p, z),
         NEW used, used = Used(w.h), NEW n \in Nat \ {0}, n <= SectorSize - used,
         NEW G, Over(F, G, p, n, 0), NEW v, v = PutWithin(ReadBefore(w, used), used, n)
  PROVE  Moves(w, v, p + n) /\ Going(v, x, Sector(p, z), G, Later(z, p + n))
<1>0. PICK q, u, y : q = Sector(p, z) /\ u = ReadBefore(w, used) /\ y = fatWriteLogical(Filled(u, used, n, 0))
  OBVIOUS
<1>1. p \in Nat /\ z \in Nat /\ p <= z /\ w.h.currpos = p /\ w.h.fileSize = z /\ Going(w, x, q, F, z)
  BY <1>0 DEF Ready
<1>2. SectorSize \in Nat \ {0}
  BY DiskIs
<1>3. q \in Nat /\ used \in 0 .. SectorSize /\ q * SectorSize + used = p
  BY <1>0, <1>1, UsedIs
<1>4. Going(u, x, q, F, z) /\ u.h = w.h /\ (used # SectorSize => \A k \in Int : Keeps(u.bbuf, q, F, z, used, k))
  BY <1>0, <1>1, <1>3, BeforeGoes
<1>5. used # SectorSize /\ used \in Nat /\ n \in Nat /\ used + n <= SectorSize
  BY <1>2, <1>3
<1>6. y.h = u.h /\ Going(y, x, q, G, Later(z, p + n))
  <2>1. q * SectorSize + used <= z
    BY <1>1, <1>3
  <2>2. Over(F, G, q * SectorSize + used, n, 0)
    BY <1>3
  <2>3. Keeps(u.bbuf, q, F, z, used, n)
    BY <1>4, <1>5
  <2>4. y.h = u.h /\ Going(y, x, q, G, Later(z, q * SectorSize + used + n))
    BY <1>0, <1>1, <1>4, <1>5, <2>1, <2>2, <2>3, 0 \in Int, FillGoes
  <2> QED
    BY <1>3, <2>4
<1>7. v = Advanced(y, n)
  BY <1>0 DEF PutWithin
<1>8. /\ Going(v, x, q, G, Later(z, p + n)) /\ SameFile(y, v)
      /\ v.h.fileSize = y.h.fileSize /\ v.h.currpos = y.h.currpos + n
  BY ONLY <1>6, <1>7, AdvancedGoes, n \in Int, disk \in Disks
<1> QED
  BY <1>0, <1>1, <1>4, <1>6, <1>8 DEF Moves, SameFile

LEMMA SameBytes ==
  ASSUME NEW w, NEW x, NEW q, NEW F, NEW G, NEW n, Going(w, x, q, F, n),
         \A i \in Nat : i < n => G[i] = F[i]
  PROVE  Going(w, x, q, G, n)
BY DEF Going, Holds

LEMMA PutFirstDoes ==
  ASSUME disk \in Disks, RootIsShort, NEW w, NEW x, NEW F, NEW p, NEW z, Ready(w, x, F, p, z),
         NEW used, used = Used(w.h), NEW rem, rem = SectorSize - used,
         NEW G, Over(F, G, p, rem, 0), NEW v, v = PutFirst(ReadBefore(w, used), used, rem)
  PROVE  /\ Moves(w, v, p + rem)
         /\ Stuck(v, x) \/ Going(v, x, Sector(p, z) + 1, G, Later(z, p + rem))
<1>0. PICK q, u : q = Sector(p, z) /\ u = ReadBefore(w, used)
  OBVIOUS
<1>1. p \in Nat /\ z \in Nat /\ p <= z /\ w.h.currpos = p /\ w.h.fileSize = z /\ Going(w, x, q, F, z)
  BY <1>0 DEF Ready
<1>2. SectorSize \in Nat \ {0}
  BY DiskIs
<1>3. q \in Nat /\ used \in 0 .. SectorSize /\ q * SectorSize + used = p
  BY <1>0, <1>1, UsedIs
<1>4. Going(u, x, q, F, z) /\ u.h = w.h /\ (used # SectorSize => \A k \in Int : Keeps(u.bbuf, q, F, z, used, k))
  BY <1>0, <1>1, <1>3, BeforeGoes
<1>5. rem \in Nat /\ rem \in Int /\ used \in Nat /\ used + rem <= SectorSize
  BY <1>2, <1>3
<1>6. PICK y : y = IF rem = 0 THEN u ELSE fatWriteLogical(Filled(u, used, rem, 0))
  OBVIOUS
<1>7. y.h = w.h /\ Going(y, x, q, G, Later(z, p + rem))
  <2>1. CASE rem = 0
    <3>1. Later(z, p + rem) = z
      BY <1>1, <2>1 DEF Later
    <3>2. \A i \in Nat : G[i] = F[i]
      BY <1>1, <2>1 DEF Over
    <3> QED
      BY <1>4, <1>6, <2>1, <3>1, <3>2, SameBytes
  <2>2. CASE rem # 0
    <3>1. q * SectorSize + used <= z
      BY <1>1, <1>3
    <3>2. Over(F, G, q * SectorSize + used, rem, 0)
      BY <1>3
    <3>3. Keeps(u.bbuf, q, F, z, used, rem)
      BY <1>2, <1>3, <1>4, <1>5, <2>2
    <3>4. y.h = u.h /\ Going(y, x, q, G, Later(z, q * SectorSize + used + rem))
      BY <1>6, <1>1, <1>4, <1>5, <2>2, <3>1, <3>2, <3>3, 0 \in Int, FillGoes
    <3> QED
      BY <1>3, <1>4, <3>4
  <2> QED
    BY <2>1, <2>2
<1>8. PICK a : a = Advanced(y, rem)
  OBVIOUS
<1>9. /\ Going(a, x, q, G, Later(z, p + rem)) /\ SameFile(y, a)
      /\ a.h.fileSize = y.h.fileSize /\ a.h.currpos = y.h.currpos + rem
  BY ONLY rem \in Int, <1>7, <1>8, AdvancedGoes, disk \in Disks
<1>10. v = Onwards(NextSector(a))
  BY <1>0, <1>6, <1>8 DEF PutFirst
<1>11. a.h.currpos = (q + 1) * SectorSize
  <2>1. q * SectorSize \in Nat /\ (q + 1) * SectorSize = q * SectorSize + SectorSize
    BY <1>2, <1>3
  <2> QED
    BY <1>1, <1>2, <1>3, <1>7, <1>9, <2>1
<1>12. SameFile(a, v) /\ SameSize(a, v) /\ (Stuck(v, x) \/ Going(v, x, q + 1, G, Later(z, p + rem)))
  BY <1>9, <1>10, <1>11, OnwardsDo
<1> QED
  BY <1>0, <1>1, <1>7, <1>9, <1>12 DEF Moves, SameFile, SameSize

LEMMA PutSectorDoes ==
  ASSUME disk \in Disks, RootIsShort, NEW w, NEW x, NEW q \in Nat, NEW F, NEW n \in Nat, Going(w, x, q, F, n),
         NEW p, p = q * SectorSize, w.h.currpos = p, p <= n,
         NEW from \in Int, NEW G, Over(F, G, p, SectorSize, from), NEW v, v = PutSector(w, from)
  PROVE  /\ Moves(w, v, p + SectorSize)
         /\ Stuck(v, x) \/ Going(v, x, q + 1, G, Later(n, p + SectorSize))
<1>1. SectorSize \in Nat \ {0} /\ SectorSize \in Nat /\ SectorSize \in Int
  BY DiskIs
<1>2. p \in Nat /\ (q + 1) * SectorSize = p + SectorSize /\ p = q * SectorSize + 0
  BY <1>1
<1>3. Keeps(w.bbuf, q, F, n, 0, SectorSize)
  <2>1. \A i \in Nat : i % SectorSize \in 0 .. 0 + SectorSize - 1
    BY <1>1, DivModNat
  <2> QED
    BY <2>1 DEF Keeps
<1>4. PICK y : y = fatWriteLogical(Filled(w, 0, SectorSize, from))
  OBVIOUS
<1>5. y.h = w.h /\ Going(y, x, q, G, Later(n, p + SectorSize))
  <2>1. y.h = w.h /\ Going(y, x, q, G, Later(n, q * SectorSize + 0 + SectorSize))
    BY <1>1, <1>2, <1>3, <1>4, 0 + SectorSize <= SectorSize, 0 \in Nat, FillGoes
  <2> QED
    BY <1>1, <1>2, <2>1
<1>6. PICK a : a = Advanced(y, SectorSize)
  OBVIOUS
<1>7. /\ Going(a, x, q, G, Later(n, p + SectorSize)) /\ SameFile(y, a)
      /\ a.h.fileSize = y.h.fileSize /\ a.h.currpos = y.h.currpos + SectorSize
  <2>1. PICK k, n2 : k = SectorSize /\ n2 = Later(n, p + SectorSize)
    OBVIOUS
  <2>2. Going(y, x, q, G, n2) /\ k \in Int /\ a = Advanced(y, k)
    BY <1>1, <1>5, <1>6, <2>1
  <2>3. /\ Going(a, x, q, G, n2) /\ SameFile(y, a)
        /\ a.h.fileSize = y.h.fileSize /\ a.h.currpos = y.h.currpos + k
    BY ONLY <2>2, AdvancedGoes, disk \in Disks
  <2> QED
    BY <2>1, <2>3
<1>8. v = Onwards(NextSector(a))
  BY <1>4, <1>6 DEF PutSector
<1>9. a.h.currpos = (q + 1) * SectorSize
  BY <1>2, <1>5, <1>7
<1>10. SameFile(a, v) /\ SameSize(a, v) /\ (Stuck(v, x) \/ Going(v, x, q + 1, G, Later(n, p + SectorSize)))
  BY <1>7, <1>8, <1>9, OnwardsDo
<1> QED
  BY <1>5, <1>7, <1>10 DEF Moves, SameFile, SameSize

LEMMA PutLastDoes ==
  ASSUME disk \in Disks, RootIsShort, NEW w, NEW x, NEW q \in Nat, NEW F, NEW z \in Nat,
         NEW p, p = q * SectorSize, Going(w, x, q, F, Later(z, p)), w.h.currpos = p, w.h.fileSize = z,
         NEW tsz \in 1 .. SectorSize, NEW done \in Int, NEW G, Over(F, G, p, tsz, done),
         NEW v, v = PutLast(w, tsz, done)
  PROVE  Moves(w, v, p + tsz) /\ Going(v, x, q, G, Later(z, p + tsz))
<1>1. SectorSize \in Nat \ {0} /\ tsz \in Nat /\ tsz \in Int /\ 0 + tsz <= SectorSize
  BY DiskIs
<1>2. p \in Nat /\ (q + 1) * SectorSize = p + SectorSize /\ p = q * SectorSize + 0
  BY <1>1
<1>0. PICK n, u : n = Later(z, p) /\ u = IF p + tsz < z THEN fatReadLogical(w) ELSE w
  OBVIOUS
<1>3. n \in Nat /\ p <= n /\ Later(n, p + tsz) = Later(z, p + tsz)
  BY <1>0, <1>1, <1>2 DEF Later
<1>4. Going(u, x, q, F, n) /\ u.h = w.h /\ Keeps(u.bbuf, q, F, n, 0, tsz)
  <2>1. CASE p + tsz < z
    BY <1>0, <1>1, <2>1, ReadGoes, 0 \in Int
  <2>2. CASE ~ (p + tsz < z)
    <3>1. ASSUME NEW i \in Nat, i < n, i \div SectorSize = q PROVE i % SectorSize \in 0 .. 0 + tsz - 1
      <4>1. q * SectorSize <= i /\ i % SectorSize = i - q * SectorSize
        BY <3>1, ByteAt
      <4>2. i % SectorSize = i - p /\ p <= i
        BY <4>1
      <4>3. i < p + tsz
        BY <1>0, <1>1, <1>2, <2>2, <3>1, <4>2 DEF Later
      <4>4. i - p \in 0 .. 0 + tsz - 1
        BY <1>1, <1>2, <4>2, <4>3
      <4> QED
        BY <4>2, <4>4
    <3> QED
      BY <1>0, <2>2, <3>1 DEF Keeps
  <2> QED
    BY <2>1, <2>2
<1>5. PICK y : y = fatWriteLogical(Filled(u, 0, tsz, done))
  OBVIOUS
<1>6. y.h = u.h /\ Going(y, x, q, G, Later(z, p + tsz))
  <2>1. y.h = u.h /\ Going(y, x, q, G, Later(n, q * SectorSize + 0 + tsz))
    BY <1>1, <1>2, <1>3, <1>4, <1>5, 0 \in Nat, FillGoes
  <2>2. q * SectorSize + 0 + tsz = p + tsz
    BY <1>1, <1>2
  <2> QED
    BY <1>3, <2>1, <2>2
<1>7. v = Advanced(y, tsz)
  BY <1>0, <1>5 DEF PutLast
<1>8. /\ Going(v, x, q, G, Later(z, p + tsz)) /\ SameFile(y, v)
      /\ v.h.fileSize = y.h.fileSize /\ v.h.currpos = y.h.currpos + tsz
  BY ONLY tsz \in Int, <1>6, <1>7, AdvancedGoes, disk \in Disks
<1> QED
  BY <1>4, <1>6, <1>8 DEF Moves, SameFile

LEMMA StuckOnwards ==
  ASSUME disk \in Disks, NEW w, NEW x, Stuck(w, x)
  PROVE  Stuck(Onwards(NextSector(w)), x)
<1>1. PICK u : u = NextSector(w)
  OBVIOUS
<1>2. Stuck(u, x)
  BY <1>1, StuckSteps
<1>3. Stuck(OrFollow(u), x) /\ Stuck(OrChain(u), x)
  BY <1>2, StuckSteps
<1>4. Onwards(u) \in {OrFollow(u), OrChain(u)}
  BY DEF Onwards
<1> QED
  BY <1>1, <1>3, <1>4

LEMMA StuckPuts ==
  ASSUME disk \in Disks, NEW w, NEW x, Stuck(w, x), NEW from \in Int, NEW k \in Int
  PROVE  Stuck(PutSector(w, from), x) /\ Stuck(PutLast(w, k, from), x) /\ Stuck(PutEnds(w, k), x)
<1>1. SectorSize \in Int /\ 0 \in Int
  BY DiskIs
<1>2. Stuck(PutSector(w, from), x)
  <2>1. PICK u, y : u = Filled(w, 0, SectorSize, from) /\ y = Advanced(u, SectorSize)
    OBVIOUS
  <2>2. Stuck(u, x)
    BY <1>1, <2>1, StuckFills
  <2>3. Stuck(y, x)
    BY <1>1, <2>1, <2>2, StuckFills
  <2>4. fatWriteLogical(u) = u
    BY <2>2, StuckSteps
  <2>5. PutSector(w, from) = Onwards(NextSector(y))
    BY <2>1, <2>4 DEF PutSector
  <2> QED
    BY <2>3, <2>5, StuckOnwards
<1>3. Stuck(PutLast(w, k, from), x)
  <2>1. PICK r : r = IF w.h.currpos + k < w.h.fileSize THEN fatReadLogical(w) ELSE w
    OBVIOUS
  <2>2. Stuck(r, x)
    BY <2>1, StuckSteps
  <2>3. PICK u, y : u = Filled(r, 0, k, from) /\ y = Advanced(u, k)
    OBVIOUS
  <2>4. Stuck(u, x)
    BY <1>1, <2>2, <2>3, StuckFills
  <2>5. Stuck(y, x)
    BY <2>3, <2>4, StuckFills
  <2>6. fatWriteLogical(u) = u
    BY <2>4, StuckSteps
  <2> QED
    BY <2>1, <2>3, <2>5, <2>6 DEF PutLast
<1>4. Stuck(PutEnds(w, k), x)
  <2>1. PICK u : u = NextSector(w)
    OBVIOUS
  <2>2. Stuck(u, x)
    BY <2>1, StuckSteps
  <2>3. Stuck(OrFollow(u), x)
    BY <2>2, StuckSteps
  <2> QED
    BY <2>1, <2>3 DEF PutEnds
<1> QED
  BY <1>2, <1>3, <1>4

(* The bytes of F with the caller's first k from position p.               *)
PutTo(F, p, k) == [i \in Nat |-> IF i \in p .. p + k - 1 THEN New(i - p) ELSE F[i]]

LEMMA PutToIs ==
  ASSUME NEW F, NEW p \in Nat, NEW j \in Nat, NEW k \in Nat
  PROVE  Over(F, PutTo(F, p, k), p, k, 0) /\ Over(PutTo(F, p, j), PutTo(F, p, j + k), p + j, k, j)
<1>1. Over(F, PutTo(F, p, k), p, k, 0)
  <2> SUFFICES ASSUME NEW i \in Nat
               PROVE  PutTo(F, p, k)[i] = IF i \in p .. p + k - 1 THEN New(0 + i - p) ELSE F[i]
    BY DEF Over
  <2>1. 0 + i - p = i - p
    OBVIOUS
  <2> QED
    BY <2>1 DEF PutTo
<1>2. ASSUME NEW i \in Nat
      PROVE  PutTo(F, p, j + k)[i] = IF i \in p + j .. p + j + k - 1 THEN New(j + i - (p + j)) ELSE PutTo(F, p, j)[i]
  <2>1. j + i - (p + j) = i - p
    OBVIOUS
  <2>2. /\ PutTo(F, p, j + k)[i] = IF i \in p .. p + (j + k) - 1 THEN New(i - p) ELSE F[i]
        /\ PutTo(F, p, j)[i] = IF i \in p .. p + j - 1 THEN New(i - p) ELSE F[i]
    BY DEF PutTo
  <2>3. /\ i \in p + j .. p + j + k - 1 => i \in p .. p + (j + k) - 1
        /\ i \in p .. p + (j + k) - 1 /\ i \notin p + j .. p + j + k - 1 => i \in p .. p + j - 1
        /\ i \in p .. p + j - 1 => i \in p .. p + (j + k) - 1
    OBVIOUS
  <2> QED
    BY <2>1, <2>2, <2>3
<1>3. Over(PutTo(F, p, j), PutTo(F, p, j + k), p + j, k, j)
  BY <1>2 DEF Over
<1> QED
  BY <1>1, <1>3

(* The sectors of a write, one by one.                                     *)
PutRun(w, used, rem, m, A) ==
  A = [i \in 0 .. m |-> IF i = 0 THEN PutFirst(ReadBefore(w, used), used, rem)
                        ELSE PutSector(A[i - 1], rem + (i - 1) * SectorSize)]

LEMMA PutRunSteps ==
  ASSUME NEW w, NEW used, NEW rem, NEW m \in Nat, NEW A, PutRun(w, used, rem, m, A)
  PROVE  /\ A[0] = PutFirst(ReadBefore(w, used), used, rem)
         /\ \A i \in 0 .. m - 1 : A[i + 1] = PutSector(A[i], rem + i * SectorSize)
<1>1. A = [i \in 0 .. m |-> IF i = 0 THEN PutFirst(ReadBefore(w, used), used, rem)
                            ELSE PutSector(A[i - 1], rem + (i - 1) * SectorSize)]
  BY DEF PutRun
<1>2. \A i \in 0 .. m : A[i] = IF i = 0 THEN PutFirst(ReadBefore(w, used), used, rem)
                               ELSE PutSector(A[i - 1], rem + (i - 1) * SectorSize)
  BY <1>1
<1>3. ASSUME NEW i \in 0 .. m - 1 PROVE A[i + 1] = PutSector(A[i], rem + i * SectorSize)
  <2>1. i + 1 \in 0 .. m /\ i + 1 # 0 /\ i + 1 - 1 = i
    OBVIOUS
  <2> QED
    BY <1>2, <2>1
<1> QED
  BY <1>2, <1>3

LEMMA PutRunThere ==
  ASSUME NEW w, NEW used, NEW rem, NEW m \in Nat
  PROVE  \E A : PutRun(w, used, rem, m, A)
<1> DEFINE S == {j \in Nat : \E h : PutRun(w, used, rem, j, h)}
           c == PutFirst(ReadBefore(w, used), used, rem)
<1>1. 0 \in S
  <2> DEFINE h == [j \in 0 .. 0 |-> c]
  <2> HIDE DEF c
  <2>1. h = [j \in 0 .. 0 |-> IF j = 0 THEN c ELSE PutSector(h[j - 1], rem + (j - 1) * SectorSize)]
    OBVIOUS
  <2>2. PutRun(w, used, rem, 0, h)
    BY <2>1 DEF PutRun, c
  <2> QED
    BY <2>2
<1> HIDE DEF c
<1>2. ASSUME NEW n \in Nat, n \in S PROVE n + 1 \in S
  <2>1. PICK h : PutRun(w, used, rem, n, h)
    BY <1>2
  <2>2. h[0] = c /\ \A i \in 0 .. n - 1 : h[i + 1] = PutSector(h[i], rem + i * SectorSize)
    BY <2>1, PutRunSteps DEF c
  <2> DEFINE g == [j \in 0 .. n + 1 |-> IF j = n + 1 THEN PutSector(h[n], rem + n * SectorSize) ELSE h[j]]
  <2>3. \A j \in 0 .. n : g[j] = h[j]
    OBVIOUS
  <2>4. g[0] = c /\ g[n + 1] = PutSector(h[n], rem + n * SectorSize)
    BY <2>2
  <2>5. ASSUME NEW j \in 1 .. n + 1 PROVE g[j] = PutSector(g[j - 1], rem + (j - 1) * SectorSize)
    <3>1. CASE j = n + 1
      <4>1. j - 1 = n
        BY <3>1
      <4> QED
        BY <2>3, <2>4, <3>1, <4>1
    <3>2. CASE j # n + 1
      <4>1. j - 1 \in 0 .. n - 1 /\ j - 1 + 1 = j /\ j \in 0 .. n /\ j - 1 \in 0 .. n
        BY <3>2
      <4> QED
        BY <2>2, <2>3, <4>1
    <3> QED
      BY <3>1, <3>2
  <2>6. g = [j \in 0 .. n + 1 |-> g[j]]
    OBVIOUS
  <2> HIDE DEF g
  <2>7. \A j \in 0 .. n + 1 : g[j] = IF j = 0 THEN c ELSE PutSector(g[j - 1], rem + (j - 1) * SectorSize)
    BY <2>4, <2>5
  <2>8. [j \in 0 .. n + 1 |-> g[j]]
          = [j \in 0 .. n + 1 |-> IF j = 0 THEN c ELSE PutSector(g[j - 1], rem + (j - 1) * SectorSize)]
    BY ONLY <2>7
  <2>9. PutRun(w, used, rem, n + 1, g)
    BY ONLY <2>6, <2>8 DEF PutRun, c
  <2> QED
    BY <2>9
<1> HIDE DEF S
<1>3. m \in S
  BY <1>1, <1>2, SetInduction
<1> QED
  BY <1>3 DEF S

(* After i whole sectors.                                                  *)
PutSoFar(w, x, F, p, z, rem, A, i) ==
  \/ Stuck(A, x)
  \/ /\ Moves(w, A, p + rem + i * SectorSize)
     /\ Going(A, x, Sector(p, z) + 1 + i, PutTo(F, p, rem + i * SectorSize), Later(z, p + rem + i * SectorSize))

LEMMA PutRunDoes ==
  ASSUME disk \in Disks, RootIsShort, NEW w, NEW x, NEW F, NEW p, NEW z, Ready(w, x, F, p, z),
         NEW used, used = Used(w.h), NEW rem, rem = SectorSize - used,
         NEW m \in Nat, NEW A, PutRun(w, used, rem, m, A)
  PROVE  PutSoFar(w, x, F, p, z, rem, A[m], m)
<1> DEFINE S == {j \in Nat : j <= m => PutSoFar(w, x, F, p, z, rem, A[j], j)}
<1>0. PICK q : q = Sector(p, z)
  OBVIOUS
<1>1. p \in Nat /\ z \in Nat /\ p <= z /\ w.h.currpos = p /\ w.h.fileSize = z
  BY DEF Ready
<1>2. SectorSize \in Nat \ {0}
  BY DiskIs
<1>3. q \in Nat /\ used \in 0 .. SectorSize /\ q * SectorSize + used = p
  BY <1>0, <1>1, UsedIs
<1>4. /\ A[0] = PutFirst(ReadBefore(w, used), used, rem)
      /\ \A i \in 0 .. m - 1 : A[i + 1] = PutSector(A[i], rem + i * SectorSize)
  BY PutRunSteps
<1>5. rem \in Nat
  BY <1>2, <1>3
<1>6. 0 \in S
  <2>1. Over(F, PutTo(F, p, rem), p, rem, 0)
    BY <1>1, <1>5, PutToIs
  <2>2. /\ Moves(w, A[0], p + rem)
        /\ Stuck(A[0], x) \/ Going(A[0], x, q + 1, PutTo(F, p, rem), Later(z, p + rem))
    BY <1>0, <1>4, <2>1, PutFirstDoes
  <2>3. 0 * SectorSize = 0 /\ rem + 0 = rem /\ p + rem + 0 = p + rem /\ q + 1 + 0 = q + 1
    BY <1>1, <1>2, <1>3, <1>5
  <2> QED
    BY <1>0, <2>2, <2>3 DEF PutSoFar
<1>7. ASSUME NEW j \in Nat, j \in S PROVE j + 1 \in S
  <2> SUFFICES ASSUME j + 1 <= m PROVE PutSoFar(w, x, F, p, z, rem, A[j + 1], j + 1)
    OBVIOUS
  <2>1. j \in 0 .. m - 1 /\ PutSoFar(w, x, F, p, z, rem, A[j], j)
    BY <1>7
  <2>2. PICK k, a, b, pos, d : k = rem + j * SectorSize /\ a = A[j] /\ b = A[j + 1] /\ pos = p + k /\ d = q + 1 + j
    OBVIOUS
  <2>3. b = PutSector(a, k)
    BY <1>4, <2>1, <2>2
  <2>4. k \in Nat /\ pos \in Nat /\ d \in Nat /\ k \in Int
    <3>1. j * SectorSize \in Nat
      BY <1>2
    <3> QED
      BY <1>1, <1>3, <1>5, <2>2, <3>1
  <2>5. /\ rem + (j + 1) * SectorSize = k + SectorSize /\ p + rem + (j + 1) * SectorSize = pos + SectorSize
        /\ q + 1 + (j + 1) = d + 1 /\ pos = d * SectorSize /\ p + rem + j * SectorSize = pos
    <3>1. (j + 1) * SectorSize = j * SectorSize + SectorSize /\ j * SectorSize \in Nat /\ q * SectorSize \in Nat
      BY <1>2, <1>3
    <3>2. (q + 1 + j) * SectorSize = q * SectorSize + SectorSize + j * SectorSize
      BY <1>2, <1>3
    <3> QED
      BY <1>1, <1>2, <1>3, <1>5, <2>2, <3>1, <3>2
  <2>6. CASE Stuck(a, x)
    BY <2>2, <2>3, <2>4, <2>6, StuckPuts DEF PutSoFar
  <2>7. CASE ~ Stuck(a, x)
    <3>1. PICK n, G, G2 : n = Later(z, pos) /\ G = PutTo(F, p, k) /\ G2 = PutTo(F, p, k + SectorSize)
      OBVIOUS
    <3>2. Moves(w, a, pos) /\ Going(a, x, d, G, n)
      BY <1>0, <2>1, <2>2, <2>5, <2>7, <3>1 DEF PutSoFar
    <3>3. a.h.currpos = pos /\ n \in Nat /\ pos <= n /\ Later(n, pos + SectorSize) = Later(z, pos + SectorSize)
      BY <1>1, <1>2, <2>4, <3>1, <3>2 DEF Moves, Later
    <3>4. Over(G, G2, pos, SectorSize, k)
      BY <1>1, <1>2, <2>2, <2>4, <3>1, PutToIs
    <3>5. /\ Moves(a, b, pos + SectorSize)
          /\ Stuck(b, x) \/ Going(b, x, d + 1, G2, Later(n, pos + SectorSize))
      BY <2>3, <2>4, <2>5, <3>2, <3>3, <3>4, PutSectorDoes
    <3>6. Moves(w, b, pos + SectorSize)
      BY <3>2, <3>5 DEF Moves, SameFile
    <3> QED
      BY <1>0, <2>2, <2>5, <3>1, <3>3, <3>5, <3>6 DEF PutSoFar
  <2> QED
    BY <2>6, <2>7
<1> HIDE DEF S
<1>8. m \in S
  BY <1>6, <1>7, SetInduction
<1> QED
  BY <1>8 DEF S

(* The sector a write of n bytes at p ends in.                             *)
EndSector(p, n, z, rem) ==
  IF Full(p + n) /\ (p + n >= z \/ n <= rem) THEN ((p + n) \div SectorSize) - 1 ELSE (p + n) \div SectorSize

PutDone(w, x, F, p, z, n, rem, v) ==
  Stuck(v, x) \/ (Moves(w, v, p + n) /\ Going(v, x, EndSector(p, n, z, rem), PutTo(F, p, n), Later(z, p + n)))

LEMMA PutEndsDoes ==
  ASSUME disk \in Disks, RootIsShort, NEW w, NEW x, NEW q \in Nat, NEW G, NEW n \in Nat,
         NEW tsz \in 1 .. SectorSize, Going(w, x, q, G, n), w.h.currpos = q * SectorSize + tsz,
         NEW r, r = (IF w.h.currpos < w.h.fileSize /\ tsz = SectorSize THEN q + 1 ELSE q),
         NEW v, v = PutEnds(w, tsz)
  PROVE  Stuck(v, x) \/ (Moves(w, v, w.h.currpos) /\ Going(v, x, r, G, n))
<1>1. CASE w.h.currpos < w.h.fileSize /\ tsz = SectorSize
  <2>1. PICK u : u = NextSector(w)
    OBVIOUS
  <2>2. w \in Writing
    BY GoingIs
  <2>3. SameSize(w, u)
    BY <2>1, <2>2, NextSectorIs
  <2>4. v = Onwards(NextSector(w))
    BY <1>1, <2>1, <2>3 DEF PutEnds, Onwards, SameSize
  <2>5. w.h.currpos = (q + 1) * SectorSize
    <3>1. SectorSize \in Nat
      BY DiskIs
    <3>2. (q + 1) * SectorSize = q * SectorSize + SectorSize
      BY <3>1
    <3> QED
      BY <1>1, <3>2
  <2>6. SameFile(w, v) /\ SameSize(w, v) /\ (Stuck(v, x) \/ Going(v, x, q + 1, G, n))
    BY <2>4, <2>5, OnwardsDo
  <2> QED
    BY <1>1, <2>6 DEF Moves, SameSize
<1>2. CASE ~ (w.h.currpos < w.h.fileSize /\ tsz = SectorSize)
  <2>1. v = w /\ r = q
    BY <1>2 DEF PutEnds
  <2> QED
    BY <2>1 DEF Moves, SameFile
<1> QED
  BY <1>1, <1>2

LEMMA PutIs ==
  ASSUME NEW w, NEW n, NEW used, used = Used(w.h), NEW rem, rem = SectorSize - used, ~ (n <= rem),
         NEW done, done = rem + ((n - rem - 1) \div SectorSize) * SectorSize,
         NEW m, m = (done - rem) \div SectorSize, m \in Nat
  PROVE  \E A : PutRun(w, used, rem, m, A) /\ Put(w, n) = PutEnds(PutLast(A[m], n - done, done), n - done)
<1> DEFINE After == CHOOSE A : PutRun(w, used, rem, m, A)
<1>1. PutRun(w, used, rem, m, After)
  <2> HIDE DEF PutRun
  <2> QED
    BY PutRunThere
<1>2. ~ (n <= rem) => Put(w, n) = PutEnds(PutLast(After[m], n - done, done), n - done)
  BY Zenon DEF Put, PutRun
<1> HIDE DEF After
<1> QED
  BY <1>1, <1>2

LEMMA PutDoes ==
  ASSUME disk \in Disks, RootIsShort, NEW w, NEW x, NEW F, NEW p, NEW z, Ready(w, x, F, p, z),
         NEW n \in Nat \ {0}, NEW rem, rem = SectorSize - Used(w.h), NEW v, v = Put(w, n)
  PROVE  PutDone(w, x, F, p, z, n, rem, v)
<1>0. PICK q, used, p2, r : q = Sector(p, z) /\ used = Used(w.h) /\ p2 = p + n /\ r = EndSector(p, n, z, rem)
  OBVIOUS
<1>1. p \in Nat /\ z \in Nat /\ p <= z /\ w.h.currpos = p /\ w.h.fileSize = z /\ p2 \in Nat
  BY <1>0 DEF Ready
<1>2. SectorSize \in Nat \ {0}
  BY DiskIs
<1>3. q \in Nat /\ used \in 0 .. SectorSize /\ q * SectorSize + used = p
  BY <1>0, <1>1, UsedIs
<1>4. rem \in Nat /\ rem = SectorSize - used
  BY <1>0, <1>2, <1>3
<1>5. r = IF Full(p2) /\ (p2 >= z \/ n <= rem) THEN (p2 \div SectorSize) - 1 ELSE p2 \div SectorSize
  BY <1>0 DEF EndSector
<1>6. CASE n <= rem
  <2>1. v = PutWithin(ReadBefore(w, used), used, n)
    BY <1>0, <1>6 DEF Put
  <2>2. Over(F, PutTo(F, p, n), p, n, 0)
    BY <1>1, PutToIs
  <2>3. Moves(w, v, p2) /\ Going(v, x, q, PutTo(F, p, n), Later(z, p2))
    BY <1>0, <1>4, <1>6, <2>1, <2>2, PutWithinDoes
  <2>4. PICK o : o = used + n
    OBVIOUS
  <2>5. o \in 0 .. SectorSize /\ p2 = q * SectorSize + o /\ o # 0
    <3>1. q * SectorSize \in Nat
      BY <1>2, <1>3
    <3> QED
      BY <1>0, <1>1, <1>2, <1>3, <1>4, <1>6, <2>4, <3>1
  <2>6. /\ o = SectorSize => Full(p2) /\ p2 # 0 /\ p2 \div SectorSize = q + 1
        /\ o # SectorSize => (Full(p2) <=> o = 0) /\ p2 \div SectorSize = q /\ p2 % SectorSize = o
    BY <1>3, <2>5, FullSector
  <2>7. r = q
    BY <1>3, <1>5, <1>6, <2>5, <2>6
  <2> QED
    BY <1>0, <2>3, <2>7 DEF PutDone
<1>7. CASE ~ (n <= rem)
  <2>1. PICK k : k = (n - rem - 1) \div SectorSize
    OBVIOUS
  <2>2. k \in Nat /\ n - rem - 1 \in Nat /\ (n - rem - 1) % SectorSize \in 0 .. SectorSize - 1
        /\ n - rem - 1 = SectorSize * k + ((n - rem - 1) % SectorSize)
    <3>1. n - rem - 1 \in Nat
      BY <1>4, <1>7
    <3>2. PICK y : y = n - rem - 1
      OBVIOUS
    <3>3. y \div SectorSize \in Nat /\ y % SectorSize \in 0 .. SectorSize - 1
          /\ y = SectorSize * (y \div SectorSize) + (y % SectorSize)
      BY <1>2, <3>1, <3>2, DivModNat
    <3> QED
      BY <2>1, <3>1, <3>2, <3>3
  <2>3. PICK done, tsz, y : done = rem + k * SectorSize /\ tsz = n - done /\ y = (n - rem - 1) % SectorSize
    OBVIOUS
  <2>4. tsz \in 1 .. SectorSize /\ done \in Nat /\ done \in Int /\ n = done + tsz /\ done - rem = SectorSize * k
    <3>1. k * SectorSize \in Nat /\ k * SectorSize = SectorSize * k
      BY <1>2, <2>2
    <3>2. y \in 0 .. SectorSize - 1 /\ n - rem - 1 = SectorSize * k + y
      BY <2>2, <2>3
    <3>3. done = rem + SectorSize * k /\ done \in Nat /\ done - rem = SectorSize * k
      BY <1>4, <2>3, <3>1
    <3>4. tsz = y + 1 /\ n = done + tsz
      BY <1>4, <2>3, <3>1, <3>2, <3>3
    <3> QED
      BY <1>2, <3>2, <3>3, <3>4
  <2>5. (done - rem) \div SectorSize = k
    <3>1. PICK a : a = done - rem
      OBVIOUS
    <3>2. a = SectorSize * k + 0 /\ 0 \in 0 .. SectorSize - 1 /\ a \in Int /\ k \in Int
      BY <1>2, <1>4, <2>2, <2>4, <3>1
    <3>3. a \div SectorSize = k
      BY <1>2, <3>2, DivModIs
    <3> QED
      BY <3>1, <3>3
  <2>6. PICK A : PutRun(w, used, rem, k, A) /\ Put(w, n) = PutEnds(PutLast(A[k], tsz, done), tsz)
    BY <1>0, <1>4, <1>7, <2>1, <2>2, <2>3, <2>5, PutIs
  <2>7. PutSoFar(w, x, F, p, z, rem, A[k], k)
    BY <1>0, <1>4, <2>2, <2>6, PutRunDoes
  <2>8. PICK a, b, d, pos : a = A[k] /\ b = PutLast(a, tsz, done) /\ d = q + 1 + k /\ pos = p + done
    OBVIOUS
  <2>9. v = PutEnds(b, tsz) /\ tsz \in Int
    BY <2>4, <2>6, <2>8
  <2>10. CASE Stuck(a, x)
    <3>1. Stuck(b, x)
      BY <2>4, <2>8, <2>9, <2>10, StuckPuts
    <3> QED
      BY <2>4, <2>9, <3>1, StuckPuts DEF PutDone
  <2>11. CASE ~ Stuck(a, x)
    <3>1. d \in Nat /\ pos \in Nat /\ pos = d * SectorSize /\ p + rem + k * SectorSize = pos /\ p2 = pos + tsz
      <4>1. k * SectorSize \in Nat /\ q * SectorSize \in Nat
            /\ (q + 1 + k) * SectorSize = q * SectorSize + SectorSize + k * SectorSize
        BY <1>2, <1>3, <2>2
      <4>2. d \in Nat /\ pos \in Nat
        BY <1>1, <1>3, <2>2, <2>4, <2>8
      <4>3. p + rem = q * SectorSize + SectorSize
        BY <1>1, <1>2, <1>3, <1>4, <4>1
      <4>4. pos = p + rem + k * SectorSize
        BY <1>1, <1>4, <2>3, <2>8, <4>1
      <4>5. pos = d * SectorSize
        BY <1>2, <2>8, <4>1, <4>3, <4>4
      <4>6. p2 = pos + tsz
        BY <1>0, <1>1, <2>4, <2>8
      <4> QED
        BY <4>2, <4>4, <4>5, <4>6
    <3>2. PICK G, G2 : G = PutTo(F, p, done) /\ G2 = PutTo(F, p, n)
      OBVIOUS
    <3>3. Moves(w, a, pos) /\ Going(a, x, d, G, Later(z, pos))
      BY <1>0, <2>3, <2>7, <2>8, <2>11, <3>1, <3>2 DEF PutSoFar
    <3>4. Over(G, G2, pos, tsz, done)
      <4>1. tsz \in Nat
        BY <2>4
      <4> QED
        BY <1>1, <2>4, <2>8, <3>2, <4>1, PutToIs
    <3>5. a.h.currpos = pos /\ a.h.fileSize = z
      BY <1>1, <3>3 DEF Moves
    <3>6. Moves(a, b, pos + tsz) /\ Going(b, x, d, G2, Later(z, pos + tsz))
      BY <1>1, <2>4, <2>8, <3>1, <3>3, <3>4, <3>5, PutLastDoes
    <3>7. b.h.currpos = p2 /\ b.h.fileSize = z /\ Moves(w, b, p2)
      BY <3>1, <3>3, <3>5, <3>6 DEF Moves, SameFile
    <3>8. PICK e, n2 : e = (IF p2 < z /\ tsz = SectorSize THEN d + 1 ELSE d) /\ n2 = Later(z, p2)
      OBVIOUS
    <3>9. Going(b, x, d, G2, n2) /\ n2 \in Nat
      BY <1>1, <3>1, <3>6, <3>8 DEF Later
    <3>10. Stuck(v, x) \/ (Moves(b, v, p2) /\ Going(v, x, e, G2, n2))
      <4>1. b.h.currpos = d * SectorSize + tsz
        BY <3>1, <3>7
      <4>2. e = (IF b.h.currpos < b.h.fileSize /\ tsz = SectorSize THEN d + 1 ELSE d)
        BY <3>7, <3>8
      <4>3. Stuck(v, x) \/ (Moves(b, v, b.h.currpos) /\ Going(v, x, e, G2, n2))
        BY <2>4, <2>9, <3>1, <3>9, <4>1, <4>2, PutEndsDoes
      <4> QED
        BY <3>7, <4>3
    <3>11. e = r
      <4>1. /\ tsz = SectorSize => Full(p2) /\ p2 # 0 /\ p2 \div SectorSize = d + 1
            /\ tsz # SectorSize => (Full(p2) <=> tsz = 0) /\ p2 \div SectorSize = d /\ p2 % SectorSize = tsz
        <5>1. tsz \in 0 .. SectorSize /\ p2 = d * SectorSize + tsz
          BY <2>4, <3>1
        <5> QED
          BY <3>1, <5>1, FullSector
      <4> QED
        BY <1>1, <1>5, <1>7, <2>4, <3>1, <3>8, <4>1
    <3>12. Stuck(v, x) \/ Moves(w, v, p2)
      BY <3>7, <3>10 DEF Moves, SameFile
    <3> QED
      BY <1>0, <3>2, <3>8, <3>10, <3>11, <3>12 DEF PutDone
  <2> QED
    BY <2>10, <2>11
<1> QED
  BY <1>6, <1>7

(* The size of the file changes.                                           *)
Sized(w, z) == [w EXCEPT !.h.fileSize = z]

LEMMA SizedIs ==
  ASSUME NEW w \in Writing, NEW z \in Nat, NEW v, v = Sized(w, z)
  PROVE  /\ v \in Writing /\ v.h.fileSize = z /\ v.h.currpos = w.h.currpos
         /\ SameDisk(w, v) /\ SameHolds(w, v) /\ SameFile(w, v) /\ SamePlace(w, v)
         /\ v.monitor = w.monitor /\ v.bbuf = w.bbuf
<1> DEFINE g == [w.h EXCEPT !.fileSize = z]
<1>1. w.h \in Handle
  BY DEF Writing
<1>2. /\ g \in Handle /\ g.fileSize = z /\ g.currpos = w.h.currpos /\ g.sectorUpto = w.h.sectorUpto
      /\ g.currentCluster = w.h.currentCluster /\ g.sectorStart = w.h.sectorStart
      /\ g.file = w.h.file /\ g.startcluster = w.h.startcluster /\ g.nextCluster = w.h.nextCluster
  BY <1>1 DEF Handle
<1>3. v = [w EXCEPT !.h = g]
  BY DEF Sized
<1> HIDE DEF g
<1>4. /\ v \in Writing /\ v.h = g /\ v.currcluster = w.currcluster
      /\ SameDisk(w, v) /\ SameHolds(w, v) /\ v.monitor = w.monitor /\ v.bbuf = w.bbuf
  BY <1>2, <1>3 DEF Writing, SameDisk, SameHolds
<1> QED
  BY <1>2, <1>4 DEF SameFile, SamePlace

LEMMA SizedGoes ==
  ASSUME disk \in Disks, NEW w, NEW x, NEW q, NEW F, NEW n, Going(w, x, q, F, n),
         w.h.fileSize <= (q + 1) * SectorSize, NEW z \in Nat, z <= (q + 1) * SectorSize,
         NEW k, \A i \in Nat : i < k => i < n,
         NEW v, v = Sized(w, z)
  PROVE  /\ Going(v, x, q, F, k) /\ SameFile(w, v) /\ v.h.fileSize = z /\ v.h.currpos = w.h.currpos
<1>1. w \in Writing /\ q \in Nat /\ w.h.fileSize \in Nat
  BY GoingIs
<1>2. /\ v \in Writing /\ v.h.fileSize = z /\ v.h.currpos = w.h.currpos
      /\ SameDisk(w, v) /\ SameHolds(w, v) /\ SameFile(w, v) /\ SamePlace(w, v)
      /\ v.monitor = w.monitor
  BY ONLY <1>1, z \in Nat, v = Sized(w, z), SizedIs
<1>3. Reaching(z, q) = Reaching(w.h.fileSize, q)
  BY <1>1, ReachingIs
<1>4. PICK m : m = Reaching(z, q)
  OBVIOUS
<1>5. Stands(w, x, q, m) /\ Holds(w, F, n, m) /\ m \in Nat
  BY <1>3, <1>4, GoingIs DEF Going
<1>6. Stands(v, x, q, m) /\ KeepsBlocks(w, v, m)
  BY <1>2, <1>5, SameStands
<1>7. Holds(v, F, n, m)
  BY <1>5, <1>6, HoldsKept, m <= m
<1>8. Holds(v, F, k, m)
  BY <1>7 DEF Holds
<1> QED
  BY <1>2, <1>4, <1>6, <1>8 DEF Going

LEMMA StuckSized ==
  ASSUME NEW w, NEW x, Stuck(w, x), NEW z \in Nat
  PROVE  Stuck(Sized(w, z), x)
<1>1. PICK v : v = Sized(w, z)
  OBVIOUS
<1>2. w \in Writing
  BY StuckIs
<1>3. v \in Writing /\ SameDisk(w, v) /\ SameHolds(w, v) /\ SameFile(w, v) /\ v.monitor = w.monitor
  BY <1>1, <1>2, SizedIs
<1>4. Stuck(v, x)
  BY <1>3, SameStuck DEF SameDisk
<1> QED
  BY <1>1, <1>4

LEMMA GrownIs ==
  ASSUME disk \in Disks, NEW w \in Writing, NEW o \in Nat, NEW k \in Nat
  PROVE  Grown(w, o, k) = Sized(fatWriteLogical(Zeroed(w, o, k)), w.h.fileSize + k) /\ w.h.fileSize + k \in Nat
<1>1. PICK u, y : u = Zeroed(w, o, k) /\ y = fatWriteLogical(u)
  OBVIOUS
<1>2. u \in Writing /\ u.h = w.h
  BY <1>1, ZeroedIs, o \in Int, k \in Int
<1>3. y \in Writing /\ y.h = w.h
  BY <1>1, <1>2, WriteLogicalIs
<1>4. w.h.fileSize \in Nat
  BY DEF Writing, Handle
<1> QED
  BY <1>1, <1>3, <1>4 DEF Grown, Sized

(* Zeros are there from the byte n on.                                     *)
ZerosFrom(F, n) == \A i \in Nat : i >= n => F[i] = Zero

LEMMA GrowsGoes ==
  ASSUME disk \in Disks, RootIsShort, NEW w, NEW x, NEW q, NEW F, NEW z \in Nat, Going(w, x, q, F, z),
         w.h.fileSize = z, ZerosFrom(F, z),
         NEW o \in Nat, NEW k \in Nat, o + k <= SectorSize, q * SectorSize + o = z,
         Keeps(w.bbuf, q, F, z, o, k), NEW v, v = Grown(w, o, k)
  PROVE  /\ Going(v, x, q, F, z + k) /\ SameFile(w, v) /\ v.h.currpos = w.h.currpos
         /\ v.h.fileSize = z + k
<1>1. PICK y : y = fatWriteLogical(Zeroed(w, o, k))
  OBVIOUS
<1>2. w \in Writing /\ q \in Nat /\ SectorSize \in Nat \ {0}
  BY GoingIs, DiskIs
<1>3. v = Sized(y, z + k) /\ z + k \in Nat
  BY <1>1, <1>2, GrownIs
<1>4. Blanked(F, F, q * SectorSize + o, k)
  <2>1. \A i \in Nat : i \in z .. z + k - 1 => F[i] = Zero
    BY DEF ZerosFrom
  <2> QED
    BY <2>1 DEF Blanked
<1>5. y.h = w.h /\ Going(y, x, q, F, z + k)
  <2>1. y.h = w.h /\ Going(y, x, q, F, Later(z, q * SectorSize + o + k))
    BY <1>1, <1>4, BlankGoes, q * SectorSize + o <= z
  <2>2. Later(z, q * SectorSize + o + k) = z + k
    BY DEF Later
  <2> QED
    BY <2>1, <2>2
<1>6. z + k <= (q + 1) * SectorSize /\ z <= (q + 1) * SectorSize
  <2>1. q * SectorSize \in Nat /\ (q + 1) * SectorSize = q * SectorSize + SectorSize
    BY <1>2
  <2> QED
    BY <1>2, <2>1
<1>7. /\ Going(v, x, q, F, z + k) /\ SameFile(y, v) /\ v.h.fileSize = z + k /\ v.h.currpos = y.h.currpos
  <2>1. PICK s : s = z + k
    OBVIOUS
  <2>2. /\ Going(v, x, q, F, s) /\ SameFile(y, v) /\ v.h.fileSize = s /\ v.h.currpos = y.h.currpos
    BY <1>3, <1>5, <1>6, <2>1, SizedGoes
  <2> QED
    BY <2>1, <2>2
<1> QED
  BY <1>5, <1>7 DEF SameFile

(* The k bytes from offset o of sector q are the next ones of the file.    *)
Joins(w, q, F, z, o, k) ==
  o + k <= SectorSize /\ q * SectorSize + o = z /\ Keeps(w.bbuf, q, F, z, o, k)
GrowsTo(w, v, x, q, F, s) ==
  Going(v, x, q, F, s) /\ SameFile(w, v) /\ v.h.currpos = w.h.currpos /\ v.h.fileSize = s

LEMMA GrowsWhen ==
  ASSUME disk \in Disks, RootIsShort, NEW w, NEW x, NEW q, NEW F, NEW z \in Nat, Going(w, x, q, F, z),
         w.h.fileSize = z, ZerosFrom(F, z), NEW o \in Nat, NEW k \in Nat, Joins(w, q, F, z, o, k),
         NEW v, v = Grown(w, o, k), NEW s, s = z + k
  PROVE  GrowsTo(w, v, x, q, F, s)
<1>1. o + k <= SectorSize /\ q * SectorSize + o = z /\ Keeps(w.bbuf, q, F, z, o, k)
  BY DEF Joins
<1>2. /\ Going(v, x, q, F, z + k) /\ SameFile(w, v) /\ v.h.currpos = w.h.currpos
      /\ v.h.fileSize = z + k
  BY <1>1, GrowsGoes
<1> QED
  BY <1>2 DEF GrowsTo

LEMMA GrowsOnGoes ==
  ASSUME disk \in Disks, RootIsShort, NEW w, NEW x, NEW q, NEW F, NEW z \in Nat, Going(w, x, q, F, z),
         w.h.fileSize = z, ZerosFrom(F, z),
         NEW o \in Nat, NEW k \in Nat, o + k = SectorSize, q * SectorSize + o = z,
         Keeps(w.bbuf, q, F, z, o, k), NEW v, v = GrownOn(w, o, k)
  PROVE  /\ SameFile(w, v) /\ v.h.currpos = w.h.currpos /\ v.h.fileSize = (q + 1) * SectorSize
         /\ Stuck(v, x) \/ Going(v, x, q + 1, F, (q + 1) * SectorSize)
<1>1. PICK y, s : y = Grown(w, o, k) /\ s = z + k
  OBVIOUS
<1>2. o + k <= SectorSize /\ SectorSize \in Nat \ {0} /\ q \in Nat
  BY DiskIs, GoingIs
<1>3. /\ Going(y, x, q, F, s) /\ SameFile(w, y) /\ y.h.currpos = w.h.currpos /\ y.h.fileSize = s
  <2>1. Joins(w, q, F, z, o, k)
    BY <1>2 DEF Joins
  <2>2. GrowsTo(w, y, x, q, F, s)
    BY <1>1, <2>1, GrowsWhen
  <2> QED
    BY <2>2 DEF GrowsTo
<1>4. s = (q + 1) * SectorSize /\ s <= (q + 1) * SectorSize
  <2>1. q * SectorSize \in Nat /\ (q + 1) * SectorSize = q * SectorSize + SectorSize
    BY <1>2
  <2> QED
    BY <1>1, <1>2, <2>1
<1>5. v = OrChain(NextSector(y))
  BY <1>1 DEF GrownOn
<1>6. SameFile(y, v) /\ SameSize(y, v) /\ (Stuck(v, x) \/ Going(v, x, q + 1, F, s))
  BY <1>3, <1>4, <1>5, ExpandsOn
<1> QED
  BY <1>3, <1>4, <1>6 DEF SameFile, SameSize

LEMMA StuckGrown ==
  ASSUME disk \in Disks, NEW w, NEW x, Stuck(w, x), NEW o \in Nat, NEW k \in Nat
  PROVE  Stuck(Grown(w, o, k), x) /\ Stuck(GrownOn(w, o, k), x)
<1>1. PICK u, z, y : u = Zeroed(w, o, k) /\ z = w.h.fileSize + k /\ y = Grown(w, o, k)
  OBVIOUS
<1>2. w \in Writing
  BY StuckIs
<1>3. y = Sized(fatWriteLogical(u), z) /\ z \in Nat
  BY <1>1, <1>2, GrownIs
<1>4. Stuck(u, x)
  BY <1>1, StuckFills, o \in Int, k \in Int, 0 \in Int
<1>5. fatWriteLogical(u) = u
  BY <1>4, StuckSteps
<1>6. Stuck(y, x)
  BY <1>3, <1>4, <1>5, StuckSized
<1>7. PICK a : a = NextSector(y)
  OBVIOUS
<1>8. Stuck(a, x)
  BY <1>6, <1>7, StuckSteps
<1>9. Stuck(OrChain(a), x)
  BY <1>8, StuckSteps
<1> QED
  BY <1>1, <1>6, <1>7, <1>9 DEF GrownOn

(* The whole sectors of a gap, one by one.                                 *)
GrowRun(w, used, rem, m, A) ==
  A = [i \in 0 .. m |-> IF i = 0 THEN GrownOn(w, used, rem) ELSE GrownOn(A[i - 1], 0, SectorSize)]

LEMMA GrowRunSteps ==
  ASSUME NEW w, NEW used, NEW rem, NEW m \in Nat, NEW A, GrowRun(w, used, rem, m, A)
  PROVE  /\ A[0] = GrownOn(w, used, rem)
         /\ \A i \in 0 .. m - 1 : A[i + 1] = GrownOn(A[i], 0, SectorSize)
<1>1. A = [i \in 0 .. m |-> IF i = 0 THEN GrownOn(w, used, rem) ELSE GrownOn(A[i - 1], 0, SectorSize)]
  BY DEF GrowRun
<1>2. \A i \in 0 .. m : A[i] = IF i = 0 THEN GrownOn(w, used, rem) ELSE GrownOn(A[i - 1], 0, SectorSize)
  BY <1>1
<1>3. ASSUME NEW i \in 0 .. m - 1 PROVE A[i + 1] = GrownOn(A[i], 0, SectorSize)
  <2>1. i + 1 \in 0 .. m /\ i + 1 # 0 /\ i + 1 - 1 = i
    OBVIOUS
  <2> QED
    BY <1>2, <2>1
<1> QED
  BY <1>2, <1>3

LEMMA GrowRunThere ==
  ASSUME NEW w, NEW used, NEW rem, NEW m \in Nat
  PROVE  \E A : GrowRun(w, used, rem, m, A)
<1> DEFINE S == {j \in Nat : \E h : GrowRun(w, used, rem, j, h)}
           c == GrownOn(w, used, rem)
<1>1. 0 \in S
  <2> DEFINE h == [j \in 0 .. 0 |-> c]
  <2> HIDE DEF c
  <2>1. h = [j \in 0 .. 0 |-> IF j = 0 THEN c ELSE GrownOn(h[j - 1], 0, SectorSize)]
    OBVIOUS
  <2>2. GrowRun(w, used, rem, 0, h)
    BY <2>1 DEF GrowRun, c
  <2> QED
    BY <2>2
<1> HIDE DEF c
<1>2. ASSUME NEW n \in Nat, n \in S PROVE n + 1 \in S
  <2>1. PICK h : GrowRun(w, used, rem, n, h)
    BY <1>2
  <2>2. h[0] = c /\ \A i \in 0 .. n - 1 : h[i + 1] = GrownOn(h[i], 0, SectorSize)
    BY <2>1, GrowRunSteps DEF c
  <2> DEFINE g == [j \in 0 .. n + 1 |-> IF j = n + 1 THEN GrownOn(h[n], 0, SectorSize) ELSE h[j]]
  <2>3. \A j \in 0 .. n : g[j] = h[j]
    OBVIOUS
  <2>4. g[0] = c /\ g[n + 1] = GrownOn(h[n], 0, SectorSize)
    BY <2>2
  <2>5. ASSUME NEW j \in 1 .. n + 1 PROVE g[j] = GrownOn(g[j - 1], 0, SectorSize)
    <3>1. CASE j = n + 1
      <4>1. j - 1 = n
        BY <3>1
      <4> QED
        BY <2>3, <2>4, <3>1, <4>1
    <3>2. CASE j # n + 1
      <4>1. j - 1 \in 0 .. n - 1 /\ j - 1 + 1 = j /\ j \in 0 .. n /\ j - 1 \in 0 .. n
        BY <3>2
      <4> QED
        BY <2>2, <2>3, <4>1
    <3> QED
      BY <3>1, <3>2
  <2>6. g = [j \in 0 .. n + 1 |-> g[j]]
    OBVIOUS
  <2> HIDE DEF g
  <2>7. \A j \in 0 .. n + 1 : g[j] = IF j = 0 THEN c ELSE GrownOn(g[j - 1], 0, SectorSize)
    BY <2>4, <2>5
  <2>8. [j \in 0 .. n + 1 |-> g[j]]
          = [j \in 0 .. n + 1 |-> IF j = 0 THEN c ELSE GrownOn(g[j - 1], 0, SectorSize)]
    BY ONLY <2>7
  <2>9. GrowRun(w, used, rem, n + 1, g)
    BY ONLY <2>6, <2>8 DEF GrowRun, c
  <2> QED
    BY <2>9
<1> HIDE DEF S
<1>3. m \in S
  BY <1>1, <1>2, SetInduction
<1> QED
  BY <1>3 DEF S

(* After sector q and i more.                                              *)
GrownSoFar(w, x, F, q, A, i) ==
  \/ Stuck(A, x)
  \/ /\ SameFile(w, A) /\ A.h.currpos = w.h.currpos /\ A.h.fileSize = (q + 1 + i) * SectorSize
     /\ Going(A, x, q + 1 + i, F, (q + 1 + i) * SectorSize)

LEMMA GrowRunDoes ==
  ASSUME disk \in Disks, RootIsShort, NEW w, NEW x, NEW q, NEW F, NEW z \in Nat, Going(w, x, q, F, z),
         w.h.fileSize = z, ZerosFrom(F, z),
         NEW used \in Nat, NEW rem \in Nat, used + rem = SectorSize, q * SectorSize + used = z,
         Keeps(w.bbuf, q, F, z, used, rem),
         NEW m \in Nat, NEW A, GrowRun(w, used, rem, m, A)
  PROVE  GrownSoFar(w, x, F, q, A[m], m)
<1> DEFINE S == {j \in Nat : j <= m => GrownSoFar(w, x, F, q, A[j], j)}
<1>1. SectorSize \in Nat \ {0} /\ q \in Nat
  BY DiskIs, GoingIs
<1>2. A[0] = GrownOn(w, used, rem) /\ \A i \in 0 .. m - 1 : A[i + 1] = GrownOn(A[i], 0, SectorSize)
  BY GrowRunSteps
<1>3. 0 \in S
  <2>1. /\ SameFile(w, A[0]) /\ A[0].h.currpos = w.h.currpos /\ A[0].h.fileSize = (q + 1) * SectorSize
        /\ Stuck(A[0], x) \/ Going(A[0], x, q + 1, F, (q + 1) * SectorSize)
    BY <1>2, GrowsOnGoes
  <2>2. q + 1 + 0 = q + 1
    BY <1>1
  <2> QED
    BY <2>1, <2>2 DEF GrownSoFar
<1>4. ASSUME NEW j \in Nat, j \in S PROVE j + 1 \in S
  <2> SUFFICES ASSUME j + 1 <= m PROVE GrownSoFar(w, x, F, q, A[j + 1], j + 1)
    OBVIOUS
  <2>1. j \in 0 .. m - 1 /\ GrownSoFar(w, x, F, q, A[j], j)
    BY <1>4
  <2>2. PICK a, b, d, s : a = A[j] /\ b = A[j + 1] /\ d = q + 1 + j /\ s = d * SectorSize
    OBVIOUS
  <2>3. b = GrownOn(a, 0, SectorSize)
    BY <1>2, <2>1, <2>2
  <2>4. d \in Nat /\ s \in Nat /\ q + 1 + (j + 1) = d + 1 /\ SectorSize \in Nat /\ 0 \in Nat
        /\ 0 + SectorSize = SectorSize /\ d * SectorSize + 0 = s
    <3>1. d \in Nat
      BY <1>1, <2>2
    <3>2. s \in Nat
      BY <1>1, <2>2, <3>1
    <3> QED
      BY <1>1, <2>2, <3>1, <3>2
  <2>5. CASE Stuck(a, x)
    BY <2>2, <2>3, <2>4, <2>5, StuckGrown DEF GrownSoFar
  <2>6. CASE ~ Stuck(a, x)
    <3>1. SameFile(w, a) /\ a.h.currpos = w.h.currpos /\ a.h.fileSize = s /\ Going(a, x, d, F, s)
      BY <2>1, <2>2, <2>6 DEF GrownSoFar
    <3>2. ZerosFrom(F, s)
      <4>1. z <= s
        <5>1. PICK k : k = j + 1
          OBVIOUS
        <5>2. s = q * SectorSize + k * SectorSize /\ k * SectorSize = j * SectorSize + SectorSize
              /\ j * SectorSize \in Nat /\ q * SectorSize \in Nat
          BY <1>1, <2>2, <5>1
        <5> QED
          BY <1>1, <5>2
      <4> QED
        BY <2>4, <4>1 DEF ZerosFrom
    <3>3. Keeps(a.bbuf, d, F, s, 0, SectorSize)
      <4>1. \A i \in Nat : i % SectorSize \in 0 .. 0 + SectorSize - 1
        BY <1>1, DivModNat
      <4> QED
        BY <4>1 DEF Keeps
    <3>4. /\ SameFile(a, b) /\ b.h.currpos = a.h.currpos /\ b.h.fileSize = (d + 1) * SectorSize
          /\ Stuck(b, x) \/ Going(b, x, d + 1, F, (d + 1) * SectorSize)
      BY <2>3, <2>4, <3>1, <3>2, <3>3, GrowsOnGoes
    <3>5. SameFile(w, b)
      BY <3>1, <3>4 DEF SameFile
    <3> QED
      BY <2>2, <2>4, <3>1, <3>4, <3>5 DEF GrownSoFar
  <2> QED
    BY <2>5, <2>6
<1> HIDE DEF S
<1>5. m \in S
  BY <1>3, <1>4, SetInduction
<1> QED
  BY <1>5 DEF S

(* Where a write begins: z bytes of the file are as in F, whose others are *)
(* zeros, and nothing is missing at the end of a sector.                   *)
Begun(w, x, F, p, z) ==
  /\ p \in Nat /\ z \in Nat /\ w.h.currpos = p /\ w.h.fileSize = z /\ ZerosFrom(F, z)
  /\ p <= z => Going(w, x, Sector(p, z), F, z)
  /\ p > z => Going(w, x, z \div SectorSize, F, z) /\ (z > 0 => ~ Full(z))

LastGrown(v, p) == [fatWriteLogical(Zeroed(v, 0, SectorSize)) EXCEPT !.h.fileSize = p]

GapUsed(w)   == w.h.fileSize % SectorSize
GapRoom(w)   == SectorSize - GapUsed(w)
Gap(w)       == w.h.currpos - w.h.fileSize
GapStart(w)  == IF GapUsed(w) # 0 THEN fatReadLogical(w) ELSE w
GapWhole(w)  == (Gap(w) - GapRoom(w) - 1) \div SectorSize

LEMMA ExpandedIs ==
  ASSUME NEW w, ~ (Gap(w) <= 0), ~ (Gap(w) <= GapRoom(w)), GapWhole(w) \in Nat
  PROVE  \E A : /\ GrowRun(GapStart(w), GapUsed(w), GapRoom(w), GapWhole(w), A)
               /\ Expanded(w) = LastGrown(A[GapWhole(w)], w.h.currpos)
<1> DEFINE After == CHOOSE A : GrowRun(GapStart(w), GapUsed(w), GapRoom(w), GapWhole(w), A)
<1>1. GrowRun(GapStart(w), GapUsed(w), GapRoom(w), GapWhole(w), After)
  <2> HIDE DEF GrowRun
  <2> QED
    BY GrowRunThere
<1>2. Expanded(w) = LastGrown(After[GapWhole(w)], w.h.currpos)
  BY Zenon DEF Expanded, GrowRun, LastGrown, GapUsed, GapRoom, Gap, GapStart, GapWhole
<1> HIDE DEF After
<1> QED
  BY <1>1, <1>2

LEMMA LastGrownDoes ==
  ASSUME disk \in Disks, RootIsShort, NEW w, NEW x, NEW d \in Nat, NEW F, NEW s, s = d * SectorSize,
         Going(w, x, d, F, s), w.h.fileSize = s, ZerosFrom(F, s),
         NEW p \in Nat, s <= p, p <= (d + 1) * SectorSize, NEW v, v = LastGrown(w, p)
  PROVE  Going(v, x, d, F, p) /\ SameFile(w, v) /\ v.h.currpos = w.h.currpos /\ v.h.fileSize = p
<1>1. PICK y, e : y = fatWriteLogical(Zeroed(w, 0, SectorSize)) /\ e = (d + 1) * SectorSize
  OBVIOUS
<1>2. SectorSize \in Nat \ {0} /\ SectorSize \in Nat /\ 0 \in Nat /\ 0 + SectorSize <= SectorSize
  BY DiskIs
<1>3. s \in Nat /\ e = s + SectorSize /\ d * SectorSize + 0 = s /\ d * SectorSize + 0 + SectorSize = e
      /\ d * SectorSize + 0 <= s /\ e \in Nat
  BY <1>1, <1>2
<1>4. Keeps(w.bbuf, d, F, s, 0, SectorSize)
  <2>1. \A i \in Nat : i % SectorSize \in 0 .. 0 + SectorSize - 1
    BY <1>2, DivModNat
  <2> QED
    BY <2>1 DEF Keeps
<1>5. Blanked(F, F, d * SectorSize + 0, SectorSize)
  <2>1. \A i \in Nat : i \in s .. s + SectorSize - 1 => F[i] = Zero
    BY <1>2, <1>3 DEF ZerosFrom
  <2> QED
    BY <1>3, <2>1 DEF Blanked
<1>6. y.h = w.h /\ Going(y, x, d, F, Later(s, d * SectorSize + 0 + SectorSize))
  BY <1>1, <1>2, <1>3, <1>4, <1>5, BlankGoes
<1>7. y.h = w.h /\ Going(y, x, d, F, e)
  <2>1. Later(s, d * SectorSize + 0 + SectorSize) = e
    BY <1>2, <1>3 DEF Later
  <2> QED
    BY <1>6, <2>1
<1>8. v = Sized(y, p)
  BY <1>1 DEF LastGrown, Sized
<1>9. y.h.fileSize <= e /\ \A i \in Nat : i < p => i < e
  BY <1>1, <1>2, <1>3, <1>7
<1>10. Going(v, x, d, F, p) /\ SameFile(y, v) /\ v.h.fileSize = p /\ v.h.currpos = y.h.currpos
  BY <1>1, <1>7, <1>8, <1>9, SizedGoes
<1> QED
  BY <1>7, <1>10 DEF SameFile

LEMMA StuckLastGrown ==
  ASSUME disk \in Disks, NEW w, NEW x, Stuck(w, x), NEW p \in Nat
  PROVE  Stuck(LastGrown(w, p), x)
<1>1. PICK u : u = Zeroed(w, 0, SectorSize)
  OBVIOUS
<1>2. Stuck(u, x)
  <2>1. SectorSize \in Int /\ 0 \in Int
    BY DiskIs
  <2> QED
    BY <1>1, <2>1, StuckFills
<1>3. fatWriteLogical(u) = u
  BY <1>2, StuckSteps
<1>4. LastGrown(w, p) = Sized(u, p)
  BY <1>1, <1>3 DEF LastGrown, Sized
<1> QED
  BY <1>2, <1>4, StuckSized

(* A gap between the end of the file and the position becomes zeros.       *)
LEMMA ExpandedDoes ==
  ASSUME disk \in Disks, RootIsShort, NEW w, NEW x, NEW F, NEW p, NEW z, Begun(w, x, F, p, z),
         NEW v, v = Expanded(w)
  PROVE  Stuck(v, x) \/ (SameFile(w, v) /\ Ready(v, x, F, p, Later(z, p)))
<1>1. p \in Nat /\ z \in Nat /\ w.h.currpos = p /\ w.h.fileSize = z /\ ZerosFrom(F, z)
  BY DEF Begun
<1>2. SectorSize \in Nat \ {0}
  BY DiskIs
<1>3. PICK used, rem, gap, w1 : used = GapUsed(w) /\ rem = GapRoom(w) /\ gap = Gap(w) /\ w1 = GapStart(w)
  OBVIOUS
<1>4. gap = p - z /\ used = z % SectorSize /\ rem = SectorSize - used
  BY <1>1, <1>3 DEF Gap, GapUsed, GapRoom
<1>5. CASE p <= z
  <2>1. gap <= 0
    BY <1>1, <1>4, <1>5
  <2>2. v = w
    BY <1>3, <2>1 DEF Expanded, Gap
  <2>3. Later(z, p) = z
    BY <1>1, <1>5 DEF Later
  <2> QED
    BY <1>1, <1>5, <2>2, <2>3 DEF Begun, Ready, SameFile
<1>6. CASE p > z
  <2>1. PICK q : q = z \div SectorSize
    OBVIOUS
  <2>2. Going(w, x, q, F, z) /\ (z > 0 => ~ Full(z))
    BY <1>6, <2>1 DEF Begun
  <2>3. q \in Nat /\ used \in 0 .. SectorSize - 1 /\ z = SectorSize * q + used
    BY <1>1, <1>2, <1>4, <2>1, DivModNat
  <2>4. used \in Nat /\ rem \in Nat \ {0} /\ used + rem = SectorSize /\ q * SectorSize + used = z
        /\ q * SectorSize \in Nat /\ (q + 1) * SectorSize = q * SectorSize + SectorSize
    BY <1>2, <1>4, <2>3
  <2>5. gap \in Nat \ {0} /\ p = z + gap /\ Later(z, p) = p
    BY <1>1, <1>4, <1>6 DEF Later
  <2>6. Going(w1, x, q, F, z) /\ w1.h = w.h /\ \A k \in Int : Keeps(w1.bbuf, q, F, z, used, k)
    <3>1. CASE used # 0
      <4>1. w1 = fatReadLogical(w)
        BY <1>3, <3>1 DEF GapStart
      <4>2. Going(w1, x, q, F, z) /\ w1.h = w.h /\ \A o \in Int, k \in Int : Keeps(w1.bbuf, q, F, z, o, k)
        BY <2>2, <4>1, ReadGoes
      <4> QED
        BY <2>4, <4>2
    <3>2. CASE used = 0
      <4>1. w1 = w
        BY <1>3, <3>2 DEF GapStart
      <4>2. ~ (z > 0)
        BY <1>4, <2>2, <3>2 DEF Full
      <4>3. \A i \in Nat : ~ (i < z)
        BY <1>1, <4>2
      <4> QED
        BY <2>2, <4>1, <4>3 DEF Keeps
    <3> QED
      BY <3>1, <3>2
  <2>7. CASE gap <= rem
    <3>1. v = Grown(w1, used, gap)
      <4>1. ~ (Gap(w) <= 0) /\ Gap(w) <= GapRoom(w)
        BY <1>3, <2>5, <2>7
      <4>2. Expanded(w) = Grown(GapStart(w), GapUsed(w), Gap(w))
        BY ONLY <4>1, Zenon DEF Expanded, GapUsed, GapRoom, Gap, GapStart
      <4> QED
        BY <1>3, <4>2
    <3>2. used + gap <= SectorSize /\ gap \in Nat /\ gap \in Int /\ w1.h.fileSize = z
      BY <1>1, <1>2, <2>4, <2>5, <2>6, <2>7
    <3>3. Keeps(w1.bbuf, q, F, z, used, gap)
      BY <2>6, <3>2
    <3>4. /\ Going(v, x, q, F, p) /\ SameFile(w1, v) /\ v.h.currpos = p /\ v.h.fileSize = p
      <4>1. /\ Going(v, x, q, F, z + gap) /\ SameFile(w1, v) /\ v.h.currpos = w1.h.currpos
            /\ v.h.fileSize = z + gap
        BY <1>1, <2>4, <2>6, <3>1, <3>2, <3>3, GrowsGoes
      <4> QED
        BY <1>1, <2>5, <2>6, <4>1
    <3>5. q = Sector(p, p)
      <4>1. PICK o : o = used + gap
        OBVIOUS
      <4>2. o \in 0 .. SectorSize /\ o # 0 /\ p = q * SectorSize + o
        BY <2>4, <2>5, <3>2, <4>1
      <4>3. /\ o = SectorSize => Full(p) /\ p # 0 /\ p \div SectorSize = q + 1
            /\ o # SectorSize => (Full(p) <=> o = 0) /\ p \div SectorSize = q /\ p % SectorSize = o
        BY <2>3, <4>2, FullSector
      <4> QED
        BY <2>3, <4>2, <4>3 DEF Sector
    <3> QED
      BY <1>1, <2>5, <2>6, <3>4, <3>5 DEF Ready, SameFile
  <2>8. CASE ~ (gap <= rem)
    <3>1. PICK m : m = (gap - rem - 1) \div SectorSize
      OBVIOUS
    <3>2. PICK y, b : y = gap - rem - 1 /\ b = y % SectorSize
      OBVIOUS
    <3>3. m \in Nat /\ b \in 0 .. SectorSize - 1 /\ y = SectorSize * m + b /\ y \in Nat
      <4>1. y \in Nat
        BY <2>4, <2>5, <2>8, <3>2
      <4> QED
        BY <1>2, <3>1, <3>2, <4>1, DivModNat
    <3>4. m = GapWhole(w)
      BY <1>3, <3>1 DEF GapWhole
    <3>5. PICK A : GrowRun(w1, used, rem, m, A) /\ v = LastGrown(A[m], p)
      <4>1. ~ (Gap(w) <= 0) /\ ~ (Gap(w) <= GapRoom(w)) /\ GapWhole(w) \in Nat
        BY <1>3, <2>5, <2>8, <3>3, <3>4
      <4> QED
        BY <1>1, <1>3, <3>4, <4>1, ExpandedIs
    <3>6. GrownSoFar(w1, x, F, q, A[m], m)
      <4>1. w1.h.fileSize = z /\ rem \in Nat /\ rem \in Int
        BY <1>1, <2>4, <2>6
      <4>2. Keeps(w1.bbuf, q, F, z, used, rem)
        BY <2>6, <4>1
      <4> QED
        BY <1>1, <2>4, <2>6, <3>3, <3>5, <4>1, <4>2, GrowRunDoes
    <3>7. PICK a, d, s : a = A[m] /\ d = q + 1 + m /\ s = d * SectorSize
      OBVIOUS
    <3>8. CASE Stuck(a, x)
      BY <1>1, <3>5, <3>7, <3>8, StuckLastGrown
    <3>9. CASE ~ Stuck(a, x)
      <4>1. SameFile(w1, a) /\ a.h.currpos = p /\ a.h.fileSize = s /\ Going(a, x, d, F, s)
        BY <1>1, <2>6, <3>6, <3>7, <3>9 DEF GrownSoFar
      <4>2. d \in Nat /\ s \in Nat /\ z <= s /\ p = s + (b + 1) /\ (d + 1) * SectorSize = s + SectorSize
        <5>1. d \in Nat
          BY <2>3, <3>3, <3>7
        <5>2. s \in Nat /\ (d + 1) * SectorSize = s + SectorSize
          BY <1>2, <3>7, <5>1
        <5>3. s = q * SectorSize + SectorSize + m * SectorSize /\ m * SectorSize \in Nat /\ m * SectorSize = SectorSize * m
          BY <1>2, <2>3, <3>3, <3>7
        <5>4. z <= s
          BY <1>1, <1>2, <2>3, <2>4, <5>3
        <5>5. p = s + (b + 1)
          <6>1. PICK g, k : g = q * SectorSize /\ k = m * SectorSize
            OBVIOUS
          <6>2. y = k + b /\ s = g + SectorSize + k /\ k \in Nat
            BY <3>3, <5>3, <6>1
          <6>3. z = g + used /\ used + rem = SectorSize /\ g \in Nat
            BY <1>2, <2>3, <2>4, <6>1
          <6>4. gap = p - z /\ p \in Nat /\ z \in Nat /\ used \in Nat /\ rem \in Nat /\ b \in Nat
            BY <1>1, <1>2, <2>4, <2>5, <3>3
          <6>5. SectorSize \in Nat
            BY <1>2
          <6> QED
            BY ONLY <3>2, <6>2, <6>3, <6>4, <6>5
        <5> QED
          BY <5>1, <5>2, <5>4, <5>5
      <4>3. ZerosFrom(F, s)
        BY <1>1, <4>2 DEF ZerosFrom
      <4>4. s <= p /\ p <= (d + 1) * SectorSize
        BY <1>2, <3>3, <4>2
      <4>5. Going(v, x, d, F, p) /\ SameFile(a, v) /\ v.h.currpos = a.h.currpos /\ v.h.fileSize = p
        <5>1. v = LastGrown(a, p) /\ p \in Nat /\ d \in Nat /\ s = d * SectorSize
          BY <1>1, <3>5, <3>7, <4>2
        <5>2. Going(a, x, d, F, s) /\ a.h.fileSize = s
          BY <4>1
        <5> QED
          BY ONLY disk \in Disks, RootIsShort, <4>3, <4>4, <5>1, <5>2, LastGrownDoes
      <4>6. d = Sector(p, p)
        <5>1. PICK o : o = b + 1
          OBVIOUS
        <5>2. o \in 0 .. SectorSize /\ o # 0 /\ p = d * SectorSize + o
          BY <1>2, <3>3, <3>7, <4>2, <5>1
        <5>3. /\ o = SectorSize => Full(p) /\ p # 0 /\ p \div SectorSize = d + 1
              /\ o # SectorSize => (Full(p) <=> o = 0) /\ p \div SectorSize = d /\ p % SectorSize = o
          BY <4>2, <5>2, FullSector
        <5> QED
          BY <4>2, <5>2, <5>3 DEF Sector
      <4> QED
        BY <1>1, <2>5, <2>6, <4>1, <4>5, <4>6 DEF Ready, SameFile
    <3> QED
      BY <3>8, <3>9
  <2> QED
    BY <2>7, <2>8
<1> QED
  BY <1>1, <1>5, <1>6

(***************************************************************************)
(* The files on the disk, and a handle in one of them.                     *)
(***************************************************************************)
Starts == [f \in Existing |-> dir[f].start_cluster]
Counts == [f \in Existing |-> ClustersFor(dir[f].file_size)]

Tables ==
  /\ Tidy(next, Existing, Starts, Counts)
  /\ \A f \in Existing : dir[f] \in [start_cluster : Clusters \cup {0}, file_size : 0 .. MaxSize]
  /\ Existing \subseteq Files

(* What a write to f has to keep.                                          *)
Rest(f) ==
  [table |-> next, others |-> Others(next, Existing, Starts, Counts, f), file |-> f, least |-> Counts[f]]

LEMMA RestIs ==
  ASSUME disk \in Disks, Tables, NEW f \in Existing
  PROVE  /\ \A c \in Rest(f).others : c \in Clusters /\ next[c] # 0
         /\ Own(next, Starts[f], Counts[f]) \cap Rest(f).others = {}
         /\ \A c \in Clusters : next[c] # 0 => c \in Own(next, Starts[f], Counts[f]) \cup Rest(f).others
         /\ Rest(f).least = Counts[f] /\ Counts[f] \in Nat /\ ChainOf(next, Starts[f], Counts[f])
         /\ next \in Table /\ Rest(f).table = next /\ Rest(f).file = f
<1>1. /\ next \in Table /\ \A g \in Existing : Counts[g] \in Nat /\ ChainOf(next, Starts[g], Counts[g])
      /\ \A g, h \in Existing : g # h => Own(next, Starts[g], Counts[g]) \cap Own(next, Starts[h], Counts[h]) = {}
      /\ \A c \in Clusters : next[c] # 0 => \E g \in Existing : c \in Own(next, Starts[g], Counts[g])
  BY DEF Tables, Tidy
<1>2. Rest(f).others = UNION {Own(next, Starts[g], Counts[g]) : g \in Existing \ {f}}
  BY DEF Rest, Others
<1>3. ASSUME NEW c \in Rest(f).others PROVE c \in Clusters /\ next[c] # 0 /\ c \notin Own(next, Starts[f], Counts[f])
  <2>1. PICK g \in Existing \ {f} : c \in Own(next, Starts[g], Counts[g])
    BY <1>2
  <2>2. PICK s, m : s = Starts[g] /\ m = Counts[g]
    OBVIOUS
  <2>3. m \in Nat /\ ChainOf(next, s, m) /\ c \in Own(next, s, m)
    BY <1>1, <2>1, <2>2
  <2>4. PICK i \in 0 .. m - 1 : c = Nth(next, s, i)
    BY <2>3 DEF Own
  <2>5. c \in Clusters /\ next[c] = Nth(next, s, i + 1)
    BY <2>3, <2>4, ChainLinks
  <2>6. Nth(next, s, i + 1) # 0
    <3>1. CASE i = m - 1
      BY <2>3, <2>4, <3>1, ChainLinks, ClustersAre
    <3>2. CASE i # m - 1
      <4>1. i + 1 \in 0 .. m - 1
        BY <2>3, <3>2
      <4> QED
        BY <2>3, <4>1, ClustersAre DEF ChainOf
    <3> QED
      BY <3>1, <3>2
  <2> QED
    BY <1>1, <2>1, <2>5, <2>6
<1>4. ASSUME NEW c \in Clusters, next[c] # 0 PROVE c \in Own(next, Starts[f], Counts[f]) \cup Rest(f).others
  BY <1>1, <1>2, <1>4
<1>5. Rest(f).least = Counts[f] /\ Rest(f).table = next /\ Rest(f).file = f
  BY DEF Rest
<1> QED
  BY <1>1, <1>3, <1>4, <1>5

(* The sector a handle that is in order is in.                             *)
Place(p, z) == IF p <= z THEN Sector(p, z) ELSE z \div SectorSize
Here(t, h, q) ==
  /\ h.currentCluster = Nth(t, h.startcluster, q \div sectors_per_cluster)
  /\ h.sectorUpto = q % sectors_per_cluster
  /\ h.sectorStart = SectorStart(h.currentCluster)

LEMMA PlaceIs ==
  ASSUME disk \in Disks, NEW p \in Nat, NEW z \in Nat \ {0}, p > z => ~ Full(z), NEW q, q = Place(p, z)
  PROVE  q \in Nat /\ q * SectorSize < z /\ q \div sectors_per_cluster < ClustersFor(z)
         /\ Reaching(z, q) = ClustersFor(z)
<1>1. SectorSize \in Nat \ {0}
  BY DiskIs
<1>2. q \in Nat /\ q * SectorSize < z
  <2>1. CASE p <= z
    <3> DEFINE h == [currpos |-> p, fileSize |-> z]
    <3>1. PICK used : used = Used(h)
      OBVIOUS
    <3>2. h.currpos = p /\ h.fileSize = z /\ q = Sector(p, z)
      BY <2>1 DEF Place
    <3> HIDE DEF h
    <3>3. /\ q \in Nat /\ used \in 0 .. SectorSize /\ q * SectorSize + used = p
          /\ used = SectorSize <=> (p = z /\ Full(p) /\ p # 0)
      BY <3>1, <3>2, UsedIs
    <3>4. used = 0 => p < z
      <4>1. ASSUME used = 0, p = z PROVE FALSE
        <5>1. p = SectorSize * q + 0 /\ 0 \in 0 .. SectorSize - 1
          BY <1>1, <3>3, <4>1
        <5>2. p % SectorSize = 0
          BY <1>1, <3>3, <5>1, DivModIs
        <5> QED
          BY <1>1, <3>3, <4>1, <5>2 DEF Full
      <4> QED
        BY <2>1, <4>1
    <3>5. q * SectorSize \in Nat
      BY <1>1, <3>3
    <3> QED
      BY <1>1, <2>1, <3>3, <3>4, <3>5
  <2>2. CASE p > z
    <3>1. q = z \div SectorSize /\ z % SectorSize # 0
      BY <2>2 DEF Place, Full
    <3>2. PICK o : o = z % SectorSize
      OBVIOUS
    <3>3. q \in Nat /\ o \in 0 .. SectorSize - 1 /\ z = SectorSize * q + o /\ o # 0
      BY <1>1, <3>1, <3>2, DivModNat
    <3>4. q * SectorSize = SectorSize * q /\ q * SectorSize \in Nat
      BY <1>1, <3>3
    <3> QED
      BY <1>1, <3>3, <3>4
  <2> QED
    BY <2>1, <2>2
<1> QED
  BY <1>2, ReachingIs

(* A handle of f, as the entry says.                                       *)
Follows(h, f) ==
  /\ h \in Handle /\ h.file = f /\ h.fileSize = dir[f].file_size
  /\ dir[f].start_cluster = IF Allocates(h) THEN 0 ELSE h.startcluster

LEMMA FollowsIs ==
  ASSUME disk \in Disks, Tables, NEW f \in Existing, NEW h, Follows(h, f)
  PROVE  /\ Allocates(h) => Counts[f] = 0 /\ h.fileSize = 0
         /\ ~ Allocates(h) => /\ h.startcluster = Starts[f] /\ h.startcluster \in Clusters
                              /\ Counts[f] \in Nat \ {0} /\ h.fileSize \in Nat \ {0}
         /\ Counts[f] = ClustersFor(h.fileSize) /\ h.fileSize \in 0 .. MaxSize
<1>1. /\ Starts[f] = dir[f].start_cluster /\ Counts[f] = ClustersFor(h.fileSize)
      /\ Starts[f] \in Clusters \cup {0} /\ h.fileSize \in 0 .. MaxSize
      /\ Counts[f] \in Nat /\ ChainOf(next, Starts[f], Counts[f])
  BY RestIs DEF Follows, Tables, Starts, Counts
<1>2. h.fileSize \in Nat
  BY DEF Follows, Handle
<1>3. /\ h.fileSize = 0 => Counts[f] = 0
      /\ h.fileSize > 0 => Counts[f] \in Nat \ {0}
  <2>1. /\ h.fileSize > 0 => /\ (h.fileSize - 1) \div SectorSize \in Nat
                             /\ Counts[f] = (((h.fileSize - 1) \div SectorSize) \div sectors_per_cluster) + 1
        /\ h.fileSize = 0 => Counts[f] = 0
    BY <1>1, <1>2, SizeInClusters
  <2>2. h.fileSize > 0 => ((h.fileSize - 1) \div SectorSize) \div sectors_per_cluster \in Nat
    BY <2>1, Index
  <2> QED
    BY <2>1, <2>2
<1>4. CASE Allocates(h)
  <2>1. Starts[f] = 0
    BY <1>1, <1>4 DEF Follows
  <2>2. Counts[f] = 0
    <3>1. ASSUME Counts[f] # 0 PROVE FALSE
      <4>1. Nth(next, Starts[f], 0) = Starts[f]
        BY NthSteps
      <4>2. 0 \in 0 .. Counts[f] - 1
        BY <1>1, <3>1
      <4> QED
        BY <1>1, <2>1, <4>1, <4>2, ClustersAre DEF ChainOf
    <3> QED
      BY <3>1
  <2> QED
    BY <1>1, <1>2, <1>3, <1>4, <2>2
<1>5. CASE ~ Allocates(h)
  <2>1. h.startcluster = Starts[f] /\ h.startcluster \notin {0, EOC}
    BY <1>1, <1>5 DEF Follows, Allocates
  <2>2. Counts[f] # 0
    BY <1>1, <2>1 DEF ChainOf
  <2> QED
    BY <1>1, <1>2, <1>3, <1>5, <2>1, <2>2
<1> QED
  BY <1>1, <1>4, <1>5

(* The bytes of a file before a write.                                     *)
Before(h) ==
  [i \in Nat |-> IF i < h.fileSize
                 THEN <<"old", SectorAt(next, h.startcluster, i \div SectorSize), i % SectorSize>> ELSE Zero]

LEMMA BytesBefore ==
  ASSUME disk \in Disks, RootIsShort, NEW h, h.fileSize \in Nat,
         NEW m \in Nat, m >= ClustersFor(h.fileSize), ChainOf(next, h.startcluster, ClustersFor(h.fileSize)),
         NEW w, w.next = next, w.h.startcluster = h.startcluster, w.holds = [s \in Sectors |-> Old(s)]
  PROVE  Holds(w, Before(h), h.fileSize, m) /\ ZerosFrom(Before(h), h.fileSize)
<1>1. ASSUME NEW i \in Nat, i < h.fileSize
      PROVE  /\ (i \div SectorSize) \div sectors_per_cluster < m
             /\ Blk(w, i \div SectorSize)[i % SectorSize] = Before(h)[i]
  <2>1. PICK q : q = i \div SectorSize
    OBVIOUS
  <2>2. q \in Nat /\ i % SectorSize \in Offsets /\ q * SectorSize <= i /\ q * SectorSize \in Nat
    <3>1. i \div SectorSize \in Nat /\ i % SectorSize \in Offsets
      BY ByteAt, 0 \in Nat
    <3> QED
      BY <2>1, <3>1, ByteAt
  <2>3. q * SectorSize < h.fileSize
    BY <1>1, <2>2
  <2>4. q \div sectors_per_cluster < ClustersFor(h.fileSize) /\ ClustersFor(h.fileSize) \in Nat
        /\ q \div sectors_per_cluster \in Nat
    BY <2>2, <2>3, ReachingIs, SizeInClusters, Index
  <2>5. SectorAt(next, h.startcluster, q) \in Sectors
    BY <2>2, <2>4, SectorAtIs
  <2>6. Blk(w, q) = Old(SectorAt(next, h.startcluster, q))
    BY <2>5 DEF Blk
  <2>7. Before(h)[i] = <<"old", SectorAt(next, h.startcluster, q), i % SectorSize>>
    BY <1>1, <2>1 DEF Before
  <2>8. Blk(w, q)[i % SectorSize] = <<"old", SectorAt(next, h.startcluster, q), i % SectorSize>>
    BY <2>2, <2>6 DEF Old
  <2>9. q \div sectors_per_cluster < m
    BY <2>4
  <2> QED
    BY <2>1, <2>7, <2>8, <2>9
<1>2. ZerosFrom(Before(h), h.fileSize)
  BY DEF ZerosFrom, Before
<1> QED
  BY <1>1, <1>2 DEF Holds

LEMMA UnwrittenIs ==
  ASSUME NEW h \in Handle, next \in Table, cachedBuf \in {Empty, next}, NEW w, w = Unwritten(h)
  PROVE  /\ w \in Writing /\ w.h = h /\ w.next = next /\ w.cache = cachedBuf /\ ~ w.stray
         /\ w.monitor = "no" /\ w.holds = [s \in Sectors |-> Old(s)]
<1>1. <<"unknown">> \in Byte
  BY DEF Byte
<1>2. Unknown \in Block
  BY <1>1 DEF Unknown, Block
<1>3. ASSUME NEW s \in Sectors PROVE Old(s) \in Block
  <2>1. \A o \in Offsets : <<"old", s, o>> \in Byte
    BY DEF Byte
  <2> QED
    BY <2>1 DEF Old, Block
<1>4. PICK b, l : b = Unknown /\ l = [s \in Sectors |-> Old(s)]
  OBVIOUS
<1>5. b \in Block /\ l \in [Sectors -> Block]
  BY <1>2, <1>3, <1>4
<1>6. w = [h |-> h, next |-> next, cache |-> cachedBuf, currcluster |-> 0, bbuf |-> b,
           holds |-> l, stray |-> FALSE, monitor |-> "no"]
  BY <1>4 DEF Unwritten
<1>7. w \in Writing
  BY <1>5, <1>6 DEF Writing, LinkSet
<1> QED
  BY <1>4, <1>6, <1>7

(* A handle from which a write may start.                                  *)
Placed(h) ==
  h.fileSize > 0 =>
    /\ Here(next, h, Place(h.currpos, h.fileSize))
    /\ h.currpos > h.fileSize => ~ Full(h.fileSize)

LEMMA FirstClusterDoes ==
  ASSUME disk \in Disks, RootIsShort, Tables, NEW f \in Existing, NEW h, Follows(h, f), Placed(h),
         h.currpos \in Nat, cachedBuf \in {Empty, next}, ~ NoRoom(h),
         NEW v, v = FirstCluster(Unwritten(h))
  PROVE  /\ Begun(v, Rest(f), Before(h), h.currpos, h.fileSize)
         /\ v.h.nextCluster = h.nextCluster
<1>0. PICK x, w, z, p : x = Rest(f) /\ w = Unwritten(h) /\ z = h.fileSize /\ p = h.currpos
  OBVIOUS
<1>1. /\ \A c \in x.others : c \in Clusters /\ next[c] # 0
      /\ Own(next, Starts[f], Counts[f]) \cap x.others = {}
      /\ \A c \in Clusters : next[c] # 0 => c \in Own(next, Starts[f], Counts[f]) \cup x.others
      /\ x.least = Counts[f] /\ Counts[f] \in Nat /\ ChainOf(next, Starts[f], Counts[f])
      /\ next \in Table /\ x.table = next /\ x.file = f
  BY <1>0, RestIs
<1>2. /\ w \in Writing /\ w.h = h /\ w.next = next /\ w.cache = cachedBuf /\ ~ w.stray
      /\ w.monitor = "no" /\ w.holds = [s \in Sectors |-> Old(s)]
  BY <1>0, <1>1, UnwrittenIs DEF Follows
<1>3. h \in Handle /\ h.file = f /\ z \in Nat /\ p \in Nat
  BY <1>0 DEF Follows, Handle
<1>4. /\ Allocates(h) => Counts[f] = 0 /\ z = 0
      /\ ~ Allocates(h) => /\ h.startcluster = Starts[f] /\ h.startcluster \in Clusters
                           /\ Counts[f] \in Nat \ {0} /\ z \in Nat \ {0}
      /\ Counts[f] = ClustersFor(z)
  BY <1>0, FollowsIs
<1>5. CASE Allocates(h)
  <2>1. PICK c : c = fatFindFreeCluster(next)
    OBVIOUS
  <2>2. c \in Clusters /\ next[c] = 0
    BY <1>1, <1>5, <2>1, FreeCluster DEF NoRoom
  <2>3. PICK t : t = [next EXCEPT ![c] = EOC]
    OBVIOUS
  <2>4. t \in Table
    BY <1>1, <2>2, <2>3 DEF Table, LinkSet
  <2> DEFINE g == [h EXCEPT !.startcluster = c]
             y == fatMarkCluster([w EXCEPT !.h.startcluster = c], c)
  <2>5. g \in Handle /\ g.startcluster = c /\ g.file = h.file /\ g.fileSize = z /\ g.currpos = p
        /\ g.nextCluster = h.nextCluster
    BY <1>0, <1>3, <2>2 DEF Handle, LinkSet
  <2>6. y = [[[w EXCEPT !.h = g] EXCEPT !.cache = Empty] EXCEPT !.next = t]
    <3>1. [w EXCEPT !.h.startcluster = c] = [w EXCEPT !.h = g]
      BY <1>2
    <3> HIDE DEF g
    <3>2. PICK u : u = [w EXCEPT !.h = g]
      OBVIOUS
    <3>3. u.next = next /\ u \in Writing
      BY <1>2, <2>5, <3>2 DEF Writing
    <3>4. y = [[u EXCEPT !.cache = Empty] EXCEPT !.next[c] = EOC]
      BY <3>1, <3>2 DEF fatMarkCluster, Uncached
    <3>5. y = [[u EXCEPT !.cache = Empty] EXCEPT !.next = t]
      BY <2>3, <3>3, <3>4 DEF Writing
    <3> QED
      BY <3>2, <3>5
  <2> HIDE DEF g, y
  <2>7. /\ y \in Writing /\ y.next = t /\ y.cache = Empty /\ y.h = g /\ y.holds = w.holds
        /\ y.stray = w.stray /\ y.monitor = w.monitor
    BY <1>2, <2>4, <2>5, <2>6 DEF Writing
  <2>8. v = Enter(y, c)
    BY <1>0, <1>2, <1>5, <2>1 DEF FirstCluster, y
  <2>9. /\ v \in Writing /\ v.h.sectorUpto = 0
        /\ v.currcluster = c /\ v.h.currentCluster = c /\ v.h.sectorStart = SectorStart(c)
        /\ SameDisk(y, v) /\ SameHolds(y, v) /\ SameFile(y, v) /\ SameSize(y, v)
        /\ v.monitor = y.monitor
    BY <2>2, <2>7, <2>8, EnterIs DEF LinkSet
  <2>10. /\ v.next = t /\ v.cache = Empty /\ v.holds = [s \in Sectors |-> Old(s)] /\ ~ v.stray
         /\ v.monitor = "no" /\ v.h.startcluster = c /\ v.h.file = f /\ v.h.fileSize = z /\ v.h.currpos = p
         /\ v.h.nextCluster = h.nextCluster
    BY <1>2, <1>3, <2>5, <2>7, <2>9 DEF SameDisk, SameHolds, SameFile, SameSize
  <2>11. ChainOf(t, c, 1) /\ Own(t, c, 1) = {c}
    BY <1>1, <2>2, <2>3, ChainFirst
  <2>12. \A d \in Clusters : t[d] = IF d = c THEN EOC ELSE next[d]
    BY <1>1, <2>3 DEF Table
  <2>13. c \notin x.others /\ Own(next, Starts[f], Counts[f]) = {}
    BY <1>1, <1>4, <1>5, <2>2 DEF Own
  <2>14. Disk(v, x, 1)
    <3>1. SameOn(x.table, v.next, x.others)
      BY <1>1, <2>10, <2>12, <2>13 DEF SameOn
    <3>2. \A d \in Clusters : v.next[d] # 0 => d \in {c} \cup x.others
      BY <1>1, <2>10, <2>12, <2>13
    <3>3. \A d \in x.others : d \in Clusters /\ v.next[d] # 0
      BY <1>1, <2>10, <2>12, <2>13
    <3>4. 1 \in Nat \ {0} /\ x.least \in Nat /\ 1 >= x.least
      BY <1>1, <1>4, <1>5
    <3> QED
      BY <1>1, <2>9, <2>10, <2>11, <2>13, <3>1, <3>2, <3>3, <3>4 DEF Disk
  <2>15. 0 \div sectors_per_cluster = 0 /\ 0 % sectors_per_cluster = 0
    <3>1. PICK n : n = sectors_per_cluster
      OBVIOUS
    <3>2. n \in Nat \ {0} /\ 0 = n * 0 + 0 /\ 0 \in 0 .. n - 1 /\ 0 \in Int
      BY <3>1, DiskIs
    <3>3. 0 \div n = 0 /\ 0 % n = 0
      BY ONLY <3>2, DivModIs
    <3> QED
      BY <3>1, <3>3
  <2>16. ClustersFor(0) = 0 /\ Reaching(0, 0) = 1
    BY <2>15, SizeInClusters DEF Reaching
  <2>17. At(v, 0)
    <3>1. Nth(t, c, 0) = c
      BY NthSteps
    <3> QED
      BY <2>9, <2>10, <2>15, <3>1 DEF At
  <2>18. Stands(v, x, 0, 1)
    BY <2>10, <2>14, <2>15, <2>17 DEF Stands
  <2>19. Going(v, x, 0, Before(h), 0)
    <3>1. \A i \in Nat : ~ (i < 0)
      OBVIOUS
    <3> QED
      BY <1>4, <1>5, <2>10, <2>16, <2>18, <3>1 DEF Going, Holds
  <2>20. ZerosFrom(Before(h), 0)
    BY <1>0, <1>4, <1>5 DEF ZerosFrom, Before
  <2>21. 0 \div SectorSize = 0
    <3>1. PICK n : n = SectorSize
      OBVIOUS
    <3>2. n \in Nat \ {0} /\ 0 = n * 0 + 0 /\ 0 \in 0 .. n - 1 /\ 0 \in Int
      BY <3>1, DiskIs
    <3>3. 0 \div n = 0
      BY ONLY <3>2, DivModIs
    <3> QED
      BY <3>1, <3>3
  <2>22. p <= 0 => p = 0 /\ Sector(p, 0) = 0
    BY <1>3, <2>21 DEF Sector
  <2>23. Begun(v, x, Before(h), p, z)
    BY <1>3, <1>4, <1>5, <2>10, <2>19, <2>20, <2>21, <2>22 DEF Begun
  <2> QED
    BY <1>0, <2>10, <2>23
<1>6. CASE ~ Allocates(h)
  <2>1. v = [w EXCEPT !.currcluster = h.currentCluster]
    BY <1>0, <1>2, <1>6 DEF FirstCluster
  <2>2. h.currentCluster \in LinkSet
    BY <1>3 DEF Handle
  <2>3. /\ v \in Writing /\ v.h = h /\ v.next = next /\ v.cache = cachedBuf /\ ~ v.stray
        /\ v.monitor = "no" /\ v.holds = [s \in Sectors |-> Old(s)] /\ v.currcluster = h.currentCluster
    BY <1>2, <2>1, <2>2 DEF Writing
  <2>4. PICK m, s, q : m = Counts[f] /\ s = h.startcluster /\ q = Place(p, z)
    OBVIOUS
  <2>5. m \in Nat \ {0} /\ z \in Nat \ {0} /\ s = Starts[f] /\ ChainOf(next, s, m) /\ m = ClustersFor(z)
    BY <1>1, <1>4, <1>6, <2>4
  <2>6. Disk(v, x, m)
    <3>1. SameOn(x.table, v.next, x.others)
      BY <1>1, <2>3 DEF SameOn
    <3>2. Own(v.next, v.h.startcluster, m) = Own(next, Starts[f], Counts[f])
      BY <2>3, <2>4, <2>5
    <3>3. m >= x.least /\ x.least \in Nat
      BY <1>1, <2>4
    <3>4. ChainOf(v.next, v.h.startcluster, m) /\ v.h.file = x.file
      BY <1>1, <1>3, <2>3, <2>4, <2>5
    <3> QED
      BY <1>1, <2>3, <2>5, <3>1, <3>2, <3>3, <3>4 DEF Disk
  <2>7. z > 0 /\ Here(next, h, q) /\ (p > z => ~ Full(z))
    BY <1>0, <2>4, <2>5 DEF Placed
  <2>8. q \in Nat /\ q \div sectors_per_cluster < m /\ Reaching(z, q) = m
    BY <1>3, <2>4, <2>5, <2>7, PlaceIs
  <2>9. At(v, q)
    BY <2>3, <2>7 DEF At, Here
  <2>10. Stands(v, x, q, m)
    BY <2>3, <2>6, <2>8, <2>9 DEF Stands
  <2>11. Holds(v, Before(h), z, m) /\ ZerosFrom(Before(h), z)
    <3>1. m \in Nat /\ m >= ClustersFor(h.fileSize) /\ ChainOf(next, h.startcluster, ClustersFor(h.fileSize))
      BY <1>0, <2>4, <2>5
    <3> QED
      BY <1>0, <1>3, <2>3, <3>1, BytesBefore
  <2>12. Going(v, x, q, Before(h), z)
    BY <1>0, <2>3, <2>8, <2>10, <2>11 DEF Going
  <2>13. Begun(v, x, Before(h), p, z)
    BY <1>0, <1>3, <2>3, <2>4, <2>7, <2>11, <2>12 DEF Begun, Place
  <2> QED
    BY <1>0, <2>3, <2>13
<1> QED
  BY <1>5, <1>6

LEMMA StuckPut ==
  ASSUME disk \in Disks, NEW w, NEW x, Stuck(w, x), NEW n \in Nat
  PROVE  Stuck(Put(w, n), x)
<1>0. PICK used, rem : used = Used(w.h) /\ rem = SectorSize - used
  OBVIOUS
<1>1. SectorSize \in Nat \ {0} /\ 0 \in Int
  BY DiskIs
<1>2. used \in Int /\ rem \in Int
  <2>1. w.h.currpos \in Int
    <3>1. w \in Writing
      BY StuckIs
    <3> QED
      BY <3>1 DEF Writing, Handle
  <2>2. PICK p : p = w.h.currpos
    OBVIOUS
  <2>3. p % SectorSize \in Int
    BY <1>1, <2>1, <2>2, DivMod
  <2>4. used \in {SectorSize, p % SectorSize}
    BY <1>0, <2>2 DEF Used
  <2> QED
    BY <1>0, <1>1, <2>3, <2>4
<1>3. PICK b : b = ReadBefore(w, used)
  OBVIOUS
<1>4. Stuck(b, x)
  BY <1>3, StuckSteps DEF ReadBefore
<1>5. CASE n <= rem
  <2>1. PICK u : u = Filled(b, used, n, 0)
    OBVIOUS
  <2>2. Stuck(u, x)
    BY <1>1, <1>2, <1>4, <2>1, StuckFills
  <2>3. fatWriteLogical(u) = u /\ Stuck(Advanced(u, n), x)
    BY <1>1, <2>2, StuckSteps, StuckFills
  <2>4. Put(w, n) = PutWithin(b, used, n)
    BY <1>0, <1>3, <1>5 DEF Put
  <2> QED
    BY <2>1, <2>3, <2>4 DEF PutWithin
<1>6. CASE ~ (n <= rem)
  <2>1. PICK y, k : y = n - rem - 1 /\ k = y \div SectorSize
    OBVIOUS
  <2>2. y \in Nat
    BY <1>2, <1>6, <2>1
  <2>3. k \in Nat /\ k * SectorSize \in Int /\ k * SectorSize = SectorSize * k
    <3>1. k \in Nat
      BY <1>1, <2>1, <2>2, DivModNat
    <3> QED
      BY <1>1, <3>1
  <2>4. PICK done, a, tsz : done = rem + k * SectorSize /\ a = done - rem /\ tsz = n - done
    OBVIOUS
  <2>5. a = SectorSize * k + 0 /\ a \in Int /\ done \in Int /\ tsz \in Int
    BY <1>1, <1>2, <2>3, <2>4
  <2>6. a \div SectorSize = k
    <3>1. k \in Int /\ 0 \in 0 .. SectorSize - 1
      BY <1>1, <2>3
    <3> QED
      BY <1>1, <2>5, <3>1, DivModIs
  <2>7. PICK A : PutRun(w, used, rem, k, A) /\ Put(w, n) = PutEnds(PutLast(A[k], tsz, done), tsz)
    BY <1>0, <1>6, <2>1, <2>3, <2>4, <2>6, PutIs
  <2>8. /\ A[0] = PutFirst(b, used, rem)
        /\ \A i \in 0 .. k - 1 : A[i + 1] = PutSector(A[i], rem + i * SectorSize)
    BY <1>3, <2>3, <2>7, PutRunSteps
  <2> DEFINE S == {i \in Nat : i <= k => Stuck(A[i], x)}
  <2>9. 0 \in S
    <3>1. PICK u : u = Filled(b, used, rem, 0)
      OBVIOUS
    <3>2. Stuck(u, x)
      BY <1>1, <1>2, <1>4, <3>1, StuckFills
    <3>3. fatWriteLogical(u) = u
      BY <3>2, StuckSteps
    <3>4. PICK c : c = Advanced(IF rem = 0 THEN b ELSE fatWriteLogical(u), rem)
      OBVIOUS
    <3>5. Stuck(c, x)
      <4>1. Stuck(Advanced(b, rem), x) /\ Stuck(Advanced(u, rem), x)
        BY <1>1, <1>2, <1>4, <3>2, StuckFills
      <4> QED
        BY <3>3, <3>4, <4>1
    <3>6. A[0] = Onwards(NextSector(c))
      BY <2>8, <3>1, <3>4 DEF PutFirst
    <3> QED
      BY <3>5, <3>6, StuckOnwards
  <2>10. ASSUME NEW j \in Nat, j \in S PROVE j + 1 \in S
    <3> SUFFICES ASSUME j + 1 <= k PROVE Stuck(A[j + 1], x)
      OBVIOUS
    <3>1. j \in 0 .. k - 1 /\ Stuck(A[j], x)
      BY <2>3, <2>10
    <3>2. PICK c, g : c = A[j] /\ g = rem + j * SectorSize
      OBVIOUS
    <3>3. g \in Int
      <4>1. j * SectorSize \in Nat
        BY <1>1
      <4> QED
        BY <1>2, <3>2, <4>1
    <3>4. A[j + 1] = PutSector(c, g)
      BY <2>8, <3>1, <3>2
    <3> QED
      BY <1>1, <3>1, <3>2, <3>3, <3>4, StuckPuts
  <2> HIDE DEF S
  <2>11. k \in S
    BY <2>3, <2>9, <2>10, SetInduction
  <2>12. PICK c, d : c = A[k] /\ d = PutLast(c, tsz, done)
    OBVIOUS
  <2>13. Stuck(c, x)
    BY <2>3, <2>11, <2>12 DEF S
  <2>14. Stuck(d, x)
    BY <2>5, <2>12, <2>13, StuckPuts
  <2>15. Stuck(PutEnds(d, tsz), x)
    BY <1>1, <2>5, <2>14, StuckPuts
  <2> QED
    BY <2>7, <2>12, <2>15
<1> QED
  BY <1>5, <1>6

(* The size after the write of n bytes, and the sector it ends in.         *)
EndOf(h, n) == Later(h.fileSize, h.currpos + n)
LandsIn(h, n) ==
  IF DidWrite(h, n) = "filled" THEN ((h.currpos + n) \div SectorSize) - 1
  ELSE Sector(h.currpos + n, EndOf(h, n))

LEMMA LandsIs ==
  ASSUME disk \in Disks, NEW h, NEW p, NEW z, p = h.currpos, z = h.fileSize, p \in Nat, z \in Nat,
         NEW n \in Nat \ {0}, NEW z1, z1 = Later(z, p), NEW g, g.currpos = p, g.fileSize = z1,
         NEW r, r = EndSector(p, n, z1, SectorSize - Used(g))
  PROVE  /\ r = LandsIn(h, n) /\ r \in Nat /\ EndOf(h, n) \in Nat
         /\ r * SectorSize < EndOf(h, n)
         /\ Reaching(z1, r) = ClustersFor(EndOf(h, n))
<1>1. PICK p2, z2, rem, used : p2 = p + n /\ z2 = EndOf(h, n) /\ used = Used(g) /\ rem = SectorSize - used
  OBVIOUS
<1>2. SectorSize \in Nat \ {0} /\ p2 \in Nat \ {0} /\ p < p2
  BY <1>1, DiskIs
<1>3. z2 = Later(z, p2) /\ z2 \in Nat /\ z1 \in Nat /\ z1 <= z2 /\ (z1 # z2 => z2 = p2)
      /\ (p2 < z1 => z1 = z /\ z2 = z) /\ (p2 >= z1 => z2 = p2) /\ p2 <= z2
  BY <1>1, <1>2 DEF Later, EndOf
<1>4. used = IF p % SectorSize = 0 /\ p = z1 /\ p # 0 THEN SectorSize ELSE p % SectorSize
  BY <1>1 DEF Used
<1>5. PICK q, o : q = p2 \div SectorSize /\ o = p2 % SectorSize
  OBVIOUS
<1>6. q \in Nat /\ o \in 0 .. SectorSize - 1 /\ p2 = SectorSize * q + o
  BY <1>2, <1>5, DivModNat
<1>7. SectorSize * q = q * SectorSize /\ q * SectorSize \in Nat
      /\ (q + 1) * SectorSize = q * SectorSize + SectorSize
      /\ (q - 1) * SectorSize = q * SectorSize - SectorSize
  BY <1>2, <1>6
<1>8. o = 0 => q # 0
  BY <1>2, <1>6, <1>7
<1>9. r = IF o = 0 /\ (p2 >= z1 \/ n <= rem) THEN q - 1 ELSE q
  BY <1>1, <1>5 DEF EndSector, Full
<1>10. DidWrite(h, n) = "filled" <=> (p2 < z /\ o = 0 /\ n <= SectorSize - (p % SectorSize))
  BY <1>1, <1>5 DEF DidWrite, FullSectors
<1>11. LandsIn(h, n) = IF p2 < z /\ o = 0 /\ n <= SectorSize - (p % SectorSize) THEN q - 1
                       ELSE IF p2 = z2 /\ o = 0 THEN q - 1 ELSE q
  BY <1>1, <1>2, <1>5, <1>10 DEF LandsIn, Sector, Full
<1>12. p2 < z1 => used = p % SectorSize
  BY <1>2, <1>4
<1>13. r = LandsIn(h, n)
  <2>1. CASE p2 < z1
    <3>1. z1 = z /\ z2 = z /\ rem = SectorSize - (p % SectorSize) /\ ~ (p2 >= z1) /\ p2 # z2
      BY <1>1, <1>2, <1>3, <1>12, <2>1
    <3> QED
      BY <1>9, <1>11, <2>1, <3>1
  <2>2. CASE ~ (p2 < z1)
    <3>1. p2 >= z1 /\ z2 = p2 /\ ~ (p2 < z)
      BY <1>2, <1>3, <2>2 DEF Later
    <3> QED
      BY <1>9, <1>11, <3>1
  <2> QED
    BY <2>1, <2>2
<1>14. r \in Nat /\ r * SectorSize < z2 /\ (z1 # z2 => z2 <= (r + 1) * SectorSize)
  <2>1. CASE o = 0 /\ (p2 >= z1 \/ n <= rem)
    <3>1. r = q - 1 /\ q - 1 \in Nat
      BY <1>6, <1>8, <1>9, <2>1
    <3>2. r * SectorSize = q * SectorSize - SectorSize /\ (r + 1) * SectorSize = q * SectorSize
      BY <1>2, <1>6, <1>7, <3>1
    <3> QED
      BY <1>2, <1>3, <1>6, <1>7, <2>1, <3>1, <3>2
  <2>2. CASE ~ (o = 0 /\ (p2 >= z1 \/ n <= rem))
    <3>1. r = q /\ (o = 0 => p2 < z1)
      BY <1>2, <1>3, <1>9, <2>2
    <3> QED
      BY <1>2, <1>3, <1>6, <1>7, <3>1
  <2> QED
    BY <2>1, <2>2
<1>15. Reaching(z1, r) = ClustersFor(z2)
  <2>1. Reaching(z2, r) = ClustersFor(z2)
    BY <1>3, <1>14, ReachingIs
  <2>2. CASE z1 = z2
    BY <2>1, <2>2
  <2>3. CASE z1 # z2
    <3>1. (r + 1) * SectorSize \in Nat
      BY <1>2, <1>14
    <3>2. z2 <= (r + 1) * SectorSize /\ z1 <= (r + 1) * SectorSize
      BY <1>3, <1>14, <2>3, <3>1
    <3>3. Reaching(z1, r) = (r \div sectors_per_cluster) + 1
      BY <1>3, <1>14, <3>2, ReachingIs
    <3>4. Reaching(z2, r) = (r \div sectors_per_cluster) + 1
      BY <1>3, <1>14, <3>2, ReachingIs
    <3> QED
      BY <2>1, <3>3, <3>4
  <2> QED
    BY <2>2, <2>3
<1> QED
  BY <1>1, <1>3, <1>13, <1>14, <1>15

LEMMA DroppedCache ==
  ASSUME NEW w, NEW x, NEW q, NEW m, Stands(w, x, q, m), NEW v, v = Uncached(w)
  PROVE  Stands(v, x, q, m) /\ v.h = w.h /\ KeepsBlocks(w, v, m)
<1>1. w \in Writing /\ Disk(w, x, m)
  BY DEF Stands, Disk
<1>2. /\ v \in Writing /\ v.h = w.h /\ v.next = w.next /\ v.cache = Empty /\ v.currcluster = w.currcluster
      /\ v.holds = w.holds /\ v.stray = w.stray /\ v.monitor = w.monitor
  BY <1>1 DEF Uncached, Writing
<1>3. Disk(v, x, m)
  BY <1>1, <1>2 DEF Disk
<1>4. Stands(v, x, q, m)
  BY <1>2, <1>3 DEF Stands, At
<1> QED
  BY <1>2, <1>4 DEF KeepsBlocks, Blk

(* A write of n bytes that was not stopped.                                *)
Written(v, x, h, n) ==
  /\ v.h.nextCluster = 0 /\ v.h.fileSize = EndOf(h, n) /\ v.h.currpos = h.currpos + n
  /\ Stands(v, x, LandsIn(h, n), ClustersFor(EndOf(h, n)))
  /\ Holds(v, PutTo(Before(h), h.currpos, n), EndOf(h, n), ClustersFor(EndOf(h, n)))

(* All but the last of it has been done.                                   *)
Ending(w, x, h, n, G) ==
  /\ Going(w, x, LandsIn(h, n), G, EndOf(h, n))
  /\ Reaching(w.h.fileSize, LandsIn(h, n)) = ClustersFor(EndOf(h, n))
  /\ w.h.currpos = h.currpos + n /\ w.h.fileSize = Later(h.fileSize, h.currpos) /\ w.h.nextCluster = 0

LEMMA FinishedDoes ==
  ASSUME disk \in Disks, NEW h, h.currpos \in Nat, h.fileSize \in Nat, NEW n \in Nat \ {0},
         NEW w, NEW x, NEW G, Ending(w, x, h, n, G), NEW v, v = Finished(w)
  PROVE  /\ v.h.nextCluster = 0 /\ v.h.fileSize = EndOf(h, n) /\ v.h.currpos = h.currpos + n
         /\ Stands(v, x, LandsIn(h, n), ClustersFor(EndOf(h, n)))
         /\ Holds(v, G, EndOf(h, n), ClustersFor(EndOf(h, n)))
<1>0. PICK p, z, z1, r : p = h.currpos /\ z = h.fileSize /\ z1 = Later(z, p) /\ r = LandsIn(h, n)
  OBVIOUS
<1>1. PICK p2, z2, m : p2 = p + n /\ z2 = EndOf(h, n) /\ m = ClustersFor(z2)
  OBVIOUS
<1>2. z2 = Later(z1, p2) /\ p2 \in Nat /\ z1 \in Nat /\ z2 \in Nat
  BY <1>0, <1>1 DEF Later, EndOf
<1>3. Stands(w, x, r, m) /\ Holds(w, G, z2, m) /\ w.monitor = "no" /\ w \in Writing /\ m \in Nat
  <2>2. Reaching(w.h.fileSize, r) = m
    BY <1>0, <1>1 DEF Ending
  <2>3. Going(w, x, r, G, z2)
    BY <1>0, <1>1 DEF Ending
  <2>1. w \in Writing /\ w.monitor = "no" /\ Reaching(w.h.fileSize, r) \in Nat
    BY <2>3, GoingIs
  <2> QED
    BY <2>1, <2>2, <2>3 DEF Going
<1>4. PICK u : u = Uncached(w)
  OBVIOUS
<1>5. Stands(u, x, r, m) /\ u.h = w.h /\ KeepsBlocks(w, u, m)
  BY <1>3, <1>4, DroppedCache
<1>6. u \in Writing
  BY <1>5 DEF Stands, Disk
<1>7. v = Sized(u, z2)
  <2>1. w.h.currpos = p2 /\ w.h.fileSize = z1
    BY <1>0, <1>1 DEF Ending
  <2> QED
    BY <1>2, <1>3, <1>4, <1>5, <2>1 DEF Finished, Sized, Later
<1>8. /\ v \in Writing /\ v.h.fileSize = z2 /\ v.h.currpos = u.h.currpos
      /\ SameDisk(u, v) /\ SameHolds(u, v) /\ SameFile(u, v) /\ SamePlace(u, v) /\ v.monitor = u.monitor
  <2>1. z2 \in Nat
    BY <1>2
  <2> QED
    BY ONLY <1>6, <1>7, <2>1, SizedIs
<1>9. Stands(v, x, r, m) /\ KeepsBlocks(u, v, m)
  BY <1>5, <1>8, SameStands
<1>10. Holds(u, G, z2, m)
  BY <1>3, <1>5, HoldsKept
<1>11. Holds(v, G, z2, m)
  BY <1>3, <1>9, <1>10, HoldsKept
<1>12. v.h.nextCluster = 0 /\ v.h.currpos = p2
  BY <1>0, <1>1, <1>5, <1>8 DEF SameFile, Ending
<1> QED
  BY <1>0, <1>1, <1>8, <1>9, <1>11, <1>12

LEMMA StuckFinished ==
  ASSUME NEW w, NEW x, Stuck(w, x)
  PROVE  Finished(w) = w
BY StuckIs DEF Finished

LEMMA WriteDoes ==
  ASSUME disk \in Disks, RootIsShort, Tables, NEW f \in Existing, NEW h, Follows(h, f), Placed(h),
         h.currpos \in Nat, cachedBuf \in {Empty, next}, ~ NoRoom(h),
         NEW n \in Nat \ {0}, NEW v, v = fatWriteFile(h, n)
  PROVE  Stuck(v, Rest(f)) \/ Written(v, Rest(f), h, n)
<1>0. PICK x, z, p, g : x = Rest(f) /\ z = h.fileSize /\ p = h.currpos /\ g = [h EXCEPT !.nextCluster = 0]
  OBVIOUS
<1>1. h \in Handle /\ h.file = f /\ h.fileSize = dir[f].file_size /\ p \in Nat /\ z \in Nat
  BY <1>0 DEF Follows, Handle
<1>2. /\ g \in Handle /\ g.nextCluster = 0 /\ g.file = h.file /\ g.startcluster = h.startcluster
      /\ g.fileSize = z /\ g.currpos = p /\ g.currentCluster = h.currentCluster
      /\ g.sectorStart = h.sectorStart /\ g.sectorUpto = h.sectorUpto
  BY <1>0, <1>1 DEF Handle, LinkSet
<1>3. Follows(g, f) /\ Placed(g) /\ ~ NoRoom(g) /\ Before(g) = Before(h)
  <2>1. Allocates(g) <=> Allocates(h)
    BY <1>2 DEF Allocates
  <2>2. Follows(g, f)
    BY <1>0, <1>1, <1>2, <2>1 DEF Follows
  <2>3. Placed(g)
    BY <1>0, <1>2 DEF Placed, Here
  <2>4. ~ NoRoom(g)
    BY <2>1 DEF NoRoom
  <2>5. Before(g) = Before(h)
    BY <1>0, <1>2 DEF Before
  <2> QED
    BY <2>2, <2>3, <2>4, <2>5
<1>4. PICK a, b, c, F, z1 : a = FirstCluster(Unwritten(g)) /\ b = Expanded(a) /\ c = Put(b, n)
                            /\ F = Before(h) /\ z1 = Later(z, p)
  OBVIOUS
<1>5. v = Finished(c)
  <2>1. ~ (h.currpos < 0) /\ n # 0
    BY <1>0, <1>1
  <2> QED
    BY <1>0, <1>4, <2>1 DEF fatWriteFile
<1>6. Begun(a, x, F, p, z) /\ a.h.nextCluster = 0
  <2>1. PICK w : w = Unwritten(g)
    OBVIOUS
  <2>2. g.currpos \in Nat /\ a = FirstCluster(Unwritten(g))
    BY <1>1, <1>2, <1>4
  <2>3. Begun(a, Rest(f), Before(g), g.currpos, g.fileSize) /\ a.h.nextCluster = g.nextCluster
    BY ONLY disk \in Disks, RootIsShort, Tables, f \in Existing, <1>3, <2>2, cachedBuf \in {Empty, next},
            FirstClusterDoes
  <2> QED
    BY <1>0, <1>2, <1>3, <1>4, <2>3
<1>7. Stuck(b, x) \/ (SameFile(a, b) /\ Ready(b, x, F, p, z1))
  BY <1>4, <1>6, ExpandedDoes
<1>8. CASE Stuck(b, x)
  <2>1. Stuck(c, x)
    BY <1>4, <1>8, StuckPut
  <2> QED
    BY <1>0, <1>5, <2>1, StuckFinished
<1>9. CASE SameFile(a, b) /\ Ready(b, x, F, p, z1)
  <2>1. PICK rem : rem = SectorSize - Used(b.h)
    OBVIOUS
  <2>2. PutDone(b, x, F, p, z1, n, rem, c)
    BY <1>4, <1>9, <2>1, PutDoes
  <2>3. CASE Stuck(c, x)
    BY <1>0, <1>5, <2>3, StuckFinished
  <2>4. CASE ~ Stuck(c, x)
    <3>1. PICK r, G : r = EndSector(p, n, z1, rem) /\ G = PutTo(F, p, n)
      OBVIOUS
    <3>2. Moves(b, c, p + n) /\ Going(c, x, r, G, Later(z1, p + n))
      BY <2>2, <2>4, <3>1 DEF PutDone
    <3>3. b.h.currpos = p /\ b.h.fileSize = z1
      BY <1>9 DEF Ready
    <3>4. r = LandsIn(h, n) /\ Reaching(z1, r) = ClustersFor(EndOf(h, n))
      <4>1. PICK k : k = b.h
        OBVIOUS
      <4>2. k.currpos = p /\ k.fileSize = z1 /\ r = EndSector(p, n, z1, SectorSize - Used(k))
        BY <2>1, <3>1, <3>3, <4>1
      <4> QED
        BY ONLY disk \in Disks, <1>0, <1>1, <1>4, <4>2, n \in Nat \ {0}, LandsIs
    <3>5. c.h.currpos = p + n /\ c.h.fileSize = z1 /\ c.h.nextCluster = 0
      BY <1>6, <1>9, <3>2, <3>3 DEF Moves, SameFile
    <3>6. Later(z1, p + n) = EndOf(h, n)
      BY <1>0, <1>1, <1>4 DEF Later, EndOf
    <3>7. Ending(c, x, h, n, G)
      BY <1>0, <1>4, <3>2, <3>4, <3>5, <3>6 DEF Ending
    <3>8. /\ v.h.nextCluster = 0 /\ v.h.fileSize = EndOf(h, n) /\ v.h.currpos = h.currpos + n
          /\ Stands(v, x, LandsIn(h, n), ClustersFor(EndOf(h, n)))
          /\ Holds(v, G, EndOf(h, n), ClustersFor(EndOf(h, n)))
      BY <1>0, <1>1, <1>5, <3>7, FinishedDoes
    <3> QED
      BY <1>0, <1>4, <3>1, <3>8 DEF Written
  <2> QED
    BY <2>3, <2>4
<1> QED
  BY <1>7, <1>8, <1>9

(* Where a byte of a file is.                                              *)
LEMMA WhereIs ==
  ASSUME disk \in Disks, RootIsShort, NEW t, NEW s, NEW m \in Nat, ChainOf(t, s, m),
         NEW i \in Nat, (i \div SectorSize) \div sectors_per_cluster < m
  PROVE  /\ Where(t, s, i) = <<SectorAt(t, s, i \div SectorSize), i % SectorSize>>
         /\ SectorAt(t, s, i \div SectorSize) \in Sectors /\ i % SectorSize \in Offsets
         /\ i \div SectorSize \in Nat
<1>1. PICK j, k : j = i \div SectorSize /\ k = j \div sectors_per_cluster
  OBVIOUS
<1>2. j \in Nat /\ i % SectorSize \in Offsets
  BY <1>1, ByteAt, 0 \in Nat
<1>3. SectorSize \in Nat \ {0} /\ sectors_per_cluster \in Nat \ {0}
  BY DiskIs
<1>4. InClusters(i, sectors_per_cluster, SectorSize)
  BY <1>3, SectorsInClusters
<1>5. i \div ClusterSize = k /\ (i % ClusterSize) \div SectorSize = j % sectors_per_cluster
  BY <1>1, <1>4 DEF InClusters, ClusterSize
<1>6. k < m
  BY <1>1
<1>7. Nth(t, s, k) \in Clusters /\ SectorAt(t, s, j) \in Sectors
  BY <1>1, <1>2, <1>6, SectorAtIs
<1>8. ~ fatEndCluster(Nth(t, s, k))
  BY <1>7, ClustersAre
<1>9. Where(t, s, i) = <<SectorStart(Nth(t, s, k)) + (j % sectors_per_cluster), i % SectorSize>>
  BY <1>5, <1>8 DEF Where
<1> QED
  BY <1>1, <1>2, <1>7, <1>9 DEF SectorAt

LEMMA WithinSize ==
  ASSUME disk \in Disks, NEW z \in Nat, NEW i \in Nat, i < z
  PROVE  (i \div SectorSize) \div sectors_per_cluster < ClustersFor(z)
<1>1. PICK q : q = i \div SectorSize
  OBVIOUS
<1>2. q \in Nat /\ q * SectorSize <= i /\ q * SectorSize \in Nat
  <2>1. i \div SectorSize \in Nat
    BY ByteAt, 0 \in Nat
  <2> QED
    BY <1>1, <2>1, ByteAt
<1>3. q * SectorSize < z
  BY <1>2
<1> QED
  BY <1>1, <1>2, <1>3, ReachingIs

(* Every byte as it should be.                                             *)
LEMMA WrittenRight ==
  ASSUME disk \in Disks, RootIsShort, Tables, NEW f \in Existing, NEW h, Follows(h, f),
         h.currpos \in Nat, NEW n \in Nat \ {0}, NEW v, Written(v, Rest(f), h, n)
  PROVE  PutThere(h, n, v)
<1>0. PICK x, z, p, z2, m, r, G : x = Rest(f) /\ z = h.fileSize /\ p = h.currpos /\ z2 = EndOf(h, n)
        /\ m = ClustersFor(z2) /\ r = LandsIn(h, n) /\ G = PutTo(Before(h), p, n)
  OBVIOUS
<1>1. h.file = f /\ z \in Nat /\ p \in Nat /\ z2 \in Nat /\ p + n <= z2 /\ z <= z2
      /\ z2 = (IF p + n > z THEN p + n ELSE z)
  BY <1>0 DEF Follows, Handle, EndOf, Later
<1>2. v.h.fileSize = z2 /\ v.h.currpos = p + n /\ Disk(v, x, m) /\ Holds(v, G, z2, m)
  BY <1>0 DEF Written, Stands
<1>3. m \in Nat /\ ChainOf(v.next, v.h.startcluster, m) /\ v.h.file = f
  <2>1. x.file = f
    BY <1>0, RestIs
  <2> QED
    BY <1>2, <2>1 DEF Disk
<1>4. ASSUME NEW i \in 0 .. z2 - 1
      PROVE  ByteAfter(v, f, i) = IF i \in p .. p + n - 1 THEN New(i - p)
                                  ELSE IF i < z THEN ByteBefore(f, i) ELSE Zero
  <2>1. i \in Nat /\ i < z2
    BY <1>1
  <2>2. PICK j, o : j = i \div SectorSize /\ o = i % SectorSize
    OBVIOUS
  <2>3. j \div sectors_per_cluster < m /\ Blk(v, j)[o] = G[i]
    BY <1>2, <2>1, <2>2 DEF Holds
  <2>4. /\ Where(v.next, v.h.startcluster, i) = <<SectorAt(v.next, v.h.startcluster, j), o>>
        /\ SectorAt(v.next, v.h.startcluster, j) \in Sectors
    <3>1. PICK t, s : t = v.next /\ s = v.h.startcluster
      OBVIOUS
    <3>2. ChainOf(t, s, m) /\ (i \div SectorSize) \div sectors_per_cluster < m
      BY <1>3, <2>2, <2>3, <3>1
    <3> QED
      BY <1>3, <2>1, <2>2, <3>1, <3>2, WhereIs
  <2>5. ByteAfter(v, f, i) = G[i]
    BY <1>3, <2>3, <2>4 DEF ByteAfter, Blk
  <2>6. G[i] = IF i \in p .. p + n - 1 THEN New(i - p) ELSE Before(h)[i]
    BY <1>0, <2>1 DEF PutTo
  <2>7. i >= z => Before(h)[i] = Zero
    BY <1>0, <1>1, <2>1 DEF Before
  <2>8. i < z => Before(h)[i] = ByteBefore(f, i)
    <3> SUFFICES ASSUME i < z PROVE Before(h)[i] = ByteBefore(f, i)
      OBVIOUS
    <3>1. h.startcluster = Starts[f] /\ Counts[f] = ClustersFor(z)
      BY <1>0, <1>1, <2>1, FollowsIs
    <3>2. PICK s, k : s = Starts[f] /\ k = Counts[f]
      OBVIOUS
    <3>3. k \in Nat /\ ChainOf(next, s, k)
      BY <3>2, RestIs
    <3>4. (i \div SectorSize) \div sectors_per_cluster < k
      BY <1>1, <2>1, <3>1, <3>2, WithinSize
    <3>5. Where(next, s, i) = <<SectorAt(next, s, j), o>>
      BY <2>1, <2>2, <3>3, <3>4, WhereIs
    <3>6. Start(f) = s
      BY <3>2 DEF Start, Starts, Existing
    <3>7. ByteBefore(f, i) = <<"old", SectorAt(next, s, j), o>>
      BY <3>5, <3>6 DEF ByteBefore
    <3>8. Before(h)[i] = <<"old", SectorAt(next, s, j), o>>
      BY <1>0, <2>1, <2>2, <3>1, <3>2 DEF Before
    <3> QED
      BY <3>7, <3>8
  <2> QED
    BY <1>1, <2>1, <2>5, <2>6, <2>7, <2>8
<1> QED
  BY <1>0, <1>1, <1>2, <1>4 DEF PutThere

(* The other files, whether the disk ran full or not.                      *)
LEMMA OthersStay ==
  ASSUME disk \in Disks, RootIsShort, Tables, NEW f \in Existing, NEW v, NEW m, Disk(v, Rest(f), m),
         NEW g \in Existing, g # f, NEW i \in 0 .. dir[g].file_size - 1
  PROVE  ByteAfter(v, g, i) = ByteBefore(g, i)
<1>0. PICK x, s, k, z : x = Rest(f) /\ s = Starts[g] /\ k = Counts[g] /\ z = dir[g].file_size
  OBVIOUS
<1>1. /\ v \in Writing /\ m \in Nat \ {0} /\ v.h.file = f
      /\ ChainOf(v.next, v.h.startcluster, m)
      /\ Own(v.next, v.h.startcluster, m) \cap x.others = {}
      /\ SameOn(next, v.next, x.others)
      /\ \A y \in Sectors : (\A c \in Own(v.next, v.h.startcluster, m) : y \notin SectorsOf(c))
                               => v.holds[y] = Old(y)
  BY <1>0, RestIs DEF Disk
<1>2. Tidy(next, Existing, Starts, Counts) /\ z \in Nat
  BY <1>0 DEF Tables
<1>3. x.others = Others(next, Existing, Starts, Counts, f) /\ v.next \in Table
  BY <1>0, <1>1 DEF Rest, Writing
<1>4. k \in Nat /\ ChainOf(next, s, k) /\ k = ClustersFor(z) /\ Start(g) = s
  <2>1. Counts[g] \in Nat /\ ChainOf(next, Starts[g], Counts[g])
    BY <1>2 DEF Tidy
  <2> QED
    BY <1>0, <2>1 DEF Counts, Starts, Start, Existing
<1>5. ChainOf(v.next, s, k) /\ Own(v.next, s, k) = Own(next, s, k) /\ \A j \in 0 .. k : Nth(v.next, s, j) = Nth(next, s, j)
  <2>1. PICK u : u = v.next
    OBVIOUS
  <2>2. u \in Table /\ SameOn(next, u, Others(next, Existing, Starts, Counts, f))
    BY <1>1, <1>3, <2>1
  <2>3. /\ ChainOf(u, Starts[g], Counts[g]) /\ Own(u, Starts[g], Counts[g]) = Own(next, Starts[g], Counts[g])
        /\ \A j \in 0 .. Counts[g] : Nth(u, Starts[g], j) = Nth(next, Starts[g], j)
    BY ONLY disk \in Disks, <1>2, <2>2, g \in Existing, g # f, TidyRest
  <2> QED
    BY <1>0, <2>1, <2>3
<1>6. PICK j, o, b : j = i \div SectorSize /\ o = i % SectorSize /\ b = j \div sectors_per_cluster
  OBVIOUS
<1>7. i \in Nat /\ i < z
  BY <1>0, <1>2
<1>8. b < k
  BY <1>2, <1>4, <1>6, <1>7, WithinSize
<1>9. Where(next, s, i) = <<SectorAt(next, s, j), o>> /\ SectorAt(next, s, j) \in Sectors /\ o \in Offsets /\ j \in Nat
  BY <1>4, <1>6, <1>7, <1>8, WhereIs
<1>10. Where(v.next, s, i) = <<SectorAt(v.next, s, j), o>>
  <2>1. PICK u : u = v.next
    OBVIOUS
  <2> QED
    BY <1>4, <1>5, <1>6, <1>7, <1>8, <2>1, WhereIs
<1>11. b \in Nat
  BY <1>6, <1>9, Index
<1>12. SectorAt(v.next, s, j) = SectorAt(next, s, j)
  <2>1. b \in 0 .. k
    BY <1>4, <1>8, <1>11
  <2> QED
    BY <1>5, <1>6, <2>1 DEF SectorAt
<1>13. PICK d, u, y : d = Nth(next, s, b) /\ u = j % sectors_per_cluster /\ y = SectorAt(next, s, j)
  OBVIOUS
<1>14. d \in Own(next, s, k) /\ d \in Clusters /\ u \in 0 .. sectors_per_cluster - 1
  <2>1. j \div sectors_per_cluster < k
    BY <1>6, <1>8
  <2> QED
    BY <1>4, <1>6, <1>9, <1>13, <2>1, SectorAtIs
<1>15. y = SectorStart(d) + u
  BY <1>6, <1>13 DEF SectorAt
<1>16. d \in x.others
  BY <1>0, <1>3, <1>14 DEF Others
<1>17. ASSUME NEW c \in Own(v.next, v.h.startcluster, m), y \in SectorsOf(c) PROVE FALSE
  <2>1. c \in Clusters
    BY <1>1 DEF Own, ChainOf
  <2>2. PICK e \in 0 .. sectors_per_cluster - 1 : y = SectorStart(c) + e
    BY <1>17, <2>1, WithinCluster
  <2>3. c = d
    BY <1>14, <1>15, <2>1, <2>2, SectorsApart
  <2> QED
    BY <1>1, <1>16, <2>3
<1>18. v.holds[y] = Old(y) /\ y \in Sectors
  BY <1>1, <1>9, <1>13, <1>17
<1>19. ByteAfter(v, g, i) = v.holds[y][o]
  BY <1>1, <1>4, <1>10, <1>12, <1>13, <1>18 DEF ByteAfter
<1>20. v.holds[y][o] = <<"old", y, o>>
  BY <1>9, <1>18 DEF Old
<1> QED
  BY <1>4, <1>9, <1>13, <1>19, <1>20 DEF ByteBefore

(***************************************************************************)
(* Reading.  Cluster k of a file of z bytes has this many sectors to look  *)
(* at, and sector u of it this many bytes, as fatReadFile reckons.         *)
(***************************************************************************)
Avail(z, k) ==
  IF k # ClustersFor(z) - 1 \/ z % ClusterSize = 0 THEN sectors_per_cluster
  ELSE ((z % ClusterSize) \div SectorSize) + 1
Bytes(z, k, u) ==
  IF k = ClustersFor(z) - 1 /\ z % ClusterSize # 0 /\ u = (z % ClusterSize) \div SectorSize
  THEN (z % ClusterSize) % SectorSize ELSE SectorSize

ByteNo(k, u, b) == ((k * sectors_per_cluster) + u) * SectorSize + b

LEMMA ByteNoIs ==
  ASSUME disk \in Disks, NEW k \in Nat, NEW u \in Nat, NEW b \in Nat
  PROVE  /\ ByteNo(k, u, b) \in Nat /\ ByteNo(k, u, b) = k * ClusterSize + u * SectorSize + b
         /\ u * SectorSize \in Nat /\ k * ClusterSize \in Nat /\ ClusterSize \in Nat \ {0}
         /\ ByteNo(k, u, b) = ByteNo(k, u, 0) + b
         /\ ByteNo(k, u, SectorSize) = ByteNo(k, u + 1, 0)
         /\ ByteNo(k, sectors_per_cluster, 0) = ByteNo(k + 1, 0, 0)
<1>1. PICK S, c : S = SectorSize /\ c = sectors_per_cluster
  OBVIOUS
<1>2. S \in Nat \ {0} /\ c \in Nat \ {0}
  BY <1>1, DiskIs
<1>3. /\ k * c \in Nat /\ u * S \in Nat /\ c * S \in Nat \ {0} /\ k * (c * S) \in Nat
      /\ ((k * c) + u) * S \in Nat
  BY <1>2
<1>4. ((k * c) + u) * S = k * (c * S) + u * S
  BY <1>2
<1>5. ((k * c) + (u + 1)) * S = ((k * c) + u) * S + S
  BY <1>2
<1>6. ((k * c) + c) * S = (((k + 1) * c) + 0) * S
  <2>1. (k + 1) * c = (k * c) + c
    BY <1>2
  <2> QED
    BY <1>2, <1>3, <2>1
<1>7. ClusterSize = c * S
  BY <1>1 DEF ClusterSize
<1>8. ByteNo(k, u, b) = ((k * c) + u) * S + b /\ ByteNo(k, u, 0) = ((k * c) + u) * S + 0
      /\ ByteNo(k, u, S) = ((k * c) + u) * S + S /\ ByteNo(k, u + 1, 0) = ((k * c) + (u + 1)) * S + 0
      /\ ByteNo(k, c, 0) = ((k * c) + c) * S + 0 /\ ByteNo(k + 1, 0, 0) = (((k + 1) * c) + 0) * S + 0
  BY <1>1 DEF ByteNo
<1>9. ByteNo(k, u, b) \in Nat /\ ByteNo(k, u, b) = k * (c * S) + u * S + b
  BY <1>3, <1>4, <1>8
<1>10. ByteNo(k, u, b) = ByteNo(k, u, 0) + b
  BY <1>3, <1>8
<1>11. ByteNo(k, u, S) = ByteNo(k, u + 1, 0)
  BY <1>2, <1>3, <1>5, <1>8
<1>12. ByteNo(k, c, 0) = ByteNo(k + 1, 0, 0)
  BY <1>6, <1>8
<1> QED
  BY <1>1, <1>3, <1>7, <1>9, <1>10, <1>11, <1>12

(* The last byte of a file is byte f of sector l of cluster a.             *)
LastIn(z, a, l, f) ==
  /\ a = ClustersFor(z) - 1 /\ a \in Nat /\ l \in 0 .. sectors_per_cluster - 1 /\ f \in 0 .. SectorSize - 1
  /\ z = ByteNo(a, l, f) + 1

LEMMA LastIs ==
  ASSUME disk \in Disks, NEW z \in Nat \ {0}
  PROVE  \E a, l, f : LastIn(z, a, l, f)
<1>1. PICK C, y : C = ClusterSize /\ y = z - 1
  OBVIOUS
<1>2. SectorSize \in Nat \ {0} /\ sectors_per_cluster \in Nat \ {0}
  BY DiskIs
<1>3. C \in Nat \ {0} /\ y \in Nat /\ C = sectors_per_cluster * SectorSize
  BY <1>1, <1>2 DEF ClusterSize
<1>4. PICK a, l, f : a = y \div C /\ l = (y % C) \div SectorSize /\ f = (y % C) % SectorSize
  OBVIOUS
<1>5. a \in Nat /\ y % C \in 0 .. C - 1 /\ y = C * a + (y % C)
  BY <1>3, <1>4, DivModNat
<1>6. PICK e : e = y % C
  OBVIOUS
<1>7. e \in Nat /\ e < C
  BY <1>3, <1>5, <1>6
<1>8. l \in Nat /\ f \in 0 .. SectorSize - 1 /\ e = SectorSize * l + f
  BY <1>2, <1>4, <1>6, <1>7, DivModNat
<1>9. InClusters(y, sectors_per_cluster, SectorSize)
  BY <1>2, <1>3, SectorsInClusters
<1>10. l = (y \div SectorSize) % sectors_per_cluster
  BY <1>3, <1>4, <1>9 DEF InClusters
<1>11. l \in 0 .. sectors_per_cluster - 1
  <2>1. y \div SectorSize \in Nat
    BY <1>2, <1>3, DivModNat
  <2> QED
    BY <1>10, <2>1, Index
<1>12. a = ClustersFor(z) - 1
  <2>1. (z + C - 1) \div C = ((z - 1) \div C) + 1
    BY <1>3, LastByte
  <2> QED
    BY <1>1, <1>4, <1>5, <2>1 DEF ClustersFor
<1>13. z = ByteNo(a, l, f) + 1
  <2>1. ByteNo(a, l, f) = a * C + l * SectorSize + f /\ a * C \in Nat /\ l * SectorSize \in Nat
    BY <1>1, <1>5, <1>8, ByteNoIs
  <2>2. a * C = C * a /\ l * SectorSize = SectorSize * l
    BY <1>2, <1>3, <1>5, <1>8
  <2> QED
    BY <1>1, <1>5, <1>6, <1>8, <2>1, <2>2
<1> QED
  BY <1>5, <1>8, <1>11, <1>12, <1>13 DEF LastIn

(* The remainder of the last cluster.                                      *)
LEMMA PartIs ==
  ASSUME disk \in Disks, NEW z, NEW a, NEW l, NEW f, LastIn(z, a, l, f),
         NEW part, part = z % ClusterSize
  PROVE  \/ /\ l = sectors_per_cluster - 1 /\ f = SectorSize - 1 /\ part = 0
         \/ /\ f < SectorSize - 1 /\ part # 0 /\ part \div SectorSize = l /\ part % SectorSize = f + 1
         \/ /\ l < sectors_per_cluster - 1 /\ f = SectorSize - 1
            /\ part # 0 /\ part \div SectorSize = l + 1 /\ part % SectorSize = 0
<1>1. PICK S, c, C : S = SectorSize /\ c = sectors_per_cluster /\ C = ClusterSize
  OBVIOUS
<1>2. S \in Nat \ {0} /\ c \in Nat \ {0} /\ C = c * S /\ C \in Nat \ {0}
  <2>1. S \in Nat \ {0} /\ c \in Nat \ {0} /\ C = c * S
    BY <1>1, DiskIs DEF ClusterSize
  <2> QED
    BY <2>1
<1>3. a \in Nat /\ l \in 0 .. c - 1 /\ f \in 0 .. S - 1 /\ z = ByteNo(a, l, f) + 1
  BY <1>1 DEF LastIn
<1>4. ByteNo(a, l, f) = a * C + l * S + f /\ a * C \in Nat /\ l * S \in Nat
  BY <1>1, <1>2, <1>3, ByteNoIs
<1>5. PICK e : e = l * S + f + 1
  OBVIOUS
<1>6. z = C * a + e /\ e \in Nat \ {0} /\ z \in Nat /\ C * a \in Nat
  <2>1. C * a = a * C
    BY <1>2, <1>3
  <2> QED
    BY <1>2, <1>3, <1>4, <1>5, <2>1
<1>7. l * S <= (c - 1) * S /\ (c - 1) * S = C - S
  <2>1. (c - 1) * S = c * S - S
    BY <1>2
  <2>2. c - 1 - l \in Nat
    BY <1>2, <1>3
  <2>3. (c - 1 - l) * S \in Nat /\ (c - 1 - l) * S = (c - 1) * S - l * S
    BY <1>2, <1>3, <2>2
  <2> QED
    BY <1>2, <1>4, <2>1, <2>3
<1>8. e <= C
  BY <1>2, <1>3, <1>4, <1>5, <1>7
<1>9. CASE e = C
  <2>1. z = C * (a + 1) + 0
    <3>1. C * (a + 1) = C * a + C
      BY <1>2, <1>3
    <3> QED
      BY <1>6, <1>9, <3>1
  <2>2. part = 0
    <3>1. a + 1 \in Int /\ 0 \in 0 .. C - 1 /\ z \in Int
      BY <1>2, <1>3, <1>6
    <3>2. z % C = 0
      BY <1>2, <2>1, <3>1, DivModIs
    <3> QED
      BY <1>1, <3>2
  <2>3. l * S = (c - 1) * S /\ f = S - 1
    BY <1>2, <1>3, <1>4, <1>5, <1>7, <1>9
  <2>4. l = c - 1
    <3>1. ASSUME l < c - 1 PROVE FALSE
      <4>1. c - 1 - l \in Nat \ {0}
        BY <1>2, <1>3, <3>1
      <4>2. (c - 1 - l) * S = (c - 1) * S - l * S
        BY <1>2, <1>3
      <4>3. (c - 1 - l) * S \in Nat \ {0}
        BY <1>2, <4>1
      <4> QED
        BY <1>4, <2>3, <4>2, <4>3
    <3> QED
      BY <1>2, <1>3, <3>1
  <2> QED
    BY <1>1, <2>2, <2>3, <2>4
<1>10. CASE e # C
  <2>1. e \in 0 .. C - 1
    BY <1>2, <1>6, <1>8, <1>10
  <2>2. part = e
    <3>1. z \in Int /\ a \in Int
      BY <1>3, <1>6
    <3>2. z % C = e
      BY <1>2, <1>6, <2>1, <3>1, DivModIs
    <3> QED
      BY <1>1, <3>2
  <2>3. CASE f < S - 1
    <3>1. e = S * l + (f + 1) /\ f + 1 \in 0 .. S - 1 /\ l \in Int /\ e \in Int
      <4>1. S * l = l * S
        BY <1>2, <1>3
      <4> QED
        BY <1>2, <1>3, <1>4, <1>5, <1>6, <2>3, <4>1
    <3>2. e \div S = l /\ e % S = f + 1
      BY <1>2, <3>1, DivModIs
    <3> QED
      BY <1>1, <1>6, <2>2, <2>3, <3>2
  <2>4. CASE f = S - 1
    <3>1. e = S * (l + 1) + 0
      <4>1. S * (l + 1) = l * S + S
        BY <1>2, <1>3
      <4> QED
        BY <1>2, <1>4, <1>5, <2>4, <4>1
    <3>2. e \div S = l + 1 /\ e % S = 0
      <4>1. 0 \in 0 .. S - 1 /\ l + 1 \in Int /\ e \in Int
        BY <1>2, <1>3, <1>6
      <4> QED
        BY <1>2, <3>1, <4>1, DivModIs
    <3>3. l # c - 1
      BY <1>2, <1>4, <1>5, <1>7, <1>10, <2>4
    <3>4. l < c - 1
      BY <1>2, <1>3, <3>3
    <3> QED
      BY <1>1, <1>6, <2>2, <2>4, <3>2, <3>4
  <2> QED
    BY <1>2, <1>3, <2>3, <2>4
<1> QED
  BY <1>9, <1>10

LEMMA TimesOrder ==
  ASSUME NEW a \in Nat, NEW b \in Nat, NEW n \in Nat, a <= b
  PROVE  a * n <= b * n /\ (a + 1) * n = a * n + n
<1>1. b - a \in Nat
  OBVIOUS
<1>2. (b - a) * n \in Nat /\ (b - a) * n = b * n - a * n
  BY <1>1
<1>3. a * n \in Nat /\ b * n \in Nat /\ (a + 1) * n = a * n + n
  OBVIOUS
<1> QED
  BY <1>2, <1>3

(* What one turn of the loops may find.                                    *)
Edges(z, k, u) ==
  /\ Bytes(z, k, u) \in 0 .. SectorSize
  /\ ByteNo(k, u, Bytes(z, k, u)) <= z
  /\ u + 1 # Avail(z, k) \/ k # ClustersFor(z) - 1 => Bytes(z, k, u) = SectorSize
  /\ u + 1 = Avail(z, k) /\ k = ClustersFor(z) - 1 => ByteNo(k, u, Bytes(z, k, u)) = z

LEMMA EdgesAre ==
  ASSUME disk \in Disks, NEW z \in Nat \ {0}, NEW m, m = ClustersFor(z), NEW k \in 0 .. m - 1
  PROVE  /\ m \in Nat \ {0} /\ k \in Nat
         /\ Avail(z, k) \in 1 .. sectors_per_cluster
         /\ k # m - 1 => Avail(z, k) = sectors_per_cluster
         /\ Bytes(z, k, 0) # 0
         /\ \A u \in 0 .. Avail(z, k) - 1 : Edges(z, k, u)
<1>1. PICK S, c, C : S = SectorSize /\ c = sectors_per_cluster /\ C = ClusterSize
  OBVIOUS
<1>2. S \in Nat \ {0} /\ c \in Nat \ {0} /\ 0 \in Nat
  BY <1>1, DiskIs
<1>3. PICK a, l, f : LastIn(z, a, l, f)
  BY LastIs
<1>4. a = m - 1 /\ a \in Nat /\ l \in 0 .. c - 1 /\ f \in 0 .. S - 1 /\ z = ByteNo(a, l, f) + 1
      /\ ByteNo(a, l, f) = a * C + l * S + f /\ a * C \in Nat /\ l * S \in Nat /\ C \in Nat
  <2>1. a = m - 1 /\ a \in Nat /\ l \in 0 .. c - 1 /\ f \in 0 .. S - 1 /\ z = ByteNo(a, l, f) + 1
    BY <1>1, <1>3 DEF LastIn
  <2>2. l \in Nat /\ f \in Nat
    BY <1>2, <2>1
  <2>3. ByteNo(a, l, f) = a * C + l * S + f /\ a * C \in Nat /\ l * S \in Nat /\ C \in Nat
    BY <1>1, <2>1, <2>2, ByteNoIs
  <2> QED
    BY <2>1, <2>3
<1>5. m \in Nat \ {0} /\ k \in Nat
  <2>1. m \in Nat
    BY SizeInClusters
  <2> QED
    BY <1>4, <2>1
<1>6. CASE k # m - 1
  <2>1. Avail(z, k) = c /\ \A u : Bytes(z, k, u) = S
    BY <1>1, <1>6 DEF Avail, Bytes
  <2>2. ASSUME NEW u \in 0 .. c - 1 PROVE ByteNo(k, u, S) <= z
    <3>1. ByteNo(k, u, S) = k * C + u * S + S /\ u * S \in Nat /\ k * C \in Nat /\ u \in Nat
      BY <1>1, <1>2, <1>5, <2>2, ByteNoIs
    <3>2. (u + 1) * S <= c * S /\ (u + 1) * S = u * S + S
      <4>1. u + 1 \in Nat /\ u + 1 <= c
        BY <1>2, <2>2
      <4> QED
        BY <1>2, <3>1, <4>1, TimesOrder
    <3>3. (k + 1) * C <= a * C /\ (k + 1) * C = k * C + C
      <4>1. k + 1 \in Nat /\ k + 1 <= a
        BY <1>4, <1>5, <1>6
      <4> QED
        BY <1>4, <1>5, <4>1, TimesOrder
    <3>4. C = c * S
      BY <1>1 DEF ClusterSize
    <3> QED
      BY <1>2, <1>4, <3>1, <3>2, <3>3, <3>4
  <2>3. ASSUME NEW u \in 0 .. Avail(z, k) - 1 PROVE Edges(z, k, u)
    <3>1. u \in 0 .. c - 1
      BY <2>1, <2>3
    <3>2. S \in 0 .. S
      BY <1>2
    <3> QED
      BY <1>1, <1>6, <2>1, <2>2, <3>1, <3>2 DEF Edges
  <2>4. c \in 1 .. c /\ S # 0
    BY <1>2
  <2> QED
    BY <1>1, <1>5, <1>6, <2>1, <2>3, <2>4
<1>7. CASE k = m - 1
  <2>0. PICK part : part = z % C
    OBVIOUS
  <2>1. k = a
    BY <1>4, <1>7
  <2>2. \/ /\ l = c - 1 /\ f = S - 1 /\ part = 0
        \/ /\ f < S - 1 /\ part # 0 /\ part \div S = l /\ part % S = f + 1
        \/ /\ l < c - 1 /\ f = S - 1 /\ part # 0 /\ part \div S = l + 1 /\ part % S = 0
    BY <1>1, <1>3, <2>0, PartIs
  <2>3. /\ Avail(z, k) = IF part = 0 THEN c ELSE (part \div S) + 1
        /\ \A u : Bytes(z, k, u) = IF part # 0 /\ u = part \div S THEN part % S ELSE S
    BY <1>1, <1>7, <2>0 DEF Avail, Bytes
  <2>8. PICK X, Y : X = a * C /\ Y = l * S
    OBVIOUS
  <2>9. X \in Nat /\ Y \in Nat /\ z = X + Y + f + 1 /\ f \in Nat
    <3>1. X \in Nat /\ Y \in Nat /\ ByteNo(a, l, f) = X + Y + f
      BY <1>4, <2>8
    <3>2. f \in Nat
      BY <1>2, <1>4
    <3>3. z = ByteNo(a, l, f) + 1
      BY <1>4
    <3> QED
      BY ONLY <3>1, <3>2, <3>3
  <2>4. ASSUME NEW u \in 0 .. c - 1
        PROVE  \E W \in Nat : /\ \A b \in Nat : ByteNo(k, u, b) = X + W + b
                              /\ u < l => W + S <= Y
                              /\ u = l => W = Y
                              /\ u = l + 1 => W = Y + S
    <3>1. u \in Nat
      BY <1>2
    <3>2. u * S \in Nat
      BY <1>2, <3>1
    <3>3. \A b \in Nat : ByteNo(k, u, b) = a * C + u * S + b
      BY <1>1, <1>5, <2>1, <3>1, ByteNoIs
    <3>4. u < l => u * S + S <= l * S
      <4> SUFFICES ASSUME u < l PROVE u * S + S <= l * S
        OBVIOUS
      <4>1. u + 1 \in Nat /\ u + 1 <= l /\ l \in Nat
        BY <1>4, <3>1
      <4>2. (u + 1) * S <= l * S
        BY <1>2, <4>1, TimesOrder
      <4>3. (u + 1) * S = u * S + S
        BY <1>2, <3>1
      <4> QED
        BY <4>2, <4>3
    <3>5. u = l + 1 => u * S = l * S + S
      BY <1>2, <1>4
    <3>6. PICK W : W = u * S
      OBVIOUS
    <3>7. u = l => W = Y
      BY <2>8, <3>6
    <3>8. W \in Nat /\ \A b \in Nat : ByteNo(k, u, b) = X + W + b
      BY <2>8, <3>2, <3>3, <3>6
    <3>9. (u < l => W + S <= Y) /\ (u = l + 1 => W = Y + S)
      BY <2>8, <3>4, <3>5, <3>6
    <3> QED
      BY <3>7, <3>8, <3>9
  <2>5. CASE l = c - 1 /\ f = S - 1 /\ part = 0
    <3>1. Avail(z, k) = c /\ \A u : Bytes(z, k, u) = S
      BY <2>3, <2>5
    <3>2. ASSUME NEW u \in 0 .. c - 1 PROVE ByteNo(k, u, S) <= z /\ (u + 1 = c => ByteNo(k, u, S) = z)
      <4>1. PICK W \in Nat : /\ ByteNo(k, u, S) = X + W + S
                             /\ u < l => W + S <= Y
                             /\ u = l => W = Y
        BY <1>2, <2>4
      <4>2. z = X + Y + S
        BY <1>2, <2>5, <2>9
      <4>3. u = l \/ u < l
        BY <1>2, <2>5
      <4>4. u + 1 = c => u = l
        BY <1>2, <2>5
      <4> QED
        BY <1>2, <2>9, <4>1, <4>2, <4>3, <4>4
    <3>3. ASSUME NEW u \in 0 .. Avail(z, k) - 1 PROVE Edges(z, k, u)
      <4>1. u \in 0 .. c - 1 /\ S \in 0 .. S
        BY <1>2, <3>1
      <4> QED
        BY <1>1, <1>7, <3>1, <3>2, <4>1 DEF Edges
    <3>4. c \in 1 .. c /\ S # 0
      BY <1>2
    <3> QED
      BY <1>1, <1>5, <1>7, <3>1, <3>3, <3>4
  <2>6. CASE f < S - 1 /\ part # 0 /\ part \div S = l /\ part % S = f + 1
    <3>1. Avail(z, k) = l + 1 /\ \A u : Bytes(z, k, u) = IF u = l THEN f + 1 ELSE S
      BY <2>3, <2>6
    <3>2. ASSUME NEW u \in 0 .. l PROVE Edges(z, k, u)
      <4>1. u \in 0 .. c - 1
        BY <1>2, <1>4
      <4>2. PICK W \in Nat : /\ \A b \in Nat : ByteNo(k, u, b) = X + W + b
                             /\ u < l => W + S <= Y
                             /\ u = l => W = Y
        BY <2>4, <4>1
      <4>4. CASE u = l
        <5>1. Bytes(z, k, u) = f + 1 /\ f + 1 \in 0 .. S /\ f + 1 \in Nat
          BY <1>2, <1>4, <2>6, <3>1, <4>4
        <5>2. ByteNo(k, u, f + 1) = z
          BY <1>2, <2>9, <4>2, <4>4, <5>1
        <5>3. z <= z /\ u + 1 = Avail(z, k)
          BY <3>1, <4>4
        <5> QED
          BY <1>1, <1>7, <5>1, <5>2, <5>3 DEF Edges
      <4>5. CASE u # l
        <5>1. Bytes(z, k, u) = S /\ S \in 0 .. S /\ S \in Nat
          BY <1>2, <3>1, <4>5
        <5>2. ByteNo(k, u, S) <= z
          <6>1. ByteNo(k, u, S) = X + W + S /\ W + S <= Y
            BY <1>4, <4>2, <4>5, <5>1
          <6> QED
            BY <1>2, <2>9, <4>2, <6>1
        <5>3. u + 1 # Avail(z, k)
          BY <1>4, <3>1, <4>5
        <5> QED
          BY <1>1, <1>7, <5>1, <5>2, <5>3 DEF Edges
      <4> QED
        BY <4>4, <4>5
    <3>3. l + 1 \in 1 .. c /\ (l + 1) - 1 = l /\ Bytes(z, k, 0) # 0
      BY <1>2, <1>4, <3>1
    <3> QED
      BY <1>1, <1>5, <1>7, <3>1, <3>2, <3>3
  <2>7. CASE l < c - 1 /\ f = S - 1 /\ part # 0 /\ part \div S = l + 1 /\ part % S = 0
    <3>1. Avail(z, k) = l + 2 /\ \A u : Bytes(z, k, u) = IF u = l + 1 THEN 0 ELSE S
      BY <1>2, <1>4, <2>3, <2>7
    <3>2. ASSUME NEW u \in 0 .. l + 1 PROVE Edges(z, k, u)
      <4>1. u \in 0 .. c - 1
        BY <1>2, <1>4, <2>7
      <4>2. PICK W \in Nat : /\ \A b \in Nat : ByteNo(k, u, b) = X + W + b
                             /\ u < l => W + S <= Y
                             /\ u = l => W = Y
                             /\ u = l + 1 => W = Y + S
        BY <2>4, <4>1
      <4>6. z = X + Y + S
        BY <1>2, <2>7, <2>9
      <4>4. CASE u = l + 1
        <5>1. Bytes(z, k, u) = 0 /\ 0 \in 0 .. S
          BY <1>2, <3>1, <4>4
        <5>2. ByteNo(k, u, 0) = z
          BY <1>2, <2>9, <4>2, <4>4, <4>6
        <5>3. z <= z /\ u + 1 = Avail(z, k)
          BY <1>4, <3>1, <4>4
        <5> QED
          BY <1>1, <1>7, <5>1, <5>2, <5>3 DEF Edges
      <4>5. CASE u # l + 1
        <5>1. Bytes(z, k, u) = S /\ S \in 0 .. S /\ S \in Nat
          BY <1>2, <3>1, <4>5
        <5>2. ByteNo(k, u, S) <= z
          <6>1. ByteNo(k, u, S) = X + W + S
            BY <4>2, <5>1
          <6>2. W + S <= Y + S
            BY <1>2, <1>4, <2>9, <4>2, <4>5
          <6> QED
            BY <1>2, <2>9, <4>6, <6>1, <6>2
        <5>3. u + 1 # Avail(z, k)
          BY <1>4, <3>1, <4>5
        <5> QED
          BY <1>1, <1>7, <5>1, <5>2, <5>3 DEF Edges
      <4> QED
        BY <4>4, <4>5
    <3>3. l + 2 \in 1 .. c /\ (l + 2) - 1 = l + 1 /\ Bytes(z, k, 0) # 0
      BY <1>2, <1>4, <2>7, <3>1
    <3> QED
      BY <1>1, <1>5, <1>7, <3>1, <3>2, <3>3
  <2> QED
    BY <2>2, <2>5, <2>6, <2>7
<1> QED
  BY <1>6, <1>7

(* Where the byte b of sector u of cluster k is.                           *)
LEMMA SectorNo ==
  ASSUME disk \in Disks, NEW k \in Nat, NEW u \in 0 .. sectors_per_cluster - 1, NEW b \in 0 .. SectorSize - 1
  PROVE  /\ ByteNo(k, u, b) \div SectorSize = (k * sectors_per_cluster) + u
         /\ ByteNo(k, u, b) % SectorSize = b
         /\ ((k * sectors_per_cluster) + u) \div sectors_per_cluster = k
         /\ ((k * sectors_per_cluster) + u) % sectors_per_cluster = u
         /\ (k * sectors_per_cluster) + u \in Nat /\ ByteNo(k, u, b) \in Nat
<1>1. PICK S, c, j : S = SectorSize /\ c = sectors_per_cluster /\ j = (k * c) + u
  OBVIOUS
<1>2. S \in Nat \ {0} /\ c \in Nat \ {0}
  BY <1>1, DiskIs
<1>3. k * c \in Nat /\ k * c = c * k /\ j \in Nat /\ u \in Nat /\ b \in Nat
  BY <1>1, <1>2
<1>4. j = c * k + u /\ j \in Int /\ k \in Int /\ u \in 0 .. c - 1
  BY <1>1, <1>3
<1>5. j \div c = k /\ j % c = u
  BY ONLY <1>2, <1>4, DivModIs
<1>6. PICK i : i = ByteNo(k, u, b)
  OBVIOUS
<1>7. i = S * j + b /\ i \in Int /\ j \in Int /\ b \in 0 .. S - 1 /\ i \in Nat
  <2>1. j * S = S * j /\ S * j \in Nat
    BY <1>2, <1>3
  <2>2. i = j * S + b
    BY <1>1, <1>6 DEF ByteNo
  <2> QED
    BY <1>1, <1>2, <1>3, <2>1, <2>2
<1>8. i \div S = j /\ i % S = b
  BY ONLY <1>2, <1>7, DivModIs
<1> QED
  BY <1>1, <1>3, <1>5, <1>6, <1>7, <1>8

(* Where the first j bytes from the handle's position are.                 *)
Places(h, j) == [i \in 1 .. j |-> Where(next, h.startcluster, h.currpos + i - 1)]

LEMMA PlacesAre ==
  ASSUME NEW h, NEW j \in Nat
  PROVE  /\ Len(Places(h, j)) = j /\ Places(h, 0) = <<>>
         /\ \A i \in 1 .. j : Places(h, j)[i] = Where(next, h.startcluster, h.currpos + i - 1)
<1>1. PICK T : T = {Places(h, j)[i] : i \in 1 .. j}
  OBVIOUS
<1>2. Places(h, j) \in [1 .. j -> T]
  BY <1>1 DEF Places
<1>3. Places(h, j) \in Seq(T)
  BY <1>2, SeqDef
<1>4. Len(Places(h, j)) = j
  <2>1. DOMAIN Places(h, j) = 1 .. Len(Places(h, j)) /\ Len(Places(h, j)) \in Nat
    BY <1>3, LenProperties
  <2>2. PICK n : n = Len(Places(h, j))
    OBVIOUS
  <2>3. 1 .. j = 1 .. n /\ n \in Nat
    BY <1>2, <2>1, <2>2
  <2>4. n = j
    BY ONLY <2>3, j \in Nat
  <2> QED
    BY <2>2, <2>4
<1>5. Places(h, 0) = <<>>
  <2>1. 1 .. 0 = {}
    OBVIOUS
  <2>2. Places(h, 0) \in [1 .. 0 -> {}]
    BY <2>1 DEF Places
  <2>3. Places(h, 0) \in Seq({})
    BY <2>2, SeqDef, 0 \in Nat
  <2> QED
    BY <2>3, EmptySeq
<1> QED
  BY <1>4, <1>5 DEF Places

LEMMA PlacesOn ==
  ASSUME NEW h, NEW j \in Nat, NEW k \in Nat, h.currpos \in Int, NEW g, g = [i \in 1 .. k |-> g[i]],
         \A i \in 1 .. k : g[i] = Where(next, h.startcluster, h.currpos + j + i - 1)
  PROVE  Places(h, j) \o g = Places(h, j + k)
<1>1. PICK a, c : a = Places(h, j) /\ c = Places(h, j + k)
  OBVIOUS
<1>2. PICK T : T = {c[i] : i \in 1 .. j + k}
  OBVIOUS
<1>3. /\ DOMAIN a = 1 .. j /\ a = [i \in 1 .. j |-> a[i]] /\ c = [i \in 1 .. j + k |-> c[i]]
      /\ \A i \in 1 .. j : a[i] = Where(next, h.startcluster, h.currpos + i - 1)
      /\ \A i \in 1 .. j + k : c[i] = Where(next, h.startcluster, h.currpos + i - 1)
  BY <1>1 DEF Places
<1>4. ASSUME NEW i \in 1 .. j PROVE a[i] = c[i]
  BY <1>3
<1>5. ASSUME NEW i \in 1 .. k PROVE g[i] = c[j + i]
  <2>1. j + i \in 1 .. j + k /\ h.currpos + (j + i) - 1 = h.currpos + j + i - 1
    OBVIOUS
  <2> QED
    BY <1>3, <2>1
<1>6. c \in [1 .. j + k -> T]
  BY <1>2, <1>3
<1>7. a \in [1 .. j -> T]
  <2>1. ASSUME NEW i \in 1 .. j PROVE a[i] \in T
    <3>1. i \in 1 .. j + k
      OBVIOUS
    <3> QED
      BY <1>2, <1>4, <3>1
  <2> QED
    BY <1>3, <2>1
<1>8. g \in [1 .. k -> T]
  <2>1. ASSUME NEW i \in 1 .. k PROVE g[i] \in T
    <3>1. j + i \in 1 .. j + k
      OBVIOUS
    <3> QED
      BY <1>2, <1>5, <3>1
  <2> QED
    BY <2>1
<1>9. a \in Seq(T) /\ g \in Seq(T) /\ c \in Seq(T)
  <2>1. j + k \in Nat
    OBVIOUS
  <2> QED
    BY <1>6, <1>7, <1>8, <2>1, SeqDef
<1>10. Len(a) = j /\ Len(c) = j + k /\ Len(g) = k
  <2>1. Len(a) = j /\ Len(c) = j + k
    <3>1. j + k \in Nat
      OBVIOUS
    <3> QED
      BY <1>1, <3>1, PlacesAre
  <2>2. DOMAIN g = 1 .. Len(g) /\ Len(g) \in Nat
    BY <1>9, LenProperties
  <2>3. 1 .. k = 1 .. Len(g)
    BY <1>8, <2>2
  <2> QED
    BY <2>1, <2>2, <2>3
<1>11. /\ a \o g \in Seq(T) /\ Len(a \o g) = j + k
       /\ \A i \in 1 .. j + k : (a \o g)[i] = IF i <= j THEN a[i] ELSE g[i - j]
  BY <1>9, <1>10, ConcatProperties
<1>12. ASSUME NEW i \in 1 .. j + k PROVE (a \o g)[i] = c[i]
  <2>1. CASE i <= j
    BY <1>4, <1>11, <2>1
  <2>2. CASE ~ (i <= j)
    <3>1. i - j \in 1 .. k /\ j + (i - j) = i
      BY <2>2
    <3> QED
      BY <1>5, <1>11, <2>2, <3>1
  <2> QED
    BY <2>1, <2>2
<1> QED
  BY <1>1, <1>9, <1>10, <1>11, <1>12, SeqEqual

(* The state of a read.                                                    *)
Reads(h) ==
  [h : Handle, byteUpto : Nat, got : {Places(h, j) : j \in Nat}, cache : Table \cup {Empty}, done : BOOLEAN]

Took(r, k) ==
  [r EXCEPT !.h.currpos = @ + k, !.byteUpto = @ + k,
            !.got = @ \o [i \in 1 .. k |-> <<Current(r.h), r.byteUpto + i - 1>>]]

(* A handle of the same file, in cluster k, at sector u of it.             *)
Sits(g, h, k, u) ==
  /\ g \in Handle /\ g.file = h.file /\ g.startcluster = h.startcluster /\ g.fileSize = h.fileSize
  /\ g.currentCluster = Nth(next, h.startcluster, k) /\ g.nextCluster = Nth(next, h.startcluster, k + 1)
  /\ g.sectorStart = SectorStart(g.currentCluster) /\ g.sectorUpto = u

(* A handle of a file that is not empty.                                   *)
Chained(h) ==
  /\ h \in Handle /\ h.fileSize > 0 /\ next \in Table
  /\ ChainOf(next, h.startcluster, ClustersFor(h.fileSize))

LEMMA ChainedIs ==
  ASSUME disk \in Disks, NEW h, Chained(h), NEW z, z = h.fileSize, NEW m, m = ClustersFor(z)
  PROVE  /\ z \in Nat \ {0} /\ m \in Nat \ {0}
         /\ \A k \in 0 .. m - 1 : /\ Nth(next, h.startcluster, k) \in Clusters
                                  /\ next[Nth(next, h.startcluster, k)] = Nth(next, h.startcluster, k + 1)
                                  /\ fatEndCluster(Nth(next, h.startcluster, k + 1)) <=> k = m - 1
<1>1. z \in Nat \ {0} /\ ChainOf(next, h.startcluster, m)
  BY DEF Chained, Handle
<1>2. 0 \in 0 .. m - 1 /\ m \in Nat \ {0}
  <2>1. m \in Nat /\ (z > 0 => (z - 1) \div SectorSize \in Nat
                               /\ m = (((z - 1) \div SectorSize) \div sectors_per_cluster) + 1)
    BY <1>1, SizeInClusters
  <2>2. PICK y : y = (z - 1) \div SectorSize
    OBVIOUS
  <2>3. y \in Nat /\ m = (y \div sectors_per_cluster) + 1
    BY <1>1, <2>1, <2>2
  <2>4. y \div sectors_per_cluster \in Nat
    BY <2>3, Index
  <2> QED
    BY <2>1, <2>3, <2>4
<1>3. ASSUME NEW k \in 0 .. m - 1
      PROVE  /\ Nth(next, h.startcluster, k) \in Clusters
             /\ next[Nth(next, h.startcluster, k)] = Nth(next, h.startcluster, k + 1)
             /\ fatEndCluster(Nth(next, h.startcluster, k + 1)) <=> k = m - 1
  <2>1. PICK s : s = h.startcluster
    OBVIOUS
  <2>2. /\ next[Nth(next, s, k)] = Nth(next, s, k + 1) /\ Nth(next, s, k) \in Clusters
        /\ k = m - 1 <=> Nth(next, s, k + 1) = EOC
    BY <1>1, <1>2, <2>1, ChainLinks
  <2>3. CASE k = m - 1
    BY <2>1, <2>2, <2>3, ClustersAre
  <2>4. CASE k # m - 1
    <3>1. k + 1 \in 0 .. m - 1
      BY <1>2, <2>4
    <3>2. Nth(next, s, k + 1) \in Clusters
      BY <1>1, <2>1, <3>1 DEF ChainOf
    <3> QED
      BY <2>1, <2>2, <2>4, <3>2, ClustersAre
  <2> QED
    BY <2>3, <2>4
<1> QED
  BY <1>1, <1>2, <1>3

(* The read of n bytes from h goes on, in sector u of cluster k.           *)
Looping(r, h, n, k, u) ==
  LET z == h.fileSize
      m == ClustersFor(z)
  IN
  /\ r \in Reads(h) /\ ~ r.done /\ r.cache \in {Empty, next}
  /\ Sits(r.h, h, k, u) /\ k \in 0 .. m - 1 /\ u \in 0 .. Avail(z, k)
  /\ r.h.currpos \in h.currpos .. h.currpos + n /\ r.got = Places(h, r.h.currpos - h.currpos)
  /\ u # Avail(z, k) => r.byteUpto <= Bytes(z, k, u) /\ r.h.currpos = ByteNo(k, u, r.byteUpto)
  /\ u = Avail(z, k) => /\ r.byteUpto = 0
                        /\ r.h.currpos = IF k = m - 1 THEN z ELSE ByteNo(k, u, 0)

(* What one turn does, v being the state after it.                         *)
Turn(r, h, n, k, u, v) ==
  LET z == h.fileSize
      a == Avail(z, k)
      b == r.byteUpto
      y == Bytes(z, k, u)
      left == n - Len(r.got)
      last == k = ClustersFor(z) - 1
  IN
  /\ u # a /\ b # y /\ (y < b \/ y - b > left) => v = [Took(r, left) EXCEPT !.done = TRUE]
  /\ u # a /\ b # y /\ ~ (y < b \/ y - b > left) => v = Took(r, y - b)
  /\ u # a /\ b = y => v = [r EXCEPT !.h.sectorUpto = u + 1, !.byteUpto = 0]
  /\ u = a /\ last =>
       v = [r EXCEPT !.done = TRUE,
                     !.h.sectorUpto = IF z % ClusterSize = 0 THEN @
                                      ELSE (r.h.currpos % ClusterSize) \div SectorSize]
  /\ u = a /\ ~ last =>
       v = [r EXCEPT !.cache = Caching(next, @, r.h.nextCluster),
                     !.h = [fatClusterAnalyse(Seen(next, r.cache),
                              [r.h EXCEPT !.currentCluster = r.h.nextCluster], r.h.nextCluster)
                            EXCEPT !.sectorUpto = 0]]

LEMMA ReadStepIs ==
  ASSUME disk \in Disks, NEW h, Chained(h), NEW r, ~ r.done, NEW n, NEW k, NEW u, Sits(r.h, h, k, u),
         k \in 0 .. ClustersFor(h.fileSize) - 1, NEW v, v = ReadStep(n, r)
  PROVE  Turn(r, h, n, k, u, v)
<1>0. PICK z, m, a, b, y, left : z = h.fileSize /\ m = ClustersFor(z) /\ a = Avail(z, k) /\ b = r.byteUpto
        /\ y = Bytes(z, k, u) /\ left = n - Len(r.got)
  OBVIOUS
<1>1. /\ z \in Nat \ {0} /\ m \in Nat \ {0}
      /\ Nth(next, h.startcluster, k) \in Clusters
      /\ fatEndCluster(Nth(next, h.startcluster, k + 1)) <=> k = m - 1
  BY <1>0, ChainedIs
<1>2. ~ fatEndCluster(r.h.currentCluster) /\ (fatEndCluster(r.h.nextCluster) <=> k = m - 1)
      /\ r.h.fileSize = z /\ r.h.sectorUpto = u
  BY <1>0, <1>1, ClustersAre DEF Sits
<1>3. z # 0
  BY <1>1
<1>4. PICK part, e : part = z % ClusterSize /\ e = fatEndCluster(r.h.nextCluster)
  OBVIOUS
<1>5. a = IF ~ e \/ (z # 0 /\ part = 0) THEN sectors_per_cluster
          ELSE IF z = 0 THEN 0 ELSE (part \div SectorSize) + 1
  BY <1>0, <1>2, <1>3, <1>4 DEF Avail
<1>6. y = IF e /\ part # 0 /\ u = part \div SectorSize THEN part % SectorSize ELSE SectorSize
  BY <1>0, <1>2, <1>4 DEF Bytes
<1>7. CASE u # a /\ b # y
  BY <1>0, <1>2, <1>4, <1>5, <1>6, <1>7 DEF Turn, ReadStep, Took
<1>8. CASE u # a /\ b = y
  BY <1>0, <1>2, <1>4, <1>5, <1>6, <1>8 DEF Turn, ReadStep
<1>9. CASE u = a /\ k = m - 1
  BY <1>0, <1>2, <1>4, <1>5, <1>6, <1>9 DEF Turn, ReadStep
<1>10. CASE u = a /\ k # m - 1
  BY <1>0, <1>2, <1>4, <1>5, <1>6, <1>10 DEF Turn, ReadStep
<1> QED
  BY <1>0, <1>7, <1>8, <1>9, <1>10

(* Some bytes of a sector are read.                                        *)
LEMMA TookIs ==
  ASSUME disk \in Disks, RootIsShort, NEW h, Chained(h), h.currpos \in Nat, NEW n \in Nat, NEW r, NEW k, NEW u,
         Looping(r, h, n, k, u), u # Avail(h.fileSize, k),
         NEW y, y = Bytes(h.fileSize, k, u), NEW d \in Nat, r.byteUpto + d <= y,
         r.h.currpos + d <= h.currpos + n, NEW v, v = Took(r, d)
  PROVE  /\ Looping(v, h, n, k, u) /\ v.byteUpto = r.byteUpto + d /\ v.h.currpos = r.h.currpos + d
<1>1. PICK z, m, p, b : z = h.fileSize /\ m = ClustersFor(z) /\ p = r.h.currpos /\ b = r.byteUpto
  OBVIOUS
<1>2. /\ r \in Reads(h) /\ r.cache \in {Empty, next} /\ r.h \in Handle /\ Sits(r.h, h, k, u) /\ k \in 0 .. m - 1
      /\ u \in 0 .. Avail(z, k) /\ p \in h.currpos .. h.currpos + n /\ r.got = Places(h, p - h.currpos)
      /\ b <= y /\ p = ByteNo(k, u, b) /\ b \in Nat /\ p \in Int /\ ~ r.done /\ r.done \in BOOLEAN
  BY <1>1 DEF Looping, Reads, Handle
<1>3. /\ z \in Nat \ {0} /\ m \in Nat \ {0}
      /\ Avail(z, k) \in 1 .. sectors_per_cluster /\ k \in Nat
      /\ \A x \in 0 .. Avail(z, k) - 1 : Edges(z, k, x)
  <2>1. z \in Nat \ {0} /\ m \in Nat \ {0}
    BY <1>1, ChainedIs
  <2> QED
    BY <1>1, <1>2, <2>1, EdgesAre
<1>4. SectorSize \in Nat \ {0} /\ sectors_per_cluster \in Nat \ {0}
  BY DiskIs
<1>5. u \in 0 .. Avail(z, k) - 1 /\ u \in 0 .. sectors_per_cluster - 1 /\ u \in Nat
  BY <1>1, <1>2, <1>3, <1>4
<1>6. y \in 0 .. SectorSize
  BY <1>1, <1>3, <1>5 DEF Edges
<1>7. p + d = ByteNo(k, u, b + d) /\ p + d \in Int
  <2>1. ByteNo(k, u, b) = ByteNo(k, u, 0) + b
    BY <1>2, <1>3, <1>5, ByteNoIs
  <2>2. ByteNo(k, u, b + d) = ByteNo(k, u, 0) + (b + d)
    <3>1. b + d \in Nat
      BY <1>2
    <3> QED
      BY <1>3, <1>5, <3>1, ByteNoIs
  <2>3. ByteNo(k, u, 0) \in Nat
    BY <1>3, <1>5, ByteNoIs, 0 \in Nat
  <2> QED
    BY <1>2, <2>1, <2>2, <2>3
<1>8. PICK g : g = [i \in 1 .. d |-> <<Current(r.h), b + i - 1>>]
  OBVIOUS
<1>9. ASSUME NEW i \in 1 .. d PROVE g[i] = Where(next, h.startcluster, p + i - 1)
  <2>1. PICK o, x, s : o = b + i - 1 /\ x = p + i - 1 /\ s = h.startcluster
    OBVIOUS
  <2>2. o \in 0 .. SectorSize - 1 /\ o \in Nat
    BY <1>1, <1>2, <1>4, <1>6, <2>1
  <2>3. x = ByteNo(k, u, o)
    <3>1. ByteNo(k, u, b) = ByteNo(k, u, 0) + b
      BY <1>2, <1>3, <1>5, ByteNoIs
    <3>2. ByteNo(k, u, o) = ByteNo(k, u, 0) + o
      BY <1>3, <1>5, <2>2, ByteNoIs
    <3>3. ByteNo(k, u, 0) \in Nat
      BY <1>3, <1>5, ByteNoIs, 0 \in Nat
    <3> QED
      BY <1>2, <2>1, <3>1, <3>2, <3>3
  <2>4. PICK j : j = (k * sectors_per_cluster) + u
    OBVIOUS
  <2>5. /\ x \div SectorSize = j /\ x % SectorSize = o
        /\ j \div sectors_per_cluster = k /\ j % sectors_per_cluster = u /\ x \in Nat /\ j \in Nat
    BY <1>3, <1>5, <2>2, <2>3, <2>4, SectorNo
  <2>6. ChainOf(next, s, m) /\ m \in Nat
    BY <1>1, <1>3, <2>1 DEF Chained
  <2>7. (x \div SectorSize) \div sectors_per_cluster < m
    BY <1>2, <1>3, <2>5
  <2>8. Where(next, s, x) = <<SectorAt(next, s, j), o>>
    BY ONLY disk \in Disks, RootIsShort, <2>5, <2>6, <2>7, WhereIs
  <2>9. SectorAt(next, s, j) = SectorStart(Nth(next, s, k)) + u
    BY <2>5 DEF SectorAt
  <2>10. Current(r.h) = SectorStart(Nth(next, s, k)) + u
    BY <1>2, <2>1 DEF Current, Sits
  <2> QED
    BY <1>8, <2>1, <2>8, <2>9, <2>10
<1>10. PICK j : j = p - h.currpos
  OBVIOUS
<1>11. j \in Nat /\ h.currpos + j = p /\ j + d = (p + d) - h.currpos /\ h.currpos \in Int /\ j + d \in Nat
  BY <1>2, <1>10
<1>12. r.got \o g = Places(h, j + d)
  <2>1. g = [i \in 1 .. d |-> g[i]]
    BY <1>8
  <2>2. \A i \in 1 .. d : g[i] = Where(next, h.startcluster, h.currpos + j + i - 1)
    BY <1>9, <1>11
  <2>3. Places(h, j) \o g = Places(h, j + d)
    <3>1. j \in Nat /\ d \in Nat /\ h.currpos \in Int
      BY <1>2, <1>11
    <3> QED
      BY ONLY <2>1, <2>2, <3>1, PlacesOn
  <2> QED
    BY <1>2, <1>10, <2>3
<1> DEFINE f == [r.h EXCEPT !.currpos = p + d]
<1>13. f \in Handle /\ Sits(f, h, k, u) /\ f.currpos = p + d
  BY <1>2, <1>7 DEF Handle, Sits
<1>14. v = [[[r EXCEPT !.h = f] EXCEPT !.byteUpto = b + d] EXCEPT !.got = Places(h, j + d)]
  <2>1. r.h.currpos = p
    BY <1>1
  <2>2. v = [r EXCEPT !.h.currpos = p + d, !.byteUpto = b + d, !.got = r.got \o g]
    BY <1>1, <1>2, <1>8 DEF Took, Reads, Handle
  <2> QED
    BY <1>2, <1>12, <2>2 DEF Reads
<1> HIDE DEF f
<1>15. Places(h, j + d) \in {Places(h, x) : x \in Nat} /\ b + d \in Nat
  BY <1>2, <1>11
<1>16. /\ v \in Reads(h) /\ v.h = f /\ v.byteUpto = b + d /\ v.got = Places(h, j + d)
       /\ v.cache = r.cache /\ ~ v.done
  BY <1>2, <1>13, <1>14, <1>15 DEF Reads
<1>17. p + d \in h.currpos .. h.currpos + n /\ b + d <= y
  BY <1>1, <1>2, <1>7
<1> QED
  BY <1>1, <1>2, <1>7, <1>11, <1>13, <1>16, <1>17 DEF Looping

(* The sector in which reading to the end of the file leaves the handle.   *)
EndUpto(z) == IF z % ClusterSize = 0 THEN sectors_per_cluster ELSE (z % ClusterSize) \div SectorSize

(* The bytes a read of n gets.                                             *)
Gets(h, n) == IF n <= h.fileSize - h.currpos THEN n ELSE h.fileSize - h.currpos

(* In byte b of sector u of cluster k, before the end of the file.         *)
Inside(g, h, k, u, b) ==
  /\ k \in 0 .. ClustersFor(h.fileSize) - 1 /\ u \in 0 .. sectors_per_cluster - 1 /\ b \in 0 .. SectorSize - 1
  /\ g.currpos = ByteNo(k, u, b) /\ g.currpos < h.fileSize /\ Sits(g, h, k, u)

(* At the end of it, after reading so far.                                 *)
AtTheEnd(g, h) ==
  g.currpos = h.fileSize /\ Sits(g, h, ClustersFor(h.fileSize) - 1, EndUpto(h.fileSize))

Stopped(r, h, n) ==
  /\ r \in Reads(h) /\ r.done /\ r.cache \in {Empty, next}
  /\ r.h.currpos = h.currpos + Gets(h, n) /\ r.got = Places(h, Gets(h, n))
  /\ AtTheEnd(r.h, h) \/ \E k, u, b \in Nat : Inside(r.h, h, k, u, b)

(* Turns that are left, counted in such a way that each takes one away.    *)
Stage(z, k, u, b) ==
  IF u = Avail(z, k) THEN (IF k = ClustersFor(z) - 1 THEN 0 ELSE 1)
  ELSE IF b # Bytes(z, k, u) THEN 0 ELSE IF Bytes(z, k, u) = 0 THEN 1 ELSE 2
Rank(r, h, n, k, u) ==
  3 * (n - (r.h.currpos - h.currpos)) + Stage(h.fileSize, k, u, r.byteUpto)

(* The next bytes of the sector, and perhaps the last that are wanted.     *)
LEMMA StepTakes ==
  ASSUME disk \in Disks, RootIsShort, NEW h, Chained(h), h.currpos \in Nat, NEW n \in Nat, NEW r, NEW k, NEW u,
         Looping(r, h, n, k, u), u # Avail(h.fileSize, k), r.byteUpto # Bytes(h.fileSize, k, u),
         NEW v, v = ReadStep(n, r)
  PROVE  Stopped(v, h, n) \/ (Looping(v, h, n, k, u) /\ Rank(v, h, n, k, u) < Rank(r, h, n, k, u))
<1>1. PICK z, m, p, b, y, p0 : p0 = h.currpos /\ p0 \in Nat /\ z = h.fileSize /\ m = ClustersFor(z) /\ p = r.h.currpos /\ b = r.byteUpto
        /\ y = Bytes(z, k, u)
  OBVIOUS
<1>2. /\ p0 \in Nat /\ r \in Reads(h) /\ Sits(r.h, h, k, u) /\ k \in 0 .. m - 1 /\ ~ r.done
      /\ u \in 0 .. Avail(z, k) /\ p \in p0 .. p0 + n /\ r.got = Places(h, p - p0)
      /\ b <= y /\ p = ByteNo(k, u, b) /\ b \in Nat /\ p \in Int
  BY <1>1 DEF Looping, Reads, Handle
<1>3. /\ z \in Nat \ {0} /\ m \in Nat \ {0} /\ k \in Nat
      /\ Avail(z, k) \in 1 .. sectors_per_cluster
      /\ \A x \in 0 .. Avail(z, k) - 1 : Edges(z, k, x)
  <2>1. z \in Nat \ {0} /\ m \in Nat \ {0}
    BY <1>1, ChainedIs
  <2> QED
    BY <1>1, <1>2, <2>1, EdgesAre
<1>4. SectorSize \in Nat \ {0} /\ sectors_per_cluster \in Nat \ {0}
  BY DiskIs
<1>5. u \in 0 .. Avail(z, k) - 1 /\ u \in 0 .. sectors_per_cluster - 1 /\ u \in Nat
  <2>1. u \in 0 .. Avail(z, k) /\ u # Avail(z, k)
    BY <1>1, <1>2
  <2> QED
    BY ONLY <1>3, <1>4, <2>1
<1>6. y \in 0 .. SectorSize /\ ByteNo(k, u, y) <= z /\ y \in Nat
  BY <1>1, <1>3, <1>4, <1>5 DEF Edges
<1>7. PICK j, left : j = p - p0 /\ left = n - Len(r.got)
  OBVIOUS
<1>8. j \in Nat /\ left = n - j /\ left \in Nat
  <2>1. j \in Nat /\ j <= n
    BY <1>2, <1>7
  <2>2. Len(r.got) = j
    BY <1>2, <1>7, <2>1, PlacesAre
  <2> QED
    BY <1>7, <2>1, <2>2
<1>9. /\ y < b \/ y - b > left => v = [Took(r, left) EXCEPT !.done = TRUE]
      /\ ~ (y < b \/ y - b > left) => v = Took(r, y - b)
  <2>1. u # Avail(z, k) /\ b # y
    BY <1>1
  <2>2. Turn(r, h, n, k, u, v)
    BY <1>1, <1>2, ReadStepIs
  <2> QED
    BY <1>1, <1>7, <2>1, <2>2 DEF Turn
<1>10. CASE y - b > left
  <2>1. PICK t : t = Took(r, left)
    OBVIOUS
  <2>2. b + left <= y /\ b + left < y /\ p + left <= p0 + n /\ p + left = p0 + n /\ b + left \in Nat
    <3>1. b < y
      BY <1>1, <1>2, <1>6
    <3>2. p = p0 + j
      BY <1>2, <1>7
    <3> QED
      BY ONLY <3>1, <3>2, <1>8, <1>10, n \in Nat, <1>2, <1>6
  <2>3. Looping(t, h, n, k, u) /\ t.byteUpto = b + left /\ t.h.currpos = p + left
    BY <1>1, <1>8, <2>1, <2>2, TookIs
  <2>4. v = [t EXCEPT !.done = TRUE] /\ t \in Reads(h)
    BY <1>9, <1>10, <2>1, <2>3 DEF Looping
  <2>5. /\ v \in Reads(h) /\ v.done /\ v.h = t.h /\ v.cache = t.cache /\ v.got = t.got
    BY <2>4 DEF Reads
  <2>6. v.h.currpos = ByteNo(k, u, b + left) /\ b + left \in 0 .. SectorSize - 1
    <3>1. t.h.currpos = ByteNo(k, u, t.byteUpto)
      BY <1>1, <2>3 DEF Looping
    <3> QED
      BY <1>4, <1>6, <2>2, <2>3, <2>5, <3>1
  <2>7. v.h.currpos < z
    <3>1. ByteNo(k, u, b + left) = ByteNo(k, u, 0) + (b + left)
      BY <1>3, <1>5, <2>2, ByteNoIs
    <3>2. ByteNo(k, u, y) = ByteNo(k, u, 0) + y
      BY <1>3, <1>5, <1>6, ByteNoIs
    <3>3. ByteNo(k, u, 0) \in Nat
      BY <1>3, <1>5, ByteNoIs, 0 \in Nat
    <3> QED
      BY <1>3, <1>6, <2>2, <2>6, <3>1, <3>2, <3>3
  <2>8. v.h.currpos = p0 + n /\ Gets(h, n) = n
    <3>1. v.h.currpos = p0 + n
      BY <1>1, <2>2, <2>3, <2>5
    <3> QED
      BY <1>1, <1>3, <2>7, <3>1 DEF Gets
  <2>9. v.got = Places(h, n)
    <3>1. t.got = Places(h, t.h.currpos - h.currpos)
      BY <2>3 DEF Looping
    <3>2. t.h.currpos - h.currpos = n
      BY <1>1, <1>2, <1>8, <2>2, <2>3
    <3> QED
      BY <2>5, <3>1, <3>2
  <2>10. Inside(v.h, h, k, u, b + left)
    BY <1>1, <1>2, <1>5, <2>3, <2>5, <2>6, <2>7 DEF Inside, Looping
  <2>11. v.cache \in {Empty, next}
    BY <2>3, <2>5 DEF Looping
  <2>12. \E k0, u0, b0 \in Nat : Inside(v.h, h, k0, u0, b0)
    BY <1>3, <1>5, <2>2, <2>10
  <2> QED
    BY <1>1, <2>5, <2>8, <2>9, <2>11, <2>12 DEF Stopped
<1>11. CASE ~ (y - b > left)
  <2>1. PICK d : d = y - b
    OBVIOUS
  <2>2. d \in Nat \ {0} /\ b + d = y /\ d <= left /\ p + d <= p0 + n
    <3>1. b < y
      BY <1>1, <1>2, <1>6
    <3>2. p = p0 + j
      BY <1>2, <1>7
    <3> QED
      BY ONLY <3>1, <3>2, <1>8, <1>11, <2>1, <1>2, <1>6, n \in Nat
  <2>3. v = Took(r, d)
    BY <1>2, <1>6, <1>9, <1>11, <2>1
  <2>4. r.byteUpto + d <= y /\ r.h.currpos + d <= p0 + n /\ d \in Nat
    BY <1>1, <1>6, <2>2
  <2>5. Looping(v, h, n, k, u) /\ v.byteUpto = r.byteUpto + d /\ v.h.currpos = r.h.currpos + d
    BY <1>1, <2>3, <2>4, TookIs
  <2>6. Stage(z, k, u, y) <= 2 /\ Stage(z, k, u, b) = 0 /\ Stage(z, k, u, y) \in Nat
    BY <1>1 DEF Stage
  <2>7. PICK e : e = v.h.currpos
    OBVIOUS
  <2>8. Rank(v, h, n, k, u) = 3 * (n - (e - p0)) + Stage(z, k, u, y) /\ e = p + d
    BY <1>1, <2>2, <2>5, <2>7 DEF Rank
  <2>9. Rank(r, h, n, k, u) = 3 * (n - (p - p0)) + Stage(z, k, u, b)
    BY <1>1 DEF Rank
  <2>10. PICK y1 : y1 = Stage(z, k, u, y)
    OBVIOUS
  <2>11. 3 * (n - (e - p0)) + y1 < 3 * (n - (p - p0)) + 0
    BY ONLY <1>2, <2>2, <2>6, <2>8, <2>10, n \in Nat
  <2>12. Looping(v, h, n, k, u)
    BY <2>5
  <2>13. Rank(v, h, n, k, u) < Rank(r, h, n, k, u)
    BY ONLY <2>6, <2>8, <2>9, <2>10, <2>11
  <2> QED
    BY <2>12, <2>13
<1> QED
  BY <1>10, <1>11

(* On to the next sector of the cluster.                                   *)
LEMMA StepOn ==
  ASSUME disk \in Disks, NEW h, Chained(h), h.currpos \in Nat, NEW n \in Nat, NEW r, NEW k, NEW u,
         Looping(r, h, n, k, u), u # Avail(h.fileSize, k), r.byteUpto = Bytes(h.fileSize, k, u),
         NEW v, v = ReadStep(n, r)
  PROVE  Looping(v, h, n, k, u + 1) /\ Rank(v, h, n, k, u + 1) < Rank(r, h, n, k, u)
<1>1. PICK z, m, p, y, p0 : p0 = h.currpos /\ p0 \in Nat /\ z = h.fileSize /\ m = ClustersFor(z) /\ p = r.h.currpos /\ y = Bytes(z, k, u)
  OBVIOUS
<1>2. /\ p0 \in Nat /\ r \in Reads(h) /\ Sits(r.h, h, k, u) /\ k \in 0 .. m - 1 /\ ~ r.done /\ r.h \in Handle
      /\ u \in 0 .. Avail(z, k) /\ p \in p0 .. p0 + n /\ r.got = Places(h, p - p0)
      /\ p = ByteNo(k, u, y) /\ p \in Int /\ r.byteUpto = y /\ r.cache \in {Empty, next}
  BY <1>1 DEF Looping, Reads, Handle
<1>3. /\ z \in Nat \ {0} /\ m \in Nat \ {0} /\ k \in Nat
      /\ Avail(z, k) \in 1 .. sectors_per_cluster
      /\ \A x \in 0 .. Avail(z, k) - 1 : Edges(z, k, x)
      /\ Bytes(z, k, 0) # 0
  <2>1. z \in Nat \ {0} /\ m \in Nat \ {0}
    BY <1>1, ChainedIs
  <2> QED
    BY <1>1, <1>2, <2>1, EdgesAre
<1>4. SectorSize \in Nat \ {0} /\ sectors_per_cluster \in Nat \ {0}
  BY DiskIs
<1>5. u \in 0 .. Avail(z, k) - 1 /\ u \in Nat /\ u + 1 \in 0 .. Avail(z, k) /\ u + 1 \in Nat /\ Avail(z, k) \in Nat
  BY <1>1, <1>2, <1>3, <1>4
<1>6. Edges(z, k, u)
  BY <1>3, <1>5
<1> DEFINE f == [r.h EXCEPT !.sectorUpto = u + 1]
<1>7. f \in Handle /\ Sits(f, h, k, u + 1) /\ f.currpos = p
  BY <1>1, <1>2, <1>5 DEF Handle, Sits
<1>8. v = [[r EXCEPT !.h = f] EXCEPT !.byteUpto = 0]
  <2>1. v = [r EXCEPT !.h.sectorUpto = u + 1, !.byteUpto = 0]
    <3>1. Turn(r, h, n, k, u, v)
      BY <1>1, <1>2, ReadStepIs
    <3> QED
      BY <1>1, <1>2, <3>1 DEF Turn
  <2> QED
    BY <1>2, <2>1 DEF Reads
<1> HIDE DEF f
<1>9. /\ v \in Reads(h) /\ v.h = f /\ v.byteUpto = 0 /\ v.got = r.got /\ v.cache = r.cache /\ ~ v.done
  <2>1. r \in Reads(h) /\ f \in Handle /\ 0 \in Nat /\ ~ r.done
    BY <1>2, <1>7
  <2> QED
    BY ONLY <2>1, <1>8 DEF Reads
<1>10. Bytes(z, k, u + 1) \in Nat \/ u + 1 = Avail(z, k)
  <2>1. CASE u + 1 # Avail(z, k)
    <3>1. u + 1 \in 0 .. Avail(z, k) - 1
      BY <1>5, <2>1
    <3>2. Edges(z, k, u + 1)
      BY <1>3, <3>1
    <3> QED
      BY <1>4, <3>2 DEF Edges
  <2> QED
    BY <2>1
<1>11. u + 1 # Avail(z, k) \/ k # m - 1 => p = ByteNo(k, u + 1, 0) /\ y = SectorSize
  <2>1. u + 1 # Avail(z, k) \/ k # m - 1 => y = SectorSize
    BY <1>1, <1>6 DEF Edges
  <2>2. ByteNo(k, u, SectorSize) = ByteNo(k, u + 1, 0)
    BY <1>3, <1>5, ByteNoIs, 0 \in Nat
  <2> QED
    BY <1>2, <2>1, <2>2
<1>12. u + 1 = Avail(z, k) /\ k = m - 1 => p = z
  BY <1>1, <1>2, <1>6 DEF Edges
<1>13. Looping(v, h, n, k, u + 1)
  <2>1. u + 1 # Avail(z, k) => v.byteUpto <= Bytes(z, k, u + 1) /\ v.h.currpos = ByteNo(k, u + 1, v.byteUpto)
    BY <1>7, <1>9, <1>10, <1>11
  <2>2. u + 1 = Avail(z, k) => v.h.currpos = IF k = m - 1 THEN z ELSE ByteNo(k, u + 1, 0)
    BY <1>7, <1>9, <1>11, <1>12
  <2> QED
    BY <1>1, <1>2, <1>5, <1>7, <1>9, <2>1, <2>2 DEF Looping
<1>14. Stage(z, k, u + 1, 0) < Stage(z, k, u, y) /\ Stage(z, k, u + 1, 0) \in Nat /\ Stage(z, k, u, y) \in Nat
  <2>0. Stage(z, k, u, y) = IF y = 0 THEN 1 ELSE 2
    BY <1>1 DEF Stage
  <2>1. CASE u + 1 = Avail(z, k) /\ k = m - 1
    <3>1. Stage(z, k, u + 1, 0) = 0
      BY <1>1, <2>1 DEF Stage
    <3> QED
      BY <2>0, <3>1
  <2>2. CASE u + 1 = Avail(z, k) /\ k # m - 1
    <3>1. Stage(z, k, u + 1, 0) = 1
      BY <1>1, <2>2 DEF Stage
    <3> QED
      BY <1>4, <1>11, <2>0, <2>2, <3>1
  <2>3. CASE u + 1 # Avail(z, k)
    <3>1. Stage(z, k, u + 1, 0) \in {0, 1}
      BY <2>3 DEF Stage
    <3> QED
      BY <1>4, <1>11, <2>0, <2>3, <3>1
  <2> QED
    BY <2>1, <2>2, <2>3
<1>15. Rank(v, h, n, k, u + 1) = 3 * (n - (p - p0)) + Stage(z, k, u + 1, 0)
  BY <1>1, <1>7, <1>9 DEF Rank
<1>16. Rank(r, h, n, k, u) = 3 * (n - (p - p0)) + Stage(z, k, u, y)
  BY <1>1, <1>2 DEF Rank
<1> QED
  BY <1>2, <1>13, <1>14, <1>15, <1>16

(* The end of the file is reached.                                         *)
LEMMA StepEnds ==
  ASSUME disk \in Disks, NEW h, Chained(h), h.currpos \in Nat, NEW n \in Nat, NEW r, NEW k, NEW u,
         Looping(r, h, n, k, u), u = Avail(h.fileSize, k), k = ClustersFor(h.fileSize) - 1,
         NEW v, v = ReadStep(n, r)
  PROVE  Stopped(v, h, n)
<1>1. PICK z, m, p0 : p0 = h.currpos /\ p0 \in Nat /\ z = h.fileSize /\ m = ClustersFor(z)
  OBVIOUS
<1>2. /\ r \in Reads(h) /\ Sits(r.h, h, k, u) /\ k \in 0 .. m - 1 /\ ~ r.done /\ r.h \in Handle
      /\ z \in p0 .. p0 + n /\ r.got = Places(h, z - p0) /\ r.h.currpos = z /\ r.cache \in {Empty, next}
      /\ u = Avail(z, k) /\ k = m - 1
  BY <1>1 DEF Looping, Reads
<1>3. /\ z \in Nat \ {0} /\ m \in Nat \ {0} /\ k \in Nat
      /\ Avail(z, k) \in 1 .. sectors_per_cluster
  <2>1. z \in Nat \ {0} /\ m \in Nat \ {0}
    BY <1>1, ChainedIs
  <2> QED
    BY <1>1, <1>2, <2>1, EdgesAre
<1>4. PICK e : e = EndUpto(z)
  OBVIOUS
<1>5. e = IF z % ClusterSize = 0 THEN u ELSE (z % ClusterSize) \div SectorSize
  BY <1>1, <1>2, <1>4 DEF EndUpto, Avail
<1>6. e \in Nat
  <2>1. ClusterSize \in Nat \ {0} /\ SectorSize \in Nat \ {0} /\ sectors_per_cluster \in Nat \ {0}
    BY DiskIs, ByteNoIs, 0 \in Nat
  <2>2. z % ClusterSize \in Nat
    BY <1>3, <2>1, DivModNat
  <2>3. (z % ClusterSize) \div SectorSize \in Nat
    BY <2>1, <2>2, DivModNat
  <2> QED
    BY <1>4, <2>1, <2>3 DEF EndUpto
<1> DEFINE g == [r.h EXCEPT !.sectorUpto = e]
<1>7. g \in Handle /\ Sits(g, h, k, e) /\ g.currpos = z
  BY <1>1, <1>2, <1>6 DEF Handle, Sits
<1>8. v = [[r EXCEPT !.h = g] EXCEPT !.done = TRUE]
  <2>1. Turn(r, h, n, k, u, v)
    BY <1>1, <1>2, ReadStepIs
  <2>2. v = [r EXCEPT !.done = TRUE, !.h.sectorUpto = IF z % ClusterSize = 0 THEN @
                                      ELSE (r.h.currpos % ClusterSize) \div SectorSize]
    BY <1>1, <1>2, <2>1 DEF Turn
  <2>3. r.h.sectorUpto = u /\ r.h.currpos = z
    BY <1>2 DEF Sits
  <2>4. v = [r EXCEPT !.done = TRUE, !.h.sectorUpto = e]
    BY <1>5, <2>2, <2>3
  <2> QED
    BY <1>2, <2>4 DEF Reads
<1> HIDE DEF g
<1>9. /\ v \in Reads(h) /\ v.h = g /\ v.got = r.got /\ v.cache = r.cache /\ v.done
  <2>1. r \in Reads(h) /\ g \in Handle
    BY <1>2, <1>7
  <2> QED
    BY ONLY <2>1, <1>8 DEF Reads
<1>10. Gets(h, n) = z - p0 /\ p0 + (z - p0) = z
  BY <1>1, <1>2, <1>3 DEF Gets
<1>11. AtTheEnd(v.h, h)
  BY <1>1, <1>2, <1>4, <1>7, <1>9 DEF AtTheEnd
<1> QED
  BY <1>1, <1>2, <1>7, <1>9, <1>10, <1>11 DEF Stopped

(* On to the next cluster.                                                 *)
LEMMA StepNext ==
  ASSUME disk \in Disks, NEW h, Chained(h), h.currpos \in Nat, NEW n \in Nat, NEW r, NEW k, NEW u,
         Looping(r, h, n, k, u), u = Avail(h.fileSize, k), k # ClustersFor(h.fileSize) - 1,
         NEW v, v = ReadStep(n, r)
  PROVE  Looping(v, h, n, k + 1, 0) /\ Rank(v, h, n, k + 1, 0) < Rank(r, h, n, k, u)
<1>1. PICK z, m, p, p0, s : p0 = h.currpos /\ p0 \in Nat /\ z = h.fileSize /\ m = ClustersFor(z) /\ p = r.h.currpos
        /\ s = h.startcluster
  OBVIOUS
<1>2. /\ r \in Reads(h) /\ Sits(r.h, h, k, u) /\ k \in 0 .. m - 1 /\ ~ r.done /\ r.h \in Handle
      /\ p \in p0 .. p0 + n /\ r.got = Places(h, p - p0) /\ p = ByteNo(k, u, 0) /\ p \in Int
      /\ r.cache \in {Empty, next} /\ r.byteUpto = 0 /\ u = Avail(z, k) /\ k # m - 1
  BY <1>1 DEF Looping, Reads, Handle
<1>3. /\ z \in Nat \ {0} /\ m \in Nat \ {0} /\ k \in Nat
  <2>1. z \in Nat \ {0} /\ m \in Nat \ {0}
    BY <1>1, ChainedIs
  <2> QED
    BY <1>2, <2>1
<1>4. k + 1 \in 0 .. m - 1 /\ k + 1 \in Nat
  BY <1>2, <1>3
<1>5. u = sectors_per_cluster
  BY <1>1, <1>2, <1>3, EdgesAre
<1>6. /\ Avail(z, k + 1) \in 1 .. sectors_per_cluster /\ Bytes(z, k + 1, 0) # 0
      /\ Edges(z, k + 1, 0) /\ sectors_per_cluster \in Nat
  <2>1. /\ Avail(z, k + 1) \in 1 .. sectors_per_cluster /\ Bytes(z, k + 1, 0) # 0
        /\ \A x \in 0 .. Avail(z, k + 1) - 1 : Edges(z, k + 1, x)
    BY <1>1, <1>3, <1>4, EdgesAre
  <2>2. sectors_per_cluster \in Nat
    BY DiskIs
  <2> QED
    BY <2>1, <2>2
<1>7. PICK c, d : c = Nth(next, s, k + 1) /\ d = Nth(next, s, k + 2)
  OBVIOUS
<1>8. c \in Clusters /\ next[c] = d /\ ~ fatEndCluster(c) /\ next \in Table /\ d \in LinkSet /\ c \in LinkSet
  <2>1. c \in Clusters /\ next[c] = Nth(next, s, (k + 1) + 1)
    BY <1>1, <1>4, <1>7, ChainedIs
  <2>2. (k + 1) + 1 = k + 2
    BY <1>3
  <2> QED
    BY <1>7, <2>1, <2>2, ClustersAre DEF Chained, Table, LinkSet
<1>9. r.h.nextCluster = c /\ r.h.file = h.file /\ r.h.startcluster = s /\ r.h.fileSize = z
  BY <1>1, <1>2, <1>7 DEF Sits
<1>10. Seen(next, r.cache) = next
  BY <1>2 DEF Seen
<1>11. Caching(next, r.cache, c) = next
  BY <1>8, <1>10 DEF Caching
<1> DEFINE g == [file |-> h.file, startcluster |-> s, fileSize |-> z, currentCluster |-> c, nextCluster |-> d,
                 sectorStart |-> SectorStart(c), sectorUpto |-> 0, currpos |-> p]
<1>12. g \in Handle /\ Sits(g, h, k + 1, 0) /\ g.currpos = p
  <2>1. SectorStart(c) \in Int
    <3>1. c \in Int
      BY <1>8, ClustersAre
    <3> QED
      BY <1>6, <3>1 DEF SectorStart, FIRST_DATA_CLUSTER
  <2>2. h.file \in Files \cup {NoFile} /\ s \in LinkSet
    BY <1>1 DEF Chained, Handle
  <2>3. (k + 1) + 1 = k + 2
    BY <1>3
  <2> QED
    BY <1>1, <1>2, <1>3, <1>7, <1>8, <2>1, <2>2, <2>3 DEF Handle, Sits
<1>13. v = [[r EXCEPT !.cache = next] EXCEPT !.h = g]
  <2>1. Turn(r, h, n, k, u, v)
    BY <1>1, <1>2, ReadStepIs
  <2>2. v = [r EXCEPT !.cache = Caching(next, @, r.h.nextCluster),
                     !.h = [fatClusterAnalyse(Seen(next, r.cache),
                              [r.h EXCEPT !.currentCluster = r.h.nextCluster], r.h.nextCluster)
                            EXCEPT !.sectorUpto = 0]]
    BY <1>1, <1>2, <2>1 DEF Turn
  <2>3. [fatClusterAnalyse(next, [r.h EXCEPT !.currentCluster = c], c) EXCEPT !.sectorUpto = 0] = g
    <3>1. fatClusterAnalyse(next, [r.h EXCEPT !.currentCluster = c], c)
            = [[r.h EXCEPT !.currentCluster = c] EXCEPT !.sectorStart = SectorStart(c), !.nextCluster = d]
      BY <1>8 DEF fatClusterAnalyse
    <3>2. r.h \in Handle /\ r.h.currpos = p
      BY <1>1, <1>2
    <3>3. PICK y : y = r.h
      OBVIOUS
    <3>4. PICK b : b = SectorStart(c)
      OBVIOUS
    <3>5. /\ y \in Handle /\ y.currpos = p /\ y.file = h.file /\ y.startcluster = s /\ y.fileSize = z
          /\ fatClusterAnalyse(next, [r.h EXCEPT !.currentCluster = c], c)
               = [[y EXCEPT !.currentCluster = c] EXCEPT !.sectorStart = b, !.nextCluster = d]
          /\ g = [file |-> h.file, startcluster |-> s, fileSize |-> z, currentCluster |-> c, nextCluster |-> d,
                 sectorStart |-> b, sectorUpto |-> 0, currpos |-> p]
      BY <1>9, <3>1, <3>2, <3>3, <3>4
    <3> HIDE DEF g
    <3>7. y = [file |-> y.file, startcluster |-> y.startcluster, fileSize |-> y.fileSize,
               currentCluster |-> y.currentCluster, nextCluster |-> y.nextCluster,
               sectorStart |-> y.sectorStart, sectorUpto |-> y.sectorUpto, currpos |-> y.currpos]
      BY ONLY <3>5 DEF Handle
    <3>8. [y EXCEPT !.currentCluster = c]
            = [file |-> h.file, startcluster |-> s, fileSize |-> z,
               currentCluster |-> c, nextCluster |-> y.nextCluster,
               sectorStart |-> y.sectorStart, sectorUpto |-> y.sectorUpto, currpos |-> p]
      BY ONLY <3>5, <3>7
    <3>9. PICK y1 : y1 = [[y EXCEPT !.currentCluster = c] EXCEPT !.sectorStart = b]
      OBVIOUS
    <3>10. y1 = [file |-> h.file, startcluster |-> s, fileSize |-> z,
                 currentCluster |-> c, nextCluster |-> y.nextCluster,
                 sectorStart |-> b, sectorUpto |-> y.sectorUpto, currpos |-> p]
      BY ONLY <3>8, <3>9
    <3>11. PICK y2 : y2 = [y1 EXCEPT !.nextCluster = d]
      OBVIOUS
    <3>12. y2 = [file |-> h.file, startcluster |-> s, fileSize |-> z,
                 currentCluster |-> c, nextCluster |-> d,
                 sectorStart |-> b, sectorUpto |-> y.sectorUpto, currpos |-> p]
      BY ONLY <3>10, <3>11
    <3>13. [y2 EXCEPT !.sectorUpto = 0] = g
      BY ONLY <3>5, <3>12
    <3>6. [[[y EXCEPT !.currentCluster = c] EXCEPT !.sectorStart = b, !.nextCluster = d] EXCEPT !.sectorUpto = 0] = g
      BY ONLY <3>9, <3>11, <3>13
    <3> QED
      BY <3>5, <3>6
  <2>4. v = [r EXCEPT !.cache = next, !.h = g]
    BY <1>9, <1>10, <1>11, <2>2, <2>3
  <2> QED
    BY <1>2, <2>4 DEF Reads
<1> HIDE DEF g
<1>14. /\ v \in Reads(h) /\ v.h = g /\ v.got = r.got /\ v.cache = next /\ ~ v.done /\ v.byteUpto = 0
  <2>1. r \in Reads(h) /\ g \in Handle /\ next \in Table /\ ~ r.done /\ r.byteUpto = 0
    BY <1>2, <1>8, <1>12
  <2> QED
    BY ONLY <2>1, <1>13 DEF Reads
<1>15. p = ByteNo(k + 1, 0, 0)
  <2>1. 0 \in Nat
    OBVIOUS
  <2> QED
    BY <1>2, <1>3, <1>5, <2>1, ByteNoIs
<1>16. Looping(v, h, n, k + 1, 0)
  <2>1. 0 # Avail(z, k + 1) /\ 0 \in 0 .. Avail(z, k + 1) /\ Bytes(z, k + 1, 0) >= 0
    BY <1>6, DiskIs DEF Edges
  <2> QED
    BY <1>1, <1>2, <1>4, <1>12, <1>14, <1>15, <2>1 DEF Looping
<1>17. Stage(z, k + 1, 0, 0) = 0 /\ Stage(z, k, u, 0) = 1
  <2>1. 0 # Avail(z, k + 1)
    BY <1>6
  <2> QED
    BY <1>1, <1>2, <1>6, <2>1 DEF Stage
<1>18. PICK a : a = 3 * (n - (p - p0))
  OBVIOUS
<1>19. Rank(v, h, n, k + 1, 0) = a + 0
  BY <1>1, <1>12, <1>14, <1>17, <1>18 DEF Rank
<1>20. Rank(r, h, n, k, u) = a + 1
  BY <1>1, <1>2, <1>17, <1>18 DEF Rank
<1>21. a \in Int
  BY <1>1, <1>2, <1>18
<1> QED
  BY <1>16, <1>19, <1>20, <1>21

(* One turn of the loops, whichever it is.                                 *)
LEMMA StepDoes ==
  ASSUME disk \in Disks, RootIsShort, NEW h, Chained(h), h.currpos \in Nat, NEW n \in Nat, NEW r, NEW k, NEW u,
         Looping(r, h, n, k, u), NEW v, v = ReadStep(n, r)
  PROVE  \/ Stopped(v, h, n)
         \/ \E k1, u1 : Looping(v, h, n, k1, u1) /\ Rank(v, h, n, k1, u1) < Rank(r, h, n, k, u)
<1>1. CASE u # Avail(h.fileSize, k) /\ r.byteUpto # Bytes(h.fileSize, k, u)
  BY <1>1, StepTakes
<1>2. CASE u # Avail(h.fileSize, k) /\ r.byteUpto = Bytes(h.fileSize, k, u)
  BY <1>2, StepOn
<1>3. CASE u = Avail(h.fileSize, k) /\ k = ClustersFor(h.fileSize) - 1
  BY <1>3, StepEnds
<1>4. CASE u = Avail(h.fileSize, k) /\ k # ClustersFor(h.fileSize) - 1
  BY <1>4, StepNext
<1> QED
  BY <1>1, <1>2, <1>3, <1>4

(* The turns of the loops, one by one.                                     *)
ReadRun(r, n, m, A) == A = [i \in 0 .. m |-> IF i = 0 THEN r ELSE ReadStep(n, A[i - 1])]

LEMMA ReadRunSteps ==
  ASSUME NEW r, NEW n, NEW m \in Nat, NEW A, ReadRun(r, n, m, A)
  PROVE  /\ A[0] = r /\ \A i \in 0 .. m - 1 : A[i + 1] = ReadStep(n, A[i])
<1>1. A = [i \in 0 .. m |-> IF i = 0 THEN r ELSE ReadStep(n, A[i - 1])]
  BY DEF ReadRun
<1>2. \A i \in 0 .. m : A[i] = IF i = 0 THEN r ELSE ReadStep(n, A[i - 1])
  BY <1>1
<1>3. ASSUME NEW i \in 0 .. m - 1 PROVE A[i + 1] = ReadStep(n, A[i])
  <2>1. i + 1 \in 0 .. m /\ i + 1 # 0 /\ i + 1 - 1 = i
    OBVIOUS
  <2> QED
    BY <1>2, <2>1
<1> QED
  BY <1>2, <1>3

LEMMA ReadRunThere ==
  ASSUME NEW r, NEW n, NEW m \in Nat
  PROVE  \E A : ReadRun(r, n, m, A)
<1> DEFINE S == {j \in Nat : \E h : ReadRun(r, n, j, h)}
<1>1. 0 \in S
  <2> DEFINE h == [j \in 0 .. 0 |-> r]
  <2>1. h = [j \in 0 .. 0 |-> IF j = 0 THEN r ELSE ReadStep(n, h[j - 1])]
    OBVIOUS
  <2>2. ReadRun(r, n, 0, h)
    BY <2>1 DEF ReadRun
  <2> QED
    BY <2>2
<1>2. ASSUME NEW k \in Nat, k \in S PROVE k + 1 \in S
  <2>1. PICK h : ReadRun(r, n, k, h)
    BY <1>2
  <2>2. h[0] = r /\ \A i \in 0 .. k - 1 : h[i + 1] = ReadStep(n, h[i])
    BY <2>1, ReadRunSteps
  <2> DEFINE g == [j \in 0 .. k + 1 |-> IF j = k + 1 THEN ReadStep(n, h[k]) ELSE h[j]]
  <2>3. \A j \in 0 .. k : g[j] = h[j]
    OBVIOUS
  <2>4. g[0] = r /\ g[k + 1] = ReadStep(n, h[k])
    BY <2>2
  <2>5. ASSUME NEW j \in 1 .. k + 1 PROVE g[j] = ReadStep(n, g[j - 1])
    <3>1. CASE j = k + 1
      <4>1. j - 1 = k
        BY <3>1
      <4> QED
        BY <2>3, <2>4, <3>1, <4>1
    <3>2. CASE j # k + 1
      <4>1. j - 1 \in 0 .. k - 1 /\ j - 1 + 1 = j /\ j \in 0 .. k /\ j - 1 \in 0 .. k
        BY <3>2
      <4> QED
        BY <2>2, <2>3, <4>1
    <3> QED
      BY <3>1, <3>2
  <2>6. g = [j \in 0 .. k + 1 |-> g[j]]
    OBVIOUS
  <2> HIDE DEF g
  <2>7. \A j \in 0 .. k + 1 : g[j] = IF j = 0 THEN r ELSE ReadStep(n, g[j - 1])
    BY <2>4, <2>5
  <2>8. [j \in 0 .. k + 1 |-> g[j]] = [j \in 0 .. k + 1 |-> IF j = 0 THEN r ELSE ReadStep(n, g[j - 1])]
    BY ONLY <2>7
  <2>9. ReadRun(r, n, k + 1, g)
    BY ONLY <2>6, <2>8 DEF ReadRun
  <2> QED
    BY <2>9
<1> HIDE DEF S
<1>3. m \in S
  BY <1>1, <1>2, SetInduction
<1> QED
  BY <1>3 DEF S

LEMMA ReadFileIs ==
  ASSUME NEW h, ~ Refuses(h), NEW n \in Nat, NEW m, m = Turns(n), m \in Nat
  PROVE  \E A : ReadRun(Positioned(h), n, m, A) /\ fatReadFile(h, n) = A[m]
<1> DEFINE After == CHOOSE A : ReadRun(Positioned(h), n, m, A)
<1>1. ReadRun(Positioned(h), n, m, After)
  <2> HIDE DEF ReadRun
  <2> QED
    BY ReadRunThere
<1>2. fatReadFile(h, n) = After[m]
  BY Zenon DEF fatReadFile, ReadRun
<1> HIDE DEF After
<1> QED
  BY <1>1, <1>2

(* What is over stays so.                                                  *)
LEMMA StaysStopped ==
  ASSUME NEW h, NEW n, NEW r, Stopped(r, h, n)
  PROVE  Stopped(ReadStep(n, r), h, n)
<1>1. r \in Reads(h) /\ r.done = TRUE
  BY DEF Stopped, Reads
<1>2. ReadStep(n, r) = [r EXCEPT !.done = TRUE]
  BY <1>1 DEF ReadStep
<1>3. [r EXCEPT !.done = TRUE] = r
  BY ONLY <1>1 DEF Reads
<1> QED
  BY <1>2, <1>3

LEMMA RankIs ==
  ASSUME disk \in Disks, NEW h, Chained(h), h.currpos \in Nat, NEW n \in Nat, NEW r, NEW k, NEW u,
         Looping(r, h, n, k, u)
  PROVE  Rank(r, h, n, k, u) \in 0 .. 3 * n + 2
<1>1. PICK p, p0, y : p0 = h.currpos /\ p = r.h.currpos /\ y = Stage(h.fileSize, k, u, r.byteUpto)
  OBVIOUS
<1>2. p0 \in Nat /\ p \in p0 .. p0 + n
  BY <1>1 DEF Looping
<1>3. y \in 0 .. 2
  BY <1>1 DEF Stage
<1>4. Rank(r, h, n, k, u) = 3 * (n - (p - p0)) + y
  BY <1>1 DEF Rank
<1>5. 3 * (n - (p - p0)) + y \in 0 .. 3 * n + 2
  BY ONLY <1>2, <1>3, n \in Nat
<1> QED
  BY <1>4, <1>5

(* From anywhere in the file the loops get what there is, and stop.        *)
LEMMA LoopsEnd ==
  ASSUME disk \in Disks, RootIsShort, NEW h, Chained(h), h.currpos \in Nat, NEW n \in Nat, NEW r,
         NEW k, NEW u, Looping(r, h, n, k, u), NEW m, m = Turns(n), NEW A, ReadRun(r, n, m, A)
  PROVE  Stopped(A[m], h, n)
<1>1. m \in Nat /\ m > 3 * n + 2
  <2>1. sectors_per_cluster \in Nat \ {0}
    BY DiskIs
  <2> QED
    BY <2>1 DEF Turns
<1>2. A[0] = r /\ \A i \in 0 .. m - 1 : A[i + 1] = ReadStep(n, A[i])
  BY <1>1, ReadRunSteps
<1> DEFINE L(i) == \E k1, u1 : Looping(A[i], h, n, k1, u1) /\ i + Rank(A[i], h, n, k1, u1) <= 3 * n + 2
           S == {j \in Nat : j <= m => Stopped(A[j], h, n) \/ L(j)}
<1>3. 0 \in S
  <2>1. PICK e : e = Rank(A[0], h, n, k, u)
    OBVIOUS
  <2>2. Looping(A[0], h, n, k, u) /\ e \in 0 .. 3 * n + 2
    BY <1>2, <2>1, RankIs
  <2>3. 0 + e <= 3 * n + 2
    BY <2>2
  <2> QED
    BY <2>1, <2>2, <2>3
<1>4. ASSUME NEW j \in Nat, j \in S PROVE j + 1 \in S
  <2> SUFFICES ASSUME j + 1 <= m PROVE Stopped(A[j + 1], h, n) \/ L(j + 1)
    OBVIOUS
  <2>1. j \in 0 .. m - 1 /\ j <= m
    BY <1>1
  <2>2. A[j + 1] = ReadStep(n, A[j])
    BY <1>2, <2>1
  <2>3. CASE Stopped(A[j], h, n)
    BY <2>2, <2>3, StaysStopped
  <2>4. CASE L(j)
    <3>1. PICK k1, u1, e1 : /\ Looping(A[j], h, n, k1, u1) /\ e1 = Rank(A[j], h, n, k1, u1)
                            /\ j + e1 <= 3 * n + 2
      BY <2>4
    <3>2. e1 \in 0 .. 3 * n + 2
      BY <3>1, RankIs
    <3>3. CASE Stopped(A[j + 1], h, n)
      BY <3>3
    <3>4. CASE ~ Stopped(A[j + 1], h, n)
      <4>1. PICK k2, u2, e2 : /\ Looping(A[j + 1], h, n, k2, u2) /\ e2 = Rank(A[j + 1], h, n, k2, u2)
                              /\ e2 < e1
        BY <2>2, <3>1, <3>4, StepDoes
      <4>2. e2 \in 0 .. 3 * n + 2
        BY <4>1, RankIs
      <4>3. j + 1 + e2 <= 3 * n + 2
        BY <3>1, <3>2, <4>1, <4>2
      <4> QED
        BY <4>1, <4>3
    <3> QED
      BY <3>3, <3>4
  <2>5. Stopped(A[j], h, n) \/ L(j)
    BY <1>4, <2>1
  <2> QED
    BY <2>3, <2>4, <2>5
<1> HIDE DEF S
<1>5. m \in S
  BY <1>1, <1>3, <1>4, SetInduction
<1>6. Stopped(A[m], h, n) \/ L(m)
  BY <1>1, <1>5 DEF S
<1>7. ~ L(m)
  <2> SUFFICES ASSUME NEW k1, NEW u1, NEW e1, Looping(A[m], h, n, k1, u1), e1 = Rank(A[m], h, n, k1, u1),
                      m + e1 <= 3 * n + 2
               PROVE  FALSE
    OBVIOUS
  <2>1. e1 \in 0 .. 3 * n + 2
    BY RankIs
  <2> QED
    BY <1>1, <2>1
<1> QED
  BY <1>6, <1>7

(* The byte p is byte b of sector u of cluster k.                          *)
Lies(p, k, u, b) ==
  /\ k \in Nat /\ u \in 0 .. sectors_per_cluster - 1 /\ b \in 0 .. SectorSize - 1 /\ p = ByteNo(k, u, b)
  /\ k = p \div ClusterSize /\ u = (p % ClusterSize) \div SectorSize /\ b = p % SectorSize
  /\ k = (p \div SectorSize) \div sectors_per_cluster /\ u = (p \div SectorSize) % sectors_per_cluster

LEMMA LiesIn ==
  ASSUME disk \in Disks, NEW p \in Nat
  PROVE  \E k, u, b : Lies(p, k, u, b)
<1>1. SectorSize \in Nat \ {0} /\ sectors_per_cluster \in Nat \ {0}
  BY DiskIs
<1>2. PICK q, b, c, n : q = p \div SectorSize /\ b = p % SectorSize /\ c = sectors_per_cluster /\ n = SectorSize
  OBVIOUS
<1>3. q \in Nat /\ b \in 0 .. SectorSize - 1 /\ p = SectorSize * q + b
  BY <1>1, <1>2, DivModNat
<1>4. PICK k, u : k = q \div sectors_per_cluster /\ u = q % sectors_per_cluster
  OBVIOUS
<1>5. k \in Nat /\ u \in 0 .. sectors_per_cluster - 1 /\ q = sectors_per_cluster * k + u
  BY <1>1, <1>3, <1>4, DivModNat
<1>6. p = ByteNo(k, u, b)
  <2>1. q = (k * sectors_per_cluster) + u
    BY <1>1, <1>5
  <2>2. p = (q * SectorSize) + b
    BY <1>1, <1>3
  <2> QED
    BY <2>1, <2>2 DEF ByteNo
<1>7. InClusters(p, sectors_per_cluster, SectorSize)
  BY <1>1, SectorsInClusters
<1>8. k = p \div ClusterSize /\ u = (p % ClusterSize) \div SectorSize
  BY <1>2, <1>4, <1>7 DEF InClusters, ClusterSize
<1> QED
  BY <1>2, <1>3, <1>4, <1>5, <1>6, <1>8 DEF Lies

(* A byte before the end is where reading expects one.                     *)
LEMMA LiesWithin ==
  ASSUME disk \in Disks, NEW z \in Nat \ {0}, NEW m, m = ClustersFor(z), NEW p \in Nat, p < z,
         NEW k, NEW u, NEW b, Lies(p, k, u, b)
  PROVE  /\ k \in 0 .. m - 1 /\ u \in 0 .. Avail(z, k) - 1 /\ b <= Bytes(z, k, u)
         /\ u \in 0 .. Avail(z, k) /\ u # Avail(z, k)
<1>0. /\ k \in Nat /\ u \in 0 .. sectors_per_cluster - 1 /\ b \in 0 .. SectorSize - 1 /\ p = ByteNo(k, u, b)
      /\ k = (p \div SectorSize) \div sectors_per_cluster
      /\ SectorSize \in Nat \ {0} /\ sectors_per_cluster \in Nat \ {0}
  BY DiskIs DEF Lies
<1>1. k < m
  <2>1. (p \div SectorSize) \div sectors_per_cluster < ClustersFor(z)
    BY WithinSize
  <2> QED
    BY <1>0, <2>1
<1>2. /\ m \in Nat \ {0} /\ Avail(z, k) \in 1 .. sectors_per_cluster
      /\ k # m - 1 => Avail(z, k) = sectors_per_cluster
      /\ \A x \in 0 .. Avail(z, k) - 1 : Edges(z, k, x)
  <2>1. m \in Nat
    BY SizeInClusters
  <2>2. k \in 0 .. m - 1
    BY <1>0, <1>1, <2>1
  <2> QED
    BY <2>2, EdgesAre
<1>3. PICK a : a = Avail(z, k)
  OBVIOUS
<1>4. u < a
  <2>1. CASE k # m - 1
    BY <1>0, <1>2, <1>3, <2>1
  <2>2. CASE k = m - 1
    <3> SUFFICES ASSUME a <= u PROVE FALSE
      BY <1>0, <1>2, <1>3
    <3>0. PICK a1 : a1 = a - 1
      OBVIOUS
    <3>1. a1 \in 0 .. Avail(z, k) - 1 /\ a1 + 1 = Avail(z, k) /\ a \in Nat /\ a1 \in Nat /\ a1 + 1 = a
      BY <1>0, <1>2, <1>3, <3>0
    <3>2. PICK y : y = Bytes(z, k, a1)
      OBVIOUS
    <3>3. y \in 0 .. SectorSize /\ ByteNo(k, a1, y) = z
      BY <1>2, <2>2, <3>1, <3>2 DEF Edges
    <3>4. ByteNo(k, a1, y) = ByteNo(k, a1, 0) + y
      <4>1. y \in Nat
        BY <1>0, <3>3
      <4> QED
        BY ONLY disk \in Disks, <1>0, <3>1, <4>1, ByteNoIs
    <3>5. ByteNo(k, a1, SectorSize) = ByteNo(k, a1, 0) + SectorSize
      <4>1. SectorSize \in Nat
        BY <1>0
      <4> QED
        BY ONLY disk \in Disks, <1>0, <3>1, <4>1, ByteNoIs
    <3>12. ByteNo(k, a1, 0) \in Nat /\ ByteNo(k, a1, SectorSize) = ByteNo(k, a, 0)
      <4>1. ByteNo(k, a1, 0) \in Nat /\ ByteNo(k, a1, SectorSize) = ByteNo(k, a1 + 1, 0)
        BY ONLY disk \in Disks, <1>0, <3>1, 0 \in Nat, ByteNoIs
      <4> QED
        BY <3>1, <4>1
    <3>6. z <= ByteNo(k, a, 0)
      BY <1>0, <3>3, <3>4, <3>5, <3>12
    <3>7. ByteNo(k, a, 0) = k * ClusterSize + a * SectorSize + 0 /\ ByteNo(k, a, 0) \in Nat
          /\ a * SectorSize \in Nat /\ k * ClusterSize \in Nat
      <4>1. PICK o : o = 0 /\ o \in Nat
        OBVIOUS
      <4>2. k \in Nat /\ a \in Nat /\ o \in Nat
        BY <1>0, <3>1, <4>1
      <4>3. ByteNo(k, a, o) \in Nat
        BY ONLY disk \in Disks, <4>2, ByteNoIs
      <4>4. a * SectorSize \in Nat
        BY ONLY disk \in Disks, <4>2, ByteNoIs
      <4>5. k * ClusterSize \in Nat
        BY ONLY disk \in Disks, <4>2, ByteNoIs
      <4>6. ByteNo(k, a, o) = k * ClusterSize + a * SectorSize + o
        BY ONLY disk \in Disks, <4>2, ByteNoIs
      <4> QED
        BY <4>1, <4>3, <4>4, <4>5, <4>6
    <3>8. ByteNo(k, u, b) = k * ClusterSize + u * SectorSize + b /\ u * SectorSize \in Nat
      <4>1. u \in Nat /\ b \in Nat
        BY <1>0
      <4> QED
        BY <1>0, <4>1, ByteNoIs
    <3>9. a * SectorSize <= u * SectorSize
      BY <1>0, <3>1, TimesOrder
    <3>10. PICK x0, x1, x2 : x0 = k * ClusterSize /\ x1 = a * SectorSize /\ x2 = u * SectorSize
      OBVIOUS
    <3>11. x0 \in Nat /\ x1 \in Nat /\ x2 \in Nat /\ x1 <= x2 /\ ByteNo(k, a, 0) = x0 + x1 + 0
           /\ p = x0 + x2 + b /\ b \in Nat
      BY <1>0, <3>7, <3>8, <3>9, <3>10
    <3> QED
      BY ONLY <3>6, <3>11, p < z, p \in Nat, z \in Nat \ {0}
  <2> QED
    BY <2>1, <2>2
<1>5. u \in 0 .. Avail(z, k) - 1 /\ u \in Nat
  BY <1>0, <1>2, <1>3, <1>4
<1>6. b <= Bytes(z, k, u)
  <2>1. Edges(z, k, u)
    BY <1>2, <1>5
  <2>2. CASE u + 1 # Avail(z, k) \/ k # m - 1
    BY <1>0, <2>1, <2>2 DEF Edges
  <2>3. CASE u + 1 = Avail(z, k) /\ k = m - 1
    <3>1. PICK y : y = Bytes(z, k, u)
      OBVIOUS
    <3>2. y \in 0 .. SectorSize /\ ByteNo(k, u, y) = z /\ y \in Nat /\ b \in Nat
      <4>1. y \in 0 .. SectorSize /\ ByteNo(k, u, y) = z
        BY <2>1, <2>3, <3>1 DEF Edges
      <4> QED
        BY <1>0, <4>1
    <3>3. ByteNo(k, u, y) = ByteNo(k, u, 0) + y
      BY <1>0, <1>5, <3>2, ByteNoIs
    <3>4. ByteNo(k, u, b) = ByteNo(k, u, 0) + b
      BY <1>0, <1>5, <3>2, ByteNoIs
    <3>5. ByteNo(k, u, 0) \in Nat
      BY <1>0, <1>5, ByteNoIs, 0 \in Nat
    <3> QED
      BY <1>0, <3>1, <3>2, <3>3, <3>4, <3>5
  <2> QED
    BY <2>2, <2>3
<1> QED
  BY <1>0, <1>1, <1>2, <1>5, <1>6

(* A read that has got nothing yet.                                        *)
Fresh(r, h) ==
  r \in Reads(h) /\ ~ r.done /\ r.cache \in {Empty, next} /\ r.got = <<>> /\ r.h.currpos = h.currpos

LEMMA FreshIs ==
  ASSUME NEW h, NEW r, Fresh(r, h), NEW n \in Nat, h.currpos \in Nat
  PROVE  /\ r.h.currpos \in h.currpos .. h.currpos + n
         /\ r.got = Places(h, r.h.currpos - h.currpos)
<1>1. r.h.currpos - h.currpos = 0
  BY DEF Fresh
<1>2. Places(h, 0) = <<>>
  BY PlacesAre, 0 \in Nat
<1> QED
  BY <1>1, <1>2 DEF Fresh

(* Before the end of the file.                                             *)
LEMMA InsideLoops ==
  ASSUME disk \in Disks, NEW h, Chained(h), NEW p \in Nat, p = h.currpos, p < h.fileSize,
         NEW k, NEW u, NEW b, Lies(p, k, u, b), NEW r, Fresh(r, h), Sits(r.h, h, k, u), r.byteUpto = b,
         NEW n \in Nat
  PROVE  Looping(r, h, n, k, u)
<1>1. PICK z, m : z = h.fileSize /\ m = ClustersFor(z)
  OBVIOUS
<1>2. z \in Nat \ {0} /\ m \in Nat \ {0}
  BY <1>1, ChainedIs
<1>3. /\ k \in 0 .. m - 1 /\ b <= Bytes(z, k, u)
      /\ u \in 0 .. Avail(z, k) /\ u # Avail(z, k)
  BY <1>1, <1>2, LiesWithin
<1>4. p = ByteNo(k, u, b)
  BY DEF Lies
<1>5. /\ r.h.currpos \in h.currpos .. h.currpos + n
      /\ r.got = Places(h, r.h.currpos - h.currpos)
  BY FreshIs
<1> QED
  BY <1>1, <1>3, <1>4, <1>5 DEF Fresh, Looping

(* At the end of a last cluster that is full.                              *)
LEMMA FullEndLoops ==
  ASSUME disk \in Disks, NEW h, Chained(h), h.currpos = h.fileSize, h.fileSize % ClusterSize = 0,
         NEW r, Fresh(r, h), Sits(r.h, h, ClustersFor(h.fileSize) - 1, sectors_per_cluster - 1),
         r.byteUpto = SectorSize, NEW n \in Nat
  PROVE  Looping(r, h, n, ClustersFor(h.fileSize) - 1, sectors_per_cluster - 1)
<1>1. PICK z, m, k, u : z = h.fileSize /\ m = ClustersFor(z) /\ k = m - 1 /\ u = sectors_per_cluster - 1
  OBVIOUS
<1>2. z \in Nat \ {0} /\ m \in Nat \ {0} /\ k \in 0 .. m - 1
  <2>1. z \in Nat \ {0} /\ m \in Nat \ {0}
    BY <1>1, ChainedIs
  <2> QED
    BY <1>1, <2>1
<1>3. sectors_per_cluster \in Nat \ {0} /\ SectorSize \in Nat \ {0}
  BY DiskIs
<1>4. Avail(z, k) = sectors_per_cluster /\ Bytes(z, k, u) = SectorSize
  BY <1>1 DEF Avail, Bytes
<1>5. u \in 0 .. Avail(z, k) /\ u # Avail(z, k) /\ u + 1 = Avail(z, k) /\ u \in 0 .. Avail(z, k) - 1
  BY <1>1, <1>3, <1>4
<1>6. Edges(z, k, u)
  BY <1>1, <1>2, <1>5, EdgesAre
<1>7. ByteNo(k, u, SectorSize) = z
  BY <1>1, <1>4, <1>5, <1>6 DEF Edges
<1>8. /\ r.h.currpos \in h.currpos .. h.currpos + n
      /\ r.got = Places(h, r.h.currpos - h.currpos)
  BY <1>1, <1>2, FreshIs
<1>9. r.byteUpto <= Bytes(z, k, u) /\ r.h.currpos = ByteNo(k, u, r.byteUpto)
  BY <1>1, <1>3, <1>4, <1>7 DEF Fresh
<1>10. Looping(r, h, n, k, u)
  BY <1>1, <1>2, <1>5, <1>8, <1>9 DEF Fresh, Looping
<1> QED
  BY <1>1, <1>10

(* At the end as a read leaves it.                                         *)
LEMMA EndLoops ==
  ASSUME disk \in Disks, NEW h, Chained(h), h.currpos = h.fileSize,
         NEW r, Fresh(r, h), Sits(r.h, h, ClustersFor(h.fileSize) - 1, EndUpto(h.fileSize)),
         r.byteUpto = h.fileSize % SectorSize, NEW n \in Nat
  PROVE  Looping(r, h, n, ClustersFor(h.fileSize) - 1, EndUpto(h.fileSize))
<1>1. PICK z, m, k, u : z = h.fileSize /\ m = ClustersFor(z) /\ k = m - 1 /\ u = EndUpto(z)
  OBVIOUS
<1>2. z \in Nat \ {0} /\ m \in Nat \ {0} /\ k \in 0 .. m - 1
  <2>1. z \in Nat \ {0} /\ m \in Nat \ {0}
    BY <1>1, ChainedIs
  <2> QED
    BY <1>1, <2>1
<1>3. sectors_per_cluster \in Nat \ {0} /\ SectorSize \in Nat \ {0}
  BY DiskIs
<1>4. /\ Avail(z, k) \in 1 .. sectors_per_cluster
      /\ \A x \in 0 .. Avail(z, k) - 1 : Edges(z, k, x)
  BY <1>1, <1>2, EdgesAre
<1>5. InClusters(z, sectors_per_cluster, SectorSize)
  BY <1>2, <1>3, SectorsInClusters
<1>6. PICK part, o : part = z % ClusterSize /\ o = z % SectorSize
  OBVIOUS
<1>7. part % SectorSize = o /\ o \in 0 .. SectorSize - 1
  <2>1. part % SectorSize = o
    BY <1>5, <1>6 DEF InClusters, ClusterSize
  <2> QED
    BY <1>2, <1>3, <1>6, <2>1, DivModNat
<1>8. part = 0 => o = 0
  BY <1>3, <1>7
<1>9. /\ r.h.currpos \in h.currpos .. h.currpos + n
      /\ r.got = Places(h, r.h.currpos - h.currpos)
  BY <1>1, <1>2, FreshIs
<1>10. r.h.currpos = z
  BY <1>1 DEF Fresh
<1>11. CASE part = 0
  <2>1. u = Avail(z, k) /\ u \in 0 .. Avail(z, k)
    <3>1. u = sectors_per_cluster /\ Avail(z, k) = sectors_per_cluster
      BY <1>1, <1>6, <1>11 DEF EndUpto, Avail
    <3> QED
      BY <1>3, <3>1
  <2>2. r.byteUpto = 0
    BY <1>1, <1>6, <1>8, <1>11
  <2>3. Looping(r, h, n, k, u)
    BY <1>1, <1>2, <1>9, <1>10, <2>1, <2>2 DEF Fresh, Looping
  <2> QED
    BY <1>1, <2>3
<1>12. CASE part # 0
  <2>1. u = part \div SectorSize /\ Avail(z, k) = (part \div SectorSize) + 1
    BY <1>1, <1>6, <1>12 DEF EndUpto, Avail
  <2>2. u + 1 = Avail(z, k) /\ u \in Nat
    <3>1. ClusterSize \in Nat \ {0}
      BY <1>5 DEF InClusters, ClusterSize
    <3>2. part \in Nat
      BY <1>2, <1>6, <3>1, DivModNat
    <3>3. part \div SectorSize \in Nat
      BY <1>3, <3>2, DivModNat
    <3> QED
      BY <2>1, <3>3
  <2>3. u \in 0 .. Avail(z, k) - 1 /\ u \in 0 .. Avail(z, k) /\ u # Avail(z, k)
    BY <1>3, <1>4, <2>2
  <2>4. Bytes(z, k, u) = o
    BY <1>1, <1>6, <1>7, <1>12, <2>1 DEF Bytes
  <2>5. ByteNo(k, u, o) = z
    BY <1>1, <1>4, <2>2, <2>3, <2>4 DEF Edges
  <2>6. r.byteUpto <= Bytes(z, k, u) /\ r.h.currpos = ByteNo(k, u, r.byteUpto)
    BY <1>1, <1>6, <1>7, <1>10, <2>4, <2>5
  <2>7. Looping(r, h, n, k, u)
    BY <1>1, <1>2, <1>9, <2>3, <2>6 DEF Fresh, Looping
  <2> QED
    BY <1>1, <2>7
<1> QED
  BY <1>11, <1>12

(* A handle in a cluster of the file, from which a read may begin.         *)
Begins(h) ==
  /\ Chained(h) /\ h.currpos \in 0 .. h.fileSize
  /\ h.nextCluster # 0 => AtTheEnd(h, h) \/ \E k, u, b \in Nat : Inside(h, h, k, u, b)
  /\ h.nextCluster = 0 =>
       h.currentCluster = Nth(next, h.startcluster,
                              IF h.currpos = h.fileSize THEN ClustersFor(h.fileSize) - 1
                              ELSE h.currpos \div ClusterSize)

LEMMA InsideLies ==
  ASSUME disk \in Disks, NEW g, NEW h, NEW k \in Nat, NEW u \in Nat, NEW b \in Nat, Inside(g, h, k, u, b),
         NEW p, p = g.currpos
  PROVE  p \in Nat /\ Lies(p, k, u, b)
<1>1. u \in 0 .. sectors_per_cluster - 1 /\ b \in 0 .. SectorSize - 1 /\ p = ByteNo(k, u, b)
  BY DEF Inside
<1>2. PICK j : j = (k * sectors_per_cluster) + u
  OBVIOUS
<1>3. p \div SectorSize = j /\ p % SectorSize = b /\ j \div sectors_per_cluster = k
      /\ j % sectors_per_cluster = u /\ p \in Nat
  BY <1>1, <1>2, SectorNo
<1>4. PICK k1, u1, b1 : Lies(p, k1, u1, b1)
  BY <1>3, LiesIn
<1>5. k1 = k /\ u1 = u /\ b1 = b
  BY <1>3, <1>4 DEF Lies
<1> QED
  BY <1>3, <1>4, <1>5

LEMMA FreshRecord ==
  ASSUME NEW h, NEW g \in Handle, g.currpos = h.currpos, NEW b \in Nat, next \in Table,
         NEW c \in {Empty, next}, NEW r,
         r = [h |-> g, byteUpto |-> b, got |-> <<>>, cache |-> c, done |-> FALSE]
  PROVE  Fresh(r, h) /\ r.h = g /\ r.byteUpto = b
<1>1. <<>> \in {Places(h, j) : j \in Nat}
  BY PlacesAre, 0 \in Nat
<1>2. r \in Reads(h)
  BY <1>1 DEF Reads
<1> QED
  BY <1>2 DEF Fresh

(* Where there is nothing to work out.                                     *)
LEMMA KeptLoops ==
  ASSUME disk \in Disks, NEW h, Begins(h), h.nextCluster # 0, cachedBuf \in {Empty, next}, NEW n \in Nat
  PROVE  \E k, u : Looping(Positioned(h), h, n, k, u)
<1>1. PICK r, p : r = Positioned(h) /\ p = h.currpos
  OBVIOUS
<1>2. Chained(h) /\ h \in Handle /\ next \in Table /\ p \in Nat /\ h.fileSize \in Nat
  BY <1>1 DEF Begins, Chained, Handle
<1>3. r = [h |-> h, byteUpto |-> p % SectorSize, got |-> <<>>, cache |-> cachedBuf, done |-> FALSE]
  BY <1>1 DEF Positioned
<1>4. p % SectorSize \in Nat
  <2>1. SectorSize \in Nat \ {0}
    BY DiskIs
  <2>2. p % SectorSize \in 0 .. SectorSize - 1
    BY <1>2, <2>1, DivModNat
  <2> QED
    BY <2>1, <2>2
<1>5. Fresh(r, h) /\ r.h = h /\ r.byteUpto = p % SectorSize
  BY <1>1, <1>2, <1>3, <1>4, FreshRecord
<1>6. CASE AtTheEnd(h, h)
  <2>1. p = h.fileSize /\ Sits(h, h, ClustersFor(h.fileSize) - 1, EndUpto(h.fileSize))
    BY <1>1, <1>6 DEF AtTheEnd
  <2>2. Looping(r, h, n, ClustersFor(h.fileSize) - 1, EndUpto(h.fileSize))
    BY <1>1, <1>2, <1>5, <2>1, EndLoops
  <2> QED
    BY <1>1, <2>2
<1>7. CASE \E k, u, b \in Nat : Inside(h, h, k, u, b)
  <2>1. PICK k, u, b \in Nat : Inside(h, h, k, u, b)
    BY <1>7
  <2>2. Lies(p, k, u, b)
    BY <1>1, <2>1, InsideLies
  <2>3. p < h.fileSize /\ Sits(h, h, k, u)
    BY <1>1, <2>1 DEF Inside
  <2>4. b = p % SectorSize
    BY <2>2 DEF Lies
  <2>5. Looping(r, h, n, k, u)
    BY <1>1, <1>2, <1>5, <2>2, <2>3, <2>4, InsideLoops
  <2> QED
    BY <1>1, <2>5
<1> QED
  BY <1>6, <1>7 DEF Begins

(* A handle moved to sector u of the cluster it is in.                     *)
LEMMA AnalysedSits ==
  ASSUME disk \in Disks, NEW h, Chained(h), cachedBuf \in {Empty, next},
         NEW k \in 0 .. ClustersFor(h.fileSize) - 1, h.currentCluster = Nth(next, h.startcluster, k),
         NEW u \in Nat,
         NEW g, g = [fatClusterAnalyse(Seen(next, cachedBuf), h, h.currentCluster) EXCEPT !.sectorUpto = u]
  PROVE  Sits(g, h, k, u) /\ g.currpos = h.currpos /\ Caching(next, cachedBuf, h.currentCluster) = next
<1>1. PICK c, d : c = h.currentCluster /\ d = Nth(next, h.startcluster, k + 1)
  OBVIOUS
<1>2. c \in Clusters /\ next[c] = d /\ next \in Table /\ h \in Handle /\ ~ fatEndCluster(c)
  BY <1>1, ChainedIs, ClustersAre DEF Chained
<1>3. d \in LinkSet
  BY <1>2 DEF Table
<1>4. PICK b : b = SectorStart(c)
  OBVIOUS
<1>5. b \in Int
  <2>1. c \in Int /\ sectors_per_cluster \in Int
    BY <1>2, ClustersAre, DiskIs
  <2> QED
    BY <1>4, <2>1 DEF SectorStart, FIRST_DATA_CLUSTER
<1>6. Seen(next, cachedBuf) = next
  BY DEF Seen
<1>7. g = [[h EXCEPT !.sectorStart = b, !.nextCluster = d] EXCEPT !.sectorUpto = u]
  BY <1>1, <1>2, <1>4, <1>6 DEF fatClusterAnalyse
<1>8. PICK y : y = [h EXCEPT !.sectorStart = b, !.nextCluster = d]
  OBVIOUS
<1>9. /\ y \in Handle /\ y.file = h.file /\ y.startcluster = h.startcluster /\ y.fileSize = h.fileSize
      /\ y.currentCluster = c /\ y.nextCluster = d /\ y.sectorStart = b /\ y.currpos = h.currpos
  BY ONLY <1>1, <1>2, <1>3, <1>5, <1>8 DEF Handle
<1>10. g = [y EXCEPT !.sectorUpto = u]
  BY <1>7, <1>8
<1>11. /\ g \in Handle /\ g.file = h.file /\ g.startcluster = h.startcluster /\ g.fileSize = h.fileSize
       /\ g.currentCluster = c /\ g.nextCluster = d /\ g.sectorStart = b /\ g.currpos = h.currpos
       /\ g.sectorUpto = u
  BY ONLY <1>9, <1>10, u \in Nat DEF Handle
<1>12. Caching(next, cachedBuf, c) = next
  BY <1>2, <1>6 DEF Caching
<1> QED
  BY <1>1, <1>4, <1>11, <1>12 DEF Sits

(* Where the sector is worked out from the position.                       *)
LEMMA MovedLoops ==
  ASSUME disk \in Disks, NEW h, Begins(h), h.nextCluster = 0, cachedBuf \in {Empty, next}, NEW n \in Nat
  PROVE  \E k, u : Looping(Positioned(h), h, n, k, u)
<1>1. PICK r, p, z, m, c : r = Positioned(h) /\ p = h.currpos /\ z = h.fileSize /\ m = ClustersFor(z)
        /\ c = h.currentCluster
  OBVIOUS
<1>2. /\ Chained(h) /\ h \in Handle /\ next \in Table /\ p \in Nat /\ p <= z
      /\ c = Nth(next, h.startcluster, IF p = z THEN m - 1 ELSE p \div ClusterSize)
  BY <1>1 DEF Begins, Chained, Handle
<1>3. z \in Nat \ {0} /\ m \in Nat \ {0}
  BY <1>1, <1>2, ChainedIs
<1>4. SectorSize \in Nat \ {0} /\ sectors_per_cluster \in Nat \ {0}
  BY DiskIs
<1>5. PICK f, u, b : /\ f = AtFullEnd(h)
                     /\ u = (IF f THEN sectors_per_cluster - 1 ELSE (p % ClusterSize) \div SectorSize)
                     /\ b = (IF f THEN SectorSize ELSE p % SectorSize)
  OBVIOUS
<1>6. f <=> p = z /\ z % ClusterSize = 0
  BY <1>1, <1>3, <1>5 DEF AtFullEnd
<1> DEFINE g == [fatClusterAnalyse(Seen(next, cachedBuf), h, c) EXCEPT !.sectorUpto = u]
<1>7. r = [h |-> g, byteUpto |-> b, got |-> <<>>, cache |-> Caching(next, cachedBuf, c), done |-> FALSE]
  BY <1>1, <1>5 DEF Positioned
<1>8. PICK k1, u1, b1 : Lies(p, k1, u1, b1)
  BY <1>2, LiesIn
<1>9. /\ k1 = p \div ClusterSize /\ u1 = (p % ClusterSize) \div SectorSize /\ b1 = p % SectorSize
      /\ k1 \in Nat /\ u1 \in Nat /\ b1 \in Nat
  BY <1>4, <1>8 DEF Lies
<1>10. u \in Nat /\ b \in Nat
  BY <1>4, <1>5, <1>9
<1>11. PICK k : k = IF p = z THEN m - 1 ELSE k1
  OBVIOUS
<1>12. k \in 0 .. m - 1
  <2>1. CASE p = z
    BY <1>3, <1>11, <2>1
  <2>2. CASE p # z
    <3>1. p < z
      BY <1>2, <1>3, <2>2
    <3> QED
      BY <1>1, <1>2, <1>3, <1>8, <1>11, <2>2, <3>1, LiesWithin
  <2> QED
    BY <2>1, <2>2
<1>13. c = Nth(next, h.startcluster, k)
  BY <1>2, <1>9, <1>11
<1>14. Sits(g, h, k, u) /\ g.currpos = h.currpos /\ Caching(next, cachedBuf, c) = next
  <2>1. g = [fatClusterAnalyse(Seen(next, cachedBuf), h, h.currentCluster) EXCEPT !.sectorUpto = u]
    BY <1>1
  <2> HIDE DEF g
  <2>2. k \in 0 .. ClustersFor(h.fileSize) - 1 /\ h.currentCluster = Nth(next, h.startcluster, k)
    BY <1>1, <1>12, <1>13
  <2>3. Sits(g, h, k, u) /\ g.currpos = h.currpos /\ Caching(next, cachedBuf, h.currentCluster) = next
    <3>1. PICK y : y = g
      OBVIOUS
    <3>2. Chained(h) /\ cachedBuf \in {Empty, next} /\ u \in Nat
      BY <1>2, <1>10
    <3>3. y = [fatClusterAnalyse(Seen(next, cachedBuf), h, h.currentCluster) EXCEPT !.sectorUpto = u]
      BY <2>1, <3>1
    <3>4. Sits(y, h, k, u) /\ y.currpos = h.currpos /\ Caching(next, cachedBuf, h.currentCluster) = next
      BY ONLY disk \in Disks, <2>2, <3>2, <3>3, AnalysedSits
    <3> QED
      BY <3>1, <3>4
  <2> QED
    BY <1>1, <2>3
<1>15. g \in Handle
  BY <1>14 DEF Sits
<1> HIDE DEF g
<1>16. Fresh(r, h) /\ r.h = g /\ r.byteUpto = b
  <2>1. r = [h |-> g, byteUpto |-> b, got |-> <<>>, cache |-> next, done |-> FALSE]
    BY <1>7, <1>14
  <2> QED
    BY <1>2, <1>10, <1>14, <1>15, <2>1, FreshRecord
<1>17. CASE f
  <2>1. k = ClustersFor(h.fileSize) - 1 /\ u = sectors_per_cluster - 1 /\ b = SectorSize
    BY <1>1, <1>5, <1>6, <1>11, <1>17
  <2>2. h.currpos = h.fileSize /\ h.fileSize % ClusterSize = 0
    BY <1>1, <1>6, <1>17
  <2>3. Looping(r, h, n, ClustersFor(h.fileSize) - 1, sectors_per_cluster - 1)
    BY <1>2, <1>14, <1>16, <2>1, <2>2, FullEndLoops
  <2> QED
    BY <1>1, <2>3
<1>18. CASE p = z /\ ~ f
  <2>1. z % ClusterSize # 0
    BY <1>6, <1>18
  <2>2. k = ClustersFor(h.fileSize) - 1 /\ u = EndUpto(h.fileSize) /\ b = h.fileSize % SectorSize
    BY <1>1, <1>5, <1>11, <1>18, <2>1 DEF EndUpto
  <2>3. Looping(r, h, n, ClustersFor(h.fileSize) - 1, EndUpto(h.fileSize))
    BY <1>1, <1>2, <1>14, <1>16, <1>18, <2>2, EndLoops
  <2> QED
    BY <1>1, <2>3
<1>19. CASE p # z
  <2>1. p < h.fileSize /\ k = k1 /\ u = u1 /\ b = b1
    BY <1>1, <1>2, <1>3, <1>5, <1>6, <1>9, <1>11, <1>19
  <2>2. Looping(r, h, n, k, u)
    BY <1>1, <1>2, <1>8, <1>14, <1>16, <2>1, InsideLoops
  <2> QED
    BY <1>1, <2>2
<1> QED
  BY <1>6, <1>17, <1>18, <1>19

(* A read from within the file.                                            *)
LEMMA ReadDoes ==
  ASSUME disk \in Disks, RootIsShort, NEW h, Begins(h), cachedBuf \in {Empty, next}, NEW n \in Nat
  PROVE  ~ Refuses(h) /\ Stopped(fatReadFile(h, n), h, n)
<1>1. Chained(h) /\ h.currpos \in Nat /\ h.currpos <= h.fileSize /\ h.fileSize \in Nat
  BY DEF Begins, Chained, Handle
<1>2. ~ Refuses(h)
  BY <1>1 DEF Refuses
<1>3. PICK m : m = Turns(n)
  OBVIOUS
<1>4. m \in Nat
  BY <1>3, DiskIs DEF Turns
<1>5. PICK A : ReadRun(Positioned(h), n, m, A) /\ fatReadFile(h, n) = A[m]
  BY <1>2, <1>3, <1>4, ReadFileIs
<1>6. PICK k, u : Looping(Positioned(h), h, n, k, u)
  BY KeptLoops, MovedLoops
<1>7. PICK r : r = Positioned(h)
  OBVIOUS
<1>8. Stopped(A[m], h, n)
  BY <1>1, <1>3, <1>5, <1>6, <1>7, LoopsEnd
<1> QED
  BY <1>2, <1>5, <1>8

(* A read where there is nothing.                                          *)
Nothing(r, h) ==
  /\ r.done /\ r.got = <<>> /\ r.cache \in {Empty, next}
  /\ \E u \in Nat : r.h = [h EXCEPT !.sectorUpto = u]

Idle(r, h) ==
  \E u, b \in Nat, e \in BOOLEAN :
    r = [h |-> [h EXCEPT !.sectorUpto = u], byteUpto |-> b, got |-> <<>>, cache |-> cachedBuf, done |-> e]

LEMMA IdleStays ==
  ASSUME NEW h \in Handle, fatEndCluster(h.currentCluster), NEW n, NEW r, Idle(r, h)
  PROVE  Idle(ReadStep(n, r), h) /\ ReadStep(n, r).done
<1>1. PICK u, b \in Nat, e \in BOOLEAN :
        r = [h |-> [h EXCEPT !.sectorUpto = u], byteUpto |-> b, got |-> <<>>, cache |-> cachedBuf, done |-> e]
  BY DEF Idle
<1>2. r.h.currentCluster = h.currentCluster
  BY <1>1 DEF Handle
<1>3. ReadStep(n, r) = [r EXCEPT !.done = TRUE]
  BY <1>2 DEF ReadStep
<1>4. ReadStep(n, r) = [h |-> [h EXCEPT !.sectorUpto = u], byteUpto |-> b, got |-> <<>>, cache |-> cachedBuf,
                        done |-> TRUE]
  BY <1>1, <1>3
<1> QED
  <2>1. PICK v : v = ReadStep(n, r)
    OBVIOUS
  <2>2. v = [h |-> [h EXCEPT !.sectorUpto = u], byteUpto |-> b, got |-> <<>>, cache |-> cachedBuf, done |-> TRUE]
    BY <1>4, <2>1
  <2>3. Idle(v, h)
    BY ONLY <2>2, u \in Nat, b \in Nat, TRUE \in BOOLEAN DEF Idle
  <2>4. v.done
    BY <2>2
  <2> QED
    BY <2>1, <2>3, <2>4

LEMMA NothingRead ==
  ASSUME disk \in Disks, NEW h \in Handle, ~ Refuses(h), fatEndCluster(h.currentCluster),
         cachedBuf \in {Empty, next}, NEW n \in Nat
  PROVE  Nothing(fatReadFile(h, n), h)
<1>1. h.currpos \in Nat /\ h.sectorUpto \in Nat
  BY DEF Refuses, Handle
<1>2. PICK m : m = Turns(n)
  OBVIOUS
<1>3. SectorSize \in Nat \ {0} /\ sectors_per_cluster \in Nat \ {0}
  BY DiskIs
<1>4. m \in Nat /\ m - 1 \in 0 .. m - 1 /\ m - 1 + 1 = m /\ m - 1 \in Nat
  BY <1>2, <1>3 DEF Turns
<1>5. PICK A : ReadRun(Positioned(h), n, m, A) /\ fatReadFile(h, n) = A[m]
  BY <1>2, <1>4, ReadFileIs
<1>6. A[0] = Positioned(h) /\ \A i \in 0 .. m - 1 : A[i + 1] = ReadStep(n, A[i])
  BY <1>4, <1>5, ReadRunSteps
<1> DEFINE I(r) == Idle(r, h)
           S == {j \in Nat : j <= m => I(A[j])}
<1>7. I(Positioned(h))
  <2>1. PICK u, b : /\ u = (IF AtFullEnd(h) THEN sectors_per_cluster - 1 ELSE (h.currpos % ClusterSize) \div SectorSize)
                    /\ b = (IF AtFullEnd(h) THEN SectorSize ELSE h.currpos % SectorSize)
    OBVIOUS
  <2>2. PICK k1, u1, b1 : Lies(h.currpos, k1, u1, b1)
    BY <1>1, LiesIn
  <2>3. u \in Nat /\ b \in Nat /\ h.currpos % SectorSize \in Nat
    BY <1>3, <2>1, <2>2 DEF Lies
  <2>4. h = [h EXCEPT !.sectorUpto = h.sectorUpto]
    BY DEF Handle
  <2>5. h.nextCluster # 0 =>
          Positioned(h) = [h |-> [h EXCEPT !.sectorUpto = h.sectorUpto], byteUpto |-> h.currpos % SectorSize,
                           got |-> <<>>, cache |-> cachedBuf, done |-> FALSE]
    BY <2>4 DEF Positioned
  <2>6. h.nextCluster = 0 =>
          Positioned(h) = [h |-> [h EXCEPT !.sectorUpto = u], byteUpto |-> b,
                           got |-> <<>>, cache |-> cachedBuf, done |-> FALSE]
    <3>1. fatClusterAnalyse(Seen(next, cachedBuf), h, h.currentCluster) = h
      BY DEF fatClusterAnalyse
    <3>2. Caching(next, cachedBuf, h.currentCluster) = cachedBuf
      BY DEF Caching
    <3> QED
      BY <2>1, <3>1, <3>2 DEF Positioned
  <2>7. CASE h.nextCluster # 0
    BY <1>1, <2>3, <2>5, <2>7 DEF Idle
  <2>8. CASE h.nextCluster = 0
    BY <2>3, <2>6, <2>8 DEF Idle
  <2> QED
    BY <2>7, <2>8
<1>8. ASSUME NEW r, I(r) PROVE I(ReadStep(n, r)) /\ ReadStep(n, r).done
  BY <1>8, IdleStays
<1> HIDE DEF I
<1>9. 0 \in S
  BY <1>6, <1>7
<1>10. ASSUME NEW j \in Nat, j \in S PROVE j + 1 \in S
  <2> SUFFICES ASSUME j + 1 <= m PROVE I(A[j + 1])
    OBVIOUS
  <2>1. j \in 0 .. m - 1 /\ j <= m
    BY <1>4
  <2>2. A[j + 1] = ReadStep(n, A[j])
    BY <1>6, <2>1
  <2>3. I(A[j])
    BY <1>10, <2>1
  <2> QED
    BY <1>8, <2>2, <2>3
<1> HIDE DEF S
<1>11. m - 1 \in S
  <2>1. S = Nat
    BY <1>9, <1>10, SetInduction DEF S
  <2> QED
    BY <1>4, <2>1
<1>12. I(A[m - 1])
  BY <1>4, <1>11 DEF S
<1>13. A[m] = ReadStep(n, A[m - 1])
  BY <1>4, <1>6
<1>14. I(A[m]) /\ A[m].done
  BY <1>8, <1>12, <1>13
<1> QED
  BY <1>5, <1>14 DEF I, Idle, Nothing

(***************************************************************************)
(* Where a handle is, by what it did last; t is the table.                 *)
(***************************************************************************)
Linked(t, h) == h.nextCluster = t[h.currentCluster]

Orderly(t, h) ==
  h.currpos >= 0 =>
    /\ Here(t, h, Place(h.currpos, h.fileSize))
    /\ h.currpos > h.fileSize => ~ Full(h.fileSize)
    /\ h.nextCluster # 0 => /\ Linked(t, h) /\ h.currpos <= h.fileSize
                            /\ ~ (h.currpos = h.fileSize /\ Full(h.fileSize))

(* A sector inside the file was filled up, and is not left yet.            *)
FilledUp(t, h) ==
  sectors_per_cluster > 1 =>
    /\ h.currpos > 0 /\ h.currpos < h.fileSize /\ Full(h.currpos)
    /\ Here(t, h, (h.currpos \div SectorSize) - 1)

(* At the end or behind it, or before the start after that.                *)
Ended(t, h) ==
  /\ h.currpos < 0 \/ h.currpos >= h.fileSize
  /\ \/ fatEndCluster(h.currentCluster)
     \/ h.currentCluster = Nth(t, h.startcluster, ClustersFor(h.fileSize) - 1)
  /\ h.nextCluster # 0 =>
       /\ h.currpos = h.fileSize
       /\ ~ fatEndCluster(h.currentCluster) =>
            Linked(t, h) /\ h.sectorStart = SectorStart(h.currentCluster) /\ h.sectorUpto = EndUpto(h.fileSize)

Position(t, h, d) ==
  IF h.fileSize = 0 THEN d = "created" \/ fatEndCluster(h.currentCluster)
  ELSE /\ d # "created"
       /\ d = "orderly" => Orderly(t, h)
       /\ d = "filled" => FilledUp(t, h)
       /\ d \in {"at_end", "past_end"} => Ended(t, h)

(* The last sector of a file is that of its last byte.                     *)
LEMMA EndIs ==
  ASSUME disk \in Disks, NEW z \in Nat \ {0}, NEW m, m = ClustersFor(z), NEW q, q = Sector(z, z)
  PROVE  /\ q \in Nat /\ q \div sectors_per_cluster = m - 1 /\ m \in Nat \ {0} /\ Place(z, z) = q
         /\ ~ Full(z) => q % sectors_per_cluster = EndUpto(z)
<1>1. SectorSize \in Nat \ {0} /\ sectors_per_cluster \in Nat \ {0}
  BY DiskIs
<1>2. PICK a, b : a = z \div SectorSize /\ b = z % SectorSize
  OBVIOUS
<1>3. a \in Nat /\ b \in 0 .. SectorSize - 1 /\ z = SectorSize * a + b
  BY <1>1, <1>2, DivModNat
<1>4. PICK e : e = (z - 1) \div SectorSize
  OBVIOUS
<1>5. e \in Nat /\ m = (e \div sectors_per_cluster) + 1 /\ m \in Nat
  BY <1>4, SizeInClusters
<1>6. q = IF b = 0 THEN a - 1 ELSE a
  BY <1>2 DEF Sector, Full
<1>7. q = e
  <2>1. CASE b = 0
    <3>1. PICK a1, b1 : a1 = a - 1 /\ b1 = SectorSize - 1
      OBVIOUS
    <3>2. a1 \in Int /\ b1 \in 0 .. SectorSize - 1
      BY <1>1, <1>3, <3>1
    <3>3. z - 1 = SectorSize * a1 + b1
      <4>1. SectorSize * (a - 1) = SectorSize * a - SectorSize
        BY <1>1, <1>3
      <4> QED
        BY <1>1, <1>3, <2>1, <3>1, <4>1
    <3>4. (z - 1) \div SectorSize = a1
      BY <1>1, <3>2, <3>3, DivModIs
    <3> QED
      BY <1>4, <1>6, <2>1, <3>1, <3>4
  <2>2. CASE b # 0
    <3>1. PICK b1 : b1 = b - 1
      OBVIOUS
    <3>2. b1 \in 0 .. SectorSize - 1 /\ z - 1 = SectorSize * a + b1
      BY <1>1, <1>3, <2>2, <3>1
    <3>3. (z - 1) \div SectorSize = a
      BY <1>1, <1>3, <3>2, DivModIs
    <3> QED
      BY <1>4, <1>6, <2>2, <3>3
  <2> QED
    BY <2>1, <2>2
<1>8. q \div sectors_per_cluster = m - 1 /\ m \in Nat \ {0}
  <2>1. e \div sectors_per_cluster \in Nat
    BY <1>5, Index
  <2> QED
    BY <1>5, <1>7, <2>1
<1>9. ~ Full(z) => q % sectors_per_cluster = EndUpto(z)
  <2> SUFFICES ASSUME b # 0 PROVE q % sectors_per_cluster = EndUpto(z)
    BY <1>2 DEF Full
  <2>1. InClusters(z, sectors_per_cluster, SectorSize)
    BY <1>1, SectorsInClusters
  <2>2. PICK part : part = z % ClusterSize
    OBVIOUS
  <2>3. part \div SectorSize = a % sectors_per_cluster /\ part % SectorSize = b
    BY <1>2, <2>1, <2>2 DEF InClusters, ClusterSize
  <2>4. part # 0
    BY <1>1, <2>3
  <2> QED
    BY <1>6, <2>2, <2>3, <2>4 DEF EndUpto
<1>10. Place(z, z) = q
  BY DEF Place
<1> QED
  BY <1>5, <1>7, <1>8, <1>9, <1>10

(* A file's handle sits in its chain when it is in the right cluster.      *)
LEMMA SitsIn ==
  ASSUME disk \in Disks, NEW h, Chained(h), NEW k \in 0 .. ClustersFor(h.fileSize) - 1, NEW u,
         h.currentCluster = Nth(next, h.startcluster, k), h.sectorUpto = u,
         h.sectorStart = SectorStart(h.currentCluster), Linked(next, h)
  PROVE  Sits(h, h, k, u)
<1>1. next[Nth(next, h.startcluster, k)] = Nth(next, h.startcluster, k + 1)
  BY ChainedIs
<1> QED
  BY <1>1 DEF Sits, Linked, Chained

LEMMA SitsLinked ==
  ASSUME disk \in Disks, NEW h, Chained(h), NEW k \in 0 .. ClustersFor(h.fileSize) - 1, NEW u,
         NEW g, Sits(g, h, k, u)
  PROVE  Linked(next, g) /\ ~ fatEndCluster(g.currentCluster)
<1>1. /\ next[Nth(next, h.startcluster, k)] = Nth(next, h.startcluster, k + 1)
      /\ Nth(next, h.startcluster, k) \in Clusters
  BY ChainedIs
<1> QED
  BY <1>1, ClustersAre DEF Sits, Linked

LEMMA OrderlyBegins ==
  ASSUME disk \in Disks, NEW h, Chained(h), h.currpos \in 0 .. h.fileSize, Orderly(next, h)
  PROVE  Begins(h)
<1>1. PICK p, z, m, q, s : p = h.currpos /\ z = h.fileSize /\ m = ClustersFor(z) /\ q = Place(p, z)
        /\ s = h.startcluster
  OBVIOUS
<1>2. z \in Nat \ {0} /\ m \in Nat \ {0} /\ p \in Nat /\ p <= z
  <2>1. z \in Nat \ {0} /\ m \in Nat \ {0}
    BY <1>1, ChainedIs
  <2> QED
    BY <1>1, <2>1
<1>3. /\ h.currentCluster = Nth(next, s, q \div sectors_per_cluster)
      /\ h.sectorUpto = q % sectors_per_cluster /\ h.sectorStart = SectorStart(h.currentCluster)
      /\ h.nextCluster # 0 => Linked(next, h) /\ ~ (p = z /\ Full(z))
  BY <1>1, <1>2 DEF Orderly, Here
<1>4. CASE p = z
  <2>1. q \in Nat /\ q \div sectors_per_cluster = m - 1 /\ (~ Full(z) => q % sectors_per_cluster = EndUpto(z))
    <3>1. Place(z, z) = Sector(z, z)
      BY <1>2 DEF Place
    <3> QED
      BY <1>1, <1>2, <1>4, <3>1, EndIs
  <2>2. m - 1 \in 0 .. m - 1
    BY <1>2
  <2>3. h.nextCluster # 0 => AtTheEnd(h, h)
    <3> SUFFICES ASSUME h.nextCluster # 0 PROVE AtTheEnd(h, h)
      OBVIOUS
    <3>1. h.sectorUpto = EndUpto(z) /\ Linked(next, h) /\ h.currentCluster = Nth(next, h.startcluster, m - 1)
      BY <1>1, <1>3, <1>4, <2>1
    <3>2. Sits(h, h, m - 1, EndUpto(z))
      BY <1>1, <1>3, <2>2, <3>1, SitsIn
    <3> QED
      BY <1>1, <1>4, <3>2 DEF AtTheEnd
  <2> QED
    BY <1>1, <1>3, <1>4, <2>1, <2>3 DEF Begins
<1>5. CASE p # z
  <2>1. p < z
    BY <1>2, <1>5
  <2>2. q = p \div SectorSize
    BY <1>1, <1>2, <1>5 DEF Place, Sector
  <2>3. PICK k, u, b : Lies(p, k, u, b)
    BY <1>2, LiesIn
  <2>4. /\ k = q \div sectors_per_cluster /\ u = q % sectors_per_cluster /\ k = p \div ClusterSize
        /\ u \in 0 .. sectors_per_cluster - 1 /\ b \in 0 .. SectorSize - 1 /\ p = ByteNo(k, u, b)
        /\ k \in Nat /\ u \in Nat /\ b \in Nat
    BY <2>2, <2>3, DiskIs DEF Lies
  <2>5. k \in 0 .. m - 1
    BY <1>1, <1>2, <2>1, <2>3, LiesWithin
  <2>6. h.nextCluster # 0 => Inside(h, h, k, u, b)
    <3> SUFFICES ASSUME h.nextCluster # 0 PROVE Inside(h, h, k, u, b)
      OBVIOUS
    <3>1. Linked(next, h) /\ h.currentCluster = Nth(next, h.startcluster, k) /\ h.sectorUpto = u
      BY <1>1, <1>3, <2>4
    <3>2. Sits(h, h, k, u)
      BY <1>1, <1>3, <2>5, <3>1, SitsIn
    <3> QED
      BY <1>1, <2>1, <2>4, <2>5, <3>2 DEF Inside
  <2>7. h.nextCluster # 0 => \E k1, u1, b1 \in Nat : Inside(h, h, k1, u1, b1)
    BY <2>4, <2>6
  <2>8. h.currentCluster = Nth(next, h.startcluster, h.currpos \div ClusterSize)
    BY <1>1, <1>3, <2>4
  <2> QED
    BY <1>1, <1>5, <2>7, <2>8 DEF Begins
<1> QED
  BY <1>4, <1>5

LEMMA EndedBegins ==
  ASSUME disk \in Disks, NEW h, Chained(h), h.currpos \in 0 .. h.fileSize, Ended(next, h)
  PROVE  h.currpos = h.fileSize /\ (fatEndCluster(h.currentCluster) \/ Begins(h))
<1>1. PICK z, m : z = h.fileSize /\ m = ClustersFor(z)
  OBVIOUS
<1>2. z \in Nat \ {0} /\ m \in Nat \ {0} /\ m - 1 \in 0 .. m - 1
  <2>1. z \in Nat \ {0} /\ m \in Nat \ {0}
    BY <1>1, ChainedIs
  <2> QED
    BY <2>1
<1>3. h.currpos = z
  BY <1>1, <1>2 DEF Ended
<1>4. ASSUME ~ fatEndCluster(h.currentCluster) PROVE Begins(h)
  <2>1. h.currentCluster = Nth(next, h.startcluster, m - 1)
    BY <1>1, <1>4 DEF Ended
  <2>2. h.nextCluster # 0 => AtTheEnd(h, h)
    <3> SUFFICES ASSUME h.nextCluster # 0 PROVE AtTheEnd(h, h)
      OBVIOUS
    <3>1. Linked(next, h) /\ h.sectorStart = SectorStart(h.currentCluster) /\ h.sectorUpto = EndUpto(z)
      BY <1>1, <1>4 DEF Ended
    <3>2. Sits(h, h, m - 1, EndUpto(z))
      BY <1>1, <1>2, <2>1, <3>1, SitsIn
    <3> QED
      BY <1>1, <1>3, <3>2 DEF AtTheEnd
  <2> QED
    BY <1>1, <1>3, <2>1, <2>2 DEF Begins
<1> QED
  BY <1>1, <1>3, <1>4

(* The end of the file, as reading leaves it, for those that go on.        *)
LEMMA EndKeeps ==
  ASSUME disk \in Disks, NEW h, Chained(h), NEW g, AtTheEnd(g, h)
  PROVE  Ended(next, g) /\ (~ Full(h.fileSize) => Orderly(next, g))
<1>1. PICK z, m : z = h.fileSize /\ m = ClustersFor(z)
  OBVIOUS
<1>2. z \in Nat \ {0} /\ m \in Nat \ {0} /\ m - 1 \in 0 .. m - 1
  <2>1. z \in Nat \ {0} /\ m \in Nat \ {0}
    BY <1>1, ChainedIs
  <2> QED
    BY <2>1
<1>3. g.currpos = z /\ Sits(g, h, m - 1, EndUpto(z))
  BY <1>1 DEF AtTheEnd
<1>4. Linked(next, g)
  BY <1>1, <1>2, <1>3, SitsLinked
<1>5. /\ g.startcluster = h.startcluster /\ g.fileSize = z
      /\ g.currentCluster = Nth(next, h.startcluster, m - 1)
      /\ g.sectorStart = SectorStart(g.currentCluster) /\ g.sectorUpto = EndUpto(z)
  BY <1>1, <1>3 DEF Sits
<1>6. Ended(next, g)
  BY <1>1, <1>2, <1>3, <1>4, <1>5 DEF Ended
<1>7. ASSUME ~ Full(z) PROVE Orderly(next, g)
  <2>1. PICK q : q = Sector(z, z)
    OBVIOUS
  <2>2. q \div sectors_per_cluster = m - 1 /\ Place(z, z) = q /\ q % sectors_per_cluster = EndUpto(z)
    BY <1>1, <1>2, <1>7, <2>1, EndIs
  <2>3. Here(next, g, q)
    BY <1>5, <2>2 DEF Here
  <2> QED
    BY <1>2, <1>3, <1>4, <1>5, <1>7, <2>2, <2>3 DEF Orderly
<1> QED
  BY <1>1, <1>6, <1>7

LEMMA InsideKeeps ==
  ASSUME disk \in Disks, NEW h, Chained(h), NEW g, NEW k \in Nat, NEW u \in Nat, NEW b \in Nat, Inside(g, h, k, u, b)
  PROVE  Orderly(next, g) /\ g.currpos # g.fileSize
<1>1. PICK p, z, q : p = g.currpos /\ z = h.fileSize /\ q = p \div SectorSize
  OBVIOUS
<1>2. p \in Nat /\ Lies(p, k, u, b)
  BY <1>1, InsideLies
<1>3. /\ p < z /\ Sits(g, h, k, u) /\ k \in 0 .. ClustersFor(h.fileSize) - 1 /\ g.fileSize = z /\ z \in Nat
  BY <1>1 DEF Inside, Sits, Chained, Handle
<1>4. Linked(next, g)
  BY <1>3, SitsLinked
<1>5. Place(p, z) = q
  BY <1>1, <1>2, <1>3 DEF Place, Sector
<1>6. k = q \div sectors_per_cluster /\ u = q % sectors_per_cluster
  BY <1>1, <1>2 DEF Lies
<1>7. Here(next, g, q)
  BY <1>3, <1>6 DEF Here, Sits
<1> QED
  BY <1>1, <1>2, <1>3, <1>4, <1>5, <1>7 DEF Orderly

(* What a read does to a handle, and what it gets.                         *)
ReadWell(r, h, n, d) ==
  /\ r.done /\ r.h.currpos = h.currpos + Gets(h, n) /\ r.got = Places(h, Gets(h, n))
  /\ r.cache \in {Empty, next}
  /\ r.h \in Handle /\ r.h.file = h.file /\ r.h.startcluster = h.startcluster /\ r.h.fileSize = h.fileSize
  /\ Position(next, r.h, DidRead(d, r.h))

LEMMA StoppedWell ==
  ASSUME disk \in Disks, NEW h, Chained(h), h.currpos \in 0 .. h.fileSize, NEW n \in Nat, NEW r, Stopped(r, h, n),
         NEW d, d = "orderly" \/ (d \in {"at_end", "past_end"} /\ h.currpos = h.fileSize)
  PROVE  ReadWell(r, h, n, d)
<1>1. /\ r \in Reads(h) /\ r.done /\ r.cache \in {Empty, next}
      /\ r.h.currpos = h.currpos + Gets(h, n) /\ r.got = Places(h, Gets(h, n)) /\ r.h \in Handle
      /\ AtTheEnd(r.h, h) \/ \E k, u, b \in Nat : Inside(r.h, h, k, u, b)
  BY DEF Stopped, Reads
<1>2. h.fileSize > 0 /\ h.fileSize \in Nat /\ h.currpos \in Nat
  BY DEF Chained, Handle
<1>3. CASE AtTheEnd(r.h, h)
  <2>1. Ended(next, r.h) /\ (~ Full(h.fileSize) => Orderly(next, r.h))
    BY <1>3, EndKeeps
  <2>2. r.h.file = h.file /\ r.h.startcluster = h.startcluster /\ r.h.fileSize = h.fileSize
        /\ r.h.currpos = h.fileSize
    BY <1>3 DEF AtTheEnd, Sits
  <2>3. Full(h.fileSize) <=> FullSectors(h.fileSize)
    BY DEF Full, FullSectors
  <2>4. DidRead(d, r.h) = IF d = "orderly" /\ Full(h.fileSize) THEN "at_end" ELSE d
    BY <1>2, <2>2, <2>3 DEF DidRead
  <2>5. Position(next, r.h, DidRead(d, r.h))
    BY <1>2, <2>1, <2>2, <2>4 DEF Position
  <2> QED
    BY <1>1, <2>2, <2>5 DEF ReadWell
<1>4. CASE \E k, u, b \in Nat : Inside(r.h, h, k, u, b)
  <2>1. PICK k, u, b \in Nat : Inside(r.h, h, k, u, b)
    BY <1>4
  <2>2. Orderly(next, r.h) /\ r.h.currpos # r.h.fileSize
    BY <2>1, InsideKeeps
  <2>3. r.h.file = h.file /\ r.h.startcluster = h.startcluster /\ r.h.fileSize = h.fileSize
        /\ r.h.currpos < h.fileSize
    BY <2>1 DEF Inside, Sits
  <2>4. d = "orderly"
    <3> SUFFICES ASSUME h.currpos = h.fileSize PROVE FALSE
      OBVIOUS
    <3>1. Gets(h, n) \in Nat
      BY <1>2 DEF Gets
    <3> QED
      BY <1>1, <1>2, <2>3, <3>1
  <2>5. DidRead(d, r.h) = "orderly"
    BY <2>2, <2>4 DEF DidRead
  <2>6. Position(next, r.h, DidRead(d, r.h))
    BY <1>2, <2>2, <2>3, <2>5 DEF Position
  <2> QED
    BY <1>1, <2>3, <2>6 DEF ReadWell
<1> QED
  BY <1>1, <1>3, <1>4

LEMMA NothingWell ==
  ASSUME disk \in Disks, NEW h \in Handle, h.currpos = h.fileSize, fatEndCluster(h.currentCluster),
         NEW n \in Nat, NEW r, Nothing(r, h),
         NEW d, h.fileSize = 0 \/ (d \in {"at_end", "past_end"} /\ Ended(next, h))
  PROVE  ReadWell(r, h, n, d)
<1>1. PICK u \in Nat : r.h = [h EXCEPT !.sectorUpto = u]
  BY DEF Nothing
<1>2. /\ r.h \in Handle /\ r.h.file = h.file /\ r.h.startcluster = h.startcluster /\ r.h.fileSize = h.fileSize
      /\ r.h.currpos = h.currpos /\ r.h.currentCluster = h.currentCluster /\ r.h.nextCluster = h.nextCluster
  BY <1>1 DEF Handle
<1>3. h.fileSize \in Nat /\ h.currpos \in Nat
  BY DEF Handle
<1>4. Gets(h, n) = 0
  BY <1>3 DEF Gets
<1>5. r.got = Places(h, 0) /\ r.done /\ r.cache \in {Empty, next}
  BY PlacesAre, 0 \in Nat DEF Nothing
<1>6. CASE h.fileSize = 0
  <2>1. DidRead(d, r.h) = d
    BY <1>2, <1>6 DEF DidRead
  <2> QED
    BY <1>2, <1>3, <1>4, <1>5, <1>6, <2>1 DEF ReadWell, Position
<1>7. CASE h.fileSize # 0 /\ d \in {"at_end", "past_end"} /\ Ended(next, h)
  <2>1. DidRead(d, r.h) = d
    BY <1>7 DEF DidRead
  <2>2. Ended(next, r.h)
    BY <1>2, <1>7 DEF Ended
  <2> QED
    BY <1>2, <1>3, <1>4, <1>5, <1>7, <2>1, <2>2 DEF ReadWell, Position
<1> QED
  BY <1>6, <1>7

(* The read of an open handle, from the start to the end of the file.      *)
LEMMA ReadsWell ==
  ASSUME disk \in Disks, RootIsShort, next \in Table, cachedBuf \in {Empty, next},
         NEW h \in Handle, h.fileSize > 0 => Chained(h),
         NEW d \in {"orderly", "at_end", "past_end"}, Position(next, h, d),
         ~ Refuses(h), NEW n \in Nat, NEW r, r = fatReadFile(h, n)
  PROVE  ReadWell(r, h, n, d)
<1>1. h.fileSize \in Nat /\ h.currpos \in 0 .. h.fileSize
  BY DEF Handle, Refuses
<1>2. CASE h.fileSize = 0
  <2>1. fatEndCluster(h.currentCluster) /\ h.currpos = h.fileSize
    BY <1>1, <1>2 DEF Position
  <2>2. Nothing(r, h)
    BY <2>1, NothingRead
  <2> QED
    BY <1>2, <2>1, <2>2, NothingWell
<1>3. CASE h.fileSize > 0 /\ d = "orderly"
  <2>1. Orderly(next, h) /\ Chained(h)
    BY <1>3 DEF Position
  <2>2. Stopped(r, h, n)
    BY <1>1, <2>1, OrderlyBegins, ReadDoes
  <2> QED
    BY <1>1, <1>3, <2>1, <2>2, StoppedWell
<1>4. CASE h.fileSize > 0 /\ d \in {"at_end", "past_end"}
  <2>1. Ended(next, h) /\ Chained(h)
    BY <1>4 DEF Position
  <2>2. h.currpos = h.fileSize /\ (fatEndCluster(h.currentCluster) \/ Begins(h))
    BY <1>1, <2>1, EndedBegins
  <2>3. CASE fatEndCluster(h.currentCluster)
    <3>1. Nothing(r, h)
      BY <2>3, NothingRead
    <3> QED
      BY <1>4, <2>1, <2>2, <2>3, <3>1, NothingWell
  <2>4. CASE Begins(h)
    <3>1. Stopped(r, h, n)
      BY <2>4, ReadDoes
    <3> QED
      BY <1>1, <1>4, <2>1, <2>2, <3>1, StoppedWell
  <2> QED
    BY <2>2, <2>3, <2>4
<1> QED
  BY <1>1, <1>2, <1>3, <1>4

(* The same of any table and any entries.                                  *)
StartsOf(e) == [f \in DOMAIN e |-> e[f].start_cluster]
CountsOf(e) == [f \in DOMAIN e |-> ClustersFor(e[f].file_size)]
Entries(e) ==
  /\ DOMAIN e \subseteq Files
  /\ \A f \in DOMAIN e : e[f] \in [start_cluster : Clusters \cup {0}, file_size : 0 .. MaxSize]
TablesFor(t, e) == Tidy(t, DOMAIN e, StartsOf(e), CountsOf(e)) /\ Entries(e)

LEMMA TablesAre ==
  Tables <=> TablesFor(next, dir)
BY DEF Tables, TablesFor, Entries, StartsOf, CountsOf, Starts, Counts, Existing

FollowsIn(e, h) ==
  /\ h.file \in DOMAIN e /\ h.fileSize = e[h.file].file_size
  /\ e[h.file].start_cluster = IF Allocates(h) THEN 0 ELSE h.startcluster

HandlingFor(t, e, H, D) ==
  /\ H \in [Handles -> Handle] /\ D \in [Handles -> Patterns \cup {"orderly"}]
  /\ \A x \in Handles : H[x].file # NoFile => FollowsIn(e, H[x]) /\ Position(t, H[x], D[x])
  /\ \A x, y \in Handles : x # y /\ H[x].file # NoFile => H[x].file # H[y].file

LEMMA FollowsAre ==
  ASSUME NEW h \in Handle, FollowsIn(dir, h)
  PROVE  h.file \in Existing /\ Follows(h, h.file)
BY DEF FollowsIn, Follows, Existing

(* An open file's handle has its chain.                                    *)
LEMMA FollowsChain ==
  ASSUME disk \in Disks, Tables, NEW f \in Existing, NEW h, Follows(h, f), h.fileSize # 0
  PROVE  /\ Chained(h) /\ h.startcluster = Starts[f] /\ ClustersFor(h.fileSize) = Counts[f]
         /\ ~ Allocates(h) /\ h.fileSize \in Nat \ {0}
<1>1. ~ Allocates(h)
  BY FollowsIs
<1>2. /\ h.startcluster = Starts[f] /\ h.fileSize \in Nat \ {0} /\ Counts[f] = ClustersFor(h.fileSize)
  BY <1>1, FollowsIs
<1>3. ChainOf(next, Starts[f], Counts[f]) /\ next \in Table
  BY RestIs
<1>4. h \in Handle /\ h.fileSize > 0
  BY <1>2 DEF Follows
<1> QED
  BY <1>1, <1>2, <1>3, <1>4 DEF Chained

(* A handle stays where it is when its chain does.                         *)
LEMMA HereStays ==
  ASSUME NEW t, NEW u, NEW s, NEW m \in Nat, \A i \in 0 .. m : Nth(u, s, i) = Nth(t, s, i),
         NEW h, h.startcluster = s, NEW q, q \div sectors_per_cluster \in 0 .. m - 1, Here(t, h, q)
  PROVE  Here(u, h, q)
<1>1. PICK k : k = q \div sectors_per_cluster
  OBVIOUS
<1>2. k \in 0 .. m
  BY <1>1
<1>3. Nth(u, s, k) = Nth(t, s, k)
  BY <1>2
<1> QED
  BY <1>1, <1>3 DEF Here

LEMMA PositionStays ==
  ASSUME disk \in Disks, NEW t, NEW h, h \in Handle, NEW u, NEW m, m = ClustersFor(h.fileSize),
         h.fileSize # 0 => ChainOf(t, h.startcluster, m) /\ SameOn(t, u, Own(t, h.startcluster, m)),
         NEW d, Position(t, h, d)
  PROVE  Position(u, h, d)
<1>1. CASE h.fileSize = 0
  BY <1>1 DEF Position
<1>2. CASE h.fileSize # 0
  <2>1. PICK z, s, p : z = h.fileSize /\ s = h.startcluster /\ p = h.currpos
    OBVIOUS
  <2>2. z \in Nat \ {0} /\ p \in Int
    BY <1>2, <2>1 DEF Handle
  <2>3. m \in Nat \ {0} /\ m \in Nat
    BY <2>1, <2>2, EndIs
  <2>4. \A i \in 0 .. m : Nth(u, s, i) = Nth(t, s, i)
    BY <1>2, <2>1, <2>3, ChainFrame
  <2>5. \A i \in 0 .. m - 1 : h.currentCluster = Nth(t, s, i) /\ Linked(t, h) => Linked(u, h)
    <3>1. ASSUME NEW i \in 0 .. m - 1, h.currentCluster = Nth(t, s, i), Linked(t, h) PROVE Linked(u, h)
      <4>1. Nth(t, s, i) \in Own(t, s, m)
        BY DEF Own
      <4> QED
        BY <1>2, <2>1, <3>1, <4>1 DEF Linked, SameOn
    <3> QED
      BY <3>1
  <2>6. ASSUME Orderly(t, h) PROVE Orderly(u, h)
    <3> SUFFICES ASSUME p >= 0
                 PROVE  /\ Here(u, h, Place(p, z))
                        /\ p > z => ~ Full(z)
                        /\ h.nextCluster # 0 => Linked(u, h) /\ p <= z /\ ~ (p = z /\ Full(z))
      BY <2>1 DEF Orderly
    <3>1. PICK q : q = Place(p, z)
      OBVIOUS
    <3>2. /\ Here(t, h, q) /\ (p > z => ~ Full(z))
          /\ h.nextCluster # 0 => Linked(t, h) /\ p <= z /\ ~ (p = z /\ Full(z))
      BY <2>1, <2>6, <3>1 DEF Orderly
    <3>3. q \in Nat /\ q \div sectors_per_cluster < m /\ q \div sectors_per_cluster \in Nat
      <4>1. q \in Nat /\ q \div sectors_per_cluster < ClustersFor(z)
        BY <2>2, <3>1, <3>2, PlaceIs
      <4> QED
        BY <2>1, <4>1, Index
    <3>4. PICK i : i = q \div sectors_per_cluster
      OBVIOUS
    <3>5. i \in 0 .. m - 1
      BY <2>3, <3>3, <3>4
    <3>6. Here(u, h, q)
      BY <2>1, <2>3, <2>4, <3>2, <3>4, <3>5, HereStays
    <3>7. h.currentCluster = Nth(t, s, i)
      BY <2>1, <3>2, <3>4 DEF Here
    <3> QED
      BY <2>5, <3>1, <3>2, <3>5, <3>6, <3>7
  <2>7. ASSUME FilledUp(t, h) PROVE FilledUp(u, h)
    <3> SUFFICES ASSUME sectors_per_cluster > 1
                 PROVE  p > 0 /\ p < z /\ Full(p) /\ Here(u, h, (p \div SectorSize) - 1)
      BY <2>1 DEF FilledUp
    <3>1. PICK a, q : a = p \div SectorSize /\ q = a - 1
      OBVIOUS
    <3>2. p > 0 /\ p < z /\ Full(p) /\ Here(t, h, q)
      BY <2>1, <2>7, <3>1 DEF FilledUp
    <3>3. SectorSize \in Nat \ {0} /\ p \in Nat
      BY <2>2, <3>2, DiskIs
    <3>4. a \in Nat \ {0} /\ p = SectorSize * a
      <4>1. a \in Nat /\ p = SectorSize * a + (p % SectorSize)
        BY <3>1, <3>3, DivModNat
      <4>2. p % SectorSize = 0
        BY <3>2 DEF Full
      <4> QED
        BY <3>2, <3>3, <4>1, <4>2
    <3>5. q \in Nat /\ q <= a
      BY <3>1, <3>4
    <3>6. a \div sectors_per_cluster < m
      BY <2>1, <2>2, <3>1, <3>2, <3>3, WithinSize
    <3>7. q \div sectors_per_cluster <= a \div sectors_per_cluster
      BY SMTT(30), <3>4, <3>5, DivOrder, DiskIs
    <3>8. q \div sectors_per_cluster \in Nat /\ a \div sectors_per_cluster \in Nat
      BY <3>4, <3>5, Index
    <3>9. q \div sectors_per_cluster \in 0 .. m - 1
      BY <2>3, <3>6, <3>7, <3>8
    <3>10. Here(u, h, q)
      BY <2>1, <2>3, <2>4, <3>2, <3>9, HereStays
    <3> QED
      BY <3>1, <3>2, <3>10
  <2>8. ASSUME Ended(t, h) PROVE Ended(u, h)
    <3>1. m - 1 \in 0 .. m /\ m - 1 \in 0 .. m - 1
      BY <2>3
    <3>2. Nth(u, s, m - 1) = Nth(t, s, m - 1)
      BY <2>4, <3>1
    <3>3. ~ fatEndCluster(h.currentCluster) => h.currentCluster = Nth(t, s, m - 1)
      BY <2>1, <2>8 DEF Ended
    <3>4. ~ fatEndCluster(h.currentCluster) /\ Linked(t, h) => Linked(u, h)
      BY <2>5, <3>1, <3>3
    <3> QED
      BY <2>1, <2>8, <3>2, <3>3, <3>4 DEF Ended
  <2> QED
    BY <1>2, <2>6, <2>7, <2>8 DEF Position
<1> QED
  BY <1>1, <1>2

(* A handle from which a write may start, by what it did last.             *)
LEMMA PlacedFrom ==
  ASSUME NEW h \in Handle, NEW d \in {"orderly", "created"}, Position(next, h, d), h.currpos \in Nat
  PROVE  Placed(h)
<1>1. CASE h.fileSize = 0
  BY <1>1 DEF Placed
<1>2. CASE h.fileSize # 0
  <2>1. Orderly(next, h)
    BY <1>2 DEF Position
  <2>2. h.currpos >= 0
    OBVIOUS
  <2> QED
    BY <2>1, <2>2 DEF Orderly, Placed
<1> QED
  BY <1>1, <1>2

(* What changes the chain of one file leaves the handles of others alone.  *)
LEMMA OthersPosition ==
  ASSUME disk \in Disks, Tables, NEW f, NEW u, SameOn(next, u, Others(next, Existing, Starts, Counts, f)),
         NEW h \in Handle, FollowsIn(dir, h), h.file # f, NEW d, Position(next, h, d)
  PROVE  Position(u, h, d)
<1>1. PICK k : k = h.file
  OBVIOUS
<1>2. k \in Existing /\ Follows(h, k)
  BY <1>1, FollowsAre
<1>3. PICK m : m = ClustersFor(h.fileSize)
  OBVIOUS
<1>4. ASSUME h.fileSize # 0
      PROVE  ChainOf(next, h.startcluster, m) /\ SameOn(next, u, Own(next, h.startcluster, m))
  <2>1. h.startcluster = Starts[k] /\ m = Counts[k]
    BY <1>2, <1>3, <1>4, FollowsChain
  <2>2. ChainOf(next, Starts[k], Counts[k])
    BY <1>2, RestIs
  <2>3. Own(next, Starts[k], Counts[k]) \subseteq Others(next, Existing, Starts, Counts, f)
    BY <1>1, <1>2 DEF Others
  <2> QED
    BY <2>1, <2>2, <2>3 DEF SameOn
<1> QED
  BY <1>3, <1>4, PositionStays

(* One handle changes, and the entry and the chain of its file at most.    *)
LEMMA OneHandle ==
  ASSUME disk \in Disks, Tables, NEW H, NEW D, HandlingFor(next, dir, H, D), NEW x \in Handles,
         NEW f, NEW u, SameOn(next, u, Others(next, Existing, Starts, Counts, f)),
         NEW e, \A k \in Existing \ {f} : k \in DOMAIN e /\ e[k] = dir[k],
         \A y \in Handles : y # x /\ H[y].file # NoFile => H[y].file # f,
         NEW g \in Handle, g.file \in {f, NoFile}, NEW d \in Patterns \cup {"orderly"},
         g.file # NoFile => FollowsIn(e, g) /\ Position(u, g, d)
  PROVE  HandlingFor(u, e, [H EXCEPT ![x] = g], [D EXCEPT ![x] = d])
<1>1. PICK G, C : G = [H EXCEPT ![x] = g] /\ C = [D EXCEPT ![x] = d]
  OBVIOUS
<1>2. G \in [Handles -> Handle] /\ C \in [Handles -> Patterns \cup {"orderly"}]
  BY <1>1 DEF HandlingFor
<1>3. /\ G[x] = g /\ C[x] = d
      /\ \A y \in Handles : y # x => G[y] = H[y] /\ C[y] = D[y]
  BY <1>1 DEF HandlingFor
<1>4. ASSUME NEW y \in Handles, y # x, H[y].file # NoFile
      PROVE  FollowsIn(e, H[y]) /\ Position(u, H[y], D[y])
  <2>1. H[y] \in Handle /\ FollowsIn(dir, H[y]) /\ Position(next, H[y], D[y])
    BY <1>4 DEF HandlingFor
  <2>2. H[y].file # f /\ H[y].file \in Existing
    BY <1>4, <2>1 DEF FollowsIn, Existing
  <2>3. H[y].file \in DOMAIN e /\ e[H[y].file] = dir[H[y].file]
    BY <2>2
  <2>4. FollowsIn(e, H[y])
    BY <2>1, <2>3 DEF FollowsIn
  <2> QED
    BY <2>1, <2>2, <2>4, OthersPosition
<1>5. \A y \in Handles : G[y].file # NoFile => FollowsIn(e, G[y]) /\ Position(u, G[y], C[y])
  BY <1>3, <1>4
<1>6. \A y, v \in Handles : y # v /\ G[y].file # NoFile => G[y].file # G[v].file
  <2>1. \A y, v \in Handles : y # v /\ H[y].file # NoFile => H[y].file # H[v].file
    BY DEF HandlingFor
  <2> QED
    BY <1>3, <2>1
<1> QED
  BY <1>1, <1>2, <1>5, <1>6 DEF HandlingFor

(* No handle changes, and nothing of a file that one has open.             *)
LEMMA NoHandle ==
  ASSUME disk \in Disks, Tables, NEW H, NEW D, HandlingFor(next, dir, H, D),
         NEW f, NEW u, SameOn(next, u, Others(next, Existing, Starts, Counts, f)),
         NEW e, \A k \in Existing \ {f} : k \in DOMAIN e /\ e[k] = dir[k],
         \A y \in Handles : H[y].file # f
  PROVE  HandlingFor(u, e, H, D)
<1>1. ASSUME NEW y \in Handles, H[y].file # NoFile
      PROVE  FollowsIn(e, H[y]) /\ Position(u, H[y], D[y])
  <2>1. H[y] \in Handle /\ FollowsIn(dir, H[y]) /\ Position(next, H[y], D[y])
    BY <1>1 DEF HandlingFor
  <2>2. H[y].file # f /\ H[y].file \in Existing
    BY <1>1, <2>1 DEF FollowsIn, Existing
  <2>3. H[y].file \in DOMAIN e /\ e[H[y].file] = dir[H[y].file]
    BY <2>2
  <2>4. FollowsIn(e, H[y])
    BY <2>1, <2>3 DEF FollowsIn
  <2> QED
    BY <2>1, <2>2, <2>4, OthersPosition
<1> QED
  BY <1>1 DEF HandlingFor

(* Without the patterns that fat.c does not get right.                     *)
LEMMA MayIs ==
  ASSUME Slips = {}, NEW x, did[x] \in Patterns \cup {"orderly"}
  PROVE  /\ May(x, "read") => did[x] \in {"orderly", "at_end", "past_end"}
         /\ May(x, "write") => did[x] \in {"orderly", "created"}
<1>1. May(x, "read") => <<did[x], "read">> \notin Completes
  BY DEF May
<1>2. May(x, "write") => <<did[x], "write">> \notin Completes
  BY DEF May
<1>3. did[x] \in {"created", "at_end", "filled", "past_end", "before", "orderly"}
  BY DEF Patterns
<1> QED
  BY <1>1, <1>2, <1>3 DEF Completes

(* The tables while a write has run into a full disk: chains may be longer *)
(* than the sizes call for.                                                *)
LongTables(t, e) ==
  /\ \E M : Tidy(t, DOMAIN e, StartsOf(e), M) /\ \A f \in DOMAIN e : M[f] >= CountsOf(e)[f]
  /\ Entries(e)

(* The chain that a write gives its file.                                  *)
LEMMA WriteTidy ==
  ASSUME disk \in Disks, Tables, NEW f \in Existing, NEW v, NEW m, Disk(v, Rest(f), m),
         NEW S2, NEW M2, S2[f] = v.h.startcluster, M2[f] = m,
         \A g \in Existing \ {f} : S2[g] = Starts[g] /\ M2[g] = Counts[g]
  PROVE  /\ Tidy(v.next, Existing, S2, M2) /\ v.h.startcluster \in Clusters
         /\ SameOn(next, v.next, Others(next, Existing, Starts, Counts, f))
         /\ v.h \in Handle /\ v.h.file = f /\ v.cache \in {Empty, v.next} /\ m >= Counts[f]
<1>1. PICK x : x = Rest(f)
  OBVIOUS
<1>2. x.table = next /\ x.others = Others(next, Existing, Starts, Counts, f) /\ x.file = f /\ x.least = Counts[f]
  BY <1>1 DEF Rest
<1>3. PICK s : s = v.h.startcluster
  OBVIOUS
<1>4. /\ v \in Writing /\ v.h.file = f /\ m \in Nat \ {0} /\ ChainOf(v.next, s, m) /\ m >= Counts[f]
      /\ Own(v.next, s, m) \cap Others(next, Existing, Starts, Counts, f) = {}
      /\ SameOn(next, v.next, Others(next, Existing, Starts, Counts, f))
      /\ \A c \in Clusters : v.next[c] # 0 => c \in Own(v.next, s, m) \cup Others(next, Existing, Starts, Counts, f)
      /\ v.cache \in {Empty, v.next}
  BY <1>1, <1>2, <1>3 DEF Disk
<1>5. v.next \in Table /\ v.h \in Handle
  BY <1>4 DEF Writing
<1>6. s \in Clusters
  <2>1. Nth(v.next, s, 0) = s
    BY NthSteps
  <2>2. 0 \in 0 .. m - 1
    BY <1>4
  <2> QED
    BY <1>4, <2>1, <2>2 DEF ChainOf
<1>7. Tidy(next, Existing, Starts, Counts)
  BY DEF Tables
<1>8. \A g \in Existing : S2[g] = (IF g = f THEN s ELSE Starts[g]) /\ M2[g] = (IF g = f THEN m ELSE Counts[g])
  BY <1>3
<1>9. m \in Nat /\ Existing = Existing \cup {f}
  BY <1>4
<1>10. Tidy(v.next, Existing, S2, M2)
  BY <1>4, <1>5, <1>7, <1>8, <1>9, TidyChanged
<1> QED
  BY <1>3, <1>4, <1>5, <1>6, <1>10

(* The position after a write.                                             *)
LEMMA WrittenStands ==
  ASSUME disk \in Disks, NEW h \in Handle, h.currpos \in Nat, NEW n \in Nat \ {0},
         NEW v, NEW x, Written(v, x, h, n)
  PROVE  Position(v.next, v.h, DidWrite(h, n)) /\ v.h.fileSize = EndOf(h, n) /\ EndOf(h, n) \in Nat \ {0}
<1>1. PICK p, z, y : p = h.currpos + n /\ z = EndOf(h, n) /\ y = h.fileSize
  OBVIOUS
<1>2. p \in Nat \ {0} /\ y \in Nat /\ z \in Nat \ {0} /\ p <= z /\ y <= z
  BY <1>1 DEF EndOf, Later, Handle
<1>3. v.h.fileSize = z /\ v.h.currpos = p /\ v.h.nextCluster = 0
  BY <1>1 DEF Written
<1>4. PICK q : q = LandsIn(h, n)
  OBVIOUS
<1>5. Here(v.next, v.h, q)
  BY <1>4 DEF Written, Stands, At, Here
<1>6. CASE DidWrite(h, n) = "filled"
  <2>1. p < y /\ Full(p)
    BY <1>1, <1>6 DEF DidWrite, FullSectors, Full
  <2>2. q = (p \div SectorSize) - 1
    BY <1>1, <1>4, <1>6 DEF LandsIn
  <2>3. p < z /\ p > 0
    BY <1>2, <2>1
  <2>4. FilledUp(v.next, v.h)
    BY <1>3, <1>5, <2>1, <2>2, <2>3 DEF FilledUp
  <2> QED
    BY <1>1, <1>2, <1>3, <1>6, <2>4 DEF Position
<1>7. CASE DidWrite(h, n) = "orderly"
  <2>1. q = Sector(p, z)
    BY <1>1, <1>4, <1>7 DEF LandsIn
  <2>2. q = Place(p, z)
    BY <1>2, <2>1 DEF Place
  <2>3. ~ (p > z)
    BY <1>2
  <2>4. Orderly(v.next, v.h)
    BY <1>3, <1>5, <2>2, <2>3 DEF Orderly
  <2> QED
    BY <1>1, <1>2, <1>3, <1>7, <2>4 DEF Position
<1> QED
  BY <1>6, <1>7 DEF DidWrite

(* The entries after a write that gives file f the start s and size z.     *)
EntrySet(e, f, s, z) ==
  /\ Entries(e) /\ DOMAIN e = Existing
  /\ StartsOf(e)[f] = s /\ CountsOf(e)[f] = ClustersFor(z) /\ e[f].start_cluster = s /\ e[f].file_size = z
  /\ \A g \in Existing \ {f} : /\ e[g] = dir[g] /\ StartsOf(e)[g] = Starts[g]
                               /\ CountsOf(e)[g] = Counts[g]

LEMMA EntryIs ==
  ASSUME Tables, NEW f \in Existing, NEW s \in Clusters, NEW z \in 0 .. MaxSize,
         NEW e, e = [dir EXCEPT ![f] = [start_cluster |-> s, file_size |-> z]]
  PROVE  EntrySet(e, f, s, z)
<1>1. DOMAIN e = Existing
  BY DEF Existing
<1>2. e[f] = [start_cluster |-> s, file_size |-> z]
  BY DEF Existing
<1>3. \A g \in Existing \ {f} : e[g] = dir[g]
  BY DEF Existing
<1>4. Entries(e)
  BY <1>1, <1>2, <1>3 DEF Entries, Tables
<1>5. \A g \in Existing : StartsOf(e)[g] = e[g].start_cluster /\ CountsOf(e)[g] = ClustersFor(e[g].file_size)
  BY <1>1 DEF StartsOf, CountsOf
<1>6. \A g \in Existing : Starts[g] = dir[g].start_cluster /\ Counts[g] = ClustersFor(dir[g].file_size)
  BY DEF Starts, Counts
<1> QED
  BY <1>1, <1>2, <1>3, <1>4, <1>5, <1>6 DEF EntrySet

(* What a write leaves behind, when all is well and when the disk is full. *)
WroteWell(v, e, f, d) ==
  /\ v.monitor = "no" /\ TablesFor(v.next, e) /\ v.h \in Handle /\ v.h.file = f
  /\ FollowsIn(e, v.h) /\ Position(v.next, v.h, d) /\ v.cache \in {Empty, v.next}
  /\ SameOn(next, v.next, Others(next, Existing, Starts, Counts, f))
WroteLong(v, e, f) ==
  /\ v.monitor = "disk_full" /\ LongTables(v.next, e) /\ v.h \in Handle /\ v.h.file = f
  /\ v.cache \in {Empty, v.next}

LEMMA WrittenWell ==
  ASSUME disk \in Disks, RootIsShort, Tables, NEW f \in Existing, NEW h \in Handle, h.fileSize \in 0 .. MaxSize,
         h.currpos \in Nat, NEW n \in Nat \ {0}, h.currpos + n <= MaxSize,
         NEW v, Written(v, Rest(f), h, n), NEW e, e = [dir EXCEPT ![f] = Entry(@, v)]
  PROVE  WroteWell(v, e, f, DidWrite(h, n))
<1>1. PICK s, z, m : s = v.h.startcluster /\ z = EndOf(h, n) /\ m = ClustersFor(z)
  OBVIOUS
<1>2. Position(v.next, v.h, DidWrite(h, n)) /\ v.h.fileSize = z /\ z \in Nat \ {0}
  BY <1>1, WrittenStands
<1>3. z \in 0 .. MaxSize
  BY <1>1, <1>2, DiskAssumption DEF EndOf, Later
<1>4. Disk(v, Rest(f), m) /\ v.monitor = "no"
  BY <1>1 DEF Written, Stands
<1>5. s \in Clusters
  <2>1. PICK S2, M2 : /\ S2 = [g \in Existing |-> IF g = f THEN s ELSE Starts[g]]
                      /\ M2 = [g \in Existing |-> IF g = f THEN m ELSE Counts[g]]
    OBVIOUS
  <2>2. S2[f] = v.h.startcluster /\ M2[f] = m
    BY <1>1, <2>1
  <2>3. \A g \in Existing \ {f} : S2[g] = Starts[g] /\ M2[g] = Counts[g]
    BY <2>1
  <2> QED
    BY <1>1, <1>4, <2>2, <2>3, WriteTidy
<1>6. s # EOC /\ s # 0 /\ ~ Allocates(v.h)
  BY <1>1, <1>5, ClustersAre DEF Allocates
<1>7. e = [dir EXCEPT ![f] = [start_cluster |-> s, file_size |-> z]]
  BY <1>1, <1>2, <1>4, <1>6 DEF Entry
<1>8. /\ Entries(e) /\ DOMAIN e = Existing
      /\ StartsOf(e)[f] = s /\ CountsOf(e)[f] = m /\ e[f].start_cluster = s /\ e[f].file_size = z
      /\ \A g \in Existing \ {f} : StartsOf(e)[g] = Starts[g] /\ CountsOf(e)[g] = Counts[g]
  <2>1. EntrySet(e, f, s, z)
    BY <1>3, <1>5, <1>7, EntryIs
  <2> QED
    BY <1>1, <2>1 DEF EntrySet
<1>9. /\ Tidy(v.next, Existing, StartsOf(e), CountsOf(e))
      /\ SameOn(next, v.next, Others(next, Existing, Starts, Counts, f))
      /\ v.h \in Handle /\ v.h.file = f /\ v.cache \in {Empty, v.next}
  <2>1. PICK S2, M2 : S2 = StartsOf(e) /\ M2 = CountsOf(e)
    OBVIOUS
  <2>2. S2[f] = v.h.startcluster /\ M2[f] = m /\ \A g \in Existing \ {f} : S2[g] = Starts[g] /\ M2[g] = Counts[g]
    BY <1>1, <1>8, <2>1
  <2>3. /\ Tidy(v.next, Existing, S2, M2)
        /\ SameOn(next, v.next, Others(next, Existing, Starts, Counts, f))
        /\ v.h \in Handle /\ v.h.file = f /\ v.cache \in {Empty, v.next}
    BY <1>4, <2>2, WriteTidy
  <2> QED
    BY ONLY <2>1, <2>3
<1>10. TablesFor(v.next, e)
  BY <1>8, <1>9 DEF TablesFor
<1>11. FollowsIn(e, v.h)
  BY <1>1, <1>2, <1>6, <1>8, <1>9 DEF FollowsIn
<1> QED
  BY <1>2, <1>4, <1>9, <1>10, <1>11 DEF WroteWell

LEMMA StuckLong ==
  ASSUME disk \in Disks, Tables, NEW f \in Existing,
         NEW v, Stuck(v, Rest(f)), NEW e, e = [dir EXCEPT ![f] = Entry(@, v)]
  PROVE  WroteLong(v, e, f)
<1>1. PICK m : Disk(v, Rest(f), m) /\ v.monitor = "disk_full"
  BY DEF Stuck
<1>2. PICK s, z : s = v.h.startcluster /\ z = dir[f].file_size
  OBVIOUS
<1>3. z \in 0 .. MaxSize
  BY <1>2 DEF Tables
<1>4. PICK M2 : M2 = [g \in Existing |-> IF g = f THEN m ELSE Counts[g]]
  OBVIOUS
<1>5. M2[f] = m /\ \A g \in Existing \ {f} : M2[g] = Counts[g]
  BY <1>4
<1>6. s \in Clusters
  <2>1. PICK S2 : S2 = [g \in Existing |-> IF g = f THEN s ELSE Starts[g]]
    OBVIOUS
  <2>2. S2[f] = v.h.startcluster /\ \A g \in Existing \ {f} : S2[g] = Starts[g]
    BY <1>2, <2>1
  <2> QED
    BY <1>1, <1>2, <1>5, <2>2, WriteTidy
<1>7. s # EOC
  BY <1>6, ClustersAre
<1>8. e = [dir EXCEPT ![f] = [start_cluster |-> s, file_size |-> z]]
  BY <1>1, <1>2, <1>7 DEF Entry
<1>9. /\ Entries(e) /\ DOMAIN e = Existing /\ StartsOf(e)[f] = s /\ CountsOf(e)[f] = ClustersFor(z)
      /\ \A g \in Existing \ {f} : StartsOf(e)[g] = Starts[g] /\ CountsOf(e)[g] = Counts[g]
  <2>1. EntrySet(e, f, s, z)
    BY <1>3, <1>6, <1>8, EntryIs
  <2> QED
    BY <2>1 DEF EntrySet
<1>10. /\ Tidy(v.next, Existing, StartsOf(e), M2) /\ m >= Counts[f]
       /\ v.h \in Handle /\ v.h.file = f /\ v.cache \in {Empty, v.next}
  <2>1. PICK S2 : S2 = StartsOf(e)
    OBVIOUS
  <2>2. S2[f] = v.h.startcluster /\ \A g \in Existing \ {f} : S2[g] = Starts[g]
    BY <1>2, <1>9, <2>1
  <2>3. M2[f] = m /\ \A g \in Existing \ {f} : M2[g] = Counts[g]
    BY <1>5
  <2>4. Disk(v, Rest(f), m)
    BY <1>1
  <2>5. /\ Tidy(v.next, Existing, S2, M2) /\ m >= Counts[f]
        /\ v.h \in Handle /\ v.h.file = f /\ v.cache \in {Empty, v.next}
    BY <2>2, <2>3, <2>4, WriteTidy
  <2> QED
    BY ONLY <2>1, <2>5
<1>11. Counts[f] = ClustersFor(z)
  BY <1>2 DEF Counts
<1>12. \A g \in Existing : M2[g] >= CountsOf(e)[g]
  <2>1. \A g \in Existing : Counts[g] \in Nat
    BY RestIs
  <2> QED
    <3>1. M2[f] >= CountsOf(e)[f]
      BY <1>5, <1>9, <1>10, <1>11
    <3>2. \A g \in Existing \ {f} : M2[g] = CountsOf(e)[g] /\ M2[g] \in Nat
      BY <1>5, <1>9, <2>1
    <3>3. \A a \in Nat : a >= a
      OBVIOUS
    <3> QED
      BY <3>1, <3>2, <3>3
<1>13. LongTables(v.next, e)
  BY <1>9, <1>10, <1>12 DEF LongTables
<1> QED
  BY <1>1, <1>10, <1>13 DEF WroteLong

(* Entries that stay as they are.                                          *)
LEMMA SameEntries ==
  ASSUME Tables, NEW e, DOMAIN e = Existing, \A g \in Existing : e[g] = dir[g]
  PROVE  TablesFor(next, e)
<1>1. StartsOf(e) = Starts
  BY DEF StartsOf, Starts
<1>2. CountsOf(e) = Counts
  BY DEF CountsOf, Counts
<1> QED
  BY <1>1, <1>2 DEF TablesFor, Tables, Entries

(* A write that is refused, or has nothing to write.                       *)
LEMMA UnwrittenWell ==
  ASSUME disk \in Disks, Tables, NEW f \in Existing, cachedBuf \in {Empty, next},
         NEW h \in Handle, h.file = f, FollowsIn(dir, h), NEW d, Position(next, h, d),
         NEW v, v = Unwritten(h), NEW e, e = [dir EXCEPT ![f] = Entry(@, v)]
  PROVE  WroteWell(v, e, f, d)
<1>1. v.h = h /\ v.next = next /\ v.cache = cachedBuf /\ v.monitor = "no"
  BY DEF Unwritten
<1>2. DOMAIN e = Existing /\ \A g \in Existing \ {f} : e[g] = dir[g]
  BY DEF Existing
<1>3. e[f] = Entry(dir[f], v)
  BY DEF Existing
<1>4. Entry(dir[f], v) = [start_cluster |-> dir[f].start_cluster, file_size |-> dir[f].file_size]
  <2>1. h.fileSize = dir[f].file_size
    BY DEF FollowsIn
  <2>2. dir[f].start_cluster = IF Allocates(h) THEN 0 ELSE h.startcluster
    BY DEF FollowsIn
  <2>3. dir[f].start_cluster = IF h.startcluster = EOC THEN 0 ELSE h.startcluster
    BY <2>2 DEF Allocates
  <2> QED
    BY <1>1, <2>1, <2>3 DEF Entry
<1>5. dir[f] = [start_cluster |-> dir[f].start_cluster, file_size |-> dir[f].file_size]
  BY DEF Tables
<1>6. \A g \in Existing : e[g] = dir[g]
  BY <1>2, <1>3, <1>4, <1>5
<1>7. TablesFor(next, e)
  BY <1>2, <1>6, SameEntries
<1>8. FollowsIn(e, h)
  BY <1>2, <1>6 DEF FollowsIn, Existing
<1>9. SameOn(next, next, Others(next, Existing, Starts, Counts, f))
  BY DEF SameOn
<1> QED
  BY <1>1, <1>7, <1>8, <1>9 DEF WroteWell

(***************************************************************************)
(* The invariant, first of any table t, cache c, entries e and handles.    *)
(***************************************************************************)
Good(t, c, e, H, D) == TablesFor(t, e) /\ HandlingFor(t, e, H, D) /\ c \in {Empty, t}
Long(t, c, e, H) ==
  /\ LongTables(t, e) /\ c \in {Empty, t}
  /\ \A x \in Handles : H[x].file # NoFile => H[x].file \in DOMAIN e
Fine(t, c, e, H, D, o) == (o = "no" /\ Good(t, c, e, H, D)) \/ (o = "disk_full" /\ Long(t, c, e, H))

LEMMA GoodIs ==
  ASSUME Good(next, cachedBuf, dir, handle, did)
  PROVE  /\ Tables /\ HandlingFor(next, dir, handle, did) /\ cachedBuf \in {Empty, next} /\ next \in Table
         /\ \A x \in Handles : /\ handle[x] \in Handle /\ did[x] \in Patterns \cup {"orderly"}
                               /\ IsOpen(x) => /\ FollowsIn(dir, handle[x]) /\ handle[x].file \in Existing
                                               /\ Position(next, handle[x], did[x])
                                               /\ handle[x].fileSize \in 0 .. MaxSize
                                               /\ Follows(handle[x], handle[x].file)
         /\ \A x, y \in Handles : x # y /\ IsOpen(x) => handle[x].file # handle[y].file
<1>1. Tables /\ HandlingFor(next, dir, handle, did) /\ cachedBuf \in {Empty, next}
  BY TablesAre DEF Good
<1>2. next \in Table
  BY <1>1 DEF Tables, Tidy
<1>3. ASSUME NEW x \in Handles
      PROVE  /\ handle[x] \in Handle /\ did[x] \in Patterns \cup {"orderly"}
             /\ IsOpen(x) => /\ FollowsIn(dir, handle[x]) /\ handle[x].file \in Existing
                             /\ Position(next, handle[x], did[x])
                             /\ handle[x].fileSize \in 0 .. MaxSize
                             /\ Follows(handle[x], handle[x].file)
  <2>1. handle[x] \in Handle /\ did[x] \in Patterns \cup {"orderly"}
    BY <1>1 DEF HandlingFor
  <2>2. ASSUME IsOpen(x)
        PROVE  /\ FollowsIn(dir, handle[x]) /\ handle[x].file \in Existing
               /\ Position(next, handle[x], did[x])
               /\ handle[x].fileSize \in 0 .. MaxSize
               /\ Follows(handle[x], handle[x].file)
    <3>1. FollowsIn(dir, handle[x]) /\ Position(next, handle[x], did[x])
      BY <1>1, <2>2 DEF HandlingFor, IsOpen
    <3>2. handle[x].file \in Existing /\ handle[x].fileSize = dir[handle[x].file].file_size
      BY <3>1 DEF FollowsIn, Existing
    <3>3. handle[x].fileSize \in 0 .. MaxSize
      BY <1>1, <3>2 DEF Tables
    <3>4. Follows(handle[x], handle[x].file)
      BY <2>1, <3>1, FollowsAre
    <3> QED
      BY <3>1, <3>2, <3>3, <3>4
  <2> QED
    BY <2>1, <2>2
<1>4. \A x, y \in Handles : x # y /\ IsOpen(x) => handle[x].file # handle[y].file
  BY <1>1 DEF HandlingFor, IsOpen
<1> QED
  BY <1>1, <1>2, <1>3, <1>4

(* A write, from the state and with the handle as they are.                *)
LEMMA WriteWell ==
  ASSUME disk \in Disks, RootIsShort, Slips = {}, Good(next, cachedBuf, dir, handle, did),
         NEW x \in Handles, NEW n \in Requests, MayWrite(x, n), NEW h, h = handle[x], NEW f, f = h.file,
         NEW v, v = fatWriteFile(h, n), NEW e, e = [dir EXCEPT ![f] = Entry(@, v)],
         NEW d, d = IF h.currpos < 0 \/ n = 0 \/ NoRoom(h) THEN did[x] ELSE DidWrite(h, n)
  PROVE  WroteWell(v, e, f, d) \/ WroteLong(v, e, f)
<1>1. /\ Tables /\ cachedBuf \in {Empty, next} /\ h \in Handle /\ did[x] \in Patterns \cup {"orderly"}
      /\ FollowsIn(dir, h) /\ f \in Existing /\ Position(next, h, did[x]) /\ h.fileSize \in 0 .. MaxSize
      /\ Follows(h, f)
  <2>1. IsOpen(x)
    BY DEF MayWrite
  <2> QED
    BY <2>1, GoodIs
<1>2. did[x] \in {"orderly", "created"} /\ h.currpos + n <= MaxSize
  BY <1>1, MayIs DEF MayWrite
<1>3. n \in Nat /\ h.currpos \in Int
  BY <1>1, DiskAssumption DEF Handle
<1>4. CASE h.currpos < 0 \/ n = 0
  <2>1. v = Unwritten(h) /\ d = did[x]
    BY <1>3, <1>4 DEF fatWriteFile
  <2> QED
    BY <1>1, <2>1, UnwrittenWell
<1>5. CASE h.currpos >= 0 /\ n # 0 /\ NoRoom(h)
  <2>1. PICK g : g = [h EXCEPT !.nextCluster = 0]
    OBVIOUS
  <2>2. v = Unwritten(g) /\ d = did[x]
    BY <1>3, <1>5, <2>1 DEF fatWriteFile
  <2>3. g \in Handle /\ g.file = f /\ g.fileSize = h.fileSize /\ g.startcluster = h.startcluster
        /\ g.currentCluster = h.currentCluster
    <3>1. 0 \in LinkSet
      BY DEF LinkSet
    <3> QED
      BY <1>1, <2>1, <3>1 DEF Handle
  <2>4. h.fileSize = 0
    <3>1. Allocates(h)
      BY <1>5 DEF NoRoom
    <3> QED
      BY <1>1, <3>1, FollowsIs
  <2>5. Position(next, g, did[x])
    BY <1>1, <2>3, <2>4 DEF Position
  <2>6. FollowsIn(dir, g)
    BY <1>1, <2>3 DEF FollowsIn, Allocates
  <2> QED
    BY <1>1, <2>2, <2>3, <2>5, <2>6, UnwrittenWell
<1>6. CASE h.currpos >= 0 /\ n # 0 /\ ~ NoRoom(h)
  <2>1. h.currpos \in Nat /\ n \in Nat \ {0}
    BY <1>3, <1>6
  <2>2. d = DidWrite(h, n)
    BY <1>6, <2>1
  <2>3. Placed(h)
    BY <1>1, <1>2, <2>1, PlacedFrom
  <2>4. Stuck(v, Rest(f)) \/ Written(v, Rest(f), h, n)
    BY <1>1, <1>6, <2>1, <2>3, WriteDoes
  <2>5. CASE Stuck(v, Rest(f))
    BY <1>1, <2>5, StuckLong
  <2>6. CASE Written(v, Rest(f), h, n)
    BY <1>1, <1>2, <2>1, <2>2, <2>6, WrittenWell
  <2> QED
    BY <2>4, <2>5, <2>6
<1> QED
  BY <1>3, <1>4, <1>5, <1>6

(* The state after a step, on the same disk.                               *)
FineNext == Fine(next', cachedBuf', dir', handle', did', monitor')

LEMMA WriteKeeps ==
  ASSUME disk \in Disks, RootIsShort, Slips = {}, Good(next, cachedBuf, dir, handle, did),
         NEW x \in Handles, NEW n \in Requests, WriteCall(x, n)
  PROVE  FineNext
<1>1. PICK h, f, v : h = handle[x] /\ f = h.file /\ v = fatWriteFile(h, n)
  OBVIOUS
<1>2. PICK d : d = IF h.currpos < 0 \/ n = 0 \/ NoRoom(h) THEN did[x] ELSE DidWrite(h, n)
  OBVIOUS
<1>3. PICK e : e = [dir EXCEPT ![f] = Entry(@, v)]
  OBVIOUS
<1>4. MayWrite(x, n) /\ monitor = "no" /\ IsOpen(x)
  BY DEF WriteCall, MayWrite
<1>5. /\ handle' = [handle EXCEPT ![x] = v.h] /\ next' = v.next /\ cachedBuf' = v.cache
      /\ dir' = e /\ monitor' = v.monitor
  BY <1>1, <1>3 DEF WriteCall
<1>6. did' = [did EXCEPT ![x] = d]
  <2>1. did' = [did EXCEPT ![x] = IF h.currpos < 0 \/ n = 0 \/ NoRoom(h) THEN @ ELSE DidWrite(h, n)]
    BY <1>1 DEF WriteCall
  <2> QED
    BY <1>2, <2>1
<1>7. WroteWell(v, e, f, d) \/ WroteLong(v, e, f)
  BY <1>1, <1>2, <1>3, <1>4, WriteWell
<1>8. /\ Tables /\ HandlingFor(next, dir, handle, did) /\ f \in Existing
      /\ \A y \in Handles : y # x => handle[y].file # f
  BY <1>1, <1>4, GoodIs
<1>9. did \in [Handles -> Patterns \cup {"orderly"}] /\ handle \in [Handles -> Handle]
  BY <1>8 DEF HandlingFor
<1>10. DOMAIN e = Existing /\ \A k \in Existing \ {f} : e[k] = dir[k]
  BY <1>3 DEF Existing
<1>11. f # NoFile
  BY <1>1, <1>4 DEF IsOpen
<1>12. CASE WroteWell(v, e, f, d)
  <2>1. d \in Patterns \cup {"orderly"}
    BY <1>2, <1>9 DEF DidWrite, Patterns
  <2>2. PICK g, u : g = v.h /\ u = v.next
    OBVIOUS
  <2>3. /\ v.monitor = "no" /\ TablesFor(u, e) /\ g \in Handle /\ g.file = f
        /\ FollowsIn(e, g) /\ Position(u, g, d) /\ v.cache \in {Empty, u}
        /\ SameOn(next, u, Others(next, Existing, Starts, Counts, f))
    BY <1>12, <2>2 DEF WroteWell
  <2>4. HandlingFor(u, e, [handle EXCEPT ![x] = g], [did EXCEPT ![x] = d])
    BY <1>8, <1>10, <2>1, <2>3, OneHandle
  <2>5. Good(u, v.cache, e, [handle EXCEPT ![x] = g], [did EXCEPT ![x] = d])
    BY <2>3, <2>4 DEF Good
  <2> QED
    BY <1>5, <1>6, <2>2, <2>3, <2>5 DEF FineNext, Fine
<1>13. CASE WroteLong(v, e, f)
  <2>1. PICK H : H = [handle EXCEPT ![x] = v.h]
    OBVIOUS
  <2>2. v.h.file = f /\ LongTables(v.next, e) /\ v.cache \in {Empty, v.next} /\ v.monitor = "disk_full"
    BY <1>13 DEF WroteLong
  <2>3. ASSUME NEW y \in Handles, H[y].file # NoFile PROVE H[y].file \in DOMAIN e
    <3>1. CASE y = x
      BY <1>8, <1>9, <1>10, <2>1, <2>2, <3>1
    <3>2. CASE y # x
      <4>1. H[y] = handle[y]
        BY <1>9, <2>1, <3>2
      <4>2. handle[y].file \in Existing
        BY <2>3, <4>1, GoodIs DEF IsOpen
      <4> QED
        BY <1>10, <4>1, <4>2
    <3> QED
      BY <3>1, <3>2
  <2>4. Long(v.next, v.cache, e, H)
    BY <2>2, <2>3 DEF Long
  <2> QED
    BY <1>5, <2>1, <2>2, <2>4 DEF FineNext, Fine
<1> QED
  BY <1>7, <1>12, <1>13

(* A read: the handle moves on in its file.                                *)
LEMMA ReadKeeps ==
  ASSUME disk \in Disks, RootIsShort, Slips = {}, Good(next, cachedBuf, dir, handle, did),
         NEW x \in Handles, NEW n \in Requests, ReadCall(x, n)
  PROVE  FineNext
<1>1. PICK h, f, r : h = handle[x] /\ f = h.file /\ r = fatReadFile(h, n)
  OBVIOUS
<1>2. PICK d : d = IF Refuses(h) THEN did[x] ELSE DidRead(did[x], r.h)
  OBVIOUS
<1>3. monitor = "no" /\ IsOpen(x) /\ May(x, "read")
  BY DEF ReadCall
<1>4. /\ handle' = [handle EXCEPT ![x] = r.h] /\ cachedBuf' = r.cache
      /\ next' = next /\ dir' = dir /\ monitor' = monitor
  BY <1>1 DEF ReadCall
<1>5. did' = [did EXCEPT ![x] = d]
  <2>1. did' = [did EXCEPT ![x] = IF Refuses(h) THEN @ ELSE DidRead(@, r.h)]
    BY <1>1 DEF ReadCall
  <2> QED
    BY <1>2, <2>1
<1>6. /\ Tables /\ HandlingFor(next, dir, handle, did) /\ cachedBuf \in {Empty, next} /\ next \in Table
      /\ h \in Handle /\ did[x] \in Patterns \cup {"orderly"} /\ f \in Existing
      /\ FollowsIn(dir, h) /\ Position(next, h, did[x]) /\ Follows(h, f)
      /\ \A y \in Handles : y # x => handle[y].file # f
  BY <1>1, <1>3, GoodIs
<1>7. /\ r.h \in Handle /\ r.h.file = f /\ FollowsIn(dir, r.h) /\ r.cache \in {Empty, next}
      /\ Position(next, r.h, d)
  <2>1. CASE Refuses(h)
    <3>1. r.h = h /\ r.cache = cachedBuf /\ d = did[x]
      BY <1>1, <1>2, <2>1 DEF fatReadFile
    <3> QED
      BY <1>1, <1>6, <3>1
  <2>2. CASE ~ Refuses(h)
    <3>1. did[x] \in {"orderly", "at_end", "past_end"}
      BY <1>3, <1>6, MayIs
    <3>2. h.fileSize > 0 => Chained(h)
      BY <1>6, FollowsChain
    <3>3. n \in Nat
      BY DiskAssumption
    <3>4. PICK c : c = did[x]
      OBVIOUS
    <3>5. ReadWell(r, h, n, c)
      BY <1>1, <1>6, <2>2, <3>1, <3>2, <3>3, <3>4, ReadsWell
    <3>6. /\ r.cache \in {Empty, next}
          /\ r.h \in Handle /\ r.h.file = h.file /\ r.h.startcluster = h.startcluster /\ r.h.fileSize = h.fileSize
          /\ Position(next, r.h, DidRead(c, r.h))
      BY <3>5 DEF ReadWell
    <3>7. FollowsIn(dir, r.h)
      BY <1>6, <3>6 DEF FollowsIn, Allocates
    <3> QED
      BY <1>1, <1>2, <2>2, <3>4, <3>6, <3>7
  <2> QED
    BY <2>1, <2>2
<1>8. d \in Patterns \cup {"orderly"}
  BY <1>2, <1>6 DEF DidRead, Patterns
<1>9. PICK g : g = r.h
  OBVIOUS
<1>10. HandlingFor(next, dir, [handle EXCEPT ![x] = g], [did EXCEPT ![x] = d])
  <2>1. SameOn(next, next, Others(next, Existing, Starts, Counts, f))
    BY DEF SameOn
  <2>2. \A k \in Existing \ {f} : k \in DOMAIN dir /\ dir[k] = dir[k]
    BY DEF Existing
  <2> QED
    BY <1>6, <1>7, <1>8, <1>9, <2>1, <2>2, OneHandle
<1>11. TablesFor(next, dir)
  BY <1>6, TablesAre
<1>12. Good(next, r.cache, dir, [handle EXCEPT ![x] = g], [did EXCEPT ![x] = d])
  BY <1>7, <1>10, <1>11 DEF Good
<1> QED
  BY <1>3, <1>4, <1>5, <1>9, <1>12 DEF FineNext, Fine

LEMMA CloseKeeps ==
  ASSUME disk \in Disks, Good(next, cachedBuf, dir, handle, did), NEW x \in Handles, fileClose(x)
  PROVE  FineNext
<1>1. PICK f, g : f = handle[x].file /\ g = [handle[x] EXCEPT !.file = NoFile]
  OBVIOUS
<1>2. /\ Tables /\ HandlingFor(next, dir, handle, did) /\ cachedBuf \in {Empty, next}
      /\ handle[x] \in Handle /\ did[x] \in Patterns \cup {"orderly"}
      /\ \A y \in Handles : y # x => handle[y].file # f
  BY <1>1, GoodIs DEF fileClose
<1>3. g \in Handle /\ g.file = NoFile
  BY <1>1, <1>2 DEF Handle
<1>4. handle' = [handle EXCEPT ![x] = g]
  BY <1>1 DEF fileClose
<1>5. PICK d : d = did[x]
  OBVIOUS
<1>6. did' = [did EXCEPT ![x] = d]
  BY <1>2, <1>5 DEF fileClose, HandlingFor
<1>7. SameOn(next, next, Others(next, Existing, Starts, Counts, f))
  BY DEF SameOn
<1>8. \A k \in Existing \ {f} : k \in DOMAIN dir /\ dir[k] = dir[k]
  BY DEF Existing
<1>9. HandlingFor(next, dir, [handle EXCEPT ![x] = g], [did EXCEPT ![x] = d])
  BY <1>2, <1>3, <1>5, <1>7, <1>8, OneHandle
<1>10. Good(next, cachedBuf, dir, [handle EXCEPT ![x] = g], [did EXCEPT ![x] = d])
  BY <1>2, <1>9, TablesAre DEF Good
<1>11. next' = next /\ cachedBuf' = cachedBuf /\ dir' = dir /\ monitor' = "no"
  BY DEF fileClose
<1> QED
  BY <1>4, <1>6, <1>10, <1>11 DEF FineNext, Fine

(* The handle k made one of file f.                                        *)
AsOf(k, f, c) == [k EXCEPT !.file = f, !.startcluster = c, !.fileSize = dir[f].file_size,
                           !.currpos = 0, !.currentCluster = c, !.sectorUpto = 0]

(* Opening: at the start of the first cluster, if there is one.            *)
LEMMA OpenStands ==
  ASSUME disk \in Disks, Tables, cachedBuf \in {Empty, next}, NEW f \in Existing,
         NEW c, c = (IF Start(f) = 0 THEN EOC ELSE Start(f)), NEW k \in Handle,
         NEW h, h = AsOf(k, f, c),
         NEW g, g = fatClusterAnalyse(Seen(next, cachedBuf), h, c)
  PROVE  /\ g \in Handle /\ g.file = f /\ FollowsIn(dir, g) /\ Position(next, g, "orderly")
         /\ Caching(next, cachedBuf, c) \in {Empty, next}
<1>1. Seen(next, cachedBuf) = next /\ Caching(next, cachedBuf, c) \in {Empty, next}
  <2>1. next # Empty \/ Empty = next
    OBVIOUS
  <2> QED
    BY <2>1 DEF Seen, Caching
<1>2. PICK s, z : s = Starts[f] /\ z = dir[f].file_size
  OBVIOUS
<1>3. /\ Start(f) = s /\ dir[f].start_cluster = s /\ s \in Clusters \cup {0} /\ z \in 0 .. MaxSize
      /\ f \in Files
  BY <1>2 DEF Start, Existing, Starts, Tables
<1>4. z \in Nat
  BY <1>3, DiskAssumption
<1>5. ChainOf(next, s, Counts[f]) /\ next \in Table /\ Counts[f] \in Nat
  BY <1>2, RestIs
<1>6. Counts[f] = ClustersFor(z)
  BY <1>2 DEF Counts
<1>7. c \in LinkSet
  BY <1>3 DEF LinkSet
<1>8. /\ h \in Handle /\ h.file = f /\ h.startcluster = c /\ h.fileSize = z /\ h.currpos = 0
      /\ h.currentCluster = c /\ h.sectorUpto = 0
  <2>0. PICK o : o = 0 /\ o \in Nat /\ o \in Int
    OBVIOUS
  <2>1. PICK k1, k2, k3 : /\ k1 = [k EXCEPT !.file = f, !.startcluster = c]
                          /\ k2 = [k1 EXCEPT !.fileSize = z]
                          /\ k3 = [k2 EXCEPT !.currpos = o]
    OBVIOUS
  <2>2. PICK k4 : k4 = [k3 EXCEPT !.currentCluster = c]
    OBVIOUS
  <2>3. h = [k4 EXCEPT !.sectorUpto = o]
    BY <1>2, <2>0, <2>1, <2>2 DEF AsOf
  <2>4. k1 \in Handle /\ k1.file = f /\ k1.startcluster = c
    BY <1>3, <1>7, <2>1 DEF Handle
  <2>5. k2 \in Handle /\ k2.file = f /\ k2.startcluster = c /\ k2.fileSize = z
    BY <1>4, <2>1, <2>4 DEF Handle
  <2>6. k3 \in Handle /\ k3.file = f /\ k3.startcluster = c /\ k3.fileSize = z /\ k3.currpos = o
    BY <2>0, <2>1, <2>5 DEF Handle
  <2>7. /\ k4 \in Handle /\ k4.file = f /\ k4.startcluster = c /\ k4.fileSize = z /\ k4.currpos = o
        /\ k4.currentCluster = c
    BY <1>7, <2>2, <2>6 DEF Handle
  <2>8. /\ h \in Handle /\ h.file = f /\ h.startcluster = c /\ h.fileSize = z /\ h.currpos = o
        /\ h.currentCluster = c /\ h.sectorUpto = o
    BY <2>0, <2>3, <2>7 DEF Handle
  <2> QED
    BY <2>0, <2>8
<1>9. CASE z = 0
  <2>1. Counts[f] = 0
    BY <1>4, <1>6, <1>9, SizeInClusters
  <2>2. s = 0 /\ c = EOC
    BY <1>3, <1>5, <2>1, ClustersAre DEF ChainOf
  <2>3. g = h /\ fatEndCluster(h.currentCluster)
    BY <1>8, <2>2, ClustersAre DEF fatClusterAnalyse
  <2>4. FollowsIn(dir, h)
    BY <1>2, <1>3, <1>8, <2>2 DEF FollowsIn, Existing, Allocates
  <2> QED
    BY <1>1, <1>8, <1>9, <2>3, <2>4 DEF Position
<1>10. CASE z # 0
  <2>1. Counts[f] \in Nat \ {0}
    BY <1>4, <1>6, <1>10, EndIs
  <2>2. s \in Clusters
    <3>1. Nth(next, s, 0) = s
      BY NthSteps
    <3>2. 0 \in 0 .. Counts[f] - 1
      BY <2>1
    <3> QED
      BY <1>5, <3>1, <3>2 DEF ChainOf
  <2>3. c = s /\ c # EOC /\ c # 0 /\ ~ fatEndCluster(c)
    BY <1>3, <2>2, ClustersAre
  <2>4. g = [h EXCEPT !.sectorStart = SectorStart(c), !.nextCluster = next[c]]
    BY <1>1, <2>3 DEF fatClusterAnalyse
  <2>5. SectorStart(c) \in Int /\ next[c] \in LinkSet
    <3>1. sectors_per_cluster \in Nat /\ c \in Nat
      BY <2>2, <2>3, DiskIs, ClustersAre
    <3>2. next[c] \in LinkSet
      BY <1>5, <2>2, <2>3 DEF Table
    <3> QED
      BY <3>1, <3>2 DEF SectorStart, FIRST_DATA_CLUSTER
  <2>6. /\ g \in Handle /\ g.file = f /\ g.startcluster = c /\ g.fileSize = z /\ g.currpos = 0
        /\ g.currentCluster = c /\ g.sectorUpto = 0 /\ g.sectorStart = SectorStart(c) /\ g.nextCluster = next[c]
    BY <1>8, <2>4, <2>5 DEF Handle
  <2>7. FollowsIn(dir, g)
    BY <1>2, <1>3, <2>3, <2>6 DEF FollowsIn, Existing, Allocates
  <2>8. PICK q : q = Place(0, z)
    OBVIOUS
  <2>9. q = 0
    <3>1. PICK o : o = 0 /\ o \in Nat
      OBVIOUS
    <3>2. o \div SectorSize = 0
      <4>1. SectorSize \in Nat \ {0}
        BY DiskIs
      <4>2. o = SectorSize * 0 + 0
        BY <3>1, <4>1
      <4>3. 0 \in 0 .. SectorSize - 1
        BY <4>1
      <4> QED
        BY ONLY <3>1, <4>1, <4>2, <4>3, DivModIs
    <3>3. o # z /\ o <= z
      BY <1>4, <1>10, <3>1
    <3> QED
      BY <2>8, <3>1, <3>2, <3>3 DEF Place, Sector
  <2>10. Here(next, g, q)
    <3>1. sectors_per_cluster \in Nat \ {0}
      BY DiskIs
    <3>2. q \div sectors_per_cluster = 0 /\ q % sectors_per_cluster = 0
      <4>1. q = sectors_per_cluster * 0 + 0
        BY <2>9, <3>1
      <4>2. 0 \in 0 .. sectors_per_cluster - 1 /\ q \in Int
        BY <2>9, <3>1
      <4> QED
        BY ONLY <3>1, <4>1, <4>2, DivModIs
    <3>3. Nth(next, c, 0) = c
      BY NthSteps
    <3> QED
      BY <2>6, <3>2, <3>3 DEF Here
  <2>11. Linked(next, g)
    BY <2>6 DEF Linked
  <2>12. Orderly(next, g)
    <3>1. 0 <= z /\ ~ (0 > z) /\ ~ (0 = z)
      BY <1>4, <1>10
    <3> QED
      BY <2>6, <2>8, <2>10, <2>11, <3>1 DEF Orderly
  <2> QED
    BY <1>1, <1>10, <2>6, <2>7, <2>12 DEF Position
<1> QED
  BY <1>9, <1>10

LEMMA OpenKeeps ==
  ASSUME disk \in Disks, Good(next, cachedBuf, dir, handle, did), NEW x \in Handles, NEW f \in Files,
         fatOpenFile(x, f)
  PROVE  FineNext
<1>1. PICK c : c = IF Start(f) = 0 THEN EOC ELSE Start(f)
  OBVIOUS
<1>20. PICK k : k = handle[x]
  OBVIOUS
<1>2. PICK h : h = AsOf(k, f, c)
  OBVIOUS
<1>3. PICK g : g = fatClusterAnalyse(Seen(next, cachedBuf), h, c)
  OBVIOUS
<1>4. /\ monitor = "no" /\ ~ Opened(f) /\ f \in Existing
      /\ handle' = [handle EXCEPT ![x] = g] /\ cachedBuf' = Caching(next, cachedBuf, c)
      /\ did' = [did EXCEPT ![x] = "orderly"] /\ next' = next /\ dir' = dir /\ monitor' = monitor
  BY <1>1, <1>2, <1>3, <1>20 DEF fatOpenFile, Existing, AsOf
<1>5. /\ Tables /\ HandlingFor(next, dir, handle, did) /\ cachedBuf \in {Empty, next} /\ k \in Handle
  BY <1>20, GoodIs
<1>6. /\ g \in Handle /\ g.file = f /\ FollowsIn(dir, g) /\ Position(next, g, "orderly")
      /\ Caching(next, cachedBuf, c) \in {Empty, next}
  BY <1>1, <1>2, <1>3, <1>4, <1>5, OpenStands
<1>7. SameOn(next, next, Others(next, Existing, Starts, Counts, f))
  BY DEF SameOn
<1>8. \A j \in Existing \ {f} : j \in DOMAIN dir /\ dir[j] = dir[j]
  BY DEF Existing
<1>9. \A y \in Handles : handle[y].file # f
  BY <1>4 DEF Opened
<1>10. PICK d : d = "orderly"
  OBVIOUS
<1>11. HandlingFor(next, dir, [handle EXCEPT ![x] = g], [did EXCEPT ![x] = d])
  BY <1>5, <1>6, <1>7, <1>8, <1>9, <1>10, OneHandle
<1>12. Good(next, Caching(next, cachedBuf, c), dir, [handle EXCEPT ![x] = g], [did EXCEPT ![x] = d])
  BY <1>5, <1>6, <1>11, TablesAre DEF Good
<1> QED
  BY <1>4, <1>10, <1>12 DEF FineNext, Fine

(* The table when the chain of f has been made free.                       *)
LEMMA NukedTidy ==
  ASSUME disk \in Disks, Tables, NEW f, NEW u, u = fatNuke(next, Start(f)),
         NEW S2, NEW M2, S2[f] = 0, M2[f] = 0,
         \A g \in Existing \ {f} : S2[g] = Starts[g] /\ M2[g] = Counts[g]
  PROVE  /\ Tidy(u, Existing \cup {f}, S2, M2)
         /\ SameOn(next, u, Others(next, Existing, Starts, Counts, f))
<1>1. Tidy(next, Existing, Starts, Counts)
  BY DEF Tables
<1>2. PICK s : s = Start(f)
  OBVIOUS
<1>3. (s \in {0, EOC} /\ f \notin Existing) \/ (f \in Existing /\ s = Starts[f])
  BY <1>2 DEF Start, Existing, Starts
<1>4. /\ u \in Table /\ SameOn(next, u, Others(next, Existing, Starts, Counts, f))
      /\ \A c \in Clusters : u[c] # 0 => c \in Others(next, Existing, Starts, Counts, f)
  BY <1>1, <1>2, <1>3, NukeDoes
<1>5. PICK o : o = 0 /\ o \in Nat
  OBVIOUS
<1>6. ChainOf(u, o, o) /\ Own(u, o, o) = {}
  BY <1>5 DEF ChainOf, Own
<1>7. PICK F : F = Existing \cup {f}
  OBVIOUS
<1>8. \A g \in F : /\ S2[g] = (IF g = f THEN o ELSE Starts[g])
                   /\ M2[g] = (IF g = f THEN o ELSE Counts[g])
  BY <1>5, <1>7
<1>9. Own(u, o, o) \cap Others(next, Existing, Starts, Counts, f) = {}
  BY <1>6
<1>10. \A c \in Clusters : u[c] # 0 => c \in Own(u, o, o) \cup Others(next, Existing, Starts, Counts, f)
  BY <1>4
<1>11. Tidy(u, F, S2, M2)
  BY <1>1, <1>4, <1>5, <1>6, <1>7, <1>8, <1>9, <1>10, TidyChanged
<1> QED
  BY <1>4, <1>7, <1>11

(* A file without clusters may go.                                         *)
LEMMA TidyDrop ==
  ASSUME NEW t, NEW E, NEW S, NEW M, NEW f, Tidy(t, E \cup {f}, S, M), M[f] = 0,
         NEW S2, NEW M2, \A g \in E \ {f} : S2[g] = S[g] /\ M2[g] = M[g]
  PROVE  Tidy(t, E \ {f}, S2, M2)
<1>1. Own(t, S[f], M[f]) = {}
  <2>1. 0 .. M[f] - 1 = {}
    OBVIOUS
  <2> QED
    BY <2>1 DEF Own
<1>2. \A g \in E \ {f} : Own(t, S2[g], M2[g]) = Own(t, S[g], M[g])
  OBVIOUS
<1>3. \A g \in E \ {f} : M2[g] \in Nat /\ ChainOf(t, S2[g], M2[g])
  BY DEF Tidy
<1>4. \A g, h \in E \ {f} : g # h => Own(t, S2[g], M2[g]) \cap Own(t, S2[h], M2[h]) = {}
  BY <1>2 DEF Tidy
<1>5. \A c \in Clusters : t[c] # 0 => \E g \in E \ {f} : c \in Own(t, S2[g], M2[g])
  BY <1>1, <1>2 DEF Tidy
<1> QED
  BY <1>3, <1>4, <1>5 DEF Tidy

(* A new file: its entry, and the handle that is open now.                 *)
Creates(e, f) ==
  e = [g \in Existing \cup {f} |-> IF g = f THEN [start_cluster |-> 0, file_size |-> 0] ELSE dir[g]]

LEMMA CreatedEntries ==
  ASSUME disk \in Disks, Tables, NEW f \in Files, NEW e, Creates(e, f)
  PROVE  /\ Entries(e) /\ DOMAIN e = Existing \cup {f} /\ e[f].start_cluster = 0 /\ e[f].file_size = 0
         /\ StartsOf(e)[f] = 0 /\ CountsOf(e)[f] = 0
         /\ \A g \in Existing \ {f} : /\ e[g] = dir[g] /\ StartsOf(e)[g] = Starts[g]
                                      /\ CountsOf(e)[g] = Counts[g]
<1>1. DOMAIN e = Existing \cup {f}
  BY DEF Creates
<1>2. e[f] = [start_cluster |-> 0, file_size |-> 0]
  BY DEF Creates
<1>3. \A g \in Existing \ {f} : e[g] = dir[g]
  BY DEF Creates
<1>4. 0 \in 0 .. MaxSize
  BY DiskAssumption
<1>5. Entries(e)
  BY <1>1, <1>2, <1>3, <1>4 DEF Entries, Tables
<1>6. \A g \in DOMAIN e : StartsOf(e)[g] = e[g].start_cluster /\ CountsOf(e)[g] = ClustersFor(e[g].file_size)
  BY DEF StartsOf, CountsOf
<1>7. \A g \in Existing : Starts[g] = dir[g].start_cluster /\ Counts[g] = ClustersFor(dir[g].file_size)
  BY DEF Starts, Counts
<1>8. CountsOf(e)[f] = 0
  <2>1. PICK o : o = 0 /\ o \in Nat
    OBVIOUS
  <2>2. ClustersFor(o) = 0
    BY <2>1, SizeInClusters
  <2> QED
    BY <1>1, <1>2, <1>6, <2>1, <2>2
<1> QED
  BY <1>1, <1>2, <1>3, <1>5, <1>6, <1>7, <1>8

(* The handle k made one of the new file f.                                *)
AsNew(k, f) == [k EXCEPT !.file = f, !.startcluster = 0, !.fileSize = 0, !.currpos = 0, !.nextCluster = 0]

LEMMA NewIs ==
  ASSUME NEW k \in Handle, NEW f \in Files, NEW g, g = AsNew(k, f)
  PROVE  g \in Handle /\ g.file = f /\ g.fileSize = 0 /\ g.startcluster = 0
<1>1. PICK o : o = 0 /\ o \in Nat /\ o \in Int /\ o \in LinkSet
  BY DEF LinkSet
<1>2. PICK k1, k2, k3 : /\ k1 = [k EXCEPT !.file = f]
                        /\ k2 = [k1 EXCEPT !.startcluster = o]
                        /\ k3 = [k2 EXCEPT !.fileSize = o]
  OBVIOUS
<1>3. PICK k4 : k4 = [k3 EXCEPT !.currpos = o]
  OBVIOUS
<1>4. g = [k4 EXCEPT !.nextCluster = o]
  BY <1>1, <1>2, <1>3 DEF AsNew
<1>5. k1 \in Handle /\ k1.file = f
  BY <1>2 DEF Handle
<1>6. k2 \in Handle /\ k2.file = f /\ k2.startcluster = o
  BY <1>1, <1>2, <1>5 DEF Handle
<1>7. k3 \in Handle /\ k3.file = f /\ k3.startcluster = o /\ k3.fileSize = o
  BY <1>1, <1>2, <1>6 DEF Handle
<1>8. k4 \in Handle /\ k4.file = f /\ k4.startcluster = o /\ k4.fileSize = o
  BY <1>1, <1>3, <1>7 DEF Handle
<1>9. g \in Handle /\ g.file = f /\ g.startcluster = o /\ g.fileSize = o
  BY <1>1, <1>4, <1>8 DEF Handle
<1> QED
  BY <1>1, <1>9

LEMMA CreateKeeps ==
  ASSUME disk \in Disks, Good(next, cachedBuf, dir, handle, did), NEW x \in Handles, NEW f \in Files,
         fatCreatFile(x, f)
  PROVE  FineNext
<1>1. PICK u, e, g : u = fatNuke(next, Start(f)) /\ Creates(e, f) /\ g = AsNew(handle[x], f)
  BY DEF Creates
<1>2. /\ Tables /\ HandlingFor(next, dir, handle, did) /\ handle[x] \in Handle
  BY GoodIs
<1>3. /\ next' = u /\ dir' = e /\ cachedBuf' = Empty /\ did' = [did EXCEPT ![x] = "created"]
      /\ monitor' = monitor /\ monitor = "no" /\ \A y \in Handles : handle[y].file # f
  BY <1>1 DEF fatCreatFile, Creates, Existing, Opened
<1>4. handle' = [handle EXCEPT ![x] = g]
  <2>1. handle' = [handle EXCEPT ![x].file = f, ![x].startcluster = 0, ![x].fileSize = 0,
                                 ![x].currpos = 0, ![x].nextCluster = 0]
    BY DEF fatCreatFile
  <2> QED
    BY <1>1, <1>2, <2>1 DEF HandlingFor, AsNew
<1>5. PICK S2, M2 : S2 = StartsOf(e) /\ M2 = CountsOf(e)
  OBVIOUS
<1>6. /\ Entries(e) /\ DOMAIN e = Existing \cup {f} /\ e[f].start_cluster = 0 /\ e[f].file_size = 0
      /\ S2[f] = 0 /\ M2[f] = 0
      /\ \A k \in Existing \ {f} : e[k] = dir[k] /\ S2[k] = Starts[k] /\ M2[k] = Counts[k]
  <2>1. Tables /\ Creates(e, f)
    BY <1>1, <1>2
  <2>2. /\ Entries(e) /\ DOMAIN e = Existing \cup {f} /\ e[f].start_cluster = 0 /\ e[f].file_size = 0
        /\ StartsOf(e)[f] = 0 /\ CountsOf(e)[f] = 0
        /\ \A k \in Existing \ {f} : /\ e[k] = dir[k] /\ StartsOf(e)[k] = Starts[k]
                                      /\ CountsOf(e)[k] = Counts[k]
    BY ONLY disk \in Disks, f \in Files, <2>1, CreatedEntries
  <2> QED
    BY ONLY <1>5, <2>2
<1>7. Tidy(u, Existing \cup {f}, S2, M2) /\ SameOn(next, u, Others(next, Existing, Starts, Counts, f))
  BY <1>1, <1>2, <1>6, NukedTidy
<1>8. TablesFor(u, e)
  BY <1>5, <1>6, <1>7 DEF TablesFor
<1>9. g \in Handle /\ g.file = f /\ g.fileSize = 0 /\ g.startcluster = 0
  BY <1>1, <1>2, NewIs
<1>10. PICK d : d = "created"
  OBVIOUS
<1>11. FollowsIn(e, g) /\ Position(u, g, d)
  BY <1>6, <1>9, <1>10 DEF FollowsIn, Position, Allocates
<1>12. d \in Patterns \cup {"orderly"}
  BY <1>10 DEF Patterns
<1>13. \A k \in Existing \ {f} : k \in DOMAIN e /\ e[k] = dir[k]
  BY <1>6
<1>14. HandlingFor(u, e, [handle EXCEPT ![x] = g], [did EXCEPT ![x] = d])
  BY <1>2, <1>3, <1>7, <1>9, <1>11, <1>12, <1>13, OneHandle
<1>15. Good(u, Empty, e, [handle EXCEPT ![x] = g], [did EXCEPT ![x] = d])
  BY <1>8, <1>14 DEF Good
<1> QED
  BY <1>3, <1>4, <1>10, <1>15 DEF FineNext, Fine

LEMMA DeleteKeeps ==
  ASSUME disk \in Disks, Good(next, cachedBuf, dir, handle, did), NEW f \in Files, fatDeleteFile(f)
  PROVE  FineNext
<1>1. PICK u, e : u = fatNuke(next, Start(f)) /\ e = [g \in Existing \ {f} |-> dir[g]]
  OBVIOUS
<1>2. Tables /\ HandlingFor(next, dir, handle, did)
  BY GoodIs
<1>3. /\ next' = u /\ dir' = e /\ cachedBuf' = Empty /\ did' = did /\ handle' = handle
      /\ monitor' = monitor /\ monitor = "no" /\ \A y \in Handles : handle[y].file # f
  BY <1>1 DEF fatDeleteFile, Existing, Opened
<1>4. DOMAIN e = Existing \ {f} /\ \A g \in Existing \ {f} : e[g] = dir[g]
  BY <1>1
<1>5. Entries(e)
  BY <1>2, <1>4 DEF Entries, Tables
<1>6. PICK S, M : /\ S = [g \in Existing \cup {f} |-> IF g = f THEN 0 ELSE Starts[g]]
                  /\ M = [g \in Existing \cup {f} |-> IF g = f THEN 0 ELSE Counts[g]]
  OBVIOUS
<1>7. S[f] = 0 /\ M[f] = 0 /\ \A g \in Existing \ {f} : S[g] = Starts[g] /\ M[g] = Counts[g]
  BY <1>6
<1>8. Tidy(u, Existing \cup {f}, S, M) /\ SameOn(next, u, Others(next, Existing, Starts, Counts, f))
  BY <1>1, <1>2, <1>7, NukedTidy
<1>9. PICK S2, M2 : S2 = StartsOf(e) /\ M2 = CountsOf(e)
  OBVIOUS
<1>10. \A g \in Existing \ {f} : S2[g] = S[g] /\ M2[g] = M[g]
  <2>1. \A g \in Existing \ {f} : S2[g] = e[g].start_cluster /\ M2[g] = ClustersFor(e[g].file_size)
    BY <1>4, <1>9 DEF StartsOf, CountsOf
  <2>2. \A g \in Existing : Starts[g] = dir[g].start_cluster /\ Counts[g] = ClustersFor(dir[g].file_size)
    BY DEF Starts, Counts
  <2> QED
    BY <1>4, <1>7, <2>1, <2>2
<1>11. Tidy(u, Existing \ {f}, S2, M2)
  BY <1>7, <1>8, <1>10, TidyDrop
<1>12. TablesFor(u, e)
  BY <1>4, <1>5, <1>9, <1>11 DEF TablesFor
<1>13. \A k \in Existing \ {f} : k \in DOMAIN e /\ e[k] = dir[k]
  BY <1>4
<1>14. HandlingFor(u, e, handle, did)
  BY <1>2, <1>3, <1>8, <1>13, NoHandle
<1>15. Good(u, Empty, e, handle, did)
  BY <1>12, <1>14 DEF Good
<1> QED
  BY <1>3, <1>15 DEF FineNext, Fine

(***************************************************************************)
(* Seeking.                                                                *)
(***************************************************************************)
LEMMA NthLinks ==
  ASSUME disk \in Disks, NEW t \in Table, NEW c \in LinkSet, NEW k \in Nat
  PROVE  Nth(t, c, k) \in LinkSet
<1> DEFINE S == {j \in Nat : Nth(t, c, j) \in LinkSet}
<1>1. 0 \in S
  BY NthSteps
<1>2. ASSUME NEW j \in Nat, j \in S PROVE j + 1 \in S
  <2>1. Nth(t, c, j + 1) = Follow(t, Nth(t, c, j))
    BY NthSteps
  <2>2. Nth(t, c, j) \in LinkSet
    BY <1>2
  <2>3. \A d \in LinkSet : Follow(t, d) \in LinkSet
    <3>1. ASSUME NEW d \in LinkSet PROVE Follow(t, d) \in LinkSet
      <4>1. CASE fatEndCluster(d)
        BY <4>1 DEF Follow
      <4>2. CASE ~ fatEndCluster(d)
        <5>1. d \in Clusters
          BY <4>2, ClustersAre DEF LinkSet
        <5>2. t[d] \in LinkSet
          BY <5>1 DEF Table
        <5> QED
          BY <4>2, <5>2 DEF Follow
      <4> QED
        BY <4>1, <4>2
    <3> QED
      BY <3>1
  <2> QED
    BY <2>1, <2>2, <2>3
<1> HIDE DEF S
<1>3. k \in S
  BY <1>1, <1>2, SetInduction
<1> QED
  BY <1>3 DEF S

(* Clusters of n bytes before a position p, and before a size z.           *)
LEMMA PassedTail ==
  ASSUME NEW n \in Nat \ {0}, NEW z \in Nat \ {0}, NEW p \in Nat, z <= p
  PROVE  /\ (z - 1) \div n <= p \div n
         /\ p % n = 0 => (z - 1) \div n <= (p \div n) - 1
<1>1. (z - 1) \div n <= p \div n
  BY DivOrder
<1>2. ASSUME p % n = 0 PROVE (z - 1) \div n <= (p \div n) - 1
  <2>1. PICK a, a1, p1, n1 : a = p \div n /\ a1 = a - 1 /\ p1 = p - 1 /\ n1 = n - 1
    OBVIOUS
  <2>2. a \in Nat /\ p = n * a
    BY <1>2, <2>1, DivModNat
  <2>3. a1 \in Int /\ n1 \in 0 .. n - 1 /\ p1 \in Int
    BY <2>1, <2>2
  <2>4. p1 = n * a1 + n1
    <3>1. n * (a - 1) = n * a - n
      BY <2>2
    <3> QED
      BY <2>1, <2>2, <3>1
  <2>5. p1 \div n = a1
    BY <2>3, <2>4, DivModIs
  <2>6. z - 1 <= p1 /\ z - 1 \in Int
    BY <2>1
  <2>7. (z - 1) \div n <= p1 \div n
    BY <2>3, <2>6, DivOrder
  <2> QED
    BY <2>1, <2>5, <2>7
<1> QED
  BY <1>1, <1>2

LEMMA LastCluster ==
  ASSUME disk \in Disks, NEW z \in Nat \ {0}, NEW m, m = ClustersFor(z)
  PROVE  /\ ClusterSize \in Nat \ {0} /\ m \in Nat \ {0} /\ (z - 1) \div ClusterSize = m - 1
         /\ \A y \in Nat : y < z => y \div ClusterSize \in 0 .. m - 1
<1>1. PICK n : n = ClusterSize
  OBVIOUS
<1>2. n \in Nat \ {0}
  <2>1. SectorSize \in Nat \ {0} /\ sectors_per_cluster \in Nat \ {0}
    BY DiskIs
  <2>2. PICK a, b : a = SectorSize /\ b = sectors_per_cluster
    OBVIOUS
  <2>3. n = b * a
    BY <1>1, <2>2 DEF ClusterSize
  <2> QED
    BY <2>1, <2>2, <2>3
<1>3. m = (z - 1) \div n + 1
  <2>1. (z + n - 1) \div n = (z - 1) \div n + 1
    <3>1. z \in Nat /\ z > 0
      OBVIOUS
    <3> QED
      BY ONLY <1>2, <3>1, LastByte
  <2> QED
    BY <1>1, <2>1 DEF ClustersFor
<1>4. PICK a : a = (z - 1) \div n
  OBVIOUS
<1>5. a \in Nat
  <2>1. z - 1 \in Nat
    OBVIOUS
  <2> QED
    BY <1>2, <1>4, <2>1, DivModNat
<1>6. m = a + 1
  BY <1>3, <1>4
<1>7. ASSUME NEW y \in Nat, y < z PROVE y \div n \in 0 .. m - 1
  <2>1. y <= z - 1 /\ z - 1 \in Int /\ y \in Int
    BY <1>7
  <2>2. y \div n <= (z - 1) \div n
    BY <1>2, <2>1, DivOrder
  <2>3. y \div n \in Nat
    BY <1>2, DivModNat
  <2>4. PICK q : q = y \div n
    OBVIOUS
  <2> QED
    BY <1>4, <1>5, <1>6, <2>2, <2>3, <2>4
<1>8. (z - 1) \div n = m - 1 /\ m \in Nat \ {0}
  BY <1>4, <1>5, <1>6
<1> QED
  BY <1>1, <1>2, <1>7, <1>8

(* The cluster that fatSeek takes the current one to be.                   *)
Counted(h) ==
  IF h.currpos % ClusterSize = 0 /\ h.currpos # 0 /\ h.sectorUpto # 0
  THEN (h.currpos \div ClusterSize) - 1 ELSE h.currpos \div ClusterSize

LEMMA CountedTail ==
  ASSUME disk \in Disks, NEW h, h.currpos \in Nat, NEW z \in Nat \ {0}, z <= h.currpos
  PROVE  Counted(h) >= ClustersFor(z) - 1 /\ Counted(h) \in Nat
<1>1. PICK p, n, m : p = h.currpos /\ n = ClusterSize /\ m = ClustersFor(z)
  OBVIOUS
<1>2. n \in Nat \ {0} /\ m \in Nat \ {0} /\ (z - 1) \div n = m - 1
  BY <1>1, LastCluster
<1>3. /\ (z - 1) \div n <= p \div n
      /\ p % n = 0 => (z - 1) \div n <= (p \div n) - 1
  BY <1>1, <1>2, PassedTail
<1>4. PICK a, b : a = p \div n /\ b = p % n
  OBVIOUS
<1>5. a \in Nat
  BY <1>1, <1>2, <1>4, DivModNat
<1>6. m - 1 <= a /\ (b = 0 => m - 1 <= a - 1)
  BY <1>2, <1>3, <1>4
<1>7. Counted(h) = IF b = 0 /\ p # 0 /\ h.sectorUpto # 0 THEN a - 1 ELSE a
  BY <1>1, <1>4 DEF Counted
<1> QED
  BY <1>1, <1>2, <1>5, <1>6, <1>7

(* Sector q, and the clusters before byte p at its start or its end.       *)
LEMMA StartOfCluster ==
  ASSUME disk \in Disks, NEW p \in Nat, NEW q, q = p \div SectorSize
  PROVE  /\ q \in Nat /\ p \div ClusterSize = q \div sectors_per_cluster
         /\ p % ClusterSize = 0 => q % sectors_per_cluster = 0
         /\ p % ClusterSize # 0 /\ Full(p) => q % sectors_per_cluster # 0
         /\ (p % ClusterSize) \div SectorSize = q % sectors_per_cluster
<1>1. SectorSize \in Nat \ {0} /\ sectors_per_cluster \in Nat \ {0}
  BY DiskIs
<1>2. InClusters(p, sectors_per_cluster, SectorSize)
  BY <1>1, SectorsInClusters
<1>3. q \in Nat
  BY <1>1, DivModNat
<1>4. /\ p \div ClusterSize = q \div sectors_per_cluster
      /\ p % ClusterSize = SectorSize * (q % sectors_per_cluster) + (p % SectorSize)
      /\ (p % ClusterSize) \div SectorSize = q % sectors_per_cluster
  BY <1>2 DEF InClusters, ClusterSize
<1>5. PICK r, b, a : r = p % ClusterSize /\ b = p % SectorSize /\ a = q % sectors_per_cluster
  OBVIOUS
<1>6. a \in Nat /\ b \in Nat
  BY <1>1, <1>3, <1>5, Index, DivModNat
<1>7. r = SectorSize * a + b
  BY <1>4, <1>5
<1>8. r = 0 => a = 0
  <2>1. SectorSize * a >= a
    BY <1>1, <1>6
  <2> QED
    BY <1>1, <1>6, <1>7, <2>1
<1>9. r # 0 /\ b = 0 => a # 0
  <2>1. SectorSize * 0 = 0
    BY <1>1
  <2> QED
    BY <1>1, <1>7, <2>1
<1> QED
  BY <1>3, <1>4, <1>5, <1>8, <1>9 DEF Full

LEMMA CountedWithin ==
  ASSUME disk \in Disks, NEW h, h.currpos \in Nat, Here(next, h, h.currpos \div SectorSize)
  PROVE  h.currentCluster = Nth(next, h.startcluster, Counted(h)) /\ Counted(h) \in Nat
<1>1. PICK p, q : p = h.currpos /\ q = p \div SectorSize
  OBVIOUS
<1>2. /\ q \in Nat /\ p \div ClusterSize = q \div sectors_per_cluster
      /\ p % ClusterSize = 0 => q % sectors_per_cluster = 0
  BY <1>1, StartOfCluster
<1>3. h.currentCluster = Nth(next, h.startcluster, q \div sectors_per_cluster) /\ h.sectorUpto = q % sectors_per_cluster
  BY <1>1 DEF Here
<1>4. Counted(h) = p \div ClusterSize
  BY <1>1, <1>2, <1>3 DEF Counted
<1>5. q \div sectors_per_cluster \in Nat
  BY <1>2, Index
<1> QED
  BY <1>2, <1>3, <1>4, <1>5

LEMMA CountedFilled ==
  ASSUME disk \in Disks, NEW h, h.currpos \in Nat, sectors_per_cluster > 1, FilledUp(next, h)
  PROVE  h.currentCluster = Nth(next, h.startcluster, Counted(h)) /\ Counted(h) \in Nat
<1>1. PICK p, a, q, c : p = h.currpos /\ a = p \div SectorSize /\ q = a - 1 /\ c = sectors_per_cluster
  OBVIOUS
<1>2. p > 0 /\ Full(p) /\ Here(next, h, q) /\ p \in Nat
  BY <1>1 DEF FilledUp
<1>3. SectorSize \in Nat \ {0} /\ c \in Nat \ {0} /\ c > 1
  BY <1>1, DiskIs
<1>4. a \in Nat \ {0}
  <2>1. a \in Nat /\ p = SectorSize * a + (p % SectorSize)
    BY <1>1, <1>2, <1>3, DivModNat
  <2>2. p % SectorSize = 0
    BY <1>2 DEF Full
  <2>3. SectorSize * 0 = 0
    BY <1>3
  <2> QED
    BY <1>2, <1>3, <2>1, <2>2, <2>3
<1>5. q \in Nat /\ a = q + 1
  BY <1>1, <1>4
<1>6. /\ p \div ClusterSize = a \div c
      /\ p % ClusterSize = 0 => a % c = 0
      /\ p % ClusterSize # 0 => a % c # 0
  BY <1>1, <1>2, StartOfCluster
<1>7. /\ q % c = c - 1 => a \div c = q \div c + 1 /\ a % c = 0
      /\ q % c # c - 1 => a \div c = q \div c /\ a % c = (q % c) + 1
  BY <1>3, <1>5, NextIndex
<1>8. q \div c \in Nat /\ q % c \in 0 .. c - 1
  BY <1>1, <1>5, Index
<1>9. h.currentCluster = Nth(next, h.startcluster, q \div c) /\ h.sectorUpto = q % c
  BY <1>1, <1>2 DEF Here
<1>10. PICK d, e, f, g : d = q \div c /\ e = q % c /\ f = a \div c /\ g = a % c
  OBVIOUS
<1>11. Counted(h) = IF p % ClusterSize = 0 /\ e # 0 THEN f - 1 ELSE f
  BY <1>1, <1>2, <1>6, <1>9, <1>10 DEF Counted
<1>12. Counted(h) = d
  <2>1. CASE e = c - 1
    <3>1. f = d + 1 /\ g = 0
      BY <1>7, <1>10, <2>1
    <3>2. p % ClusterSize = 0
      BY <1>6, <1>10, <3>1
    <3>3. e # 0
      BY <1>3, <2>1
    <3> QED
      BY <1>8, <1>10, <1>11, <3>1, <3>2, <3>3
  <2>2. CASE e # c - 1
    <3>1. f = d /\ g = e + 1
      BY <1>7, <1>10, <2>2
    <3>2. g # 0
      BY <1>8, <1>10, <3>1
    <3>3. p % ClusterSize # 0
      BY <1>6, <1>10, <3>2
    <3> QED
      BY <1>11, <3>1, <3>3
  <2> QED
    BY <2>1, <2>2
<1> QED
  BY <1>8, <1>9, <1>10, <1>12

(* The last cluster, for a handle that is at the end or behind it.         *)
LEMMA OrderlyTail ==
  ASSUME disk \in Disks, NEW h, h.currpos \in Nat, NEW z \in Nat \ {0}, z = h.fileSize, z <= h.currpos,
         Orderly(next, h)
  PROVE  /\ h.currentCluster = Nth(next, h.startcluster, ClustersFor(z) - 1)
         /\ h.currpos = z \/ ~ Full(z)
         /\ Here(next, h, Sector(z, z))
<1>1. PICK p : p = h.currpos
  OBVIOUS
<1>2. Here(next, h, Place(p, z)) /\ (p > z => ~ Full(z))
  BY <1>1 DEF Orderly
<1>3. PICK q, m : q = Sector(z, z) /\ m = ClustersFor(z)
  OBVIOUS
<1>4. q \div sectors_per_cluster = m - 1 /\ Place(z, z) = q
  BY <1>3, EndIs
<1>5. Place(p, z) = q
  <2>1. CASE p = z
    BY <1>4, <2>1
  <2>2. CASE p # z
    <3>1. p > z /\ ~ (p <= z)
      BY <1>1, <2>2
    <3>2. Place(p, z) = z \div SectorSize
      BY <3>1 DEF Place
    <3>3. q = z \div SectorSize
      BY <1>2, <1>3, <3>1 DEF Sector
    <3> QED
      BY <3>2, <3>3
  <2> QED
    BY <2>1, <2>2
<1>6. Here(next, h, q)
  BY <1>2, <1>5
<1>7. h.currentCluster = Nth(next, h.startcluster, m - 1)
  BY <1>4, <1>6 DEF Here
<1>8. p = z \/ ~ Full(z)
  BY <1>1, <1>2
<1> QED
  BY <1>1, <1>3, <1>6, <1>7, <1>8

LEMMA HopsAre ==
  ASSUME NEW h, NEW realpos, NEW adjust, NEW y, y = realpos - adjust, NEW hops, hops = Hops(h, realpos, adjust)
  PROVE  \/ /\ h.currpos >= 0 /\ y \div ClusterSize >= Counted(h) /\ ~ fatEndCluster(h.currentCluster)
            /\ hops[1] = h.currentCluster /\ hops[2] = (y \div ClusterSize) - Counted(h)
         \/ hops[1] = h.startcluster /\ hops[2] = y \div ClusterSize
<1> DEFINE passed == h.currpos \div ClusterSize
           curr   == IF h.currpos % ClusterSize = 0 /\ h.currpos # 0 /\ h.sectorUpto # 0
                     THEN passed - 1 ELSE passed
           req    == y \div ClusterSize
<1>1. hops = IF h.currpos >= 0 /\ req >= curr /\ ~ fatEndCluster(h.currentCluster)
             THEN <<h.currentCluster, req - curr>> ELSE <<h.startcluster, req>>
  BY DEF Hops
<1>2. curr = Counted(h)
  BY DEF Counted
<1> HIDE DEF curr, req
<1>3. CASE h.currpos >= 0 /\ req >= curr /\ ~ fatEndCluster(h.currentCluster)
  <2>1. hops = <<h.currentCluster, req - curr>>
    BY <1>1, <1>3
  <2>2. hops[1] = h.currentCluster /\ hops[2] = req - curr
    BY <2>1
  <2> QED
    BY <1>2, <1>3, <2>2 DEF req
<1>4. CASE ~ (h.currpos >= 0 /\ req >= curr /\ ~ fatEndCluster(h.currentCluster))
  <2>1. hops = <<h.startcluster, req>>
    BY <1>1, <1>4
  <2>2. hops[1] = h.startcluster /\ hops[2] = req
    BY <2>1
  <2> QED
    BY <2>2 DEF req
<1> QED
  BY <1>3, <1>4

(* However it counts, it follows links from some cluster.                  *)
LEMMA HopsCount ==
  ASSUME disk \in Disks, NEW h \in Handle, NEW realpos, NEW adjust, NEW y \in Nat, y = realpos - adjust,
         NEW hops, hops = Hops(h, realpos, adjust)
  PROVE  hops[1] \in LinkSet /\ hops[2] \in Nat
<1>1. h.currpos \in Int /\ h.currentCluster \in LinkSet /\ h.startcluster \in LinkSet
  BY DEF Handle
<1>2. PICK n : n = ClusterSize
  OBVIOUS
<1>3. n \in Nat \ {0}
  <2>1. SectorSize \in Nat \ {0} /\ sectors_per_cluster \in Nat \ {0}
    BY DiskIs
  <2>2. PICK a, b : a = SectorSize /\ b = sectors_per_cluster
    OBVIOUS
  <2>3. n = b * a
    BY <1>2, <2>2 DEF ClusterSize
  <2> QED
    BY <2>1, <2>2, <2>3
<1>4. y \div n \in Nat
  BY <1>3, DivModNat
<1>5. Counted(h) \in Int
  <2>1. h.currpos \div n \in Int
    BY <1>1, <1>3, DivMod
  <2>2. PICK a : a = h.currpos \div n
    OBVIOUS
  <2>3. Counted(h) \in {a, a - 1}
    BY <1>2, <2>2 DEF Counted
  <2> QED
    BY <2>1, <2>2, <2>3
<1>6. PICK r, c : r = y \div n /\ c = Counted(h)
  OBVIOUS
<1>7. \/ r >= c /\ hops[1] = h.currentCluster /\ hops[2] = r - c
      \/ hops[1] = h.startcluster /\ hops[2] = r
  BY <1>2, <1>6, HopsAre
<1> QED
  BY <1>1, <1>4, <1>5, <1>6, <1>7

(* From a handle that is where it should be they lead to the cluster of    *)
(* the byte y.                                                             *)
LEMMA HopsReach ==
  ASSUME disk \in Disks, NEW h, Chained(h), NEW d \in {"orderly", "at_end", "past_end", "filled"},
         d = "filled" => sectors_per_cluster > 1, Position(next, h, d),
         NEW realpos, NEW adjust, NEW y \in Nat, y = realpos - adjust,
         h.currpos >= h.fileSize => y < h.fileSize, NEW hops, hops = Hops(h, realpos, adjust)
  PROVE  Nth(next, hops[1], hops[2]) = Nth(next, h.startcluster, y \div ClusterSize)
<1>1. PICK r, c, s, z, m, p : /\ r = y \div ClusterSize /\ c = Counted(h) /\ s = h.startcluster
                              /\ z = h.fileSize /\ m = ClustersFor(z) /\ p = h.currpos
  OBVIOUS
<1>2. z \in Nat \ {0} /\ m \in Nat \ {0} /\ p \in Int /\ h \in Handle
  <2>1. z \in Nat \ {0} /\ m \in Nat \ {0}
    BY <1>1, ChainedIs
  <2> QED
    BY <1>1, <2>1 DEF Chained, Handle
<1>3. ClusterSize \in Nat \ {0} /\ \A b \in Nat : b < z => b \div ClusterSize \in 0 .. m - 1
  BY <1>1, <1>2, LastCluster
<1>4. r \in Nat
  BY <1>1, <1>3, DivModNat
<1>5. \/ p >= 0 /\ r >= c /\ ~ fatEndCluster(h.currentCluster) /\ hops[1] = h.currentCluster /\ hops[2] = r - c
      \/ hops[1] = s /\ hops[2] = r
  BY <1>1, HopsAre
<1>6. CASE hops[1] = s /\ hops[2] = r
  BY <1>1, <1>6
<1>7. CASE p >= 0 /\ r >= c /\ ~ fatEndCluster(h.currentCluster) /\ hops[1] = h.currentCluster /\ hops[2] = r - c
  <2>1. p \in Nat
    BY <1>2, <1>7
  <2>2. d = "orderly" => Orderly(next, h)
    BY <1>1, <1>2 DEF Position
  <2>3. d = "filled" => FilledUp(next, h)
    BY <1>1, <1>2 DEF Position
  <2>4. d \in {"at_end", "past_end"} => Ended(next, h)
    BY <1>1, <1>2 DEF Position
  <2>5. h.currentCluster = Nth(next, s, c) /\ c \in Nat
    <3>1. CASE p < z
      <4>1. CASE d = "orderly"
        <5>1. p <= z /\ p # z /\ p >= 0
          BY <1>2, <2>1, <3>1
        <5>2. Place(p, z) = p \div SectorSize
          BY <5>1 DEF Place, Sector
        <5>3. Here(next, h, p \div SectorSize)
          BY <1>1, <2>2, <4>1, <5>1, <5>2 DEF Orderly
        <5> QED
          BY <1>1, <2>1, <5>3, CountedWithin
      <4>2. CASE d = "filled"
        BY <1>1, <2>1, <2>3, <4>2, CountedFilled
      <4>3. CASE d \in {"at_end", "past_end"}
        <5>1. p < 0 \/ p >= z
          BY <1>1, <2>4, <4>3 DEF Ended
        <5> QED
          BY <1>2, <2>1, <3>1, <5>1
      <4> QED
        BY <4>1, <4>2, <4>3
    <3>2. CASE z <= p
      <4>1. c >= m - 1 /\ c \in Nat
        BY <1>1, <1>2, <2>1, <3>2, CountedTail
      <4>2. r \in 0 .. m - 1
        <5>1. y < z
          BY <1>1, <1>2, <2>1, <3>2
        <5> QED
          BY <1>1, <1>3, <5>1
      <4>3. c = m - 1
        BY <1>2, <1>7, <4>1, <4>2
      <4>4. h.currentCluster = Nth(next, s, m - 1)
        <5>1. CASE d = "orderly"
          BY <1>1, <1>2, <2>1, <2>2, <3>2, <5>1, OrderlyTail
        <5>2. CASE d = "filled"
          <6>1. p < z
            BY <1>1, <2>3, <5>2 DEF FilledUp
          <6> QED
            BY <1>2, <2>1, <3>2, <6>1
        <5>3. CASE d \in {"at_end", "past_end"}
          BY <1>1, <1>7, <2>4, <5>3 DEF Ended
        <5> QED
          BY <5>1, <5>2, <5>3
      <4> QED
        BY <4>1, <4>3, <4>4
    <3> QED
      BY <1>2, <2>1, <3>1, <3>2
  <2>6. PICK j : j = r - c /\ j \in Nat
    BY <1>4, <1>7, <2>5
  <2>7. c + j = r
    BY <1>4, <2>5, <2>6
  <2>8. Nth(next, Nth(next, s, c), j) = Nth(next, s, c + j)
    BY <2>5, <2>6, NthAdd
  <2> QED
    BY <1>1, <1>7, <2>5, <2>6, <2>7, <2>8
<1> QED
  BY <1>5, <1>6, <1>7

(* The handle h with the position q, and moved to sector u of cluster c.   *)
Sought(h, q) == [h EXCEPT !.currpos = q, !.nextCluster = 0]
Moved(h, q, c, u) ==
  [Sought(h, q) EXCEPT !.currentCluster = c, !.sectorStart = SectorStart(c), !.sectorUpto = u]
SameOne(g, h) == g \in Handle /\ g.file = h.file /\ g.startcluster = h.startcluster /\ g.fileSize = h.fileSize

LEMMA SoughtIs ==
  ASSUME NEW h \in Handle, NEW q \in Int, NEW g, g = Sought(h, q)
  PROVE  /\ SameOne(g, h) /\ g.currpos = q /\ g.nextCluster = 0 /\ g.currentCluster = h.currentCluster
         /\ g.sectorStart = h.sectorStart /\ g.sectorUpto = h.sectorUpto
<1>1. PICK o : o = 0 /\ o \in LinkSet
  BY DEF LinkSet
<1>2. PICK k : k = [h EXCEPT !.currpos = q]
  OBVIOUS
<1>3. g = [k EXCEPT !.nextCluster = o]
  BY <1>1, <1>2 DEF Sought
<1>4. /\ k \in Handle /\ k.file = h.file /\ k.startcluster = h.startcluster /\ k.fileSize = h.fileSize
      /\ k.currpos = q /\ k.currentCluster = h.currentCluster
      /\ k.sectorStart = h.sectorStart /\ k.sectorUpto = h.sectorUpto
  BY <1>2 DEF Handle
<1>5. /\ g \in Handle /\ g.file = k.file /\ g.startcluster = k.startcluster /\ g.fileSize = k.fileSize
      /\ g.currpos = k.currpos /\ g.nextCluster = o /\ g.currentCluster = k.currentCluster
      /\ g.sectorStart = k.sectorStart /\ g.sectorUpto = k.sectorUpto
  BY <1>1, <1>3, <1>4 DEF Handle
<1> QED
  BY <1>1, <1>4, <1>5 DEF SameOne

LEMMA MovedIs ==
  ASSUME disk \in Disks, NEW h \in Handle, NEW q \in Int, NEW c \in LinkSet, NEW u \in Nat,
         NEW g, g = Moved(h, q, c, u)
  PROVE  /\ SameOne(g, h) /\ g.currpos = q /\ g.nextCluster = 0 /\ g.currentCluster = c
         /\ g.sectorStart = SectorStart(c) /\ g.sectorUpto = u
<1>1. PICK k, y : k = Sought(h, q) /\ y = SectorStart(c)
  OBVIOUS
<1>2. SameOne(k, h) /\ k.currpos = q /\ k.nextCluster = 0
  BY <1>1, SoughtIs
<1>3. y \in Int
  <2>1. c \in Int
    BY ClustersAre, DiskIs DEF LinkSet
  <2>2. sectors_per_cluster \in Nat
    BY DiskIs
  <2> QED
    BY <1>1, <2>1, <2>2 DEF SectorStart, FIRST_DATA_CLUSTER
<1>4. g = [k EXCEPT !.currentCluster = c, !.sectorStart = y, !.sectorUpto = u]
  BY <1>1 DEF Moved
<1>5. k \in Handle
  BY <1>2 DEF SameOne
<1>6. /\ g \in Handle /\ g.file = k.file /\ g.startcluster = k.startcluster /\ g.fileSize = k.fileSize
      /\ g.currpos = k.currpos /\ g.nextCluster = k.nextCluster /\ g.currentCluster = c
      /\ g.sectorStart = y /\ g.sectorUpto = u
  BY <1>3, <1>4, <1>5 DEF Handle
<1> QED
  BY <1>1, <1>2, <1>6 DEF SameOne

(* Staying at the end, or before the start.                                *)
LEMMA StaysThere ==
  ASSUME disk \in Disks, NEW h \in Handle, h.fileSize > 0 => Chained(h), NEW d \in Patterns \cup {"orderly"},
         Position(next, h, d), NEW q \in Int, StaysAtEnd(h, q), NEW g, g = Sought(h, q)
  PROVE  Position(next, g, DidSeek(d, h, q))
<1>1. PICK p, z : p = h.currpos /\ z = h.fileSize
  OBVIOUS
<1>2. p \in Int /\ z \in Nat
  BY <1>1 DEF Handle
<1>3. /\ g.startcluster = h.startcluster /\ g.fileSize = z /\ g.currpos = q /\ g.nextCluster = 0
      /\ g.currentCluster = h.currentCluster /\ g.sectorStart = h.sectorStart /\ g.sectorUpto = h.sectorUpto
  BY <1>1, SoughtIs DEF SameOne
<1>4. (q < 0 \/ q >= z) /\ (p < 0 \/ p >= z)
  BY <1>1 DEF StaysAtEnd, NotBelow
<1>5. PICK e : e = DidSeek(d, h, q)
  OBVIOUS
<1>6. e = IF d # "orderly" THEN d ELSE IF p < 0 THEN "before"
          ELSE IF q > z /\ z # 0 /\ Full(z) THEN "past_end" ELSE d
  BY <1>1, <1>5 DEF DidSeek, FullSectors, Full
<1>7. CASE z = 0
  <2>1. d = "created" \/ fatEndCluster(h.currentCluster)
    BY <1>1, <1>7 DEF Position
  <2>2. d = "created" => e = "created"
    BY <1>6
  <2> QED
    BY <1>3, <1>5, <1>7, <2>1, <2>2 DEF Position
<1>8. CASE z # 0
  <2>1. d # "created"
    BY <1>1, <1>8 DEF Position
  <2>2. PICK m : m = ClustersFor(z) /\ z \in Nat \ {0}
    BY <1>2, <1>8
  <2>3. CASE d = "filled"
    <3>1. FilledUp(next, h)
      BY <1>1, <1>8, <2>3 DEF Position
    <3>2. ~ (sectors_per_cluster > 1)
      BY <1>1, <1>2, <1>4, <3>1 DEF FilledUp
    <3>3. FilledUp(next, g)
      BY <3>2 DEF FilledUp
    <3> QED
      BY <1>3, <1>5, <1>6, <1>8, <2>3, <3>3 DEF Position
  <2>4. CASE d \in {"at_end", "past_end"}
    <3>1. Ended(next, h)
      BY <1>1, <1>8, <2>4 DEF Position
    <3>2. Ended(next, g)
      BY <1>1, <1>3, <1>4, <3>1 DEF Ended
    <3> QED
      BY <1>3, <1>5, <1>6, <1>8, <2>4, <3>2 DEF Position
  <2>5. CASE d = "before" \/ (d = "orderly" /\ p < 0)
    BY <1>3, <1>5, <1>6, <1>8, <2>5 DEF Position
  <2>6. CASE d = "orderly" /\ p >= 0
    <3>1. Orderly(next, h)
      BY <1>1, <1>8, <2>6 DEF Position
    <3>2. p \in Nat /\ z <= p
      BY <1>2, <1>4, <2>6
    <3>3. /\ h.currentCluster = Nth(next, h.startcluster, m - 1) /\ (p = z \/ ~ Full(z))
          /\ Here(next, h, Sector(z, z))
      BY <1>1, <2>2, <3>1, <3>2, OrderlyTail
    <3>4. CASE q > z /\ Full(z)
      <4>1. Ended(next, g)
        BY <1>1, <1>3, <1>4, <2>2, <3>3 DEF Ended
      <4>2. e = "past_end"
        BY <1>2, <1>6, <1>8, <2>6, <3>4
      <4> QED
        BY <1>3, <1>5, <1>8, <4>1, <4>2 DEF Position
    <3>5. CASE ~ (q > z /\ Full(z))
      <4>1. e = "orderly"
        BY <1>2, <1>6, <2>6, <3>5
      <4>2. ASSUME q >= 0 PROVE Here(next, g, Place(q, z)) /\ (q > z => ~ Full(z))
        <5>1. q >= z
          BY <1>2, <1>4, <4>2
        <5>2. Place(q, z) = Sector(z, z)
          <6>1. CASE q = z
            BY <2>2, <6>1, EndIs
          <6>2. CASE q # z
            <7>1. q > z /\ ~ (q <= z)
              BY <1>2, <5>1, <6>2
            <7> QED
              BY <3>5, <7>1 DEF Place, Sector
          <6> QED
            BY <6>1, <6>2
        <5>3. Here(next, g, Sector(z, z))
          BY <1>3, <3>3 DEF Here
        <5> QED
          BY <3>5, <5>2, <5>3
      <4>3. Orderly(next, g)
        BY <1>3, <4>2 DEF Orderly
      <4> QED
        BY <1>3, <1>5, <1>8, <4>1, <4>3 DEF Position
    <3> QED
      BY <3>4, <3>5
  <2> QED
    BY <1>2, <2>1, <2>3, <2>4, <2>5, <2>6 DEF Patterns
<1> QED
  BY <1>7, <1>8

(* An empty file is always at its end.                                     *)
LEMMA NotStaying ==
  ASSUME NEW h \in Handle, NEW q \in Int, ~ StaysAtEnd(h, q)
  PROVE  /\ h.fileSize \in Nat \ {0}
         /\ h.currpos >= h.fileSize => q < h.fileSize
         /\ q >= h.fileSize => 0 <= h.currpos /\ h.currpos < h.fileSize
<1>1. PICK p, z : p = h.currpos /\ z = h.fileSize
  OBVIOUS
<1>2. p \in Int /\ z \in Nat
  BY <1>1 DEF Handle
<1>3. ~ (q < 0 \/ q >= z) \/ ~ (p < 0 \/ p >= z)
  BY <1>1 DEF StaysAtEnd, NotBelow
<1> QED
  BY <1>1, <1>2, <1>3

(* Back to the start of the file, or before it.                            *)
LEMMA ToStart ==
  ASSUME disk \in Disks, NEW h \in Handle, NEW d \in Patterns \cup {"orderly"}, Position(next, h, d),
         NEW q \in Int, ~ StaysAtEnd(h, q), q <= 0, NEW g, g = Moved(h, q, h.startcluster, 0)
  PROVE  SameOne(g, h) /\ Position(next, g, DidSeek(d, h, q))
<1>1. PICK z, s : z = h.fileSize /\ s = h.startcluster
  OBVIOUS
<1>2. z \in Nat \ {0} /\ s \in LinkSet
  BY <1>1, NotStaying DEF Handle
<1>3. PICK o : o = 0 /\ o \in Nat
  OBVIOUS
<1>4. /\ SameOne(g, h) /\ g.currpos = q /\ g.nextCluster = 0 /\ g.currentCluster = s
      /\ g.sectorStart = SectorStart(s) /\ g.sectorUpto = o
  <2>1. g = Moved(h, q, s, o)
    BY <1>1, <1>3
  <2> QED
    BY <1>2, <1>3, <2>1, MovedIs
<1>5. DidSeek(d, h, q) = "orderly"
  <2>1. ~ (q > 0) /\ ~ (q > z)
    BY <1>2
  <2> QED
    BY <1>1, <2>1 DEF DidSeek
<1>6. ASSUME q >= 0 PROVE Here(next, g, Place(q, z))
  <2>1. q = o /\ q \in Nat
    BY <1>3, <1>6
  <2>2. SectorSize \in Nat \ {0} /\ sectors_per_cluster \in Nat \ {0}
    BY DiskIs
  <2>3. q \div SectorSize = 0
    <3>1. q = SectorSize * 0 + 0 /\ 0 \in 0 .. SectorSize - 1
      BY <1>3, <2>1, <2>2
    <3> QED
      BY ONLY <2>1, <2>2, <3>1, DivModIs
  <2>4. q # z /\ q <= z
    BY <1>2, <1>3, <2>1
  <2>5. PICK j : j = Place(q, z)
    OBVIOUS
  <2>6. j = 0
    BY <2>3, <2>4, <2>5 DEF Place, Sector
  <2>7. j \div sectors_per_cluster = 0 /\ j % sectors_per_cluster = 0
    <3>1. j = sectors_per_cluster * 0 + 0 /\ 0 \in 0 .. sectors_per_cluster - 1 /\ j \in Int
      BY <2>2, <2>6
    <3> QED
      BY ONLY <2>2, <3>1, DivModIs
  <2>8. Nth(next, s, 0) = s
    BY NthSteps
  <2> QED
    BY <1>1, <1>3, <1>4, <2>5, <2>7, <2>8 DEF Here, SameOne
<1>7. ~ (q > z)
  BY <1>2
<1>8. Orderly(next, g)
  BY <1>1, <1>4, <1>6, <1>7 DEF Orderly, SameOne
<1>9. g.fileSize # 0
  BY <1>1, <1>2, <1>4 DEF SameOne
<1> QED
  BY <1>4, <1>5, <1>8, <1>9 DEF Position

(* The byte that is looked for: that at the position, at the end the last, *)
(* and behind the end the one that would come next.                        *)
Sought_byte(h, q) ==
  LET realpos == IF h.fileSize < q THEN h.fileSize ELSE q IN realpos - Adjust(h, realpos, q)

LEMMA SoughtByte ==
  ASSUME NEW q \in Nat \ {0}, NEW h, NEW z \in Nat \ {0}, z = h.fileSize, NEW y, y = Sought_byte(h, q)
  PROVE  /\ y \in Nat
         /\ q < z => y = q
         /\ q = z => y = z - 1
         /\ q > z => y = z
         /\ q <= z => y < z
<1>1. CASE q < z
  BY <1>1 DEF Sought_byte, Adjust
<1>2. CASE q = z
  BY <1>2 DEF Sought_byte, Adjust
<1>3. CASE q > z
  BY <1>3 DEF Sought_byte, Adjust
<1> QED
  BY <1>1, <1>2, <1>3

(* The sector of that byte is the one of the position.                     *)
LEMMA SoughtSector ==
  ASSUME disk \in Disks, NEW q \in Nat \ {0}, NEW z \in Nat \ {0}, q <= z,
         NEW y, y = IF q = z THEN z - 1 ELSE q
  PROVE  Sector(q, z) = y \div SectorSize
<1>1. CASE q # z
  BY <1>1 DEF Sector
<1>2. CASE q = z
  <2>1. PICK a, b, n : a = z \div SectorSize /\ b = z % SectorSize /\ n = SectorSize
    OBVIOUS
  <2>2. n \in Nat \ {0}
    BY <2>1, DiskIs
  <2>3. a \in Nat /\ b \in 0 .. n - 1 /\ z = n * a + b
    BY <2>1, <2>2, DivModNat
  <2>4. CASE b = 0
    <3>1. PICK a1, b1 : a1 = a - 1 /\ b1 = n - 1
      OBVIOUS
    <3>2. a1 \in Int /\ b1 \in 0 .. n - 1 /\ y \in Int
      BY <1>2, <2>2, <2>3, <3>1
    <3>3. y = n * a1 + b1
      <4>1. n * (a - 1) = n * a - n
        BY <2>2, <2>3
      <4> QED
        <5>1. PICK w, v : w = n * a /\ v = n * a1
          OBVIOUS
        <5>2. v = w - n /\ w \in Int
          BY <2>2, <2>3, <3>1, <4>1, <5>1
        <5>3. y = z - 1 /\ z = w
          BY <1>2, <2>2, <2>3, <2>4, <5>1
        <5> QED
          BY <2>2, <3>1, <5>1, <5>2, <5>3
    <3>4. y \div n = a1
      BY <2>2, <3>2, <3>3, DivModIs
    <3>5. Sector(q, z) = a - 1
      BY <1>2, <2>1, <2>4 DEF Sector, Full
    <3> QED
      BY <2>1, <3>1, <3>4, <3>5
  <2>5. CASE b # 0
    <3>1. PICK b1 : b1 = b - 1
      OBVIOUS
    <3>2. b1 \in 0 .. n - 1 /\ y = n * a + b1 /\ y \in Int
      BY <1>2, <2>2, <2>3, <2>5, <3>1
    <3>3. y \div n = a
      BY <2>2, <2>3, <3>2, DivModIs
    <3>4. Sector(q, z) = a
      BY <1>2, <2>1, <2>5 DEF Sector, Full
    <3> QED
      BY <2>1, <3>3, <3>4
  <2> QED
    BY <2>4, <2>5
<1> QED
  BY <1>1, <1>2

(* The byte after the last is in the last cluster or in the one after it.  *)
LEMMA EndIndex ==
  ASSUME disk \in Disks, NEW z \in Nat \ {0}, NEW m, m = ClustersFor(z)
  PROVE  z \div ClusterSize \in {m - 1, m}
<1>1. PICK n, r, b : n = ClusterSize /\ r = z \div n /\ b = z % n
  OBVIOUS
<1>2. n \in Nat \ {0} /\ m \in Nat \ {0} /\ (z - 1) \div n = m - 1
  BY <1>1, LastCluster
<1>3. r \in Nat /\ b \in 0 .. n - 1 /\ z = n * r + b
  BY <1>1, <1>2, DivModNat
<1>4. z - 1 \in Int
  OBVIOUS
<1>5. CASE b = 0
  <2>1. PICK r1, n1, y : r1 = r - 1 /\ n1 = n - 1 /\ y = z - 1
    OBVIOUS
  <2>2. r1 \in Int /\ n1 \in 0 .. n - 1 /\ y \in Int
    BY <1>2, <1>3, <2>1
  <2>3. y = n * r1 + n1
    <3>1. n * (r - 1) = n * r - n
      BY <1>2, <1>3
    <3>2. PICK w, v : w = n * r /\ v = n * r1
      OBVIOUS
    <3>3. v = w - n /\ w \in Int
      BY <1>2, <1>3, <2>1, <3>1, <3>2
    <3>4. y = z - 1 /\ z = w
      BY <1>2, <1>3, <1>5, <2>1, <3>2
    <3> QED
      BY <1>2, <2>1, <3>2, <3>3, <3>4
  <2>4. y \div n = r1
    BY <1>2, <2>2, <2>3, DivModIs
  <2>5. r1 = m - 1
    BY <1>2, <2>1, <2>4
  <2> QED
    BY <1>1, <1>2, <1>3, <2>1, <2>5
<1>6. CASE b # 0
  <2>1. PICK b1, y : b1 = b - 1 /\ y = z - 1
    OBVIOUS
  <2>2. b1 \in 0 .. n - 1 /\ y = n * r + b1 /\ y \in Int
    BY <1>2, <1>3, <1>6, <2>1
  <2>3. y \div n = r
    BY <1>2, <1>3, <2>2, DivModIs
  <2>4. r = m - 1
    BY <1>2, <2>1, <2>3
  <2> QED
    BY <1>1, <2>4
<1> QED
  BY <1>5, <1>6

(* To a byte of the file, or behind its end.                               *)
Fooled(d) == d = "before" \/ (d = "filled" /\ sectors_per_cluster = 1)

LEMMA ToByte ==
  ASSUME disk \in Disks, NEW h \in Handle, h.fileSize > 0 => Chained(h), NEW d \in Patterns \cup {"orderly"},
         Position(next, h, d), NEW q \in Int, ~ StaysAtEnd(h, q), q > 0,
         NEW y, y = Sought_byte(h, q), NEW c \in LinkSet,
         ~ Fooled(d) => c = Nth(next, h.startcluster, y \div ClusterSize),
         NEW g, g = Moved(h, q, c, (y % ClusterSize) \div SectorSize)
  PROVE  SameOne(g, h) /\ Position(next, g, DidSeek(d, h, q))
<1>1. PICK z, s, m : z = h.fileSize /\ s = h.startcluster /\ m = ClustersFor(z)
  OBVIOUS
<1>2. z \in Nat \ {0} /\ q \in Nat \ {0}
  BY <1>1, NotStaying
<1>3. Chained(h)
  BY <1>1, <1>2
<1>4. /\ y \in Nat /\ (q < z => y = q) /\ (q = z => y = z - 1) /\ (q > z => y = z)
  BY <1>1, <1>2, SoughtByte
<1>5. PICK a, u : a = y \div SectorSize /\ u = (y % ClusterSize) \div SectorSize
  OBVIOUS
<1>6. a \in Nat /\ y \div ClusterSize = a \div sectors_per_cluster /\ u = a % sectors_per_cluster
  BY <1>4, <1>5, StartOfCluster
<1>7. u \in Nat
  BY <1>6, Index
<1>8. g = Moved(h, q, c, u)
  BY <1>5
<1>9. /\ SameOne(g, h) /\ g.currpos = q /\ g.nextCluster = 0 /\ g.currentCluster = c
      /\ g.sectorStart = SectorStart(c) /\ g.sectorUpto = u
  BY <1>7, <1>8, MovedIs
<1>10. g.fileSize = z /\ g.startcluster = s /\ z # 0
  BY <1>1, <1>2, <1>9 DEF SameOne
<1>11. PICK e : e = DidSeek(d, h, q)
  OBVIOUS
<1>12. e = IF Fooled(d) THEN d ELSE IF q > z THEN "past_end" ELSE "orderly"
  BY <1>1, <1>11 DEF DidSeek, Fooled
<1>13. d # "created"
  BY <1>1, <1>2 DEF Position
<1>14. CASE Fooled(d)
  <2>1. e = d /\ d \in {"before", "filled"}
    BY <1>12, <1>14 DEF Fooled
  <2>2. d = "filled" => FilledUp(next, g)
    BY <1>14 DEF FilledUp, Fooled
  <2> QED
    BY <1>9, <1>10, <1>11, <2>1, <2>2 DEF Position
<1>15. CASE ~ Fooled(d) /\ q <= z
  <2>1. e = "orderly" /\ ~ (q > z)
    BY <1>2, <1>12, <1>15
  <2>2. Place(q, z) = a
    <3>1. y = IF q = z THEN z - 1 ELSE q
      BY <1>2, <1>4, <1>15
    <3>2. Sector(q, z) = y \div SectorSize
      BY <1>2, <1>15, <3>1, SoughtSector
    <3> QED
      BY <1>5, <1>15, <3>2 DEF Place
  <2>3. Here(next, g, a)
    BY <1>1, <1>6, <1>9, <1>10, <1>15 DEF Here
  <2>4. Orderly(next, g)
    BY <1>9, <1>10, <2>1, <2>2, <2>3 DEF Orderly
  <2> QED
    BY <1>9, <1>10, <1>11, <2>1, <2>4 DEF Position
<1>16. CASE ~ Fooled(d) /\ q > z
  <2>1. e = "past_end" /\ q >= z /\ y = z
    BY <1>2, <1>4, <1>12, <1>16
  <2>2. m \in Nat \ {0} /\ ChainOf(next, s, m)
    BY <1>1, <1>3, ChainedIs DEF Chained
  <2>3. PICK r : r = z \div ClusterSize
    OBVIOUS
  <2>4. r = m - 1 \/ r = m
    BY <1>1, <1>2, <2>3, EndIndex
  <2>5. c = Nth(next, s, r)
    BY <1>1, <1>16, <2>1, <2>3
  <2>6. r = m => fatEndCluster(c)
    BY <2>2, <2>5, ClustersAre DEF ChainOf
  <2>7. Ended(next, g)
    BY <1>1, <1>9, <1>10, <2>1, <2>4, <2>5, <2>6 DEF Ended
  <2> QED
    BY <1>9, <1>10, <1>11, <2>1, <2>7 DEF Position
<1> QED
  BY <1>2, <1>14, <1>15, <1>16

(* Seeking in a file, by what it has done before.                          *)
SeekWell(r, h, d, q) ==
  SameOne(r.h, h) /\ r.cache \in {Empty, next} /\ Position(next, r.h, DidSeek(d, h, q))

LEMMA SeeksWell ==
  ASSUME disk \in Disks, next \in Table, cachedBuf \in {Empty, next},
         NEW h \in Handle, h.fileSize > 0 => Chained(h),
         NEW d \in Patterns \cup {"orderly"}, Position(next, h, d), NEW q \in Int, NEW r, r = fatSeek(h, q)
  PROVE  SeekWell(r, h, d, q)
<1>1. Seen(next, cachedBuf) = next /\ \A c : Caching(next, cachedBuf, c) \in {Empty, next}
  BY DEF Seen, Caching
<1>2. CASE StaysAtEnd(h, q)
  <2>1. PICK g : g = Sought(h, q)
    OBVIOUS
  <2>2. r = [h |-> g, cache |-> cachedBuf]
    BY <1>2, <2>1 DEF fatSeek, Sought
  <2>3. r.h = g /\ r.cache = cachedBuf
    BY <2>2
  <2>4. SameOne(g, h)
    BY <2>1, SoughtIs
  <2>5. Position(next, g, DidSeek(d, h, q))
    BY <1>2, <2>1, StaysThere
  <2> QED
    BY <2>3, <2>4, <2>5 DEF SeekWell
<1>3. CASE ~ StaysAtEnd(h, q) /\ q <= 0
  <2>1. PICK g : g = Moved(h, q, h.startcluster, 0)
    OBVIOUS
  <2>2. r = [h |-> g, cache |-> cachedBuf]
    BY <1>3, <2>1 DEF fatSeek, Moved, Sought
  <2>3. r.h = g /\ r.cache = cachedBuf
    BY <2>2
  <2>4. SameOne(g, h) /\ Position(next, g, DidSeek(d, h, q))
    BY <1>3, <2>1, ToStart
  <2> QED
    BY <2>3, <2>4 DEF SeekWell
<1>4. CASE ~ StaysAtEnd(h, q) /\ q > 0
  <2>1. PICK realpos : realpos = IF h.fileSize < q THEN h.fileSize ELSE q
    OBVIOUS
  <2>2. PICK adjust, y : adjust = Adjust(h, realpos, q) /\ y = realpos - adjust
    OBVIOUS
  <2>3. y = Sought_byte(h, q)
    BY <2>1, <2>2 DEF Sought_byte
  <2>4. PICK hops : hops = Hops(h, realpos, adjust)
    OBVIOUS
  <2>5. PICK c : c = Nth(next, hops[1], hops[2])
    OBVIOUS
  <2>6. PICK g : g = Moved(h, q, c, (y % ClusterSize) \div SectorSize)
    OBVIOUS
  <2>7. ~ (q <= 0) /\ q \in Nat \ {0}
    BY <1>4
  <2>8. PICK k : k = IF hops[2] = 0 THEN cachedBuf ELSE Caching(next, cachedBuf, hops[1])
    OBVIOUS
  <2>9. r = [h |-> g, cache |-> k]
    <3>1. g = [[h EXCEPT !.currpos = q, !.nextCluster = 0]
                 EXCEPT !.currentCluster = c, !.sectorStart = SectorStart(c),
                        !.sectorUpto = ((realpos - adjust) % ClusterSize) \div SectorSize]
      BY <2>2, <2>6 DEF Moved, Sought
    <3>2. c = Nth(Seen(next, cachedBuf), hops[1], hops[2])
      BY <1>1, <2>5
    <3> QED
      BY <1>4, <2>1, <2>2, <2>4, <2>7, <2>8, <3>1, <3>2 DEF fatSeek
  <2>10. r.h = g /\ r.cache = k /\ k \in {Empty, next}
    BY <1>1, <2>8, <2>9
  <2>11. PICK z : z = h.fileSize /\ z \in Nat \ {0}
    BY <1>4, NotStaying
  <2>12. y \in Nat /\ (q < z => y = q) /\ (q <= z => y < z)
    BY <2>3, <2>7, <2>11, SoughtByte
  <2>13. hops[1] \in LinkSet /\ hops[2] \in Nat
    BY <2>2, <2>4, <2>12, HopsCount
  <2>14. c \in LinkSet
    BY <2>5, <2>13, NthLinks
  <2>15. ASSUME ~ Fooled(d) PROVE c = Nth(next, h.startcluster, y \div ClusterSize)
    <3>1. d # "before" /\ d # "created"
      BY <2>11, <2>15 DEF Fooled, Position
    <3>2. d \in {"orderly", "at_end", "past_end", "filled"}
      BY <3>1 DEF Patterns
    <3>3. d = "filled" => sectors_per_cluster > 1
      <4>1. sectors_per_cluster \in Nat \ {0}
        BY DiskIs
      <4> QED
        BY <2>15, <4>1 DEF Fooled
    <3>4. h.currpos >= z => y < z
      BY <1>4, <2>7, <2>11, <2>12, NotStaying
    <3>5. Chained(h)
      BY <2>11
    <3> QED
      BY <2>2, <2>4, <2>5, <2>11, <2>12, <3>2, <3>3, <3>4, <3>5, HopsReach
  <2>16. SameOne(g, h) /\ Position(next, g, DidSeek(d, h, q))
    BY <1>4, <2>3, <2>6, <2>14, <2>15, ToByte
  <2> QED
    BY <2>10, <2>16 DEF SeekWell
<1> QED
  BY <1>2, <1>3, <1>4

LEMMA SeekKeeps ==
  ASSUME disk \in Disks, Good(next, cachedBuf, dir, handle, did), NEW x \in Handles,
         NEW q \in Int, SeekCall(x, q)
  PROVE  FineNext
<1>1. PICK h, f, r, d : h = handle[x] /\ f = h.file /\ r = fatSeek(h, q) /\ d = DidSeek(did[x], h, q)
  OBVIOUS
<1>2. PICK c : c = did[x]
  OBVIOUS
<1>3. /\ Tables /\ HandlingFor(next, dir, handle, did) /\ cachedBuf \in {Empty, next} /\ next \in Table
      /\ h \in Handle /\ c \in Patterns \cup {"orderly"} /\ f \in Existing
      /\ FollowsIn(dir, h) /\ Position(next, h, c) /\ Follows(h, f)
      /\ \A y \in Handles : y # x => handle[y].file # f
  BY <1>1, <1>2, GoodIs DEF SeekCall
<1>4. /\ handle' = [handle EXCEPT ![x] = r.h] /\ cachedBuf' = r.cache /\ did' = [did EXCEPT ![x] = d]
      /\ next' = next /\ dir' = dir /\ monitor' = "no"
  BY <1>1 DEF SeekCall
<1>5. h.fileSize > 0 => Chained(h)
  BY <1>3, FollowsChain
<1>6. SeekWell(r, h, c, q)
  BY <1>1, <1>3, <1>5, SeeksWell
<1>7. PICK g : g = r.h
  OBVIOUS
<1>8. SameOne(g, h) /\ r.cache \in {Empty, next} /\ Position(next, g, d)
  BY <1>1, <1>2, <1>6, <1>7 DEF SeekWell
<1>9. g \in Handle /\ g.file = f /\ FollowsIn(dir, g)
  BY <1>1, <1>3, <1>8 DEF SameOne, FollowsIn, Allocates
<1>10. d \in Patterns \cup {"orderly"}
  BY <1>1, <1>2, <1>3 DEF DidSeek, Patterns
<1>11. HandlingFor(next, dir, [handle EXCEPT ![x] = g], [did EXCEPT ![x] = d])
  <2>1. SameOn(next, next, Others(next, Existing, Starts, Counts, f))
    BY DEF SameOn
  <2>2. \A k \in Existing \ {f} : k \in DOMAIN dir /\ dir[k] = dir[k]
    BY DEF Existing
  <2> QED
    BY <1>3, <1>8, <1>9, <1>10, <2>1, <2>2, OneHandle
<1>12. Good(next, r.cache, dir, [handle EXCEPT ![x] = g], [did EXCEPT ![x] = d])
  BY <1>3, <1>8, <1>11, TablesAre DEF Good
<1> QED
  BY <1>4, <1>7, <1>12 DEF FineNext, Fine

(***************************************************************************)
(* The invariant.                                                          *)
(***************************************************************************)
IInv == disk \in Disks /\ Fine(next, cachedBuf, dir, handle, did, monitor)

LEMMA InitFine ==
  Init => IInv
<1> SUFFICES ASSUME Init PROVE IInv
  OBVIOUS
<1>1. disk \in Disks /\ monitor = "no" /\ cachedBuf = Empty
  BY DEF Init
<1>2. next \in Table /\ \A c \in Clusters : next[c] = 0
  BY DEF Init, Table, LinkSet
<1>3. DOMAIN dir = {}
  BY DEF Init
<1>4. TablesFor(next, dir)
  <2>1. Tidy(next, DOMAIN dir, StartsOf(dir), CountsOf(dir))
    BY <1>2, <1>3 DEF Tidy
  <2>2. Entries(dir)
    BY <1>3 DEF Entries
  <2> QED
    BY <2>1, <2>2 DEF TablesFor
<1>5. NewHandle \in Handle /\ NewHandle.file = NoFile
  BY DEF NewHandle, Handle, LinkSet
<1>6. \A x \in Handles : handle[x] = NewHandle /\ handle[x].file = NoFile
  BY <1>5 DEF Init
<1>7. handle \in [Handles -> Handle] /\ did \in [Handles -> Patterns \cup {"orderly"}]
  BY <1>5 DEF Init
<1>8. HandlingFor(next, dir, handle, did)
  BY <1>6, <1>7 DEF HandlingFor
<1> QED
  BY <1>1, <1>4, <1>8 DEF IInv, Fine, Good

(* The layout of the disk stays as it is, and so does all that hangs on it *)
(* alone.                                                                  *)
LEMMA LayoutStays ==
  ASSUME disk' = disk
  PROVE  /\ sectors_per_cluster' = sectors_per_cluster /\ ClusterSize' = ClusterSize /\ Clusters' = Clusters
         /\ LinkSet' = LinkSet /\ Table' = Table /\ Handle' = Handle
<1>1. sectors_per_cluster' = sectors_per_cluster
  BY DEF sectors_per_cluster
<1>2. ClusterSize' = ClusterSize
  BY <1>1 DEF ClusterSize
<1>3. num_clusters' = num_clusters
  BY <1>1 DEF num_clusters
<1>4. Clusters' = Clusters
  BY <1>3 DEF Clusters
<1>5. LinkSet' = LinkSet
  BY <1>4 DEF LinkSet
<1>6. Table' = Table
  BY <1>4, <1>5 DEF Table
<1>7. Handle' = Handle
  BY <1>5 DEF Handle
<1> QED
  BY <1>1, <1>2, <1>4, <1>5, <1>6, <1>7

LEMMA TablesStay ==
  ASSUME disk' = disk
  PROVE  /\ TablesFor(next', dir') => TablesFor(next, dir)'
         /\ LongTables(next', dir') => LongTables(next, dir)'
<1>1. Clusters' = Clusters /\ Table' = Table /\ ClusterSize' = ClusterSize
  BY LayoutStays
<1>2. CountsOf(dir)' = CountsOf(dir')
  BY <1>1 DEF CountsOf, ClustersFor
<1>3. StartsOf(dir)' = StartsOf(dir')
  BY DEF StartsOf
<1>4. Entries(dir)' <=> Entries(dir')
  BY <1>1 DEF Entries
<1>5. TablesFor(next', dir') => TablesFor(next, dir)'
  BY <1>1, <1>2, <1>3, <1>4 DEF TablesFor, Tidy, ChainOf
<1>6. LongTables(next', dir') => LongTables(next, dir)'
  BY <1>1, <1>2, <1>3, <1>4 DEF LongTables, Tidy, ChainOf
<1> QED
  BY <1>5, <1>6

LEMMA HandlingStays ==
  ASSUME disk' = disk
  PROVE  HandlingFor(next', dir', handle', did') => HandlingFor(next, dir, handle, did)'
<1>1. sectors_per_cluster' = sectors_per_cluster /\ ClusterSize' = ClusterSize /\ Handle' = Handle
  BY LayoutStays
<1>2. \A x \in Handles : Position(next', handle'[x], did'[x]) => Position(next, handle[x], did[x])'
  BY <1>1 DEF Position, Orderly, FilledUp, Ended, Here, EndUpto, SectorStart, ClustersFor
<1> QED
  BY <1>1, <1>2 DEF HandlingFor

(* Every step keeps the invariant.                                         *)
LEMMA StepFine ==
  ASSUME RootIsShort, Slips = {}, IInv, Next
  PROVE  FineNext /\ disk' = disk
<1>1. disk \in Disks
  BY DEF IInv
<1>2. ASSUME monitor = "no" PROVE Good(next, cachedBuf, dir, handle, did)
  BY <1>2 DEF IInv, Fine
<1>3. ASSUME NEW x \in Handles, NEW f \in Files, fatCreatFile(x, f) PROVE FineNext /\ disk' = disk
  <2>1. monitor = "no" /\ disk' = disk
    BY <1>3 DEF fatCreatFile
  <2> QED
    BY <1>1, <1>2, <1>3, <2>1, CreateKeeps
<1>4. ASSUME NEW x \in Handles, NEW f \in Files, fatOpenFile(x, f) PROVE FineNext /\ disk' = disk
  <2>1. monitor = "no" /\ disk' = disk
    BY <1>4 DEF fatOpenFile
  <2> QED
    BY <1>1, <1>2, <1>4, <2>1, OpenKeeps
<1>5. ASSUME NEW f \in Files, fatDeleteFile(f) PROVE FineNext /\ disk' = disk
  <2>1. monitor = "no" /\ disk' = disk
    BY <1>5 DEF fatDeleteFile
  <2> QED
    BY <1>1, <1>2, <1>5, <2>1, DeleteKeeps
<1>6. ASSUME NEW x \in Handles, fileClose(x) PROVE FineNext /\ disk' = disk
  <2>1. monitor = "no" /\ disk' = disk
    BY <1>6 DEF fileClose
  <2> QED
    BY <1>1, <1>2, <1>6, <2>1, CloseKeeps
<1>7. ASSUME NEW x \in Handles, NEW n \in Requests, ReadCall(x, n) PROVE FineNext /\ disk' = disk
  <2>1. monitor = "no" /\ disk' = disk
    BY <1>7 DEF ReadCall
  <2> QED
    BY <1>1, <1>2, <1>7, <2>1, ReadKeeps
<1>8. ASSUME NEW x \in Handles, NEW n \in Requests, WriteCall(x, n) PROVE FineNext /\ disk' = disk
  <2>1. monitor = "no" /\ disk' = disk
    BY <1>8 DEF WriteCall
  <2> QED
    BY <1>1, <1>2, <1>8, <2>1, WriteKeeps
<1>9. ASSUME NEW x \in Handles, NEW q \in -1 .. MaxSize, SeekCall(x, q) PROVE FineNext /\ disk' = disk
  <2>1. monitor = "no" /\ disk' = disk /\ q \in Int
    BY <1>9 DEF SeekCall
  <2> QED
    BY <1>1, <1>2, <1>9, <2>1, SeekKeeps
<1> QED
  BY <1>3, <1>4, <1>5, <1>6, <1>7, <1>8, <1>9 DEF Next

LEMMA StepKeeps ==
  ASSUME RootIsShort, Slips = {}, IInv, [Next]_vars
  PROVE  IInv'
<1>1. disk' = disk /\ FineNext
  <2>1. CASE Next
    BY <2>1, StepFine
  <2>2. CASE UNCHANGED vars
    BY <2>2 DEF vars, IInv, FineNext
  <2> QED
    BY <2>1, <2>2
<1>2. disk' \in Disks
  BY <1>1 DEF IInv
<1>3. CASE monitor' = "no" /\ Good(next', cachedBuf', dir', handle', did')
  <2>1. /\ TablesFor(next', dir') /\ HandlingFor(next', dir', handle', did')
        /\ cachedBuf' \in {Empty, next'}
    BY <1>3 DEF Good
  <2>2. TablesFor(next, dir)' /\ HandlingFor(next, dir, handle, did)'
    BY <1>1, <2>1, TablesStay, HandlingStays
  <2> QED
    BY <1>2, <1>3, <2>1, <2>2 DEF IInv, Fine, Good, Empty
<1>4. CASE monitor' = "disk_full" /\ Long(next', cachedBuf', dir', handle')
  <2>1. /\ LongTables(next', dir') /\ cachedBuf' \in {Empty, next'}
        /\ \A x \in Handles : handle'[x].file # NoFile => handle'[x].file \in DOMAIN dir'
    BY <1>4 DEF Long
  <2>2. LongTables(next, dir)'
    BY <1>1, <2>1, TablesStay
  <2> QED
    BY <1>2, <1>4, <2>1, <2>2 DEF IInv, Fine, Long, Empty
<1> QED
  BY <1>1, <1>3, <1>4 DEF FineNext, Fine

(* The chains that there are, whether the disk ran full or not.            *)
LEMMA ChainsAre ==
  ASSUME IInv
  PROVE  \E M : /\ Tidy(next, Existing, Starts, M) /\ Entries(dir)
                /\ \A f \in Existing : M[f] >= Counts[f] /\ (monitor = "no" => M[f] = Counts[f])
<1>1. Existing = DOMAIN dir /\ Starts = StartsOf(dir) /\ Counts = CountsOf(dir)
  BY DEF Existing, Starts, StartsOf, Counts, CountsOf
<1>2. CASE monitor = "no"
  <2>1. Good(next, cachedBuf, dir, handle, did)
    BY <1>2 DEF IInv, Fine
  <2>2. Tables
    BY <2>1, GoodIs
  <2>3. disk \in Disks
    BY DEF IInv
  <2>4. \A f \in Existing : Counts[f] \in Nat
    BY <2>2, <2>3, RestIs
  <2>5. Tidy(next, Existing, Starts, Counts) /\ Entries(dir)
    BY <1>1, <2>2 DEF Tables, Entries
  <2>6. PICK M : M = Counts
    OBVIOUS
  <2>7. \A f \in Existing : M[f] >= Counts[f] /\ M[f] = Counts[f]
    BY <2>4, <2>6
  <2> QED
    BY <2>5, <2>6, <2>7
<1>3. CASE monitor = "disk_full"
  <2>1. LongTables(next, dir) /\ monitor # "no"
    BY <1>3 DEF IInv, Fine, Long
  <2> QED
    BY <1>1, <2>1 DEF LongTables
<1> QED
  BY <1>2, <1>3 DEF IInv, Fine

(***************************************************************************)
(* What the invariant says of a state.                                     *)
(***************************************************************************)
LEMMA CacheIs ==
  ASSUME IInv
  PROVE  CacheFresh
<1>1. CASE Good(next, cachedBuf, dir, handle, did)
  BY <1>1, GoodIs DEF CacheFresh
<1>2. CASE Long(next, cachedBuf, dir, handle)
  BY <1>2 DEF Long, CacheFresh
<1> QED
  BY <1>1, <1>2 DEF IInv, Fine

(* A chain as the property finds it.                                       *)
LEMMA ChainIs ==
  ASSUME disk \in Disks, NEW M, Tidy(next, Existing, Starts, M), NEW f \in Existing
  PROVE  /\ Chain(f) = Own(next, Starts[f], M[f]) /\ Cardinality(Chain(f)) = M[f] /\ M[f] \in Nat
         /\ Start(f) = Starts[f] /\ (Chain(f) # {} => Nth(next, Start(f), M[f]) = EOC)
<1>1. M[f] \in Nat /\ ChainOf(next, Starts[f], M[f])
  BY DEF Tidy
<1>2. PICK s, m : s = Starts[f] /\ m = M[f]
  OBVIOUS
<1>3. m \in Nat /\ ChainOf(next, s, m)
  BY <1>1, <1>2
<1>4. PICK n : n = Cardinality(Clusters)
  OBVIOUS
<1>5. n \in Nat
  BY <1>4, ClustersAre
<1>6. Cardinality(Own(next, s, m)) = m /\ m <= n
  BY <1>3, <1>4, ChainCounts
<1>7. m <= n + 1
  BY <1>3, <1>5, <1>6
<1>8. Found(next, s, n) \ {0, EOC} = Own(next, s, m)
  BY <1>3, <1>5, <1>7, ChainFound
<1>9. Start(f) = s
  BY <1>2 DEF Start, Starts, Existing
<1>10. Chain(f) = Own(next, s, m)
  BY <1>4, <1>8, <1>9 DEF Chain, Found
<1>11. Own(next, s, m) # {} => m > 0
  BY <1>3 DEF Own
<1>12. Own(next, s, m) # {} => Nth(next, s, m) = EOC
  BY <1>3, <1>11 DEF ChainOf
<1> QED
  BY <1>2, <1>3, <1>6, <1>9, <1>10, <1>12

LEMMA TypesAre ==
  ASSUME IInv
  PROVE  TypeOK
<1>1. PICK M : Tidy(next, Existing, Starts, M) /\ Entries(dir)
  BY ChainsAre
<1>2. next \in [Clusters -> Clusters \cup {0, EOC}]
  BY <1>1 DEF Tidy, Table, LinkSet
<1>3. /\ Existing \subseteq Files
      /\ \A f \in Existing : dir[f] \in [start_cluster : Clusters \cup {0}, file_size : 0 .. MaxSize]
  BY <1>1 DEF Entries, Existing
<1>4. \A x \in Handles : IsOpen(x) => handle[x].file \in Existing
  <2>1. CASE Good(next, cachedBuf, dir, handle, did)
    BY <2>1, GoodIs
  <2>2. CASE Long(next, cachedBuf, dir, handle)
    BY <2>2 DEF Long, IsOpen, Existing
  <2> QED
    BY <2>1, <2>2 DEF IInv, Fine
<1>5. monitor \in {"no", "disk_full", "internal_error"}
  BY DEF IInv, Fine
<1> QED
  BY <1>2, <1>3, <1>4, <1>5 DEF TypeOK

LEMMA EntriesAre ==
  ASSUME IInv
  PROVE  EntriesAgree /\ monitor # "internal_error"
<1>1. monitor # "internal_error"
  BY DEF IInv, Fine
<1>2. ASSUME NEW x \in Handles, IsOpen(x), monitor = "no"
      PROVE  /\ dir[handle[x].file].file_size = handle[x].fileSize
             /\ dir[handle[x].file].start_cluster = handle[x].startcluster \/ Allocates(handle[x])
  <2>1. Good(next, cachedBuf, dir, handle, did)
    BY <1>2 DEF IInv, Fine
  <2>2. FollowsIn(dir, handle[x])
    BY <1>2, <2>1, GoodIs
  <2> QED
    BY <2>2 DEF FollowsIn
<1> QED
  BY <1>1, <1>2 DEF EntriesAgree

(* The first and the last sector of a cluster are on the disk.             *)
LEMMA WholeCluster ==
  ASSUME disk \in Disks, RootIsShort, NEW c \in Clusters
  PROVE  SectorStart(c) \in Sectors /\ SectorStart(c) + sectors_per_cluster - 1 \in Sectors
<1>1. sectors_per_cluster \in Nat \ {0}
  BY DiskIs
<1>2. PICK o : o = 0 /\ o \in Nat
  OBVIOUS
<1>3. PICK u : u = sectors_per_cluster - 1
  OBVIOUS
<1>4. o \in 0 .. sectors_per_cluster - 1 /\ u \in 0 .. sectors_per_cluster - 1
  BY <1>1, <1>2, <1>3
<1>5. SectorStart(c) \in Nat /\ SectorStart(c) + o \in Sectors /\ SectorStart(c) + u \in Sectors
  BY <1>4, SectorsAre
<1> QED
  BY <1>1, <1>2, <1>3, <1>5

LEMMA ChainsHold ==
  ASSUME IInv, RootIsShort
  PROVE  Chains
<1>1. PICK M : /\ Tidy(next, Existing, Starts, M)
               /\ \A f \in Existing : M[f] >= Counts[f] /\ (monitor = "no" => M[f] = Counts[f])
  BY ChainsAre
<1>2. disk \in Disks
  BY DEF IInv
<1>3. \A f \in Existing : Counts[f] = ClustersFor(dir[f].file_size)
  BY DEF Counts
<1>4. ASSUME NEW f \in Existing
      PROVE  /\ Chain(f) # {} => Nth(next, Start(f), Cardinality(Chain(f))) = EOC
             /\ Cardinality(Chain(f)) >= ClustersFor(dir[f].file_size)
             /\ monitor = "no" => Cardinality(Chain(f)) = ClustersFor(dir[f].file_size)
  BY <1>1, <1>2, <1>3, ChainIs
<1>5. \A f, g \in Existing : f # g => Chain(f) \cap Chain(g) = {}
  <2>1. ASSUME NEW f \in Existing, NEW g \in Existing, f # g PROVE Chain(f) \cap Chain(g) = {}
    <3>1. Chain(f) = Own(next, Starts[f], M[f]) /\ Chain(g) = Own(next, Starts[g], M[g])
      BY <1>1, <1>2, ChainIs
    <3> QED
      BY <1>1, <2>1, <3>1 DEF Tidy
  <2> QED
    BY <2>1
<1>6. ASSUME NEW c \in Clusters, next[c] # 0
      PROVE  /\ \E f \in Existing : c \in Chain(f)
             /\ SectorStart(c) \in Sectors /\ SectorStart(c) + sectors_per_cluster - 1 \in Sectors
  <2>1. PICK f \in Existing : c \in Own(next, Starts[f], M[f])
    BY <1>1, <1>6 DEF Tidy
  <2>2. c \in Chain(f)
    BY <1>1, <1>2, <2>1, ChainIs
  <2> QED
    BY <1>2, <2>2, WholeCluster
<1> QED
  BY <1>4, <1>5, <1>6 DEF Chains

(* What is known of an open handle between the calls.                      *)
OpenIs(h, f, d) ==
  /\ Tables /\ cachedBuf \in {Empty, next} /\ next \in Table /\ f \in Existing
  /\ h \in Handle /\ h.file = f /\ Follows(h, f) /\ Position(next, h, d) /\ d \in Patterns \cup {"orderly"}

LEMMA OpenAre ==
  ASSUME IInv, monitor = "no", NEW x \in Handles, IsOpen(x)
  PROVE  disk \in Disks /\ OpenIs(handle[x], handle[x].file, did[x])
<1>1. Good(next, cachedBuf, dir, handle, did) /\ disk \in Disks
  BY DEF IInv, Fine
<1>2. Follows(handle[x], handle[x].file)
  BY <1>1, GoodIs
<1>3. handle[x].file \in Existing /\ Position(next, handle[x], did[x])
  BY <1>1, GoodIs
<1> QED
  BY <1>1, <1>2, <1>3, GoodIs DEF OpenIs

(* Reading gets what there is.                                             *)
LEMMA ReadsAre ==
  ASSUME IInv, RootIsShort, Slips = {}
  PROVE  ReadsRight
<1>1. SUFFICES ASSUME NEW x \in Handles, NEW n \in Requests, NEW h, h = handle[x],
                      IsOpen(x), May(x, "read"), ~ Refuses(h), monitor = "no",
                      NEW r, r = fatReadFile(h, n)
               PROVE  r.done /\ r.h.currpos = h.currpos + Gets(h, n) /\ r.got = Places(h, Gets(h, n))
  BY DEF ReadsRight, Gets, Places
<1>2. PICK f, d : f = h.file /\ d = did[x]
  OBVIOUS
<1>3. disk \in Disks /\ OpenIs(h, f, d)
  BY <1>1, <1>2, OpenAre
<1>4. d \in {"orderly", "at_end", "past_end"}
  BY <1>1, <1>2, <1>3, MayIs DEF OpenIs
<1>5. h.fileSize > 0 => Chained(h)
  BY <1>3, FollowsChain DEF OpenIs
<1>6. n \in Nat
  BY DiskAssumption
<1>7. ReadWell(r, h, n, d)
  BY <1>1, <1>3, <1>4, <1>5, <1>6, ReadsWell DEF OpenIs
<1> QED
  BY <1>7 DEF ReadWell

(* What may write, writes or gets stuck.                                   *)
LEMMA WritesDo ==
  ASSUME IInv, RootIsShort, Slips = {}, monitor = "no", NEW x \in Handles, NEW n \in Nat \ {0}, MayWrite(x, n),
         NEW h, h = handle[x], NEW f, f = h.file, h.currpos >= 0, ~ NoRoom(h), NEW v, v = fatWriteFile(h, n)
  PROVE  /\ disk \in Disks /\ OpenIs(h, f, did[x]) /\ h.currpos \in Nat
         /\ Stuck(v, Rest(f)) \/ Written(v, Rest(f), h, n)
<1>1. PICK d : d = did[x]
  OBVIOUS
<1>2. disk \in Disks /\ OpenIs(h, f, d)
  BY <1>1, OpenAre DEF MayWrite
<1>3. d \in {"orderly", "created"}
  BY <1>1, <1>2, MayIs DEF OpenIs, MayWrite
<1>4. h.currpos \in Nat
  BY <1>2 DEF OpenIs, Handle
<1>5. Placed(h)
  BY <1>2, <1>3, <1>4, PlacedFrom DEF OpenIs
<1>6. Stuck(v, Rest(f)) \/ Written(v, Rest(f), h, n)
  BY <1>2, <1>4, <1>5, WriteDoes DEF OpenIs
<1> QED
  BY <1>1, <1>2, <1>4, <1>6

(* Writing puts the bytes where they belong.                               *)
LEMMA WritesAre ==
  ASSUME IInv, RootIsShort, Slips = {}
  PROVE  WritesRight
<1>1. SUFFICES ASSUME NEW x \in Handles, NEW n \in Requests \ {0}, NEW h, h = handle[x],
                      monitor = "no", MayWrite(x, n), h.currpos >= 0, ~ NoRoom(h)
               PROVE  PutThere(h, n, fatWriteFile(h, n))
  BY DEF WritesRight
<1>2. PICK f, v : f = h.file /\ v = fatWriteFile(h, n)
  OBVIOUS
<1>3. n \in Nat \ {0}
  BY DiskAssumption
<1>4. /\ disk \in Disks /\ OpenIs(h, f, did[x]) /\ h.currpos \in Nat
      /\ Stuck(v, Rest(f)) \/ Written(v, Rest(f), h, n)
  BY <1>1, <1>2, <1>3, WritesDo
<1>5. CASE Stuck(v, Rest(f))
  <2>1. v.monitor # "no"
    BY <1>5, StuckIs
  <2> QED
    BY <1>2, <2>1 DEF PutThere
<1>6. CASE Written(v, Rest(f), h, n)
  <2>1. PutThere(h, n, v)
    BY <1>3, <1>4, <1>6, WrittenRight DEF OpenIs
  <2> QED
    BY <1>2, <2>1
<1> QED
  BY <1>4, <1>5, <1>6

(* A write that does nothing.                                              *)
LEMMA UnwrittenStays ==
  ASSUME disk \in Disks, RootIsShort, Tables, cachedBuf \in {Empty, next}, NEW h \in Handle,
         NEW g \in Existing, g # h.file, NEW i \in 0 .. dir[g].file_size - 1, NEW v, v = Unwritten(h)
  PROVE  ByteAfter(v, g, i) = ByteBefore(g, i)
<1>1. /\ v.h = h /\ v.next = next /\ v.holds = [s \in Sectors |-> Old(s)]
  BY UnwrittenIs DEF Tables, Tidy
<1>2. PICK s, k, z : s = Starts[g] /\ k = Counts[g] /\ z = dir[g].file_size
  OBVIOUS
<1>3. k \in Nat /\ ChainOf(next, s, k) /\ k = ClustersFor(z) /\ Start(g) = s /\ z \in Nat
  BY <1>2 DEF Tables, Tidy, Counts, Starts, Start, Existing
<1>4. i \in Nat /\ i < z
  BY <1>2, <1>3
<1>5. (i \div SectorSize) \div sectors_per_cluster < k
  BY <1>3, <1>4, WithinSize
<1>6. PICK y, o : y = SectorAt(next, s, i \div SectorSize) /\ o = i % SectorSize
  OBVIOUS
<1>7. Where(next, s, i) = <<y, o>> /\ y \in Sectors /\ o \in Offsets
  BY <1>3, <1>4, <1>5, <1>6, WhereIs
<1>8. ByteAfter(v, g, i) = v.holds[y][o]
  BY <1>1, <1>3, <1>7 DEF ByteAfter
<1>9. v.holds[y][o] = <<"old", y, o>>
  BY <1>1, <1>7 DEF Old
<1> QED
  BY <1>3, <1>7, <1>8, <1>9 DEF ByteBefore

(* No write touches another file, or anything outside the data area.       *)
LEMMA OthersAre ==
  ASSUME IInv, RootIsShort, Slips = {}
  PROVE  OthersKept
<1>1. SUFFICES ASSUME NEW x \in Handles, NEW n \in Requests, NEW h, h = handle[x],
                      monitor = "no", MayWrite(x, n), NEW v, v = fatWriteFile(h, n)
               PROVE  PutNowhereElse(h, v)
  BY DEF OthersKept
<1>2. PICK f : f = h.file
  OBVIOUS
<1>3. IsOpen(x) /\ n \in Nat
  BY <1>1, DiskAssumption DEF MayWrite
<1>4. disk \in Disks /\ OpenIs(h, f, did[x])
  BY <1>1, <1>2, <1>3, OpenAre
<1>5. h \in Handle /\ h.file = f /\ Tables /\ cachedBuf \in {Empty, next} /\ next \in Table /\ f \in Existing
  BY <1>4 DEF OpenIs
<1>6. ASSUME NEW g \in Handle, g.file = f, v = Unwritten(g) PROVE PutNowhereElse(h, v)
  <2>1. ~ v.stray
    BY <1>5, <1>6, UnwrittenIs
  <2>2. ASSUME NEW k \in Existing \ {f}, NEW i \in 0 .. dir[k].file_size - 1
        PROVE  ByteAfter(v, k, i) = ByteBefore(k, i)
    BY <1>4, <1>5, <1>6, <2>2, UnwrittenStays
  <2> QED
    BY <1>5, <2>1, <2>2 DEF PutNowhereElse
<1>7. CASE h.currpos < 0 \/ n = 0
  <2>1. v = Unwritten(h)
    BY <1>1, <1>3, <1>5, <1>7 DEF fatWriteFile, Handle
  <2> QED
    BY <1>5, <1>6, <2>1
<1>8. CASE h.currpos >= 0 /\ n # 0 /\ NoRoom(h)
  <2>1. PICK g : g = [h EXCEPT !.nextCluster = 0]
    OBVIOUS
  <2>2. v = Unwritten(g)
    BY <1>1, <1>8, <2>1 DEF fatWriteFile
  <2>3. 0 \in LinkSet
    BY DEF LinkSet
  <2>4. g \in Handle /\ g.file = f
    BY <1>5, <2>1, <2>3 DEF Handle
  <2> QED
    BY <1>6, <2>2, <2>4
<1>9. CASE h.currpos >= 0 /\ n # 0 /\ ~ NoRoom(h)
  <2>1. n \in Nat \ {0}
    BY <1>3, <1>9
  <2>2. Stuck(v, Rest(f)) \/ Written(v, Rest(f), h, n)
    BY <1>1, <1>2, <1>9, <2>1, WritesDo
  <2>3. PICK m : Disk(v, Rest(f), m)
    BY <2>2 DEF Stuck, Written, Stands
  <2>4. ~ v.stray
    BY <2>3 DEF Disk
  <2>5. ASSUME NEW k \in Existing \ {f}, NEW i \in 0 .. dir[k].file_size - 1
        PROVE  ByteAfter(v, k, i) = ByteBefore(k, i)
    BY <1>4, <1>5, <2>3, OthersStay
  <2> QED
    BY <1>5, <2>4, <2>5 DEF PutNowhereElse
<1>10. h.currpos \in Int
  BY <1>5 DEF Handle
<1> QED
  BY <1>3, <1>7, <1>8, <1>9, <1>10

THEOREM Invariant ==
  ASSUME RootIsShort, Slips = {}
  PROVE  Spec => []IInv
<1>1. Init => IInv
  BY InitFine
<1>2. IInv /\ [Next]_vars => IInv'
  BY StepKeeps
<1> QED
  BY <1>1, <1>2, PTL DEF Spec

THEOREM CachesStayFresh ==
  ASSUME RootIsShort, Slips = {}
  PROVE  Spec => []CacheFresh
<1>1. IInv => CacheFresh
  BY CacheIs
<1> QED
  BY <1>1, Invariant, PTL

THEOREM ChainsStaySound ==
  ASSUME RootIsShort, Slips = {}
  PROVE  Spec => []ChainsSound
<1>1. IInv => ChainsSound
  BY TypesAre, ChainsHold, EntriesAre DEF ChainsSound
<1> QED
  BY <1>1, Invariant, PTL

THEOREM CallsAreRight ==
  ASSUME RootIsShort, Slips = {}
  PROVE  Spec => []CallsRight
<1>1. IInv => CallsRight
  BY ReadsAre, WritesAre DEF CallsRight
<1> QED
  BY <1>1, Invariant, PTL

THEOREM OthersAreKept ==
  ASSUME RootIsShort, Slips = {}
  PROVE  Spec => []OthersKept
<1>1. IInv => OthersKept
  BY OthersAre
<1> QED
  BY <1>1, Invariant, PTL
=============================================================================
