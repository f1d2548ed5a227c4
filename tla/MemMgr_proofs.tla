--------------------------- MODULE MemMgr_proofs ---------------------------
(***************************************************************************)
(* Proofs about MemMgr, for every memory size, control block size, request *)
(* and order of calls.                                                     *)
(***************************************************************************)
EXTENDS MemMgrStats, Counting

(***************************************************************************)
(* The list operators keep the two directions of a list each other's       *)
(* inverse.  These are the pointer updates all operations are made of.     *)
(***************************************************************************)
LEMMA UnlinkedRing ==
  ASSUME NEW S \in SUBSET Addr, NEW f \in [Ptr -> Ptr], NEW g \in [Ptr -> Ptr],
         Ring(f, g, S), NEW q \in S
  PROVE  /\ Unlinked(f, g, q) \in [Ptr -> Ptr]
         /\ Unlinked(g, f, q) \in [Ptr -> Ptr]
         /\ Ring(Unlinked(f, g, q), Unlinked(g, f, q), S \ {q})
BY DEF Ring, Unlinked, Ptr, Addr, NULL

LEMMA ReplacedRing ==
  ASSUME NEW S \in SUBSET Addr, NEW f \in [Ptr -> Ptr], NEW g \in [Ptr -> Ptr],
         Ring(f, g, S), NEW old \in S, NEW new \in Addr \ S, f[old] # old
  PROVE  /\ Replaced(f, g, old, new) \in [Ptr -> Ptr]
         /\ Replaced(g, f, old, new) \in [Ptr -> Ptr]
         /\ Ring(Replaced(f, g, old, new), Replaced(g, f, old, new),
                 (S \ {old}) \cup {new})
<1> DEFINE F == Replaced(f, g, old, new)
           G == Replaced(g, f, old, new)
           R == (S \ {old}) \cup {new}
<1>1. S \subseteq Ptr /\ new \in Ptr /\ NULL \in Ptr /\ new # NULL /\ NULL \notin S
  BY DEF Ptr, Addr, NULL
<1>2. F \in [Ptr -> Ptr] /\ G \in [Ptr -> Ptr]
  BY <1>1 DEF Replaced, Ring
<1>3. ASSUME NEW p \in R \cup {NULL}
      PROVE  /\ F[p] = IF p = new THEN f[old] ELSE IF f[p] = old THEN new ELSE f[p]
             /\ G[p] = IF p = new THEN g[old] ELSE IF g[p] = old THEN new ELSE g[p]
  <2>1. p \in Ptr /\ p # old
    BY <1>1
  <2>2. p \in S \cup {NULL} => (p = g[old] <=> f[p] = old) /\ (p = f[old] <=> g[p] = old)
    BY <1>1 DEF Ring
  <2>3. F[p] = IF p = new THEN f[old] ELSE IF p = g[old] THEN new ELSE f[p]
    BY <1>1, <2>1 DEF Replaced
  <2>4. G[p] = IF p = new THEN g[old] ELSE IF p = f[old] THEN new ELSE g[p]
    BY <1>1, <2>1 DEF Replaced
  <2>. QED
    BY <1>1, <2>2, <2>3, <2>4
<1>4. Ring(F, G, R)
  BY <1>1, <1>3 DEF Ring
<1>. QED
  BY <1>2, <1>4

LEMMA InsertedRing ==
  ASSUME NEW S \in SUBSET Addr, NEW f \in [Ptr -> Ptr], NEW g \in [Ptr -> Ptr],
         Ring(f, g, S), NEW p \in S \cup {NULL}, NEW q \in Addr \ S
  PROVE  /\ Inserted(f, p, q) \in [Ptr -> Ptr]
         /\ Inserted(g, f[p], q) \in [Ptr -> Ptr]
         /\ Ring(Inserted(f, p, q), Inserted(g, f[p], q), S \cup {q})
BY DEF Ring, Inserted, Ptr, Addr, NULL

(***************************************************************************)
(* They also keep every member of the list within reach of its head.  A    *)
(* set closed under the new list, less what was added or plus what was     *)
(* taken out, is closed under the old one.                                 *)
(***************************************************************************)
LEMMA NoSelfLoop ==
  ASSUME NEW S \in SUBSET Addr, NEW f \in [Ptr -> Ptr], NEW g \in [Ptr -> Ptr],
         Ring(f, g, S), Reach(f, S), NEW q \in S
  PROVE  f[q] # q /\ g[q] # q
<1> SUFFICES ASSUME f[q] = q \/ g[q] = q PROVE FALSE
  OBVIOUS
<1>1. f[q] = q /\ g[q] = q /\ NULL \notin S
  BY DEF Ring, Addr, NULL
<1>2. \A p \in S \cup {NULL} : f[p] = q => p = q
  BY <1>1 DEF Ring
<1> DEFINE T == S \ {q}
<1>3. T \in SUBSET S /\ f[NULL] \in T \cup {NULL} /\ \A p \in T : f[p] \in T \cup {NULL}
  BY <1>1, <1>2 DEF Ring
<1>4. T = S
  BY <1>3 DEF Reach
<1>. QED
  BY <1>4

LEMMA InsertedReach ==
  ASSUME NEW S \in SUBSET Addr, NEW f \in [Ptr -> Ptr], NEW g \in [Ptr -> Ptr],
         Ring(f, g, S), Reach(f, S), NEW q \in Addr \ S
  PROVE  Reach(Inserted(f, NULL, q), S \cup {q})
<1> DEFINE F == Inserted(f, NULL, q)
<1> SUFFICES ASSUME NEW T \in SUBSET (S \cup {q}),
                    F[NULL] \in T \cup {NULL}, \A p \in T : F[p] \in T \cup {NULL}
             PROVE  T = S \cup {q}
  BY DEF Reach
<1>1. q # NULL /\ NULL \in Ptr /\ S \subseteq Ptr /\ q \in Ptr /\ NULL \notin S
  BY DEF Ptr, Addr, NULL
<1>2. F[NULL] = q /\ F[q] = f[NULL] /\ \A p \in S : F[p] = f[p]
  BY <1>1 DEF Inserted
<1> DEFINE U == T \ {q}
<1>3. q \in T /\ U \in SUBSET S
  BY <1>1, <1>2
<1>4. f[NULL] \in U \cup {NULL} /\ \A p \in U : f[p] \in U \cup {NULL}
  BY <1>1, <1>2, <1>3 DEF Ring
<1>5. U = S
  BY <1>3, <1>4 DEF Reach
<1>. QED
  BY <1>3, <1>5

LEMMA ReplacedReach ==
  ASSUME NEW S \in SUBSET Addr, NEW f \in [Ptr -> Ptr], NEW g \in [Ptr -> Ptr],
         Ring(f, g, S), Reach(f, S), NEW old \in S, NEW new \in Addr \ S
  PROVE  Reach(Replaced(f, g, old, new), (S \ {old}) \cup {new})
<1> DEFINE F == Replaced(f, g, old, new)
           R == (S \ {old}) \cup {new}
<1> SUFFICES ASSUME NEW T \in SUBSET R,
                    F[NULL] \in T \cup {NULL}, \A p \in T : F[p] \in T \cup {NULL}
             PROVE  T = R
  BY DEF Reach
<1> DEFINE U == IF new \in T THEN (T \ {new}) \cup {old} ELSE T
<1>1. S \subseteq Ptr /\ new \in Ptr /\ NULL \in Ptr /\ new # NULL /\ NULL \notin S
      /\ f[old] # old /\ g[old] \in S \cup {NULL}
  BY NoSelfLoop DEF Ptr, Addr, NULL, Ring
<1>2. ASSUME NEW p \in R \cup {NULL}
      PROVE  F[p] = IF p = new THEN f[old] ELSE IF f[p] = old THEN new ELSE f[p]
  <2>1. p \in Ptr /\ p # old
    BY <1>1
  <2>2. p \in S \cup {NULL} => (p = g[old] <=> f[p] = old)
    BY <1>1 DEF Ring
  <2>3. F[p] = IF p = new THEN f[old] ELSE IF p = g[old] THEN new ELSE f[p]
    BY <1>1, <2>1 DEF Replaced
  <2>. QED
    BY <1>1, <2>2, <2>3
<1>3. U \in SUBSET S
  OBVIOUS
<1>4. f[NULL] \in U \cup {NULL}
  BY <1>1, <1>2 DEF Ring
<1>5. ASSUME NEW p \in U PROVE f[p] \in U \cup {NULL}
  BY <1>1, <1>2 DEF Ring
<1>6. U = S
  BY <1>3, <1>4, <1>5 DEF Reach
<1>. QED
  BY <1>6

LEMMA UnlinkedReach ==
  ASSUME NEW S \in SUBSET Addr, NEW f \in [Ptr -> Ptr], NEW g \in [Ptr -> Ptr],
         Ring(f, g, S), Reach(f, S), NEW q \in S
  PROVE  Reach(Unlinked(f, g, q), S \ {q})
<1> DEFINE F == Unlinked(f, g, q)
<1> SUFFICES ASSUME NEW T \in SUBSET (S \ {q}),
                    F[NULL] \in T \cup {NULL}, \A p \in T : F[p] \in T \cup {NULL}
             PROVE  T = S \ {q}
  BY DEF Reach
<1>1. S \subseteq Ptr /\ NULL \in Ptr /\ NULL \notin S
      /\ f[q] # q /\ g[q] \in S \cup {NULL} /\ f[q] \in S \cup {NULL} /\ f[g[q]] = q
  BY NoSelfLoop DEF Ptr, Addr, NULL, Ring
<1>2. ASSUME NEW p \in (S \ {q}) \cup {NULL}
      PROVE  F[p] = IF f[p] = q THEN f[q] ELSE f[p]
  <2>1. p = g[q] <=> f[p] = q
    BY <1>1 DEF Ring
  <2>. QED
    BY <1>1, <2>1 DEF Unlinked
<1>3. CASE g[q] \in T \cup {NULL}
  <2>1. f[q] \in T \cup {NULL}
    BY <1>1, <1>2, <1>3 DEF Ring
  <2>2. T \cup {q} \in SUBSET S
    OBVIOUS
  <2>3. f[NULL] \in (T \cup {q}) \cup {NULL}
        /\ \A p \in T \cup {q} : f[p] \in (T \cup {q}) \cup {NULL}
    BY <1>1, <1>2, <2>1
  <2>4. T \cup {q} = S
    BY <2>2, <2>3 DEF Reach
  <2>. QED
    BY <2>4
<1>4. CASE g[q] \notin T \cup {NULL}
  <2>1. \A p \in T \cup {NULL} : f[p] # q
    BY <1>4 DEF Ring
  <2>2. f[NULL] \in T \cup {NULL} /\ \A p \in T : f[p] \in T \cup {NULL}
    BY <1>1, <1>2, <2>1
  <2>3. T = S
    BY <2>2 DEF Reach
  <2>. QED
    BY <2>3, <1>4, <1>1
<1>. QED
  BY <1>3, <1>4

(***************************************************************************)
(* Arithmetic of size_t.                                                   *)
(***************************************************************************)
LEMMA DivMod ==
  ASSUME NEW x \in Nat, NEW d \in Nat \ {0}
  PROVE  /\ x \div d \in Nat /\ x % d \in 0 .. d - 1
         /\ x = d * (x \div d) + (x % d)
OBVIOUS

LEMMA WrapsOnce ==
  ASSUME NEW w \in Nat \ {0}, NEW x \in 0 .. 2 * w - 1
  PROVE  x % w = IF x < w THEN x ELSE x - w
<1>1. CASE x < w
  BY <1>1, DivMod
<1>2. CASE x >= w
  <2> DEFINE q == x \div w
             r == x % w
  <2>1. q \in Nat /\ r \in 0 .. w - 1 /\ x = w * q + r
    <3>1. x \in Nat
      OBVIOUS
    <3>. QED
      BY <3>1, DivMod
  <2> HIDE DEF q, r
  <2>2. q # 0
    BY <1>2, <2>1
  <2>3. ASSUME q >= 2 PROVE FALSE
    <3>1. PICK k \in Nat : q = k + 2
      BY <2>1, <2>3
    <3>2. w * q = w * k + 2 * w /\ w * k \in Nat
      BY <3>1
    <3>. QED
      BY <2>1, <3>2
  <2>4. q = 1
    BY <2>1, <2>2, <2>3
  <2>5. x = w + r
    BY <2>1, <2>4
  <2>. QED
    BY <1>2, <2>1, <2>5 DEF r
<1>. QED
  BY <1>1, <1>2

(* Rounding a request up never loses part of it: either memmgrAllocate     *)
(* sees that size_t wrapped, or the block has room for the control block   *)
(* and every byte asked for, and is a whole number of units.               *)
THEOREM RoundedHasRoom ==
  ASSUME NEW bytes \in 0 .. WordLimit - 1
  PROVE  /\ Rounded(bytes) \in 0 .. WordLimit - 1
         /\ ~ Overflows(bytes) => /\ Rounded(bytes) >= bytes + HeaderSize
                                  /\ \E k \in Nat : Rounded(bytes) = Gran * k
<1> DEFINE b == (bytes + HeaderSize) % WordLimit
           q == b \div Gran
           up == (q + 1) * Gran
<1>1. /\ HeaderSize \in Nat \ {0} /\ WordLimit \in Nat \ {0} /\ Gran \in Nat \ {0}
      /\ Gran = 2 * HeaderSize /\ 2 * Gran < WordLimit
  BY GeometryAssumption DEF Gran
<1>2. b \in 0 .. WordLimit - 1
      /\ b = IF bytes + HeaderSize < WordLimit THEN bytes + HeaderSize
                                              ELSE bytes + HeaderSize - WordLimit
  <2>1. PICK x \in 0 .. 2 * WordLimit - 1 : x = bytes + HeaderSize
    BY <1>1
  <2>2. x % WordLimit = IF x < WordLimit THEN x ELSE x - WordLimit
    BY <1>1, WrapsOnce
  <2>3. b = x % WordLimit
    BY <2>1
  <2> HIDE DEF b
  <2>. QED
    BY <1>1, <2>1, <2>2, <2>3
<1>3. q \in Nat /\ b % Gran \in 0 .. Gran - 1 /\ b = Gran * q + (b % Gran)
  <2>1. b \in Nat
    BY <1>2
  <2> HIDE DEF b
  <2>. QED
    BY <1>1, <2>1, DivMod
<1>4. up = Gran * q + Gran
  BY <1>1, <1>3
<1>5. up > b /\ up <= b + Gran /\ up \in 0 .. 2 * WordLimit - 1
  <2>1. Gran * q \in Nat
    BY <1>1, <1>3
  <2>. QED
    BY <1>1, <1>2, <1>3, <1>4, <2>1
<1>6. up % WordLimit = IF up < WordLimit THEN up ELSE up - WordLimit
  BY <1>1, <1>5, WrapsOnce
<1>7. Rounded(bytes) = IF b % Gran = 0 THEN b ELSE up % WordLimit
  BY DEF Rounded
<1>8. \E k \in Nat : Gran * q = Gran * k /\ \E j \in Nat : up = Gran * j
  BY <1>1, <1>3
<1> HIDE DEF b, q, up
<1>9. Rounded(bytes) \in 0 .. WordLimit - 1
      /\ (~ Overflows(bytes) => Rounded(bytes) >= bytes + HeaderSize)
  BY <1>1, <1>2, <1>5, <1>6, <1>7 DEF Overflows
<1>10. ~ Overflows(bytes) => Rounded(bytes) = Gran * q \/ Rounded(bytes) = up
  <2>1. Gran * q \in Nat
    BY <1>1, <1>3
  <2>. QED
    BY <1>1, <1>2, <1>3, <1>5, <1>6, <1>7, <2>1 DEF Overflows
<1>. QED
  BY <1>8, <1>9, <1>10

(***************************************************************************)
(* The shapes of change to the tiling of memory.                           *)
(***************************************************************************)
Typed == /\ nodes \subseteq Addr /\ fixed \subseteq nodes
         /\ next \in [Ptr -> Ptr] /\ prev \in [Ptr -> Ptr]
         /\ size \in [Addr -> 0 .. LastAddr] /\ supplied \subseteq Buffers

LEMMA BufferBounds ==
  ASSUME NEW b \in Buffers
  PROVE  /\ Base(b) \in Addr /\ Usable(b) \in Nat /\ Usable(b) >= HeaderSize
         /\ Limit(b) = Base(b) + Usable(b) /\ Limit(b) \in Nat
         /\ Limit(b) <= LastAddr + 1 /\ LastAddr \in Nat
<1>1. Base(b) \in Addr /\ Usable(b) \in Nat /\ Usable(b) >= HeaderSize
      /\ Limit(b) <= LastAddr + 1
  BY BufferAssumption
<1>2. Limit(b) = Base(b) + Usable(b)
  BY DEF Limit
<1> HIDE DEF Usable
<1>. QED
  BY <1>1, <1>2, GeometryAssumption DEF Addr

LEMMA BlockBounds ==
  ASSUME Typed, Geometry, NEW p \in nodes
  PROVE  /\ p \in Nat \ {0} /\ size[p] \in Nat /\ size[p] >= HeaderSize
         /\ p + size[p] <= LastAddr + 1
         /\ HeaderSize \in Nat \ {0} /\ LastAddr \in Nat
<1>1. p \in Nat \ {0} /\ size[p] \in Nat /\ size[p] >= HeaderSize
  BY GeometryAssumption DEF Typed, Geometry, Sized, Addr
<1>2. PICK b \in supplied : p + size[p] <= Limit(b)
  BY DEF Geometry, Housed
<1>3. Limit(b) \in Nat /\ Limit(b) <= LastAddr + 1 /\ LastAddr \in Nat
  BY BufferBounds DEF Typed
<1>. QED
  BY <1>1, <1>2, <1>3, GeometryAssumption

(* Links and addresses are natural numbers. *)
LEMMA NumberFacts ==
  ASSUME Typed
  PROVE  /\ \A a \in Addr : a \in Nat \ {0} /\ next[a] \in Nat
         /\ HeaderSize \in Nat \ {0} /\ NULL = 0 /\ next[NULL] \in Nat
<1>1. \A a \in Ptr : a \in Nat
  BY DEF Ptr, Addr, NULL
<1>2. \A a \in Ptr : next[a] \in Ptr
  BY DEF Typed
<1>3. \A a \in Addr : a \in Ptr /\ a \in Nat \ {0}
  BY DEF Ptr, Addr
<1>4. NULL \in Ptr /\ NULL = 0
  BY DEF Ptr, NULL
<1>. QED
  BY <1>1, <1>2, <1>3, <1>4, GeometryAssumption

(* A block p is cut at q. *)
LEMMA CutGeometry ==
  ASSUME Typed, Geometry, NEW p \in nodes, NEW q \in Addr \ nodes,
         q >= p + HeaderSize, q + HeaderSize <= p + size[p],
         next[p] = NULL \/ next[p] >= p + size[p],
         nodes' = nodes \cup {q},
         \A a \in nodes \cup {NULL} : next'[a] = IF a = p THEN q ELSE next[a],
         next'[q] = next[p],
         \A a \in nodes : size'[a] = IF a = p THEN q - p ELSE size[a],
         size'[q] = p + size[p] - q,
         fixed' = fixed, supplied' = supplied
  PROVE  Geometry'
<1>1. \A a \in nodes : /\ a \in Nat \ {0} /\ size[a] \in Nat /\ size[a] >= HeaderSize
                       /\ next[a] \in Nat
  <2>1. \A a \in nodes : next[a] \in Nat
    BY NumberFacts DEF Typed
  <2>. QED
    BY <2>1, BlockBounds
<1>2. HeaderSize \in Nat \ {0} /\ q \in Nat \ {0} /\ NULL = 0 /\ next[NULL] \in Nat
  BY NumberFacts
<1>3. Ordered'
  <2>1. Ordered
    BY DEF Geometry
  <2>. QED
    BY <1>1, <1>2, <2>1 DEF Ordered
<1>4. Disjoint'
  <2>1. Disjoint
    BY DEF Geometry
  <2>2. ASSUME NEW a \in nodes, NEW c \in nodes, a < c PROVE a + size'[a] <= c
    BY <1>1, <1>2, <2>1, <2>2 DEF Disjoint
  <2>3. ASSUME NEW c \in nodes, q < c PROVE q + size'[q] <= c
    BY <1>1, <1>2, <2>1, <2>3 DEF Disjoint
  <2>4. ASSUME NEW a \in nodes, a < q PROVE a + size'[a] <= q
    BY <1>1, <1>2, <2>1, <2>4 DEF Disjoint
  <2>. QED
    BY <1>2, <2>2, <2>3, <2>4 DEF Disjoint
<1>5. Adjacent'
  BY <1>1, <1>2 DEF Geometry, Adjacent, Typed
<1>6. Housed'
  <2>1. \A a \in nodes : \E b \in supplied :
          Base(b) <= a /\ a + size[a] <= Limit(b) /\ Base(b) \in Nat /\ Limit(b) \in Nat
    BY BufferBounds DEF Geometry, Housed, Typed, Addr
  <2>. QED
    BY <1>1, <1>2, <2>1 DEF Housed
<1>7. Heads'
  BY DEF Geometry, Heads
<1>8. Sized'
  BY <1>1, <1>2 DEF Sized
<1>. QED
  BY <1>3, <1>4, <1>5, <1>6, <1>7, <1>8 DEF Geometry

(* Touching blocks, the second of which starts no buffer, share a buffer. *)
LEMMA SameBuffer ==
  ASSUME Typed, Geometry, NEW p \in nodes, NEW z \in nodes,
         z = p + size[p], z \notin fixed
  PROVE  \E b \in supplied : /\ Base(b) <= p /\ z + size[z] <= Limit(b)
                             /\ Base(b) \in Nat /\ Limit(b) \in Nat
<1>1. \A a \in nodes : \E b \in supplied :
        /\ Base(b) <= a /\ a + size[a] <= Limit(b)
        /\ Base(b) \in Nat /\ Limit(b) \in Nat
  BY BufferBounds DEF Geometry, Housed, Typed, Addr
<1>2. PICK b \in supplied : /\ Base(b) <= p /\ p + size[p] <= Limit(b)
                           /\ Base(b) \in Nat /\ Limit(b) \in Nat
  BY <1>1
<1>3. PICK c \in supplied : /\ Base(c) <= z /\ z + size[z] <= Limit(c)
                           /\ Base(c) \in Nat /\ Limit(c) \in Nat
  BY <1>1
<1>4. Base(c) # z
  BY DEF Geometry, Heads
<1>5. b = c
  <2>1. b # c => Limit(b) <= Base(c) \/ Limit(c) <= Base(b)
    BY BufferAssumption DEF Typed
  <2>. QED
    BY <1>2, <1>3, <1>4, <2>1, BlockBounds
<1>. QED
  BY <1>2, <1>3, <1>5

(* The blocks between p and e become part of p; r is the block then next. *)
JoinedAt(p, e, r) ==
    /\ e >= p + size[p]
    /\ \A a \in nodes : a < e => a + size[a] <= e
    /\ \A a \in nodes : p < a /\ a < e => a \notin fixed
    /\ \A a \in nodes : a >= e => r # NULL /\ r <= a
    /\ r # NULL => r >= e
    /\ r # NULL /\ r \notin fixed => r = e
    /\ \E b \in supplied : Base(b) <= p /\ e <= Limit(b)
    /\ nodes' = {a \in nodes : a <= p \/ a >= e}
    /\ \A a \in nodes' \cup {NULL} : next'[a] = IF a = p THEN r ELSE next[a]
    /\ \A a \in nodes' : size'[a] = IF a = p THEN e - p ELSE size[a]
    /\ fixed' = fixed
    /\ supplied' = supplied

LEMMA JoinGeometry ==
  ASSUME Typed, Geometry, NEW p \in nodes, NEW e \in Nat, NEW r \in nodes \cup {NULL},
         JoinedAt(p, e, r)
  PROVE  Geometry'
<1>1. \A a \in nodes : /\ a \in Nat \ {0} /\ size[a] \in Nat /\ size[a] >= HeaderSize
                       /\ next[a] \in Nat
  <2>1. \A a \in nodes : next[a] \in Nat
    BY NumberFacts DEF Typed
  <2>. QED
    BY <2>1, BlockBounds
<1>2. HeaderSize \in Nat \ {0} /\ NULL = 0 /\ r \in Nat /\ next[NULL] \in Nat
  <2>1. next[NULL] \in Nat /\ NULL \in Nat
    BY DEF Typed, Ptr, Addr, NULL
  <2>. QED
    BY <1>1, <2>1, GeometryAssumption DEF NULL
<1>3. Ordered'
  <2>1. Ordered
    BY DEF Geometry
  <2>. QED
    BY <1>1, <1>2, <2>1 DEF Ordered, JoinedAt
<1>4. Disjoint'
  <2>1. Disjoint
    BY DEF Geometry
  <2>. QED
    BY <1>1, <1>2, <2>1 DEF Disjoint, JoinedAt
<1>5. Adjacent'
  <2>1. Adjacent
    BY DEF Geometry
  <2>. QED
    BY <1>1, <1>2, <2>1 DEF Adjacent, JoinedAt
<1>6. Housed'
  <2>1. Housed
    BY DEF Geometry
  <2>. QED
    BY <1>1, <1>2, <2>1 DEF Housed, JoinedAt
<1>7. Heads'
  BY DEF Geometry, Heads, JoinedAt
<1>8. Sized'
  BY <1>1, <1>2 DEF Sized, JoinedAt
<1>. QED
  BY <1>3, <1>4, <1>5, <1>6, <1>7, <1>8 DEF Geometry

(* The boundary between p and the block z behind it moves to q.            *)
LEMMA MoveGeometry ==
  ASSUME Typed, Geometry, NEW p \in nodes, NEW z \in nodes, NEW q \in Addr \ nodes,
         next[p] = z, z \notin fixed,
         q >= p + HeaderSize, q + HeaderSize <= z + size[z],
         next[z] = NULL \/ next[z] >= z + size[z],
         nodes' = (nodes \ {z}) \cup {q},
         \A a \in (nodes \ {z}) \cup {NULL} : next'[a] = IF a = p THEN q ELSE next[a],
         next'[q] = next[z],
         \A a \in nodes \ {z} : size'[a] = IF a = p THEN q - p ELSE size[a],
         size'[q] = z + size[z] - q,
         fixed' = fixed, supplied' = supplied
  PROVE  Geometry'
<1>1. \A a \in nodes : /\ a \in Nat \ {0} /\ size[a] \in Nat /\ size[a] >= HeaderSize
                       /\ next[a] \in Nat
  <2>1. \A a \in nodes : next[a] \in Nat
    BY NumberFacts DEF Typed
  <2>. QED
    BY <2>1, BlockBounds
<1>2. HeaderSize \in Nat \ {0} /\ NULL = 0 /\ q \in Nat \ {0} /\ next[NULL] \in Nat
  BY GeometryAssumption DEF Typed, Ptr, Addr, NULL
<1>3. z = p + size[p] /\ z # p
  BY <1>1, <1>2 DEF Geometry, Adjacent
<1>4. Ordered'
  <2>1. Ordered
    BY DEF Geometry
  <2>. QED
    BY <1>1, <1>2, <1>3, <2>1 DEF Ordered
<1>5. Disjoint'
  <2>1. Disjoint
    BY DEF Geometry
  <2>2. ASSUME NEW a \in nodes \ {z}, NEW c \in nodes \ {z}, a < c PROVE a + size'[a] <= c
    <3>1. a = p => z <= c /\ z + size[z] <= c
      BY <1>1, <1>2, <1>3, <2>1, <2>2 DEF Disjoint
    <3>. QED
      BY <1>1, <1>2, <1>3, <2>1, <2>2, <3>1 DEF Disjoint
  <2>3. ASSUME NEW c \in nodes \ {z}, q < c PROVE q + size'[q] <= c
    <3>1. c > p => z + size[z] <= c
      BY <1>1, <1>2, <1>3, <2>1 DEF Disjoint
    <3>. QED
      BY <1>1, <1>2, <1>3, <2>3, <3>1
  <2>4. ASSUME NEW a \in nodes \ {z}, a < q PROVE a + size'[a] <= q
    <3>1. a < p \/ a = p \/ a >= z + size[z]
      BY <1>1, <1>2, <1>3, <2>1 DEF Disjoint
    <3>. QED
      BY <1>1, <1>2, <1>3, <2>1, <2>4, <3>1 DEF Disjoint
  <2>. QED
    BY <1>2, <2>2, <2>3, <2>4 DEF Disjoint
<1>6. Adjacent'
  <2>1. Adjacent
    BY DEF Geometry
  <2>2. z = next[z] \/ next[z] # z
    OBVIOUS
  <2>. QED
    BY <1>1, <1>2, <1>3, <2>1 DEF Adjacent, Typed
<1>7. Housed'
  <2>1. \A a \in nodes : \E b \in supplied :
          Base(b) <= a /\ a + size[a] <= Limit(b) /\ Base(b) \in Nat /\ Limit(b) \in Nat
    BY BufferBounds DEF Geometry, Housed, Typed, Addr
  <2>2. \E b \in supplied : /\ Base(b) <= p /\ z + size[z] <= Limit(b)
                            /\ Base(b) \in Nat /\ Limit(b) \in Nat
    BY <1>3, SameBuffer
  <2>. QED
    BY <1>1, <1>2, <1>3, <2>1, <2>2 DEF Housed
<1>8. Heads'
  BY DEF Geometry, Heads
<1>9. Sized'
  BY <1>1, <1>2 DEF Sized
<1>. QED
  BY <1>4, <1>5, <1>6, <1>7, <1>8, <1>9 DEF Geometry

(***************************************************************************)
(* The same shapes, as the operations make them.                           *)
(***************************************************************************)
LEMMA BlockFacts ==
  ASSUME Typed, BlockRing, Geometry, NEW p \in nodes
  PROVE  /\ next[p] \in nodes \cup {NULL} /\ prev[p] \in nodes \cup {NULL}
         /\ prev[next[p]] = p /\ next[prev[p]] = p
         /\ next[p] # p /\ next[p] \in Nat
         /\ next[p] # NULL => next[p] >= p + size[p]
         /\ next[p] # NULL /\ next[p] \notin fixed => next[p] = p + size[p]
<1>1. /\ next[p] \in nodes \cup {NULL} /\ prev[p] \in nodes \cup {NULL}
      /\ prev[next[p]] = p /\ next[prev[p]] = p
  BY DEF BlockRing, Ring
<1>2. p \in Nat \ {0} /\ NULL = 0 /\ next[p] \in Nat
  BY DEF Typed, Ptr, Addr, NULL
<1>3. next[p] # NULL => next[p] > p
  BY <1>1 DEF Geometry, Ordered
<1>4. next[p] # NULL => next[p] >= p + size[p]
  BY <1>1, <1>2, <1>3, BlockBounds DEF Geometry, Disjoint
<1>. QED
  BY <1>1, <1>2, <1>3, <1>4 DEF Geometry, Adjacent

LEMMA CutStep ==
  ASSUME Typed, BlockRing, Geometry, NEW p \in nodes, NEW q \in Nat,
         q >= p + HeaderSize, q + HeaderSize <= p + size[p],
         InsertBlock(p, q), size' = [size EXCEPT ![p] = q - p, ![q] = p + size[p] - q],
         fixed' = fixed, supplied' = supplied
  PROVE  Typed' /\ BlockRing' /\ Geometry' /\ q \in Addr \ nodes
<1>1. /\ p \in Nat \ {0} /\ size[p] \in Nat /\ p + size[p] <= LastAddr + 1
      /\ HeaderSize \in Nat \ {0} /\ LastAddr \in Nat
  BY BlockBounds
<1>2. q \in Addr /\ q # p
  BY <1>1 DEF Addr
<1>3. q \notin nodes
  BY <1>1 DEF Geometry, Disjoint
<1>4. /\ next' \in [Ptr -> Ptr] /\ prev' \in [Ptr -> Ptr]
      /\ Ring(next', prev', nodes')
  BY <1>2, <1>3, InsertedRing DEF InsertBlock, BlockRing, Typed
<1>5. q - p \in 0 .. LastAddr /\ p + size[p] - q \in 0 .. LastAddr
  BY <1>1
<1>6. Typed'
  BY <1>2, <1>4, <1>5 DEF InsertBlock, Typed
<1>7. /\ nodes' = nodes \cup {q}
      /\ \A a \in nodes \cup {NULL} : next'[a] = IF a = p THEN q ELSE next[a]
      /\ next'[q] = next[p]
      /\ \A a \in nodes : size'[a] = IF a = p THEN q - p ELSE size[a]
      /\ size'[q] = p + size[p] - q
  <2>1. \A a \in nodes \cup {NULL} : a \in Ptr /\ a # q
    BY <1>2, <1>3 DEF Typed, Ptr, Addr, NULL
  <2>. QED
    BY <1>2, <1>3, <2>1 DEF InsertBlock, Inserted, Typed, Ptr
<1>8. next[p] = NULL \/ next[p] >= p + size[p]
  BY BlockFacts
<1>9. Geometry'
  BY <1>2, <1>3, <1>7, <1>8, CutGeometry
<1>. QED
  BY <1>2, <1>3, <1>4, <1>6, <1>9 DEF BlockRing

LEMMA JoinStep ==
  ASSUME Typed, BlockRing, Geometry, NEW p \in nodes, NEW z \in nodes,
         next[p] = z, z \notin fixed,
         RemoveBlock(z), size' = [size EXCEPT ![p] = size[p] + size[z], ![z] = 0],
         fixed' = fixed, supplied' = supplied
  PROVE  Typed' /\ BlockRing' /\ Geometry'
<1>1. /\ p \in Nat \ {0} /\ size[p] \in Nat /\ p + size[p] <= LastAddr + 1
      /\ z \in Nat \ {0} /\ size[z] \in Nat /\ z + size[z] <= LastAddr + 1
      /\ size[z] >= HeaderSize /\ HeaderSize \in Nat \ {0} /\ LastAddr \in Nat
  BY BlockBounds
<1>2. z = p + size[p] /\ z # p /\ prev[z] = p
  BY <1>1, BlockFacts DEF NULL
<1>3. /\ next' \in [Ptr -> Ptr] /\ prev' \in [Ptr -> Ptr]
      /\ Ring(next', prev', nodes')
  BY UnlinkedRing DEF RemoveBlock, BlockRing, Typed
<1>4. size[p] + size[z] \in 0 .. LastAddr
  BY <1>1, <1>2
<1>5. Typed'
  <2>1. size' \in [Addr -> 0 .. LastAddr]
    BY <1>1, <1>4 DEF Typed
  <2>. QED
    BY <1>3, <2>1 DEF RemoveBlock, Typed
<1> DEFINE e == z + size[z]
           r == next[z]
<1>6. e \in Nat /\ e >= p + size[p]
      /\ r \in nodes \cup {NULL} /\ r # z /\ (r # NULL => r >= e)
      /\ (r # NULL /\ r \notin fixed => r = e)
  BY <1>1, <1>2, BlockFacts
<1>7. \A a \in nodes : a <= p \/ a = z \/ a >= e
  BY <1>1, <1>2, BlockBounds DEF Geometry, Disjoint
<1>8. \A a \in nodes : a < e => a + size[a] <= e
  BY <1>1, <1>2, <1>7, BlockBounds DEF Geometry, Disjoint
<1>9. \A a \in nodes : a >= e => r # NULL /\ r <= a
  BY <1>1, <1>2, BlockBounds DEF Geometry, Ordered
<1>10. \E b \in supplied : Base(b) <= p /\ e <= Limit(b)
  BY <1>2, SameBuffer
<1>11. nodes' = {a \in nodes : a <= p \/ a >= e}
  <2>1. z > p /\ z < e
    BY <1>1, <1>2
  <2>2. \A a \in nodes : a # z <=> a <= p \/ a >= e
    BY <1>1, <1>6, <1>7, <2>1
  <2>. QED
    BY <2>2 DEF RemoveBlock
<1>12. \A a \in nodes' \cup {NULL} : next'[a] = IF a = p THEN r ELSE next[a]
  <2>1. \A a \in nodes' \cup {NULL} : a \in Ptr /\ a # z
    BY <1>1 DEF Typed, Ptr, NULL, RemoveBlock
  <2>. QED
    BY <1>2, <2>1 DEF RemoveBlock, Unlinked, Typed
<1>13. \A a \in nodes' : size'[a] = IF a = p THEN e - p ELSE size[a]
  <2>1. \A a \in nodes' : a \in Addr /\ a # z
    BY DEF Typed, RemoveBlock
  <2>2. e - p = size[p] + size[z]
    BY <1>1, <1>2
  <2>. QED
    BY <1>2, <2>1, <2>2 DEF Typed
<1> HIDE DEF e, r
<1>14. \A a \in nodes : p < a /\ a < e => a \notin fixed
  BY <1>1, <1>6, <1>7, BlockBounds
<1>15. JoinedAt(p, e, r)
  BY <1>6, <1>8, <1>9, <1>10, <1>11, <1>12, <1>13, <1>14 DEF JoinedAt
<1>16. Geometry'
  BY <1>6, <1>15, JoinGeometry
<1>. QED
  BY <1>3, <1>5, <1>16 DEF BlockRing

LEMMA JoinTwoStep ==
  ASSUME Typed, BlockRing, Geometry,
         NEW l \in nodes, NEW p \in nodes, NEW n \in nodes,
         next[l] = p, next[p] = n, p \notin fixed, n \notin fixed,
         RemoveTwo(p, n),
         size' = [size EXCEPT ![l] = size[l] + size[p] + size[n], ![p] = 0, ![n] = 0],
         fixed' = fixed, supplied' = supplied
  PROVE  Typed' /\ BlockRing' /\ Geometry'
<1>1. /\ l \in Nat \ {0} /\ size[l] \in Nat /\ l + size[l] <= LastAddr + 1
      /\ p \in Nat \ {0} /\ size[p] \in Nat /\ p + size[p] <= LastAddr + 1
      /\ n \in Nat \ {0} /\ size[n] \in Nat /\ n + size[n] <= LastAddr + 1
      /\ size[p] >= HeaderSize /\ size[n] >= HeaderSize
      /\ HeaderSize \in Nat \ {0} /\ LastAddr \in Nat
  BY BlockBounds
<1>2. /\ p = l + size[l] /\ n = p + size[p] /\ p # l /\ n # p /\ n # l
      /\ prev[p] = l /\ prev[n] = p
  BY <1>1, BlockFacts DEF NULL
<1> DEFINE f == Unlinked(next, prev, p)
           g == Unlinked(prev, next, p)
<1>3. f \in [Ptr -> Ptr] /\ g \in [Ptr -> Ptr] /\ Ring(f, g, nodes \ {p})
  BY UnlinkedRing DEF BlockRing, Typed
<1>4. next' = Unlinked(f, g, n) /\ prev' = Unlinked(g, f, n)
  BY DEF RemoveTwo
<1>5. /\ f[n] = next[n] /\ g[n] = l
      /\ \A a \in (nodes \ {p}) \cup {NULL} : f[a] = IF a = l THEN n ELSE next[a]
  <2>1. \A a \in (nodes \ {p}) \cup {NULL} : a \in Ptr /\ a # p
    BY <1>1 DEF Typed, Ptr, NULL
  <2>. QED
    BY <1>2, <2>1 DEF Unlinked, Typed
<1> HIDE DEF f, g
<1>6. /\ next' \in [Ptr -> Ptr] /\ prev' \in [Ptr -> Ptr]
      /\ Ring(next', prev', nodes')
  <2>1. nodes \ {p} \in SUBSET Addr /\ n \in nodes \ {p} /\ (nodes \ {p}) \ {n} = nodes'
    BY <1>2 DEF Typed, RemoveTwo
  <2>2. PICK R \in SUBSET Addr : R = nodes \ {p} /\ n \in R /\ R \ {n} = nodes'
    BY <2>1
  <2>3. /\ Ring(Unlinked(f, g, n), Unlinked(g, f, n), R \ {n})
        /\ Unlinked(f, g, n) \in [Ptr -> Ptr] /\ Unlinked(g, f, n) \in [Ptr -> Ptr]
    BY <1>3, <2>2, UnlinkedRing
  <2>. QED
    BY <1>4, <2>2, <2>3
<1>7. size[l] + size[p] + size[n] \in 0 .. LastAddr
  BY <1>1, <1>2
<1>8. Typed'
  <2>1. size' \in [Addr -> 0 .. LastAddr]
    BY <1>1, <1>7 DEF Typed
  <2>. QED
    BY <1>6, <2>1 DEF Typed, RemoveTwo
<1> DEFINE e == n + size[n]
           r == next[n]
<1>9. e \in Nat /\ e >= l + size[l]
      /\ r \in nodes \cup {NULL} /\ (r # NULL => r >= e)
      /\ (r # NULL /\ r \notin fixed => r = e)
  BY <1>1, <1>2, BlockFacts
<1>10. \A a \in nodes : a <= l \/ a = p \/ a = n \/ a >= e
  BY <1>1, <1>2, BlockBounds DEF Geometry, Disjoint
<1>11. \A a \in nodes : a < e => a + size[a] <= e
  BY <1>1, <1>2, <1>10, BlockBounds DEF Geometry, Disjoint
<1>12. \A a \in nodes : a >= e => r # NULL /\ r <= a
  BY <1>1, <1>2, BlockBounds DEF Geometry, Ordered
<1>13. \E b \in supplied : Base(b) <= l /\ e <= Limit(b)
  <2>1. PICK b \in supplied : /\ Base(b) <= l /\ p + size[p] <= Limit(b)
                             /\ Base(b) \in Nat /\ Limit(b) \in Nat
    BY <1>2, SameBuffer
  <2>2. PICK c \in supplied : /\ Base(c) <= p /\ n + size[n] <= Limit(c)
                             /\ Base(c) \in Nat /\ Limit(c) \in Nat
    BY <1>2, SameBuffer
  <2>3. b # c => Limit(b) <= Base(c) \/ Limit(c) <= Base(b)
    BY BufferAssumption DEF Typed
  <2>. QED
    BY <1>1, <1>2, <2>1, <2>2, <2>3
<1>14. nodes' = {a \in nodes : a <= l \/ a >= e}
  <2>1. p > l /\ p < e /\ n > l /\ n < e
    BY <1>1, <1>2
  <2>2. \A a \in nodes : a \notin {p, n} <=> a <= l \/ a >= e
    BY <1>1, <1>9, <1>10, <2>1
  <2>. QED
    BY <2>2 DEF RemoveTwo
<1>15. \A a \in nodes' \cup {NULL} : next'[a] = IF a = l THEN r ELSE next[a]
  <2>1. \A a \in nodes' \cup {NULL} : a \in Ptr /\ a # n /\ a \in (nodes \ {p}) \cup {NULL}
    BY <1>1 DEF Typed, Ptr, NULL, RemoveTwo
  <2>. QED
    BY <1>2, <1>3, <1>4, <1>5, <2>1 DEF Unlinked
<1>16. \A a \in nodes' : size'[a] = IF a = l THEN e - l ELSE size[a]
  <2>1. \A a \in nodes' : a \in Addr /\ a # p /\ a # n
    BY DEF Typed, RemoveTwo
  <2>2. e - l = size[l] + size[p] + size[n]
    BY <1>1, <1>2
  <2>. QED
    BY <1>2, <2>1, <2>2 DEF Typed
<1> HIDE DEF e, r
<1>17. \A a \in nodes : l < a /\ a < e => a \notin fixed
  BY <1>1, <1>9, <1>10, BlockBounds
<1>18. JoinedAt(l, e, r)
  BY <1>9, <1>11, <1>12, <1>13, <1>14, <1>15, <1>16, <1>17 DEF JoinedAt
<1>19. Geometry'
  BY <1>9, <1>18, JoinGeometry
<1>. QED
  BY <1>6, <1>8, <1>19 DEF BlockRing

LEMMA MoveStep ==
  ASSUME Typed, BlockRing, Geometry, NEW p \in nodes, NEW z \in nodes, NEW q \in Nat,
         next[p] = z, z \notin fixed, q # z,
         q >= p + HeaderSize, q + HeaderSize <= z + size[z],
         ReplaceBlock(z, q),
         \A a \in Addr : size'[a] = IF a = p THEN q - p
                                   ELSE IF a = q THEN z + size[z] - q
                                   ELSE IF a = z THEN 0 ELSE size[a],
         DOMAIN size' = Addr, size' \in [Addr -> Int],
         fixed' = fixed, supplied' = supplied
  PROVE  Typed' /\ BlockRing' /\ Geometry' /\ q \in Addr \ nodes
<1>1. /\ p \in Nat \ {0} /\ size[p] \in Nat /\ p + size[p] <= LastAddr + 1
      /\ z \in Nat \ {0} /\ size[z] \in Nat /\ z + size[z] <= LastAddr + 1
      /\ HeaderSize \in Nat \ {0} /\ LastAddr \in Nat
  BY BlockBounds
<1>2. z = p + size[p] /\ z # p /\ next[z] # z /\ prev[z] = p
  BY <1>1, BlockFacts DEF NULL
<1>3. q \in Addr /\ q # p /\ q > p /\ q < z + size[z]
  BY <1>1 DEF Addr
<1>4. q \notin nodes
  <2> SUFFICES ASSUME q \in nodes PROVE FALSE
    OBVIOUS
  <2>1. q > p => z <= q
    BY <1>1, <1>2, <1>3 DEF Geometry, Disjoint
  <2>2. z < q => z + size[z] <= q
    BY <1>1, <1>3 DEF Geometry, Disjoint
  <2>. QED
    BY <1>1, <1>3, <2>1, <2>2
<1>5. /\ next' \in [Ptr -> Ptr] /\ prev' \in [Ptr -> Ptr]
      /\ Ring(next', prev', nodes')
  BY <1>2, <1>3, <1>4, ReplacedRing DEF ReplaceBlock, BlockRing, Typed
<1>6. Typed'
  <2>1. q - p \in 0 .. LastAddr /\ z + size[z] - q \in 0 .. LastAddr
    BY <1>1, <1>3
  <2>2. size' \in [Addr -> 0 .. LastAddr]
    BY <1>1, <2>1 DEF Typed
  <2>. QED
    BY <1>3, <1>5, <2>2 DEF ReplaceBlock, Typed
<1>7. /\ nodes' = (nodes \ {z}) \cup {q}
      /\ \A a \in (nodes \ {z}) \cup {NULL} : next'[a] = IF a = p THEN q ELSE next[a]
      /\ next'[q] = next[z]
  <2>1. \A a \in (nodes \ {z}) \cup {NULL} : a \in Ptr /\ a # q /\ a # z
    <3>1. nodes \subseteq Ptr /\ NULL \in Ptr /\ NULL # q /\ NULL # z
      BY <1>1, <1>3 DEF Typed, Ptr, NULL
    <3>. QED
      BY <1>4, <3>1
  <2>. QED
    BY <1>2, <1>3, <1>4, <2>1 DEF ReplaceBlock, Replaced, Typed, Ptr
<1>8. /\ \A a \in nodes \ {z} : size'[a] = IF a = p THEN q - p ELSE size[a]
      /\ size'[q] = z + size[z] - q
  BY <1>3, <1>4 DEF Typed
<1>9. next[z] = NULL \/ next[z] >= z + size[z]
  BY BlockFacts
<1>10. Geometry'
  BY <1>3, <1>4, <1>7, <1>8, <1>9, MoveGeometry
<1>. QED
  BY <1>3, <1>4, <1>5, <1>6, <1>10 DEF BlockRing

LEMMA SupplyStep ==
  ASSUME Typed, BlockRing, Geometry, NEW b \in Buffers \ supplied,
         NEW l \in nodes \cup {NULL}, GoesBehind(l, Base(b)), InsertBlock(l, Base(b)),
         size' = [size EXCEPT ![Base(b)] = Usable(b)],
         fixed' = fixed \cup {Base(b)}, supplied' = supplied \cup {b}
  PROVE  /\ Typed' /\ BlockRing' /\ Geometry' /\ Base(b) \in Addr \ nodes
         /\ next[l] # NULL => next[l] \in fixed
<1> DEFINE q == Base(b)
<1>1. /\ q \in Addr /\ q \in Nat \ {0} /\ Usable(b) \in Nat /\ Usable(b) >= HeaderSize
      /\ Limit(b) = q + Usable(b) /\ Limit(b) <= LastAddr + 1
      /\ HeaderSize \in Nat \ {0} /\ LastAddr \in Nat
  BY BufferBounds, GeometryAssumption DEF Addr
<1>2. \A a \in nodes : /\ a \in Nat \ {0} /\ size[a] \in Nat /\ size[a] >= HeaderSize
                       /\ a + size[a] <= q \/ Limit(b) <= a
  <2> SUFFICES ASSUME NEW a \in nodes PROVE a + size[a] <= q \/ Limit(b) <= a
    BY BlockBounds
  <2>1. PICK c \in supplied : /\ Base(c) <= a /\ a + size[a] <= Limit(c)
                             /\ Base(c) \in Nat /\ Limit(c) \in Nat
    BY BufferBounds DEF Geometry, Housed, Typed, Addr
  <2>2. Limit(b) <= Base(c) \/ Limit(c) <= Base(b)
    BY BufferAssumption DEF Typed
  <2>. QED
    BY <1>1, <2>1, <2>2, BlockBounds
<1>3. q \notin nodes
  BY <1>1, <1>2
<1>4. /\ next' \in [Ptr -> Ptr] /\ prev' \in [Ptr -> Ptr]
      /\ Ring(next', prev', nodes')
  BY <1>1, <1>3, InsertedRing DEF InsertBlock, BlockRing, Typed
<1>5. Typed'
  <2>1. Usable(b) \in 0 .. LastAddr
    BY <1>1
  <2>. QED
    BY <1>1, <1>4, <2>1 DEF InsertBlock, Typed
<1>6. /\ nodes' = nodes \cup {q}
      /\ \A a \in nodes \cup {NULL} : next'[a] = IF a = l THEN q ELSE next[a]
      /\ next'[q] = next[l]
      /\ \A a \in nodes : size'[a] = size[a]
      /\ size'[q] = Usable(b)
  <2>1. \A a \in nodes \cup {NULL} : a \in Ptr /\ a # q
    BY <1>1, <1>3 DEF Typed, Ptr, NULL
  <2>2. q \in Ptr
    BY <1>1 DEF Ptr
  <2>. QED
    BY <1>1, <1>3, <2>1, <2>2 DEF InsertBlock, Inserted, Typed
<1>7. /\ l \in Nat /\ l <= q /\ (next[l] = NULL \/ next[l] > q) /\ NULL = 0
      /\ next[l] \in nodes \cup {NULL} /\ \A a \in nodes \cup {NULL} : next[a] \in Nat
  BY <1>2 DEF GoesBehind, NULL, BlockRing, Ring, Typed, Ptr, Addr
<1> HIDE DEF q
<1>8. Ordered'
  <2>1. Ordered
    BY DEF Geometry
  <2>2. \A a \in nodes \cup {NULL} : a \in Nat /\ a # q
    BY <1>1, <1>2, <1>3, <1>7
  <2>. QED
    BY <1>1, <1>6, <1>7, <2>1, <2>2 DEF Ordered
<1>9. Disjoint'
  BY <1>1, <1>2, <1>6 DEF Geometry, Disjoint
<1>10. l # NULL => l + size[l] <= q
  BY <1>1, <1>2, <1>7
<1>11. ASSUME next[l] # NULL PROVE next[l] \in fixed
  <2>1. next[l] \in nodes /\ next[l] > q
    BY <1>7, <1>11
  <2>2. CASE l # NULL
    <3>1. next[l] \notin fixed => next[l] = l + size[l]
      BY <1>11, <2>2 DEF Geometry, Adjacent
    <3>. QED
      BY <1>1, <1>2, <1>7, <1>10, <2>1, <2>2, <3>1
  <2>3. CASE l = NULL
    <3>1. PICK c \in supplied : Base(c) <= next[l] /\ Base(c) \in Nat \ {0}
      <4>1. PICK c \in supplied : Base(c) <= next[l]
        BY <2>1 DEF Geometry, Housed
      <4>2. c \in Buffers
        BY DEF Typed
      <4>3. Base(c) \in Addr
        BY <4>2, BufferBounds
      <4>4. Base(c) \in Nat \ {0}
        BY <4>3, NumberFacts
      <4>. QED
        BY <4>1, <4>4
    <3>2. Base(c) \in fixed /\ Base(c) \in nodes
      BY DEF Geometry, Heads, Typed
    <3>3. next[l] <= Base(c)
      BY <2>3, <3>1, <3>2, <1>7 DEF Geometry, Ordered
    <3>. QED
      BY <1>7, <3>1, <3>2, <3>3
  <2>. QED
    BY <2>2, <2>3
<1>12. Adjacent'
  <2>1. Adjacent
    BY DEF Geometry
  <2>2. fixed' = fixed \cup {q}
    BY DEF q
  <2>. QED
    BY <1>1, <1>2, <1>6, <1>7, <1>10, <1>11, <2>1, <2>2 DEF Adjacent
<1>13. Housed'
  <2>1. \A a \in nodes : \E c \in supplied : Base(c) <= a /\ a + size[a] <= Limit(c)
    BY DEF Geometry, Housed
  <2>2. Base(b) <= q /\ q + Usable(b) <= Limit(b)
    BY <1>1 DEF q
  <2>. QED
    BY <1>6, <2>1, <2>2 DEF Housed
<1>14. Heads' /\ Sized'
  BY <1>1, <1>6 DEF Geometry, Heads, Sized, q
<1>. QED
  BY <1>1, <1>3, <1>4, <1>5, <1>8, <1>9, <1>11, <1>12, <1>13, <1>14
  DEF Geometry, BlockRing, q

(***************************************************************************)
(* The invariant that all operations keep.                                 *)
(***************************************************************************)
Inv == HeapInv /\ NeverCrashes /\ RoomEnough

LEMMA InvTyped == Inv => Typed /\ BlockRing /\ FreeRing /\ FreeReachable /\ Geometry
BY DEF Inv, HeapInv, TypeOK, Typed, Lists

(* The first fit is a free block: the walk stays on the free list.         *)
LEMMA FirstFitFree ==
  ASSUME Inv, NEW n \in Nat, NEW p \in nodes, FirstFit(p, n)
  PROVE  p \in Free /\ size[p] >= n
<1>1. Free \in SUBSET nodes
  BY DEF Free
<1>2. nextf[NULL] \in Free \cup {NULL} /\ \A q \in Free : nextf[q] \in Free \cup {NULL}
  BY InvTyped DEF FreeRing, Ring
<1>. QED
  BY <1>1, <1>2 DEF FirstFit

(* The stop for a free list whose first block is not at its head is never  *)
(* reached.                                                                *)
LEMMA HeadIsRight ==
  ASSUME Inv, NEW q \in Free
  PROVE  ~ HeadIsWrong(q)
BY InvTyped DEF FreeRing, Ring, HeadIsWrong

LEMMA TypedRequests ==
  ASSUME NEW bytes \in Requests, ~ Overflows(bytes)
  PROVE  /\ bytes \in Nat /\ Rounded(bytes) \in Nat /\ HeaderSize \in Nat \ {0}
         /\ Rounded(bytes) >= bytes + HeaderSize
         /\ Gran = 2 * HeaderSize /\ WordLimit \in Nat /\ LastAddr \in Nat
         /\ LastAddr + 2 * Gran < WordLimit
<1>1. bytes \in 0 .. WordLimit - 1
  BY RequestAssumption
<1>2. Rounded(bytes) \in 0 .. WordLimit - 1 /\ Rounded(bytes) >= bytes + HeaderSize
  BY <1>1, RoundedHasRoom
<1> HIDE DEF Rounded
<1>. QED
  BY <1>1, <1>2, GeometryAssumption DEF Gran

LEMMA AllocateSplitInv ==
  ASSUME Inv, NEW bytes \in Requests, NEW i \in Ids, NEW p \in Free,
         ~ Overflows(bytes), size[p] >= Rounded(bytes), AllocateSplit(p, bytes, i)
  PROVE  Inv'
<1> DEFINE n == Rounded(bytes)
           q == p + n
<1>1. /\ bytes \in Nat /\ n \in Nat /\ HeaderSize \in Nat \ {0} /\ n >= bytes + HeaderSize
      /\ Gran = 2 * HeaderSize
  BY TypedRequests
<1>2. /\ InsertBlock(p, q) /\ ReplaceFree(p, q) /\ size[p] - n >= Gran
      /\ size' = [size EXCEPT ![p] = n, ![q] = size[p] - n] /\ Take(p, bytes, i)
  BY DEF AllocateSplit
<1>3. /\ Typed /\ BlockRing /\ FreeRing /\ FreeReachable /\ Geometry /\ p \in nodes
      /\ p \notin allocated /\ TypeOK /\ NeverCrashes /\ RoomEnough
  BY InvTyped DEF Free, Inv, HeapInv
<1>4. p \in Nat /\ size[p] \in Nat
  BY <1>3, BlockBounds
<1>5. fixed' = fixed /\ supplied' = supplied
  BY <1>2 DEF Take
<1> HIDE DEF n
<1>6. /\ q \in Nat /\ q >= p + HeaderSize /\ q + HeaderSize <= p + size[p]
      /\ q - p = n /\ p + size[p] - q = size[p] - n
  BY <1>1, <1>2, <1>4
<1> HIDE DEF q
<1>7. Typed' /\ BlockRing' /\ Geometry' /\ q \in Addr \ nodes
  BY <1>2, <1>3, <1>5, <1>6, CutStep
<1>8. Free' = (Free \ {p}) \cup {q}
  BY <1>2, <1>3, <1>7 DEF Free, InsertBlock, Take, TypeOK
<1>9. FreeRing' /\ FreeReachable' /\ nextf' \in [Ptr -> Ptr] /\ prevf' \in [Ptr -> Ptr]
  <2>1. /\ Free \in SUBSET Addr /\ nextf \in [Ptr -> Ptr] /\ prevf \in [Ptr -> Ptr]
        /\ q \in Addr \ Free
    BY <1>3, <1>7 DEF Free, TypeOK
  <2>. QED
    BY <1>2, <1>3, <1>8, <2>1, NoSelfLoop, ReplacedRing, ReplacedReach
    DEF ReplaceFree, FreeRing, FreeReachable
<1>10. TypeOK'
  BY <1>2, <1>3, <1>7, <1>9 DEF TypeOK, Typed, Take, InsertBlock
<1>11. RoomEnough'
  BY <1>1, <1>2, <1>3, <1>6, <1>7 DEF RoomEnough, Take, TypeOK
<1>. QED
  BY <1>2, <1>3, <1>7, <1>9, <1>10, <1>11 DEF Inv, HeapInv, Lists, NeverCrashes, Take

LEMMA AllocateWholeInv ==
  ASSUME Inv, NEW bytes \in Requests, NEW i \in Ids, NEW p \in Free,
         ~ Overflows(bytes), size[p] >= Rounded(bytes), AllocateWhole(p, bytes, i)
  PROVE  Inv'
<1> DEFINE n == Rounded(bytes)
<1>1. bytes \in Nat /\ n \in Nat /\ HeaderSize \in Nat \ {0} /\ n >= bytes + HeaderSize
  BY TypedRequests
<1>2. UnlinkFree(p) /\ Take(p, bytes, i) /\ UNCHANGED <<nodes, next, prev, size>>
  BY DEF AllocateWhole
<1>3. /\ Typed /\ BlockRing /\ FreeRing /\ FreeReachable /\ Geometry /\ p \in nodes
      /\ p \notin allocated /\ TypeOK /\ NeverCrashes /\ RoomEnough
      /\ fixed' = fixed /\ supplied' = supplied
  BY <1>2, InvTyped DEF Free, Inv, HeapInv, Take
<1>4. size[p] \in Nat
  BY <1>3, BlockBounds
<1>5. BlockRing' /\ Geometry'
  BY <1>2, <1>3 DEF BlockRing, Geometry, Ordered, Disjoint, Adjacent, Housed, Heads, Sized
<1>6. Free' = Free \ {p}
  BY <1>2, <1>3 DEF Free, Take
<1>7. FreeRing' /\ FreeReachable' /\ nextf' \in [Ptr -> Ptr] /\ prevf' \in [Ptr -> Ptr]
  <2>1. Free \in SUBSET Addr /\ nextf \in [Ptr -> Ptr] /\ prevf \in [Ptr -> Ptr]
    BY <1>3 DEF Free, TypeOK
  <2>. QED
    BY <1>2, <1>3, <1>6, <2>1, UnlinkedRing, UnlinkedReach
    DEF UnlinkFree, FreeRing, FreeReachable
<1>8. TypeOK'
  BY <1>2, <1>3, <1>7 DEF TypeOK, Take
<1> HIDE DEF n
<1>9. RoomEnough'
  BY <1>1, <1>2, <1>3, <1>4 DEF RoomEnough, Take, TypeOK, n
<1>. QED
  BY <1>2, <1>3, <1>5, <1>7, <1>8, <1>9 DEF Inv, HeapInv, Lists, NeverCrashes, Take

LEMMA SupplyInv ==
  ASSUME Inv, NEW b \in Buffers, Supply(b)
  PROVE  Inv'
<1> DEFINE q == Base(b)
<1>1. PICK l \in nodes \cup {NULL} : GoesBehind(l, q) /\ InsertBlock(l, q)
  BY DEF Supply
<1>2. /\ PushFree(q) /\ fixed' = fixed \cup {q} /\ supplied' = supplied \cup {b}
      /\ size' = [size EXCEPT ![q] = Usable(b)] /\ refused' = -1 /\ b \notin supplied
      /\ UNCHANGED <<allocated, id, owner, req, walk, crashed>>
  BY DEF Supply
<1>3. /\ Typed /\ BlockRing /\ FreeRing /\ FreeReachable /\ Geometry
      /\ TypeOK /\ NeverCrashes /\ RoomEnough
  BY InvTyped DEF Inv, HeapInv
<1>4. Typed' /\ BlockRing' /\ Geometry' /\ q \in Addr \ nodes
  BY <1>1, <1>2, <1>3, SupplyStep
<1> HIDE DEF q
<1>5. nodes' = nodes \cup {q} /\ Free' = Free \cup {q}
  BY <1>1, <1>2, <1>3, <1>4 DEF Free, InsertBlock, TypeOK
<1>6. FreeRing' /\ FreeReachable' /\ nextf' \in [Ptr -> Ptr] /\ prevf' \in [Ptr -> Ptr]
  <2>1. /\ Free \in SUBSET Addr /\ nextf \in [Ptr -> Ptr] /\ prevf \in [Ptr -> Ptr]
        /\ q \in Addr \ Free
    BY <1>3, <1>4 DEF Free, TypeOK
  <2>. QED
    BY <1>2, <1>3, <1>5, <2>1, InsertedRing, InsertedReach
    DEF PushFree, FreeRing, FreeReachable
<1>7. TypeOK'
  BY <1>2, <1>3, <1>4, <1>5, <1>6 DEF TypeOK, Typed
<1>8. RoomEnough'
  BY <1>2, <1>3, <1>4 DEF RoomEnough, TypeOK
<1>. QED
  BY <1>2, <1>3, <1>4, <1>6, <1>7, <1>8 DEF Inv, HeapInv, Lists, NeverCrashes

LEMMA FreeBlockInv ==
  ASSUME Inv, NEW p \in allocated, FreeBlock(p),
         refused' \in Requests \cup {-1}, walk' \in [id : Ids \cup {-1}, p : Ptr, l : Ptr]
  PROVE  Inv'
<1> DEFINE l == prev[p]
           n == next[p]
<1>1. /\ allocated' = allocated \ {p} /\ owner' = [owner EXCEPT ![p] = 0]
      /\ id' = [id EXCEPT ![p] = 0] /\ req' = [req EXCEPT ![p] = 0]
      /\ UNCHANGED <<fixed, supplied, crashed>>
  BY DEF FreeBlock, Disowned
<1>2. /\ Typed /\ BlockRing /\ FreeRing /\ FreeReachable /\ Geometry
      /\ TypeOK /\ NeverCrashes /\ RoomEnough /\ p \in nodes /\ p \in Addr
  BY InvTyped DEF Inv, HeapInv, TypeOK
<1>3. /\ n \in nodes \cup {NULL} /\ l \in nodes \cup {NULL}
      /\ n # p /\ next[l] = p /\ prev[n] = p
  BY <1>2, BlockFacts
<1>4. Joinable(n) => n \in Free /\ n \in nodes /\ n \notin fixed /\ n # NULL
  BY <1>3 DEF Joinable, Free
<1>5. JoinsPrev(p) => l \in Free /\ l \in nodes /\ p \notin fixed /\ l # NULL /\ l # p /\ l # n
  <2> SUFFICES ASSUME JoinsPrev(p)
               PROVE  l \in Free /\ l \in nodes /\ p \notin fixed /\ l # NULL /\ l # p /\ l # n
    OBVIOUS
  <2>1. l \in nodes /\ l \in Free /\ p \notin fixed /\ l # NULL
    BY <1>3 DEF JoinsPrev, Free
  <2>2. p > l /\ (n # NULL => n > p) /\ l \in Nat /\ p \in Nat /\ n \in Nat
    <3>1. nodes \subseteq Nat /\ NULL \in Nat
      BY <1>2 DEF Typed, Addr, NULL
    <3>2. next[l] > l /\ (next[p] # NULL => next[p] > p)
      <4>1. p # NULL
        BY <1>2 DEF Addr, NULL
      <4>2. \A a \in nodes : next[a] # NULL => next[a] > a
        BY <1>2 DEF Geometry, Ordered
      <4>. QED
        BY <1>2, <1>3, <2>1, <4>1, <4>2
    <3>. QED
      BY <1>2, <1>3, <2>1, <3>1, <3>2
  <2>. QED
    BY <2>1, <2>2 DEF NULL
<1>6. /\ Free \in SUBSET Addr /\ nextf \in [Ptr -> Ptr] /\ prevf \in [Ptr -> Ptr]
      /\ p \in Addr \ Free
  BY <1>2 DEF Free, TypeOK
<1> DEFINE Goal == /\ Typed' /\ BlockRing' /\ Geometry' /\ nodes' \subseteq nodes
                   /\ FreeRing' /\ FreeReachable'
                   /\ nextf' \in [Ptr -> Ptr] /\ prevf' \in [Ptr -> Ptr]
                   /\ \A a \in allocated' : a \in nodes' /\ size'[a] = size[a]
<1>7. ASSUME JoinsPrev(p) /\ Joinable(n) /\ JoinBoth(l, p, n) PROVE Goal
  <2>1. UnlinkFree(n) /\ RemoveTwo(p, n)
        /\ size' = [size EXCEPT ![l] = size[l] + size[p] + size[n], ![p] = 0, ![n] = 0]
    BY <1>7 DEF JoinBoth
  <2>2. Typed' /\ BlockRing' /\ Geometry'
    BY <1>1, <1>2, <1>3, <1>4, <1>5, <1>7, <2>1, JoinTwoStep
  <2>3. Free' = Free \ {n}
    BY <1>1, <1>4, <1>7, <2>1 DEF RemoveTwo, Free
  <2>4. FreeRing' /\ FreeReachable' /\ nextf' \in [Ptr -> Ptr] /\ prevf' \in [Ptr -> Ptr]
    BY <1>2, <1>4, <1>6, <1>7, <2>1, <2>3, UnlinkedRing, UnlinkedReach
    DEF UnlinkFree, FreeRing, FreeReachable
  <2>5. \A a \in allocated' : a \in nodes' /\ size'[a] = size[a]
    BY <1>1, <1>2, <1>4, <1>5, <1>7, <2>1 DEF RemoveTwo, Free, TypeOK
  <2>. QED
    BY <2>1, <2>2, <2>4, <2>5 DEF RemoveTwo
<1>8. ASSUME JoinsPrev(p) /\ ~Joinable(n) /\ JoinPrev(l, p) PROVE Goal
  <2>1. RemoveBlock(p) /\ size' = [size EXCEPT ![l] = size[l] + size[p], ![p] = 0]
        /\ UNCHANGED <<nextf, prevf>>
    BY <1>8 DEF JoinPrev
  <2>2. Typed' /\ BlockRing' /\ Geometry'
    BY <1>1, <1>2, <1>3, <1>5, <1>8, <2>1, JoinStep
  <2>3. Free' = Free
    BY <1>1, <1>2, <2>1 DEF RemoveBlock, Free
  <2>4. FreeRing' /\ FreeReachable'
    BY <1>2, <2>1, <2>3 DEF FreeRing, FreeReachable
  <2>5. \A a \in allocated' : a \in nodes' /\ size'[a] = size[a]
    BY <1>1, <1>2, <1>5, <1>8, <2>1 DEF RemoveBlock, Free, TypeOK
  <2>. QED
    BY <1>6, <2>1, <2>2, <2>4, <2>5 DEF RemoveBlock
<1>9. ASSUME ~JoinsPrev(p) /\ Joinable(n) /\ JoinNext(p, n) PROVE Goal
  <2>1. ReplaceFree(n, p) /\ RemoveBlock(n)
        /\ size' = [size EXCEPT ![p] = size[p] + size[n], ![n] = 0]
    BY <1>9 DEF JoinNext
  <2>2. Typed' /\ BlockRing' /\ Geometry'
    BY <1>1, <1>2, <1>3, <1>4, <1>9, <2>1, JoinStep
  <2>3. Free' = (Free \ {n}) \cup {p}
    BY <1>1, <1>2, <1>3, <1>4, <1>9, <2>1 DEF RemoveBlock, Free
  <2>4. FreeRing' /\ FreeReachable' /\ nextf' \in [Ptr -> Ptr] /\ prevf' \in [Ptr -> Ptr]
    <3>1. n \in Free /\ nextf[n] # n
      BY <1>2, <1>4, <1>6, <1>9, NoSelfLoop DEF FreeRing, FreeReachable
    <3>. QED
      BY <1>2, <1>6, <2>1, <2>3, <3>1, ReplacedRing, ReplacedReach
      DEF ReplaceFree, FreeRing, FreeReachable
  <2>5. \A a \in allocated' : a \in nodes' /\ size'[a] = size[a]
    BY <1>1, <1>2, <1>4, <1>9, <2>1 DEF RemoveBlock, Free, TypeOK
  <2>. QED
    BY <2>1, <2>2, <2>4, <2>5 DEF RemoveBlock
<1>10. ASSUME ~JoinsPrev(p) /\ ~Joinable(n) /\ JoinNone(p) PROVE Goal
  <2>1. PushFree(p) /\ UNCHANGED <<nodes, next, prev, size>>
    BY <1>10 DEF JoinNone
  <2>2. Typed' /\ BlockRing' /\ Geometry'
    BY <1>1, <1>2, <2>1
    DEF Typed, BlockRing, Geometry, Ordered, Disjoint, Adjacent, Housed, Heads, Sized
  <2>3. Free' = Free \cup {p}
    BY <1>1, <1>2, <2>1 DEF Free
  <2>4. FreeRing' /\ FreeReachable' /\ nextf' \in [Ptr -> Ptr] /\ prevf' \in [Ptr -> Ptr]
    BY <1>2, <1>6, <2>1, <2>3, InsertedRing, InsertedReach
    DEF PushFree, FreeRing, FreeReachable
  <2>5. \A a \in allocated' : a \in nodes' /\ size'[a] = size[a]
    BY <1>1, <1>2, <2>1 DEF TypeOK
  <2>. QED
    BY <2>1, <2>2, <2>4, <2>5
<1>11. Goal
  BY <1>7, <1>8, <1>9, <1>10 DEF FreeBlock
<1> HIDE DEF Goal
<1>12. TypeOK'
  BY <1>1, <1>2, <1>11 DEF TypeOK, Typed, Goal
<1>13. RoomEnough'
  BY <1>1, <1>2, <1>11 DEF RoomEnough, TypeOK, Goal
<1>. QED
  BY <1>1, <1>2, <1>11, <1>12, <1>13 DEF Inv, HeapInv, Lists, NeverCrashes, Goal

(* What memmgrRealloc does, once size_t's wrapping is argued away: the     *)
(* next block is swallowed, the boundary to it moves, the end is cut off,  *)
(* or nothing in the heap changes.                                         *)
LEMMA ReallocCases ==
  ASSUME Inv, NEW p \in allocated, NEW bytes \in Requests, Realloc(p, bytes),
         NEW n, n = Rounded(bytes), NEW z, z = next[p]
  PROVE  /\ ~ Overflows(bytes)
         /\ \/ Joinable(z) /\ Swallow(p, z) /\ size[p] + size[z] >= n
            \/ /\ Joinable(z) /\ MoveBoundary(p, z, n)
               /\ size[p] < n \/ n + Gran <= size[p]
               /\ p + n + Gran <= z + size[z]
            \/ ~ Joinable(z) /\ CutOff(p, n) /\ n + Gran <= size[p]
            \/ UNCHANGED <<chains, size>> /\ size[p] >= n
         /\ req' = [req EXCEPT ![p] = bytes] /\ refused' = -1
         /\ UNCHANGED <<fixed, allocated, id, owner, supplied, walk, crashed>>
<1> DEFINE grows == size[p] < n
           shrinks == ~grows /\ (n + Gran) % WordLimit <= size[p]
<1>1. /\ ~ Overflows(bytes) /\ (grows => Joinable(z) /\ size[z] + size[p] >= n)
  BY DEF Realloc
<1>2. /\ bytes \in Nat /\ n \in Nat /\ HeaderSize \in Nat \ {0} /\ n >= bytes + HeaderSize
      /\ Gran = 2 * HeaderSize /\ WordLimit \in Nat /\ LastAddr \in Nat
      /\ LastAddr + 2 * Gran < WordLimit
  BY <1>1, TypedRequests
<1>3. /\ Typed /\ BlockRing /\ FreeRing /\ FreeReachable /\ Geometry
      /\ p \in nodes /\ p \in Addr
  BY InvTyped DEF Inv, HeapInv, TypeOK
<1>4. /\ z \in nodes \cup {NULL} /\ z # p
      /\ (Joinable(z) => z \in Free /\ z \in nodes /\ z \notin fixed /\ z = p + size[p])
  BY <1>3, BlockFacts DEF Joinable, Free
<1>5. /\ p \in Nat /\ size[p] \in Nat /\ p + size[p] <= LastAddr + 1
      /\ \A a \in nodes : a \in Nat /\ size[a] \in Nat /\ size[a] >= HeaderSize /\ a + size[a] <= LastAddr + 1
  BY <1>3, BlockBounds
<1>6. /\ (Joinable(z) => size[p] + size[z] <= LastAddr)
      /\ size[p] <= LastAddr
      /\ n <= LastAddr => (n + Gran) % WordLimit = n + Gran
  <2>1. ASSUME Joinable(z) PROVE size[p] + size[z] <= LastAddr
    <3>1. z \in nodes /\ z = p + size[p]
      BY <1>4, <2>1
    <3>2. z \in Nat /\ size[z] \in Nat /\ z + size[z] <= LastAddr + 1
      BY <1>5, <3>1
    <3>3. p >= 1
      BY <1>3 DEF Addr
    <3>. QED
      BY <1>2, <1>5, <3>1, <3>2, <3>3
  <2>2. ASSUME n <= LastAddr PROVE (n + Gran) % WordLimit = n + Gran
    <3>1. n + Gran \in 0 .. 2 * WordLimit - 1 /\ n + Gran < WordLimit
      BY <1>2, <2>2
    <3>2. PICK x \in 0 .. 2 * WordLimit - 1 : x = n + Gran
      BY <3>1
    <3>3. WordLimit \in Nat \ {0}
      BY <1>2
    <3>4. x % WordLimit = x
      BY <3>1, <3>2, <3>3, WrapsOnce
    <3>. QED
      BY <3>2, <3>4
  <2>3. p >= 1
    BY <1>3 DEF Addr
  <2>4. size[p] <= LastAddr
    BY <1>2, <1>5, <2>3
  <2>. QED
    BY <2>1, <2>2, <2>4
<1>7. /\ ~ (grows \/ (shrinks /\ Joinable(z))) \/ ~ HeadIsWrong(z)
  BY <1>1, <1>4, HeadIsRight
<1>8. /\ \/ grows /\ Grow(p, n)
         \/ shrinks /\ Shrink(p, n)
         \/ ~grows /\ ~shrinks /\ UNCHANGED <<chains, size>>
      /\ req' = [req EXCEPT ![p] = bytes] /\ refused' = -1
      /\ UNCHANGED <<fixed, allocated, id, owner, supplied, walk, crashed>>
  BY <1>7 DEF Realloc
<1>9. ASSUME grows
      PROVE  /\ Joinable(z) /\ size[p] + size[z] >= n /\ z \in nodes /\ z = p + size[p]
             /\ IF size[p] + size[z] < n + Gran THEN Swallow(p, z) ELSE MoveBoundary(p, z, n)
  <2>1. Joinable(z) /\ size[p] + size[z] >= n /\ z \in nodes /\ z = p + size[p]
    BY <1>1, <1>4, <1>5, <1>9
  <2>2. (n + Gran) % WordLimit = n + Gran
    BY <1>2, <1>5, <1>6, <2>1
  <2>3. Grow(p, n)
    BY <1>8, <1>9
  <2>. QED
    BY <2>1, <2>2, <2>3 DEF Grow
<1>10. ASSUME grows, ~ (size[p] + size[z] < n + Gran) PROVE p + n + Gran <= z + size[z]
  BY <1>2, <1>5, <1>9, <1>10
<1>11. shrinks => n + Gran <= size[p] /\ Shrink(p, n)
  BY <1>2, <1>5, <1>6, <1>8
<1>12. ASSUME shrinks, Joinable(z) PROVE p + n + Gran <= z + size[z]
  BY <1>2, <1>4, <1>5, <1>11, <1>12
<1>13. size[p] >= n \/ grows
  BY <1>2, <1>5
<1>14. CASE grows
  BY <1>1, <1>8, <1>9, <1>10, <1>14
<1>15. CASE shrinks
  BY <1>1, <1>8, <1>11, <1>12, <1>15 DEF Shrink
<1>16. CASE ~grows /\ ~shrinks
  BY <1>1, <1>8, <1>13, <1>16
<1>. QED
  BY <1>14, <1>15, <1>16

LEMMA ReallocInv ==
  ASSUME Inv, NEW p \in allocated, NEW bytes \in Requests, Realloc(p, bytes)
  PROVE  Inv'
<1> DEFINE n == Rounded(bytes)
           z == next[p]
           q == p + n
<1>1. /\ ~ Overflows(bytes)
      /\ \/ Joinable(z) /\ Swallow(p, z) /\ size[p] + size[z] >= n
         \/ /\ Joinable(z) /\ MoveBoundary(p, z, n)
            /\ size[p] < n \/ n + Gran <= size[p]
            /\ p + n + Gran <= z + size[z]
         \/ ~ Joinable(z) /\ CutOff(p, n) /\ n + Gran <= size[p]
         \/ UNCHANGED <<chains, size>> /\ size[p] >= n
      /\ req' = [req EXCEPT ![p] = bytes] /\ refused' = -1
      /\ UNCHANGED <<fixed, allocated, id, owner, supplied, walk, crashed>>
  BY ReallocCases
<1>2. /\ bytes \in Nat /\ n \in Nat /\ HeaderSize \in Nat \ {0} /\ n >= bytes + HeaderSize
      /\ Gran = 2 * HeaderSize
  BY <1>1, TypedRequests
<1>3. /\ Typed /\ BlockRing /\ FreeRing /\ FreeReachable /\ Geometry
      /\ TypeOK /\ NeverCrashes /\ RoomEnough /\ p \in nodes /\ p \in Addr
  BY InvTyped DEF Inv, HeapInv, TypeOK
<1>4. /\ z \in nodes \cup {NULL} /\ z # p
      /\ (Joinable(z) => z \in Free /\ z \in nodes /\ z \notin fixed /\ z = p + size[p])
  BY <1>3, BlockFacts DEF Joinable, Free
<1>5. /\ p \in Nat /\ size[p] \in Nat /\ p + size[p] <= LastAddr + 1
      /\ \A a \in nodes : a \in Nat /\ size[a] \in Nat /\ size[a] >= HeaderSize /\ a + size[a] <= LastAddr + 1
  BY <1>3, BlockBounds
<1> HIDE DEF n
<1>6. /\ Free \in SUBSET Addr /\ nextf \in [Ptr -> Ptr] /\ prevf \in [Ptr -> Ptr]
  BY <1>3 DEF Free, TypeOK
<1> DEFINE Goal == /\ Typed' /\ BlockRing' /\ Geometry' /\ allocated \subseteq nodes'
                   /\ FreeRing' /\ FreeReachable'
                   /\ nextf' \in [Ptr -> Ptr] /\ prevf' \in [Ptr -> Ptr]
                   /\ \A a \in allocated : a # p => size'[a] = size[a]
                   /\ size'[p] >= n
<1>7. ASSUME Joinable(z), Swallow(p, z), size[p] + size[z] >= n PROVE Goal
  <2>1. UnlinkFree(z) /\ RemoveBlock(z)
        /\ size' = [size EXCEPT ![p] = size[p] + size[z], ![z] = 0]
    BY <1>7 DEF Swallow
  <2>2. Typed' /\ BlockRing' /\ Geometry'
    BY <1>3, <1>4, <1>1, <1>7, <2>1, JoinStep
  <2>3. Free' = Free \ {z}
    BY <1>4, <1>1, <1>7, <2>1 DEF RemoveBlock, Free
  <2>4. FreeRing' /\ FreeReachable' /\ nextf' \in [Ptr -> Ptr] /\ prevf' \in [Ptr -> Ptr]
    BY <1>3, <1>4, <1>6, <1>7, <2>1, <2>3, UnlinkedRing, UnlinkedReach
    DEF UnlinkFree, FreeRing, FreeReachable
  <2>5. /\ allocated \subseteq nodes' /\ size'[p] >= n
        /\ \A a \in allocated : a # p => size'[a] = size[a]
    BY <1>3, <1>4, <1>7, <2>1 DEF RemoveBlock, Free, TypeOK
  <2>. QED
    BY <2>2, <2>4, <2>5
<1>8. ASSUME Joinable(z), MoveBoundary(p, z, n), q # z,
              q >= p + HeaderSize, q + HeaderSize <= z + size[z]
       PROVE  Goal
  <2>1. /\ ReplaceFree(z, q) /\ ReplaceBlock(z, q)
        /\ size' = [a \in Addr |-> CASE a = p -> n
                                 [] a = q -> size[p] + size[z] - n
                                 [] a = z -> 0
                                 [] OTHER -> size[a]]
    BY <1>8 DEF MoveBoundary
  <2>2. q \in Nat /\ q - p = n /\ z + size[z] - q = size[p] + size[z] - n
    BY <1>2, <1>4, <1>5, <1>8
  <2> HIDE DEF q
  <2>3. /\ DOMAIN size' = Addr /\ size' \in [Addr -> Int]
        /\ \A a \in Addr : size'[a] = IF a = p THEN q - p
                                   ELSE IF a = q THEN z + size[z] - q
                                   ELSE IF a = z THEN 0 ELSE size[a]
    BY <1>2, <1>3, <1>4, <1>5, <1>8, <2>1, <2>2 DEF TypeOK
  <2>4. Typed' /\ BlockRing' /\ Geometry' /\ q \in Addr \ nodes
    BY <1>3, <1>4, <1>1, <1>8, <2>1, <2>2, <2>3, MoveStep
  <2>5. Free' = (Free \ {z}) \cup {q}
    BY <1>3, <1>4, <1>1, <1>8, <2>1, <2>4 DEF ReplaceBlock, Free, TypeOK
  <2>6. FreeRing' /\ FreeReachable' /\ nextf' \in [Ptr -> Ptr] /\ prevf' \in [Ptr -> Ptr]
    <3>1. z \in Free /\ nextf[z] # z /\ q \in Addr \ Free
      BY <1>3, <1>4, <1>6, <1>8, <2>4, NoSelfLoop DEF FreeRing, FreeReachable, Free
    <3>. QED
      BY <1>3, <1>6, <2>1, <2>5, <3>1, ReplacedRing, ReplacedReach
      DEF ReplaceFree, FreeRing, FreeReachable
  <2>7. /\ allocated \subseteq nodes' /\ size'[p] >= n
        /\ \A a \in allocated : a # p => size'[a] = size[a]
    BY <1>2, <1>3, <1>4, <1>8, <2>1, <2>2, <2>3, <2>4 DEF ReplaceBlock, Free, TypeOK
  <2>. QED
    BY <2>4, <2>6, <2>7
<1>9. ASSUME CutOff(p, n), n + Gran <= size[p] PROVE Goal
  <2>1. /\ PushFree(q) /\ InsertBlock(p, q)
        /\ size' = [size EXCEPT ![p] = n, ![q] = size[p] - n]
    BY <1>9 DEF CutOff
  <2>2. /\ q \in Nat /\ q >= p + HeaderSize /\ q + HeaderSize <= p + size[p]
        /\ q - p = n /\ p + size[p] - q = size[p] - n
    BY <1>2, <1>5, <1>9
  <2> HIDE DEF q
  <2>3. Typed' /\ BlockRing' /\ Geometry' /\ q \in Addr \ nodes
    BY <1>3, <1>1, <2>1, <2>2, CutStep
  <2>4. Free' = Free \cup {q}
    BY <1>3, <1>1, <2>1, <2>3 DEF InsertBlock, Free, TypeOK
  <2>5. FreeRing' /\ FreeReachable' /\ nextf' \in [Ptr -> Ptr] /\ prevf' \in [Ptr -> Ptr]
    <3>1. q \in Addr \ Free
      BY <2>3 DEF Free
    <3>. QED
      BY <1>3, <1>6, <2>1, <2>4, <3>1, InsertedRing, InsertedReach
      DEF PushFree, FreeRing, FreeReachable
  <2>6. /\ allocated \subseteq nodes' /\ size'[p] >= n
        /\ \A a \in allocated : a # p => size'[a] = size[a]
    BY <1>2, <1>3, <2>1, <2>3 DEF InsertBlock, TypeOK
  <2>. QED
    BY <2>3, <2>5, <2>6
<1>10. ASSUME UNCHANGED <<chains, size>>, size[p] >= n PROVE Goal
  BY <1>3, <1>1, <1>10
  DEF chains, TypeOK, Typed, BlockRing, Geometry, Ordered, Disjoint, Adjacent, Housed, Heads,
      Sized, FreeRing, FreeReachable, Free
<1> HIDE DEF Goal
<1>11. ASSUME Joinable(z), MoveBoundary(p, z, n), size[p] < n \/ n + Gran <= size[p],
              p + n + Gran <= z + size[z]
       PROVE  Goal
  <2>1. q # z /\ q >= p + HeaderSize /\ q + HeaderSize <= z + size[z]
    BY <1>2, <1>4, <1>5, <1>11
  <2>. QED
    BY <1>8, <1>11, <2>1
<1>12. Goal
  BY <1>1, <1>7, <1>9, <1>10, <1>11
<1>13. TypeOK'
  BY <1>3, <1>1, <1>12 DEF TypeOK, Typed, Goal
<1>14. RoomEnough'
  <2>1. \A a \in allocated : a \in Addr /\ req[a] + HeaderSize <= size[a]
    BY <1>3 DEF RoomEnough, TypeOK
  <2>2. size'[p] \in Nat /\ size'[p] >= n
    BY <1>3, <1>12 DEF Goal, Typed
  <2>. QED
    BY <1>2, <1>3, <1>1, <1>12, <2>1, <2>2 DEF RoomEnough, TypeOK, Goal
<1>. QED
  BY <1>3, <1>1, <1>12, <1>13, <1>14 DEF Inv, HeapInv, Lists, NeverCrashes, Goal

(***************************************************************************)
(* Every operation keeps the invariant.                                    *)
(***************************************************************************)
LEMMA InitInv == Init => Inv
<1> SUFFICES ASSUME Init PROVE Inv
  OBVIOUS
<1>1. Free = {} /\ nodes = {} /\ NULL \in Ptr /\ LastAddr \in Nat
  BY GeometryAssumption DEF Init, Free, Ptr
<1>2. TypeOK
  <2>1. /\ 0 \in 0 .. LastAddr /\ 0 \in Ids \cup {0} /\ 0 \in Owners \cup {0}
        /\ 0 \in Requests \cup {0}
    BY <1>1
  <2>2. /\ size \in [Addr -> 0 .. LastAddr] /\ id \in [Addr -> Ids \cup {0}]
        /\ owner \in [Addr -> Owners \cup {0}] /\ req \in [Addr -> Requests \cup {0}]
    BY <2>1 DEF Init
  <2>3. /\ next \in [Ptr -> Ptr] /\ prev \in [Ptr -> Ptr]
        /\ nextf \in [Ptr -> Ptr] /\ prevf \in [Ptr -> Ptr]
    BY <1>1 DEF Init
  <2>4. walk \in [id : Ids \cup {-1}, p : Ptr, l : Ptr]
    BY <1>1 DEF Init, NoWalk
  <2>. QED
    BY <2>2, <2>3, <2>4 DEF Init, TypeOK
<1>3. BlockRing /\ FreeRing /\ FreeReachable
  BY <1>1 DEF Init, BlockRing, FreeRing, FreeReachable, Ring, Reach
<1>4. Geometry
  <2>1. Ordered
    BY <1>1 DEF Init, Ordered, NULL
  <2>. QED
    BY <1>1, <2>1 DEF Init, Geometry, Disjoint, Adjacent, Housed, Heads, Sized
<1>. QED
  BY <1>1, <1>2, <1>3, <1>4 DEF Init, Inv, HeapInv, Lists, NeverCrashes, RoomEnough

(* Nothing of the heap changes but memmgrFreeId's pointers and the answer  *)
(* to the last request.                                                    *)
LEMMA IdleInv ==
  ASSUME Inv, UNCHANGED <<chains, fields, supplied, crashed>>,
         refused' \in Requests \cup {-1}, walk' \in [id : Ids \cup {-1}, p : Ptr, l : Ptr]
  PROVE  Inv'
<1>1. UNCHANGED <<nodes, next, prev, nextf, prevf, size, fixed, allocated, id, owner, req,
                  supplied, crashed>>
  BY DEF chains, fields
<1>2. TypeOK /\ Lists /\ Geometry /\ NeverCrashes /\ RoomEnough
  BY DEF Inv, HeapInv
<1>3. TypeOK'
  BY <1>1, <1>2 DEF TypeOK
<1>4. Lists'
  BY <1>1, <1>2 DEF Lists, BlockRing, FreeRing, FreeReachable, Free
<1>5. Geometry'
  BY <1>1, <1>2 DEF Geometry, Ordered, Disjoint, Adjacent, Housed, Heads, Sized
<1>6. NeverCrashes' /\ RoomEnough'
  BY <1>1, <1>2 DEF NeverCrashes, RoomEnough
<1>. QED
  BY <1>3, <1>4, <1>5, <1>6 DEF Inv, HeapInv

LEMMA AllocateInv ==
  ASSUME Inv, NEW bytes \in Requests, NEW i \in Ids, Allocate(bytes, i)
  PROVE  Inv'
<1>1. ~ Overflows(bytes)
  BY DEF Allocate
<1>2. Rounded(bytes) \in Nat
  BY <1>1, TypedRequests
<1>3. PICK p \in nodes :
        /\ FirstFit(p, Rounded(bytes))
        /\ IF p \in allocated \/ HeadIsWrong(p)
           THEN Crash
           ELSE AllocateSplit(p, bytes, i) \/ AllocateWhole(p, bytes, i)
  BY DEF Allocate
<1>4. p \in Free /\ size[p] >= Rounded(bytes)
  BY <1>2, <1>3, FirstFitFree
<1>5. ~ (p \in allocated \/ HeadIsWrong(p))
  BY <1>4, HeadIsRight DEF Free
<1>6. CASE AllocateSplit(p, bytes, i)
  BY <1>1, <1>4, <1>6, AllocateSplitInv
<1>7. CASE AllocateWhole(p, bytes, i)
  BY <1>1, <1>4, <1>7, AllocateWholeInv
<1>. QED
  BY <1>3, <1>5, <1>6, <1>7

(* The block behind a block is free and at its place on the free list when *)
(* memmgrFree goes to join it.                                             *)
LEMMA NextIsRight ==
  ASSUME Inv, NEW p \in allocated
  PROVE  ~ (Joinable(next[p]) /\ HeadIsWrong(next[p]))
<1>1. p \in nodes /\ next[p] \in nodes \cup {NULL}
  BY InvTyped DEF Inv, HeapInv, TypeOK, BlockRing, Ring
<1>2. Joinable(next[p]) => next[p] \in Free
  BY <1>1 DEF Joinable, Free
<1>. QED
  BY <1>2, HeadIsRight

LEMMA UnlinkedTyped ==
  ASSUME NEW f \in [Ptr -> Ptr], NEW g \in [Ptr -> Ptr], NEW q \in Ptr
  PROVE  Unlinked(f, g, q) \in [Ptr -> Ptr]
<1>1. NULL \in Ptr /\ g[q] \in Ptr /\ f[q] \in Ptr
  BY DEF Ptr
<1>. QED
  BY <1>1 DEF Unlinked

LEMMA FreeIdStepInv ==
  ASSUME Inv, FreeIdStep
  PROVE  Inv'
<1>1. /\ walk \in [id : Ids \cup {-1}, p : Ptr, l : Ptr] /\ walk.p # NULL
      /\ next \in [Ptr -> Ptr] /\ refused \in Requests \cup {-1}
  BY DEF Inv, HeapInv, TypeOK, FreeIdStep
<1>2. CASE walk.p \in allocated /\ id[walk.p] = walk.id
  <2>1. FreeBlock(walk.p) /\ refused' = refused
        /\ walk' = [walk EXCEPT !.l = Resume, !.p = next'[Resume]]
    BY <1>2, NextIsRight DEF FreeIdStep
  <2>2. Resume \in Ptr /\ NULL \notin Addr
    BY <1>1 DEF Resume, Addr, NULL
  <2>3. next' \in [Ptr -> Ptr]
    <3>1. /\ next \in [Ptr -> Ptr] /\ prev \in [Ptr -> Ptr] /\ walk.p \in Ptr
          /\ next[walk.p] \in Ptr
      BY <1>1 DEF Inv, HeapInv, TypeOK
    <3>2. \/ next' = next
          \/ \E q \in Ptr : next' = Unlinked(next, prev, q)
          \/ \E p, q \in Ptr :
               next' = Unlinked(Unlinked(next, prev, p), Unlinked(prev, next, p), q)
      BY <2>1, <3>1
      DEF FreeBlock, JoinBoth, JoinPrev, JoinNext, JoinNone, RemoveBlock, RemoveTwo
    <3>3. CASE \E q \in Ptr : next' = Unlinked(next, prev, q)
      BY <3>1, <3>3, UnlinkedTyped
    <3>4. ASSUME NEW p \in Ptr, NEW q \in Ptr,
                 next' = Unlinked(Unlinked(next, prev, p), Unlinked(prev, next, p), q)
          PROVE  next' \in [Ptr -> Ptr]
      <4>1. PICK f \in [Ptr -> Ptr] : f = Unlinked(next, prev, p)
        BY <3>1, UnlinkedTyped
      <4>2. PICK g \in [Ptr -> Ptr] : g = Unlinked(prev, next, p)
        BY <3>1, UnlinkedTyped
      <4>3. Unlinked(f, g, q) \in [Ptr -> Ptr]
        BY UnlinkedTyped
      <4>. QED
        BY <3>4, <4>1, <4>2, <4>3
    <3>. QED
      BY <3>1, <3>2, <3>3, <3>4
  <2>. QED
    BY <1>1, <1>2, <2>1, <2>2, <2>3, FreeBlockInv
<1>3. CASE ~ (walk.p \in allocated /\ id[walk.p] = walk.id)
  <2>1. /\ walk' = [walk EXCEPT !.l = walk.p, !.p = next[walk.p]]
        /\ UNCHANGED <<chains, fields, supplied, refused, crashed>>
    BY <1>3 DEF FreeIdStep
  <2>2. walk' \in [id : Ids \cup {-1}, p : Ptr, l : Ptr]
    BY <1>1, <2>1
  <2>. QED
    BY <1>1, <2>1, <2>2, IdleInv
<1>. QED
  BY <1>2, <1>3

LEMMA NextInv == Inv /\ [Next]_vars => Inv'
<1> SUFFICES ASSUME Inv, [Next]_vars PROVE Inv'
  OBVIOUS
<1>0. /\ refused \in Requests \cup {-1} /\ walk \in [id : Ids \cup {-1}, p : Ptr, l : Ptr]
      /\ next \in [Ptr -> Ptr] /\ NULL \in Ptr
  BY DEF Inv, HeapInv, TypeOK, Ptr
<1>1. ASSUME NEW b \in Buffers, Supply(b) PROVE Inv'
  BY <1>1, SupplyInv
<1>2. ASSUME NEW bytes \in Requests, AllocateNull(bytes) PROVE Inv'
  BY <1>0, <1>2, IdleInv DEF AllocateNull
<1>3. ASSUME NEW bytes \in Requests, NEW i \in Ids, Allocate(bytes, i) PROVE Inv'
  BY <1>3, AllocateInv
<1>4. ASSUME NEW p \in allocated, MemFree(p) PROVE Inv'
  <2>1. FreeBlock(p) /\ refused' = -1 /\ walk' = walk
    BY <1>4, NextIsRight DEF MemFree
  <2>. QED
    BY <1>0, <2>1, FreeBlockInv
<1>5. ASSUME NEW i \in Ids, FreeIdCall(i) PROVE Inv'
  BY <1>0, <1>5, IdleInv DEF FreeIdCall
<1>6. ASSUME FreeIdStep PROVE Inv'
  BY <1>6, FreeIdStepInv
<1>7. ASSUME FreeIdReturn PROVE Inv'
  BY <1>0, <1>7, IdleInv DEF FreeIdReturn, NoWalk
<1>8. ASSUME NEW p \in allocated, NEW bytes \in Requests, Realloc(p, bytes) PROVE Inv'
  BY <1>8, ReallocInv
<1>9. ASSUME NEW p \in allocated, NEW o \in Owners, SetOwner(p, o) PROVE Inv'
  <2>1. /\ UNCHANGED <<nodes, next, prev, nextf, prevf, size, fixed, allocated, id, req,
                       supplied, walk, crashed>>
        /\ owner' = [owner EXCEPT ![p] = o] /\ refused' = -1
    BY <1>9 DEF SetOwner, chains
  <2>2. TypeOK /\ Lists /\ Geometry /\ NeverCrashes /\ RoomEnough
    BY DEF Inv, HeapInv
  <2>3. TypeOK'
    BY <2>1, <2>2 DEF TypeOK
  <2>4. Lists'
    BY <2>1, <2>2 DEF Lists, BlockRing, FreeRing, FreeReachable, Free
  <2>5. Geometry'
    BY <2>1, <2>2 DEF Geometry, Ordered, Disjoint, Adjacent, Housed, Heads, Sized
  <2>6. NeverCrashes' /\ RoomEnough'
    BY <2>1, <2>2 DEF NeverCrashes, RoomEnough
  <2>. QED
    BY <2>3, <2>4, <2>5, <2>6 DEF Inv, HeapInv
<1>10. CASE UNCHANGED vars
  BY <1>0, <1>10, IdleInv DEF vars
<1>. QED
  BY <1>1, <1>2, <1>3, <1>4, <1>5, <1>6, <1>7, <1>8, <1>9, <1>10 DEF Next

LEMMA SpecInv == Spec => []Inv
BY InitInv, NextInv, PTL DEF Spec

(***************************************************************************)
(* What the callers of the memory manager rely on.                         *)
(***************************************************************************)

(* The heap stays sound: fields, lists and geometry.                       *)
THEOREM HeapSound == Spec => []HeapInv
<1>1. Inv => HeapInv
  BY DEF Inv
<1>. QED
  BY <1>1, SpecInv, PTL

(* Every control block's fields stay in range: no link points outside      *)
(* memory and no size wraps.                                               *)
THEOREM HeapTyped == Spec => []TypeOK
<1>1. Inv => TypeOK
  BY DEF Inv, HeapInv
<1>. QED
  BY <1>1, SpecInv, PTL

(* The stops in memmgr.c for a corrupt free list are unreachable.          *)
THEOREM HeapNeverCrashes == Spec => []NeverCrashes
<1>1. Inv => NeverCrashes
  BY DEF Inv
<1>. QED
  BY <1>1, SpecInv, PTL

(* What memmgrIntegrity checks holds after any calls: both lists agree in  *)
(* both directions, and no free block is out of reach of memmgr->startf.   *)
THEOREM HeapLists == Spec => []Lists
<1>1. Inv => Lists
  BY DEF Inv, HeapInv
<1>. QED
  BY <1>1, SpecInv, PTL

(* The list of all blocks is in address order, no two blocks overlap, none *)
(* reaches out of its buffer, and each touches the next one in its buffer: *)
(* no two callers are given the same memory.                               *)
THEOREM HeapGeometry == Spec => []Geometry
<1>1. Inv => Geometry
  BY DEF Inv, HeapInv
<1>. QED
  BY <1>1, SpecInv, PTL

(* Every allocated block has the room its owner was promised, whatever     *)
(* size was asked for, size_t's wrap included.                             *)
THEOREM HeapRoomEnough == Spec => []RoomEnough
<1>1. Inv => RoomEnough
  BY DEF Inv
<1>. QED
  BY <1>1, SpecInv, PTL

-----------------------------------------------------------------------------
(***************************************************************************)
(* What memmgr.c's callers see of its calls, proved from Inv: a request is *)
(* refused only if no free block can hold it, the pointers memmgrFreeId    *)
(* keeps survive what it frees, a call disturbs no other caller's block,   *)
(* and no byte of memory is lost.                                          *)
(***************************************************************************)

(***************************************************************************)
(* Refusals.                                                               *)
(***************************************************************************)
(* If the walk along the free list stops nowhere, no free block is large   *)
(* enough: the walk has met them all.                                      *)
LEMMA NoFitNoRoom ==
  ASSUME Inv, NEW n \in Nat, \A p \in nodes : ~ FirstFit(p, n)
  PROVE  \A p \in Free : size[p] < n
<1> DEFINE Walked(T) == /\ nextf[NULL] \in T \cup {NULL}
                        /\ \A q \in T : size[q] < n => nextf[q] \in T \cup {NULL}
           W == {p \in nodes : \A T \in SUBSET nodes : Walked(T) => p \in T}
<1>1. /\ Free \in SUBSET nodes /\ Reach(nextf, Free)
      /\ nextf[NULL] \in Free \cup {NULL}
      /\ \A q \in Free : nextf[q] \in Free \cup {NULL}
      /\ \A p \in nodes : size[p] \in Nat
  BY InvTyped, BlockBounds DEF Free, FreeRing, FreeReachable, Ring
<1>2. \A p \in W : size[p] < n
  <2> SUFFICES ASSUME NEW p \in W, ~ (size[p] < n) PROVE FALSE
    OBVIOUS
  <2>1. p \in nodes /\ size[p] >= n
    BY <1>1
  <2>2. FirstFit(p, n)
    BY <2>1 DEF FirstFit
  <2>. QED
    BY <2>1, <2>2
<1>3. Walked(Free)
  BY <1>1
<1>4. W \in SUBSET Free
  BY <1>1, <1>3
<1>5. nextf[NULL] \in W \cup {NULL}
  BY <1>1
<1>6. ASSUME NEW q \in W PROVE nextf[q] \in W \cup {NULL}
  <2>1. nextf[q] \in nodes \cup {NULL}
    BY <1>1, <1>4
  <2>2. \A T \in SUBSET nodes : Walked(T) => nextf[q] \in T \cup {NULL}
    BY <1>2
  <2>. QED
    BY <2>1, <2>2
<1>7. W = Free
  <2> HIDE DEF W
  <2>. QED
    BY <1>1, <1>4, <1>5, <1>6 DEF Reach
<1>. QED
  BY <1>2, <1>7

(* A refusal that is remembered is still true: while it is, the heap has   *)
(* not changed, and memmgrFreeId begins by forgetting it.                  *)
Remembered == walk # NoWalk => refused = -1

LEMMA RefusalStep ==
  ASSUME Inv, Remembered, RefusedHonestly, [Next]_vars
  PROVE  Remembered' /\ RefusedHonestly'
<1>1. ASSUME refused' = -1 PROVE Remembered' /\ RefusedHonestly'
  BY <1>1 DEF Remembered, RefusedHonestly
<1>2. ASSUME UNCHANGED <<nodes, size, allocated, refused>>, walk' # NoWalk => walk # NoWalk
      PROVE  Remembered' /\ RefusedHonestly'
  BY <1>2 DEF Remembered, RefusedHonestly, Free
<1>3. ASSUME NEW bytes \in Requests, AllocateNull(bytes) PROVE Remembered' /\ RefusedHonestly'
  <2>1. /\ refused' = bytes /\ walk' = NoWalk /\ UNCHANGED <<nodes, size, allocated>>
        /\ Overflows(bytes) \/ ~ \E p \in nodes : FirstFit(p, Rounded(bytes))
    BY <1>3 DEF AllocateNull, Ready, chains, fields
  <2>2. ~ Overflows(bytes) => \A p \in Free : size[p] < Rounded(bytes)
    BY <2>1, TypedRequests, NoFitNoRoom
  <2>. QED
    BY <2>1, <2>2 DEF Remembered, RefusedHonestly, Free
<1>4. ASSUME NEW bytes \in Requests, NEW i \in Ids, Allocate(bytes, i) PROVE refused' = -1
  BY <1>4 DEF Allocate, Crash, AllocateSplit, AllocateWhole, Take
<1>5. ASSUME NEW p \in allocated, MemFree(p) PROVE refused' = -1
  BY <1>5 DEF MemFree, Crash
<1>6. ASSUME FreeIdStep PROVE refused' = -1
  <2>1. walk # NoWalk
    BY <1>6 DEF FreeIdStep, NoWalk
  <2>. QED
    BY <1>6, <2>1 DEF FreeIdStep, Crash, Remembered
<1>7. CASE FreeIdReturn
  BY <1>2, <1>7 DEF FreeIdReturn, chains, fields
<1>8. ASSUME NEW p \in allocated, NEW bytes \in Requests, Realloc(p, bytes) PROVE refused' = -1
  BY <1>8 DEF Realloc, Crash
<1>9. CASE UNCHANGED vars
  BY <1>2, <1>9 DEF vars, chains, fields
<1>10. ASSUME NEW b \in Buffers, Supply(b) PROVE refused' = -1
  BY <1>10 DEF Supply
<1>11. ASSUME NEW i \in Ids, FreeIdCall(i) PROVE refused' = -1
  BY <1>11 DEF FreeIdCall
<1>12. ASSUME NEW p \in allocated, NEW o \in Owners, SetOwner(p, o) PROVE refused' = -1
  BY <1>12 DEF SetOwner
<1>. QED
  BY <1>1, <1>3, <1>4, <1>5, <1>6, <1>7, <1>8, <1>9, <1>10, <1>11, <1>12 DEF Next

(* memmgrAllocate returns NULL only when no free block can hold the        *)
(* request, wherever the free list has it.                                 *)
THEOREM HeapRefusesHonestly == Spec => []RefusedHonestly
<1>1. Init => Remembered /\ RefusedHonestly
  BY DEF Init, Remembered, RefusedHonestly
<1>. QED
  BY <1>1, SpecInv, RefusalStep, PTL DEF Spec

(***************************************************************************)
(* The pointers of memmgrFreeId.                                           *)
(***************************************************************************)
(* p is always the block behind l, with the head for the one behind none.  *)
Cursor ==
  walk # NoWalk =>
    /\ walk.l \in nodes \cup {NULL} /\ walk.p = next[walk.l]
    /\ \A q \in allocated : id[q] = walk.id => walk.p # NULL /\ walk.p <= q

(* Freeing p leaves the block before it on the list, and p itself if it is *)
(* not joined to that one.                                                 *)
LEMMA FreeLeaves ==
  ASSUME Inv, NEW p \in allocated, FreeBlock(p)
  PROVE  /\ prev[p] # NULL => prev[p] \in nodes'
         /\ prev[p] = NULL => p \in nodes'
<1>1. /\ p \in nodes /\ p \in Nat \ {0} /\ Typed /\ BlockRing /\ Geometry
      /\ prev[p] \in nodes \cup {NULL} /\ next[prev[p]] = p /\ next[p] # p /\ next[p] \in Nat
      /\ next[p] # NULL => next[p] >= p + size[p]
      /\ size[p] \in Nat /\ nodes \subseteq Nat /\ NULL = 0
  BY InvTyped, BlockFacts, BlockBounds DEF Inv, HeapInv, TypeOK, Addr, NULL
<1>2. prev[p] # NULL => prev[p] < p
  BY <1>1 DEF Geometry, Ordered
<1>3. prev[p] # NULL => prev[p] # p /\ prev[p] # next[p]
  BY <1>1, <1>2
<1>. QED
  BY <1>1, <1>3
  DEF FreeBlock, JoinBoth, JoinPrev, JoinNext, JoinNone, RemoveTwo, RemoveBlock, JoinsPrev

LEMMA CursorFreeStep ==
  ASSUME Inv, Inv', Cursor, FreeIdStep
  PROVE  Cursor'
<1>1. /\ walk # NoWalk /\ walk.p # NULL /\ walk.l \in nodes \cup {NULL} /\ walk.p = next[walk.l]
      /\ walk \in [id : Ids \cup {-1}, p : Ptr, l : Ptr]
      /\ \A q \in allocated : id[q] = walk.id => walk.p <= q
  BY DEF FreeIdStep, Cursor, NoWalk, Inv, HeapInv, TypeOK
<1>2. /\ BlockRing /\ Geometry /\ nodes \subseteq Addr /\ allocated \subseteq nodes
      /\ BlockRing' /\ Geometry' /\ nodes' \subseteq Addr /\ allocated' \subseteq nodes'
      /\ Addr \subseteq Nat /\ NULL = 0 /\ NULL \notin Addr
  BY InvTyped DEF Inv, HeapInv, TypeOK, Lists, Addr, NULL
<1>3. walk.p \in nodes /\ prev[walk.p] = walk.l
  BY <1>1, <1>2 DEF BlockRing, Ring
<1>4. CASE walk.p \in allocated /\ id[walk.p] = walk.id
  <2>1. FreeBlock(walk.p) /\ walk' = [walk EXCEPT !.l = Resume, !.p = next'[Resume]]
    BY <1>4, NextIsRight DEF FreeIdStep
  <2>2. Resume \in nodes' /\ Resume <= walk.p
    <3>1. walk.l # NULL => walk.l < walk.p
      BY <1>1, <1>2, <1>3 DEF Geometry, Ordered
    <3>. QED
      BY <1>1, <1>2, <1>3, <1>4, <2>1, <3>1, FreeLeaves DEF Resume
  <2>3. walk'.id = walk.id /\ walk'.l = Resume /\ walk'.p = next'[Resume]
    BY <1>1, <2>1
  <2>4. /\ allocated' = allocated \ {walk.p} /\ id' = [id EXCEPT ![walk.p] = 0]
        /\ id \in [Addr -> Ids \cup {0}]
    BY <2>1 DEF FreeBlock, Inv, HeapInv, TypeOK
  <2>5. ASSUME NEW q \in allocated', id'[q] = walk.id
        PROVE  next'[Resume] # NULL /\ next'[Resume] <= q
    <3>1. q \in allocated /\ q # walk.p /\ id[q] = walk.id /\ q \in nodes'
      BY <1>2, <2>4, <2>5
    <3>2. walk.p \in Nat /\ q \in Nat /\ Resume \in Nat
      BY <1>2, <1>3, <2>2, <3>1
    <3>3. walk.p <= q
      BY <1>1, <3>1
    <3>4. q > Resume
      BY <2>2, <3>1, <3>2, <3>3
    <3>. QED
      BY <1>2, <2>2, <3>1, <3>4 DEF Geometry, Ordered
  <2>. QED
    BY <2>2, <2>3, <2>5 DEF Cursor
<1>5. CASE ~ (walk.p \in allocated /\ id[walk.p] = walk.id)
  <2>1. /\ walk' = [walk EXCEPT !.l = walk.p, !.p = next[walk.p]]
        /\ UNCHANGED <<nodes, next, allocated, id>>
    BY <1>5 DEF FreeIdStep, chains, fields
  <2>2. walk'.id = walk.id /\ walk'.l = walk.p /\ walk'.p = next[walk.p]
    BY <1>1, <2>1
  <2>3. ASSUME NEW q \in allocated, id[q] = walk.id
        PROVE  next[walk.p] # NULL /\ next[walk.p] <= q
    <3>1. walk.p \in Nat /\ q \in Nat /\ q \in nodes
      BY <1>2, <1>3, <2>3
    <3>2. walk.p <= q /\ q # walk.p
      BY <1>1, <1>5, <2>3
    <3>3. q > walk.p
      BY <3>1, <3>2
    <3>. QED
      BY <1>2, <1>3, <3>1, <3>3 DEF Geometry, Ordered
  <2>. QED
    BY <1>3, <2>1, <2>2, <2>3 DEF Cursor
<1>. QED
  BY <1>4, <1>5

LEMMA CursorStep ==
  ASSUME Inv, Inv', Cursor, [Next]_vars
  PROVE  Cursor'
<1>1. ASSUME walk' = NoWalk PROVE Cursor'
  BY <1>1 DEF Cursor
<1>2. ASSUME NEW i \in Ids, FreeIdCall(i) PROVE Cursor'
  <2>1. /\ walk' = [id |-> i, p |-> next[NULL], l |-> NULL]
        /\ UNCHANGED <<nodes, next, allocated, id>>
    BY <1>2 DEF FreeIdCall, chains, fields
  <2>2. \A q \in allocated : next[NULL] # NULL /\ next[NULL] <= q
    BY DEF Inv, HeapInv, TypeOK, Geometry, Ordered, Addr, NULL
  <2>. QED
    BY <2>1, <2>2 DEF Cursor
<1>3. CASE FreeIdStep
  BY <1>3, CursorFreeStep
<1>4. CASE UNCHANGED vars
  BY <1>4 DEF vars, chains, fields, Cursor
<1>5. CASE FreeIdReturn
  BY <1>1, <1>5 DEF FreeIdReturn
<1>6. ASSUME NEW b \in Buffers, Supply(b) PROVE walk' = NoWalk
  BY <1>6 DEF Supply, Ready
<1>7. ASSUME NEW bytes \in Requests, AllocateNull(bytes) PROVE walk' = NoWalk
  BY <1>7 DEF AllocateNull, Ready
<1>8. ASSUME NEW bytes \in Requests, NEW i \in Ids, Allocate(bytes, i) PROVE walk' = NoWalk
  BY <1>8 DEF Allocate, Ready, Crash, AllocateSplit, AllocateWhole, Take
<1>9. ASSUME NEW p \in allocated, MemFree(p) PROVE walk' = NoWalk
  BY <1>9 DEF MemFree, Ready, Crash
<1>10. ASSUME NEW p \in allocated, NEW bytes \in Requests, Realloc(p, bytes) PROVE walk' = NoWalk
  BY <1>10 DEF Realloc, Ready, Crash
<1>11. ASSUME NEW p \in allocated, NEW o \in Owners, SetOwner(p, o) PROVE walk' = NoWalk
  BY <1>11 DEF SetOwner, Ready
<1>. QED
  BY <1>1, <1>2, <1>3, <1>4, <1>5, <1>6, <1>7, <1>8, <1>9, <1>10, <1>11 DEF Next

(* The pointers memmgrFreeId keeps across memmgrFree stay valid, and it    *)
(* leaves no block with the id behind.                                     *)
THEOREM HeapCursorValid == Spec => []CursorValid
<1>1. Init => Cursor
  BY DEF Init, Cursor
<1>2. Inv /\ Cursor => CursorValid
  <2> SUFFICES ASSUME Inv, Cursor PROVE CursorValid
    OBVIOUS
  <2>1. BlockRing
    BY InvTyped
  <2>. QED
    BY <2>1 DEF Cursor, CursorValid, BlockRing, Ring
<1>. QED
  BY <1>1, <1>2, SpecInv, CursorStep, PTL DEF Spec

(***************************************************************************)
(* The shapes of change, block by block: p is cut at q, joined to the one  *)
(* or the two behind it, or the boundary to the next one moves to q.       *)
(***************************************************************************)
IsCut(p, q) ==
  /\ q \notin nodes /\ nodes' = nodes \cup {q}
  /\ \A a \in nodes : /\ next'[a] = IF a = p THEN q ELSE next[a]
                      /\ size'[a] = IF a = p THEN q - p ELSE size[a]
  /\ next'[q] = next[p] /\ size'[q] = p + size[p] - q

IsJoin(p, z) ==
  /\ nodes' = nodes \ {z}
  /\ \A a \in nodes' : /\ next'[a] = IF a = p THEN next[z] ELSE next[a]
                       /\ size'[a] = IF a = p THEN size[p] + size[z] ELSE size[a]

IsJoinOfTwo(l, p, n) ==
  /\ nodes' = nodes \ {p, n}
  /\ \A a \in nodes' :
       /\ next'[a] = IF a = l THEN next[n] ELSE next[a]
       /\ size'[a] = IF a = l THEN size[l] + size[p] + size[n] ELSE size[a]

IsMove(p, z, q) ==
  /\ q \notin nodes /\ nodes' = (nodes \ {z}) \cup {q}
  /\ \A a \in nodes \ {z} : /\ next'[a] = IF a = p THEN q ELSE next[a]
                            /\ size'[a] = IF a = p THEN q - p ELSE size[a]
  /\ next'[q] = next[z] /\ size'[q] = z + size[z] - q

LEMMA CutShape ==
  ASSUME Typed, BlockRing, Geometry, NEW p \in nodes, NEW n \in Nat,
         n >= HeaderSize, n + HeaderSize <= size[p],
         InsertBlock(p, p + n), size' = [size EXCEPT ![p] = n, ![p + n] = size[p] - n]
  PROVE  IsCut(p, p + n)
<1>1. /\ p \in Nat \ {0} /\ size[p] \in Nat /\ p + size[p] <= LastAddr + 1
      /\ HeaderSize \in Nat \ {0} /\ LastAddr \in Nat
  BY BlockBounds
<1> DEFINE q == p + n
<1>2. /\ q \in Nat /\ q > p /\ q < p + size[p] /\ q \in Addr
      /\ n = q - p /\ size[p] - n = p + size[p] - q
  BY <1>1 DEF Addr
<1> HIDE DEF q
<1>3. q \notin nodes
  BY <1>1, <1>2 DEF Geometry, Disjoint
<1>4. \A a \in nodes \cup {q} : a \in Ptr /\ a \in Addr /\ a # NULL
  BY <1>2 DEF Typed, Ptr, Addr, NULL
<1>5. /\ nodes' = nodes \cup {q} /\ next' = Inserted(next, p, q)
      /\ size' = [size EXCEPT ![p] = q - p, ![q] = p + size[p] - q]
  BY <1>2 DEF InsertBlock, q
<1>6. IsCut(p, q)
  BY <1>2, <1>3, <1>4, <1>5 DEF IsCut, Inserted, Typed
<1>. QED
  BY <1>2, <1>6 DEF q

LEMMA JoinShape ==
  ASSUME Typed, BlockRing, Geometry, NEW p \in nodes, NEW z \in nodes, next[p] = z,
         RemoveBlock(z), size' = [size EXCEPT ![p] = size[p] + size[z], ![z] = 0]
  PROVE  IsJoin(p, z)
<1>1. \A a \in nodes : a \in Ptr /\ a \in Addr
  BY DEF Typed, Ptr
<1>2. prev[z] = p /\ z # p
  BY <1>1, BlockFacts
<1>. QED
  BY <1>1, <1>2 DEF IsJoin, RemoveBlock, Unlinked, Typed

LEMMA JoinOfTwoShape ==
  ASSUME Typed, BlockRing, Geometry,
         NEW l \in nodes, NEW p \in nodes, NEW n \in nodes,
         next[l] = p, next[p] = n, l # n, RemoveTwo(p, n),
         size' = [size EXCEPT ![l] = size[l] + size[p] + size[n], ![p] = 0, ![n] = 0]
  PROVE  IsJoinOfTwo(l, p, n)
<1>1. \A a \in nodes : a \in Ptr /\ a \in Addr
  BY DEF Typed, Ptr
<1>2. prev[p] = l /\ prev[n] = p /\ p # l /\ n # p
  BY <1>1, BlockFacts
<1> DEFINE f == Unlinked(next, prev, p)
           g == Unlinked(prev, next, p)
<1>3. /\ f \in [Ptr -> Ptr] /\ g[n] = l /\ f[n] = next[n] /\ next' = Unlinked(f, g, n)
      /\ \A a \in nodes \ {p} : f[a] = IF a = l THEN n ELSE next[a]
  <2>1. g[n] = l
    BY <1>1, <1>2 DEF Unlinked, Typed
  <2>2. f[n] = next[n] /\ \A a \in nodes \ {p} : f[a] = IF a = l THEN n ELSE next[a]
    BY <1>1, <1>2 DEF Unlinked, Typed
  <2>3. next' = Unlinked(f, g, n)
    BY DEF RemoveTwo
  <2>4. f \in [Ptr -> Ptr]
    BY <1>1, UnlinkedRing DEF BlockRing, Typed
  <2>. QED
    BY <2>1, <2>2, <2>3, <2>4
<1> HIDE DEF f, g
<1>4. \A a \in nodes \ {p, n} : next'[a] = IF a = l THEN next[n] ELSE next[a]
  BY <1>1, <1>2, <1>3 DEF Unlinked
<1>5. \A a \in nodes \ {p, n} : size'[a] = IF a = l THEN size[l] + size[p] + size[n] ELSE size[a]
  BY <1>1, <1>2 DEF Typed
<1>. QED
  BY <1>4, <1>5 DEF IsJoinOfTwo, RemoveTwo

LEMMA MoveShape ==
  ASSUME Typed, BlockRing, Geometry, NEW p \in nodes, NEW z \in nodes, NEW n \in Nat,
         next[p] = z, z = p + size[p], p + n # z, n >= HeaderSize,
         p + n + HeaderSize <= z + size[z],
         MoveBoundary(p, z, n)
  PROVE  IsMove(p, z, p + n)
<1>1. /\ p \in Nat \ {0} /\ size[p] \in Nat /\ z \in Nat \ {0} /\ size[z] \in Nat
      /\ z + size[z] <= LastAddr + 1 /\ HeaderSize \in Nat \ {0} /\ LastAddr \in Nat
  BY BlockBounds
<1>2. z # p /\ prev[z] = p /\ next[z] # z
  BY <1>1, BlockFacts DEF NULL
<1> DEFINE q == p + n
<1>3. /\ q \in Nat /\ q > p /\ q # z /\ q < z + size[z] /\ q \in Addr
      /\ n = q - p /\ size[p] + size[z] - n = z + size[z] - q
  BY <1>1 DEF Addr
<1>4. /\ ReplaceBlock(z, q)
      /\ size' = [a \in Addr |-> CASE a = p -> n
                               [] a = q -> size[p] + size[z] - n
                               [] a = z -> 0
                               [] OTHER -> size[a]]
  BY DEF MoveBoundary
<1> HIDE DEF q
<1>5. q \notin nodes
  <2> SUFFICES ASSUME q \in nodes PROVE FALSE
    OBVIOUS
  <2>1. q > p => z <= q
    BY <1>1, <1>3 DEF Geometry, Disjoint
  <2>2. z < q => z + size[z] <= q
    BY <1>1, <1>3 DEF Geometry, Disjoint
  <2>3. z < q
    <3>1. z <= q /\ q # z
      BY <1>3, <2>1
    <3>2. z \in Nat /\ q \in Nat
      BY <1>1, <1>3
    <3>. QED
      BY <3>1, <3>2
  <2>. QED
    BY <1>1, <1>3, <2>2, <2>3
<1>6. \A a \in nodes \cup {q} : a \in Ptr /\ a \in Addr
  BY <1>3 DEF Typed, Ptr
<1>7. /\ next'[q] = next[z]
      /\ \A a \in nodes \ {z} : next'[a] = IF a = p THEN q ELSE next[a]
  BY <1>2, <1>3, <1>4, <1>5, <1>6 DEF ReplaceBlock, Replaced, Typed
<1>8. /\ size'[q] = z + size[z] - q
      /\ \A a \in nodes \ {z} : size'[a] = IF a = p THEN q - p ELSE size[a]
  BY <1>2, <1>3, <1>4, <1>5, <1>6
<1>9. IsMove(p, z, q)
  BY <1>4, <1>5, <1>7, <1>8 DEF IsMove, ReplaceBlock
<1>. QED
  BY <1>3, <1>9 DEF q

(***************************************************************************)
(* Besides HeapInv: a block is a whole number of units but for the last of *)
(* a buffer, no two free neighbours of one buffer are apart, and no byte   *)
(* of a buffer is lost.                                                    *)
(***************************************************************************)
Whole(x)   == \E k \in Nat : x = Gran * k
WholeUnits == \A p \in nodes : next[p] # NULL /\ next[p] \notin fixed => Whole(size[p])
Held(x)    == \E a \in nodes : a <= x /\ x < a + size[a]
Filled     == \A b \in supplied : \A x \in Base(b) .. (Limit(b) - 1) : Held(x)
Packed     == WholeUnits /\ Coalesced /\ Filled

LEMMA WholeSums ==
  ASSUME NEW x \in Nat, NEW y \in Nat, Whole(x), Whole(y)
  PROVE  Whole(x + y) /\ (x > y => Whole(x - y) /\ x >= y + Gran)
<1>1. Gran \in Nat \ {0}
  BY GeometryAssumption DEF Gran
<1>2. PICK j \in Nat, k \in Nat : x = Gran * j /\ y = Gran * k
  BY DEF Whole
<1>3. Gran * (j + k) = x + y /\ j + k \in Nat
  BY <1>1, <1>2
<1>4. ASSUME x > y PROVE Whole(x - y) /\ x >= y + Gran
  <2>1. ASSUME j <= k PROVE FALSE
    <3>1. PICK d \in Nat : k = j + d
      BY <1>2, <2>1
    <3>2. y = x + Gran * d /\ Gran * d \in Nat
      BY <1>1, <1>2, <3>1
    <3>. QED
      BY <1>4, <3>2
  <2>2. PICK d \in Nat : j = k + 1 + d
    BY <1>2, <2>1
  <2>3. x = y + Gran * (1 + d) /\ Gran * (1 + d) = Gran + Gran * d /\ Gran * d \in Nat
    BY <1>1, <1>2, <2>2
  <2>4. x - y = Gran * (1 + d) /\ 1 + d \in Nat
    BY <1>1, <2>3
  <2>5. x >= y + Gran
    BY <1>1, <2>3
  <2>. QED
    BY <2>4, <2>5 DEF Whole
<1>. QED
  BY <1>3, <1>4 DEF Whole

(* What a shape of change keeps of it. *)
LEMMA CutPacked ==
  ASSUME Typed, Geometry, WholeUnits, NEW p \in nodes, NEW q \in Nat, IsCut(p, q),
         q >= p + HeaderSize, q + HeaderSize <= p + size[p], Whole(q - p),
         fixed' = fixed
  PROVE  WholeUnits' /\ HeadersApart /\ \A x \in Int : Held(x) => Held(x)'
<1>1. \A a \in nodes : a \in Nat \ {0} /\ size[a] \in Nat /\ size[a] >= HeaderSize
  BY BlockBounds
<1>2. WholeUnits'
  <2>1. next[p] # NULL /\ next[p] \notin fixed => Whole(p + size[p] - q)
    <3> SUFFICES ASSUME Whole(size[p]) PROVE Whole(p + size[p] - q)
      BY DEF WholeUnits
    <3>1. size[p] \in Nat /\ q - p \in Nat /\ size[p] > q - p
          /\ size[p] - (q - p) = p + size[p] - q
      BY <1>1, GeometryAssumption
    <3>2. Whole(size[p] - (q - p))
      BY <3>1, WholeSums
    <3>. QED
      BY <3>1, <3>2
  <2> SUFFICES ASSUME NEW a \in nodes', next'[a] # NULL, next'[a] \notin fixed
               PROVE  Whole(size'[a])
    BY DEF WholeUnits, Whole
  <2>2. CASE a = p \/ a = q
    BY <2>1, <2>2 DEF IsCut
  <2>3. CASE a # p /\ a # q
    BY <2>3 DEF IsCut, WholeUnits
  <2>. QED
    BY <2>2, <2>3
<1>3. HeadersApart
  <2> SUFFICES ASSUME NEW z \in nodes
               PROVE  q + HeaderSize <= z \/ z + HeaderSize <= q
    BY DEF HeadersApart, IsCut
  <2>1. (p < z => p + size[p] <= z) /\ (z < p => z + size[z] <= p)
    BY DEF Geometry, Disjoint
  <2>. QED
    BY <1>1, <2>1, GeometryAssumption
<1>4. ASSUME NEW x \in Int, Held(x) PROVE Held(x)'
  <2>1. PICK a \in nodes : a <= x /\ x < a + size[a]
    BY <1>4 DEF Held
  <2>2. CASE a # p
    BY <2>1, <2>2 DEF Held, IsCut
  <2>3. CASE a = p /\ x < q
    <3>1. p \in nodes' /\ p <= x /\ x < p + size'[p]
      BY <1>1, <2>1, <2>3 DEF IsCut
    <3>. QED
      BY <3>1 DEF Held
  <2>4. CASE a = p /\ ~ (x < q)
    <3>1. q \in nodes' /\ q <= x /\ x < q + size'[q]
      BY <1>1, <2>1, <2>4 DEF IsCut
    <3>. QED
      BY <3>1 DEF Held
  <2>. QED
    BY <2>2, <2>3, <2>4
<1>. QED
  BY <1>2, <1>3, <1>4

LEMMA JoinPacked ==
  ASSUME Typed, Geometry, WholeUnits, NEW p \in nodes, NEW z \in nodes, IsJoin(p, z),
         z # p, z = p + size[p], next[p] = z, z \notin fixed, fixed' = fixed
  PROVE  WholeUnits' /\ HeadersApart /\ \A x \in Int : Held(x) => Held(x)'
<1>1. \A a \in nodes : a \in Nat \ {0} /\ size[a] \in Nat
  BY BlockBounds
<1>2. WholeUnits'
  <2>1. Whole(size[p])
    BY <1>1 DEF WholeUnits, NULL
  <2>2. next[z] # NULL /\ next[z] \notin fixed => Whole(size[p] + size[z])
    BY <1>1, <2>1, WholeSums DEF WholeUnits
  <2> SUFFICES ASSUME NEW a \in nodes', next'[a] # NULL, next'[a] \notin fixed
               PROVE  Whole(size'[a])
    BY DEF WholeUnits, Whole
  <2>. QED
    BY <2>2 DEF IsJoin, WholeUnits
<1>3. HeadersApart
  BY DEF HeadersApart, IsJoin
<1>4. ASSUME NEW x \in Int, Held(x) PROVE Held(x)'
  <2>1. PICK a \in nodes : a <= x /\ x < a + size[a]
    BY <1>4 DEF Held
  <2>2. CASE a # p /\ a # z
    BY <2>1, <2>2 DEF Held, IsJoin
  <2>3. CASE a = p \/ a = z
    <3>1. p \in nodes' /\ p <= x /\ x < p + size'[p]
      BY <1>1, <2>1, <2>3 DEF IsJoin
    <3>. QED
      BY <3>1 DEF Held
  <2>. QED
    BY <2>2, <2>3
<1>. QED
  BY <1>2, <1>3, <1>4

LEMMA JoinOfTwoPacked ==
  ASSUME Typed, Geometry, WholeUnits, NEW l \in nodes, NEW p \in nodes, NEW n \in nodes,
         IsJoinOfTwo(l, p, n), l # p, l # n, p = l + size[l], n = p + size[p],
         next[l] = p, next[p] = n, p \notin fixed, n \notin fixed, fixed' = fixed
  PROVE  WholeUnits' /\ HeadersApart /\ \A x \in Int : Held(x) => Held(x)'
<1>1. \A a \in nodes : a \in Nat \ {0} /\ size[a] \in Nat
  BY BlockBounds
<1>2. WholeUnits'
  <2>1. Whole(size[l]) /\ Whole(size[p])
    BY <1>1 DEF WholeUnits, NULL
  <2>2. Whole(size[l] + size[p]) /\ size[l] + size[p] \in Nat
    BY <1>1, <2>1, WholeSums
  <2>3. next[n] # NULL /\ next[n] \notin fixed => Whole(size[l] + size[p] + size[n])
    BY <1>1, <2>2, WholeSums DEF WholeUnits
  <2> SUFFICES ASSUME NEW a \in nodes', next'[a] # NULL, next'[a] \notin fixed
               PROVE  Whole(size'[a])
    BY DEF WholeUnits, Whole
  <2>. QED
    BY <2>3 DEF IsJoinOfTwo, WholeUnits
<1>3. HeadersApart
  BY DEF HeadersApart, IsJoinOfTwo
<1>4. ASSUME NEW x \in Int, Held(x) PROVE Held(x)'
  <2>1. PICK a \in nodes : a <= x /\ x < a + size[a]
    BY <1>4 DEF Held
  <2>2. CASE a # l /\ a # p /\ a # n
    BY <2>1, <2>2 DEF Held, IsJoinOfTwo
  <2>3. CASE a = l \/ a = p \/ a = n
    <3>1. l \in nodes' /\ l <= x /\ x < l + size'[l]
      BY <1>1, <2>1, <2>3 DEF IsJoinOfTwo
    <3>. QED
      BY <3>1 DEF Held
  <2>. QED
    BY <2>2, <2>3
<1>. QED
  BY <1>2, <1>3, <1>4

(* The new boundary is at least a unit away from the old one.             *)
LEMMA MovePacked ==
  ASSUME Typed, Geometry, WholeUnits, NEW p \in nodes, NEW z \in nodes, NEW n \in Nat,
         IsMove(p, z, p + n), z # p, z = p + size[p], next[p] = z, z \notin fixed,
         n >= HeaderSize, Whole(n), p + n + Gran <= z + size[z],
         size[p] < n \/ n + Gran <= size[p], fixed' = fixed
  PROVE  WholeUnits' /\ HeadersApart /\ \A x \in Int : Held(x) => Held(x)'
<1>1. /\ \A a \in nodes : a \in Nat \ {0} /\ size[a] \in Nat /\ size[a] >= HeaderSize
      /\ HeaderSize \in Nat \ {0} /\ Gran = 2 * HeaderSize
  BY BlockBounds, GeometryAssumption DEF Gran
<1>2. Whole(size[p])
  BY <1>1 DEF WholeUnits, NULL
<1> DEFINE q == p + n
<1>3. q \in Nat /\ q - p = n
      /\ size[p] + size[z] \in Nat /\ size[p] + size[z] > n
      /\ (size[p] + size[z]) - n = z + size[z] - q
  BY <1>1
<1>4. q >= z + Gran \/ q + Gran <= z
  <2>1. size[p] < n => n >= size[p] + Gran
    BY <1>1, <1>2, WholeSums
  <2>. QED
    BY <1>1, <2>1
<1>5. IsMove(p, z, q) /\ q + Gran <= z + size[z] /\ q >= p + HeaderSize
  BY <1>1
<1> HIDE DEF q
<1>6. WholeUnits'
  <2>1. next[z] # NULL /\ next[z] \notin fixed => Whole(z + size[z] - q)
    <3> SUFFICES ASSUME Whole(size[z]) PROVE Whole(z + size[z] - q)
      BY DEF WholeUnits
    <3>1. Whole(size[p] + size[z])
      BY <1>1, <1>2, WholeSums
    <3>2. Whole((size[p] + size[z]) - n)
      BY <1>3, <3>1, WholeSums
    <3>. QED
      BY <1>3, <3>2
  <2> SUFFICES ASSUME NEW a \in nodes', next'[a] # NULL, next'[a] \notin fixed
               PROVE  Whole(size'[a])
    BY DEF WholeUnits, Whole
  <2>2. CASE a = p \/ a = q
    BY <1>3, <1>5, <2>1, <2>2 DEF IsMove
  <2>3. CASE a # p /\ a # q
    BY <1>5, <2>3 DEF IsMove, WholeUnits
  <2>. QED
    BY <2>2, <2>3
<1>7. HeadersApart
  <2> SUFFICES ASSUME NEW c \in nodes
               PROVE  q + HeaderSize <= c \/ c + HeaderSize <= q
    BY <1>5 DEF HeadersApart, IsMove
  <2>1. /\ c < p => c + size[c] <= p
        /\ p < c => z <= c
        /\ z < c => z + size[z] <= c
    BY DEF Geometry, Disjoint
  <2>2. c < p \/ c = p \/ c = z \/ c >= z + size[z]
    BY <1>1, <2>1
  <2>. QED
    BY <1>1, <1>3, <1>4, <1>5, <2>1, <2>2
<1>8. ASSUME NEW x \in Int, Held(x) PROVE Held(x)'
  <2>1. PICK a \in nodes : a <= x /\ x < a + size[a]
    BY <1>8 DEF Held
  <2>2. CASE a # p /\ a # z
    BY <1>5, <2>1, <2>2 DEF Held, IsMove
  <2>3. CASE (a = p \/ a = z) /\ x < q
    <3>1. p \in nodes' /\ p <= x /\ x < p + size'[p]
      BY <1>1, <1>3, <1>5, <2>1, <2>3 DEF IsMove
    <3>. QED
      BY <3>1 DEF Held
  <2>4. CASE (a = p \/ a = z) /\ ~ (x < q)
    <3>1. q \in nodes' /\ q <= x /\ x < q + size'[q]
      BY <1>1, <1>3, <1>5, <2>1, <2>4 DEF IsMove
    <3>. QED
      BY <3>1 DEF Held
  <2>. QED
    BY <2>2, <2>3, <2>4
<1>. QED
  BY <1>6, <1>7, <1>8

(***************************************************************************)
(* Each operation, on the blocks its callers hold.                         *)
(***************************************************************************)
(* Filled once the bytes held stay held and no buffer is new. *)
LEMMA StaysFilled ==
  ASSUME Typed, Filled, supplied' = supplied, \A x \in Int : Held(x) => Held(x)'
  PROVE  Filled'
<1>1. \A b \in supplied : \A x \in Base(b) .. (Limit(b) - 1) : x \in Int
  BY BufferBounds DEF Typed
<1>. QED
  BY <1>1 DEF Filled

LEMMA SupplyPacked ==
  ASSUME Inv, Packed, NEW b \in Buffers, Supply(b)
  PROVE  Packed' /\ OneDisturbed /\ HeadersApart
<1> DEFINE q == Base(b)
<1>1. PICK l \in nodes \cup {NULL} : GoesBehind(l, q) /\ InsertBlock(l, q)
  BY DEF Supply
<1>2. /\ fixed' = fixed \cup {q} /\ supplied' = supplied \cup {b} /\ b \notin supplied
      /\ size' = [size EXCEPT ![q] = Usable(b)]
      /\ UNCHANGED <<allocated, id, req>>
  BY DEF Supply
<1>3. Typed /\ BlockRing /\ Geometry /\ allocated \subseteq nodes
  BY InvTyped DEF Inv, HeapInv, TypeOK
<1>4. /\ Typed' /\ Geometry' /\ q \in Addr \ nodes
      /\ next[l] # NULL => next[l] \in fixed
  BY <1>1, <1>2, <1>3, SupplyStep
<1>5. /\ q \in Nat /\ Usable(b) \in Nat /\ Usable(b) >= HeaderSize /\ Limit(b) = q + Usable(b)
      /\ Limit(b) \in Nat
  BY BufferBounds DEF Addr
<1>6. \A a \in nodes : a + size[a] <= q \/ Limit(b) <= a
  <2> SUFFICES ASSUME NEW a \in nodes PROVE a + size[a] <= q \/ Limit(b) <= a
    OBVIOUS
  <2>1. PICK c \in supplied : /\ Base(c) <= a /\ a + size[a] <= Limit(c)
                             /\ Base(c) \in Nat /\ Limit(c) \in Nat
    BY <1>3, BufferBounds DEF Geometry, Housed, Typed, Addr
  <2>2. Limit(b) <= Base(c) \/ Limit(c) <= q
    BY <1>2, <1>3, BufferAssumption DEF Typed
  <2>. QED
    BY <1>3, <1>5, <2>1, <2>2, BlockBounds
<1> HIDE DEF q
<1>7. /\ nodes' = nodes \cup {q} /\ next'[q] = next[l] /\ size'[q] = Usable(b)
      /\ \A a \in nodes : /\ next'[a] = IF a = l THEN q ELSE next[a]
                          /\ size'[a] = size[a]
  <2>1. \A a \in nodes \cup {q} : a \in Ptr /\ a \in Addr
    BY <1>3, <1>4 DEF Typed, Ptr
  <2>2. l \in Ptr /\ l # q
    BY <1>3, <1>4, <2>1 DEF Typed, Ptr, Addr, NULL
  <2>. QED
    BY <1>1, <1>2, <1>3, <1>4, <2>1, <2>2 DEF InsertBlock, Inserted, Typed
<1>8. WholeUnits'
  <2> SUFFICES ASSUME NEW a \in nodes', next'[a] # NULL, next'[a] \notin fixed'
               PROVE  Whole(size'[a])
    BY DEF WholeUnits, Whole
  <2>. QED
    BY <1>2, <1>4, <1>7 DEF Packed, WholeUnits
<1>9. Coalesced'
  <2> SUFFICES ASSUME NEW a \in Free', Joinable(next[a])' PROVE FALSE
    BY DEF Coalesced
  <2>1. next'[a] # NULL /\ next'[a] \notin allocated /\ next'[a] \notin fixed /\ next'[a] # q
        /\ a \in nodes' /\ a \notin allocated
    BY <1>2 DEF Joinable, Free
  <2>2. a # q
    BY <1>4, <1>7, <2>1
  <2>. QED
    BY <1>7, <2>1, <2>2 DEF Packed, Coalesced, Joinable, Free
<1>10. Filled'
  <2>1. \A x \in Int : Held(x) => Held(x)'
    BY <1>7 DEF Held
  <2>2. ASSUME NEW c \in supplied, NEW x \in Base(c) .. (Limit(c) - 1) PROVE Held(x)'
    <3>1. x \in Int
      BY <1>3, BufferBounds DEF Typed
    <3>. QED
      BY <2>1, <2>2, <3>1 DEF Packed, Filled
  <2>3. ASSUME NEW x \in q .. (Limit(b) - 1) PROVE Held(x)'
    <3>1. q \in nodes' /\ q <= x /\ x < q + size'[q]
      BY <1>5, <1>7, <2>3
    <3>. QED
      BY <3>1 DEF Held
  <2>. QED
    BY <1>2, <2>2, <2>3 DEF Filled, q
<1>11. OneDisturbed
  BY <1>2, <1>3, <1>7 DEF OneDisturbed, Keeps
<1>12. HeadersApart
  <2> SUFFICES ASSUME NEW z \in nodes PROVE q + HeaderSize <= z \/ z + HeaderSize <= q
    BY <1>7 DEF HeadersApart
  <2>. QED
    BY <1>3, <1>5, <1>6, BlockBounds
<1>. QED
  BY <1>8, <1>9, <1>10, <1>11, <1>12 DEF Packed

LEMMA AllocatePacked ==
  ASSUME Inv, Packed, NEW bytes \in Requests, NEW i \in Ids, Allocate(bytes, i)
  PROVE  Packed' /\ OneDisturbed /\ HeadersApart
<1> DEFINE n == Rounded(bytes)
<1>1. ~ Overflows(bytes)
  BY DEF Allocate
<1>2. /\ n \in Nat /\ HeaderSize \in Nat \ {0} /\ n >= HeaderSize /\ Gran = 2 * HeaderSize
      /\ Whole(n)
  <2>1. n \in Nat /\ HeaderSize \in Nat \ {0} /\ n >= HeaderSize /\ Gran = 2 * HeaderSize
    BY <1>1, TypedRequests
  <2>2. Whole(n)
    BY <1>1, RoundedHasRoom, RequestAssumption DEF Whole
  <2>. QED
    BY <2>1, <2>2
<1>3. PICK p \in nodes : /\ FirstFit(p, n) /\ p \in Free
                         /\ AllocateSplit(p, bytes, i) \/ AllocateWhole(p, bytes, i)
  <2>1. PICK p \in nodes : /\ FirstFit(p, n)
                           /\ IF p \in allocated \/ HeadIsWrong(p) THEN Crash
                              ELSE AllocateSplit(p, bytes, i) \/ AllocateWhole(p, bytes, i)
    BY DEF Allocate
  <2>2. p \in Free /\ ~ HeadIsWrong(p)
    BY <1>2, <2>1, FirstFitFree, HeadIsRight
  <2>. QED
    BY <2>1, <2>2 DEF Free
<1>4. /\ Typed /\ BlockRing /\ Geometry /\ allocated \subseteq nodes
      /\ id \in [Addr -> Ids \cup {0}] /\ req \in [Addr -> Requests \cup {0}]
      /\ p \in nodes /\ p \notin allocated
  BY <1>3, InvTyped DEF Inv, HeapInv, TypeOK, Free
<1>5. /\ allocated' = allocated \cup {p} /\ id' = [id EXCEPT ![p] = i]
      /\ req' = [req EXCEPT ![p] = bytes] /\ UNCHANGED <<fixed, supplied>>
  BY <1>3 DEF AllocateSplit, AllocateWhole, Take
<1>6. CASE AllocateWhole(p, bytes, i)
  <2>1. UNCHANGED <<nodes, next, size>>
    BY <1>6 DEF AllocateWhole
  <2>2. Packed'
    BY <1>5, <2>1 DEF Packed, WholeUnits, Whole, Coalesced, Free, Joinable, Filled, Held
  <2>3. OneDisturbed
    BY <1>4, <1>5, <2>1 DEF OneDisturbed, Keeps
  <2>. QED
    BY <2>1, <2>2, <2>3 DEF HeadersApart
<1>7. CASE AllocateSplit(p, bytes, i)
  <2>1. /\ size[p] - n >= Gran /\ InsertBlock(p, p + n)
        /\ size' = [size EXCEPT ![p] = n, ![p + n] = size[p] - n]
    BY <1>7 DEF AllocateSplit
  <2>2. p \in Nat /\ size[p] \in Nat
    BY <1>4, BlockBounds
  <2> HIDE DEF n
  <2>3. IsCut(p, p + n)
    <3>1. n + HeaderSize <= size[p]
      BY <1>2, <2>1, <2>2
    <3>. QED
      BY <1>2, <1>4, <2>1, <3>1, CutShape
  <2> DEFINE q == p + n
  <2>4. /\ q \in Nat /\ q >= p + HeaderSize /\ q + HeaderSize <= p + size[p]
        /\ q - p = n /\ IsCut(p, q)
    BY <1>2, <2>1, <2>2, <2>3
  <2> HIDE DEF q
  <2>5. WholeUnits' /\ HeadersApart /\ \A x \in Int : Held(x) => Held(x)'
    BY <1>2, <1>4, <1>5, <2>4, CutPacked DEF Packed
  <2>6. Filled'
    BY <1>4, <1>5, <2>5, StaysFilled DEF Packed
  <2>7. Coalesced'
    <3> SUFFICES ASSUME NEW a \in Free', Joinable(next[a])' PROVE FALSE
      BY DEF Coalesced
    <3>1. next'[a] # NULL /\ next'[a] \notin allocated /\ next'[a] \notin fixed
          /\ a \in nodes' /\ a \notin allocated /\ a # p
      BY <1>5 DEF Joinable, Free
    <3>. QED
      BY <1>3, <2>4, <3>1 DEF IsCut, Packed, Coalesced, Joinable, Free
  <2>8. OneDisturbed
    BY <1>4, <1>5, <2>4 DEF OneDisturbed, Keeps, IsCut, Typed
  <2>. QED
    BY <2>5, <2>6, <2>7, <2>8 DEF Packed
<1>. QED
  BY <1>3, <1>6, <1>7

LEMMA FreeBlockPacked ==
  ASSUME Inv, Packed, NEW p \in allocated, FreeBlock(p)
  PROVE  Packed' /\ OneDisturbed /\ HeadersApart
<1> DEFINE l == prev[p]
           n == next[p]
<1>1. /\ allocated' = allocated \ {p} /\ id' = [id EXCEPT ![p] = 0]
      /\ req' = [req EXCEPT ![p] = 0] /\ UNCHANGED <<fixed, supplied>>
  BY DEF FreeBlock
<1>2. /\ Typed /\ BlockRing /\ Geometry /\ allocated \subseteq nodes /\ p \in nodes
      /\ id \in [Addr -> Ids \cup {0}] /\ req \in [Addr -> Requests \cup {0}]
  BY InvTyped DEF Inv, HeapInv, TypeOK
<1>3. /\ n \in nodes \cup {NULL} /\ l \in nodes \cup {NULL}
      /\ n # p /\ next[l] = p /\ prev[n] = p /\ p \in Nat \ {0} /\ p # NULL
      /\ \A a \in nodes : next[a] = p => a = l
  BY <1>2, BlockFacts DEF NULL, Typed, Addr
<1>4. Joinable(n) => /\ n \in nodes /\ n \notin allocated /\ n \notin fixed
                     /\ n = p + size[p]
  BY <1>2, <1>3, BlockFacts DEF Joinable
<1>5. JoinsPrev(p) => /\ l \in nodes /\ l \notin allocated /\ p \notin fixed
                      /\ l # p /\ p = l + size[l]
  <2> SUFFICES ASSUME JoinsPrev(p)
               PROVE  /\ l \in nodes /\ l \notin allocated /\ p \notin fixed
                      /\ l # p /\ p = l + size[l]
    OBVIOUS
  <2>1. l \in nodes /\ l \notin allocated /\ p \notin fixed
    BY <1>3 DEF JoinsPrev
  <2>. QED
    BY <1>2, <1>3, <2>1, BlockFacts
<1>6. JoinsPrev(p) /\ Joinable(n) => l # n
  <2>1. \A a \in nodes : a \in Nat /\ size[a] \in Nat /\ size[a] >= HeaderSize
    BY <1>2, BlockBounds
  <2>. QED
    BY <1>2, <1>4, <1>5, <2>1, GeometryAssumption
<1> DEFINE Goal == /\ WholeUnits' /\ HeadersApart
                   /\ \A x \in Int : Held(x) => Held(x)'
                   /\ \A a \in allocated : a # p => a \in nodes' /\ size'[a] = size[a]
                   /\ Coalesced'
<1>7. ASSUME JoinsPrev(p), Joinable(n), JoinBoth(l, p, n) PROVE Goal
  <2>1. IsJoinOfTwo(l, p, n)
    BY <1>2, <1>3, <1>4, <1>5, <1>6, <1>7, JoinOfTwoShape DEF JoinBoth
  <2>2. WholeUnits' /\ HeadersApart /\ \A x \in Int : Held(x) => Held(x)'
    BY <1>1, <1>2, <1>3, <1>4, <1>5, <1>6, <1>7, <2>1, JoinOfTwoPacked DEF Packed
  <2>3. \A a \in allocated : a # p => a \in nodes' /\ size'[a] = size[a]
    BY <1>2, <1>4, <1>5, <1>7, <2>1 DEF IsJoinOfTwo
  <2>4. Coalesced'
    <3> SUFFICES ASSUME NEW a \in Free', Joinable(next[a])' PROVE FALSE
      BY DEF Coalesced
    <3>1. a \in nodes' /\ a \notin allocated' /\ a # p /\ a # n
      BY <2>1 DEF Free, IsJoinOfTwo
    <3>2. n \in Free /\ a \in Free
      BY <1>1, <1>4, <1>7, <2>1, <3>1 DEF Free, IsJoinOfTwo
    <3>3. ~ Joinable(next[n]) /\ ~ Joinable(next[a])
      BY <3>2 DEF Packed, Coalesced
    <3>4. next'[a] # p => Joinable(next'[a])
      BY <1>1 DEF Joinable
    <3>5. next'[a] # p
      BY <1>3, <1>7, <1>4, <2>1, <3>1, <3>3, BlockFacts, <1>2 DEF IsJoinOfTwo
    <3>. QED
      BY <2>1, <3>1, <3>3, <3>4, <3>5 DEF IsJoinOfTwo
  <2>. QED
    BY <2>2, <2>3, <2>4
<1>8. ASSUME JoinsPrev(p), ~ Joinable(n), JoinPrev(l, p) PROVE Goal
  <2>1. IsJoin(l, p)
    BY <1>2, <1>3, <1>5, <1>8, JoinShape DEF JoinPrev
  <2>2. WholeUnits' /\ HeadersApart /\ \A x \in Int : Held(x) => Held(x)'
    BY <1>1, <1>2, <1>3, <1>5, <1>8, <2>1, JoinPacked DEF Packed
  <2>3. \A a \in allocated : a # p => a \in nodes' /\ size'[a] = size[a]
    BY <1>2, <1>5, <1>8, <2>1 DEF IsJoin
  <2>4. Coalesced'
    <3> SUFFICES ASSUME NEW a \in Free', Joinable(next[a])' PROVE FALSE
      BY DEF Coalesced
    <3>1. a \in nodes' /\ a \notin allocated' /\ a # p
      BY <2>1 DEF Free, IsJoin
    <3>2. a \in Free
      BY <1>1, <2>1, <3>1 DEF Free, IsJoin
    <3>3. ~ Joinable(next[a])
      BY <3>2 DEF Packed, Coalesced
    <3>4. next'[a] # p => Joinable(next'[a])
      BY <1>1 DEF Joinable
    <3>5. next'[a] # p
      BY <1>3, <2>1, <3>1 DEF IsJoin
    <3>. QED
      BY <1>8, <2>1, <3>1, <3>3, <3>4, <3>5 DEF IsJoin
  <2>. QED
    BY <2>2, <2>3, <2>4
<1>9. ~ JoinsPrev(p) => p \in fixed \/ l = NULL \/ l \in allocated
  BY DEF JoinsPrev
<1>10. ASSUME ~ JoinsPrev(p), Joinable(n), JoinNext(p, n) PROVE Goal
  <2>1. IsJoin(p, n)
    BY <1>2, <1>4, <1>10, JoinShape DEF JoinNext
  <2>2. WholeUnits' /\ HeadersApart /\ \A x \in Int : Held(x) => Held(x)'
    BY <1>1, <1>2, <1>3, <1>4, <1>10, <2>1, JoinPacked DEF Packed
  <2>3. \A a \in allocated : a # p => a \in nodes' /\ size'[a] = size[a]
    BY <1>2, <1>4, <1>10, <2>1 DEF IsJoin
  <2>4. Coalesced'
    <3> SUFFICES ASSUME NEW a \in Free', Joinable(next[a])' PROVE FALSE
      BY DEF Coalesced
    <3>1. /\ a \in nodes' /\ a \notin allocated' /\ a # n
          /\ a # p => a \in Free
          /\ n \in Free
      BY <1>1, <1>4, <1>10, <2>1 DEF Free, IsJoin
    <3>2. ~ Joinable(next[n]) /\ (a # p => ~ Joinable(next[a]))
      BY <3>1 DEF Packed, Coalesced
    <3>3. next'[a] \notin fixed /\ (next'[a] # p => Joinable(next'[a]))
      BY <1>1 DEF Joinable
    <3>4. ASSUME a # p, next'[a] = p PROVE FALSE
      <4>1. next[a] = p /\ a = l
        BY <1>3, <2>1, <3>1, <3>4 DEF IsJoin
      <4>2. a \in nodes /\ a \notin allocated
        BY <3>1, <3>4 DEF Free
      <4>. QED
        BY <1>3, <1>9, <1>10, <3>3, <3>4, <4>1, <4>2, <1>2 DEF Typed, Addr, NULL
    <3>5. a = p => next'[a] # p
      <4>1. n \in nodes /\ n = p + size[p] /\ (next[n] # NULL => next[n] >= n + size[n])
        BY <1>2, <1>4, <1>10, BlockFacts
      <4>2. /\ size[p] \in Nat /\ size[n] \in Nat /\ size[n] >= HeaderSize
            /\ HeaderSize \in Nat \ {0} /\ next[n] \in Nat
        BY <1>2, <4>1, BlockBounds, BlockFacts
      <4>3. next[n] # p
        BY <1>3, <4>1, <4>2
      <4>. QED
        BY <2>1, <3>1, <4>3 DEF IsJoin
    <3>. QED
      BY <2>1, <3>1, <3>2, <3>3, <3>4, <3>5 DEF IsJoin
  <2>. QED
    BY <2>2, <2>3, <2>4
<1>11. ASSUME ~ JoinsPrev(p), ~ Joinable(n), JoinNone(p) PROVE Goal
  <2>1. UNCHANGED <<nodes, next, size>>
    BY <1>11 DEF JoinNone
  <2>2. WholeUnits' /\ HeadersApart /\ \A x \in Int : Held(x) => Held(x)'
    BY <1>1, <2>1 DEF Packed, WholeUnits, Whole, HeadersApart, Held
  <2>3. \A a \in allocated : a # p => a \in nodes' /\ size'[a] = size[a]
    BY <1>2, <2>1
  <2>4. Coalesced'
    <3> SUFFICES ASSUME NEW a \in Free', Joinable(next[a])' PROVE FALSE
      BY DEF Coalesced
    <3>1. a \in nodes /\ (a # p => a \in Free)
      BY <1>1, <2>1 DEF Free
    <3>2. a # p => ~ Joinable(next[a])
      BY <3>1 DEF Packed, Coalesced
    <3>3. next[a] \notin fixed /\ (next[a] # p => Joinable(next[a]))
      BY <1>1, <2>1 DEF Joinable
    <3>4. ASSUME a # p, next[a] = p PROVE FALSE
      <4>1. a = l /\ a \notin allocated
        BY <1>3, <3>1, <3>4 DEF Free
      <4>. QED
        BY <1>2, <1>9, <1>11, <3>1, <3>3, <3>4, <4>1 DEF Typed, Addr, NULL
    <3>. QED
      BY <1>3, <1>11, <3>2, <3>3, <3>4
  <2>. QED
    BY <2>2, <2>3, <2>4
<1>12. Goal
  BY <1>7, <1>8, <1>10, <1>11 DEF FreeBlock
<1> HIDE DEF Goal
<1>13. Filled'
  BY <1>1, <1>2, <1>12, StaysFilled DEF Packed, Goal
<1>14. OneDisturbed
  BY <1>1, <1>2, <1>12 DEF OneDisturbed, Keeps, Goal, Typed
<1>. QED
  BY <1>12, <1>13, <1>14 DEF Packed, Goal

LEMMA ReallocPacked ==
  ASSUME Inv, Packed, NEW p \in allocated, NEW bytes \in Requests, Realloc(p, bytes)
  PROVE  Packed' /\ OneDisturbed /\ HeadersApart
<1> DEFINE n == Rounded(bytes)
           z == next[p]
<1>1. /\ ~ Overflows(bytes)
      /\ \/ Joinable(z) /\ Swallow(p, z)
         \/ /\ Joinable(z) /\ MoveBoundary(p, z, n)
            /\ size[p] < n \/ n + Gran <= size[p]
            /\ p + n + Gran <= z + size[z]
         \/ ~ Joinable(z) /\ CutOff(p, n) /\ n + Gran <= size[p]
         \/ UNCHANGED <<chains, size>>
      /\ req' = [req EXCEPT ![p] = bytes] /\ UNCHANGED <<fixed, allocated, id, supplied>>
  BY ReallocCases
<1>2. /\ n \in Nat /\ HeaderSize \in Nat \ {0} /\ n >= HeaderSize /\ Gran = 2 * HeaderSize
      /\ Whole(n)
  <2>1. n \in Nat /\ HeaderSize \in Nat \ {0} /\ n >= HeaderSize /\ Gran = 2 * HeaderSize
    BY <1>1, TypedRequests
  <2>2. Whole(n)
    BY <1>1, RoundedHasRoom, RequestAssumption DEF Whole
  <2>. QED
    BY <2>1, <2>2
<1>3. /\ Typed /\ BlockRing /\ Geometry /\ allocated \subseteq nodes /\ p \in nodes
      /\ req \in [Addr -> Requests \cup {0}]
  BY InvTyped DEF Inv, HeapInv, TypeOK
<1>4. /\ p \in Nat /\ size[p] \in Nat /\ z # p
      /\ \A a \in nodes : next[a] = z /\ z # NULL => a = p
      /\ Joinable(z) => /\ z \in nodes /\ z \notin allocated /\ z \notin fixed
                        /\ z = p + size[p] /\ z \in Nat /\ size[z] \in Nat
  BY <1>3, BlockFacts, BlockBounds DEF Joinable, BlockRing, Ring
<1> HIDE DEF n
<1> DEFINE Goal == /\ WholeUnits' /\ HeadersApart
                   /\ \A x \in Int : Held(x) => Held(x)'
                   /\ \A a \in allocated : a # p => size'[a] = size[a]
                   /\ Coalesced'
<1>5. ASSUME Joinable(z), Swallow(p, z) PROVE Goal
  <2>1. IsJoin(p, z)
    BY <1>3, <1>4, <1>5, JoinShape DEF Swallow
  <2>2. WholeUnits' /\ HeadersApart /\ \A x \in Int : Held(x) => Held(x)'
    BY <1>1, <1>3, <1>4, <1>5, <2>1, JoinPacked DEF Packed
  <2>3. \A a \in allocated : a # p => size'[a] = size[a]
    BY <1>3, <1>4, <1>5, <2>1 DEF IsJoin
  <2>4. Coalesced'
    <3> SUFFICES ASSUME NEW a \in Free', Joinable(next[a])' PROVE FALSE
      BY DEF Coalesced
    <3>1. a \in nodes' /\ a \in Free /\ a # p
      BY <1>1, <2>1 DEF Free, IsJoin
    <3>2. ~ Joinable(next[a]) /\ next'[a] = next[a]
      BY <2>1, <3>1 DEF Packed, Coalesced, IsJoin
    <3>. QED
      BY <1>1, <3>2 DEF Joinable
  <2>. QED
    BY <2>2, <2>3, <2>4
<1>6. ASSUME Joinable(z), MoveBoundary(p, z, n), size[p] < n \/ n + Gran <= size[p],
             p + n + Gran <= z + size[z]
      PROVE  Goal
  <2>1. p + n # z /\ p + n + HeaderSize <= z + size[z]
    BY <1>2, <1>4, <1>6
  <2>2. IsMove(p, z, p + n)
    BY <1>2, <1>3, <1>4, <1>6, <2>1, MoveShape
  <2>3. WholeUnits' /\ HeadersApart /\ \A x \in Int : Held(x) => Held(x)'
    BY <1>1, <1>2, <1>3, <1>4, <1>6, <2>2, MovePacked DEF Packed
  <2>4. \A a \in allocated : a # p => size'[a] = size[a]
    BY <1>3, <1>4, <1>6, <2>2 DEF IsMove
  <2>5. Coalesced'
    <3> SUFFICES ASSUME NEW a \in Free', Joinable(next[a])' PROVE FALSE
      BY DEF Coalesced
    <3>1. a \in nodes' /\ a \notin allocated /\ a # p /\ z \in Free
      BY <1>1, <1>4, <1>6 DEF Free
    <3>2. a # p + n => a \in Free /\ a \in nodes \ {z}
      BY <2>2, <3>1 DEF Free, IsMove
    <3>3. ~ Joinable(next[z]) /\ (a # p + n => ~ Joinable(next[a]))
      BY <3>1, <3>2 DEF Packed, Coalesced
    <3>4. ~ Joinable(next'[a])
      BY <2>2, <3>1, <3>2, <3>3 DEF IsMove
    <3>. QED
      BY <1>1, <3>4 DEF Joinable
  <2>. QED
    BY <2>3, <2>4, <2>5
<1>7. ASSUME ~ Joinable(z), CutOff(p, n), n + Gran <= size[p] PROVE Goal
  <2>1. /\ InsertBlock(p, p + n) /\ size' = [size EXCEPT ![p] = n, ![p + n] = size[p] - n]
        /\ n + HeaderSize <= size[p]
    BY <1>2, <1>4, <1>7 DEF CutOff
  <2>2. IsCut(p, p + n)
    BY <1>2, <1>3, <2>1, CutShape
  <2> DEFINE q == p + n
  <2>3. /\ q \in Nat /\ q >= p + HeaderSize /\ q + HeaderSize <= p + size[p]
        /\ q - p = n /\ IsCut(p, q)
    BY <1>2, <1>4, <2>1, <2>2
  <2> HIDE DEF q
  <2>4. WholeUnits' /\ HeadersApart /\ \A x \in Int : Held(x) => Held(x)'
    BY <1>1, <1>2, <1>3, <2>3, CutPacked DEF Packed
  <2>5. \A a \in allocated : a # p => size'[a] = size[a]
    BY <1>3, <2>3 DEF IsCut
  <2>6. Coalesced'
    <3> SUFFICES ASSUME NEW a \in Free', Joinable(next[a])' PROVE FALSE
      BY DEF Coalesced
    <3>1. a \in nodes' /\ a \notin allocated /\ a # p
      BY <1>1 DEF Free
    <3>2. a # q => a \in Free
      BY <2>3, <3>1 DEF Free, IsCut
    <3>3. a # q => ~ Joinable(next[a])
      BY <3>2 DEF Packed, Coalesced
    <3>4. ~ Joinable(next'[a])
      BY <1>7, <2>3, <3>1, <3>3 DEF IsCut
    <3>. QED
      BY <1>1, <3>4 DEF Joinable
  <2>. QED
    BY <2>4, <2>5, <2>6
<1>8. ASSUME UNCHANGED <<chains, size>> PROVE Goal
  BY <1>1, <1>8
  DEF chains, Packed, WholeUnits, Whole, HeadersApart, Held, Coalesced, Free, Joinable
<1>9. Goal
  BY <1>1, <1>5, <1>6, <1>7, <1>8
<1> HIDE DEF Goal
<1>10. Filled'
  BY <1>1, <1>3, <1>9, StaysFilled DEF Packed, Goal
<1>11. OneDisturbed
  BY <1>1, <1>3, <1>9 DEF OneDisturbed, Keeps, Goal, Typed
<1>. QED
  BY <1>9, <1>10, <1>11 DEF Packed, Goal

LEMMA NextPacked ==
  ASSUME Inv, Packed, [Next]_vars
  PROVE  Packed' /\ OneDisturbed /\ HeadersApart
<1>1. ASSUME UNCHANGED <<chains, size, fixed, allocated, id, req, supplied>>
      PROVE  Packed' /\ OneDisturbed /\ HeadersApart
  BY <1>1
  DEF chains, Packed, WholeUnits, Whole, Coalesced, Free, Joinable, Filled, Held,
      OneDisturbed, Keeps, HeadersApart
<1>2. ASSUME NEW b \in Buffers, Supply(b) PROVE Packed' /\ OneDisturbed /\ HeadersApart
  BY <1>2, SupplyPacked
<1>3. ASSUME NEW bytes \in Requests, AllocateNull(bytes)
      PROVE  UNCHANGED <<chains, size, fixed, allocated, id, req, supplied>>
  BY <1>3 DEF AllocateNull, fields
<1>4. ASSUME NEW bytes \in Requests, NEW i \in Ids, Allocate(bytes, i)
      PROVE  Packed' /\ OneDisturbed /\ HeadersApart
  BY <1>4, AllocatePacked
<1>5. ASSUME Crash PROVE UNCHANGED <<chains, size, fixed, allocated, id, req, supplied>>
  BY <1>5 DEF Crash, fields
<1>6. ASSUME NEW p \in allocated, MemFree(p) PROVE Packed' /\ OneDisturbed /\ HeadersApart
  BY <1>1, <1>5, <1>6, FreeBlockPacked DEF MemFree
<1>7. ASSUME NEW i \in Ids, FreeIdCall(i)
      PROVE  UNCHANGED <<chains, size, fixed, allocated, id, req, supplied>>
  BY <1>7 DEF FreeIdCall, fields
<1>8. ASSUME FreeIdStep PROVE Packed' /\ OneDisturbed /\ HeadersApart
  BY <1>1, <1>5, <1>8, FreeBlockPacked DEF FreeIdStep, fields
<1>9. ASSUME FreeIdReturn
      PROVE  UNCHANGED <<chains, size, fixed, allocated, id, req, supplied>>
  BY <1>9 DEF FreeIdReturn, fields
<1>10. ASSUME NEW p \in allocated, NEW bytes \in Requests, Realloc(p, bytes)
       PROVE  Packed' /\ OneDisturbed /\ HeadersApart
  BY <1>10, ReallocPacked
<1>11. ASSUME NEW p \in allocated, NEW o \in Owners, SetOwner(p, o)
       PROVE  UNCHANGED <<chains, size, fixed, allocated, id, req, supplied>>
  BY <1>11 DEF SetOwner
<1>12. ASSUME UNCHANGED vars
       PROVE  UNCHANGED <<chains, size, fixed, allocated, id, req, supplied>>
  BY <1>12 DEF vars, fields
<1>. QED
  BY <1>1, <1>2, <1>3, <1>4, <1>6, <1>7, <1>8, <1>9, <1>10, <1>11, <1>12 DEF Next

LEMMA InitPacked == Init => Packed
BY DEF Init, Packed, WholeUnits, Coalesced, Free, Filled

(* A call changes at most one block that callers hold and moves none, and  *)
(* writes no control block over one it still reads.                        *)
THEOREM HeapHoldersUndisturbed == Spec => HoldersUndisturbed
BY InitPacked, SpecInv, NextPacked, PTL DEF Spec, HoldersUndisturbed

(* The bytes of the blocks are the bytes of the buffers. *)
LEMMA PackedCovers ==
  ASSUME Inv, Packed
  PROVE  Tiling
<1>1. Typed /\ Geometry /\ \A b \in supplied : Base(b) \in Nat /\ Limit(b) \in Nat
  BY InvTyped, BufferBounds DEF Typed, Addr
<1>2. \A a \in nodes : a \in Nat /\ size[a] \in Nat
  BY <1>1, BlockBounds
<1> DEFINE Blocks == UNION {Extent(p) : p \in nodes}
           Bytes  == UNION {Base(b) .. (Limit(b) - 1) : b \in supplied}
<1>3. ASSUME NEW x \in Blocks PROVE x \in Bytes
  <2>1. PICK a \in nodes : x \in a .. (a + size[a] - 1)
    BY <1>3 DEF Extent
  <2>2. PICK b \in supplied : Base(b) <= a /\ a + size[a] <= Limit(b)
    BY <1>1 DEF Geometry, Housed
  <2>3. x \in Base(b) .. (Limit(b) - 1)
    BY <1>1, <1>2, <2>1, <2>2
  <2>. QED
    BY <2>3
<1>4. ASSUME NEW x \in Bytes PROVE x \in Blocks
  <2>1. PICK b \in supplied : x \in Base(b) .. (Limit(b) - 1)
    BY <1>4
  <2>2. PICK a \in nodes : a <= x /\ x < a + size[a]
    BY <2>1 DEF Packed, Filled, Held
  <2>3. x \in Extent(a)
    BY <1>1, <1>2, <2>1, <2>2 DEF Extent
  <2>. QED
    BY <2>3
<1>5. Covered
  BY <1>3, <1>4 DEF Covered
<1>. QED
  BY <1>1, <1>5 DEF Tiling, Packed, Geometry

(* Nothing is lost, handed out twice or left in pieces smaller than the    *)
(* allocated blocks make of it, whatever was split and joined.             *)
THEOREM HeapTiling == Spec => []Tiling
<1>1. Spec => []Packed
  BY InitPacked, SpecInv, NextPacked, PTL DEF Spec
<1>. QED
  BY <1>1, SpecInv, PackedCovers, PTL

-----------------------------------------------------------------------------
(***************************************************************************)
(* What memmgr.c tells about the heap is true of it.                       *)
(***************************************************************************)

(* The walk along the list of all blocks visits them all: the first block  *)
(* in address order that it missed would follow one that it met.           *)
LEMMA WalkMeetsAll ==
  ASSUME Typed, BlockRing, Ordered
  PROVE  Visited(next, next[NULL]) = nodes
<1> SUFFICES ASSUME NEW p \in nodes, NEW T \in SUBSET nodes, next[NULL] \in T \cup {NULL},
                    \A q \in T : next[q] \in T \cup {NULL}, p \notin T
             PROVE  FALSE
  BY DEF Visited
<1>1. nodes \ T \in SUBSET Nat /\ \A q \in nodes : q # NULL /\ q \in Nat
  BY NumberFacts DEF Typed
<1>2. PICK m \in nodes \ T : \A q \in nodes \ T : m <= q
  BY <1>1, LeastNumber
<1>3. PICK l \in nodes \cup {NULL} : l = prev[m] /\ next[l] = m
  BY DEF BlockRing, Ring
<1>4. CASE l = NULL
  BY <1>1, <1>2, <1>3, <1>4
<1>5. CASE l # NULL
  <2>1. m > l /\ l \in nodes
    BY <1>1, <1>2, <1>3, <1>5 DEF Ordered
  <2>2. l \in T
    BY <1>1, <1>2, <2>1
  <2> QED
    BY <1>1, <1>2, <1>3, <2>2
<1> QED
  BY <1>4, <1>5

(* The walk along the free list visits the free blocks and no other.       *)
LEMMA FreeWalkMeetsFree ==
  ASSUME FreeRing, FreeReachable
  PROVE  Visited(nextf, nextf[NULL]) = Free
<1>1. Free \in SUBSET nodes
  BY DEF Free
<1>2. nextf[NULL] \in Free \cup {NULL} /\ \A q \in Free : nextf[q] \in Free \cup {NULL}
  BY DEF FreeRing, Ring
<1>3. ASSUME NEW p \in Visited(nextf, nextf[NULL]) PROVE p \in Free
  BY <1>1, <1>2, <1>3 DEF Visited
<1>4. ASSUME NEW p \in Free, NEW T \in SUBSET nodes, nextf[NULL] \in T \cup {NULL},
             \A q \in T : nextf[q] \in T \cup {NULL}
      PROVE  p \in T
  <2>1. T \cap Free \in SUBSET Free /\ nextf[NULL] \in (T \cap Free) \cup {NULL}
        /\ \A q \in T \cap Free : nextf[q] \in (T \cap Free) \cup {NULL}
    BY <1>2, <1>4
  <2>2. T \cap Free = Free
    BY <2>1 DEF FreeReachable, Reach
  <2> QED
    BY <2>2
<1> QED
  BY <1>1, <1>3, <1>4 DEF Visited

(* What a range of bytes takes, as a sum of ones.                          *)
LEMMA RangeSum ==
  ASSUME NEW a \in Nat, NEW n \in Nat, NEW f, \A x \in a .. (a + n - 1) : f[x] = 1
  PROVE  /\ SumFunctionOnSet(f, a .. (a + n - 1)) = n
         /\ IsFiniteSet(a .. (a + n - 1))
<1>1. a + n - 1 \in Int /\ a \in Int
  OBVIOUS
<1>2. PICK e \in Int : e = a + n - 1
  BY <1>1
<1>3. IsFiniteSet(a .. e) /\ Cardinality(a .. e) = IF a > e THEN 0 ELSE e - a + 1
  BY <1>1, FS_Interval
<1>4. Cardinality(a .. e) = n
  BY <1>2, <1>3
<1> QED
  BY <1>2, <1>3, <1>4, SumCounts

(* Memory is finite.                                                      *)
LEMMA FewAddresses == IsFiniteSet(Addr)
<1>1. 1 \in Int /\ LastAddr \in Int
  BY GeometryAssumption
<1> QED
  BY <1>1, FS_Interval DEF Addr

(* The buffers supplied are finitely many: they start at different bytes.  *)
LEMMA FewBuffers ==
  ASSUME Typed
  PROVE  IsFiniteSet(supplied)
<1>1. \A b \in supplied : b \in Buffers /\ Base(b) \in Addr
  BY BufferBounds DEF Typed
<1>2. ASSUME NEW b \in supplied, NEW c \in supplied, Base(b) = Base(c) PROVE b = c
  <2>1. Base(b) \in Nat /\ Base(b) < Limit(b) /\ Base(c) < Limit(c) /\ Limit(b) \in Nat /\ Limit(c) \in Nat
    BY <1>1, BufferBounds, GeometryAssumption DEF Addr
  <2> QED
    BY <1>1, <1>2, <2>1, BufferAssumption
<1> DEFINE S == {a \in Addr : \E b \in supplied : Base(b) = a}
           h == [a \in S |-> CHOOSE b \in supplied : Base(b) = a]
<1>3. IsFiniteSet(S)
  BY FewAddresses, FS_Subset
<1>4. h \in [S -> supplied] /\ \A b \in supplied : \E a \in S : h[a] = b
  <2>1. \A a \in S : h[a] \in supplied /\ Base(h[a]) = a
    OBVIOUS
  <2>2. \A b \in supplied : Base(b) \in S
    BY <1>1
  <2> QED
    BY <1>2, <2>1, <2>2
<1>5. h \in Surjection(S, supplied)
  BY <1>4 DEF Surjection
<1> HIDE DEF S, h
<1> QED
  BY <1>3, <1>5, FS_Surjection

(* The sizes of the blocks add up to the room in the buffers.              *)
LEMMA BlocksFillBuffers ==
  ASSUME Typed, Geometry, Covered
  PROVE  /\ IsFiniteSet(nodes) /\ \A p \in nodes : size[p] \in Int
         /\ SumFunctionOnSet(size, nodes)
              = SumFunctionOnSet([b \in supplied |-> Usable(b)], supplied)
<1>1. IsFiniteSet(nodes)
  BY FewAddresses, FS_Subset DEF Typed
<1>2. IsFiniteSet(supplied)
  BY FewBuffers
<1> DEFINE ones == [x \in Int |-> 1]
           E == [p \in nodes |-> Extent(p)]
           B == [b \in supplied |-> Base(b) .. (Limit(b) - 1)]
           u == [b \in supplied |-> Usable(b)]
<1>3. \A p \in nodes : p \in Nat /\ size[p] \in Nat
  BY BlockBounds
<1>4. \A b \in supplied : Base(b) \in Nat /\ Usable(b) \in Nat /\ Limit(b) \in Nat /\ Limit(b) = Base(b) + Usable(b)
  BY BufferBounds DEF Typed, Addr
<1>5. ASSUME NEW p \in nodes
      PROVE  SumFunctionOnSet(ones, E[p]) = size[p] /\ IsFiniteSet(E[p]) /\ E[p] \subseteq Int
  <2>1. E[p] = p .. (p + size[p] - 1)
    BY DEF Extent
  <2>2. \A x \in p .. (p + size[p] - 1) : ones[x] = 1
    OBVIOUS
  <2>3. PICK n \in Nat : n = size[p]
    BY <1>3
  <2> HIDE DEF E, ones
  <2>4. \A x \in p .. (p + n - 1) : ones[x] = 1
    BY <2>2, <2>3
  <2>5. SumFunctionOnSet(ones, p .. (p + n - 1)) = n /\ IsFiniteSet(p .. (p + n - 1))
    BY <1>3, <2>4, RangeSum
  <2>6. p .. (p + n - 1) \subseteq Int
    OBVIOUS
  <2> QED
    BY <2>1, <2>3, <2>5, <2>6
<1>6. ASSUME NEW b \in supplied
      PROVE  SumFunctionOnSet(ones, B[b]) = u[b] /\ IsFiniteSet(B[b]) /\ B[b] \subseteq Int
  <2>1. B[b] = Base(b) .. (Base(b) + Usable(b) - 1) /\ u[b] = Usable(b)
    BY <1>4
  <2>2. \A x \in Base(b) .. (Base(b) + Usable(b) - 1) : ones[x] = 1
    OBVIOUS
  <2>3. PICK a \in Nat, n \in Nat : a = Base(b) /\ n = Usable(b)
    BY <1>4
  <2> HIDE DEF B, ones, u
  <2>4. \A x \in a .. (a + n - 1) : ones[x] = 1
    BY <2>2, <2>3
  <2>5. SumFunctionOnSet(ones, a .. (a + n - 1)) = n /\ IsFiniteSet(a .. (a + n - 1))
    BY <2>4, RangeSum
  <2>6. a .. (a + n - 1) \subseteq Int
    OBVIOUS
  <2> QED
    BY <2>1, <2>3, <2>5, <2>6
<1>7. PartsApart(E, nodes)
  BY <1>3 DEF Geometry, Disjoint, Extent, PartsApart
<1>8. PartsApart(B, supplied)
  <2>1. \A b, c \in supplied : b # c => Limit(b) <= Base(c) \/ Limit(c) <= Base(b)
    BY BufferAssumption DEF Typed
  <2> QED
    BY <1>4, <2>1 DEF PartsApart
<1>9. Joint(E, nodes) = Joint(B, supplied)
  <2>1. UNION {E[p] : p \in nodes} = UNION {Extent(p) : p \in nodes}
    OBVIOUS
  <2>2. UNION {B[b] : b \in supplied} = UNION {Base(b) .. (Limit(b) - 1) : b \in supplied}
    OBVIOUS
  <2> HIDE DEF E, B
  <2> QED
    BY <2>1, <2>2 DEF Covered, Joint
<1>10. \A x \in Int : ones[x] \in Int
  OBVIOUS
<1> HIDE DEF ones, E, B, u
<1>11. SumFunctionOnSet(ones, Joint(E, nodes)) = SumFunctionOnSet(size, nodes)
  <2>1. SumsOf(ones, E, nodes, size)
    BY <1>5, <1>10 DEF SumsOf
  <2> QED
    BY ONLY <1>1, <1>7, <2>1, SumParts
<1>12. SumFunctionOnSet(ones, Joint(B, supplied)) = SumFunctionOnSet(u, supplied)
  <2>1. SumsOf(ones, B, supplied, u)
    BY <1>6, <1>10 DEF SumsOf
  <2> QED
    BY ONLY <1>2, <1>8, <2>1, SumParts
<1>13. \A p \in nodes : size[p] \in Int
  BY <1>3
<1> QED
  BY <1>1, <1>9, <1>11, <1>12, <1>13 DEF u

(* The blocks of the owners are the allocated blocks: what one number of a *)
(* block adds up to owner by owner is what it adds up to.                  *)
LEMMA OwnersShare ==
  ASSUME TypeOK, IsFiniteSet(nodes), NEW f, \A p \in nodes : f[p] \in Int,
         NEW g, \A o \in Owners \cup {0} :
                  g[o] = SumFunctionOnSet(f, {p \in allocated : owner[p] = o})
  PROVE  SumFunctionOnSet(f, allocated) = SumFunctionOnSet(g, Owners \cup {0})
<1> DEFINE F == [o \in Owners \cup {0} |-> {p \in allocated : owner[p] = o}]
<1>1. IsFiniteSet(Owners \cup {0})
  BY OwnersAssumption, FS_AddElement
<1>2. IsFiniteSet(allocated) /\ allocated \subseteq nodes /\ nodes \subseteq Addr
  BY FS_Subset DEF TypeOK
<1>3. \A o \in Owners \cup {0} : F[o] \in SUBSET allocated /\ F[o] = {p \in allocated : owner[p] = o}
  OBVIOUS
<1>4. \A p \in allocated : owner[p] \in Owners \cup {0}
  BY <1>2 DEF TypeOK
<1>5. PartsApart(F, Owners \cup {0})
  BY <1>3 DEF PartsApart
<1>6. Joint(F, Owners \cup {0}) = allocated
  <2>1. \A p \in allocated : p \in F[owner[p]]
    BY <1>3, <1>4
  <2> HIDE DEF F
  <2> QED
    BY <1>3, <1>4, <2>1 DEF Joint
<1>7. \A o \in Owners \cup {0} : IsFiniteSet(F[o])
  BY <1>2, <1>3, FS_Subset
<1>8. \A o \in Owners \cup {0} : g[o] = SumFunctionOnSet(f, F[o])
  BY <1>3
<1>9. \A o \in Owners \cup {0} : \A p \in F[o] : f[p] \in Int
  BY <1>2, <1>3
<1> HIDE DEF F
<1>10. SumsOf(f, F, Owners \cup {0}, g)
  BY <1>7, <1>8, <1>9 DEF SumsOf
<1>11. SumFunctionOnSet(f, Joint(F, Owners \cup {0})) = SumFunctionOnSet(g, Owners \cup {0})
  BY ONLY <1>1, <1>5, <1>10, SumParts
<1> QED
  BY <1>6, <1>11

(* The statistics agree in a sound heap.                                   *)
LEMMA SoundAgrees ==
  ASSUME Inv, Tiling, FreeIsUnowned
  PROVE  StatsAgree
<1>1. Typed /\ BlockRing /\ FreeRing /\ FreeReachable /\ Geometry /\ TypeOK /\ Covered
  BY InvTyped DEF Inv, HeapInv, Tiling
<1>2. Visited(next, next[NULL]) = nodes /\ Visited(nextf, nextf[NULL]) = Free
  BY <1>1, WalkMeetsAll, FreeWalkMeetsFree DEF Geometry
<1>3. nodes \cap allocated = allocated /\ nodes \ allocated = Free /\ allocated \subseteq nodes
  BY <1>1 DEF TypeOK, Free
<1>4. /\ IsFiniteSet(nodes) /\ \A p \in nodes : size[p] \in Int
      /\ SumFunctionOnSet(size, nodes)
           = SumFunctionOnSet([b \in supplied |-> Usable(b)], supplied)
  BY <1>1, BlocksFillBuffers
<1> DEFINE accounts == OwnerStats
           totals == [o \in Owners \cup {0} |-> accounts[o].total]
           counts == [o \in Owners \cup {0} |-> accounts[o].count]
           Of(o) == {p \in allocated : owner[p] = o}
<1>5. AllocatedStats.total = Total(allocated) /\ AllocatedStats.count = Cardinality(allocated)
      /\ FreeStats.total = Total(Free) /\ FreeStats.max = Largest(Free)
  BY <1>2, <1>3 DEF AllocatedStats, FreeStats, Stats
<1>6. MaxSize = IF FreeStats.max = 0 THEN 0 ELSE FreeStats.max - HeaderSize
  BY <1>2, <1>5 DEF MaxSize
<1>7. AllocatedStats.total + FreeStats.total
        = SumFunctionOnSet([b \in supplied |-> Usable(b)], supplied)
  <2>1. allocated \cup Free = nodes /\ allocated \cap Free = {}
    BY <1>3
  <2>2. IsFiniteSet(allocated) /\ IsFiniteSet(Free)
    BY <1>3, <1>4, FS_Subset
  <2>3. SumFunctionOnSet(size, allocated \cup Free)
          = SumFunctionOnSet(size, allocated) + SumFunctionOnSet(size, Free)
    BY <1>4, <2>1, <2>2, SumJoins
  <2> QED
    BY <1>4, <1>5, <2>1, <2>3 DEF Total
<1>8. \A o \in Owners \cup {0} : totals[o] = Total(Of(o)) /\ counts[o] = Cardinality(Of(o))
  BY <1>2, <1>3 DEF OwnerStats, Stats
<1> HIDE DEF totals, counts, accounts
<1>9. AllocatedStats.total = SumFunctionOnSet(totals, Owners \cup {0})
  <2>1. \A o \in Owners \cup {0} : totals[o] = SumFunctionOnSet(size, {p \in allocated : owner[p] = o})
    BY <1>8 DEF Total
  <2> QED
    BY <1>1, <1>4, <1>5, <2>1, OwnersShare DEF Total
<1>10. AllocatedStats.count = SumFunctionOnSet(counts, Owners \cup {0})
  <2> DEFINE ones == [x \in nodes |-> 1]
  <2>1. \A x \in nodes : ones[x] = 1 /\ ones[x] \in Int
    OBVIOUS
  <2> HIDE DEF ones
  <2>2. ASSUME NEW S \in SUBSET nodes PROVE SumFunctionOnSet(ones, S) = Cardinality(S)
    BY <1>4, <2>1, FS_Subset, SumCounts
  <2>3. \A o \in Owners \cup {0} : counts[o] = SumFunctionOnSet(ones, {p \in allocated : owner[p] = o})
    BY <1>3, <1>8, <2>2
  <2>4. SumFunctionOnSet(ones, allocated) = SumFunctionOnSet(counts, Owners \cup {0})
    BY <1>1, <1>4, <2>1, <2>3, OwnersShare
  <2> QED
    BY <1>3, <1>5, <2>2, <2>4
<1> QED
  BY <1>6, <1>7, <1>9, <1>10 DEF StatsAgree, totals, counts, accounts

(* A block gets an owner while it is allocated, and loses it when freed.   *)
LEMMA UnownedStep ==
  ASSUME TypeOK, FreeIsUnowned, [Next]_vars
  PROVE  FreeIsUnowned'
<1>1. \A a \in Addr : owner[a] # 0 => a \in allocated
  BY DEF FreeIsUnowned
<1>2. owner \in [Addr -> Owners \cup {0}] /\ allocated \subseteq Addr
  BY DEF TypeOK
<1>3. ASSUME UNCHANGED owner, allocated \subseteq allocated' PROVE FreeIsUnowned'
  BY <1>1, <1>3 DEF FreeIsUnowned
<1>4. ASSUME NEW p \in Addr, FreeBlock(p) PROVE FreeIsUnowned'
  <2>1. owner' = [owner EXCEPT ![p] = 0] /\ allocated' = allocated \ {p}
    BY <1>4 DEF FreeBlock, Disowned
  <2> QED
    BY <1>1, <1>2, <2>1 DEF FreeIsUnowned
<1>5. ASSUME Crash PROVE FreeIsUnowned'
  BY <1>3, <1>5 DEF Crash, fields
<1>6. ASSUME NEW p, NEW bytes, NEW i, Take(p, bytes, i) PROVE FreeIsUnowned'
  BY <1>3, <1>6 DEF Take
<1>7. ASSUME NEW b \in Buffers, Supply(b) PROVE FreeIsUnowned'
  BY <1>3, <1>7 DEF Supply
<1>8. ASSUME NEW bytes \in Requests, AllocateNull(bytes) PROVE FreeIsUnowned'
  BY <1>3, <1>8 DEF AllocateNull, fields
<1>9. ASSUME NEW bytes \in Requests, NEW i \in Ids, Allocate(bytes, i) PROVE FreeIsUnowned'
  BY <1>5, <1>6, <1>9 DEF Allocate, AllocateSplit, AllocateWhole
<1>10. ASSUME NEW p \in allocated, MemFree(p) PROVE FreeIsUnowned'
  BY <1>2, <1>4, <1>5, <1>10 DEF MemFree
<1>11. ASSUME NEW i \in Ids, FreeIdCall(i) PROVE FreeIsUnowned'
  BY <1>3, <1>11 DEF FreeIdCall, fields
<1>12. ASSUME FreeIdStep PROVE FreeIsUnowned'
  <2>1. CASE walk.p \in allocated /\ id[walk.p] = walk.id
    BY <1>2, <1>4, <1>5, <1>12, <2>1 DEF FreeIdStep
  <2>2. CASE ~ (walk.p \in allocated /\ id[walk.p] = walk.id)
    BY <1>3, <1>12, <2>2 DEF FreeIdStep, fields
  <2> QED
    BY <2>1, <2>2
<1>13. ASSUME FreeIdReturn PROVE FreeIsUnowned'
  BY <1>3, <1>13 DEF FreeIdReturn, fields
<1>14. ASSUME NEW p \in allocated, NEW bytes \in Requests, Realloc(p, bytes) PROVE FreeIsUnowned'
  BY <1>3, <1>5, <1>14 DEF Realloc
<1>15. ASSUME NEW p \in allocated, NEW o \in Owners, SetOwner(p, o) PROVE FreeIsUnowned'
  <2>1. owner' = [owner EXCEPT ![p] = o] /\ allocated' = allocated
    BY <1>15 DEF SetOwner
  <2> QED
    BY <1>1, <1>2, <2>1 DEF FreeIsUnowned
<1>16. ASSUME UNCHANGED vars PROVE FreeIsUnowned'
  BY <1>3, <1>16 DEF vars, fields
<1> QED
  BY <1>7, <1>8, <1>9, <1>10, <1>11, <1>12, <1>13, <1>14, <1>15, <1>16 DEF Next

(* What memmgr.c tells about the heap is true of it after any calls: the   *)
(* largest free block that memmgrMaxSize meets on the free list is the one *)
(* that memmgrGetStats meets among all blocks, the statistics leave out no *)
(* byte supplied, and those of the owners add up to those of all.          *)
THEOREM HeapStatsAgree == Spec => []StatsAgree
<1>1. Init => FreeIsUnowned
  BY DEF Init, FreeIsUnowned
<1>2. Inv => TypeOK
  BY DEF Inv, HeapInv
<1>3. Spec => []FreeIsUnowned
  BY <1>1, <1>2, UnownedStep, SpecInv, PTL DEF Spec
<1>4. Spec => []Tiling
  BY HeapTiling
<1> QED
  BY <1>3, <1>4, SpecInv, SoundAgrees, PTL
=============================================================================
